SPECIFICATION McSpec
CONSTANTS
    Platforms <- McPlatforms
    Manifests <- McManifests
    MaxFailures = 2
    Rules <- McRules
    MaxPacks = 2
    MaxTime = 3
    MaxEvents = 2
INVARIANTS AdvanceTogether DecidesAsReference ActiveToolIsConfirmed
CHECK_DEADLOCK FALSE
