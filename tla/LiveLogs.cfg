SPECIFICATION LogSpec
CONSTANTS
    Panels = {p1, p2}
    Writers = {w1, w2}
    MaxSequence = 5
    PageLimit = 2
    MaxFaults = 2
INVARIANTS PanelMissesNothing
PROPERTY PanelsCatchUp
