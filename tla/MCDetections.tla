---------------------------- MODULE MCDetections ----------------------------
(***************************************************************************)
(* Two rules for programs, one of them in need of a browser extension, and    *)
(* one for that extension; a machine of either kind; a server that offers an   *)
(* update and withdraws it.                                                *)
(***************************************************************************)
EXTENDS Detections

McPlatforms == {"WINDOWS", "MACOS"}
McManifests == <<[version |-> 2, minimum |-> 1], [version |-> 1, minimum |-> 1]>>
McRules ==
    [tool |-> [pack |-> "NATIVE", confidence |-> "HIGH", requires |-> {}, signs |-> {"OVERLAY"}],
     helper |-> [pack |-> "NATIVE", confidence |-> "MEDIUM", requires |-> {"extension"},
                 signs |-> {"AUDIO"}],
     extension |-> [pack |-> "CHROME", confidence |-> "MEDIUM", requires |-> {},
                    signs |-> {"ENABLED"}]]

\* Bound of the model: where the link is opened while a helper is at work, nothing
\* is ever published.
McNext == Next /\ (failures'.overlaps > 0 => packs' = <<>>)
McSpec == Init /\ [][McNext]_vars
=============================================================================
