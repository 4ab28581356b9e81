------------------------ MODULE MCCandidateSoftware ------------------------
EXTENDS CandidateSoftware

\* A verified profile with a matched extension, and a browser without a rule pack.
Seen == {[proved |-> TRUE, packVerified |-> TRUE, extensions |-> 1],
         [proved |-> FALSE, packVerified |-> FALSE, extensions |-> 1]}

\* Three commits, the second of which changes only the version of the Windows agent.
McVersions ==
    [a |-> [WINDOWS |-> 1, MACOS |-> 1], b |-> [WINDOWS |-> 2, MACOS |-> 1],
     c |-> [WINDOWS |-> 2, MACOS |-> 2]]
=============================================================================
