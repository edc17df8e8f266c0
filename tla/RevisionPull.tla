---------------------------- MODULE RevisionPull ----------------------------
(***************************************************************************)
(* What the pull model promises, whatever the datapath: the panel          *)
(* publishes revisions, the agent holds one of them, moves only forward,   *)
(* may skip revisions, may lose what it holds (a restart, a zero answer),  *)
(* and ends up holding the newest one.  0 is "holds none".                 *)
(***************************************************************************)
EXTENDS Naturals

CONSTANT MaxRev     \* bound on the published revisions

VARIABLES top, held

vars == <<top, held>>

Init == top = 1 /\ held = 0

Publish ==
    /\ top < MaxRev
    /\ top' = top + 1
    /\ UNCHANGED held

Pull ==
    /\ held' \in (held + 1)..top
    /\ UNCHANGED top

Forget ==
    /\ held' = 0
    /\ UNCHANGED top

Next == Publish \/ Pull \/ Forget

Spec == Init /\ [][Next]_vars

\* A revision that is published and not held is pulled in the end.
FairSpec == Spec /\ WF_vars(Pull)
=============================================================================
