---------------------------- MODULE SingboxService --------------------------
(***************************************************************************)
(* What the sing-box engines promise: each one serves nothing, or one      *)
(* configuration it was asked for, and nothing in between when it goes     *)
(* from one to another.                                                    *)
(***************************************************************************)
CONSTANTS Engines, Configurations

VARIABLES
    asked,     \* asked[e]: the configurations e was asked for
    serving    \* serving[e]: the configurations its processes run

vars == <<asked, serving>>

Init ==
    /\ asked = [e \in Engines |-> {}]
    /\ serving = [e \in Engines |-> {}]

Ask(e, d) ==
    /\ asked' = [asked EXCEPT ![e] = @ \cup {d}]
    /\ UNCHANGED serving

Serve(e, d) ==
    /\ serving[e] = {} /\ d \in asked[e]
    /\ serving' = [serving EXCEPT ![e] = {d}]
    /\ UNCHANGED asked

\* Some of them end: one that is stopped or fails, all of them with the agent.
Quit(E) ==
    /\ serving' = [e \in Engines |-> IF e \in E THEN {} ELSE serving[e]]
    /\ UNCHANGED asked

Next ==
    \/ \E e \in Engines, d \in Configurations : Ask(e, d) \/ Serve(e, d)
    \/ \E E \in SUBSET Engines : Quit(E)

Spec == Init /\ [][Next]_vars
=============================================================================
