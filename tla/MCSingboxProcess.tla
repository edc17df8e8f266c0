-------------------------- MODULE MCSingboxProcess --------------------------
(***************************************************************************)
(* Instances of SingboxProcess for TLC: two panels, one of which has its   *)
(* own sing-box.                                                           *)
(***************************************************************************)
EXTENDS SingboxProcess, TLC

CONSTANTS e1, e2, c1, c2, c3, usrlocal, opt

\* A switch to the kernel engine and back to another configuration.
Changes == (e1 :> <<c1, Kernel, c2>>) @@ (e2 :> <<c3>>)

\* A revision that changes nothing for sing-box.
Repeats == (e1 :> <<c1, c1>>) @@ (e2 :> <<c2>>)

OwnPaths == (e1 :> usrlocal) @@ (e2 :> opt)

TwoNodes == (e1 :> 1) @@ (e2 :> 2)
=============================================================================
