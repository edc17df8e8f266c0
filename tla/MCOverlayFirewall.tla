-------------------------- MODULE MCOverlayFirewall -------------------------
(***************************************************************************)
(* Instances of OverlayFirewall for TLC: two panels.                       *)
(***************************************************************************)
EXTENDS OverlayFirewall, TLC

CONSTANTS p1, p2, a, b

\* A link of its own for each panel.
OneEach == (p1 :> {a}) @@ (p2 :> {b})
=============================================================================
