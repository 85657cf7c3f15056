-------------------------- MODULE MCEdgeVelocity --------------------------
(***************************************************************************)
(* EdgeVelocity with one IP and one class, two devices and two requests at *)
(* once: bumps of both entities in both orders, an alarm dispatched and    *)
(* overtaken by a bump, a member bumped again before and at its expiry.    *)
(***************************************************************************)
EXTENDS EdgeVelocity, TLC

CONSTANTS h1, h2, v1, v2
Symmetry == Permutations({h1, h2}) \cup Permutations({v1, v2})
===========================================================================
