----------------------------- MODULE MCCheckIn -----------------------------
(***************************************************************************)
(* CheckIn with two accounts, two devices behind one IP, two requests at a *)
(* time and thresholds of one: three check-ins make a farm, a shared       *)
(* egress, a churning account and a regular cadence.                       *)
(***************************************************************************)
EXTENDS CheckIn, TLC

CONSTANTS h1, h2, a1, a2, v1, v2, ip

Symmetry == Permutations({h1, h2}) \cup Permutations({a1, a2}) \cup Permutations({v1, v2})
============================================================================
