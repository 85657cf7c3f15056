--------------------------- MODULE MCFuzzyStore ---------------------------
(* FuzzyStore on the devices of MCDevices, one client IP and JA4 class. *)
EXTENDS FuzzyStore, MCDevices

CONSTANTS h1, h2, ip, class

SomeOrigins == {<<>>, <<ip, class>>}
OneOrigin == {<<ip, class>>}

Symmetry == Permutations({h1, h2})
===========================================================================
