--------------------------- MODULE MCEdgeLibrary ---------------------------
(* EdgeLibrary on the devices of MCDevices. *)
EXTENDS EdgeLibrary, MCDevices

CONSTANTS h1, h2

RawPair == [p \in Pair |-> Raw[p]]

Symmetry == Permutations({h1, h2})
============================================================================
