----------------------- MODULE MCFingerprintLibrary -----------------------
(* FingerprintLibrary on the devices of MCDevices, two handlers. *)
EXTENDS FingerprintLibrary, MCDevices

CONSTANTS h1, h2

Symmetry == Permutations({h1, h2})
===========================================================================
