--------------------------- MODULE MCNonceObject ---------------------------
(***************************************************************************)
(* NonceObject on two nonces over a few milliseconds: time for a nonce to  *)
(* be issued, delivered late, consumed, replayed, to lose an answer, to    *)
(* expire and to be reclaimed.  Objects share nothing but the clock.       *)
(***************************************************************************)
EXTENDS NonceObject, TLC

CONSTANTS n1, n2
Symmetry == Permutations({n1, n2})
============================================================================
