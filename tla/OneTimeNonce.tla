--------------------------- MODULE OneTimeNonce ---------------------------
(***************************************************************************)
(* What a nonce store promises the rest of the system, whichever host      *)
(* implements it: a nonce authorises at most one identify, only after the  *)
(* store handed it out, and only before its deadline.  Every rejection     *)
(* (unknown, expired, reused) and every piece of housekeeping is a         *)
(* stuttering step here.                                                   *)
(***************************************************************************)
EXTENDS Naturals

CONSTANT Nonces      \* the strings a caller may present

VARIABLES
    clock,           \* the store's clock
    deadline,        \* nonce handed out -> first instant it is too late
    honoured         \* nonce -> how many identifies it has authorised

vars == <<clock, deadline, honoured>>

Init ==
    /\ clock \in Nat
    /\ deadline = [n \in {} |-> 0]
    /\ honoured = [n \in Nonces |-> 0]

Pass ==
    /\ clock' \in Nat
    /\ clock' > clock
    /\ UNCHANGED <<deadline, honoured>>

\* A fresh nonce reaches the caller.  Its deadline may already have passed:
\* the store stamps it before it queues for its own lock.
HandOut(n) ==
    /\ n \notin DOMAIN deadline
    /\ DOMAIN deadline' = DOMAIN deadline \cup {n}
    /\ \A m \in DOMAIN deadline : deadline'[m] = deadline[m]
    /\ deadline'[n] \in Nat
    /\ UNCHANGED <<clock, honoured>>

Honour(n) ==
    /\ n \in DOMAIN deadline
    /\ clock < deadline[n]
    /\ honoured[n] = 0
    /\ honoured' = [honoured EXCEPT ![n] = 1]
    /\ UNCHANGED <<clock, deadline>>

Next ==
    \/ Pass
    \/ \E n \in Nonces : HandOut(n)
    \/ \E n \in Nonces : Honour(n)

Spec == Init /\ [][Next]_vars
===========================================================================
