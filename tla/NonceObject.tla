---------------------------- MODULE NonceObject ----------------------------
(***************************************************************************)
(* The edge's nonce store (apps/edge/src/lib/do/nonce-do.ts): one durable  *)
(* object per nonce, holding at most one record, with an alarm that        *)
(* reclaims it.  An object runs one invocation at a time and its storage   *)
(* calls are not interleaved with other events, so issue, consume and      *)
(* alarm are each one step.  What is not atomic is the call around them:   *)
(* the Worker that asked may get its answer late, or an error instead.     *)
(***************************************************************************)
EXTENDS Naturals

CONSTANTS
    Nonces,     \* the UUIDs that may be drawn and the strings presented
    TTLs,       \* lifetimes: intVar admits zero (config/index.ts)
    MaxTime     \* bound: the last instant

ASSUME NonceObjectAssumption == TTLs \subseteq Nat /\ MaxTime \in Nat

VARIABLES
    now,        \* Date.now(), in milliseconds
    record,     \* nonce -> expiresAt, for the objects that hold a record
    alarms,     \* nonce -> when its object's alarm is due, if one is set
    inFlight,   \* nonces whose issue has not returned to its caller
    expiry,     \* history: nonce -> the expiresAt it was issued with
    accepted,   \* history: nonce -> how many callers were answered valid
    answers     \* history: nonce -> the answers its holders got, with times

vars == <<now, record, alarms, inFlight, expiry, accepted, answers>>

NoRecord == [n \in {} |-> 0]
Outcomes == {"valid", "expired", "unknown"}

\* Nonces some caller holds.
Delivered == DOMAIN expiry \ inFlight

Init ==
    /\ now = 0
    /\ record = NoRecord /\ alarms = NoRecord /\ expiry = NoRecord
    /\ inFlight = {}
    /\ accepted = [n \in Nonces |-> 0]
    /\ answers = [n \in Nonces |-> {}]

Tick ==
    /\ now < MaxTime
    /\ now' = now + 1
    /\ UNCHANGED <<record, alarms, inFlight, expiry, accepted, answers>>

With(map, n, t) == [m \in DOMAIN map \cup {n} |-> IF m = n THEN t ELSE map[m]]
Without(map, n) == [m \in DOMAIN map \ {n} |-> map[m]]

---------------------------------------------------------------------------
\* Mutants of Reclaim: the alarm set for every lifetime one instant early,
\* and never set.
Reclaim_Early(n, ttl) == IF ttl > 0 THEN With(alarms, n, now + ttl - 1) ELSE alarms
Reclaim_Never(n, ttl) == alarms

\* setAlarm(expiresAt), unless the nonce is born expired.
Reclaim(n, ttl) == IF ttl > 0 THEN With(alarms, n, now + ttl) ELSE alarms

\* issue, in the object of a UUID never drawn before ...
Issue(n, ttl) ==
    /\ n \notin DOMAIN expiry
    /\ record' = With(record, n, now + ttl)
    /\ alarms' = Reclaim(n, ttl)
    /\ expiry' = With(expiry, n, now + ttl)
    /\ inFlight' = inFlight \cup {n}
    /\ UNCHANGED <<now, accepted, answers>>

\* ... and back in the Worker.  An issue that failed stays in flight for ever:
\* the caller gets an error, the record may be stored all the same.
Deliver(n) ==
    /\ n \in inFlight
    /\ inFlight' = inFlight \ {n}
    /\ UNCHANGED <<now, record, alarms, expiry, accepted, answers>>

---------------------------------------------------------------------------
Answer(n, outcome) ==
    answers' = [answers EXCEPT ![n] = @ \cup {[said |-> outcome, at |-> now]}]

\* Callers present nonces they hold or strings nobody drew: a UUID that has
\* not been delivered is not guessed.
Presented(n) == n \notin inFlight

ConsumeUnknown(n) ==
    /\ Presented(n)
    /\ n \notin DOMAIN record
    /\ Answer(n, "unknown")
    /\ UNCHANGED <<now, record, alarms, inFlight, expiry, accepted>>

\* Mutants: the record left in place; expiry not looked at.
Burned_Not(n) == record
Expired_Never(n) == FALSE

\* Burn first, then look at the expiry; the last millisecond still counts.
Burned(n) == Without(record, n)
Expired(n) == now > record[n]

Consume(n) ==
    /\ Presented(n)
    /\ n \in DOMAIN record
    /\ record' = Burned(n)
    /\ alarms' = Without(alarms, n)
    /\ IF Expired(n)
       THEN Answer(n, "expired") /\ UNCHANGED accepted
       ELSE Answer(n, "valid") /\ accepted' = [accepted EXCEPT ![n] = @ + 1]
    /\ UNCHANGED <<now, inFlight, expiry>>

\* The object's answer is not ok: the Worker reads it as unknown, and the
\* record may or may not have been burned.
ConsumeFails(n) ==
    /\ Presented(n)
    /\ \/ record' = Burned(n) /\ alarms' = Without(alarms, n)
       \/ UNCHANGED <<record, alarms>>
    /\ Answer(n, "unknown")
    /\ UNCHANGED <<now, inFlight, expiry, accepted>>

\* The alarm fires at its time or later.  (Delivered again, it finds nothing.)
Alarm(n) ==
    /\ n \in DOMAIN alarms
    /\ now >= alarms[n]
    /\ record' = Without(record, n)
    /\ alarms' = Without(alarms, n)
    /\ UNCHANGED <<now, inFlight, expiry, accepted, answers>>

Next ==
    \/ Tick
    \/ \E n \in Nonces, ttl \in TTLs : Issue(n, ttl)
    \/ \E n \in Nonces : Deliver(n)
    \/ \E n \in Nonces : ConsumeUnknown(n)
    \/ \E n \in Nonces : Consume(n)
    \/ \E n \in Nonces : ConsumeFails(n)
    \/ \E n \in Nonces : Alarm(n)

Spec == Init /\ [][Next]_vars

\* Time passes and alarms that are due are delivered; nobody has to consume.
FairSpec == Spec /\ WF_vars(Tick) /\ \A n \in Nonces : WF_vars(Alarm(n))

---------------------------------------------------------------------------
\* Types of the state and of its history.
TypeOK ==
    /\ now \in Nat
    /\ DOMAIN record \subseteq DOMAIN expiry
    /\ record \in [DOMAIN record -> Nat]
    /\ DOMAIN alarms \subseteq DOMAIN record
    /\ alarms \in [DOMAIN alarms -> Nat]
    /\ DOMAIN expiry \subseteq Nonces
    /\ expiry \in [DOMAIN expiry -> Nat]
    /\ inFlight \subseteq DOMAIN expiry
    /\ accepted \in [Nonces -> Nat]
    /\ answers \in [Nonces -> SUBSET [said : Outcomes, at : Nat]]

(***************************************************************************)
(* The one-time promise, by the same abstract specification as the native  *)
(* store: nothing is accepted twice, undelivered or late, whatever answers *)
(* are lost.  A nonce is good up to and including its expiresAt.           *)
(***************************************************************************)
Promise == INSTANCE OneTimeNonce WITH
    clock <- now,
    deadline <- [n \in Delivered |-> expiry[n] + 1],
    honoured <- accepted

OneTime == Promise!Spec

(***************************************************************************)
(* The reclaim alarm never races a consume in time: a caller who holds a   *)
(* nonce and was never answered finds it accepted until its lifetime is    *)
(* over.                                                                   *)
(***************************************************************************)
LiveNonceKept ==
    \A n \in Delivered :
        now < expiry[n] /\ answers[n] = {} => n \in DOMAIN record

(***************************************************************************)
(* "An alarm set to the expiry burns an un-consumed nonce so storage does  *)
(* not leak": a record with a lifetime is gone some time, though nobody    *)
(* consumes.  (Of expiries the bounded clock reaches.  A lifetime of zero  *)
(* sets no alarm: that record stays until it is consumed.)                 *)
(***************************************************************************)
Unexpired(n) == n \in DOMAIN record /\ now < record[n] /\ record[n] <= MaxTime

UnusedIsReclaimed == \A n \in Nonces : Unexpired(n) ~> n \notin DOMAIN record

---------------------------------------------------------------------------
\* The inductive invariant behind OneTime and LiveNonceKept.
RecordAgrees ==
    \A n \in DOMAIN record : record[n] = expiry[n] /\ accepted[n] = 0

AlarmsAgree == \A n \in DOMAIN alarms : alarms[n] = expiry[n]

AcceptedWereDelivered == \A n \in Nonces : accepted[n] > 0 => n \in Delivered

HeldUntilConsumed ==
    \A n \in DOMAIN expiry :
        now < expiry[n] /\ answers[n] = {} => n \in DOMAIN record

ObjectInv ==
    /\ TypeOK
    /\ RecordAgrees
    /\ AlarmsAgree
    /\ AcceptedWereDelivered
    /\ HeldUntilConsumed
============================================================================
