------------------------- MODULE NonceObjectProofs -------------------------
(***************************************************************************)
(* Proofs about NonceObject, for any set of nonces and any lifetimes: an   *)
(* inductive invariant, from which the reclaim alarm never takes a nonce   *)
(* in its lifetime, and the edge keeps the same one-time promise as the    *)
(* native store.                                                           *)
(***************************************************************************)
EXTENDS NonceObject, TLAPS

\* Objects start empty.
LEMMA InitObjectInv == Init => ObjectInv
  BY DEF Init, ObjectInv, TypeOK, RecordAgrees, AlarmsAgree,
         AcceptedWereDelivered, HeldUntilConsumed, NoRecord

\* Every answer keeps the log of answers well formed, and ends the time in
\* which its nonce was unanswered.
LEMMA AnswersTyped ==
  ASSUME ObjectInv, NEW n \in Nonces, NEW o \in Outcomes, Answer(n, o)
  PROVE  /\ answers' \in [Nonces -> SUBSET [said : Outcomes, at : Nat]]
         /\ answers'[n] # {}
         /\ \A m \in Nonces : answers'[m] = {} => answers[m] = {}
<1>1. [said |-> o, at |-> now] \in [said : Outcomes, at : Nat]
  BY DEF ObjectInv, TypeOK
<1> DEFINE a == [said |-> o, at |-> now]
<1>2. answers' = [answers EXCEPT ![n] = @ \cup {a}]
  BY DEF Answer
<1> HIDE DEF a
<1>3. a \in [said : Outcomes, at : Nat]
  BY <1>1 DEF a
<1>4. answers' \in [Nonces -> SUBSET [said : Outcomes, at : Nat]]
  BY <1>2, <1>3 DEF ObjectInv, TypeOK
<1>5. answers'[n] = answers[n] \cup {a}
      /\ \A m \in Nonces : m # n => answers'[m] = answers[m]
  BY <1>2 DEF ObjectInv, TypeOK
<1>6. QED
  BY <1>4, <1>5

\* ObjectInv is preserved by every action.
LEMMA NextObjectInv == ObjectInv /\ [Next]_vars => ObjectInv'
<1> SUFFICES ASSUME ObjectInv, [Next]_vars
             PROVE  ObjectInv'
  OBVIOUS
<1> USE DEF ObjectInv
<1>1. CASE Tick
  BY <1>1 DEF Tick, TypeOK, RecordAgrees, AlarmsAgree, AcceptedWereDelivered,
     HeldUntilConsumed, Delivered
<1>2. ASSUME NEW n \in Nonces, NEW ttl \in TTLs, Issue(n, ttl)
      PROVE  ObjectInv'
  <2>1. now + ttl \in Nat
    BY NonceObjectAssumption DEF TypeOK
  <2>2. n \notin DOMAIN expiry /\ accepted[n] = 0
    BY <1>2 DEF Issue, AcceptedWereDelivered, Delivered, TypeOK
  <2>3. TypeOK'
    BY <1>2, <2>1 DEF TypeOK, Issue, With, Reclaim
  <2>4. RecordAgrees' /\ AlarmsAgree'
    BY <1>2, <2>2 DEF TypeOK, RecordAgrees, AlarmsAgree, Issue, With, Reclaim
  <2>5. AcceptedWereDelivered'
    BY <1>2, <2>2 DEF TypeOK, AcceptedWereDelivered, Issue, With, Delivered
  <2>6. HeldUntilConsumed'
    BY <1>2 DEF TypeOK, HeldUntilConsumed, Issue, With
  <2>7. QED
    BY <2>3, <2>4, <2>5, <2>6
<1>3. ASSUME NEW n \in Nonces, Deliver(n)
      PROVE  ObjectInv'
  BY <1>3 DEF Deliver, TypeOK, RecordAgrees, AlarmsAgree, AcceptedWereDelivered,
     HeldUntilConsumed, Delivered
<1>4. ASSUME NEW n \in Nonces, ConsumeUnknown(n)
      PROVE  ObjectInv'
  <2>1. /\ answers' \in [Nonces -> SUBSET [said : Outcomes, at : Nat]]
        /\ \A m \in Nonces : answers'[m] = {} => answers[m] = {}
    BY <1>4, AnswersTyped DEF ConsumeUnknown, Outcomes
  <2>2. QED
    BY <1>4, <2>1 DEF ConsumeUnknown, TypeOK, RecordAgrees, AlarmsAgree,
       AcceptedWereDelivered, HeldUntilConsumed, Delivered
<1>5. ASSUME NEW n \in Nonces, Consume(n)
      PROVE  ObjectInv'
  <2>1. \E o \in Outcomes : Answer(n, o)
    BY <1>5 DEF Consume, Outcomes
  <2>2. /\ answers' \in [Nonces -> SUBSET [said : Outcomes, at : Nat]]
        /\ answers'[n] # {}
        /\ \A m \in Nonces : answers'[m] = {} => answers[m] = {}
    BY <2>1, AnswersTyped
  <2>3. n \in Delivered
    BY <1>5 DEF Consume, Presented, TypeOK, Delivered
  <2>4. TypeOK'
    BY <1>5, <2>2 DEF Consume, Burned, Without, TypeOK
  <2>5. RecordAgrees' /\ AlarmsAgree'
    BY <1>5 DEF Consume, Burned, Without, TypeOK, RecordAgrees, AlarmsAgree
  <2>6. AcceptedWereDelivered'
    BY <1>5, <2>3 DEF Consume, TypeOK, AcceptedWereDelivered, Delivered
  <2>7. HeldUntilConsumed'
    BY <1>5, <2>2 DEF Consume, Burned, Without, TypeOK, HeldUntilConsumed
  <2>8. QED
    BY <2>4, <2>5, <2>6, <2>7
<1>6. ASSUME NEW n \in Nonces, ConsumeFails(n)
      PROVE  ObjectInv'
  <2>1. /\ answers' \in [Nonces -> SUBSET [said : Outcomes, at : Nat]]
        /\ answers'[n] # {}
        /\ \A m \in Nonces : answers'[m] = {} => answers[m] = {}
    BY <1>6, AnswersTyped DEF ConsumeFails, Outcomes
  <2>2. TypeOK'
    BY <1>6, <2>1 DEF ConsumeFails, Burned, Without, TypeOK
  <2>3. RecordAgrees' /\ AlarmsAgree'
    BY <1>6 DEF ConsumeFails, Burned, Without, TypeOK, RecordAgrees, AlarmsAgree
  <2>4. AcceptedWereDelivered'
    BY <1>6 DEF ConsumeFails, TypeOK, AcceptedWereDelivered, Delivered
  <2>5. HeldUntilConsumed'
    BY <1>6, <2>1 DEF ConsumeFails, Burned, Without, TypeOK, HeldUntilConsumed
  <2>6. QED
    BY <2>2, <2>3, <2>4, <2>5
<1>7. ASSUME NEW n \in Nonces, Alarm(n)
      PROVE  ObjectInv'
  <2>1. now >= expiry[n]
    BY <1>7 DEF Alarm, AlarmsAgree
  <2>2. TypeOK'
    BY <1>7 DEF Alarm, Without, TypeOK
  <2>3. RecordAgrees' /\ AlarmsAgree'
    BY <1>7 DEF Alarm, Without, TypeOK, RecordAgrees, AlarmsAgree
  <2>4. AcceptedWereDelivered'
    BY <1>7 DEF Alarm, AcceptedWereDelivered, Delivered
  <2>5. HeldUntilConsumed'
    BY <1>7, <2>1 DEF Alarm, Without, TypeOK, HeldUntilConsumed
  <2>6. QED
    BY <2>2, <2>3, <2>4, <2>5
<1>8. CASE UNCHANGED vars
  BY <1>8 DEF vars, TypeOK, RecordAgrees, AlarmsAgree, AcceptedWereDelivered,
     HeldUntilConsumed, Delivered
<1>9. QED
  BY <1>1, <1>2, <1>3, <1>4, <1>5, <1>6, <1>7, <1>8 DEF Next

---------------------------------------------------------------------------
\* The invariant that ties an object's record and alarm to what its nonce was
\* issued with and to what its holders were answered (NonceDurableObject).
THEOREM ObjectInvariant == Spec => []ObjectInv
  BY InitObjectInv, NextObjectInv, PTL DEF Spec

\* The reclaim alarm never takes a nonce whose lifetime runs
\* (NonceDurableObject.alarm against consume).
THEOREM AlarmSparesLiveNonces == Spec => []LiveNonceKept
<1>1. ObjectInv => LiveNonceKept
  BY DEF ObjectInv, HeldUntilConsumed, LiveNonceKept, Delivered
<1>2. QED
  BY <1>1, ObjectInvariant, PTL

\* The edge store implements the one-time promise: an accepted consume is the
\* only step its callers can tell from waiting (consume burns before it looks
\* at the expiry).
THEOREM ObjectIsOneTime == Spec => OneTime
<1>1. Init => Promise!Init
  BY DEF Init, Promise!Init, Delivered, NoRecord
<1>2. ASSUME ObjectInv, [Next]_vars
      PROVE  [Promise!Next]_(Promise!vars)
  <2> USE <1>2 DEF ObjectInv
  <2>1. CASE Tick
    BY <2>1 DEF Tick, Delivered, TypeOK, Promise!Next, Promise!Pass
  <2>2. ASSUME NEW n \in Nonces, NEW ttl \in TTLs, Issue(n, ttl)
        PROVE  UNCHANGED Promise!vars
    <3>1. Delivered' = Delivered
      BY <2>2 DEF Issue, With, Delivered, TypeOK
    <3>2. \A m \in Delivered : expiry'[m] = expiry[m]
      BY <2>2 DEF Issue, With, Delivered
    <3>3. QED
      BY <2>2, <3>1, <3>2 DEF Issue, Promise!vars
  <2>3. ASSUME NEW n \in Nonces, Deliver(n)
        PROVE  Promise!Next
    <3>1. n \notin Delivered /\ Delivered' = Delivered \cup {n}
      BY <2>3 DEF Deliver, Delivered, TypeOK
    <3>2. expiry[n] + 1 \in Nat
      BY <2>3 DEF Deliver, TypeOK
    <3>3. Promise!HandOut(n)
      BY <2>3, <3>1, <3>2 DEF Deliver, Promise!HandOut
    <3>4. QED
      BY <3>3 DEF Promise!Next
  <2>4. ASSUME NEW n \in Nonces, Consume(n), ~Expired(n)
        PROVE  Promise!Next
    <3>1. n \in Delivered /\ accepted[n] = 0
      BY <2>4 DEF Consume, Presented, RecordAgrees, TypeOK, Delivered
    <3>2. now < expiry[n] + 1
      BY <2>4 DEF Consume, Expired, RecordAgrees, TypeOK
    <3>3. Promise!Honour(n)
      BY <2>4, <3>1, <3>2 DEF Consume, Delivered, Promise!Honour
    <3>4. QED
      BY <3>3 DEF Promise!Next
  <2>5. ASSUME NEW n \in Nonces,
               \/ ConsumeUnknown(n) \/ ConsumeFails(n) \/ Alarm(n)
               \/ Consume(n) /\ Expired(n)
        PROVE  UNCHANGED Promise!vars
    BY <2>5 DEF ConsumeUnknown, ConsumeFails, Alarm, Consume, Delivered,
       Promise!vars
  <2>6. CASE UNCHANGED vars
    BY <2>6 DEF vars, Delivered, Promise!vars
  <2>7. QED
    BY <2>1, <2>2, <2>3, <2>4, <2>5, <2>6 DEF Next
<1>3. QED
  BY <1>1, <1>2, ObjectInvariant, PTL DEF Spec, OneTime, Promise!Spec
============================================================================
