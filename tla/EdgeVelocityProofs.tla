------------------------- MODULE EdgeVelocityProofs -------------------------
(***************************************************************************)
(* Proofs about EdgeVelocity, for any entities, visitors, window and any   *)
(* number of requests: what an object counts is its rolling window.        *)
(***************************************************************************)
EXTENDS EdgeVelocity, WellFoundedInduction, TLAPS

\* No object holds a record at the start.
LEMMA InitVelocityInv == Init => VelocityInv
  BY DEF Init, Nothing, VelocityInv, TypeOK, MembersWereSeen, SeenAreMembers, SeenBefore

---------------------------------------------------------------------------
\* What is left of a record after the prune: its live members, with the
\* expiries they had.
LEMMA RemainingMembers ==
  ASSUME VelocityInv, NEW e \in Entities
  PROVE  /\ DOMAIN Remaining(e) \subseteq Visitors
         /\ \A v \in DOMAIN Remaining(e) :
                /\ e \in DOMAIN members /\ v \in DOMAIN members[e]
                /\ Remaining(e)[v] = members[e][v]
                /\ Remaining(e)[v] \in Nat
         /\ \A s \in seen : s.entity = e /\ InWindow(s) =>
                /\ s.visitor \in DOMAIN Remaining(e)
                /\ Remaining(e)[s.visitor] >= s.at + Window
<1>1. /\ \A v \in DOMAIN Remaining(e) :
             v \in DOMAIN Stored(e) /\ Remaining(e)[v] = Stored(e)[v]
      /\ \A v \in DOMAIN Stored(e) : Stored(e)[v] > now => v \in DOMAIN Remaining(e)
  BY DEF Remaining, Live
<1>2. e \in DOMAIN members => Stored(e) = members[e]
  BY DEF Stored
<1>3. e \notin DOMAIN members => DOMAIN Stored(e) = {}
  BY DEF Stored, Nothing
<1>4. \A v \in DOMAIN Remaining(e) :
          /\ e \in DOMAIN members /\ v \in DOMAIN members[e]
          /\ Remaining(e)[v] = members[e][v]
  BY <1>1, <1>2, <1>3
<1>5. \A v \in DOMAIN Remaining(e) : v \in Visitors /\ Remaining(e)[v] \in Nat
  BY <1>4 DEF VelocityInv, TypeOK
<1>6. ASSUME NEW s \in seen, s.entity = e, InWindow(s)
      PROVE  /\ s.visitor \in DOMAIN Remaining(e)
             /\ Remaining(e)[s.visitor] >= s.at + Window
  <2>1. /\ e \in DOMAIN members /\ s.visitor \in DOMAIN members[e]
        /\ members[e][s.visitor] >= s.at + Window
    BY <1>6 DEF VelocityInv, SeenAreMembers
  <2>2. members[e][s.visitor] \in Nat /\ s.at \in Nat /\ now \in Nat
    BY <2>1 DEF VelocityInv, TypeOK
  <2>3. members[e][s.visitor] > now
    BY <1>6, <2>1, <2>2, EdgeVelocityAssumption DEF InWindow
  <2>4. QED
    BY <1>1, <1>2, <2>1, <2>3
<1>7. QED
  BY <1>4, <1>5, <1>6

\* A step in which no object is touched and time does not go back.
LEMMA ObjectsStay ==
  ASSUME VelocityInv, UNCHANGED <<members, seen>>, now' \in Nat, now' >= now, TypeOK'
  PROVE  VelocityInv'
<1>1. MembersWereSeen'
  BY DEF VelocityInv, MembersWereSeen
<1>2. \A s \in seen' : s \in seen /\ s.at \in Nat /\ (InWindow(s)' => InWindow(s))
  BY EdgeVelocityAssumption DEF VelocityInv, TypeOK, InWindow
<1>3. SeenAreMembers'
  BY <1>2 DEF VelocityInv, SeenAreMembers
<1>4. SeenBefore'
  BY <1>2 DEF VelocityInv, TypeOK, SeenBefore
<1>5. QED
  BY <1>1, <1>3, <1>4 DEF VelocityInv

---------------------------------------------------------------------------
\* A bump prunes what the window has left, and its member expires last.
LEMMA BumpKeepsObjects ==
  ASSUME VelocityInv, NEW e \in Entities, NEW v \in Visitors, BumpObject(e, v), now' = now
  PROVE  /\ DOMAIN members' \subseteq Entities
         /\ \A d \in DOMAIN members' :
               /\ DOMAIN members'[d] \subseteq Visitors
               /\ members'[d] \in [DOMAIN members'[d] -> Nat]
         /\ DOMAIN alarms' \subseteq Entities
         /\ seen' \subseteq [entity : Entities, visitor : Visitors, at : Nat]
         /\ MembersWereSeen' /\ SeenAreMembers' /\ SeenBefore'
<1> DEFINE b == [entity |-> e, visitor |-> v, at |-> now]
           record == Bumped(e, v)
<1>1. /\ seen' = seen \cup {b} /\ b \in seen'
      /\ DOMAIN members' = DOMAIN members \cup {e}
      /\ members'[e] = record
      /\ \A d \in DOMAIN members : d # e => members'[d] = members[d]
      /\ DOMAIN alarms' = DOMAIN alarms \cup {e}
  BY DEF BumpObject, With, Armed
<1>2. /\ DOMAIN record = DOMAIN Remaining(e) \cup {v}
      /\ record[v] = now + Window
      /\ \A w \in DOMAIN Remaining(e) : w # v => record[w] = Remaining(e)[w]
      /\ record \in [DOMAIN record -> {record[w] : w \in DOMAIN record}]
  BY DEF Bumped, With
<1>3. now \in Nat /\ Window \in Nat /\ now + Window \in Nat /\ now + Window > now
  BY EdgeVelocityAssumption DEF VelocityInv, TypeOK
<1>4. /\ DOMAIN Remaining(e) \subseteq Visitors
      /\ \A w \in DOMAIN Remaining(e) :
             /\ e \in DOMAIN members /\ w \in DOMAIN members[e]
             /\ Remaining(e)[w] = members[e][w]
             /\ Remaining(e)[w] \in Nat
      /\ \A s \in seen : s.entity = e /\ InWindow(s) =>
             /\ s.visitor \in DOMAIN Remaining(e)
             /\ Remaining(e)[s.visitor] >= s.at + Window
  BY RemainingMembers
<1> HIDE DEF record
<1>5. \A w \in DOMAIN record : w \in Visitors /\ record[w] \in Nat
  BY <1>2, <1>3, <1>4
<1>6. record \in [DOMAIN record -> Nat]
  BY <1>2, <1>5
<1>7. b \in [entity : Entities, visitor : Visitors, at : Nat]
  BY <1>3
<1>8. MembersWereSeen'
  <2>1. \A w \in DOMAIN record :
            \E s \in seen' : s.entity = e /\ s.visitor = w /\ s.at + Window = record[w]
    <3> SUFFICES ASSUME NEW w \in DOMAIN record
                 PROVE  \E s \in seen' : s.entity = e /\ s.visitor = w
                                         /\ s.at + Window = record[w]
      OBVIOUS
    <3>1. CASE w = v
      BY <1>1, <1>2, <3>1
    <3>2. CASE w # v
      BY <1>1, <1>2, <1>4, <3>2 DEF VelocityInv, MembersWereSeen
    <3>3. QED
      BY <3>1, <3>2
  <2>2. QED
    BY <1>1, <2>1 DEF VelocityInv, MembersWereSeen
<1>9. SeenAreMembers'
  <2> SUFFICES ASSUME NEW s \in seen', InWindow(s)'
               PROVE  /\ s.entity \in DOMAIN members'
                      /\ s.visitor \in DOMAIN members'[s.entity]
                      /\ members'[s.entity][s.visitor] >= s.at + Window
    BY DEF SeenAreMembers
  <2>1. CASE s = b
    BY <1>1, <1>2, <1>3, <2>1
  <2>2. CASE s \in seen /\ s.entity # e
    BY <1>1, <2>2 DEF VelocityInv, SeenAreMembers, InWindow
  <2>3. CASE s \in seen /\ s.entity = e /\ s.visitor # v
    BY <1>1, <1>2, <1>4, <2>3 DEF InWindow
  <2>4. CASE s \in seen /\ s.entity = e /\ s.visitor = v
    <3>1. s.at \in Nat /\ s.at <= now
      BY <2>4 DEF VelocityInv, TypeOK, SeenBefore
    <3>2. QED
      BY <1>1, <1>2, <1>3, <2>4, <3>1
  <2>5. QED
    BY <1>1, <2>1, <2>2, <2>3, <2>4
<1>10. SeenBefore'
  BY <1>1, <1>3 DEF VelocityInv, SeenBefore
<1>11. QED
  BY <1>1, <1>5, <1>6, <1>7, <1>8, <1>9, <1>10 DEF VelocityInv, TypeOK

\* The alarm's handler takes away only what the window has left.
LEMMA AlarmKeepsInv ==
  ASSUME VelocityInv, NEW e \in Entities, AlarmRuns(e)
  PROVE  VelocityInv'
<1>1. /\ DOMAIN Remaining(e) \subseteq Visitors
      /\ \A w \in DOMAIN Remaining(e) :
             /\ e \in DOMAIN members /\ w \in DOMAIN members[e]
             /\ Remaining(e)[w] = members[e][w]
             /\ Remaining(e)[w] \in Nat
      /\ \A s \in seen : s.entity = e /\ InWindow(s) =>
             /\ s.visitor \in DOMAIN Remaining(e)
             /\ Remaining(e)[s.visitor] >= s.at + Window
  BY RemainingMembers
<1>2. UNCHANGED <<now, requests, jobs, seen>> /\ firing' \subseteq firing
  BY DEF AlarmRuns
<1>3. /\ DOMAIN members' \subseteq DOMAIN members \cup {e}
      /\ DOMAIN alarms' \subseteq DOMAIN alarms \cup {e}
      /\ \A d \in DOMAIN members : d # e => d \in DOMAIN members' /\ members'[d] = members[d]
      /\ e \in DOMAIN members' => members'[e] = Remaining(e)
      /\ DOMAIN Remaining(e) # {} => e \in DOMAIN members'
  BY DEF AlarmRuns, With, Without, Armed
<1>4. Remaining(e) \in [DOMAIN Remaining(e) -> Nat]
  <2>1. Remaining(e) \in [DOMAIN Remaining(e) -> {Remaining(e)[v] : v \in DOMAIN Remaining(e)}]
    BY DEF Remaining
  <2>2. QED
    BY <1>1, <2>1
<1>5. TypeOK'
  BY <1>1, <1>2, <1>3, <1>4 DEF VelocityInv, TypeOK
<1>6. MembersWereSeen'
  BY <1>1, <1>2, <1>3 DEF VelocityInv, MembersWereSeen
<1>7. SeenAreMembers'
  <2> SUFFICES ASSUME NEW s \in seen, InWindow(s)
               PROVE  /\ s.entity \in DOMAIN members'
                      /\ s.visitor \in DOMAIN members'[s.entity]
                      /\ members'[s.entity][s.visitor] >= s.at + Window
    BY <1>2 DEF SeenAreMembers, InWindow
  <2>1. CASE s.entity = e
    BY <1>1, <1>3, <2>1
  <2>2. CASE s.entity # e
    BY <1>3, <2>2 DEF VelocityInv, SeenAreMembers
  <2>3. QED
    BY <2>1, <2>2
<1>8. SeenBefore'
  BY <1>2 DEF VelocityInv, SeenBefore
<1>9. QED
  BY <1>5, <1>6, <1>7, <1>8 DEF VelocityInv

---------------------------------------------------------------------------
\* A request's own step: its record stays well formed.
LEMMA JobStays ==
  ASSUME VelocityInv, NEW h \in Handlers, Pending(h), NEW t \in Seq(Entities), NEW c,
         jobs' = [jobs EXCEPT ![h] = [@ EXCEPT !.todo = t, !.counts = c]]
  PROVE  /\ DOMAIN jobs' \subseteq Handlers
         /\ \A g \in DOMAIN jobs' :
               /\ DOMAIN jobs'[g] = {"visitor", "todo", "counts"}
               /\ jobs'[g].visitor \in Visitors
               /\ jobs'[g].todo \in Seq(Entities)
<1>1. h \in DOMAIN jobs /\ DOMAIN jobs[h] = {"visitor", "todo", "counts"}
      /\ jobs[h].visitor \in Visitors
  BY DEF Pending, VelocityInv, TypeOK
<1>2. jobs'[h] = [jobs[h] EXCEPT !.todo = t, !.counts = c]
  BY <1>1
<1>3. DOMAIN jobs'[h] = {"visitor", "todo", "counts"}
      /\ jobs'[h].visitor = jobs[h].visitor /\ jobs'[h].todo = t
  BY <1>1, <1>2
<1>4. DOMAIN jobs' = DOMAIN jobs /\ \A g \in DOMAIN jobs : g # h => jobs'[g] = jobs[g]
  OBVIOUS
<1>5. QED
  BY <1>1, <1>3, <1>4 DEF VelocityInv, TypeOK

\* VelocityInv is preserved by every action.
LEMMA NextVelocityInv == VelocityInv /\ [Next]_vars => VelocityInv'
<1> SUFFICES ASSUME VelocityInv, [Next]_vars
             PROVE  VelocityInv'
  OBVIOUS
<1>t. TypeOK
  BY DEF VelocityInv
<1>h. ASSUME NEW h \in Handlers, Pending(h)
      PROVE  /\ Target(h) \in Entities /\ jobs[h].visitor \in Visitors
             /\ Tail(jobs[h].todo) \in Seq(Entities)
  BY <1>t, <1>h DEF Pending, Target, TypeOK
<1>1. CASE Tick
  BY <1>t, <1>1, ObjectsStay DEF Tick, TypeOK
<1>2. ASSUME NEW h \in Handlers, NEW v \in Visitors, NEW t \in Targets, Arrive(h, v, t)
      PROVE  VelocityInv'
  <2>1. t \in Seq(Entities)
    <3>1. CASE t \in {<<e>> : e \in Entities}
      <4>1. PICK e \in Entities : t = <<e>>
        BY <3>1
      <4>2. QED
        BY <4>1
    <3>2. CASE t \in Ips \X Classes
      <4>1. PICK i \in Entities, c \in Entities : t = <<i, c>>
        BY <3>2 DEF Entities
      <4>2. QED
        BY <4>1
    <3>3. QED
      BY <3>1, <3>2 DEF Targets
  <2>2. /\ DOMAIN jobs' = DOMAIN jobs \cup {h} /\ h \notin DOMAIN jobs
        /\ \A g \in DOMAIN jobs : jobs'[g] = jobs[g]
        /\ jobs'[h] = [visitor |-> v, todo |-> t, counts |-> Nothing]
    BY <1>2 DEF Arrive
  <2>3. /\ requests' = requests + 1
        /\ UNCHANGED <<now, members, alarms, firing, seen>>
    BY <1>2 DEF Arrive
  <2>4. \A g \in DOMAIN jobs' :
            /\ DOMAIN jobs'[g] = {"visitor", "todo", "counts"}
            /\ jobs'[g].visitor \in Visitors
            /\ jobs'[g].todo \in Seq(Entities)
    BY <1>t, <2>1, <2>2 DEF TypeOK
  <2>5. DOMAIN jobs' \subseteq Handlers /\ requests' \in Nat
    BY <1>t, <2>2, <2>3 DEF TypeOK
  <2>6. TypeOK'
    BY <1>t, <2>3, <2>4, <2>5 DEF TypeOK
  <2>7. QED
    BY <1>t, <2>3, <2>6, ObjectsStay DEF TypeOK
<1>3. ASSUME NEW h \in Handlers, Bump(h)
      PROVE  VelocityInv'
  <2>1. Pending(h) /\ BumpObject(Target(h), jobs[h].visitor)
        /\ UNCHANGED <<now, requests, firing>>
    BY <1>3 DEF Bump
  <2>2. PICK c : jobs' = [jobs EXCEPT ![h] = [@ EXCEPT !.todo = Tail(jobs[h].todo), !.counts = c]]
    <3>1. h \in DOMAIN jobs
      BY <2>1 DEF Pending
    <3>2. PICK x : jobs' = [jobs EXCEPT ![h].todo = Tail(@),
                                        ![h].counts = With(@, Target(h), x)]
      BY <1>3 DEF Bump
    <3>3. jobs' = [jobs EXCEPT ![h] = [@ EXCEPT !.todo = Tail(jobs[h].todo),
                                                !.counts = With(jobs[h].counts, Target(h), x)]]
      BY <3>1, <3>2
    <3>4. QED
      BY <3>3
  <2>3. /\ DOMAIN jobs' \subseteq Handlers
        /\ \A g \in DOMAIN jobs' :
               /\ DOMAIN jobs'[g] = {"visitor", "todo", "counts"}
               /\ jobs'[g].visitor \in Visitors
               /\ jobs'[g].todo \in Seq(Entities)
    BY <1>h, <2>1, <2>2, JobStays
  <2>4. QED
    BY <1>t, <1>h, <2>1, <2>3, BumpKeepsObjects DEF VelocityInv, TypeOK
<1>4. ASSUME NEW h \in Handlers, BumpFails(h)
      PROVE  VelocityInv'
  <2>1. Pending(h) /\ UNCHANGED <<now, requests, firing>>
        /\ jobs' = [jobs EXCEPT ![h] = [@ EXCEPT !.todo = <<>>, !.counts = Nothing]]
    BY <1>4 DEF BumpFails
  <2>2. /\ DOMAIN jobs' \subseteq Handlers
        /\ \A g \in DOMAIN jobs' :
               /\ DOMAIN jobs'[g] = {"visitor", "todo", "counts"}
               /\ jobs'[g].visitor \in Visitors
               /\ jobs'[g].todo \in Seq(Entities)
    <3>1. <<>> \in Seq(Entities)
      OBVIOUS
    <3>2. QED
      BY <2>1, <3>1, JobStays
  <2>3. CASE BumpObject(Target(h), jobs[h].visitor)
    BY <1>t, <1>h, <2>1, <2>2, <2>3, BumpKeepsObjects DEF VelocityInv, TypeOK
  <2>4. CASE UNCHANGED <<members, alarms, seen>>
    <3>1. TypeOK'
      BY <1>t, <2>1, <2>2, <2>4 DEF TypeOK
    <3>2. QED
      BY <1>t, <2>1, <2>4, <3>1, ObjectsStay DEF TypeOK
  <2>5. QED
    BY <1>4, <2>3, <2>4 DEF BumpFails
<1>5. ASSUME NEW h \in Handlers, Respond(h)
      PROVE  VelocityInv'
  <2>1. /\ UNCHANGED <<now, requests, members, alarms, firing, seen>>
        /\ DOMAIN jobs' \subseteq DOMAIN jobs
        /\ \A g \in DOMAIN jobs' : jobs'[g] = jobs[g]
    BY <1>5 DEF Respond, Without
  <2>2. TypeOK'
    BY <1>t, <2>1 DEF TypeOK
  <2>3. QED
    BY <1>t, <2>1, <2>2, ObjectsStay DEF TypeOK
<1>6. ASSUME NEW e \in Entities, AlarmDue(e)
      PROVE  VelocityInv'
  <2>1. TypeOK'
    BY <1>t, <1>6 DEF AlarmDue, Without, TypeOK
  <2>2. QED
    BY <1>t, <1>6, <2>1, ObjectsStay DEF AlarmDue, TypeOK
<1>7. ASSUME NEW e \in Entities, AlarmRuns(e)
      PROVE  VelocityInv'
  BY <1>7, AlarmKeepsInv
<1>8. CASE UNCHANGED vars
  <2>1. TypeOK'
    BY <1>t, <1>8 DEF vars, TypeOK
  <2>2. QED
    BY <1>t, <1>8, <2>1, ObjectsStay DEF vars, TypeOK
<1>9. QED
  BY <1>1, <1>2, <1>3, <1>4, <1>5, <1>6, <1>7, <1>8 DEF Next

---------------------------------------------------------------------------
\* The inductive invariant of the velocity objects (velocity-do.ts).
THEOREM VelocityInvariant == Spec => []VelocityInv
  BY InitVelocityInv, NextVelocityInv, PTL DEF Spec

\* bump and alarm of velocity-do.ts keep exactly the rolling window, whatever
\* calls fail and whenever alarms are handled.
THEOREM ObjectsHoldTheWindow == Spec => []WindowIsExact
<1>1. VelocityInv => WindowIsExact
  <2> SUFFICES ASSUME VelocityInv, NEW e \in Entities, NEW v \in Visitors
               PROVE  v \in Live(Stored(e)) <=>
                          \E s \in seen : s.entity = e /\ s.visitor = v /\ InWindow(s)
    BY DEF WindowIsExact
  <2>1. ASSUME v \in Live(Stored(e))
        PROVE  \E s \in seen : s.entity = e /\ s.visitor = v /\ InWindow(s)
    <3>1. e \in DOMAIN members /\ v \in DOMAIN members[e] /\ members[e][v] > now
      BY <2>1 DEF Live, Stored, Nothing
    <3>2. QED
      BY <3>1 DEF VelocityInv, MembersWereSeen, InWindow
  <2>2. ASSUME NEW s \in seen, s.entity = e, s.visitor = v, InWindow(s)
        PROVE  v \in Live(Stored(e))
    <3>1. v \in DOMAIN Remaining(e)
      BY <2>2, RemainingMembers
    <3>2. QED
      BY <3>1 DEF Remaining
  <2>3. QED
    BY <2>1, <2>2
<1>2. QED
  BY <1>1, VelocityInvariant, PTL

---------------------------------------------------------------------------
\* Alarms.

\* A set of naturals that is bounded has its Max, and Max bounds it.
LEMMA MaxOfBounded ==
  ASSUME NEW S \in SUBSET Nat, S # {}, NEW bound \in Nat, \A x \in S : x <= bound
  PROVE  Max(S) \in S /\ \A x \in S : x <= Max(S)
<1> DEFINE gaps == {bound - x : x \in S}
<1>1. gaps \subseteq Nat /\ gaps # {}
  <2>1. \A x \in S : bound - x \in Nat
    OBVIOUS
  <2>2. QED
    BY <2>1
<1>2. PICK g \in gaps : \A y \in gaps : <<y, g>> \notin OpToRel(<, Nat)
  BY <1>1, NatLessThanWellFounded, WFMin
<1>3. PICK m \in S : g = bound - m
  BY <1>2
<1>4. ASSUME NEW x \in S
      PROVE  m >= x
  <2>1. bound - x \in gaps /\ bound - x \in Nat /\ g \in Nat
    BY <1>1, <1>2
  <2>2. ~(bound - x < g)
    BY <1>2, <2>1 DEF OpToRel
  <2>3. m \in Nat /\ x \in Nat
    OBVIOUS
  <2>4. QED
    BY <1>3, <2>2, <2>3
<1>5. Max(S) \in S /\ \A y \in S : Max(S) >= y
  BY <1>3, <1>4 DEF Max
<1>6. QED
  BY <1>5

\* The alarm that is set covers the whole of a record within its window.
LEMMA ArmedCovers ==
  ASSUME NEW record, DOMAIN record # {}, NEW bound \in Nat,
         \A v \in DOMAIN record : record[v] \in Nat /\ record[v] <= bound
  PROVE  \A v \in DOMAIN record : record[v] <= Furthest(record)
<1> DEFINE S == {record[v] : v \in DOMAIN record}
<1>1. S \in SUBSET Nat /\ S # {} /\ \A x \in S : x <= bound
  OBVIOUS
<1>2. \A x \in S : x <= Max(S)
  BY <1>1, MaxOfBounded
<1>3. QED
  BY <1>2 DEF Furthest

\* The record a bump or an alarm stores: naturals, none past a full window.
LEMMA StoredWithinWindow ==
  ASSUME VelocityInv, NEW e \in Entities, NEW v \in Visitors
  PROVE  /\ now + Window \in Nat
         /\ DOMAIN Bumped(e, v) # {}
         /\ \A w \in DOMAIN Remaining(e) :
                Remaining(e)[w] \in Nat /\ Remaining(e)[w] <= now + Window
         /\ \A w \in DOMAIN Bumped(e, v) :
                Bumped(e, v)[w] \in Nat /\ Bumped(e, v)[w] <= now + Window
<1>1. now \in Nat /\ now + Window \in Nat
  BY EdgeVelocityAssumption DEF VelocityInv, TypeOK
<1>2. ASSUME NEW w \in DOMAIN Remaining(e)
      PROVE  Remaining(e)[w] \in Nat /\ Remaining(e)[w] <= now + Window
  <2>1. /\ e \in DOMAIN members /\ w \in DOMAIN members[e]
        /\ Remaining(e)[w] = members[e][w] /\ Remaining(e)[w] \in Nat
    BY RemainingMembers
  <2>2. PICK s \in seen : s.at + Window = members[e][w]
    BY <2>1 DEF VelocityInv, MembersWereSeen
  <2>3. s.at <= now /\ s.at \in Nat
    BY DEF VelocityInv, TypeOK, SeenBefore
  <2>4. QED
    BY <1>1, <2>1, <2>2, <2>3, EdgeVelocityAssumption
<1>3. /\ DOMAIN Bumped(e, v) = DOMAIN Remaining(e) \cup {v}
      /\ Bumped(e, v)[v] = now + Window
      /\ \A w \in DOMAIN Remaining(e) : w # v => Bumped(e, v)[w] = Remaining(e)[w]
  BY DEF Bumped, With
<1>4. QED
  BY <1>1, <1>2, <1>3

\* bump leaves its own object covered and does not touch the others.
LEMMA BumpKeepsCover ==
  ASSUME VelocityInv, AlarmCovers, NEW e \in Entities, NEW v \in Visitors,
         BumpObject(e, v), firing' = firing
  PROVE  AlarmCovers'
<1> DEFINE record == Bumped(e, v)
<1>1. /\ DOMAIN members' = DOMAIN members \cup {e}
      /\ members'[e] = record
      /\ \A d \in DOMAIN members : d # e => members'[d] = members[d]
      /\ DOMAIN alarms' = DOMAIN alarms \cup {e}
      /\ alarms'[e] = Furthest(record)
      /\ \A d \in DOMAIN alarms : d # e => alarms'[d] = alarms[d]
  BY DEF BumpObject, With, Armed
<1>2. \A w \in DOMAIN record : record[w] <= Furthest(record)
  BY StoredWithinWindow, ArmedCovers
<1> HIDE DEF record
<1>3. QED
  BY <1>1, <1>2 DEF AlarmCovers

\* AlarmCovers is preserved by every action, given VelocityInv.
LEMMA NextAlarmCovers == VelocityInv /\ AlarmCovers /\ [Next]_vars => AlarmCovers'
<1> SUFFICES ASSUME VelocityInv, AlarmCovers, [Next]_vars
             PROVE  AlarmCovers'
  OBVIOUS
<1>h. ASSUME NEW h \in Handlers, Pending(h)
      PROVE  Target(h) \in Entities /\ jobs[h].visitor \in Visitors
  BY <1>h DEF Pending, Target, VelocityInv, TypeOK
<1>1. CASE UNCHANGED <<members, alarms, firing>>
  BY <1>1 DEF AlarmCovers
<1>2. ASSUME NEW h \in Handlers, Bump(h)
      PROVE  AlarmCovers'
  BY <1>h, <1>2, BumpKeepsCover DEF Bump
<1>3. ASSUME NEW h \in Handlers, BumpFails(h)
      PROVE  AlarmCovers'
  <2>1. Pending(h) /\ firing' = firing
    BY <1>3 DEF BumpFails
  <2>2. CASE BumpObject(Target(h), jobs[h].visitor)
    BY <1>h, <2>1, <2>2, BumpKeepsCover
  <2>3. CASE UNCHANGED <<members, alarms, seen>>
    BY <1>1, <2>1, <2>3
  <2>4. QED
    BY <1>3, <2>2, <2>3 DEF BumpFails
<1>4. ASSUME NEW e \in Entities, AlarmDue(e)
      PROVE  AlarmCovers'
  BY <1>4 DEF AlarmDue, Without, AlarmCovers
<1>5. ASSUME NEW e \in Entities, AlarmRuns(e)
      PROVE  AlarmCovers'
  <2>1. firing' = firing \ {e}
    BY <1>5 DEF AlarmRuns
  <2>2. CASE DOMAIN Remaining(e) = {}
    BY <1>5, <2>1, <2>2 DEF AlarmRuns, Without, AlarmCovers
  <2>3. CASE DOMAIN Remaining(e) # {}
    <3>1. \A w \in DOMAIN Remaining(e) : Remaining(e)[w] <= Furthest(Remaining(e))
      <4>1. PICK v \in DOMAIN Remaining(e) : v \in Visitors
        BY <2>3, RemainingMembers
      <4>2. QED
        BY <2>3, <4>1, StoredWithinWindow, ArmedCovers
    <3>2. /\ DOMAIN members' = DOMAIN members \cup {e}
          /\ members'[e] = Remaining(e)
          /\ \A d \in DOMAIN members : d # e => members'[d] = members[d]
          /\ DOMAIN alarms' = DOMAIN alarms \cup {e}
          /\ alarms'[e] = Furthest(Remaining(e))
          /\ \A d \in DOMAIN alarms : d # e => alarms'[d] = alarms[d]
      BY <1>5, <2>3 DEF AlarmRuns, With, Armed
    <3>3. QED
      BY <2>1, <3>1, <3>2 DEF AlarmCovers
  <2>4. QED
    BY <2>2, <2>3
<1>6. QED
  BY <1>1, <1>2, <1>3, <1>4, <1>5 DEF Next, vars, Tick, Arrive, Respond

\* bump and alarm of velocity-do.ts never leave a record whose last expiry no
\* alarm will see, however late alarms are handled.
THEOREM AlarmsCoverTheRecords == Spec => []AlarmCovers
<1>1. Init => AlarmCovers
  BY DEF Init, Nothing, AlarmCovers
<1>2. QED
  BY <1>1, NextAlarmCovers, VelocityInvariant, PTL DEF Spec

---------------------------------------------------------------------------
\* The count that bump returns is that of its rolling window as it stands
\* when the object is reached, the request's own visitor counted once.
THEOREM AnswersAreTheWindow == Spec => AnswersCountTheWindow
<1>1. VelocityInv /\ VelocityInv' /\ [Next]_vars =>
        [\A h \in Handlers :
            Bump(h) =>
                jobs'[h].counts[Target(h)] =
                    Cardinality({s.visitor : s \in {x \in seen' :
                                    x.entity = Target(h) /\ InWindow(x)}})]_vars
  <2> SUFFICES ASSUME VelocityInv, VelocityInv', NEW h \in Handlers, Bump(h)
               PROVE  jobs'[h].counts[Target(h)] =
                          Cardinality({s.visitor : s \in {x \in seen' :
                                          x.entity = Target(h) /\ InWindow(x)}})
    OBVIOUS
  <2> DEFINE e == Target(h)
             v == jobs[h].visitor
             record == Bumped(e, v)
             window == {s.visitor : s \in {x \in seen' : x.entity = e /\ InWindow(x)}}
  <2>1. /\ Pending(h) /\ BumpObject(e, v) /\ now' = now
        /\ jobs' = [jobs EXCEPT ![h].todo = Tail(@),
                                ![h].counts = With(@, e, Cardinality(DOMAIN record))]
    BY DEF Bump
  <2>2. e \in Entities /\ v \in Visitors /\ h \in DOMAIN jobs
        /\ DOMAIN jobs[h] = {"visitor", "todo", "counts"}
    BY <2>1 DEF Pending, Target, VelocityInv, TypeOK
  <2>3. jobs'[h].counts[e] = Cardinality(DOMAIN record)
    <3> HIDE DEF e, record
    <3>1. jobs'[h].counts = With(jobs[h].counts, e, Cardinality(DOMAIN record))
      BY <2>1, <2>2
    <3>2. QED
      BY <3>1 DEF With
  <2>4. /\ e \in DOMAIN members' /\ members'[e] = record
        /\ seen' = seen \cup {[entity |-> e, visitor |-> v, at |-> now]}
    BY <2>1 DEF BumpObject, With
  <2>5. \A w \in DOMAIN record : w \in Visitors /\ record[w] \in Nat /\ record[w] > now
    <3>1. now \in Nat /\ Window \in Nat \ {0}
      BY EdgeVelocityAssumption DEF VelocityInv, TypeOK
    <3>2. \A w \in DOMAIN Remaining(e) :
              w \in Visitors /\ Remaining(e)[w] \in Nat /\ Remaining(e)[w] > now
      <4>1. \A w \in DOMAIN Remaining(e) : Remaining(e)[w] > now
        BY DEF Remaining, Live
      <4>2. QED
        BY <2>2, <4>1, RemainingMembers
    <3>3. /\ DOMAIN record = DOMAIN Remaining(e) \cup {v}
          /\ record[v] = now + Window
          /\ \A w \in DOMAIN Remaining(e) : w # v => record[w] = Remaining(e)[w]
      BY DEF Bumped, With
    <3> HIDE DEF e, v, record
    <3>4. QED
      BY <2>2, <3>1, <3>2, <3>3
  <2> HIDE DEF e, v, record
  <2>6. ASSUME NEW w \in DOMAIN record
        PROVE  w \in window
    <3>1. PICK s \in seen' : s.entity = e /\ s.visitor = w /\ s.at + Window = record[w]
      BY <2>4 DEF VelocityInv, MembersWereSeen
    <3>2. InWindow(s)
      BY <2>5, <3>1 DEF InWindow
    <3>3. QED
      BY <3>1, <3>2
  <2>7. ASSUME NEW s \in seen', s.entity = e, InWindow(s)
        PROVE  s.visitor \in DOMAIN record
    <3>1. InWindow(s)'
      BY <2>1, <2>7 DEF InWindow
    <3>2. QED
      BY <2>4, <2>7, <3>1 DEF VelocityInv, SeenAreMembers
  <2>8. DOMAIN record = window
    BY <2>6, <2>7
  <2>9. QED
    BY <2>3, <2>8 DEF e
<1>2. QED
  BY <1>1, VelocityInvariant, PTL DEF Spec, AnswersCountTheWindow
=============================================================================
