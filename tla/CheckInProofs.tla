--------------------------- MODULE CheckInProofs ---------------------------
(***************************************************************************)
(* Proofs about CheckIn, for any accounts, visitors, addresses, windows    *)
(* and number of requests in flight: the cron takes nothing young, and a   *)
(* farm that checks in all at once is noticed.                             *)
(***************************************************************************)
EXTENDS CheckIn, FiniteSetTheorems, TLAPS

\* The log is empty at the start.
LEMMA InitCheckInInv == Init => CheckInInv
<1>1. IsFiniteSet({}) /\ Cardinality({}) = 0
  BY FS_EmptySet
<1>2. QED
  BY <1>1 DEF Init, Resting, CheckInInv, TypeOK, RowsAgree, RecordedFirst, CutoffIsPast,
              YoungEventsAreKept, CountsAreCovered

---------------------------------------------------------------------------
\* Fewer events are of no more accounts.
LEMMA FewerAccounts ==
  ASSUME NEW high, IsFiniteSet(high), NEW low \in SUBSET high
  PROVE  /\ Cardinality(AccountsOf(low)) \in Nat
         /\ Cardinality(AccountsOf(low)) <= Cardinality(AccountsOf(high))
<1> DEFINE account == [e \in high |-> e.account]
<1>1. account \in Surjection(high, AccountsOf(high))
  BY DEF Surjection, AccountsOf
<1>2. IsFiniteSet(AccountsOf(high))
  BY <1>1, FS_Surjection
<1>3. AccountsOf(low) \subseteq AccountsOf(high)
  BY DEF AccountsOf
<1>4. QED
  BY <1>2, <1>3, FS_Subset, FS_CardinalityType

\* A count already answered stays covered: what comes to the log is later than
\* the request's own event.
LEMMA CarriedIsCovered ==
  ASSUME CheckInInv,
         NEW h \in DOMAIN jobs, NEW q \in Counts \cap DOMAIN jobs[h].answers,
         jobs'[h].visitor = jobs[h].visitor, jobs'[h].ip = jobs[h].ip,
         jobs'[h].ts = jobs[h].ts, jobs'[h].row = jobs[h].row,
         jobs'[h].answers[q] = jobs[h].answers[q],
         \A e \in events' : e.row <= jobs[h].row => e \in events,
         recorded \subseteq recorded', IsFiniteSet(recorded')
  PROVE  Covered(h, q)'
<1> DEFINE low == Counted(q, Before(h), jobs[h])
           high == Counted(q, recorded, jobs[h])
<1>1. Covered(h, q)
  BY DEF CheckInInv, CountsAreCovered
<1>2. /\ low' \in SUBSET low /\ low \subseteq recorded
      /\ high \in SUBSET high' /\ high' \subseteq recorded'
  BY DEF Counted, Before, CheckInInv, TypeOK
<1>3. IsFiniteSet(low) /\ IsFiniteSet(high')
  BY <1>2, FS_Subset DEF CheckInInv, TypeOK
<1>4. /\ Cardinality(AccountsOf(low')) \in Nat
      /\ Cardinality(AccountsOf(low')) <= Cardinality(AccountsOf(low))
  BY <1>2, <1>3, FewerAccounts
<1>5. /\ Cardinality(AccountsOf(high)) \in Nat
      /\ Cardinality(AccountsOf(high)) <= Cardinality(AccountsOf(high'))
  BY <1>2, <1>3, FewerAccounts
<1>6. /\ Cardinality(AccountsOf(low)) \in Nat
      /\ Cardinality(AccountsOf(high')) \in Nat
  BY <1>3, FewerAccounts
<1>7. QED
  BY <1>1, <1>4, <1>5, <1>6 DEF Covered, AccountsOf, Counted, Before

\* A count answered now is between the events before the request's own, all of
\* them on the log, and those ever recorded.
LEMMA AnsweredIsCovered ==
  ASSUME CheckInInv, NEW h \in DOMAIN jobs, NEW q \in Counts, NEW n,
         n = Cardinality(AccountsOf(Counted(q, events, jobs[h]))),
         Answered(h, q, n)
  PROVE  Covered(h, q)'
<1>1. /\ jobs'[h].visitor = jobs[h].visitor /\ jobs'[h].ip = jobs[h].ip
      /\ jobs'[h].ts = jobs[h].ts /\ jobs'[h].row = jobs[h].row
      /\ jobs'[h].answers[q] = n
  BY DEF Answered, CheckInInv, TypeOK, IsJob
<1> DEFINE low == Counted(q, Before(h), jobs[h])
           log == Counted(q, events, jobs[h])
           high == Counted(q, recorded, jobs[h])
<1>2. low \in SUBSET log /\ log \in SUBSET high /\ log \subseteq recorded /\ high \subseteq recorded
  BY DEF Counted, Before, CheckInInv, TypeOK
<1>3. IsFiniteSet(log) /\ IsFiniteSet(high)
  BY <1>2, FS_Subset DEF CheckInInv, TypeOK
<1>4. /\ Cardinality(AccountsOf(low)) <= n
      /\ n \in Nat /\ n <= Cardinality(AccountsOf(high))
  BY <1>2, <1>3, FewerAccounts
<1>5. low' = low /\ high' = high
  BY <1>1 DEF Answered, Counted, Before
<1>6. QED
  BY <1>1, <1>4, <1>5 DEF Covered, AccountsOf

---------------------------------------------------------------------------
\* A step that leaves the log alone and changes no request but by taking it
\* out or letting in one without a row keeps every conjunct.
LEMMA LogStays ==
  ASSUME CheckInInv, TypeOK', UNCHANGED <<events, recorded>>, clock' >= clock,
         CutoffIsPast',
         \A h \in DOMAIN jobs' :
             \/ h \in DOMAIN jobs /\ jobs'[h] = jobs[h]
             \/ jobs'[h].row = 0 /\ DOMAIN jobs'[h].answers = {}
  PROVE  CheckInInv'
<1>1. RowsAgree'
  BY DEF CheckInInv, RowsAgree
<1>2. RecordedFirst'
  BY DEF CheckInInv, RecordedFirst
<1>3. YoungEventsAreKept'
  BY CheckInAssumption DEF CheckInInv, TypeOK, Event, YoungEventsAreKept
<1>4. CountsAreCovered'
  <2> SUFFICES ASSUME NEW h \in DOMAIN jobs', NEW q \in Counts \cap DOMAIN jobs'[h].answers
               PROVE  Covered(h, q)'
    BY DEF CountsAreCovered
  <2>1. h \in DOMAIN jobs /\ jobs'[h] = jobs[h]
    OBVIOUS
  <2>2. QED
    BY <2>1, CarriedIsCovered DEF CheckInInv, TypeOK
<1>5. QED
  BY <1>1, <1>2, <1>3, <1>4 DEF CheckInInv

\* Time passes: what was young may age, no event gets younger.
LEMMA TickKeepsInv == CheckInInv /\ Tick => CheckInInv'
<1> SUFFICES ASSUME CheckInInv, Tick PROVE CheckInInv'
  OBVIOUS
<1>1. TypeOK' /\ clock' >= clock /\ CutoffIsPast'
  BY CheckInAssumption DEF CheckInInv, TypeOK, IsJob, Tick, CutoffIsPast
<1>2. QED
  BY <1>1, LogStays DEF Tick

\* A request comes with no row and no answers.
LEMMA ArriveKeepsInv ==
  ASSUME CheckInInv, NEW h \in Handlers, NEW a \in Accounts, NEW v \in Visitors, NEW ip \in Ips,
         Arrive(h, a, v, ip)
  PROVE  CheckInInv'
<1>1. \A g \in DOMAIN jobs' :
          \/ g \in DOMAIN jobs /\ jobs'[g] = jobs[g]
          \/ g = h /\ jobs'[g] = [account |-> a, visitor |-> v, ip |-> ip, ts |-> clock,
                                  row |-> 0, answers |-> [q \in {} |-> 0]]
  BY DEF Arrive
<1>2. TypeOK'
  BY <1>1 DEF CheckInInv, TypeOK, IsJob, Arrive
<1>3. CutoffIsPast'
  BY DEF Arrive, CheckInInv, CutoffIsPast
<1>4. UNCHANGED <<clock, events, recorded>> /\ clock' >= clock
  BY DEF Arrive, CheckInInv, TypeOK
<1>5. \A g \in DOMAIN jobs' :
          \/ g \in DOMAIN jobs /\ jobs'[g] = jobs[g]
          \/ jobs'[g].row = 0 /\ DOMAIN jobs'[g].answers = {}
  BY <1>1
<1>6. QED
  BY <1>2, <1>3, <1>4, <1>5, LogStays

\* A request leaves, scored or failed.
LEMMA LeaveKeepsInv ==
  ASSUME CheckInInv, NEW h \in Handlers, Leave(h), UNCHANGED <<clock, events, cron, recorded>>
  PROVE  CheckInInv'
<1>1. \A g \in DOMAIN jobs' : g \in DOMAIN jobs /\ jobs'[g] = jobs[g]
  BY DEF Leave
<1>2. TypeOK'
  BY <1>1 DEF CheckInInv, TypeOK, IsJob
<1>3. CutoffIsPast' /\ clock' >= clock
  BY DEF CheckInInv, TypeOK, CutoffIsPast
<1>4. QED
  BY <1>1, <1>2, <1>3, LogStays

\* The cron takes its cutoff, or finds nothing to delete.
LEMMA CronKeepsInv == CheckInInv /\ (CronTick \/ PurgeCount) => CheckInInv'
<1> SUFFICES ASSUME CheckInInv, CronTick \/ PurgeCount PROVE CheckInInv'
  OBVIOUS
<1>1. TypeOK' /\ CutoffIsPast'
  BY CheckInAssumption
     DEF CheckInInv, TypeOK, IsJob, CutoffIsPast, CronTick, PurgeCount, Resting
<1>2. UNCHANGED <<clock, jobs, events, recorded>>
  BY DEF CronTick, PurgeCount
<1>3. QED
  BY <1>1, <1>2, LogStays DEF CheckInInv, TypeOK

---------------------------------------------------------------------------
\* A request's event gets the next row.
LEMMA RecordKeepsInv ==
  ASSUME CheckInInv, NEW h \in Handlers, Record(h)
  PROVE  CheckInInv'
<1> DEFINE row == Cardinality(recorded) + 1
           event == [row |-> row, account |-> jobs[h].account, visitor |-> jobs[h].visitor,
                     ip |-> jobs[h].ip, ts |-> jobs[h].ts]
<1>1. Cardinality(recorded) \in Nat
  BY FS_CardinalityType DEF CheckInInv, TypeOK
<1>2. event \notin recorded
  BY <1>1 DEF CheckInInv, TypeOK, Event, RowsAgree
<1>3. /\ events' = events \cup {event} /\ recorded' = recorded \cup {event}
      /\ UNCHANGED <<clock, cron>>
  BY DEF Record
<1>4. IsFiniteSet(recorded') /\ Cardinality(recorded') = row
  BY <1>2, <1>3, FS_AddElement DEF CheckInInv, TypeOK
<1>5. /\ h \in DOMAIN jobs /\ DOMAIN jobs' = DOMAIN jobs
      /\ jobs[h].row = 0 /\ jobs'[h].row = row /\ jobs'[h].answers = jobs[h].answers
      /\ jobs'[h].account = jobs[h].account /\ jobs'[h].visitor = jobs[h].visitor
      /\ jobs'[h].ip = jobs[h].ip /\ jobs'[h].ts = jobs[h].ts
      /\ DOMAIN jobs'[h] = DOMAIN jobs[h]
      /\ \A g \in DOMAIN jobs : g # h => jobs'[g] = jobs[g]
  BY DEF Record, CheckInInv, TypeOK, IsJob
<1>6. event \in Event
  BY <1>1, <1>5 DEF CheckInInv, TypeOK, IsJob, Event
<1>7. TypeOK'
  BY <1>1, <1>3, <1>4, <1>5, <1>6 DEF CheckInInv, TypeOK, IsJob
<1>8. RowsAgree'
  <2>1. \A e \in recorded : e.row <= Cardinality(recorded) /\ e.row \in Nat
    BY DEF CheckInInv, TypeOK, Event, RowsAgree
  <2>2. \A e \in recorded' : e.row <= row
    BY <1>1, <1>3, <2>1
  <2>3. \A e, f \in recorded' : e.row = f.row => e = f
    BY <1>1, <1>3, <2>1 DEF CheckInInv, RowsAgree
  <2>4. \A g \in DOMAIN jobs' : jobs'[g].row # 0 =>
            \E e \in recorded' :
                /\ e.row = jobs'[g].row /\ e.account = jobs'[g].account
                /\ e.visitor = jobs'[g].visitor /\ e.ip = jobs'[g].ip
                /\ e.ts = jobs'[g].ts
    <3> SUFFICES ASSUME NEW g \in DOMAIN jobs', jobs'[g].row # 0
                 PROVE  \E e \in recorded' :
                            /\ e.row = jobs'[g].row /\ e.account = jobs'[g].account
                            /\ e.visitor = jobs'[g].visitor /\ e.ip = jobs'[g].ip
                            /\ e.ts = jobs'[g].ts
      OBVIOUS
    <3>1. CASE g = h
      <4>1. event \in recorded'
        BY <1>3
      <4>2. QED
        BY <1>5, <3>1, <4>1
    <3>2. CASE g # h
      <4>1. jobs'[g] = jobs[g] /\ g \in DOMAIN jobs
        BY <1>5, <3>2
      <4>2. QED
        BY <1>3, <4>1 DEF CheckInInv, RowsAgree
    <3>3. QED
      BY <3>1, <3>2
  <2>5. QED
    BY <1>4, <2>2, <2>3, <2>4 DEF RowsAgree
<1>9. RecordedFirst'
  BY <1>1, <1>5 DEF CheckInInv, RecordedFirst
<1>10. CutoffIsPast' /\ YoungEventsAreKept'
  BY <1>3 DEF CheckInInv, CutoffIsPast, YoungEventsAreKept
<1>11. CountsAreCovered'
  <2> SUFFICES ASSUME NEW g \in DOMAIN jobs', NEW q \in Counts \cap DOMAIN jobs'[g].answers
               PROVE  Covered(g, q)'
    BY DEF CountsAreCovered
  <2>1. g # h /\ g \in DOMAIN jobs /\ jobs'[g] = jobs[g]
    BY <1>5 DEF CheckInInv, RecordedFirst
  <2>2. jobs[g].row \in Nat /\ jobs[g].row <= Cardinality(recorded)
    BY <1>1, <2>1 DEF CheckInInv, TypeOK, IsJob, RowsAgree
  <2>3. \A e \in events' : e.row <= jobs[g].row => e \in events
    BY <1>1, <1>3, <2>2
  <2>4. QED
    BY <1>3, <1>4, <2>1, <2>3, CarriedIsCovered
<1>12. QED
  BY <1>7, <1>8, <1>9, <1>10, <1>11 DEF CheckInInv

\* The purge takes only what is older than the window by now.
LEMMA PurgeDeleteKeepsInv == CheckInInv /\ PurgeDelete => CheckInInv'
<1> SUFFICES ASSUME CheckInInv, PurgeDelete PROVE CheckInInv'
  OBVIOUS
<1>1. TypeOK'
  BY DEF CheckInInv, TypeOK, IsJob, PurgeDelete, Resting
<1>2. RowsAgree' /\ RecordedFirst' /\ CutoffIsPast'
  BY DEF CheckInInv, PurgeDelete, Resting, RowsAgree, RecordedFirst, CutoffIsPast
<1>3. YoungEventsAreKept'
  <2> SUFFICES ASSUME NEW e \in recorded, Retention = 0 \/ e.ts + Retention >= clock
               PROVE  e \in events'
    BY DEF PurgeDelete, YoungEventsAreKept
  <2>1. e \in events
    BY DEF CheckInInv, YoungEventsAreKept
  <2>2. e.ts \in Nat /\ cron.cutoff \in Int /\ clock \in Nat
    BY DEF CheckInInv, TypeOK, Event
  <2>3. Retention > 0 /\ cron.cutoff + Retention <= clock
    BY DEF PurgeDelete, CheckInInv, CutoffIsPast
  <2>4. ~(e.ts < cron.cutoff)
    BY <2>2, <2>3, CheckInAssumption
  <2>5. QED
    BY <2>1, <2>4 DEF PurgeDelete, Expired
<1>4. CountsAreCovered'
  <2> SUFFICES ASSUME NEW h \in DOMAIN jobs', NEW q \in Counts \cap DOMAIN jobs'[h].answers
               PROVE  Covered(h, q)'
    BY DEF CountsAreCovered
  <2>1. h \in DOMAIN jobs /\ jobs'[h] = jobs[h]
    BY DEF PurgeDelete
  <2>2. events' \subseteq events /\ recorded' = recorded
    BY DEF PurgeDelete
  <2>3. QED
    BY <2>1, <2>2, CarriedIsCovered DEF CheckInInv, TypeOK
<1>5. QED
  BY <1>1, <1>2, <1>3, <1>4 DEF CheckInInv

---------------------------------------------------------------------------
\* An answer of one query touches no other answer.
LEMMA AnswerKeepsInv ==
  ASSUME CheckInInv, NEW h \in Handlers, NEW q \in Queries, NEW n, MayRead(h),
         Answered(h, q, n), q \in Counts => Covered(h, q)'
  PROVE  CheckInInv'
<1>1. /\ h \in DOMAIN jobs /\ DOMAIN jobs' = DOMAIN jobs
      /\ q \notin DOMAIN jobs[h].answers
      /\ jobs'[h].row = jobs[h].row /\ jobs[h].row # 0
      /\ jobs'[h].account = jobs[h].account /\ jobs'[h].visitor = jobs[h].visitor
      /\ jobs'[h].ip = jobs[h].ip /\ jobs'[h].ts = jobs[h].ts
      /\ DOMAIN jobs'[h] = DOMAIN jobs[h]
      /\ \A g \in DOMAIN jobs : g # h => jobs'[g] = jobs[g]
      /\ UNCHANGED <<clock, events, cron, recorded>>
  BY DEF MayRead, Answered, CheckInInv, TypeOK, IsJob
<1>2. /\ DOMAIN jobs'[h].answers = DOMAIN jobs[h].answers \cup {q}
      /\ \A x \in DOMAIN jobs[h].answers : jobs'[h].answers[x] = jobs[h].answers[x]
  BY DEF MayRead, Answered, CheckInInv, TypeOK, IsJob
<1>3. TypeOK'
  BY <1>1, <1>2 DEF CheckInInv, TypeOK, IsJob
<1>4. RowsAgree' /\ RecordedFirst'
  BY <1>1 DEF CheckInInv, RowsAgree, RecordedFirst
<1>5. CutoffIsPast' /\ YoungEventsAreKept'
  BY <1>1 DEF CheckInInv, CutoffIsPast, YoungEventsAreKept
<1>6. CountsAreCovered'
  <2> SUFFICES ASSUME NEW g \in DOMAIN jobs', NEW x \in Counts \cap DOMAIN jobs'[g].answers
               PROVE  Covered(g, x)'
    BY DEF CountsAreCovered
  <2>1. CASE g = h /\ x = q
    BY <2>1
  <2>2. CASE ~(g = h /\ x = q)
    <3>1. /\ g \in DOMAIN jobs /\ x \in DOMAIN jobs[g].answers
          /\ jobs'[g].answers[x] = jobs[g].answers[x]
          /\ jobs'[g].visitor = jobs[g].visitor /\ jobs'[g].ip = jobs[g].ip
          /\ jobs'[g].ts = jobs[g].ts /\ jobs'[g].row = jobs[g].row
      BY <1>1, <1>2, <2>2
    <3>2. QED
      BY <1>1, <3>1, CarriedIsCovered DEF CheckInInv, TypeOK
  <2>3. QED
    BY <2>1, <2>2
<1>7. QED
  BY <1>3, <1>4, <1>5, <1>6 DEF CheckInInv

\* The four queries.
LEMMA QueriesKeepInv ==
  ASSUME CheckInInv, NEW h \in Handlers,
         Fanout(h) \/ Sharing(h) \/ ChurnRate(h) \/ Timing(h)
  PROVE  CheckInInv'
<1>1. CASE Fanout(h)
  <2> DEFINE n == Cardinality(AccountsOn(events, jobs[h].visitor, jobs[h].ts - Day))
  <2>1. MayRead(h) /\ Answered(h, "fanout", n) /\ h \in DOMAIN jobs
    BY <1>1 DEF Fanout, MayRead
  <2>2. AccountsOn(events, jobs[h].visitor, jobs[h].ts - Day)
            = AccountsOf(Counted("fanout", events, jobs[h]))
    <3>1. jobs[h].ts \in Nat /\ \A e \in events : e.ts \in Nat
      BY <2>1 DEF CheckInInv, TypeOK, IsJob, Event
    <3>2. {x \in Since(events, jobs[h].ts - Day) : x.visitor = jobs[h].visitor}
              = Counted("fanout", events, jobs[h])
      BY <3>1, CheckInAssumption DEF Since, Counted
    <3>3. QED
      BY <3>2 DEF AccountsOn, AccountsOf
  <2>3. Covered(h, "fanout")'
    BY <2>1, <2>2, AnsweredIsCovered DEF Counts
  <2>4. QED
    BY <2>1, <2>3, AnswerKeepsInv DEF Queries
<1>2. CASE Sharing(h)
  <2> DEFINE n == Cardinality(AccountsFrom(events, jobs[h].ip, jobs[h].ts - Hour))
  <2>1. MayRead(h) /\ Answered(h, "sharing", n) /\ h \in DOMAIN jobs
    BY <1>2 DEF Sharing, MayRead
  <2>2. AccountsFrom(events, jobs[h].ip, jobs[h].ts - Hour)
            = AccountsOf(Counted("sharing", events, jobs[h]))
    <3>1. jobs[h].ts \in Nat /\ \A e \in events : e.ts \in Nat
      BY <2>1 DEF CheckInInv, TypeOK, IsJob, Event
    <3>2. {x \in Since(events, jobs[h].ts - Hour) : x.ip = jobs[h].ip}
              = Counted("sharing", events, jobs[h])
      BY <3>1, CheckInAssumption DEF Since, Counted
    <3>3. QED
      BY <3>2 DEF AccountsFrom, AccountsOf
  <2>3. Covered(h, "sharing")'
    BY <2>1, <2>2, AnsweredIsCovered DEF Counts
  <2>4. QED
    BY <2>1, <2>3, AnswerKeepsInv DEF Queries
<1>3. CASE ChurnRate(h)
  BY <1>3, AnswerKeepsInv DEF ChurnRate, Queries, Counts
<1>4. CASE Timing(h)
  BY <1>4, AnswerKeepsInv DEF Timing, Queries, Counts
<1>5. QED
  BY <1>1, <1>2, <1>3, <1>4

---------------------------------------------------------------------------
\* Every step keeps the invariant.
LEMMA NextCheckInInv == CheckInInv /\ [Next]_vars => CheckInInv'
<1> SUFFICES ASSUME CheckInInv, [Next]_vars PROVE CheckInInv'
  OBVIOUS
<1>1. CASE Tick
  BY <1>1, TickKeepsInv
<1>2. CASE \E h \in Handlers, a \in Accounts, v \in Visitors, ip \in Ips : Arrive(h, a, v, ip)
  BY <1>2, ArriveKeepsInv
<1>3. CASE \E h \in Handlers : Record(h)
  BY <1>3, RecordKeepsInv
<1>4. CASE \E h \in Handlers : Fanout(h) \/ Sharing(h) \/ ChurnRate(h) \/ Timing(h)
  BY <1>4, QueriesKeepInv
<1>5. CASE \E h \in Handlers : Assess(h) \/ Fail(h)
  BY <1>5, LeaveKeepsInv DEF Assess, Fail
<1>6. CASE CronTick \/ PurgeCount
  BY <1>6, CronKeepsInv
<1>7. CASE PurgeDelete
  BY <1>7, PurgeDeleteKeepsInv
<1>8. CASE UNCHANGED vars
  <2>1. TypeOK' /\ CutoffIsPast' /\ clock' >= clock
    BY <1>8 DEF vars, CheckInInv, TypeOK, IsJob, CutoffIsPast
  <2>2. QED
    BY <1>8, <2>1, LogStays DEF vars
<1>9. QED
  BY <1>1, <1>2, <1>3, <1>4, <1>5, <1>6, <1>7, <1>8 DEF Next

(***************************************************************************)
(* For any accounts, devices, addresses, windows and number of requests:   *)
(* the inductive invariant of the check-in log.                            *)
(***************************************************************************)
THEOREM CheckInInvariant == Spec => []CheckInInv
  BY InitCheckInInv, NextCheckInInv, PTL DEF Spec

(***************************************************************************)
(* The cron takes no event inside the retention window.                    *)
(***************************************************************************)
THEOREM YoungEventsSurvive == Spec => []YoungEventsAreKept
<1>1. CheckInInv => YoungEventsAreKept
  BY DEF CheckInInv
<1>2. QED
  BY <1>1, CheckInInvariant, PTL

(***************************************************************************)
(* Of any number of concurrent check-ins that make a farm or a crowded     *)
(* egress, those recorded last are given the reason, for every threshold.  *)
(***************************************************************************)
THEOREM NoFarmSlipsThrough == Spec => []FarmsAreNoticed
<1>1. CheckInInv => FarmsAreNoticed
  <2> SUFFICES ASSUME CheckInInv, NEW h \in DOMAIN jobs, Complete(h)
               PROVE  LET job == jobs[h]
                          reasons == Reasons(job.answers, {})
                      IN  /\ Cardinality(AccountsOf(Counted("fanout", Before(h), job)))
                                 > FanoutThreshold => "DEVICE_FARM" \in reasons
                          /\ Cardinality(AccountsOf(Counted("sharing", Before(h), job)))
                                 > SharingThreshold => "IP_BATCH" \in reasons
    BY DEF FarmsAreNoticed
  <2>1. \A q \in Counts :
            /\ Covered(h, q)
            /\ Cardinality(AccountsOf(Counted(q, Before(h), jobs[h]))) \in Nat
    <3> SUFFICES ASSUME NEW q \in Counts
                 PROVE  /\ Covered(h, q)
                        /\ Cardinality(AccountsOf(Counted(q, Before(h), jobs[h]))) \in Nat
      OBVIOUS
    <3>1. Covered(h, q)
      BY DEF Complete, Queries, Counts, CheckInInv, CountsAreCovered
    <3>2. Counted(q, Before(h), jobs[h]) \subseteq recorded
      BY DEF Counted, Before, CheckInInv, TypeOK
    <3>3. QED
      BY <3>1, <3>2, FewerAccounts DEF CheckInInv, TypeOK
  <2>2. /\ Cardinality(AccountsOf(Counted("fanout", Before(h), jobs[h]))) > FanoutThreshold
              => jobs[h].answers["fanout"] > FanoutThreshold
        /\ Cardinality(AccountsOf(Counted("sharing", Before(h), jobs[h]))) > SharingThreshold
              => jobs[h].answers["sharing"] > SharingThreshold
    BY <2>1, CheckInAssumption DEF Covered, Counts
  <2>3. QED
    BY <2>2 DEF Reasons, Exceeds
<1>2. QED
  BY <1>1, CheckInInvariant, PTL

---------------------------------------------------------------------------
\* The evidence of an account only grows.
LEMMA EvidenceGrows ==
  ASSUME IsFiniteSet(recorded'), recorded \subseteq recorded', NEW job
  PROVE  /\ Cardinality(Own(recorded, job)) \in Nat
         /\ Cardinality(Own(recorded', job)) \in Nat
         /\ Cardinality(Own(recorded, job))
                <= Cardinality(Own(recorded', job))
<1>1. IsFiniteSet(Own(recorded', job))
  BY FS_Subset DEF Own
<1>2. Own(recorded, job) \subseteq Own(recorded', job)
  BY DEF Own
<1>3. QED
  BY <1>1, <1>2, FS_Subset, FS_CardinalityType

\* A timing answer carried through a step is still borne out.
LEMMA CarriedStands ==
  ASSUME TimingStands, CheckInInv', recorded \subseteq recorded',
         \A h \in DOMAIN jobs' :
            \/ h \in DOMAIN jobs /\ jobs'[h].account = jobs[h].account
               /\ jobs'[h].answers = jobs[h].answers
            \/ "timing" \in DOMAIN jobs'[h].answers /\ jobs'[h].answers["timing"]
                  => Cardinality(Own(recorded, jobs'[h])) >= 3
  PROVE  TimingStands'
<1>1. IsFiniteSet(recorded')
  BY DEF CheckInInv, TypeOK
<1>2. ASSUME NEW h \in DOMAIN jobs',
             "timing" \in DOMAIN jobs'[h].answers, jobs'[h].answers["timing"]
      PROVE  Cardinality(Own(recorded', jobs'[h])) >= 3
  <2>1. Cardinality(Own(recorded, jobs'[h])) >= 3
    BY <1>2 DEF TimingStands, Own
  <2> DEFINE evidence == Own(recorded, jobs'[h])
             later == Own(recorded', jobs'[h])
  <2>2. /\ Cardinality(evidence) \in Nat /\ Cardinality(later) \in Nat
        /\ Cardinality(evidence) <= Cardinality(later)
    BY <1>1, EvidenceGrows
  <2>3. Cardinality(evidence) >= 3
    BY <2>1
  <2> HIDE DEF evidence, later
  <2>4. Cardinality(later) >= 3
    BY <2>2, <2>3
  <2>5. QED
    BY <2>4 DEF later
<1>3. QED
  BY <1>2 DEF TimingStands

\* A timing answer that raises the alarm was drawn from three events at least.
LEMMA TimingIsDrawn ==
  ASSUME CheckInInv, NEW h, Timing(h)
  PROVE  /\ h \in DOMAIN jobs
         /\ \A g \in DOMAIN jobs' : g # h => jobs'[g] = jobs[g]
         /\ DOMAIN jobs' = DOMAIN jobs
         /\ jobs'[h].answers["timing"]
               => Cardinality(Own(recorded, jobs'[h])) >= 3
<1>1. h \in DOMAIN jobs
  BY DEF Timing, MayRead
<1>2. PICK s \in Latest(events, jobs[h].account, IntervalSample) :
         Answered(h, "timing", Regular(s))
  BY DEF Timing
<1>3. /\ DOMAIN jobs' = DOMAIN jobs
      /\ \A g \in DOMAIN jobs' : g # h => jobs'[g] = jobs[g]
      /\ jobs'[h].account = jobs[h].account
      /\ jobs'[h].answers["timing"] = Regular(s)
  BY <1>1, <1>2 DEF Answered, CheckInInv, TypeOK, IsJob
<1>4. s \subseteq Own(recorded, jobs[h])
  BY <1>2 DEF Latest, Own, CheckInInv, TypeOK
<1>5. IsFiniteSet(Own(recorded, jobs[h]))
  BY FS_Subset DEF Own, CheckInInv, TypeOK
<1>6. /\ Cardinality(s) <= Cardinality(Own(recorded, jobs[h]))
      /\ Cardinality(s) \in Nat
      /\ Cardinality(Own(recorded, jobs[h])) \in Nat
  BY <1>4, <1>5, FS_Subset, FS_CardinalityType
<1>7. Regular(s) => Cardinality(s) >= 3
  BY DEF Regular
<1>8. Cardinality(s) >= 3 => Cardinality(Own(recorded, jobs[h])) >= 3
  BY <1>6
<1>9. Own(recorded, jobs'[h]) = Own(recorded, jobs[h])
  BY <1>3 DEF Own
<1>10. QED
  BY <1>1, <1>3, <1>7, <1>8, <1>9

\* Every step keeps the timing answers founded on the events of their accounts.
LEMMA NextTimingStands == CheckInInv /\ TimingStands /\ [Next]_vars => TimingStands'
<1> SUFFICES ASSUME CheckInInv, TimingStands, [Next]_vars PROVE TimingStands'
  OBVIOUS
<1>1. CheckInInv /\ CheckInInv'
  BY NextCheckInInv
<1>2. CASE Tick \/ CronTick \/ PurgeCount \/ PurgeDelete \/ UNCHANGED vars
  <2>1. jobs' = jobs /\ recorded' = recorded
    BY <1>2 DEF Tick, CronTick, PurgeCount, PurgeDelete, vars
  <2>2. QED
    BY <1>1, <2>1, CarriedStands
<1>3. ASSUME NEW h \in Handlers, NEW a \in Accounts, NEW v \in Visitors, NEW ip \in Ips,
             Arrive(h, a, v, ip)
      PROVE  TimingStands'
  <2>1. /\ recorded' = recorded
        /\ \A g \in DOMAIN jobs' : \/ g \in DOMAIN jobs /\ jobs'[g] = jobs[g]
                                   \/ DOMAIN jobs'[g].answers = {}
    BY <1>3 DEF Arrive
  <2>2. QED
    BY <1>1, <2>1, CarriedStands
<1>4. ASSUME NEW h \in Handlers, Record(h)
      PROVE  TimingStands'
  <2>1. /\ recorded \subseteq recorded'
        /\ \A g \in DOMAIN jobs' : /\ g \in DOMAIN jobs /\ jobs'[g].account = jobs[g].account
                                   /\ jobs'[g].answers = jobs[g].answers
    BY <1>1, <1>4 DEF Record, CheckInInv, TypeOK, IsJob
  <2>2. QED
    BY <1>1, <2>1, CarriedStands
<1>5. ASSUME NEW h \in Handlers, NEW q \in {"fanout", "sharing", "churn"}, NEW answer,
             MayRead(h), Answered(h, q, answer)
      PROVE  TimingStands'
  <2>1. /\ h \in DOMAIN jobs /\ recorded' = recorded
        /\ \A g \in DOMAIN jobs' : g # h => g \in DOMAIN jobs /\ jobs'[g] = jobs[g]
        /\ jobs'[h].account = jobs[h].account
        /\ DOMAIN jobs'[h].answers = DOMAIN jobs[h].answers \cup {q}
        /\ \A x \in DOMAIN jobs[h].answers : jobs'[h].answers[x] = jobs[h].answers[x]
    BY <1>1, <1>5 DEF Answered, MayRead, CheckInInv, TypeOK, IsJob
  <2>2. "timing" \in DOMAIN jobs'[h].answers /\ jobs'[h].answers["timing"]
           => Cardinality(Own(recorded, jobs'[h])) >= 3
    BY <2>1 DEF TimingStands, Own
  <2>3. QED
    BY <1>1, <2>1, <2>2, CarriedStands
<1>6. ASSUME NEW h \in Handlers, Timing(h)
      PROVE  TimingStands'
  <2>1. recorded' = recorded
    BY <1>6 DEF Timing, Answered
  <2>2. QED
    BY <1>1, <1>6, <2>1, TimingIsDrawn, CarriedStands
<1>7. ASSUME NEW h \in Handlers, Assess(h) \/ Fail(h)
      PROVE  TimingStands'
  <2>1. /\ recorded' = recorded
        /\ \A g \in DOMAIN jobs' : g \in DOMAIN jobs /\ jobs'[g] = jobs[g]
    BY <1>7 DEF Assess, Fail, Leave
  <2>2. QED
    BY <1>1, <2>1, CarriedStands
<1>8. ASSUME NEW h \in Handlers, Fanout(h) \/ Sharing(h) \/ ChurnRate(h)
      PROVE  TimingStands'
  BY <1>5, <1>8 DEF Fanout, Sharing, ChurnRate
<1>9. QED
  BY <1>2, <1>3, <1>4, <1>6, <1>7, <1>8 DEF Next

---------------------------------------------------------------------------
\* Fewer events are of no more devices.
LEMMA FewerDevices ==
  ASSUME NEW high, IsFiniteSet(high), NEW low \in SUBSET high
  PROVE  /\ Cardinality(DevicesOf(low)) \in Nat /\ Cardinality(DevicesOf(high)) \in Nat
         /\ Cardinality(DevicesOf(low)) <= Cardinality(DevicesOf(high))
<1> DEFINE device == [e \in high |-> e.visitor]
<1>1. device \in Surjection(high, DevicesOf(high))
  BY DEF Surjection, DevicesOf
<1>2. IsFiniteSet(DevicesOf(high))
  BY <1>1, FS_Surjection
<1>3. DevicesOf(low) \subseteq DevicesOf(high)
  BY DEF DevicesOf
<1> QED BY <1>2, <1>3, FS_Subset, FS_CardinalityType

\* A churn answer carried through a step still stands: what comes to the log is later
\* than the request's own event, and what goes only lowers what it is measured by.
LEMMA CarriedIsSampled ==
  ASSUME CheckInInv, CheckInInv', recorded \subseteq recorded',
         NEW h \in DOMAIN jobs, Sampled(h),
         jobs'[h].account = jobs[h].account, jobs'[h].row = jobs[h].row,
         jobs'[h].answers["churn"] = jobs[h].answers["churn"],
         \A e \in events' : e.row <= jobs[h].row => e \in events
  PROVE  Sampled(h)'
<1> DEFINE was == Own(recorded, jobs[h])
           is == Own(recorded', jobs'[h])
           before == Own(Before(h), jobs[h])
           left == Own({e \in events' : e.row <= jobs'[h].row}, jobs'[h])
           churn == jobs[h].answers["churn"]
<1>1. /\ was \in SUBSET is /\ is \subseteq recorded' /\ left \in SUBSET before
      /\ before \subseteq recorded
  BY DEF Own, Before, CheckInInv, TypeOK
<1>2. IsFiniteSet(is) /\ IsFiniteSet(before)
  BY <1>1, FS_Subset DEF CheckInInv, TypeOK
<1>3. /\ Cardinality(DevicesOf(was)) \in Nat /\ Cardinality(DevicesOf(is)) \in Nat
      /\ Cardinality(DevicesOf(was)) <= Cardinality(DevicesOf(is))
  BY <1>1, <1>2, FewerDevices
<1>4. /\ Cardinality(left) \in Nat /\ Cardinality(before) \in Nat
      /\ Cardinality(left) <= Cardinality(before)
  BY <1>1, <1>2, FS_Subset, FS_CardinalityType
<1>5. /\ churn.distinct \in Nat /\ churn.sampled \in Nat
      /\ churn.distinct <= Cardinality(DevicesOf(was))
      /\ Smaller(NewDeviceSample, Cardinality(before)) <= churn.sampled
  BY DEF Sampled
<1> HIDE DEF was, is, before, left, churn
<1>6. churn.distinct <= Cardinality(DevicesOf(is))
  BY <1>3, <1>5
<1>7. Smaller(NewDeviceSample, Cardinality(left)) <= churn.sampled
  BY <1>4, <1>5, CheckInAssumption DEF Smaller
<1> QED BY <1>5, <1>6, <1>7 DEF Sampled, Before, is, left, churn

\* A churn answer was drawn from the account's own events, and from as many of them as
\* are there, the sample's size at most.
LEMMA ChurnIsDrawn ==
  ASSUME CheckInInv, NEW h, ChurnRate(h)
  PROVE  Sampled(h)'
<1>1. h \in DOMAIN jobs
  BY DEF ChurnRate, MayRead
<1>2. PICK s \in Latest(events, jobs[h].account, NewDeviceSample) :
         Answered(h, "churn", Churn(s))
  BY DEF ChurnRate
<1>3. /\ jobs'[h].account = jobs[h].account /\ jobs'[h].row = jobs[h].row
      /\ jobs'[h].answers["churn"] = Churn(s)
      /\ events' = events /\ recorded' = recorded
  BY <1>1, <1>2 DEF Answered, CheckInInv, TypeOK, IsJob
<1> DEFINE all == Own(recorded, jobs[h])
           own == Own(events, jobs[h])
           before == Own(Before(h), jobs[h])
<1>4. /\ s \in SUBSET own /\ own \subseteq all /\ all \subseteq recorded
      /\ before \in SUBSET own /\ s \in SUBSET all
      /\ Cardinality(s) = Smaller(NewDeviceSample, Cardinality(own))
  <2>1. own = {e \in events : e.account = jobs[h].account} /\ own \subseteq recorded
    BY DEF Own, CheckInInv, TypeOK
  <2>2. IsFiniteSet(own)
    BY <2>1, FS_Subset DEF CheckInInv, TypeOK
  <2>3. Cardinality(own) \in Nat
    BY <2>2, FS_CardinalityType
  <2>4. /\ s \in SUBSET own
        /\ Cardinality(s) = IF Cardinality(own) < NewDeviceSample THEN Cardinality(own)
                            ELSE NewDeviceSample
    BY <1>2, <2>1 DEF Latest
  <2>5. Cardinality(s) = Smaller(NewDeviceSample, Cardinality(own))
    <3> HIDE DEF own
    <3> QED BY <2>3, <2>4, CheckInAssumption DEF Smaller
  <2>6. own \subseteq all /\ all \subseteq recorded /\ before \in SUBSET own
    BY DEF Own, Before, CheckInInv, TypeOK
  <2> QED BY <2>4, <2>5, <2>6
<1>5. IsFiniteSet(all) /\ IsFiniteSet(own)
  BY <1>4, FS_Subset DEF CheckInInv, TypeOK
<1>6. /\ Cardinality(DevicesOf(s)) \in Nat
      /\ Cardinality(DevicesOf(s)) <= Cardinality(DevicesOf(all))
  BY <1>4, <1>5, FewerDevices
<1>7. /\ Cardinality(before) \in Nat /\ Cardinality(own) \in Nat
      /\ Cardinality(before) <= Cardinality(own)
  BY <1>4, <1>5, FS_Subset, FS_CardinalityType
<1>8. Churn(s).distinct = Cardinality(DevicesOf(s)) /\ Churn(s).sampled = Cardinality(s)
  BY DEF Churn, DevicesOf
<1>9. Own(recorded', jobs'[h]) = all /\ Own({e \in events' : e.row <= jobs'[h].row}, jobs'[h]) = before
  BY <1>3 DEF Own, Before
<1> HIDE DEF all, own, before
<1>10. /\ Cardinality(s) \in Nat
       /\ Smaller(NewDeviceSample, Cardinality(before)) <= Cardinality(s)
  BY <1>4, <1>7, CheckInAssumption DEF Smaller
<1> QED BY <1>3, <1>6, <1>8, <1>9, <1>10 DEF Sampled, Before

\* Every step keeps the churn answers founded on the devices of their accounts.
LEMMA NextChurnStands == CheckInInv /\ ChurnStands /\ [Next]_vars => ChurnStands'
<1> SUFFICES ASSUME CheckInInv, ChurnStands, [Next]_vars,
                    NEW h \in DOMAIN jobs', "churn" \in DOMAIN jobs'[h].answers
             PROVE  Sampled(h)'
  BY DEF ChurnStands
<1>1. CheckInInv'
  BY NextCheckInInv
<1>2. ASSUME h \in DOMAIN jobs, "churn" \in DOMAIN jobs[h].answers,
             recorded \subseteq recorded',
             jobs'[h].account = jobs[h].account, jobs'[h].row = jobs[h].row,
             jobs'[h].answers["churn"] = jobs[h].answers["churn"],
             \A e \in events' : e.row <= jobs[h].row => e \in events
      PROVE  Sampled(h)'
  <2>1. Sampled(h)
    BY <1>2 DEF ChurnStands
  <2> QED BY <1>1, <1>2, <2>1, CarriedIsSampled
<1>3. CASE Tick \/ CronTick \/ PurgeCount \/ PurgeDelete \/ UNCHANGED vars
  <2>1. jobs' = jobs /\ recorded' = recorded /\ events' \subseteq events
    BY <1>3 DEF Tick, CronTick, PurgeCount, PurgeDelete, vars
  <2> QED BY <1>2, <2>1
<1>4. ASSUME NEW g \in Handlers, NEW a \in Accounts, NEW v \in Visitors, NEW ip \in Ips,
             Arrive(g, a, v, ip)
      PROVE  Sampled(h)'
  <2>1. /\ recorded' = recorded /\ events' = events
        /\ h \in DOMAIN jobs /\ jobs'[h] = jobs[h]
    BY <1>4 DEF Arrive
  <2> QED BY <1>2, <2>1
<1>5. ASSUME NEW g \in Handlers, Record(g)
      PROVE  Sampled(h)'
  <2>1. /\ h \in DOMAIN jobs /\ recorded \subseteq recorded'
        /\ jobs'[h].answers = jobs[h].answers
        /\ g # h => jobs'[h] = jobs[h]
        /\ \A e \in events' : e \in events \/ e.row = Cardinality(recorded) + 1
    BY <1>5 DEF Record, CheckInInv, TypeOK, IsJob
  <2>2. jobs[h].row # 0
    BY <2>1 DEF CheckInInv, RecordedFirst
  <2>3. g # h
    BY <1>5, <2>2 DEF Record
  <2>4. jobs[h].row <= Cardinality(recorded) /\ jobs[h].row \in Nat
    BY <2>1, <2>2 DEF CheckInInv, RowsAgree, TypeOK, IsJob
  <2>5. Cardinality(recorded) \in Nat
    BY FS_CardinalityType DEF CheckInInv, TypeOK
  <2>6. \A e \in events' : e.row <= jobs[h].row => e \in events
    BY <2>1, <2>4, <2>5
  <2> QED BY <1>2, <2>1, <2>3, <2>6
<1>6. ASSUME NEW g \in Handlers, NEW q \in {"fanout", "sharing", "timing"}, NEW answer,
             MayRead(g), Answered(g, q, answer)
      PROVE  Sampled(h)'
  <2>1. /\ h \in DOMAIN jobs /\ recorded' = recorded /\ events' = events
        /\ jobs'[h].account = jobs[h].account /\ jobs'[h].row = jobs[h].row
        /\ "churn" \in DOMAIN jobs[h].answers
        /\ jobs'[h].answers["churn"] = jobs[h].answers["churn"]
    BY <1>6 DEF Answered, MayRead, CheckInInv, TypeOK, IsJob
  <2> QED BY <1>2, <2>1
<1>7. ASSUME NEW g \in Handlers, ChurnRate(g)
      PROVE  Sampled(h)'
  <2>1. CASE h = g
    BY <1>7, <2>1, ChurnIsDrawn
  <2>2. CASE h # g
    <3>1. /\ h \in DOMAIN jobs /\ jobs'[h] = jobs[h] /\ recorded' = recorded /\ events' = events
      BY <1>7, <2>2 DEF ChurnRate, Answered, CheckInInv, TypeOK
    <3> QED BY <1>2, <3>1
  <2> QED BY <2>1, <2>2
<1>8. ASSUME NEW g \in Handlers, Assess(g) \/ Fail(g)
      PROVE  Sampled(h)'
  <2>1. /\ recorded' = recorded /\ events' = events
        /\ h \in DOMAIN jobs /\ jobs'[h] = jobs[h]
    BY <1>8 DEF Assess, Fail, Leave
  <2> QED BY <1>2, <2>1
<1>9. ASSUME NEW g \in Handlers, Fanout(g) \/ Sharing(g) \/ Timing(g)
      PROVE  Sampled(h)'
  BY <1>6, <1>9 DEF Fanout, Sharing, Timing
<1> QED BY <1>3, <1>4, <1>5, <1>7, <1>8, <1>9 DEF Next

\* Every step keeps the evidence.
LEMMA NextEvidenceInv == EvidenceInv /\ [Next]_vars => EvidenceInv'
  BY NextCheckInInv, NextTimingStands, NextChurnStands DEF EvidenceInv

(***************************************************************************)
(* No reason is given without evidence: whatever is retried, purged or     *)
(* read at different moments, a farm, a crowded egress or a scripted       *)
(* timing named in a verdict is one the recorded check-ins bear out, and a *)
(* churn one the account's devices bear out against what is left of its    *)
(* events.                                                                 *)
(***************************************************************************)
THEOREM NoAlarmWithoutEvidence == Spec => []AlarmsHaveEvidence
<1>1. Init => EvidenceInv
  BY InitCheckInInv DEF EvidenceInv, TimingStands, ChurnStands, Init
<1>2. EvidenceInv => AlarmsHaveEvidence
  <2> SUFFICES ASSUME EvidenceInv, NEW h \in DOMAIN jobs, Complete(h)
               PROVE  LET job == jobs[h]
                          reasons == Reasons(job.answers, {})
                      IN  /\ "DEVICE_FARM" \in reasons
                                 => Cardinality(AccountsOf(Counted("fanout", recorded, job)))
                                        > FanoutThreshold
                          /\ "IP_BATCH" \in reasons
                                 => Cardinality(AccountsOf(Counted("sharing", recorded, job)))
                                        > SharingThreshold
                          /\ "SCRIPTED_TIMING" \in reasons
                                 => Cardinality(Own(recorded, job)) >= 3
                          /\ "FP_RESET" \in reasons
                                 => 2 * Cardinality(DevicesOf(Own(recorded, job)))
                                        > Smaller(NewDeviceSample,
                                                  Cardinality(Own(Before(h), job)))
    BY DEF AlarmsHaveEvidence
  <2>1. \A q \in Counts :
            /\ jobs[h].answers[q] \in Nat
            /\ jobs[h].answers[q]
                  <= Cardinality(AccountsOf(Counted(q, recorded, jobs[h])))
            /\ Cardinality(AccountsOf(Counted(q, recorded, jobs[h]))) \in Nat
    <3> SUFFICES ASSUME NEW q \in Counts
                 PROVE  /\ Covered(h, q)
                        /\ Cardinality(AccountsOf(Counted(q, recorded, jobs[h]))) \in Nat
      BY DEF Covered
    <3>1. Covered(h, q)
      BY DEF Complete, Queries, Counts, EvidenceInv, CheckInInv, CountsAreCovered
    <3>2. Counted(q, recorded, jobs[h]) \subseteq recorded
      BY DEF Counted
    <3>3. QED
      BY <3>1, <3>2, FewerAccounts DEF EvidenceInv, CheckInInv, TypeOK
  <2>2. /\ Exceeds(jobs[h].answers["fanout"], FanoutThreshold)
              => Cardinality(AccountsOf(Counted("fanout", recorded, jobs[h]))) > FanoutThreshold
        /\ Exceeds(jobs[h].answers["sharing"], SharingThreshold)
              => Cardinality(AccountsOf(Counted("sharing", recorded, jobs[h])))
                     > SharingThreshold
    BY <2>1, CheckInAssumption DEF Counts, Exceeds
  <2>3. jobs[h].answers["timing"]
           => Cardinality(Own(recorded, jobs[h])) >= 3
    BY DEF EvidenceInv, TimingStands, Complete, Queries
  <2>4. /\ "DEVICE_FARM" \in Reasons(jobs[h].answers, {})
              => Exceeds(jobs[h].answers["fanout"], FanoutThreshold)
        /\ "IP_BATCH" \in Reasons(jobs[h].answers, {})
              => Exceeds(jobs[h].answers["sharing"], SharingThreshold)
        /\ "SCRIPTED_TIMING" \in Reasons(jobs[h].answers, {}) => jobs[h].answers["timing"]
        /\ "FP_RESET" \in Reasons(jobs[h].answers, {})
              => 2 * jobs[h].answers["churn"].distinct > jobs[h].answers["churn"].sampled
    BY DEF Reasons
  <2>5. 2 * jobs[h].answers["churn"].distinct > jobs[h].answers["churn"].sampled
           => 2 * Cardinality(DevicesOf(Own(recorded, jobs[h])))
                  > Smaller(NewDeviceSample, Cardinality(Own(Before(h), jobs[h])))
    <3>1. Sampled(h)
      BY DEF EvidenceInv, ChurnStands, Complete, Queries
    <3>2. /\ Own(recorded, jobs[h]) \subseteq recorded
          /\ Own(Before(h), jobs[h]) \subseteq recorded
      BY DEF Own, Before, EvidenceInv, CheckInInv, TypeOK
    <3>3. IsFiniteSet(Own(recorded, jobs[h])) /\ IsFiniteSet(Own(Before(h), jobs[h]))
      BY <3>2, FS_Subset DEF EvidenceInv, CheckInInv, TypeOK
    <3>4. /\ Cardinality(DevicesOf(Own(recorded, jobs[h]))) \in Nat
          /\ Cardinality(Own(Before(h), jobs[h])) \in Nat
      BY <3>3, FewerDevices, FS_CardinalityType
    <3>5. Smaller(NewDeviceSample, Cardinality(Own(Before(h), jobs[h]))) \in Nat
      BY <3>4, CheckInAssumption DEF Smaller
    <3> QED BY <3>1, <3>4, <3>5 DEF Sampled
  <2>6. QED
    BY <2>2, <2>3, <2>4, <2>5
<1>3. QED
  BY <1>1, <1>2, NextEvidenceInv, PTL DEF Spec
============================================================================
