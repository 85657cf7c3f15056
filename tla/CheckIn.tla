------------------------------ MODULE CheckIn ------------------------------
(***************************************************************************)
(* The edge's check-in risk endpoint, POST /checkin/assess                 *)
(* (apps/edge/src/modules/checkin): every request appends its event to the *)
(* log in D1, waits for that, then reads the log with several queries at   *)
(* once, and scores what they answered.  Nothing locks the log: events of  *)
(* other requests and the retention cron come between any two queries.     *)
(* Left out are the aggregates no threshold looks at (7- and 30-day        *)
(* counts, the day's IP count, minute bursts) and the unbound fallback.    *)
(***************************************************************************)
EXTENDS Integers, FiniteSets, FiniteSetsExt, SequencesExt

CONSTANTS
    Handlers,                   \* requests that may be in flight at once
    Accounts, Visitors, Ips,    \* what a request names and the edge observes
    Day, Hour,                  \* the windows of the two thresholded counts
    NewDeviceSample, IntervalSample,
    FanoutThreshold, SharingThreshold,   \* of defaultProfiles.daily_checkin
    Retention,                  \* checkinRetentionMs; 0: off
    MaxTime, MaxRequests        \* bounds: the last instant, requests

ASSUME CheckInAssumption ==
    /\ Hour \in Nat /\ Day \in Nat /\ Retention \in Nat
    /\ NewDeviceSample \in Nat \ {0} /\ IntervalSample \in Nat \ {0}
    /\ FanoutThreshold \in Nat /\ SharingThreshold \in Nat
    /\ MaxTime \in Nat /\ MaxRequests \in Nat

VARIABLES
    clock,     \* Date.now()
    jobs,      \* handler -> its event, the row it got, the answers so far
    events,    \* table checkin_events, row ids included
    cron,      \* the purge in progress
    recorded   \* history: every event ever inserted

vars == <<clock, jobs, events, cron, recorded>>

Queries == {"fanout", "churn", "sharing", "timing"}
Resting == [phase |-> "idle", cutoff |-> 0]

Init ==
    /\ clock = 0
    /\ jobs = [h \in {} |-> 0]
    /\ events = {} /\ recorded = {}
    /\ cron = Resting

Tick ==
    /\ clock < MaxTime
    /\ clock' = clock + 1
    /\ UNCHANGED <<jobs, events, cron, recorded>>

\* A valid body; the edge stamps ip and ts.  A retry of a check-in is another.
Arrive(h, account, visitor, ip) ==
    /\ h \notin DOMAIN jobs
    /\ Cardinality(recorded) + Cardinality({g \in DOMAIN jobs : jobs[g].row = 0}) < MaxRequests
    /\ jobs' = [g \in DOMAIN jobs \cup {h} |->
                   IF g # h THEN jobs[g]
                   ELSE [account |-> account, visitor |-> visitor, ip |-> ip,
                         ts |-> clock, row |-> 0, answers |-> [q \in {} |-> 0]]]
    /\ UNCHANGED <<clock, events, cron, recorded>>

\* record: one insert.
Record(h) ==
    /\ h \in DOMAIN jobs
    /\ jobs[h].row = 0
    /\ LET row == Cardinality(recorded) + 1
           job == jobs[h]
           event == [row |-> row, account |-> job.account, visitor |-> job.visitor,
                     ip |-> job.ip, ts |-> job.ts]
       IN  /\ events' = events \cup {event}
           /\ recorded' = recorded \cup {event}
           /\ jobs' = [jobs EXCEPT ![h].row = row]
    /\ UNCHANGED <<clock, cron>>

---------------------------------------------------------------------------
\* The aggregates, over a set of events.

\* ts >= now - window; events after now are not left out.
Since(log, start) == {e \in log : e.ts >= start}

\* Mutant of AccountsOn: rows counted instead of accounts.
AccountsOn_Rows(log, visitor, start) == {e \in Since(log, start) : e.visitor = visitor}

AccountsOn(log, visitor, start) ==
    {e.account : e \in {x \in Since(log, start) : x.visitor = visitor}}
AccountsFrom(log, ip, start) ==
    {e.account : e \in {x \in Since(log, start) : x.ip = ip}}

\* ORDER BY ts DESC LIMIT n: among equal times any may make the sample.
Latest(log, account, n) ==
    LET own == {e \in log : e.account = account}
    IN  {s \in SUBSET own :
            /\ Cardinality(s) = IF Cardinality(own) < n THEN Cardinality(own) ELSE n
            /\ \A e \in s, f \in own \ s : e.ts >= f.ts}

Churn(sample) == [distinct |-> Cardinality({e.visitor : e \in sample}),
                  sampled |-> Cardinality(sample)]

\* The intervals' standard deviation is below a quarter of their mean; one
\* instant for all counts as perfectly regular.
Steady(sample) ==
    LET times == SetToSortSeq({<<e.ts, e.row>> : e \in sample},
                              LAMBDA a, b : a[1] > b[1] \/ (a[1] = b[1] /\ a[2] > b[2]))
        gaps == 1..(Len(times) - 1)
        gap(i) == times[i][1] - times[i + 1][1]
        sum == MapThenSumSet(gap, gaps)
        squares == MapThenSumSet(LAMBDA i : gap(i) * gap(i), gaps)
    IN  sum = 0 \/ 16 * Cardinality(gaps) * squares < 17 * sum * sum

\* regularity > 0.8: fewer than two intervals have none.
Regular(sample) == Cardinality(sample) >= 3 /\ Steady(sample)

---------------------------------------------------------------------------
\* Mutant of MayRead: the insert not awaited.
MayRead_Unawaited(h) == h \in DOMAIN jobs

MayRead(h) == h \in DOMAIN jobs /\ jobs[h].row # 0

Answered(h, q, answer) ==
    /\ q \notin DOMAIN jobs[h].answers
    /\ jobs' = [jobs EXCEPT ![h].answers =
                   [x \in DOMAIN @ \cup {q} |-> IF x = q THEN answer ELSE @[x]]]
    /\ UNCHANGED <<clock, events, cron, recorded>>

\* getAggregates: each query is answered on its own, in any order.
Fanout(h) ==
    /\ MayRead(h)
    /\ Answered(h, "fanout",
                Cardinality(AccountsOn(events, jobs[h].visitor, jobs[h].ts - Day)))

Sharing(h) ==
    /\ MayRead(h)
    /\ Answered(h, "sharing",
                Cardinality(AccountsFrom(events, jobs[h].ip, jobs[h].ts - Hour)))

ChurnRate(h) ==
    /\ MayRead(h)
    /\ \E s \in Latest(events, jobs[h].account, NewDeviceSample) :
          Answered(h, "churn", Churn(s))

Timing(h) ==
    /\ MayRead(h)
    /\ \E s \in Latest(events, jobs[h].account, IntervalSample) :
          Answered(h, "timing", Regular(s))

---------------------------------------------------------------------------
\* The risk engine, in hundredths.
Weight ==
    [UA_TLS_MISMATCH |-> 50, DATACENTER_IP |-> 30, DEVICE_FARM |-> 60,
     FP_RESET |-> 40, IP_BATCH |-> 30, SCRIPTED_TIMING |-> 30]

Risk(reasons) ==
    LET sum == MapThenSumSet(LAMBDA r : Weight[r], reasons)
    IN  IF sum > 100 THEN 100 ELSE sum

Decision(risk) ==
    IF risk >= 70 THEN "deny" ELSE IF risk >= 35 THEN "challenge" ELSE "allow"

Exceeds(n, threshold) == n > threshold

Reasons(a, hard) ==
    hard
    \cup {r \in {"DEVICE_FARM"} : Exceeds(a["fanout"], FanoutThreshold)}
    \cup {r \in {"FP_RESET"} : 2 * a["churn"].distinct > a["churn"].sampled}
    \cup {r \in {"IP_BATCH"} : Exceeds(a["sharing"], SharingThreshold)}
    \cup {r \in {"SCRIPTED_TIMING"} : a["timing"]}

Leave(h) == jobs' = [g \in DOMAIN jobs \ {h} |-> jobs[g]]

Complete(h) == h \in DOMAIN jobs /\ DOMAIN jobs[h].answers = Queries

\* assess, and the response: Reasons of the answers and of what the identify
\* verdict in the body makes fire, and the Decision on their risk.
Assess(h) ==
    /\ Complete(h)
    /\ Leave(h)
    /\ UNCHANGED <<clock, events, cron, recorded>>

\* A call throws or the client goes away; a recorded event stays.
Fail(h) ==
    /\ h \in DOMAIN jobs
    /\ Leave(h)
    /\ UNCHANGED <<clock, events, cron, recorded>>

---------------------------------------------------------------------------
\* scheduled: the cutoff, the count (nothing to do: done), the delete.
CronTick ==
    /\ Retention > 0
    /\ cron.phase = "idle"
    /\ cron' = [phase |-> "count", cutoff |-> clock - Retention]
    /\ UNCHANGED <<clock, jobs, events, recorded>>

\* Mutant of Expired: the cutoff itself taken.
Expired_Inclusive(log, cutoff) == {e \in log : e.ts <= cutoff}

Expired(log, cutoff) == {e \in log : e.ts < cutoff}

PurgeCount ==
    /\ cron.phase = "count"
    /\ cron' = IF Expired(events, cron.cutoff) = {} THEN Resting
               ELSE [cron EXCEPT !.phase = "delete"]
    /\ UNCHANGED <<clock, jobs, events, recorded>>

PurgeDelete ==
    /\ cron.phase = "delete"
    /\ events' = events \ Expired(events, cron.cutoff)
    /\ cron' = Resting
    /\ UNCHANGED <<clock, jobs, recorded>>

Next ==
    \/ Tick
    \/ \E h \in Handlers, a \in Accounts, v \in Visitors, ip \in Ips : Arrive(h, a, v, ip)
    \/ \E h \in Handlers : Record(h)
    \/ \E h \in Handlers : Fanout(h)
    \/ \E h \in Handlers : Sharing(h)
    \/ \E h \in Handlers : ChurnRate(h)
    \/ \E h \in Handlers : Timing(h)
    \/ \E h \in Handlers : Assess(h)
    \/ \E h \in Handlers : Fail(h)
    \/ CronTick
    \/ PurgeCount
    \/ PurgeDelete

Spec == Init /\ [][Next]_vars

---------------------------------------------------------------------------
Event == [row : Nat \ {0}, account : Accounts, visitor : Visitors, ip : Ips, ts : Nat]

IsJob(j) ==
    /\ DOMAIN j = {"account", "visitor", "ip", "ts", "row", "answers"}
    /\ j.account \in Accounts /\ j.visitor \in Visitors /\ j.ip \in Ips
    /\ j.ts \in Nat /\ j.row \in Nat
    /\ DOMAIN j.answers \subseteq Queries

TypeOK ==
    /\ clock \in Nat
    /\ DOMAIN jobs \subseteq Handlers
    /\ \A h \in DOMAIN jobs : IsJob(jobs[h])
    /\ events \subseteq recorded /\ recorded \subseteq Event
    /\ IsFiniteSet(recorded)
    /\ cron \in [phase : {"idle", "count", "delete"}, cutoff : Int]

\* The row of a request is its own event, and no two events share one.
RowsAgree ==
    /\ \A e \in recorded : e.row <= Cardinality(recorded)
    /\ \A e, f \in recorded : e.row = f.row => e = f
    /\ \A h \in DOMAIN jobs :
          jobs[h].row # 0 =>
              \E e \in recorded :
                  /\ e.row = jobs[h].row /\ e.account = jobs[h].account
                  /\ e.visitor = jobs[h].visitor /\ e.ip = jobs[h].ip
                  /\ e.ts = jobs[h].ts

\* "recorded BEFORE the aggregates are read so this check-in is reflected".
RecordedFirst == \A h \in DOMAIN jobs : DOMAIN jobs[h].answers # {} => jobs[h].row # 0

(***************************************************************************)
(* The cron takes no event inside the retention window, however long it    *)
(* and the requests are delayed.                                           *)
(***************************************************************************)
YoungEventsAreKept ==
    \A e \in recorded : Retention = 0 \/ e.ts + Retention >= clock => e \in events

\* A cutoff is a window back from an instant that has been.
CutoffIsPast ==
    cron.phase # "idle" => Retention > 0 /\ cron.cutoff + Retention <= clock

\* The two counts that have thresholds, the events of a log they are about,
\* and what was on the log when a request's own event was recorded.
Counts == {"fanout", "sharing"}
Counted(q, log, job) ==
    IF q = "fanout" THEN {e \in log : e.visitor = job.visitor /\ e.ts + Day >= job.ts}
    ELSE {e \in log : e.ip = job.ip /\ e.ts + Hour >= job.ts}
AccountsOf(log) == {e.account : e \in log}
Before(h) == {e \in events : e.row <= jobs[h].row}

\* Each count is between what was there before and what ever was.
Covered(h, q) ==
    LET job == jobs[h]
    IN  /\ job.answers[q] \in Nat
        /\ Cardinality(AccountsOf(Counted(q, Before(h), job))) <= job.answers[q]
        /\ job.answers[q] <= Cardinality(AccountsOf(Counted(q, recorded, job)))

CountsAreCovered ==
    \A h \in DOMAIN jobs : \A q \in Counts \cap DOMAIN jobs[h].answers : Covered(h, q)

\* What every step keeps.
CheckInInv ==
    /\ TypeOK
    /\ RowsAgree
    /\ RecordedFirst
    /\ CutoffIsPast
    /\ YoungEventsAreKept
    /\ CountsAreCovered

(***************************************************************************)
(* A farm does not slip through by checking in all at once.  When a        *)
(* request is scored, every event on the log that was there when its own   *)
(* was recorded, or its own, has been counted: if those make too many      *)
(* accounts on the device or the IP, the reason is given.  So of any       *)
(* number of concurrent check-ins, the last to be recorded sees them all.  *)
(***************************************************************************)
FarmsAreNoticed ==
    \A h \in DOMAIN jobs : Complete(h) =>
        LET job == jobs[h]
            reasons == Reasons(job.answers, {})
        IN  /\ Cardinality(AccountsOf(Counted("fanout", Before(h), job))) > FanoutThreshold
                   => "DEVICE_FARM" \in reasons
            /\ Cardinality(AccountsOf(Counted("sharing", Before(h), job))) > SharingThreshold
                   => "IP_BATCH" \in reasons

(***************************************************************************)
(* And no reason is given without evidence.  Retries of one check-in,      *)
(* purges and the queries' different moments never make up a farm, a       *)
(* crowded egress or a scripted timing: what was recorded bears them out.  *)
(* FP_RESET is a share, which a purge can raise: an account whose older    *)
(* events are gone is on one device in one.  So it is borne out by the     *)
(* devices the account ever had against the events of its that were there  *)
(* before and still are: queries at different moments make none up, and a  *)
(* purge no more than what it took.                                        *)
(***************************************************************************)
Own(log, job) == {e \in log : e.account = job.account}
DevicesOf(log) == {e.visitor : e \in log}
Smaller(a, b) == IF a < b THEN a ELSE b

AlarmsHaveEvidence ==
    \A h \in DOMAIN jobs : Complete(h) =>
        LET job == jobs[h]
            reasons == Reasons(job.answers, {})
        IN  /\ "DEVICE_FARM" \in reasons
                   => Cardinality(AccountsOf(Counted("fanout", recorded, job))) > FanoutThreshold
            /\ "IP_BATCH" \in reasons
                   => Cardinality(AccountsOf(Counted("sharing", recorded, job))) > SharingThreshold
            /\ "SCRIPTED_TIMING" \in reasons
                   => Cardinality(Own(recorded, job)) >= 3
            /\ "FP_RESET" \in reasons
                   => 2 * Cardinality(DevicesOf(Own(recorded, job)))
                          > Smaller(NewDeviceSample, Cardinality(Own(Before(h), job)))

\* What every step keeps of the timing answers: one that raises the alarm was drawn
\* from as many events of the account.
TimingStands ==
    \A h \in DOMAIN jobs :
        "timing" \in DOMAIN jobs[h].answers /\ jobs[h].answers["timing"] =>
            Cardinality(Own(recorded, jobs[h])) >= 3

\* And of the churn answers: a sample has no device the account never used, and is as
\* large as what is left of the events it could be drawn from.
Sampled(h) ==
    LET churn == jobs[h].answers["churn"]
    IN  /\ churn.distinct \in Nat /\ churn.sampled \in Nat
        /\ churn.distinct <= Cardinality(DevicesOf(Own(recorded, jobs[h])))
        /\ Smaller(NewDeviceSample, Cardinality(Own(Before(h), jobs[h]))) <= churn.sampled

ChurnStands ==
    \A h \in DOMAIN jobs : "churn" \in DOMAIN jobs[h].answers => Sampled(h)

\* The inductive invariant behind AlarmsHaveEvidence.
EvidenceInv == CheckInInv /\ TimingStands /\ ChurnStands

---------------------------------------------------------------------------
\* What a test says and the code does not do.

(***************************************************************************)
(* integration.assess.test.ts: "KEY PROPERTY: a benign shared egress must  *)
(* not be denied", scored there on an empty churn aggregate.  But the      *)
(* check-in is on the log by then, and an account's first is on one device *)
(* of one: FP_RESET fires, and with IP_BATCH that is denied.  Benign: the  *)
(* account has used one device, and the device one account.                *)
(***************************************************************************)
Benign(job) ==
    \A e \in recorded : e.account = job.account <=> e.visitor = job.visitor

BenignEgressNotDenied ==
    \A h \in DOMAIN jobs :
        Complete(h) /\ Benign(jobs[h]) =>
            Decision(Risk(Reasons(jobs[h].answers, {}))) # "deny"
============================================================================
