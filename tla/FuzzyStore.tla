---------------------------- MODULE FuzzyStore ----------------------------
(***************************************************************************)
(* The native engine as it runs: identify, erase and purge_expired of      *)
(* FuzzyStore (crates/fp-core/src/fuzzy/mod.rs, engine.rs), lock by lock.  *)
(* Every backend guards only itself; identify_lock is what keeps the       *)
(* recall, the scoring and the writes of one identify together.  Each      *)
(* backend call is a step; between the steps of a call that holds the lock *)
(* the clock runs, requests arrive and queue, and the sweep reads the      *)
(* time.                                                                   *)
(*                                                                         *)
(* FingerprintLibrary is what callers may rely on; Implements says that    *)
(* this code provides it.                                                  *)
(***************************************************************************)
EXTENDS RecordStore, BlockingIndex, AggregateTables, VelocityTable, ProbeSchema

CONSTANTS
    Handlers, Probes, Names, Values, Stored, KeysOf, Retention,
    MaxTime, MaxRequests,   \* as in FingerprintLibrary
    Origins,        \* the velocity keys a request is counted under: a
                    \* sequence of the client IP and the JA4 class, or fewer
    Second,         \* clock units in a second of the velocity table
    MaxErasures     \* bound: erasures in a behaviour

VelocityKeys == UNION {{o[i] : i \in DOMAIN o} : o \in Origins}

ASSUME FuzzyStoreAssumption ==
    /\ MaxErasures \in Nat /\ Second \in Nat \ {0}
    /\ {"free", "eraser"} \cap Handlers = {}
    /\ \A p \in Probes : IsFiniteSet(DOMAIN Stored[p]) /\ DOMAIN Stored[p] \subseteq Names
    /\ KeysOf \in [Probes -> SUBSET Keys]
    /\ \A o \in Origins : o \in Seq(VelocityKeys)

VARIABLES
    clock,       \* the wall clock
    requests,    \* identify requests that have arrived
    erasures,    \* erasures that have started
    due,         \* the retention interval's next tick
    sweep,       \* the time a purge that is about to run has read, if any
    lock,        \* identify_lock: "free", a handler, or "eraser"
    jobs,        \* handler -> the locals of its identify call
    erasing,     \* the visitor whose record is removed but not its blocks
    records, evicted,    \* RecordStore
    index,               \* BlockingIndex
    frequency,           \* FrequencyTable
    agreement,           \* AgreementTable
    velocity,            \* VelocityTable
    saved,       \* history: the library when the lock was last taken
    absorbed, dropped, erased, ledger,   \* history: as in FingerprintLibrary
    tally        \* history: sightings made, what the matches say of each name,
                 \* mints by key

outside == <<clock, requests, erasures, due, sweep>>
tables  == <<frequency, agreement, velocity, tally>>
library == <<records, evicted, index, absorbed, dropped, erased, ledger, saved>>
vars == <<outside, lock, jobs, erasing, tables, library>>

Visitor(p) == p

NoPairs == [agree |-> 0, total |-> 0]

Init ==
    /\ clock = 0 /\ requests = 0 /\ erasures = 0 /\ due = 0 /\ sweep = {}
    /\ lock = "free"
    /\ jobs = [h \in {} |-> 0]
    /\ erasing = {}
    /\ records = NoRecords /\ evicted = 0
    /\ index = EmptyIndex
    /\ frequency = NoFrequency /\ agreement = NoAgreement /\ velocity = NoEvents
    /\ saved = [records |-> NoRecords, index |-> EmptyIndex]
    /\ absorbed = [v \in Probes |-> {}]
    /\ dropped = {} /\ erased = {}
    /\ ledger = [created |-> 0, forgotten |-> 0]
    /\ tally = [sighted |-> 0, matched |-> [n \in Names |-> NoPairs],
                mints |-> [k \in VelocityKeys |-> <<>>]]

---------------------------------------------------------------------------
Tick ==
    /\ clock < MaxTime
    /\ clock' = clock + 1
    /\ UNCHANGED <<requests, erasures, due, sweep, lock, jobs, erasing, tables, library>>

\* The handler reads now_ms() before it queues for the lock (lib.rs).
Arrive(h, p, origin) ==
    /\ h \notin DOMAIN jobs
    /\ requests < MaxRequests
    /\ requests' = requests + 1
    /\ jobs' = [g \in DOMAIN jobs \cup {h} |->
                   IF g # h THEN jobs[g]
                   ELSE [probe |-> p, now |-> clock, origin |-> origin,
                         phase |-> "recall", candidates |-> {}, target |-> Visitor(p),
                         verdict |-> "none", counts |-> <<>>]]
    /\ UNCHANGED <<clock, erasures, due, sweep, lock, erasing, tables, library>>

---------------------------------------------------------------------------
\* Mutant of Unlocked: a call that does not wait for identify_lock.
Unlocked_Never == TRUE

Unlocked == lock = "free"

\* A job holds the locals of one evaluate-then-observe; phase is its next step.
At(h, phase) == h \in DOMAIN jobs /\ jobs[h].phase = phase

Advance(h, phase) == jobs' = [jobs EXCEPT ![h].phase = phase]

\* identify_lock taken; evaluate: the candidate set of the blocking index.
Recall(h) ==
    /\ At(h, "recall")
    /\ Unlocked
    /\ lock' = h
    /\ jobs' = [jobs EXCEPT ![h].phase = "decide",
                            ![h].candidates = Candidates(index, KeysOf[jobs[h].probe])]
    /\ saved' = [records |-> records, index |-> index]
    /\ UNCHANGED <<outside, erasing, tables,
                   records, evicted, index, absorbed, dropped, erased, ledger>>

\* score_candidate: a candidate without a record scores -inf, one that shares no
\* component with the probe scores 0; neither reaches T_lo.  Any verdict may
\* come of the others (the best of them is not known here).
Scorable(h) ==
    {v \in jobs[h].candidates \cap DOMAIN records :
        DOMAIN records[v].template \cap DOMAIN Stored[jobs[h].probe] # {}}

Decide(h, verdict, v, phase) ==
    /\ jobs' = [jobs EXCEPT ![h].phase = phase, ![h].verdict = verdict,
                            ![h].target = v]
    /\ UNCHANGED <<outside, lock, erasing, tables, library>>

DecideMatch(h) ==
    /\ At(h, "decide")
    /\ \E v \in Scorable(h) : Decide(h, "match", v, "agree")

DecideReview(h) ==
    /\ At(h, "decide")
    /\ \E v \in Scorable(h) : Decide(h, "review", v, "answer")

DecideNew(h) ==
    /\ At(h, "decide")
    /\ Decide(h, "new", Visitor(jobs[h].probe), "sight")

\* The probe of h against the template recs has of its target: the names on
\* both sides, and those that agree.  No record, nothing to learn from.
Comparison(recs, h) ==
    LET probe == Stored[jobs[h].probe]
        template == IF jobs[h].target \in DOMAIN recs
                    THEN recs[jobs[h].target].template ELSE NoRecords
        names == DOMAIN template \cap DOMAIN probe
    IN  [names |-> names,
         agreed |-> {n \in names : Agrees(probe[n], template[n].value)}]

CountedIn(counts, pair) ==
    [n \in DOMAIN counts |->
        [agree |-> counts[n].agree + (IF n \in pair.agreed THEN 1 ELSE 0),
         total |-> counts[n].total + (IF n \in pair.names THEN 1 ELSE 0)]]

\* Mutant of LearntPair: record_agreement after observe has drifted the template.
LearntPair_Drifted(h) ==
    Comparison(Upsert(records, jobs[h].target, Stored[jobs[h].probe], jobs[h].now), h)

\* record_agreement: the probe against the template as it still stands.
LearntPair(h) == Comparison(records, h)

Agree(h) ==
    /\ At(h, "agree")
    /\ LET pair == LearntPair(h)
       IN  \E kept \in Admitted(DOMAIN agreement.stats,
                                pair.names \ DOMAIN agreement.stats,
                                MaxAgreementComponents) :
               agreement' = Compared(agreement, pair.names, pair.agreed, kept)
    /\ tally' = [tally EXCEPT !.matched = CountedIn(@, Comparison(saved.records, h))]
    /\ Advance(h, "sight")
    /\ UNCHANGED <<outside, lock, erasing, frequency, velocity, library>>

\* observe: every scalar value is sighted ...
Sight(h) ==
    /\ At(h, "sight")
    /\ LET probe == Stored[jobs[h].probe]
           seen == Sightings(probe)
       IN  /\ \E kept \in Admitted(DOMAIN frequency.count,
                                   DOMAIN seen \ DOMAIN frequency.count,
                                   MaxFrequencyValues) :
                  frequency' = Sighted(frequency, seen, kept)
           /\ tally' = [tally EXCEPT !.sighted = @ + Cardinality(Scalars(probe))]
    /\ Advance(h, "index")
    /\ UNCHANGED <<outside, lock, erasing, agreement, velocity, library>>

\* ... the visitor is indexed under every key ...
Index(h) ==
    /\ At(h, "index")
    /\ index' = InsertAll(index, KeysOf[jobs[h].probe], jobs[h].target)
    /\ Advance(h, "fold")
    /\ UNCHANGED <<outside, lock, erasing, tables,
                   records, evicted, absorbed, dropped, erased, ledger, saved>>

\* ... and the probe folded into its record, which evicts.
Newly(v) == IF v \in DOMAIN records THEN 0 ELSE 1

Fold(h) ==
    /\ At(h, "fold")
    /\ LET job == jobs[h]
           v == job.target
       IN  \E recs \in Observed(records, v, Stored[job.probe], job.now) :
           /\ records' = recs
           /\ evicted' = evicted + Cardinality((DOMAIN records \cup {v}) \ DOMAIN recs)
           /\ absorbed' = [w \in Probes |->
                  IF w \notin DOMAIN recs THEN {}
                  ELSE IF w # v THEN absorbed[w]
                  ELSE absorbed[w] \cup {[probe |-> job.probe, at |-> job.now]}]
           /\ dropped' = {d \in dropped : d[1] \notin KeysOf[job.probe] \/ d[2] # v}
                         \cup {<<k, v>> : k \in Refused(saved.index, KeysOf[job.probe], v)}
           /\ IF job.verdict = "new"
              THEN /\ erased' = erased \ {v}
                   /\ ledger' = [ledger EXCEPT !.created = @ + Newly(v)]
              ELSE UNCHANGED <<erased, ledger>>
    /\ Advance(h, IF jobs[h].verdict = "new" /\ jobs[h].origin # <<>>
                  THEN "count" ELSE "answer")
    /\ UNCHANGED <<outside, lock, erasing, tables, index, saved>>

\* A new device is counted under its client IP, then under its JA4 class.
CountMint(h) ==
    /\ At(h, "count")
    /\ LET job == jobs[h]
           key == job.origin[Len(job.counts) + 1]
           secs == job.now \div Second
           events == Pruned(Recorded(velocity, key, secs), key, secs)
           counts == Append(job.counts, Count(events, key))
       IN  /\ velocity' = events
           /\ jobs' = [jobs EXCEPT ![h].counts = counts,
                  ![h].phase = IF Len(counts) = Len(job.origin) THEN "answer" ELSE @]
           /\ tally' = [tally EXCEPT !.mints[key] = Append(@, secs)]
    /\ UNCHANGED <<outside, lock, erasing, frequency, agreement, library>>

\* Mutant of Released: a path that keeps the guard.
Released_NotOnNew(h) == IF jobs[h].verdict = "new" THEN h ELSE "free"

\* The guard is dropped on every path, and the handler answers.
Released(h) == "free"

Answer(h) ==
    /\ At(h, "answer")
    /\ lock' = Released(h)
    /\ jobs' = [g \in DOMAIN jobs \ {h} |-> jobs[g]]
    /\ UNCHANGED <<outside, erasing, tables, library>>

---------------------------------------------------------------------------
\* erase, under the lock: the record, then every block.
EraseRecord(v) ==
    /\ erasures < MaxErasures
    /\ Unlocked
    /\ lock' = "eraser"
    /\ erasures' = erasures + 1
    /\ erasing' = {v}
    /\ saved' = [records |-> records, index |-> index]
    /\ records' = Removed(records, v)
    /\ UNCHANGED <<clock, requests, due, sweep, jobs, tables,
                   evicted, index, absorbed, dropped, erased, ledger>>

EraseBlocks ==
    /\ \E v \in erasing :
           /\ index' = WithoutVisitor(index, v)
           /\ absorbed' = [absorbed EXCEPT ![v] = {}]
           /\ dropped' = {d \in dropped : d[2] # v}
           /\ erased' = erased \cup {v}
           /\ ledger' = [ledger EXCEPT !.forgotten =
                             IF v \in DOMAIN saved.records THEN @ + 1 ELSE @]
    /\ erasing' = {}
    /\ lock' = "free"
    /\ UNCHANGED <<outside, jobs, tables, records, evicted, saved>>

\* The retention task: one tick per interval reads the time, then
\* purge_expired takes the lock for one call of the record store.
SweepTick ==
    /\ Retention > 0 /\ sweep = {}
    /\ clock >= due
    /\ due' = due + 1
    /\ sweep' = {clock}
    /\ UNCHANGED <<clock, requests, erasures, lock, jobs, erasing, tables, library>>

Purge ==
    /\ Unlocked
    /\ \E t \in sweep :
           /\ records' = Purged(records, t, Retention)
           /\ evicted' = evicted + Cardinality(DOMAIN records \ DOMAIN records')
           /\ absorbed' = [v \in Probes |->
                               IF v \in DOMAIN records' THEN absorbed[v] ELSE {}]
    /\ sweep' = {}
    /\ UNCHANGED <<clock, requests, erasures, due, lock, jobs, erasing, tables,
                   index, dropped, erased, ledger, saved>>

Identify(h) ==
    \/ Recall(h)
    \/ DecideMatch(h)
    \/ DecideReview(h)
    \/ DecideNew(h)
    \/ Agree(h)
    \/ Sight(h)
    \/ Index(h)
    \/ Fold(h)
    \/ CountMint(h)
    \/ Answer(h)

Next ==
    \/ Tick
    \/ \E h \in Handlers, p \in Probes, o \in Origins : Arrive(h, p, o)
    \/ \E h \in Handlers : Identify(h)
    \/ \E v \in Probes : EraseRecord(v)
    \/ EraseBlocks
    \/ SweepTick
    \/ Purge

Spec == Init /\ [][Next]_vars

\* Threads that hold the lock run on, and the calls that contend for it are
\* finitely many, so a lock without any queueing order still serves everyone.
FairSpec ==
    /\ Spec
    /\ \A h \in Handlers : WF_vars(Identify(h))
    /\ WF_vars(EraseBlocks)
    /\ WF_vars(Purge)

---------------------------------------------------------------------------
Phases == {"recall", "decide", "agree", "sight", "index", "fold", "count", "answer"}

Job == [probe : Probes, now : Nat, origin : Origins, phase : Phases,
        candidates : SUBSET Probes, target : Probes,
        verdict : {"none", "match", "review", "new"}, counts : Seq(Nat)]

\* Types of what FingerprintLibrary does not know of, and of what the calls in
\* progress are made from (its own TypeOK holds of the rest by Implements).
TypeOK ==
    /\ clock \in Nat
    /\ lock \in Handlers \cup {"free", "eraser"}
    /\ DOMAIN jobs \subseteq Handlers
    /\ jobs \in [DOMAIN jobs -> Job]
    /\ \A h \in DOMAIN jobs : Len(jobs[h].counts) <= Len(jobs[h].origin)
    /\ erasing \subseteq Probes
    /\ index \in [Keys -> SUBSET Probes] /\ saved.index \in [Keys -> SUBSET Probes]
    /\ ledger \in [created : Nat, forgotten : Nat]
    /\ frequency.count \in [DOMAIN frequency.count -> Nat \ {0}]
    /\ frequency.total \in Nat /\ frequency.dropped \in Nat
    /\ DOMAIN agreement.stats \subseteq Names
    /\ agreement.stats \in [DOMAIN agreement.stats -> [agree : Nat, total : Nat \ {0}]]
    /\ DOMAIN velocity \subseteq VelocityKeys
    /\ velocity \in [DOMAIN velocity -> Seq(Nat)]
    /\ tally \in [sighted : Nat, matched : [Names -> [agree : Nat, total : Nat]],
                  mints : [VelocityKeys -> Seq(Nat)]]

(***************************************************************************)
(* Atomicity of identify, erase and purge_expired (the doc of              *)
(* identify_lock): seen through the calls that have taken effect, the      *)
(* store is a FingerprintLibrary, where each is one step.  A call takes    *)
(* effect at its last write to the library; until then callers of other    *)
(* calls would have found what was there when the lock was taken.          *)
(***************************************************************************)
Indexed == \E h \in DOMAIN jobs : jobs[h].phase = "fold"
Effective(h) == jobs[h].phase \in {"count", "answer"}

Waiting == [h \in {h \in DOMAIN jobs : ~Effective(h)} |->
               [probe |-> jobs[h].probe, now |-> jobs[h].now]]
SeenRecords == IF erasing # {} THEN saved.records ELSE records
SeenIndex == IF Indexed THEN saved.index ELSE index

Library == INSTANCE FingerprintLibrary WITH
    waiting <- Waiting, records <- SeenRecords, index <- SeenIndex

Implements == Library!Spec

(***************************************************************************)
(* Every sighting is counted or reported as dropped, and the denominator   *)
(* of u_i is exactly the sum of the counts that are its numerators, so no  *)
(* estimate exceeds one and the estimates of a library add up to one.      *)
(***************************************************************************)
FrequencyAddsUp ==
    /\ frequency.total = SumOver(frequency.count, DOMAIN frequency.count)
    /\ frequency.total + frequency.dropped = tally.sighted
    /\ Cardinality(DOMAIN frequency.count) <= MaxFrequencyValues

(***************************************************************************)
(* m_i is learnt from confirmed pairs only, each of them once and against  *)
(* the template the match was decided on: what the table says of a name is *)
(* what the matches say of it by the library as it was when each of them   *)
(* took the lock, and no estimate exceeds one.  A name the matches did     *)
(* compare is missing only from a table that is full.                      *)
(***************************************************************************)
LearntFromMatches ==
    \A n \in Names :
        IF n \in DOMAIN agreement.stats
        THEN /\ agreement.stats[n] = tally.matched[n]
             /\ agreement.stats[n].agree <= agreement.stats[n].total
        ELSE \/ tally.matched[n] = NoPairs
             \/ Cardinality(DOMAIN agreement.stats) >= MaxAgreementComponents

(***************************************************************************)
(* A band is computed from the mints of its own key that really happened,  *)
(* the one being answered among them, and from each of them that no request*)
(* since has found to be out of its window: a request that reaches the     *)
(* table late counts later mints too, and none the requests before it have *)
(* pruned.  Unless the key cap refused the key: then the count is zero and *)
(* the band stays low for ever.                                            *)
(***************************************************************************)
Lasting(times) ==
    {i \in DOMAIN times : \A j \in i .. Len(times) : times[i] >= Cutoff(times[j])}

HasCounted(j) ==
    LET n == Len(j.counts)
    IN  /\ \A i \in DOMAIN j.counts : j.counts[i] = 0 <=> j.origin[i] \notin DOMAIN velocity
        /\ n > 0 /\ j.origin[n] \in DOMAIN velocity =>
              j.counts[n] = Cardinality(Lasting(tally.mints[j.origin[n]]))

CountsAreOfMints == \A h \in DOMAIN jobs : HasCounted(jobs[h])

(***************************************************************************)
(* Every request is answered: the identify lock is always given back, by   *)
(* every path through identify, erase and the purge.                       *)
(***************************************************************************)
EveryRequestIsAnswered ==
    \A h \in Handlers : h \in DOMAIN jobs ~> h \notin DOMAIN jobs

---------------------------------------------------------------------------
\* The inductive invariant behind these.

\* identify_lock belongs to the one call that has left its first step.
LockIsHeld ==
    /\ erasing # {} <=> lock = "eraser"
    /\ lock \in Handlers => lock \in DOMAIN jobs
    /\ \A h \in DOMAIN jobs : jobs[h].phase # "recall" <=> lock = h

\* What the call in progress has read still stands, and what it has written is
\* all that was.
Comparable(p) ==
    {v \in Candidates(saved.index, KeysOf[p]) \cap DOMAIN records :
        DOMAIN records[v].template \cap DOMAIN Stored[p] # {}}

\* What a call in progress has read, and the order its writes come in.
JobStands(j) ==
    /\ j.phase \in {"decide", "agree", "sight", "index"} =>
          index = saved.index /\ records = saved.records
    /\ j.phase = "decide" => j.candidates = Candidates(index, KeysOf[j.probe])
    /\ j.phase = "agree" => j.verdict = "match"
    /\ j.phase \in {"agree", "sight", "index", "fold"} =>
          \/ j.verdict = "match" /\ j.target \in Comparable(j.probe)
          \/ j.verdict = "new" /\ j.target = Visitor(j.probe)
    /\ j.phase = "fold" => index = InsertAll(saved.index, KeysOf[j.probe], j.target)

\* What the holder of the lock has read is still so.
ReadsStand ==
    /\ \A v \in erasing : index = saved.index /\ records = Removed(saved.records, v)
    /\ \A h \in DOMAIN jobs : JobStands(jobs[h])

\* The list holds the lasting times, each of them once.
IsLasting(list, times) ==
    \E f \in Bijection(DOMAIN list, Lasting(times)) :
        \A i \in DOMAIN list : list[i] = times[f[i]]

\* A key's list is what lasts of its mints, and no mint was lost of a key that may yet be
\* tracked; a call counts after its writes only; and a key that was counted as zero will
\* find no room later either.
ListsAreOfMints ==
    /\ \A k \in DOMAIN velocity : IsLasting(velocity[k], tally.mints[k])
    /\ \A k \in VelocityKeys :
          k \notin DOMAIN velocity /\ HasRoom(velocity, k) => tally.mints[k] = <<>>
    /\ \A h \in DOMAIN jobs :
          /\ jobs[h].phase \notin {"count", "answer"} => jobs[h].counts = <<>>
          /\ jobs[h].phase = "count" => Len(jobs[h].counts) < Len(jobs[h].origin)
          /\ \A i \in DOMAIN jobs[h].counts :
                jobs[h].counts[i] = 0 => ~HasRoom(velocity, jobs[h].origin[i])

\* The inductive invariant: all of it is kept by every step.
StoreInv ==
    /\ TypeOK
    /\ LockIsHeld
    /\ ReadsStand
    /\ IsFiniteSet(DOMAIN frequency.count) /\ IsFiniteSet(DOMAIN agreement.stats)
    /\ FrequencyAddsUp
    /\ LearntFromMatches
    /\ ListsAreOfMints
    /\ CountsAreOfMints

===========================================================================
