------------------------- MODULE EdgeLibraryProofs -------------------------
(***************************************************************************)
(* Proofs about EdgeLibrary, for any devices, keys, numbers of requests in *)
(* flight and retention: the two tables agree, no observation is missing   *)
(* from a count, and an erasure that met no request about to write holds.  *)
(***************************************************************************)
EXTENDS EdgeLibrary, TLAPS

\* The tables start empty.
LEMMA InitEdgeInv == Init => EdgeInv
  BY DEF Init, Idle, EdgeInv, TypeOK, FoldedIsOnRecord, IndexIsExact,
         CountIsExact, QuietErasureHolds

---------------------------------------------------------------------------
\* A request that moves on (or ends) keeps EdgeInv as long as what it is
\* about to match is on record or was erased under its eyes.
LEMMA JobsMove ==
  ASSUME EdgeInv, UNCHANGED tables,
         clock' \in Nat, requests' \in Nat,
         DOMAIN jobs' \subseteq Handlers,
         \A h \in DOMAIN jobs' : IsJob(jobs'[h]),
         \A h \in DOMAIN jobs' :
             jobs'[h].verdict = "match" => jobs'[h].target \notin quiet,
         cron'.phase \in {"idle", "select", "delete"},
         cron'.at \in Nat, cron'.ids \subseteq Probes
  PROVE  EdgeInv'
<1>1. TypeOK'
  BY DEF EdgeInv, TypeOK, tables
<1>2. FoldedIsOnRecord' /\ IndexIsExact' /\ CountIsExact'
  BY DEF EdgeInv, FoldedIsOnRecord, IndexIsExact, CountIsExact, tables
<1>3. QuietErasureHolds'
  BY DEF EdgeInv, QuietErasureHolds, tables
<1>4. QED
  BY <1>1, <1>2, <1>3 DEF EdgeInv

\* A request that leaves leaves the others as they were.
LEMMA LeaveJobs ==
  ASSUME EdgeInv, NEW h \in Handlers, Leave(h)
  PROVE  /\ DOMAIN jobs' \subseteq DOMAIN jobs
         /\ \A g \in DOMAIN jobs' : jobs'[g] = jobs[g]
  BY DEF Leave

\* A verdict is for the minted id, or for a visitor the recall found.
LEMMA DecidedKeepsInv ==
  ASSUME EdgeInv, NEW h \in DOMAIN jobs, NEW v \in Probes,
         NEW verdict \in {"match", "new"}, NEW phase \in {"read", "write"},
         verdict = "match" => v \in DOMAIN templates,
         Decided(h, verdict, v, phase)
  PROVE  EdgeInv'
<1> DEFINE job == [jobs[h] EXCEPT !.verdict = verdict, !.target = v, !.phase = phase]
<1>1. IsJob(jobs[h]) /\ DOMAIN jobs \subseteq Handlers
  BY DEF EdgeInv, TypeOK
<1>2. jobs' = [jobs EXCEPT ![h] = job] /\ UNCHANGED <<clock, requests, cron, tables>>
  BY DEF Decided
<1>3. DOMAIN jobs' = DOMAIN jobs /\ jobs'[h] = job
      /\ \A g \in DOMAIN jobs : g # h => jobs'[g] = jobs[g]
  BY <1>2
<1>4. IsJob(job) /\ job.verdict = verdict /\ job.target = v
  BY <1>1 DEF IsJob
<1>5. verdict = "match" => v \notin quiet
  BY DEF EdgeInv, QuietErasureHolds
<1> HIDE DEF job
<1>6. \A g \in DOMAIN jobs' : IsJob(jobs'[g])
  BY <1>3, <1>4 DEF EdgeInv, TypeOK
<1>7. \A g \in DOMAIN jobs' : jobs'[g].verdict = "match" => jobs'[g].target \notin quiet
  BY <1>3, <1>4, <1>5 DEF EdgeInv, QuietErasureHolds
<1>8. QED
  BY <1>1, <1>2, <1>3, <1>6, <1>7, JobsMove DEF EdgeInv, TypeOK

\* Reading the template changes nothing but what the request will write.
LEMMA ReadKeepsInv ==
  ASSUME EdgeInv, NEW h \in Handlers, ReadTemplate(h)
  PROVE  EdgeInv'
<1>1. h \in DOMAIN jobs /\ IsJob(jobs[h]) /\ DOMAIN jobs \subseteq Handlers
  BY DEF ReadTemplate, At, EdgeInv, TypeOK
<1>2. PICK c : jobs' = [jobs EXCEPT ![h] = [@ EXCEPT !.phase = "write", !.components = c]]
  BY DEF ReadTemplate
<1>3. DOMAIN jobs' = DOMAIN jobs
      /\ \A g \in DOMAIN jobs : g # h => jobs'[g] = jobs[g]
  BY <1>2
<1>4. jobs'[h] = [jobs[h] EXCEPT !.phase = "write", !.components = c]
  BY <1>1, <1>2
<1>5. IsJob(jobs'[h]) /\ jobs'[h].verdict = jobs[h].verdict
      /\ jobs'[h].target = jobs[h].target
  <2>1. jobs[h].phase = "read"
    BY DEF ReadTemplate, At
  <2>2. jobs'[h].phase = "write" /\ DOMAIN jobs'[h] = DOMAIN jobs[h]
        /\ \A f \in {"probe", "now", "verdict", "target"} : jobs'[h][f] = jobs[h][f]
    BY <1>1, <1>4 DEF IsJob
  <2>3. QED
    BY <1>1, <2>1, <2>2 DEF IsJob
<1>6. \A g \in DOMAIN jobs' : IsJob(jobs'[g])
  BY <1>3, <1>5 DEF EdgeInv, TypeOK
<1>7. \A g \in DOMAIN jobs' : jobs'[g].verdict = "match" => jobs'[g].target \notin quiet
  BY <1>1, <1>3, <1>5 DEF EdgeInv, QuietErasureHolds
<1>8. QED
  BY <1>1, <1>3, <1>6, <1>7, JobsMove DEF ReadTemplate, EdgeInv, TypeOK

---------------------------------------------------------------------------
\* One batch upserts the template and indexes it, so tables, history and count
\* move together.
LEMMA WriteKeepsInv ==
  ASSUME EdgeInv, NEW h \in Handlers, Write(h)
  PROVE  EdgeInv'
<1> DEFINE job == jobs[h]
           v == job.target
           row == [components |-> job.components, first_seen |-> job.now,
                   last_seen |-> job.now, observation_count |-> 1]
<1>1. h \in DOMAIN jobs /\ IsJob(job) /\ v \in Probes /\ job.probe \in Probes
      /\ job.now \in Nat
  BY DEF Write, At, EdgeInv, TypeOK, IsJob
<1>2. /\ DOMAIN templates' = DOMAIN templates \cup {v}
      /\ \A w \in DOMAIN templates : w # v => templates'[w] = templates[w]
      /\ v \notin DOMAIN templates => templates'[v] = row
      /\ v \in DOMAIN templates =>
             templates'[v] = Upserted(templates[v], job.components, job.now)
  BY DEF Write
<1>3. /\ folded'[v] = folded[v] \cup {job.probe}
      /\ writes'[v] = writes[v] + 1
      /\ \A w \in Probes : w # v => folded'[w] = folded[w] /\ writes'[w] = writes[w]
      /\ folded' \in [Probes -> SUBSET Probes]
      /\ writes' \in [Probes -> Nat]
  BY <1>1 DEF Write, EdgeInv, TypeOK
<1>4. \A k \in Keys, w \in Probes :
          <<k, w>> \in rows' <=> <<k, w>> \in rows \/ (w = v /\ k \in KeysOf[job.probe])
  BY DEF Write, NewRows
<1>5. /\ DOMAIN jobs' \subseteq DOMAIN jobs
      /\ \A g \in DOMAIN jobs' : jobs'[g] = jobs[g]
  BY LeaveJobs DEF Write
<1>6. \/ job.verdict = "new" /\ forgotten' = forgotten \ {v} /\ quiet' = quiet \ {v}
      \/ job.verdict # "new" /\ UNCHANGED <<forgotten, quiet>>
  BY DEF Write
<1>7. v \notin quiet'
  <2>1. job.phase = "write"
    BY DEF Write, At
  <2>2. CASE job.verdict = "match"
    BY <1>1, <1>6, <2>2 DEF EdgeInv, QuietErasureHolds
  <2>3. CASE job.verdict = "new"
    BY <1>6, <2>3
  <2>4. CASE job.verdict = "none"
    BY <1>1, <2>1, <2>4, <1>6 DEF IsJob
  <2>5. QED
    BY <1>1, <2>2, <2>3, <2>4 DEF IsJob
<1>8. TypeOK'
  <2>1. \A w \in DOMAIN templates' : IsTemplate(templates'[w])
    <3>1. v \in DOMAIN templates => IsTemplate(templates[v])
      BY DEF EdgeInv, TypeOK
    <3>2. \A t, c : IsTemplate(t) => IsTemplate(Upserted(t, c, job.now))
      BY <1>1 DEF IsTemplate, Upserted
    <3>3. IsTemplate(row)
      BY <1>1 DEF IsTemplate
    <3>4. QED
      BY <1>2, <3>1, <3>2, <3>3 DEF EdgeInv, TypeOK
  <2>2. rows' \subseteq Keys \X Probes
    <3>1. rows' = rows \cup NewRows(job.probe, v)
      BY DEF Write
    <3>2. NewRows(job.probe, v) \subseteq Keys \X Probes
      BY <1>1, EdgeLibraryAssumption DEF NewRows
    <3>3. QED
      BY <3>1, <3>2 DEF EdgeInv, TypeOK
  <2>3. forgotten' \subseteq Probes /\ quiet' \subseteq forgotten'
    BY <1>6 DEF EdgeInv, TypeOK
  <2>4. clock' = clock /\ requests' = requests /\ cron' = cron
    BY DEF Write
  <2>5. QED
    BY <1>1, <1>2, <1>3, <1>5, <2>1, <2>2, <2>3, <2>4 DEF EdgeInv, TypeOK
<1>9. FoldedIsOnRecord'
  BY <1>2, <1>3 DEF EdgeInv, FoldedIsOnRecord
<1>10. IndexIsExact'
  <2>1. \A k \in Keys, w \in Probes : w # v =>
            (<<k, w>> \in rows' <=> <<k, w>> \in rows)
    BY <1>4
  <2>2. \A k \in Keys : <<k, v>> \in rows' <=>
            (<<k, v>> \in rows \/ k \in KeysOf[job.probe])
    BY <1>1, <1>4
  <2>3. v \notin DOMAIN templates => folded[v] = {}
    BY <1>1 DEF EdgeInv, FoldedIsOnRecord
  <2>4. \A k \in Keys : <<k, v>> \in rows <=> \E p \in folded[v] : k \in KeysOf[p]
    BY <1>1, <2>3 DEF EdgeInv, IndexIsExact
  <2>5. \A k \in Keys : <<k, v>> \in rows' <=> \E p \in folded'[v] : k \in KeysOf[p]
    BY <2>2, <2>4, <1>3
  <2>6. QED
    BY <2>1, <2>5, <1>2, <1>3 DEF EdgeInv, IndexIsExact
<1>11. CountIsExact'
  <2>1. v \in DOMAIN templates =>
            templates'[v].observation_count = templates[v].observation_count + 1
    <3>1. v \in DOMAIN templates => IsTemplate(templates[v])
      BY DEF EdgeInv, TypeOK
    <3>2. QED
      BY <1>2, <3>1 DEF Upserted, IsTemplate
  <2>2. v \notin DOMAIN templates => templates'[v].observation_count = 1
    BY <1>2
  <2>3. QED
    BY <1>1, <1>2, <1>3, <2>1, <2>2 DEF EdgeInv, CountIsExact, TypeOK
<1>12. QuietErasureHolds'
  <2>1. quiet' \subseteq quiet
    BY <1>6
  <2>2. \A w \in quiet' : w # v /\ w \in Probes
    BY <1>7, <1>8 DEF TypeOK
  <2>3. QED
    BY <1>2, <1>4, <1>5, <2>1, <2>2 DEF EdgeInv, QuietErasureHolds
<1>13. QED
  BY <1>8, <1>9, <1>10, <1>11, <1>12 DEF EdgeInv

---------------------------------------------------------------------------
\* One batch deletes templates and index rows of the same visitors.
LEMMA DeletedTables ==
  ASSUME EdgeInv, NEW ids \in SUBSET Probes, Deleted(ids)
  PROVE  /\ DOMAIN templates' = DOMAIN templates \ ids
         /\ \A v \in DOMAIN templates' : templates'[v] = templates[v]
         /\ \A k \in Keys, v \in Probes :
                <<k, v>> \in rows' <=> <<k, v>> \in rows /\ v \notin ids
         /\ rows' \subseteq Keys \X Probes
         /\ folded' \in [Probes -> SUBSET Probes]
         /\ writes' \in [Probes -> Nat]
         /\ FoldedIsOnRecord' /\ IndexIsExact' /\ CountIsExact'
<1>1. /\ DOMAIN templates' = DOMAIN templates \ ids
      /\ \A v \in DOMAIN templates' : templates'[v] = templates[v]
  BY DEF Deleted
<1>2. \A k \in Keys, v \in Probes :
          <<k, v>> \in rows' <=> <<k, v>> \in rows /\ v \notin ids
  BY DEF Deleted, RowsWithout
<1>3. rows' \subseteq Keys \X Probes
  BY DEF Deleted, RowsWithout, EdgeInv, TypeOK
<1>4. /\ folded' \in [Probes -> SUBSET Probes]
      /\ writes' \in [Probes -> Nat]
      /\ \A v \in Probes : v \in ids => folded'[v] = {} /\ writes'[v] = 0
      /\ \A v \in Probes : v \notin ids => folded'[v] = folded[v] /\ writes'[v] = writes[v]
  BY DEF Deleted, EdgeInv, TypeOK
<1>5. FoldedIsOnRecord'
  BY <1>1, <1>4 DEF EdgeInv, FoldedIsOnRecord
<1>6. IndexIsExact'
  <2>1. ASSUME NEW k \in Keys, NEW v \in Probes
        PROVE  <<k, v>> \in rows' <=>
                   v \in DOMAIN templates' /\ \E p \in folded'[v] : k \in KeysOf[p]
    <3>1. CASE v \in ids
      BY <1>1, <1>2, <3>1
    <3>2. CASE v \notin ids
      <4>1. folded'[v] = folded[v]
        BY <1>4, <3>2
      <4>2. <<k, v>> \in rows <=>
                v \in DOMAIN templates /\ \E p \in folded[v] : k \in KeysOf[p]
        BY DEF EdgeInv, IndexIsExact
      <4> QED BY <1>1, <1>2, <3>2, <4>1, <4>2
    <3> QED BY <3>1, <3>2
  <2> QED BY <2>1 DEF IndexIsExact
<1>7. CountIsExact'
  BY <1>1, <1>4 DEF EdgeInv, CountIsExact
<1>8. folded' \in [Probes -> SUBSET Probes] /\ writes' \in [Probes -> Nat]
  BY <1>4
<1>9. QED
  BY <1>1, <1>2, <1>3, <1>5, <1>6, <1>7, <1>8, Zenon

\* An erasure.
LEMMA EraseKeepsInv ==
  ASSUME EdgeInv, NEW v \in Probes, Erase(v)
  PROVE  EdgeInv'
<1>1. Deleted({v}) /\ {v} \in SUBSET Probes
      /\ UNCHANGED <<clock, requests, jobs, cron>>
  BY DEF Erase
<1>2. /\ DOMAIN templates' = DOMAIN templates \ {v}
      /\ \A w \in DOMAIN templates' : templates'[w] = templates[w]
      /\ \A k \in Keys, w \in Probes :
             <<k, w>> \in rows' <=> <<k, w>> \in rows /\ w \notin {v}
      /\ rows' \subseteq Keys \X Probes
      /\ folded' \in [Probes -> SUBSET Probes]
      /\ writes' \in [Probes -> Nat]
      /\ FoldedIsOnRecord' /\ IndexIsExact' /\ CountIsExact'
  BY <1>1, DeletedTables
<1>3. forgotten' = forgotten \cup {v}
      /\ quiet' = IF AboutToWrite(v) THEN quiet ELSE quiet \cup {v}
  BY DEF Erase
<1>4. TypeOK'
  BY <1>1, <1>2, <1>3 DEF EdgeInv, TypeOK
<1>5. QuietErasureHolds'
  <2>1. \A w \in quiet : w \notin DOMAIN templates' /\ \A k \in Keys : <<k, w>> \notin rows'
    BY <1>2 DEF EdgeInv, TypeOK, QuietErasureHolds
  <2>2. \A w \in quiet : \A h \in DOMAIN jobs' :
            jobs'[h].verdict = "match" => jobs'[h].target # w
    BY <1>1 DEF EdgeInv, QuietErasureHolds
  <2>3. CASE AboutToWrite(v)
    BY <1>3, <2>1, <2>2, <2>3 DEF QuietErasureHolds
  <2>4. CASE ~AboutToWrite(v)
    <3>1. v \notin DOMAIN templates' /\ \A k \in Keys : <<k, v>> \notin rows'
      BY <1>2
    <3>2. \A h \in DOMAIN jobs : jobs[h].verdict = "match" => jobs[h].target # v
      BY <2>4 DEF AboutToWrite, EdgeInv, TypeOK, IsJob
    <3>3. QED
      BY <1>1, <1>3, <2>1, <2>2, <2>4, <3>1, <3>2 DEF QuietErasureHolds
  <2>5. QED
    BY <2>3, <2>4
<1>6. QED
  BY <1>2, <1>4, <1>5 DEF EdgeInv

\* The cron's deletes.
LEMMA PurgeKeepsInv ==
  ASSUME EdgeInv, PurgeDelete
  PROVE  EdgeInv'
<1>1. Deleted(cron.ids) /\ cron.ids \in SUBSET Probes /\ cron' = Idle
      /\ UNCHANGED <<clock, requests, jobs, forgotten, quiet>>
  BY DEF PurgeDelete, EdgeInv, TypeOK
<1> DEFINE ids == cron.ids
<1>2. /\ DOMAIN templates' = DOMAIN templates \ ids
      /\ \A w \in DOMAIN templates' : templates'[w] = templates[w]
      /\ \A k \in Keys, w \in Probes :
             <<k, w>> \in rows' <=> <<k, w>> \in rows /\ w \notin ids
      /\ rows' \subseteq Keys \X Probes
      /\ folded' \in [Probes -> SUBSET Probes]
      /\ writes' \in [Probes -> Nat]
      /\ FoldedIsOnRecord' /\ IndexIsExact' /\ CountIsExact'
  BY <1>1, DeletedTables
<1>3. TypeOK'
  BY <1>1, <1>2 DEF EdgeInv, TypeOK, Idle
<1>4. QuietErasureHolds'
  BY <1>1, <1>2 DEF EdgeInv, TypeOK, QuietErasureHolds
<1>5. QED
  BY <1>2, <1>3, <1>4 DEF EdgeInv

---------------------------------------------------------------------------
\* EdgeInv is preserved by every action.
LEMMA NextEdgeInv == EdgeInv /\ [Next]_vars => EdgeInv'
<1> SUFFICES ASSUME EdgeInv, [Next]_vars
             PROVE  EdgeInv'
  OBVIOUS
<1>t. TypeOK /\ \A h \in DOMAIN jobs :
                    jobs[h].verdict = "match" => jobs[h].target \notin quiet
  BY DEF EdgeInv, QuietErasureHolds
<1>1. CASE Tick
  BY <1>t, <1>1, JobsMove DEF Tick, TypeOK
<1>2. ASSUME NEW h \in Handlers, NEW p \in Probes, Arrive(h, p)
      PROVE  EdgeInv'
  <2>1. /\ DOMAIN jobs' = DOMAIN jobs \cup {h} /\ h \notin DOMAIN jobs
        /\ \A g \in DOMAIN jobs : jobs'[g] = jobs[g]
        /\ jobs'[h] = [probe |-> p, now |-> clock, phase |-> "recall",
                       verdict |-> "none", target |-> Visitor(p),
                       components |-> RawOf[p]]
    BY <1>2 DEF Arrive
  <2>2. IsJob(jobs'[h]) /\ jobs'[h].verdict = "none"
    BY <1>t, <2>1 DEF IsJob, TypeOK, Visitor
  <2>3. /\ \A g \in DOMAIN jobs' : IsJob(jobs'[g])
        /\ \A g \in DOMAIN jobs' : jobs'[g].verdict = "match" => jobs'[g].target \notin quiet
    BY <1>t, <2>1, <2>2 DEF TypeOK
  <2>4. requests' = requests + 1 /\ clock' = clock /\ cron' = cron /\ UNCHANGED tables
    BY <1>2 DEF Arrive
  <2>5. DOMAIN jobs' \subseteq Handlers /\ requests' \in Nat
    BY <1>t, <2>1, <2>4 DEF TypeOK
  <2>6. QED
    BY <1>t, <2>3, <2>4, <2>5, JobsMove DEF TypeOK
<1>3. ASSUME NEW h \in Handlers, RecallMatch(h)
      PROVE  EdgeInv'
  <2>1. PICK v \in Comparable(jobs[h].probe) : Decided(h, "match", v, "read")
    BY <1>3 DEF RecallMatch
  <2>2. v \in DOMAIN templates
    BY DEF Comparable, Recalled, Indexed
  <2>3. QED
    BY <1>t, <1>3, <2>1, <2>2, DecidedKeepsInv DEF RecallMatch, At, TypeOK
<1>4. ASSUME NEW h \in Handlers, RecallNew(h)
      PROVE  EdgeInv'
  <2>1. h \in DOMAIN jobs /\ Visitor(jobs[h].probe) \in Probes
        /\ Decided(h, "new", Visitor(jobs[h].probe), "write")
    BY <1>t, <1>4 DEF RecallNew, At, Visitor, TypeOK, IsJob
  <2>2. QED
    BY <2>1, DecidedKeepsInv
<1>5. ASSUME NEW h \in Handlers, RecallReview(h) \/ Fail(h)
      PROVE  EdgeInv'
  <2>1. Leave(h) /\ UNCHANGED <<clock, requests, cron, tables>>
    BY <1>5 DEF RecallReview, Fail
  <2>2. /\ DOMAIN jobs' \subseteq DOMAIN jobs
        /\ \A g \in DOMAIN jobs' : jobs'[g] = jobs[g]
    BY <2>1, LeaveJobs
  <2>3. QED
    BY <1>t, <2>1, <2>2, JobsMove DEF TypeOK
<1>6. ASSUME NEW h \in Handlers, ReadTemplate(h)
      PROVE  EdgeInv'
  BY <1>6, ReadKeepsInv
<1>7. ASSUME NEW h \in Handlers, Write(h)
      PROVE  EdgeInv'
  BY <1>7, WriteKeepsInv
<1>8. ASSUME NEW v \in Probes, Erase(v)
      PROVE  EdgeInv'
  BY <1>8, EraseKeepsInv
<1>9. CASE CronTick
  <2>1. cron'.phase = "select" /\ cron'.at = clock /\ cron'.ids = cron.ids
    BY <1>t, <1>9 DEF CronTick, TypeOK
  <2>2. QED
    BY <1>t, <1>9, <2>1, JobsMove DEF CronTick, TypeOK
<1>10. CASE PurgeSelect
  <2>1. cron'.phase \in {"idle", "delete"} /\ cron'.at \in Nat /\ cron'.ids \subseteq Probes
    BY <1>t, <1>10 DEF PurgeSelect, Idle, TypeOK
  <2>2. QED
    BY <1>t, <1>10, <2>1, JobsMove DEF PurgeSelect, TypeOK
<1>11. CASE PurgeDelete
  BY <1>11, PurgeKeepsInv
<1>12. CASE UNCHANGED vars
  BY <1>t, <1>12, JobsMove DEF vars, TypeOK
<1>13. QED
  BY <1>1, <1>2, <1>3, <1>4, <1>5, <1>6, <1>7, <1>8, <1>9, <1>10, <1>11, <1>12 DEF Next

---------------------------------------------------------------------------
\* The inductive invariant of the edge library (fingerprint-store-d1.ts).
THEOREM EdgeInvariant == Spec => []EdgeInv
  BY InitEdgeInv, NextEdgeInv, PTL DEF Spec

\* templates and blocking_index never disagree, without any lock across D1
\* calls, because every change of both is one batch.
THEOREM TablesAgree == Spec => []IndexIsExact
<1>1. EdgeInv => IndexIsExact
  BY DEF EdgeInv
<1>2. QED
  BY <1>1, EdgeInvariant, PTL

\* No observation that was written is missing from observation_count.
THEOREM CountsAreExact == Spec => []CountIsExact
<1>1. EdgeInv => CountIsExact
  BY DEF EdgeInv
<1>2. QED
  BY <1>1, EdgeInvariant, PTL

\* An erasure that met no request about to write its visitor is final until
\* the id is minted again.
THEOREM QuietErasureIsFinal == Spec => []QuietErasureHolds
<1>1. EdgeInv => QuietErasureHolds
  BY DEF EdgeInv
<1>2. QED
  BY <1>1, EdgeInvariant, PTL
============================================================================
