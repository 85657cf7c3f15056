---------------------------- MODULE EdgeLibrary ----------------------------
(***************************************************************************)
(* The fingerprint library of the edge deployment: identify, erase and the *)
(* retention cron over D1 (apps/edge/src/modules/fingerprint/              *)
(* fingerprint-store-d1.ts and fingerprint.routes.ts).  Every D1 statement *)
(* or batch is a transaction of its own and nothing locks the library      *)
(* across them: requests of any number of isolates, erasures and the cron  *)
(* interleave between them, and a request may be lost at any of them.      *)
(*                                                                         *)
(* Templates hold RAW components; the WASM engine takes them to their      *)
(* stored form when it scores.  As in FingerprintLibrary, any verdict is   *)
(* allowed for a candidate that can be compared.                           *)
(***************************************************************************)
EXTENDS ProbeSchema

CONSTANTS
    Handlers,      \* identify requests that may be in flight at once
    Probes,        \* the component objects devices submit
    RawOf,         \* probe -> its raw components
    Keys, KeysOf,  \* blocking keys, and those of each probe
    MaxRecall,     \* maxBlock: the LIMIT on a recall
    Retention,     \* retentionMs
    MaxTime,       \* bound: the last instant
    MaxRequests    \* bound: identify requests in a behaviour

ASSUME EdgeLibraryAssumption ==
    /\ KeysOf \in [Probes -> SUBSET Keys]
    /\ MaxRecall \in Nat /\ Retention \in Nat
    /\ MaxTime \in Nat /\ MaxRequests \in Nat

VARIABLES
    clock,       \* Date.now()
    requests,    \* identify requests that have arrived
    jobs,        \* handler -> the locals of its request
    cron,        \* the retention purge in progress
    templates,   \* table templates: visitorId -> row
    rows,        \* table blocking_index: <<key, visitorId>>
    folded,      \* history: visitor -> probes written since its row was created
    writes,      \* history: visitor -> how many writes those were
    forgotten,   \* history: visitors erased and not minted since
    quiet        \* history: those erased while no request was about to write them

tables == <<templates, rows, folded, writes, forgotten, quiet>>
vars == <<clock, requests, jobs, cron, tables>>

\* The digest of the probe, as in FingerprintLibrary: isolates share the salt.
Visitor(p) == p

Idle == [phase |-> "idle", at |-> 0, ids |-> {}]

Init ==
    /\ clock = 0 /\ requests = 0
    /\ jobs = [h \in {} |-> 0]
    /\ cron = Idle
    /\ templates = [v \in {} |-> 0] /\ rows = {}
    /\ folded = [v \in Probes |-> {}]
    /\ writes = [v \in Probes |-> 0]
    /\ forgotten = {} /\ quiet = {}

Tick ==
    /\ clock < MaxTime
    /\ clock' = clock + 1
    /\ UNCHANGED <<requests, jobs, cron, tables>>

\* A request has passed the nonce and the depth checks and read Date.now().
Arrive(h, p) ==
    /\ h \notin DOMAIN jobs
    /\ requests < MaxRequests
    /\ requests' = requests + 1
    /\ jobs' = [g \in DOMAIN jobs \cup {h} |->
                   IF g # h THEN jobs[g]
                   ELSE [probe |-> p, now |-> clock, phase |-> "recall",
                         verdict |-> "none", target |-> Visitor(p),
                         components |-> RawOf[p]]]
    /\ UNCHANGED <<clock, cron, tables>>

At(h, phase) == h \in DOMAIN jobs /\ jobs[h].phase = phase

Leave(h) == jobs' = [g \in DOMAIN jobs \ {h} |-> jobs[g]]

\* A D1 call throws, the isolate is evicted or the client goes away: what was
\* committed stays, the rest of the request never happens.
Fail(h) ==
    /\ h \in DOMAIN jobs
    /\ Leave(h)
    /\ UNCHANGED <<clock, requests, cron, tables>>

---------------------------------------------------------------------------
\* recall: rows of the keys joined with their templates, LIMIT maxBlock in no
\* particular order.
Indexed(p) == {v \in DOMAIN templates : \E k \in KeysOf[p] : <<k, v>> \in rows}

Recalled(p) ==
    {c \in SUBSET Indexed(p) :
        \/ c = Indexed(p) /\ Cardinality(c) <= MaxRecall
        \/ Cardinality(c) = MaxRecall}

Comparable(p) ==
    {v \in UNION Recalled(p) :
        DOMAIN StoredMap(templates[v].components) \cap DOMAIN StoredMap(RawOf[p]) # {}}

\* recall, then the engine's verdict on what it returned.
Decided(h, verdict, v, phase) ==
    /\ jobs' = [jobs EXCEPT ![h].verdict = verdict, ![h].target = v,
                            ![h].phase = phase]
    /\ UNCHANGED <<clock, requests, cron, tables>>

RecallMatch(h) ==
    /\ At(h, "recall")
    /\ \E v \in Comparable(jobs[h].probe) : Decided(h, "match", v, "read")

RecallNew(h) ==
    /\ At(h, "recall")
    /\ Decided(h, "new", Visitor(jobs[h].probe), "write")

\* persist of a review returns at once.
RecallReview(h) ==
    /\ At(h, "recall")
    /\ Comparable(jobs[h].probe) # {}
    /\ Leave(h)
    /\ UNCHANGED <<clock, requests, cron, tables>>

\* storedComponents, and { ...existing, ...components }.
Merged(old, new) ==
    [n \in DOMAIN old \cup DOMAIN new |-> IF n \in DOMAIN new THEN new[n] ELSE old[n]]

ReadTemplate(h) ==
    /\ At(h, "read")
    /\ jobs' = [jobs EXCEPT ![h].phase = "write",
                   ![h].components = IF jobs[h].target \in DOMAIN templates
                                     THEN Merged(templates[jobs[h].target].components, @)
                                     ELSE @]
    /\ UNCHANGED <<clock, requests, cron, tables>>

\* Mutants of Upserted and NewRows: the count taken from the inserted row; a
\* known visitor not indexed under new keys.
Upserted_CountReset(old, components, now) ==
    [old EXCEPT !.components = components, !.last_seen = now, !.observation_count = 1]
NewRows_FirstOnly(p, v) == IF v \in DOMAIN templates THEN {} ELSE {<<k, v>> : k \in KeysOf[p]}

\* ON CONFLICT DO UPDATE; ON CONFLICT DO NOTHING.
Upserted(old, components, now) ==
    [old EXCEPT !.components = components, !.last_seen = now,
                !.observation_count = @ + 1]
NewRows(p, v) == {<<k, v>> : k \in KeysOf[p]}

\* write: the upsert and the index rows in one batch; the handler answers.
Write(h) ==
    /\ At(h, "write")
    /\ LET job == jobs[h]
           v == job.target
           row == [components |-> job.components, first_seen |-> job.now,
                   last_seen |-> job.now, observation_count |-> 1]
       IN  /\ templates' = [w \in DOMAIN templates \cup {v} |->
                  IF w # v THEN templates[w]
                  ELSE IF v \notin DOMAIN templates THEN row
                  ELSE Upserted(templates[v], job.components, job.now)]
           /\ rows' = rows \cup NewRows(job.probe, v)
           /\ folded' = [folded EXCEPT ![v] = @ \cup {job.probe}]
           /\ writes' = [writes EXCEPT ![v] = @ + 1]
           /\ IF job.verdict = "new"
              THEN forgotten' = forgotten \ {v} /\ quiet' = quiet \ {v}
              ELSE UNCHANGED <<forgotten, quiet>>
    /\ Leave(h)
    /\ UNCHANGED <<clock, requests, cron>>

---------------------------------------------------------------------------
\* Mutant of RowsWithout: the index rows left behind.
RowsWithout_Left(ids) == rows

RowsWithout(ids) == {r \in rows : r[2] \notin ids}

\* Both deletes in one batch, from an erasure or from the purge.
Deleted(ids) ==
    /\ templates' = [v \in DOMAIN templates \ ids |-> templates[v]]
    /\ rows' = RowsWithout(ids)
    /\ folded' = [v \in Probes |-> IF v \in ids THEN {} ELSE folded[v]]
    /\ writes' = [v \in Probes |-> IF v \in ids THEN 0 ELSE writes[v]]

AboutToWrite(v) ==
    \E h \in DOMAIN jobs : jobs[h].phase \in {"read", "write"} /\ jobs[h].target = v

Erase(v) ==
    /\ Deleted({v})
    /\ forgotten' = forgotten \cup {v}
    /\ quiet' = IF AboutToWrite(v) THEN quiet ELSE quiet \cup {v}
    /\ UNCHANGED <<clock, requests, jobs, cron>>

\* scheduled: the time is read, then the stale ids selected, then deleted.
CronTick ==
    /\ Retention > 0
    /\ cron.phase = "idle"
    /\ cron' = [cron EXCEPT !.phase = "select", !.at = clock]
    /\ UNCHANGED <<clock, requests, jobs, tables>>

\* Mutant of Stale: the comparison not strict.
Stale_Reversed(v, t) == templates[v].last_seen + Retention > t

Stale(v, t) == templates[v].last_seen + Retention < t

PurgeSelect ==
    /\ cron.phase = "select"
    /\ LET stale == {v \in DOMAIN templates : Stale(v, cron.at)}
       IN  cron' = IF stale = {} THEN Idle
                   ELSE [cron EXCEPT !.phase = "delete", !.ids = stale]
    /\ UNCHANGED <<clock, requests, jobs, tables>>

PurgeDelete ==
    /\ cron.phase = "delete"
    /\ Deleted(cron.ids)
    /\ cron' = Idle
    /\ UNCHANGED <<clock, requests, jobs, forgotten, quiet>>

Next ==
    \/ Tick
    \/ \E h \in Handlers, p \in Probes : Arrive(h, p)
    \/ \E h \in Handlers : RecallMatch(h)
    \/ \E h \in Handlers : RecallReview(h)
    \/ \E h \in Handlers : RecallNew(h)
    \/ \E h \in Handlers : ReadTemplate(h)
    \/ \E h \in Handlers : Write(h)
    \/ \E h \in Handlers : Fail(h)
    \/ \E v \in Probes : Erase(v)
    \/ CronTick
    \/ PurgeSelect
    \/ PurgeDelete

Spec == Init /\ [][Next]_vars

\* Time passes and the cron keeps being triggered and runs to its end; nothing
\* is assumed of requests.
FairSpec ==
    Spec /\ WF_vars(Tick) /\ WF_vars(CronTick) /\ WF_vars(PurgeSelect) /\ WF_vars(PurgeDelete)

---------------------------------------------------------------------------
IsTemplate(t) ==
    /\ DOMAIN t = {"components", "first_seen", "last_seen", "observation_count"}
    /\ t.first_seen \in Nat /\ t.last_seen \in Nat
    /\ t.observation_count \in Nat \ {0}

IsJob(j) ==
    /\ DOMAIN j = {"probe", "now", "phase", "verdict", "target", "components"}
    /\ j.probe \in Probes /\ j.target \in Probes /\ j.now \in Nat
    /\ j.phase \in {"recall", "read", "write"}
    /\ j.verdict \in {"none", "match", "new"}
    /\ j.phase = "recall" <=> j.verdict = "none"

\* Types of the tables and of the requests in flight: a request past its
\* recall has a verdict.
TypeOK ==
    /\ clock \in Nat /\ requests \in Nat
    /\ DOMAIN jobs \subseteq Handlers
    /\ \A h \in DOMAIN jobs : IsJob(jobs[h])
    /\ cron.phase \in {"idle", "select", "delete"}
    /\ cron.at \in Nat /\ cron.ids \subseteq Probes
    /\ DOMAIN templates \subseteq Probes
    /\ \A v \in DOMAIN templates : IsTemplate(templates[v])
    /\ rows \subseteq Keys \X Probes
    /\ folded \in [Probes -> SUBSET Probes]
    /\ writes \in [Probes -> Nat]
    /\ forgotten \subseteq Probes /\ quiet \subseteq forgotten

(***************************************************************************)
(* The two tables agree, though every request, erasure and purge writes    *)
(* them without a lock: a visitor is in the index exactly under the keys   *)
(* of the observations folded into its template since that was created.    *)
(* So no row outlives its template (in the native index they do), and a    *)
(* visitor on record can be recalled by each of its observations.          *)
(***************************************************************************)
IndexIsExact ==
    \A k \in Keys, v \in Probes :
        <<k, v>> \in rows <=>
            v \in DOMAIN templates /\ \E p \in folded[v] : k \in KeysOf[p]

(***************************************************************************)
(* No observation is lost from the count: the count is incremented in SQL, *)
(* so it survives the races in which the merge of the components, read     *)
(* before it is written, loses some; and it starts over with the row.      *)
(***************************************************************************)
CountIsExact ==
    \A v \in Probes : writes[v] = IF v \in DOMAIN templates
                                  THEN templates[v].observation_count ELSE 0

(***************************************************************************)
(* What erasure does promise on the edge: a visitor erased while no        *)
(* request was about to write it stays without a trace until its id is     *)
(* minted again; in particular no recall can lead back to it.              *)
(***************************************************************************)
QuietErasureHolds ==
    \A v \in quiet :
        /\ v \notin DOMAIN templates
        /\ \A k \in Keys : <<k, v>> \notin rows
        /\ \A h \in DOMAIN jobs : jobs[h].verdict = "match" => jobs[h].target # v

(***************************************************************************)
(* Storage limitation: a template nobody refreshes is purged by the cron.  *)
(* (Of templates the bounded clock can outlast.)                           *)
(***************************************************************************)
Outlasted(v) ==
    v \in DOMAIN templates /\ templates[v].last_seen + Retention < MaxTime

AgedTemplatesArePurged ==
    Retention > 0 => \A v \in Probes : Outlasted(v) ~> ~Outlasted(v)

---------------------------------------------------------------------------
\* A row created again starts with no history.
FoldedIsOnRecord == \A v \in Probes \ DOMAIN templates : folded[v] = {}

\* The inductive invariant behind the three: what every step of every request,
\* erasure and purge keeps.
EdgeInv ==
    /\ TypeOK
    /\ FoldedIsOnRecord
    /\ IndexIsExact
    /\ CountIsExact
    /\ QuietErasureHolds

---------------------------------------------------------------------------
\* What the documentation says and the code does not do.

(***************************************************************************)
(* erase: "drop the visitor's template and all of its blocking-index rows  *)
(* in one atomic batch, so a subsequent recall cannot surface it."  A      *)
(* match decided before the erasure writes the visitor back.               *)
(***************************************************************************)
ErasedStaysErased == \A v \in forgotten : v \notin DOMAIN templates
============================================================================
