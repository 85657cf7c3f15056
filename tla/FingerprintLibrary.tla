------------------------ MODULE FingerprintLibrary ------------------------
(***************************************************************************)
(* The fingerprint library the native service promises its callers: one    *)
(* identify, one erasure and one retention purge are each ONE step on the  *)
(* record store and the blocking index together                            *)
(* (crates/fp-core/src/fuzzy/mod.rs and engine.rs).  FuzzyStore shows the  *)
(* locked code that provides this.                                         *)
(*                                                                         *)
(* A request carries the wall-clock time its handler read before it queued *)
(* for the store (fingerprintd/src/lib.rs:114), so requests fold in with   *)
(* times that are out of order.  Scores depend on the frequency and        *)
(* agreement aggregates of the whole history; here any verdict a score     *)
(* could give is allowed, for any candidate that can be compared at all.   *)
(***************************************************************************)
EXTENDS RecordStore, BlockingIndex

CONSTANTS
    Handlers,      \* request handlers that may be in flight at once
    Probes,        \* the component objects devices submit
    Names, Values, \* component names and stored values
    Stored,        \* probe -> its stored components
    KeysOf,        \* probe -> its blocking keys
    Retention,     \* retention_ms of the background sweep
    MaxTime,       \* bound: the last instant
    MaxRequests    \* bound: identify requests in a behaviour

ASSUME LibraryAssumption ==
    /\ \A p \in Probes : /\ DOMAIN Stored[p] \subseteq Names
                         /\ Stored[p] \in [DOMAIN Stored[p] -> Values]
    /\ KeysOf \in [Probes -> SUBSET Keys]
    /\ Retention \in Nat /\ MaxTime \in Nat /\ MaxRequests \in Nat

VARIABLES
    clock,      \* the wall clock
    requests,   \* identify requests that have arrived
    waiting,    \* handler -> [probe, now] of a request about to be identified
    sweep,      \* the time a purge in progress has read, if any
    records,    \* visitorId -> record
    index,      \* blocking key -> visitors
    evicted,    \* the store's eviction counter
    absorbed,   \* history: visitor -> observations its record is made of
    dropped,    \* history: <<key, visitor>> insertions lost to a full block
    erased,     \* history: visitors erased and not minted since
    ledger      \* history: records created and records erased

vars == <<clock, requests, waiting, sweep, records, index, evicted,
          absorbed, dropped, erased, ledger>>

\* derive_visitor_id is a collision-free digest of the probe, so the probe
\* itself stands for the id it mints.
Visitor(p) == p

Init ==
    /\ clock = 0
    /\ requests = 0
    /\ waiting = [h \in {} |-> 0]
    /\ sweep = {}
    /\ records = NoRecords
    /\ index = EmptyIndex
    /\ evicted = 0
    /\ absorbed = [v \in Probes |-> {}]
    /\ dropped = {}
    /\ erased = {}
    /\ ledger = [created |-> 0, forgotten |-> 0]

\* Mutant of Gone: one eviction counted for a whole batch.
Gone_Once(before, after) == IF after = before THEN 0 ELSE 1

\* The number a sweep or an eviction adds to the counter.
Gone(before, after) == Cardinality(before \ after)

library == <<records, index, evicted, absorbed, dropped, erased, ledger>>

---------------------------------------------------------------------------
Tick ==
    /\ clock < MaxTime
    /\ clock' = clock + 1
    /\ UNCHANGED <<requests, waiting, sweep, library>>

\* The handler reads now_ms() and goes on to queue for the identify lock.
Arrive(h, p) ==
    /\ h \notin DOMAIN waiting
    /\ requests < MaxRequests
    /\ requests' = requests + 1
    /\ waiting' = [g \in DOMAIN waiting \cup {h} |->
                       IF g = h THEN [probe |-> p, now |-> clock]
                       ELSE waiting[g]]
    /\ UNCHANGED <<clock, sweep, library>>

Leave(h) == waiting' = [g \in DOMAIN waiting \ {h} |-> waiting[g]]

---------------------------------------------------------------------------
\* FuzzyStore::observe: index the visitor under every key of the probe, then
\* fold the probe into its record and evict.
Observe(visitor, p, now) ==
    /\ index' = InsertAll(index, KeysOf[p], visitor)
    /\ dropped' = LET refused == Refused(index, KeysOf[p], visitor)
                  IN  {d \in dropped : d[1] \notin KeysOf[p] \/ d[2] # visitor}
                      \cup {<<k, visitor>> : k \in refused}
    /\ \E recs \in Observed(records, visitor, Stored[p], now) :
        /\ records' = recs
        /\ evicted' = evicted + Gone(DOMAIN records \cup {visitor}, DOMAIN recs)
        /\ absorbed' = [v \in Probes |->
               IF v \notin DOMAIN recs THEN {}
               ELSE IF v # visitor THEN absorbed[v]
               ELSE absorbed[v] \cup {[probe |-> p, at |-> now]}]

\* Whether the observation created a record (what RecordStore::observe returns).
Newly(visitor) == IF visitor \in DOMAIN records THEN 0 ELSE 1

\* A template can be scored when it shares a component with the probe; a
\* candidate without a record scores -inf.
Comparable(p) ==
    {v \in Candidates(index, KeysOf[p]) \cap DOMAIN records :
        DOMAIN records[v].template \cap DOMAIN Stored[p] # {}}

\* Best candidate >= T_hi: drift its template toward the probe.
IdentifyMatch(h, v) ==
    /\ h \in DOMAIN waiting
    /\ v \in Comparable(waiting[h].probe)
    /\ Observe(v, waiting[h].probe, waiting[h].now)
    /\ UNCHANGED ledger
    /\ Leave(h)
    /\ UNCHANGED <<clock, requests, sweep, erased>>

\* Best candidate in [T_lo, T_hi): answer it, write nothing.
IdentifyReview(h, v) ==
    /\ h \in DOMAIN waiting
    /\ v \in Comparable(waiting[h].probe)
    /\ Leave(h)
    /\ UNCHANGED <<clock, requests, sweep, library>>

\* No candidate reached T_lo: mint the probe's own id and store it.
IdentifyNew(h) ==
    /\ h \in DOMAIN waiting
    /\ LET p == waiting[h].probe
       IN  /\ Observe(Visitor(p), p, waiting[h].now)
           /\ ledger' = [ledger EXCEPT !.created = @ + Newly(Visitor(p))]
           /\ erased' = erased \ {Visitor(p)}
    /\ Leave(h)
    /\ UNCHANGED <<clock, requests, sweep>>

---------------------------------------------------------------------------
\* FuzzyStore::erase, from DELETE /visitor/{id}.
Erase(v) ==
    /\ records' = Removed(records, v)
    /\ index' = WithoutVisitor(index, v)
    /\ absorbed' = [absorbed EXCEPT ![v] = {}]
    /\ dropped' = {d \in dropped : d[2] # v}
    /\ erased' = erased \cup {v}
    /\ ledger' = [ledger EXCEPT !.forgotten = @ + 1 - Newly(v)]
    /\ UNCHANGED <<clock, requests, waiting, sweep, evicted>>

\* The retention task's tick reads the clock, then purges under the lock.
\* Only the records are purged; their index entries stay.
SweepTick ==
    /\ Retention > 0
    /\ sweep = {}
    /\ sweep' = {clock}
    /\ UNCHANGED <<clock, requests, waiting, library>>

Purge ==
    /\ \E t \in sweep :
        LET kept == Purged(records, t, Retention)
        IN  /\ records' = kept
            /\ evicted' = evicted + Gone(DOMAIN records, DOMAIN kept)
            /\ absorbed' = [v \in Probes |->
                                IF v \in DOMAIN kept THEN absorbed[v] ELSE {}]
    /\ sweep' = {}
    /\ UNCHANGED <<clock, requests, waiting, index, dropped, erased, ledger>>

Next ==
    \/ Tick
    \/ \E h \in Handlers, p \in Probes : Arrive(h, p)
    \/ \E h \in Handlers, v \in Probes : IdentifyMatch(h, v)
    \/ \E h \in Handlers, v \in Probes : IdentifyReview(h, v)
    \/ \E h \in Handlers : IdentifyNew(h)
    \/ \E v \in Probes : Erase(v)
    \/ SweepTick
    \/ Purge

Spec == Init /\ [][Next]_vars

\* The clock advances and the retention task keeps running (main.rs: a loop
\* on a tokio interval); nothing is assumed of clients.
FairSpec == Spec /\ WF_vars(Tick) /\ WF_vars(SweepTick) /\ WF_vars(Purge)

---------------------------------------------------------------------------
Field == [value : Values, fresh : Nat]

IsRecord(r) ==
    /\ DOMAIN r.template \subseteq Names
    /\ r.template \in [DOMAIN r.template -> Field]
    /\ r = [template |-> r.template, first_seen |-> r.first_seen,
            last_seen |-> r.last_seen, observation_count |-> r.observation_count]
    /\ r.first_seen \in Nat /\ r.last_seen \in Nat
    /\ r.observation_count \in Nat \ {0}

\* Types of the state and of its history.
TypeOK ==
    /\ clock \in Nat /\ requests \in Nat /\ evicted \in Nat
    /\ DOMAIN waiting \subseteq Handlers
    /\ waiting \in [DOMAIN waiting -> [probe : Probes, now : Nat]]
    /\ sweep \in SUBSET Nat
    /\ DOMAIN records \subseteq Probes
    /\ records = [v \in DOMAIN records |-> records[v]]
    /\ \A v \in DOMAIN records : IsRecord(records[v])
    /\ index \in [Keys -> SUBSET Probes]
    /\ absorbed \in [Probes -> SUBSET [probe : Probes, at : Nat]]
    /\ dropped \subseteq Keys \X Probes
    /\ erased \subseteq Probes
    /\ ledger \in [created : Nat, forgotten : Nat]

(***************************************************************************)
(* Fail-safe growth (EvictionPolicy): after any identify the library holds *)
(* at most max_records records, or the one just observed under a cap of    *)
(* zero, and no block ever holds more than max_block visitors.             *)
(***************************************************************************)
WithinBounds ==
    /\ Cardinality(DOMAIN records) <= IF MaxRecords = 0 THEN 1 ELSE MaxRecords
    /\ \A k \in Keys : Cardinality(index[k]) <= MaxBlock

(***************************************************************************)
(* Right to be forgotten: from an erasure until the same id is minted      *)
(* again, the visitor has no record and is in no block, whatever requests  *)
(* were in flight when it was erased.                                      *)
(***************************************************************************)
ErasedLeavesNoTrace ==
    \A v \in erased : /\ v \notin DOMAIN records
                      /\ \A k \in Keys : v \notin index[k]

(***************************************************************************)
(* Recall: a visitor on record is found again through every blocking key   *)
(* of every observation its record is made of, except for insertions a     *)
(* full block is on record as having dropped ("not silently truncated").   *)
(***************************************************************************)
Recallable ==
    \A v \in DOMAIN records : \A o \in absorbed[v] : \A k \in KeysOf[o.probe] :
        v \in index[k] \/ <<k, v>> \in dropped

\* The record r is made of exactly these observations.
MadeOf(r, observations) ==
    /\ DOMAIN r.template = UNION {DOMAIN Stored[o.probe] : o \in observations}
    /\ \A n \in DOMAIN r.template :
           \E o \in observations :
               /\ n \in DOMAIN Stored[o.probe]
               /\ r.template[n] = [value |-> Stored[o.probe][n], fresh |-> o.at]
    /\ \E o \in observations : o.at = r.first_seen
    /\ \E o \in observations : o.at = r.last_seen

(***************************************************************************)
(* A record is made of its own observations and of nothing older: every    *)
(* field holds the value and the stamp of one observation folded in since  *)
(* the record was created, no named component is lost, and first_seen and  *)
(* last_seen are times of such observations.  An erased, evicted or purged *)
(* record leaves nothing behind in the one that takes its place.           *)
(***************************************************************************)
RecordIsItsObservations ==
    \A v \in DOMAIN records : MadeOf(records[v], absorbed[v])

(***************************************************************************)
(* Every eviction is counted, never silent: the records ever created are   *)
(* those still held, those erased, and those the counter reports.          *)
(***************************************************************************)
EvictionsAreCounted ==
    ledger.created = Cardinality(DOMAIN records) + evicted + ledger.forgotten

(***************************************************************************)
(* No record is lost early.  A step that drops a record erased it, or made *)
(* room at the cap, or dropped it after more than a window by the real     *)
(* clock: a request or a sweep that acts late, on a time it read earlier,  *)
(* never ages a record that was seen since.                                *)
(***************************************************************************)
FreshRecordsAreKept ==
    [][\A v \in DOMAIN records \ DOMAIN records' :
          \/ v \in erased'
          \/ Cardinality(DOMAIN records') >= MaxRecords
          \/ records[v].last_seen + RecordTTL < clock
          \/ Retention > 0 /\ records[v].last_seen + Retention < clock]_vars

(***************************************************************************)
(* Storage limitation: a record nobody refreshes is purged by the          *)
(* retention task alone, without any identify traffic.  (Of records the    *)
(* bounded clock can outlast.)                                             *)
(***************************************************************************)
Outlasted(v) ==
    v \in DOMAIN records /\ records[v].last_seen + Retention < MaxTime

AgedRecordsArePurged ==
    Retention > 0 => \A v \in Probes : Outlasted(v) ~> ~Outlasted(v)

---------------------------------------------------------------------------
\* The inductive invariant behind the safety properties: the history is kept
\* for visitors on record only, and what the library holds is finite.
AbsorbedIsOnRecord == \A v \in Probes \ DOMAIN records : absorbed[v] = {}

FiniteHoldings ==
    /\ IsFiniteSet(DOMAIN records)
    /\ \A k \in Keys : IsFiniteSet(index[k])

LibraryInv ==
    /\ TypeOK
    /\ FiniteHoldings
    /\ WithinBounds
    /\ ErasedLeavesNoTrace
    /\ AbsorbedIsOnRecord
    /\ Recallable
    /\ RecordIsItsObservations
    /\ EvictionsAreCounted

\* What FreshRecordsAreKept needs: nobody acts on a time that has not come.
TimesArePast ==
    /\ \A h \in DOMAIN waiting : waiting[h].now <= clock
    /\ \A t \in sweep : t <= clock /\ Retention > 0

---------------------------------------------------------------------------
\* What the documentation says and the code does not do.

(***************************************************************************)
(* record.rs on observe: "`last_seen` and `observation_count` advance".    *)
(***************************************************************************)
LastSeenAdvances ==
    [][\A v \in DOMAIN records \cap DOMAIN records' :
          records[v].last_seen <= records'[v].last_seen]_vars

===========================================================================
