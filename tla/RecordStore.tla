---------------------------- MODULE RecordStore ----------------------------
(***************************************************************************)
(* The visitorId -> template library and its bounds                        *)
(* (crates/fp-core/src/fuzzy/record.rs): what one call of RecordStore does *)
(* to the map it guards.  A template field carries the stored value and    *)
(* the freshness stamp the code keeps beside it.                           *)
(***************************************************************************)
EXTENDS Naturals, FiniteSets

CONSTANTS
    MaxRecords,   \* max_records; None is a cap no run reaches
    RecordTTL     \* record_ttl_ms; None is a window no run outlasts

ASSUME RecordStoreAssumption == MaxRecords \in Nat /\ RecordTTL \in Nat

NoRecords == [v \in {} |-> 0]

Keep(recs, visitors) == [v \in visitors |-> recs[v]]

\* Mutants of Idle: a subtraction that wraps instead of saturating; one that
\* saturates the wrong way round.
Idle_Wrapping(r, now) ==
    IF now >= r.last_seen THEN now - r.last_seen ELSE 2^30

Idle_Swapped(r, now) == IF r.last_seen > now THEN r.last_seen - now ELSE 0

\* now_ms.saturating_sub(r.last_seen)
Idle(r, now) == IF now > r.last_seen THEN now - r.last_seen ELSE 0

IdleFor(recs, now, window) == {v \in DOMAIN recs : Idle(recs[v], now) > window}

---------------------------------------------------------------------------
\* observe: the observation's components replace the ones it names, stamped
\* now; the others keep their value and their freshness.
Stamp(components, now) ==
    [n \in DOMAIN components |-> [value |-> components[n], fresh |-> now]]

Born(components, now) ==
    [template |-> Stamp(components, now),
     first_seen |-> now, last_seen |-> now, observation_count |-> 1]

\* Mutant of Refreshed: every field restamped by any observation.
Refreshed_StampsAll(r, components, now) ==
    [template |-> [n \in DOMAIN r.template \cup DOMAIN components |->
                       IF n \in DOMAIN components
                       THEN Stamp(components, now)[n]
                       ELSE [r.template[n] EXCEPT !.fresh = now]],
     first_seen |-> r.first_seen,
     last_seen |-> now,
     observation_count |-> r.observation_count + 1]

Refreshed(r, components, now) ==
    [template |-> [n \in DOMAIN r.template \cup DOMAIN components |->
                       IF n \in DOMAIN components
                       THEN Stamp(components, now)[n]
                       ELSE r.template[n]],
     first_seen |-> r.first_seen,
     last_seen |-> now,
     observation_count |-> r.observation_count + 1]

Upsert(recs, visitor, components, now) ==
    [v \in DOMAIN recs \cup {visitor} |->
        IF v # visitor THEN recs[v]
        ELSE IF v \in DOMAIN recs THEN Refreshed(recs[v], components, now)
        ELSE Born(components, now)]

---------------------------------------------------------------------------
\* evict, first part: the TTL sweep every observe runs.
AfterTTL(recs, now) == Keep(recs, DOMAIN recs \ IdleFor(recs, now, RecordTTL))

\* evict, second part: while over the cap, drop a record with the smallest
\* last_seen other than the one just observed (any of them on a tie).  Each
\* member of CapVictims is a set the loop may have dropped when it ends.
Excess(recs) ==
    IF Cardinality(DOMAIN recs) > MaxRecords
    THEN Cardinality(DOMAIN recs) - MaxRecords
    ELSE 0

CapVictims(recs, visitor) ==
    {out \in SUBSET (DOMAIN recs \ {visitor}) :
        /\ \/ Cardinality(out) = Excess(recs)
           \/ /\ Cardinality(out) < Excess(recs)
              /\ out = DOMAIN recs \ {visitor}
        /\ \A v \in out, w \in DOMAIN recs \ (out \cup {visitor}) :
               recs[v].last_seen <= recs[w].last_seen}

\* The maps an observe may leave behind.
Observed(recs, visitor, components, now) ==
    LET live == AfterTTL(Upsert(recs, visitor, components, now), now)
    IN  {Keep(live, DOMAIN live \ out) : out \in CapVictims(live, visitor)}

\* purge_older_than and remove.
Purged(recs, now, max_age) == Keep(recs, DOMAIN recs \ IdleFor(recs, now, max_age))
Removed(recs, visitor) == Keep(recs, DOMAIN recs \ {visitor})
===========================================================================
