-------------------------- MODULE AggregateTables --------------------------
(***************************************************************************)
(* The two aggregate tables behind the scores: value sightings for u_i     *)
(* (crates/fp-core/src/fuzzy/frequency.rs) and agreement counts for m_i    *)
(* (agreement.rs).  Both cap the DISTINCT keys they track: past the cap a  *)
(* new key is dropped and counted, a tracked one keeps counting.  A table  *)
(* records several keys for one request; which new keys find room depends  *)
(* on their order, and any order is allowed here.                          *)
(***************************************************************************)
EXTENDS Naturals, FiniteSets, FiniteSetsExt

CONSTANTS
    MaxFrequencyValues,       \* max_frequency_values
    MaxAgreementComponents    \* max_agreement_components

ASSUME AggregateAssumption ==
    MaxFrequencyValues \in Nat /\ MaxAgreementComponents \in Nat

\* The sets of new keys that may be admitted to a table holding tracked.
Room(tracked, cap) == IF Cardinality(tracked) < cap THEN cap - Cardinality(tracked) ELSE 0

Admitted(tracked, new, cap) ==
    IF Cardinality(new) <= Room(tracked, cap) THEN {new} ELSE kSubset(Room(tracked, cap), new)

---------------------------------------------------------------------------
NoFrequency == [count |-> [x \in {} |-> 0], total |-> 0, dropped |-> 0]

SumOver(f, S) == MapThenSumSet(LAMBDA x : f[x], S)

\* Mutants of Sighted: a new value inserted as zero; a total that counts the
\* dropped sightings too.
Sighted_FromZero(table, seen, kept) ==
    LET tracked == DOMAIN table.count \cup kept
    IN  [count |-> [x \in tracked |->
                       IF x \notin DOMAIN table.count THEN 0
                       ELSE table.count[x] + (IF x \in DOMAIN seen THEN seen[x] ELSE 0)],
         total |-> table.total + SumOver(seen, DOMAIN seen \cap tracked),
         dropped |-> table.dropped + SumOver(seen, DOMAIN seen \ tracked)]

Sighted_TotalsAll(table, seen, kept) ==
    LET tracked == DOMAIN table.count \cup kept
    IN  [count |-> [x \in tracked |->
                       (IF x \in DOMAIN table.count THEN table.count[x] ELSE 0)
                       + (IF x \in DOMAIN seen THEN seen[x] ELSE 0)],
         total |-> table.total + SumOver(seen, DOMAIN seen),
         dropped |-> table.dropped + SumOver(seen, DOMAIN seen \ tracked)]

\* FrequencyTable::record for each sighting; seen[x] is how many there are of
\* x, and kept the new values that found room.
Sighted(table, seen, kept) ==
    LET tracked == DOMAIN table.count \cup kept
    IN  [count |-> [x \in tracked |->
                       (IF x \in DOMAIN table.count THEN table.count[x] ELSE 0)
                       + (IF x \in DOMAIN seen THEN seen[x] ELSE 0)],
         total |-> table.total + SumOver(seen, DOMAIN seen \cap tracked),
         dropped |-> table.dropped + SumOver(seen, DOMAIN seen \ tracked)]

---------------------------------------------------------------------------
NoAgreement == [stats |-> [n \in {} |-> 0], dropped |-> 0]

\* AgreementTable::record for each component of a pair, agreed being those
\* whose values agreed.
Compared(table, names, agreed, kept) ==
    LET tracked == DOMAIN table.stats \cup kept
        Before(n) == IF n \in DOMAIN table.stats THEN table.stats[n]
                     ELSE [agree |-> 0, total |-> 0]
    IN  [stats |-> [n \in tracked |->
                       IF n \notin names THEN Before(n)
                       ELSE [agree |-> Before(n).agree + (IF n \in agreed THEN 1 ELSE 0),
                             total |-> Before(n).total + 1]],
         dropped |-> table.dropped + Cardinality(names \ tracked)]
============================================================================
