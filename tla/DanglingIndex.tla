--------------------------- MODULE DanglingIndex ---------------------------
(***************************************************************************)
(* purge_expired and the eviction of RecordStore::observe leave the index  *)
(* entries of the records they drop (crates/fp-core/src/fuzzy/mod.rs).     *)
(* This module runs FingerprintLibrary beside the index it would have if   *)
(* those entries went with their records, to ask whether the leftovers     *)
(* matter.                                                                 *)
(***************************************************************************)
EXTENDS FingerprintLibrary

VARIABLE tidy      \* the index without leftovers

OnRecord(idx) == [k \in Keys |-> idx[k] \cap DOMAIN records']

\* What the step in progress inserts, if it is an identify that observes.
Tidied ==
    \/ \E h \in DOMAIN waiting :
        LET p == waiting[h].probe
        IN  \/ /\ IdentifyNew(h)
               /\ tidy' = OnRecord(InsertAll(tidy, KeysOf[p], Visitor(p)))
            \/ \E v \in Probes :
                /\ IdentifyMatch(h, v)
                /\ tidy' = OnRecord(InsertAll(tidy, KeysOf[p], v))
            \/ \E v \in Probes : IdentifyReview(h, v) /\ UNCHANGED tidy
    \/ /\ Tick \/ SweepTick \/ \E h \in Handlers, p \in Probes : Arrive(h, p)
       /\ UNCHANGED tidy
    \/ /\ Purge \/ \E v \in Probes : Erase(v)
       /\ tidy' = OnRecord(tidy)

TidyInit == Init /\ tidy = EmptyIndex

TidySpec == TidyInit /\ [][Tidied]_<<vars, tidy>>

(***************************************************************************)
(* mod.rs on purge_expired: "a candidate with no record scores `-inf` and  *)
(* can never win, so a stale block entry changes no decision".  If so, a   *)
(* probe finds the same visitors on record whether leftovers are kept or   *)
(* not.  But a leftover takes a place in its block, and a live visitor may *)
(* be refused for it; and when its visitor is minted again, it is found by *)
(* observations its new record was never given.                            *)
(***************************************************************************)
LeftoversAreHarmless ==
    \A p \in Probes :
        Candidates(index, KeysOf[p]) \cap DOMAIN records = Candidates(tidy, KeysOf[p])
============================================================================
