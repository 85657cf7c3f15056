--------------------- MODULE FingerprintLibraryProofs ---------------------
(***************************************************************************)
(* What FingerprintLibrary guarantees for every set of devices, every cap  *)
(* and every window, checked by TLAPS.                                     *)
(***************************************************************************)
EXTENDS FingerprintLibrary, FiniteSetTheorems, TLAPS

---------------------------------------------------------------------------
\* Lemmas on the operators of RecordStore.

\* The upsert adds the observed visitor and nobody else.
LEMMA UpsertedDomain ==
    ASSUME NEW recs, NEW v, NEW c, NEW now \in Nat
    PROVE  DOMAIN Upsert(recs, v, c, now) = DOMAIN recs \cup {v}
BY DEF Upsert

\* What observe leaves: the observed visitor always, nobody new, and every
\* record as the upsert made it.
LEMMA ObservedShape ==
    ASSUME NEW recs, NEW v, NEW c, NEW now \in Nat,
           NEW after \in Observed(recs, v, c, now)
    PROVE  /\ v \in DOMAIN after
           /\ DOMAIN after \subseteq DOMAIN recs \cup {v}
           /\ \A w \in DOMAIN after : after[w] = Upsert(recs, v, c, now)[w]
           /\ after = [w \in DOMAIN after |-> after[w]]
<1> DEFINE up == Upsert(recs, v, c, now)
           live == AfterTTL(up, now)
<1>1. PICK out \in CapVictims(live, v) : after = Keep(live, DOMAIN live \ out)
  BY DEF Observed
<1>2. v \notin out
  BY DEF CapVictims
<1>3. v \notin IdleFor(up, now, RecordTTL)
  <2>1. up[v].last_seen = now
    BY DEF Upsert, Refreshed, Born
  <2>2. Idle(up[v], now) = 0
    BY <2>1 DEF Idle
  <2> QED BY <2>2, RecordStoreAssumption DEF IdleFor
<1>4. /\ DOMAIN live = DOMAIN up \ IdleFor(up, now, RecordTTL)
      /\ \A w \in DOMAIN live : live[w] = up[w]
  BY DEF AfterTTL, Keep
<1>5. /\ DOMAIN after = DOMAIN live \ out
      /\ \A w \in DOMAIN after : after[w] = live[w]
      /\ after = [w \in DOMAIN after |-> after[w]]
  BY <1>1 DEF Keep
<1>6. DOMAIN up = DOMAIN recs \cup {v}
  BY UpsertedDomain
<1> HIDE DEF up, live
<1>7. /\ v \in DOMAIN after
      /\ DOMAIN after \subseteq DOMAIN recs \cup {v}
  BY <1>2, <1>3, <1>4, <1>5, <1>6
<1>8. \A w \in DOMAIN after : after[w] = up[w]
  BY <1>4, <1>5
<1> QED BY <1>5, <1>7, <1>8 DEF up

\* A probe's components, stamped: the same names and values, all as fresh as now.
LEMMA StampedFields ==
    ASSUME NEW p \in Probes, NEW now \in Nat
    PROVE  /\ DOMAIN Stamp(Stored[p], now) = DOMAIN Stored[p]
           /\ DOMAIN Stored[p] \subseteq Names
           /\ \A n \in DOMAIN Stored[p] :
                  /\ Stamp(Stored[p], now)[n] = [value |-> Stored[p][n], fresh |-> now]
                  /\ Stamp(Stored[p], now)[n] \in Field
           /\ Stamp(Stored[p], now) \in [DOMAIN Stored[p] -> Field]
BY LibraryAssumption DEF Stamp, Field

\* The upsert of a well-formed record, or of a new one, is well formed.
LEMMA UpsertIsRecord ==
    ASSUME NEW recs, NEW v, NEW p \in Probes, NEW now \in Nat,
           v \in DOMAIN recs => IsRecord(recs[v])
    PROVE  IsRecord(Upsert(recs, v, Stored[p], now)[v])
<1> DEFINE c == Stored[p]
           up == Upsert(recs, v, c, now)[v]
<1>1. CASE v \in DOMAIN recs
  <2>1. up = Refreshed(recs[v], c, now)
    BY <1>1 DEF Upsert
  <2>2. up.template \in [DOMAIN recs[v].template \cup DOMAIN c -> Field]
    BY <1>1, <2>1, StampedFields DEF Refreshed, IsRecord
  <2>3. DOMAIN up.template \subseteq Names
    BY <1>1, <2>2, StampedFields DEF IsRecord
  <2>4. /\ up.first_seen \in Nat /\ up.last_seen \in Nat
        /\ up.observation_count \in Nat \ {0}
    BY <1>1, <2>1 DEF Refreshed, IsRecord
  <2>5. up = [template |-> up.template, first_seen |-> up.first_seen,
              last_seen |-> up.last_seen, observation_count |-> up.observation_count]
    BY <2>1 DEF Refreshed
  <2> QED BY <2>2, <2>3, <2>4, <2>5 DEF IsRecord
<1>2. CASE v \notin DOMAIN recs
  <2>1. up = Born(c, now)
    BY <1>2 DEF Upsert
  <2> QED BY <2>1, StampedFields DEF Born, IsRecord
<1> QED BY <1>1, <1>2

---------------------------------------------------------------------------
\* Lemmas on cardinalities.

\* A finite set counts its parts: a subset and what is left without it.
LEMMA CardinalityOfDifference ==
    ASSUME NEW S, IsFiniteSet(S), NEW T \in SUBSET S
    PROVE  /\ IsFiniteSet(T) /\ IsFiniteSet(S \ T)
           /\ Cardinality(T) \in Nat /\ Cardinality(S \ T) \in Nat
           /\ Cardinality(S) = Cardinality(T) + Cardinality(S \ T)
<1>1. IsFiniteSet(T) /\ IsFiniteSet(S \ T)
  BY FS_Subset
<1>2. /\ Cardinality(T) \in Nat /\ Cardinality(S \ T) \in Nat
      /\ Cardinality({}) = 0
  BY <1>1, FS_CardinalityType, FS_EmptySet
<1>3. Cardinality(T \cup (S \ T)) =
          Cardinality(T) + Cardinality(S \ T) - Cardinality(T \cap (S \ T))
  BY <1>1, FS_Union
<1>4. T \cup (S \ T) = S /\ T \cap (S \ T) = {}
  OBVIOUS
<1>5. Cardinality(S) = Cardinality(T) + Cardinality(S \ T) - Cardinality({})
  BY <1>3, <1>4, Zenon
<1> QED BY <1>1, <1>2, <1>5

\* The cap: observe leaves max_records at most, or one record under a cap of 0.
LEMMA ObservedIsBounded ==
    ASSUME NEW recs, IsFiniteSet(DOMAIN recs), NEW v, NEW c, NEW now \in Nat,
           NEW after \in Observed(recs, v, c, now)
    PROVE  /\ IsFiniteSet(DOMAIN after)
           /\ Cardinality(DOMAIN after) <= IF MaxRecords = 0 THEN 1 ELSE MaxRecords
<1> DEFINE live == AfterTTL(Upsert(recs, v, c, now), now)
           D == DOMAIN live
<1>1. PICK out \in CapVictims(live, v) : after = Keep(live, D \ out)
  BY DEF Observed
<1>2. D \subseteq DOMAIN recs \cup {v}
  <2>1. D \subseteq DOMAIN Upsert(recs, v, c, now)
    BY DEF AfterTTL, Keep
  <2>2. DOMAIN Upsert(recs, v, c, now) = DOMAIN recs \cup {v}
    BY UpsertedDomain
  <2> HIDE DEF D
  <2> QED BY <2>1, <2>2
<1>3. IsFiniteSet(D)
  <2>1. IsFiniteSet(DOMAIN recs \cup {v})
    BY FS_AddElement
  <2>2. D \in SUBSET (DOMAIN recs \cup {v})
    BY <1>2
  <2> HIDE DEF D
  <2> QED BY <2>1, <2>2, FS_Subset
<1>4. DOMAIN after = D \ out
  BY <1>1 DEF Keep
<1>5. /\ out \subseteq D \ {v}
      /\ \/ Cardinality(out) = Excess(live)
         \/ Cardinality(out) < Excess(live) /\ out = D \ {v}
  BY <1>1 DEF CapVictims
<1> HIDE DEF live, D
<1>6. /\ IsFiniteSet(DOMAIN after)
      /\ Cardinality(out) \in Nat /\ Cardinality(DOMAIN after) \in Nat
      /\ Cardinality(D) = Cardinality(out) + Cardinality(DOMAIN after)
  <2>1. out \in SUBSET D
    BY <1>5
  <2> QED BY <1>3, <1>4, <2>1, CardinalityOfDifference
<1>7. Excess(live) = IF Cardinality(D) > MaxRecords
                     THEN Cardinality(D) - MaxRecords ELSE 0
  BY DEF Excess, D
<1>8. MaxRecords \in Nat
  BY RecordStoreAssumption
<1>9. CASE Cardinality(out) = Excess(live)
  BY <1>6, <1>7, <1>8, <1>9
<1>10. CASE Cardinality(out) < Excess(live) /\ out = D \ {v}
  <2>1. DOMAIN after \subseteq {v}
    BY <1>4, <1>10
  <2>2. IsFiniteSet({v}) /\ Cardinality({v}) = 1
    BY FS_Singleton
  <2>3. DOMAIN after \in SUBSET {v}
    BY <2>1
  <2>4. Cardinality(DOMAIN after) <= 1
    BY <2>2, <2>3, FS_Subset
  <2>5. Excess(live) > 0
    BY <1>6, <1>7, <1>8, <1>10
  <2> QED BY <1>6, <1>8, <2>4, <2>5
<1> QED BY <1>5, <1>6, <1>9, <1>10

\* A block: the cap is never exceeded, whoever is inserted.
LEMMA InsertAllIsBounded ==
    ASSUME NEW idx \in [Keys -> SUBSET Probes], NEW keys \in SUBSET Keys,
           NEW v \in Probes,
           \A k \in Keys : IsFiniteSet(idx[k]) /\ Cardinality(idx[k]) <= MaxBlock
    PROVE  LET after == InsertAll(idx, keys, v)
           IN  /\ after \in [Keys -> SUBSET Probes]
               /\ \A k \in Keys : /\ IsFiniteSet(after[k])
                                  /\ Cardinality(after[k]) <= MaxBlock
<1> DEFINE after == InsertAll(idx, keys, v)
<1>1. after \in [Keys -> SUBSET Probes]
  BY DEF InsertAll
<1>2. ASSUME NEW k \in Keys
      PROVE  IsFiniteSet(after[k]) /\ Cardinality(after[k]) <= MaxBlock
  <2>1. CASE after[k] = idx[k]
    BY <2>1
  <2>2. CASE after[k] # idx[k]
    <3>1. /\ after[k] = idx[k] \cup {v} /\ v \notin idx[k]
          /\ ~(Cardinality(idx[k]) >= MaxBlock)
      BY <2>2 DEF InsertAll, Refused, Full
    <3>2. /\ IsFiniteSet(after[k])
          /\ Cardinality(after[k]) = Cardinality(idx[k]) + 1
          /\ Cardinality(idx[k]) \in Nat
      BY <3>1, FS_AddElement, FS_CardinalityType
    <3> QED BY <3>1, <3>2, BlockingAssumption
  <2> QED BY <2>1, <2>2
<1> QED BY <1>1, <1>2

---------------------------------------------------------------------------
\* What one observation does to each part of the invariant; IdentifyMatch and
\* IdentifyNew both are one.

\* Observing keeps records and index typed, and changes no record but by the upsert.
LEMMA ObserveTypes ==
    ASSUME LibraryInv, NEW v \in Probes, NEW p \in Probes, NEW now \in Nat,
           Observe(v, p, now)
    PROVE  /\ DOMAIN records' \subseteq DOMAIN records \cup {v}
           /\ v \in DOMAIN records'
           /\ records' = [w \in DOMAIN records' |-> records'[w]]
           /\ \A w \in DOMAIN records' :
                  /\ records'[w] = Upsert(records, v, Stored[p], now)[w]
                  /\ IsRecord(records'[w])
           /\ index' \in [Keys -> SUBSET Probes]
           /\ absorbed' \in [Probes -> SUBSET [probe : Probes, at : Nat]]
           /\ dropped' \subseteq Keys \X Probes
           /\ FiniteHoldings'
           /\ WithinBounds'
<1>a. /\ DOMAIN records \subseteq Probes
      /\ \A w \in DOMAIN records : IsRecord(records[w])
      /\ index \in [Keys -> SUBSET Probes]
      /\ absorbed \in [Probes -> SUBSET [probe : Probes, at : Nat]]
      /\ dropped \subseteq Keys \X Probes
  BY DEF LibraryInv, TypeOK
<1>b. /\ IsFiniteSet(DOMAIN records)
      /\ \A k \in Keys : IsFiniteSet(index[k]) /\ Cardinality(index[k]) <= MaxBlock
  BY DEF LibraryInv, FiniteHoldings, WithinBounds
<1>1. PICK recs \in Observed(records, v, Stored[p], now) :
          /\ records' = recs
          /\ absorbed' = [w \in Probes |->
                 IF w \notin DOMAIN recs THEN {}
                 ELSE IF w # v THEN absorbed[w]
                 ELSE absorbed[w] \cup {[probe |-> p, at |-> now]}]
  BY DEF Observe
<1>2. /\ DOMAIN records' \subseteq DOMAIN records \cup {v}
      /\ v \in DOMAIN records'
      /\ records' = [w \in DOMAIN records' |-> records'[w]]
      /\ \A w \in DOMAIN records' : records'[w] = Upsert(records, v, Stored[p], now)[w]
  BY <1>1, ObservedShape
<1>3. ASSUME NEW w \in DOMAIN records'
      PROVE  IsRecord(records'[w])
  <2>1. CASE w = v
    <3>1. v \in DOMAIN records => IsRecord(records[v])
      BY <1>a
    <3>2. IsRecord(Upsert(records, v, Stored[p], now)[v])
      BY <3>1, UpsertIsRecord
    <3> QED BY <1>2, <2>1, <3>2
  <2>2. CASE w # v
    <3>1. w \in DOMAIN records
      BY <1>2, <2>2
    <3>2. Upsert(records, v, Stored[p], now)[w] = records[w]
      BY <2>2, <3>1 DEF Upsert
    <3> QED BY <1>a, <1>2, <2>2, <3>1, <3>2
  <2> QED BY <2>1, <2>2
<1>4. absorbed' \in [Probes -> SUBSET [probe : Probes, at : Nat]]
  BY <1>a, <1>1
<1>5. KeysOf[p] \in SUBSET Keys
  BY LibraryAssumption
<1>6. dropped' \subseteq Keys \X Probes
  <2>1. dropped' = {d \in dropped : d[1] \notin KeysOf[p] \/ d[2] # v}
                   \cup {<<k, v>> : k \in Refused(index, KeysOf[p], v)}
    BY DEF Observe
  <2>2. Refused(index, KeysOf[p], v) \subseteq Keys
    BY <1>5 DEF Refused
  <2> QED BY <1>a, <2>1, <2>2
<1>7. /\ index' \in [Keys -> SUBSET Probes]
      /\ \A k \in Keys : IsFiniteSet(index'[k]) /\ Cardinality(index'[k]) <= MaxBlock
  <2>1. index' = InsertAll(index, KeysOf[p], v)
    BY DEF Observe
  <2> QED BY <1>a, <1>b, <1>5, <2>1, InsertAllIsBounded
<1>8. /\ IsFiniteSet(DOMAIN records')
      /\ Cardinality(DOMAIN records') <= IF MaxRecords = 0 THEN 1 ELSE MaxRecords
  BY <1>1, <1>b, ObservedIsBounded
<1>9. FiniteHoldings' /\ WithinBounds'
  BY <1>7, <1>8 DEF FiniteHoldings, WithinBounds
<1> QED BY <1>2, <1>3, <1>4, <1>6, <1>7, <1>9

\* Observing leaves every visitor on record reachable by its keys, or on record as
\* dropped by a full block.
LEMMA ObserveRecalls ==
    ASSUME LibraryInv, NEW v \in Probes, NEW p \in Probes, NEW now \in Nat,
           Observe(v, p, now)
    PROVE  Recallable' /\ AbsorbedIsOnRecord'
<1>1. /\ DOMAIN records' \subseteq DOMAIN records \cup {v}
      /\ DOMAIN records' \subseteq Probes \cup DOMAIN records
  BY ObserveTypes
<1>2. PICK recs :
          /\ records' = recs
          /\ absorbed' = [w \in Probes |->
                 IF w \notin DOMAIN recs THEN {}
                 ELSE IF w # v THEN absorbed[w]
                 ELSE absorbed[w] \cup {[probe |-> p, at |-> now]}]
  BY DEF Observe
<1>3. AbsorbedIsOnRecord'
  BY <1>2 DEF AbsorbedIsOnRecord
<1>4. ASSUME NEW w \in DOMAIN records', NEW o \in absorbed'[w],
             NEW k \in KeysOf[o.probe]
      PROVE  w \in index'[k] \/ <<k, w>> \in dropped'
  <2>1. w \in Probes
    BY <1>1 DEF LibraryInv, TypeOK
  <2>2. absorbed' \in [Probes -> SUBSET [probe : Probes, at : Nat]]
    BY ObserveTypes
  <2>3. k \in Keys
    <3>1. absorbed'[w] \subseteq [probe : Probes, at : Nat]
      BY <2>1, <2>2
    <3>2. o.probe \in Probes
      BY <3>1
    <3> QED BY <3>2, LibraryAssumption
  <2>4. /\ index'[k] = IF k \in KeysOf[p] \ Refused(index, KeysOf[p], v)
                       THEN index[k] \cup {v} ELSE index[k]
        /\ dropped' = {d \in dropped : d[1] \notin KeysOf[p] \/ d[2] # v}
                      \cup {<<j, v>> : j \in Refused(index, KeysOf[p], v)}
    BY <2>3 DEF Observe, InsertAll
  <2>5. CASE w = v /\ k \in KeysOf[p]
    BY <2>4, <2>5
  <2>6. CASE ~(w = v /\ k \in KeysOf[p])
    <3>1. o \in absorbed[w] /\ w \in DOMAIN records
      <4>1. o \in absorbed[w] \/ (w = v /\ o = [probe |-> p, at |-> now])
        BY <1>2, <2>1
      <4>2. CASE w = v /\ o = [probe |-> p, at |-> now]
        <5>1. o.probe = p
          BY <4>2
        <5> QED BY <2>6, <4>2, <5>1
      <4> QED BY <2>1, <4>1, <4>2 DEF LibraryInv, AbsorbedIsOnRecord
    <3>2. w \in index[k] \/ <<k, w>> \in dropped
      BY <3>1 DEF LibraryInv, Recallable
    <3>3. w \in index[k] => w \in index'[k]
      BY <2>4
    <3>4. <<k, w>> \in dropped => <<k, w>> \in dropped'
      BY <2>4, <2>6
    <3> QED BY <3>2, <3>3, <3>4
  <2> QED BY <2>5, <2>6
<1> QED BY <1>3, <1>4 DEF Recallable

\* A record made of some observations is, after the upsert, made of those and of the
\* new one.
LEMMA UpsertMadeOf ==
    ASSUME NEW recs, NEW v, NEW p \in Probes, NEW now \in Nat, NEW obs,
           v \in DOMAIN recs => IsRecord(recs[v]) /\ MadeOf(recs[v], obs),
           v \notin DOMAIN recs => obs = {}
    PROVE  MadeOf(Upsert(recs, v, Stored[p], now)[v],
                  obs \cup {[probe |-> p, at |-> now]})
<1> DEFINE c == Stored[p]
           o0 == [probe |-> p, at |-> now]
           up == Upsert(recs, v, c, now)[v]
           all == obs \cup {o0}
<1>0. o0.probe = p /\ o0.at = now
  OBVIOUS
<1>1. CASE v \in DOMAIN recs
  <2>1. /\ up.template = [n \in DOMAIN recs[v].template \cup DOMAIN c |->
                              IF n \in DOMAIN c THEN Stamp(c, now)[n]
                              ELSE recs[v].template[n]]
        /\ up.first_seen = recs[v].first_seen
        /\ up.last_seen = now
    BY <1>1 DEF Upsert, Refreshed
  <2>2. UNION {DOMAIN Stored[o.probe] : o \in all} =
            (UNION {DOMAIN Stored[o.probe] : o \in obs}) \cup DOMAIN c
    BY <1>0
  <2>3. DOMAIN up.template = UNION {DOMAIN Stored[o.probe] : o \in all}
    <3>1. DOMAIN up.template = DOMAIN recs[v].template \cup DOMAIN c
      BY <2>1
    <3>2. DOMAIN recs[v].template = UNION {DOMAIN Stored[o.probe] : o \in obs}
      BY <1>1 DEF MadeOf
    <3> QED BY <2>2, <3>1, <3>2
  <2>4. ASSUME NEW n \in DOMAIN up.template
        PROVE  \E o \in all :
                   /\ n \in DOMAIN Stored[o.probe]
                   /\ up.template[n] = [value |-> Stored[o.probe][n], fresh |-> o.at]
    <3>1. CASE n \in DOMAIN c
      <4>1. up.template[n] = [value |-> c[n], fresh |-> now]
        BY <2>1, <3>1 DEF Stamp
      <4>2. o0 \in all
        OBVIOUS
      <4> HIDE DEF o0, all, up
      <4> QED BY <1>0, <3>1, <4>1, <4>2
    <3>2. CASE n \notin DOMAIN c
      <4>1. n \in DOMAIN recs[v].template /\ up.template[n] = recs[v].template[n]
        BY <2>1, <3>2
      <4> QED BY <1>1, <4>1 DEF MadeOf
    <3> QED BY <3>1, <3>2
  <2>5. \E o \in all : o.at = up.first_seen
    BY <1>1, <2>1 DEF MadeOf
  <2>6. \E o \in all : o.at = up.last_seen
    BY <1>0, <2>1
  <2> HIDE DEF up, all
  <2>7. MadeOf(up, all)
    BY <2>3, <2>4, <2>5, <2>6 DEF MadeOf
  <2> QED BY <2>7 DEF up, all, c, o0
<1>2. CASE v \notin DOMAIN recs
  <2>1. /\ up.template = Stamp(c, now)
        /\ up.first_seen = now /\ up.last_seen = now
    BY <1>2 DEF Upsert, Born
  <2>2. all = {o0}
    BY <1>2
  <2>3. DOMAIN up.template = UNION {DOMAIN Stored[o.probe] : o \in all}
    <3>1. DOMAIN up.template = DOMAIN Stored[p]
      BY <2>1 DEF Stamp
    <3>2. UNION {DOMAIN Stored[o.probe] : o \in {o0}} = DOMAIN Stored[p]
      BY <1>0
    <3> HIDE DEF o0, all, up
    <3> QED BY <2>2, <3>1, <3>2
  <2>4. ASSUME NEW n \in DOMAIN up.template
        PROVE  /\ n \in DOMAIN Stored[o0.probe]
               /\ up.template[n] = [value |-> Stored[o0.probe][n], fresh |-> o0.at]
    BY <1>0, <2>1 DEF Stamp
  <2> QED BY <1>0, <2>1, <2>2, <2>3, <2>4 DEF MadeOf
<1> QED BY <1>1, <1>2

\* Observing keeps every record a collection of its own visitor's observations.
LEMMA ObserveProvenance ==
    ASSUME LibraryInv, NEW v \in Probes, NEW p \in Probes, NEW now \in Nat,
           Observe(v, p, now)
    PROVE  RecordIsItsObservations'
<1>1. PICK recs :
          /\ records' = recs
          /\ absorbed' = [w \in Probes |->
                 IF w \notin DOMAIN recs THEN {}
                 ELSE IF w # v THEN absorbed[w]
                 ELSE absorbed[w] \cup {[probe |-> p, at |-> now]}]
  BY DEF Observe
<1>2. /\ DOMAIN records' \subseteq DOMAIN records \cup {v}
      /\ \A w \in DOMAIN records' : records'[w] = Upsert(records, v, Stored[p], now)[w]
  BY ObserveTypes
<1>3. /\ DOMAIN records \subseteq Probes
      /\ \A w \in DOMAIN records :
             IsRecord(records[w]) /\ MadeOf(records[w], absorbed[w])
      /\ v \notin DOMAIN records => absorbed[v] = {}
  BY DEF LibraryInv, TypeOK, RecordIsItsObservations, AbsorbedIsOnRecord
<1>4. ASSUME NEW w \in DOMAIN records'
      PROVE  MadeOf(records'[w], absorbed'[w])
  <2>1. CASE w = v
    <3>1. absorbed'[v] = absorbed[v] \cup {[probe |-> p, at |-> now]}
      BY <1>1, <2>1
    <3>2. MadeOf(Upsert(records, v, Stored[p], now)[v],
                 absorbed[v] \cup {[probe |-> p, at |-> now]})
      <4>1. v \in DOMAIN records => IsRecord(records[v]) /\ MadeOf(records[v], absorbed[v])
        BY <1>3
      <4> QED BY <1>3, <4>1, UpsertMadeOf
    <3> QED BY <1>2, <2>1, <3>1, <3>2
  <2>2. CASE w # v
    <3>1. w \in DOMAIN records /\ w \in Probes
      BY <1>2, <1>3, <2>2
    <3>2. records'[w] = records[w]
      BY <1>2, <2>2, <3>1 DEF Upsert
    <3>3. absorbed'[w] = absorbed[w]
      BY <1>1, <2>2, <3>1
    <3> QED BY <1>3, <3>1, <3>2, <3>3
  <2> QED BY <2>1, <2>2
<1> QED BY <1>4 DEF RecordIsItsObservations

\* Observing keeps the ledger: what was created, the new record counted, is held,
\* evicted or forgotten.
LEMMA ObserveCounts ==
    ASSUME LibraryInv, NEW v \in Probes, NEW p \in Probes, NEW now \in Nat,
           Observe(v, p, now)
    PROVE  /\ evicted' \in Nat
           /\ ledger.created + Newly(v) =
                  Cardinality(DOMAIN records') + evicted' + ledger.forgotten
<1> DEFINE before == DOMAIN records \cup {v}
           after == DOMAIN records'
<1>1. /\ IsFiniteSet(DOMAIN records) /\ evicted \in Nat
      /\ ledger.created \in Nat /\ ledger.forgotten \in Nat
      /\ ledger.created = Cardinality(DOMAIN records) + evicted + ledger.forgotten
  BY DEF LibraryInv, FiniteHoldings, TypeOK, EvictionsAreCounted
<1>2. after \in SUBSET before
  BY ObserveTypes
<1>3. evicted' = evicted + Cardinality(before \ after)
  BY DEF Observe, Gone
<1>4. /\ IsFiniteSet(before)
      /\ Cardinality(before) = Cardinality(DOMAIN records) + Newly(v)
  BY <1>1, FS_AddElement, FS_CardinalityType DEF Newly
<1> HIDE DEF before, after
<1>5. /\ Cardinality(after) \in Nat /\ Cardinality(before \ after) \in Nat
      /\ Cardinality(before) = Cardinality(after) + Cardinality(before \ after)
  BY <1>2, <1>4, CardinalityOfDifference
<1>6. Cardinality(DOMAIN records) \in Nat /\ Newly(v) \in Nat
  BY <1>1, FS_CardinalityType DEF Newly
<1> QED BY <1>1, <1>3, <1>4, <1>5, <1>6 DEF after

\* What dropping some records, and nothing else, does to the bounds and counts.
LEMMA KeepingSome ==
    ASSUME LibraryInv, NEW kept \in SUBSET DOMAIN records, DOMAIN records' = kept,
           \A k \in Keys : index'[k] \in SUBSET index[k]
    PROVE  /\ FiniteHoldings' /\ WithinBounds'
           /\ Cardinality(kept) \in Nat
           /\ Cardinality(DOMAIN records \ kept) \in Nat
           /\ Cardinality(DOMAIN records) =
                  Cardinality(kept) + Cardinality(DOMAIN records \ kept)
<1>1. /\ IsFiniteSet(DOMAIN records)
      /\ Cardinality(DOMAIN records) <= IF MaxRecords = 0 THEN 1 ELSE MaxRecords
      /\ \A k \in Keys : IsFiniteSet(index[k]) /\ Cardinality(index[k]) <= MaxBlock
  BY DEF LibraryInv, FiniteHoldings, WithinBounds
<1>2. /\ IsFiniteSet(kept)
      /\ Cardinality(kept) \in Nat /\ Cardinality(DOMAIN records \ kept) \in Nat
      /\ Cardinality(DOMAIN records) =
             Cardinality(kept) + Cardinality(DOMAIN records \ kept)
  BY <1>1, CardinalityOfDifference
<1>3. ASSUME NEW k \in Keys
      PROVE  IsFiniteSet(index'[k]) /\ Cardinality(index'[k]) <= MaxBlock
  <2>1. /\ IsFiniteSet(index'[k])
        /\ Cardinality(index'[k]) <= Cardinality(index[k])
    BY <1>1, FS_Subset
  <2>2. Cardinality(index'[k]) \in Nat /\ Cardinality(index[k]) \in Nat
    BY <1>1, <2>1, FS_CardinalityType
  <2> QED BY <1>1, <2>1, <2>2, BlockingAssumption
<1>4. Cardinality(DOMAIN records') <= IF MaxRecords = 0 THEN 1 ELSE MaxRecords
  <2>1. Cardinality(kept) <= Cardinality(DOMAIN records)
    BY <1>2
  <2>2. Cardinality(kept) <= IF MaxRecords = 0 THEN 1 ELSE MaxRecords
    BY <1>1, <1>2, <2>1, RecordStoreAssumption
  <2> QED BY <2>2
<1>5. FiniteHoldings' /\ WithinBounds'
  BY <1>2, <1>3, <1>4 DEF FiniteHoldings, WithinBounds
<1> QED BY <1>2, <1>5

---------------------------------------------------------------------------
\* The invariant holds initially and is kept by every action.

\* An empty library satisfies the invariant.
LEMMA InitLibraryInv == Init => LibraryInv
<1> SUFFICES ASSUME Init PROVE LibraryInv
  OBVIOUS
<1>1. /\ DOMAIN records = {} /\ records = [v \in DOMAIN records |-> records[v]]
      /\ index = [k \in Keys |-> {}]
      /\ evicted = 0
  BY DEF Init, NoRecords, EmptyIndex
<1>2. IsFiniteSet({}) /\ Cardinality({}) = 0
  BY FS_EmptySet
<1>3. TypeOK
  <2>1. DOMAIN waiting = {} /\ waiting \in [DOMAIN waiting -> [probe : Probes, now : Nat]]
    BY DEF Init
  <2> QED BY <1>1, <2>1 DEF Init, TypeOK
<1>4. FiniteHoldings
  BY <1>1, <1>2 DEF FiniteHoldings
<1>5. WithinBounds
  BY <1>1, <1>2, RecordStoreAssumption, BlockingAssumption DEF WithinBounds
<1>6. ErasedLeavesNoTrace /\ AbsorbedIsOnRecord /\ Recallable /\ RecordIsItsObservations
  BY <1>1 DEF Init, ErasedLeavesNoTrace, AbsorbedIsOnRecord, Recallable,
              RecordIsItsObservations
<1>7. EvictionsAreCounted
  BY <1>1, <1>2 DEF Init, EvictionsAreCounted
<1> QED BY <1>3, <1>4, <1>5, <1>6, <1>7 DEF LibraryInv

\* Steps that leave the library alone.
LEMMA LibraryUntouched ==
    ASSUME LibraryInv, UNCHANGED library, TypeOK'
    PROVE  LibraryInv'
<1>1. /\ FiniteHoldings' /\ WithinBounds'
      /\ ErasedLeavesNoTrace' /\ AbsorbedIsOnRecord'
  BY DEF LibraryInv, library, FiniteHoldings, WithinBounds, ErasedLeavesNoTrace,
         AbsorbedIsOnRecord
<1>2. Recallable' /\ EvictionsAreCounted'
  BY DEF LibraryInv, library, Recallable, EvictionsAreCounted
<1>3. RecordIsItsObservations'
  BY DEF LibraryInv, library, RecordIsItsObservations
<1> QED BY <1>1, <1>2, <1>3 DEF LibraryInv

\* A request taken out of the queue.
LEMMA LeaveTypes ==
    ASSUME TypeOK, NEW h, Leave(h)
    PROVE  /\ DOMAIN waiting' \subseteq Handlers
           /\ waiting' \in [DOMAIN waiting' -> [probe : Probes, now : Nat]]
BY DEF TypeOK, Leave

\* An observation that answers with the ledger and the erased set given.
LEMMA ObserveKeepsInv ==
    ASSUME LibraryInv, NEW v \in Probes, NEW p \in Probes, NEW now \in Nat,
           Observe(v, p, now), NEW h, Leave(h),
           UNCHANGED <<clock, requests, sweep>>,
           erased' \subseteq erased, v \notin erased',
           ledger' \in [created : Nat, forgotten : Nat],
           ledger'.created = ledger.created + Newly(v),
           ledger'.forgotten = ledger.forgotten
    PROVE  LibraryInv'
<1>1. TypeOK
  BY DEF LibraryInv
<1>2. TypeOK'
  <2>1. /\ clock' \in Nat /\ requests' \in Nat /\ sweep' \in SUBSET Nat
        /\ erased' \subseteq Probes
    BY <1>1 DEF TypeOK
  <2>2. DOMAIN records' \subseteq Probes
    BY <1>1, ObserveTypes DEF TypeOK
  <2>3. evicted' \in Nat
    BY ObserveCounts
  <2> QED BY <1>1, <2>1, <2>2, <2>3, LeaveTypes, ObserveTypes DEF TypeOK
<1>3. FiniteHoldings' /\ WithinBounds'
  BY ObserveTypes
<1>4. ErasedLeavesNoTrace'
  <2>1. ASSUME NEW w \in erased'
        PROVE  w \notin DOMAIN records' /\ \A k \in Keys : w \notin index'[k]
    <3>1. /\ w # v
          /\ w \notin DOMAIN records /\ \A k \in Keys : w \notin index[k]
      BY DEF LibraryInv, ErasedLeavesNoTrace
    <3>2. w \notin DOMAIN records'
      BY <3>1, ObserveTypes
    <3>3. index' = InsertAll(index, KeysOf[p], v)
      BY DEF Observe
    <3> QED BY <3>1, <3>2, <3>3 DEF InsertAll
  <2> QED BY <2>1 DEF ErasedLeavesNoTrace
<1>5. AbsorbedIsOnRecord' /\ Recallable'
  BY ObserveRecalls
<1>6. RecordIsItsObservations'
  BY ObserveProvenance
<1>7. EvictionsAreCounted'
  <2>1. ledger.created + Newly(v) =
            Cardinality(DOMAIN records') + evicted' + ledger.forgotten
    BY ObserveCounts
  <2> QED BY <2>1 DEF EvictionsAreCounted
<1> QED BY <1>2, <1>3, <1>4, <1>5, <1>6, <1>7 DEF LibraryInv

\* A match folds the probe into a visitor on record.
LEMMA IdentifyMatchKeepsInv ==
    ASSUME LibraryInv, NEW h \in Handlers, NEW v \in Probes, IdentifyMatch(h, v)
    PROVE  LibraryInv'
<1> DEFINE p == waiting[h].probe
           now == waiting[h].now
<1>1. p \in Probes /\ now \in Nat
  BY DEF LibraryInv, TypeOK, IdentifyMatch
<1>2. v \in DOMAIN records
  BY DEF IdentifyMatch, Comparable
<1>3. v \notin erased /\ Newly(v) = 0
  BY <1>2 DEF LibraryInv, ErasedLeavesNoTrace, Newly
<1>4. ledger \in [created : Nat, forgotten : Nat]
  BY DEF LibraryInv, TypeOK
<1>5. /\ Observe(v, p, now) /\ Leave(h)
      /\ UNCHANGED <<clock, requests, sweep>>
      /\ erased' = erased /\ ledger' = ledger
  BY DEF IdentifyMatch
<1>6. ledger'.created = ledger.created + Newly(v)
  BY <1>3, <1>4, <1>5
<1> HIDE DEF p, now
<1> QED BY <1>1, <1>3, <1>4, <1>5, <1>6, ObserveKeepsInv

\* A new device mints its id and observes it at once.
LEMMA IdentifyNewKeepsInv ==
    ASSUME LibraryInv, NEW h \in Handlers, IdentifyNew(h)
    PROVE  LibraryInv'
<1> DEFINE p == waiting[h].probe
           now == waiting[h].now
<1>1. p \in Probes /\ now \in Nat
  BY DEF LibraryInv, TypeOK, IdentifyNew
<1>2. ledger \in [created : Nat, forgotten : Nat]
  BY DEF LibraryInv, TypeOK
<1>3. /\ Observe(p, p, now) /\ Leave(h)
      /\ UNCHANGED <<clock, requests, sweep>>
      /\ erased' = erased \ {p}
      /\ ledger' = [ledger EXCEPT !.created = @ + Newly(p)]
  BY DEF IdentifyNew, Visitor
<1> HIDE DEF p, now
<1>4. Newly(p) \in Nat
  BY DEF Newly
<1>5. /\ ledger' \in [created : Nat, forgotten : Nat]
      /\ ledger'.created = ledger.created + Newly(p)
      /\ ledger'.forgotten = ledger.forgotten
  <2> DEFINE n == Newly(p)
  <2>1. n \in Nat /\ ledger' = [ledger EXCEPT !.created = @ + n]
    BY <1>3, <1>4
  <2> HIDE DEF n
  <2>2. /\ ledger' \in [created : Nat, forgotten : Nat]
        /\ ledger'.created = ledger.created + n
        /\ ledger'.forgotten = ledger.forgotten
    <3>1. ledger.created + n \in Nat
      BY <1>2, <2>1
    <3>2. ledger' = [created |-> ledger.created + n,
                     forgotten |-> ledger.forgotten]
      BY <1>2, <2>1
    <3>3. ledger.forgotten \in Nat
      BY <1>2
    <3> QED BY <3>1, <3>2, <3>3
  <2> QED BY <2>2 DEF n
<1>6. erased' \subseteq erased /\ p \notin erased'
  BY <1>3
<1>7. Observe(p, p, now) /\ Leave(h) /\ UNCHANGED <<clock, requests, sweep>>
  BY <1>3
<1> QED BY <1>1, <1>5, <1>6, <1>7, ObserveKeepsInv

\* An erasure takes the visitor out of the records, the blocks and the history.
LEMMA EraseKeepsInv ==
    ASSUME LibraryInv, NEW v \in Probes, Erase(v)
    PROVE  LibraryInv'
<1>a. TypeOK
  BY DEF LibraryInv
<1>1. /\ DOMAIN records' = DOMAIN records \ {v}
      /\ \A w \in DOMAIN records' : records'[w] = records[w]
      /\ records' = [w \in DOMAIN records' |-> records'[w]]
  BY DEF Erase, Removed, Keep
<1>2. index' = [k \in Keys |-> index[k] \ {v}]
  BY DEF Erase, WithoutVisitor
<1>3. /\ absorbed' = [absorbed EXCEPT ![v] = {}]
      /\ dropped' = {d \in dropped : d[2] # v}
      /\ erased' = erased \cup {v}
      /\ ledger' = [ledger EXCEPT !.forgotten = @ + 1 - Newly(v)]
      /\ UNCHANGED <<clock, requests, waiting, sweep, evicted>>
  BY DEF Erase
<1>4. \A w \in Probes : absorbed'[w] = IF w = v THEN {} ELSE absorbed[w]
  BY <1>a, <1>3 DEF TypeOK
<1>5. /\ ledger' \in [created : Nat, forgotten : Nat]
      /\ ledger'.created = ledger.created
      /\ ledger'.forgotten = ledger.forgotten + 1 - Newly(v)
  BY <1>a, <1>3 DEF TypeOK, Newly
<1>6. TypeOK'
  <2>1. /\ DOMAIN records' \subseteq Probes
        /\ \A w \in DOMAIN records' : IsRecord(records'[w])
    BY <1>a, <1>1 DEF TypeOK
  <2>2. index' \in [Keys -> SUBSET Probes]
    BY <1>a, <1>2 DEF TypeOK
  <2>3. absorbed' \in [Probes -> SUBSET [probe : Probes, at : Nat]]
    BY <1>a, <1>3 DEF TypeOK
  <2>4. /\ dropped' \subseteq Keys \X Probes /\ erased' \subseteq Probes
        /\ clock' \in Nat /\ requests' \in Nat /\ evicted' \in Nat
        /\ DOMAIN waiting' \subseteq Handlers
        /\ waiting' \in [DOMAIN waiting' -> [probe : Probes, now : Nat]]
        /\ sweep' \in SUBSET Nat
    BY <1>a, <1>3 DEF TypeOK
  <2> QED BY <1>1, <1>5, <2>1, <2>2, <2>3, <2>4 DEF TypeOK
<1>7. /\ FiniteHoldings' /\ WithinBounds'
      /\ Cardinality(DOMAIN records') \in Nat
      /\ Cardinality(DOMAIN records \ DOMAIN records') \in Nat
      /\ Cardinality(DOMAIN records) =
             Cardinality(DOMAIN records') + Cardinality(DOMAIN records \ DOMAIN records')
  <2>1. \A k \in Keys : index'[k] \in SUBSET index[k]
    BY <1>2
  <2>2. DOMAIN records' \in SUBSET DOMAIN records
    BY <1>1
  <2> QED BY <2>1, <2>2, KeepingSome
<1>8. ErasedLeavesNoTrace'
  BY <1>1, <1>2, <1>3 DEF LibraryInv, ErasedLeavesNoTrace
<1>9. AbsorbedIsOnRecord'
  BY <1>1, <1>4 DEF LibraryInv, AbsorbedIsOnRecord
<1>10. Recallable'
  <2>1. ASSUME NEW w \in DOMAIN records', NEW o \in absorbed'[w],
               NEW k \in KeysOf[o.probe]
        PROVE  w \in index'[k] \/ <<k, w>> \in dropped'
    <3>1. w # v /\ w \in DOMAIN records /\ w \in Probes /\ o \in absorbed[w]
      BY <1>a, <1>1, <1>4 DEF TypeOK
    <3>2. w \in index[k] \/ <<k, w>> \in dropped
      BY <3>1 DEF LibraryInv, Recallable
    <3>3. k \in Keys
      <4>1. absorbed[w] \subseteq [probe : Probes, at : Nat]
        BY <1>a, <3>1 DEF TypeOK
      <4>2. o.probe \in Probes
        BY <3>1, <4>1
      <4> QED BY <4>2, LibraryAssumption
    <3> QED BY <1>2, <1>3, <3>1, <3>2, <3>3
  <2> QED BY <2>1 DEF Recallable
<1>11. RecordIsItsObservations'
  <2>1. ASSUME NEW w \in DOMAIN records'
        PROVE  MadeOf(records'[w], absorbed'[w])
    <3>1. w # v /\ w \in DOMAIN records /\ w \in Probes
      BY <1>a, <1>1 DEF TypeOK
    <3>2. records'[w] = records[w] /\ absorbed'[w] = absorbed[w]
      BY <1>1, <1>4, <3>1
    <3> QED BY <3>1, <3>2 DEF LibraryInv, RecordIsItsObservations
  <2> QED BY <2>1 DEF RecordIsItsObservations
<1>12. EvictionsAreCounted'
  <2>1. Cardinality(DOMAIN records \ DOMAIN records') = 1 - Newly(v)
    <3>1. CASE v \in DOMAIN records
      <4>1. DOMAIN records \ DOMAIN records' = {v}
        BY <1>1, <3>1
      <4>2. Cardinality({v}) = 1
        BY FS_Singleton
      <4> QED BY <3>1, <4>1, <4>2 DEF Newly
    <3>2. CASE v \notin DOMAIN records
      <4>1. DOMAIN records \ DOMAIN records' = {}
        BY <1>1, <3>2
      <4>2. Cardinality({}) = 0
        BY FS_EmptySet
      <4> QED BY <3>2, <4>1, <4>2 DEF Newly
    <3> QED BY <3>1, <3>2
  <2>2. ledger.created = Cardinality(DOMAIN records) + evicted + ledger.forgotten
    BY DEF LibraryInv, EvictionsAreCounted
  <2>3. evicted \in Nat /\ ledger.forgotten \in Nat /\ Newly(v) \in {0, 1}
    BY <1>a DEF TypeOK, Newly
  <2> QED BY <1>3, <1>5, <1>7, <2>1, <2>2, <2>3 DEF EvictionsAreCounted
<1> QED BY <1>6, <1>7, <1>8, <1>9, <1>10, <1>11, <1>12 DEF LibraryInv

\* A sweep takes whole records and counts them; the blocks keep their ids.
LEMMA PurgeKeepsInv ==
    ASSUME LibraryInv, Purge
    PROVE  LibraryInv'
<1>a. TypeOK
  BY DEF LibraryInv
<1>1. PICK t \in sweep :
        /\ records' = Purged(records, t, Retention)
        /\ evicted' = evicted + Gone(DOMAIN records, DOMAIN records')
        /\ absorbed' = [v \in Probes |->
                           IF v \in DOMAIN records' THEN absorbed[v] ELSE {}]
  BY DEF Purge
<1>2. /\ DOMAIN records' \subseteq DOMAIN records
      /\ \A w \in DOMAIN records' : records'[w] = records[w]
      /\ records' = [w \in DOMAIN records' |-> records'[w]]
  BY <1>1 DEF Purged, Keep
<1>3. sweep' = {} /\ UNCHANGED <<clock, requests, waiting, index, dropped, erased, ledger>>
  BY DEF Purge
<1>4. \A w \in DOMAIN records' : w \in Probes /\ absorbed'[w] = absorbed[w]
  BY <1>a, <1>1, <1>2 DEF TypeOK
<1>5. /\ FiniteHoldings' /\ WithinBounds'
      /\ Cardinality(DOMAIN records') \in Nat
      /\ Cardinality(DOMAIN records \ DOMAIN records') \in Nat
      /\ Cardinality(DOMAIN records) =
             Cardinality(DOMAIN records') + Cardinality(DOMAIN records \ DOMAIN records')
  <2>1. \A k \in Keys : index'[k] \in SUBSET index[k]
    BY <1>3
  <2>2. DOMAIN records' \in SUBSET DOMAIN records
    BY <1>2
  <2> QED BY <2>1, <2>2, KeepingSome
<1>6. evicted' = evicted + Cardinality(DOMAIN records \ DOMAIN records')
  BY <1>1 DEF Gone
<1>7. TypeOK'
  <2>1. evicted' \in Nat
    BY <1>a, <1>5, <1>6 DEF TypeOK
  <2>2. /\ DOMAIN records' \subseteq Probes
        /\ \A w \in DOMAIN records' : IsRecord(records'[w])
    BY <1>a, <1>2 DEF TypeOK
  <2>3. absorbed' \in [Probes -> SUBSET [probe : Probes, at : Nat]]
    BY <1>a, <1>1 DEF TypeOK
  <2>4. /\ clock' \in Nat /\ requests' \in Nat /\ sweep' \in SUBSET Nat
        /\ DOMAIN waiting' \subseteq Handlers
        /\ waiting' \in [DOMAIN waiting' -> [probe : Probes, now : Nat]]
        /\ index' \in [Keys -> SUBSET Probes]
        /\ dropped' \subseteq Keys \X Probes /\ erased' \subseteq Probes
        /\ ledger' \in [created : Nat, forgotten : Nat]
    BY <1>a, <1>3 DEF TypeOK
  <2> QED BY <1>2, <2>1, <2>2, <2>3, <2>4 DEF TypeOK
<1>8. ErasedLeavesNoTrace'
  BY <1>2, <1>3 DEF LibraryInv, ErasedLeavesNoTrace
<1>9. AbsorbedIsOnRecord'
  BY <1>1 DEF AbsorbedIsOnRecord
<1>10. Recallable'
  BY <1>2, <1>3, <1>4 DEF LibraryInv, Recallable
<1>11. RecordIsItsObservations'
  <2>1. ASSUME NEW w \in DOMAIN records'
        PROVE  MadeOf(records'[w], absorbed'[w])
    <3>1. records'[w] = records[w] /\ absorbed'[w] = absorbed[w]
      BY <1>2, <1>4
    <3> QED BY <1>2, <3>1 DEF LibraryInv, RecordIsItsObservations
  <2> QED BY <2>1 DEF RecordIsItsObservations
<1>12. EvictionsAreCounted'
  <2>1. ledger.created = Cardinality(DOMAIN records) + evicted + ledger.forgotten
    BY DEF LibraryInv, EvictionsAreCounted
  <2>2. evicted \in Nat /\ ledger.forgotten \in Nat /\ ledger' = ledger
    BY <1>a, <1>3 DEF TypeOK
  <2> QED BY <1>5, <1>6, <2>1, <2>2 DEF EvictionsAreCounted
<1> QED BY <1>5, <1>7, <1>8, <1>9, <1>10, <1>11, <1>12 DEF LibraryInv

\* Every step of the library keeps the invariant.
LEMMA NextLibraryInv == LibraryInv /\ [Next]_vars => LibraryInv'
<1> SUFFICES ASSUME LibraryInv, [Next]_vars PROVE LibraryInv'
  OBVIOUS
<1>a. TypeOK
  BY DEF LibraryInv
<1>1. CASE Tick
  <2>1. TypeOK'
    BY <1>a, <1>1 DEF Tick, library, TypeOK
  <2> QED BY <1>1, <2>1, LibraryUntouched DEF Tick
<1>2. ASSUME NEW h \in Handlers, NEW p \in Probes, Arrive(h, p)
      PROVE  LibraryInv'
  <2>1. /\ DOMAIN waiting' \subseteq Handlers
        /\ waiting' \in [DOMAIN waiting' -> [probe : Probes, now : Nat]]
        /\ requests' \in Nat
    BY <1>a, <1>2 DEF Arrive, TypeOK
  <2>2. TypeOK'
    BY <1>a, <1>2, <2>1 DEF Arrive, library, TypeOK
  <2> QED BY <1>2, <2>2, LibraryUntouched DEF Arrive
<1>3. ASSUME NEW h \in Handlers, NEW v \in Probes, IdentifyMatch(h, v)
      PROVE  LibraryInv'
  BY <1>3, IdentifyMatchKeepsInv
<1>4. ASSUME NEW h \in Handlers, NEW v \in Probes, IdentifyReview(h, v)
      PROVE  LibraryInv'
  <2>1. /\ DOMAIN waiting' \subseteq Handlers
        /\ waiting' \in [DOMAIN waiting' -> [probe : Probes, now : Nat]]
    BY <1>a, <1>4, LeaveTypes DEF IdentifyReview
  <2>2. TypeOK'
    BY <1>a, <1>4, <2>1 DEF IdentifyReview, library, TypeOK
  <2> QED BY <1>4, <2>2, LibraryUntouched DEF IdentifyReview
<1>5. ASSUME NEW h \in Handlers, IdentifyNew(h)
      PROVE  LibraryInv'
  BY <1>5, IdentifyNewKeepsInv
<1>6. ASSUME NEW v \in Probes, Erase(v)
      PROVE  LibraryInv'
  BY <1>6, EraseKeepsInv
<1>7. CASE SweepTick
  <2>1. sweep' \in SUBSET Nat
    BY <1>a, <1>7 DEF SweepTick, TypeOK
  <2>2. TypeOK'
    BY <1>a, <1>7, <2>1 DEF SweepTick, library, TypeOK
  <2> QED BY <1>7, <2>2, LibraryUntouched DEF SweepTick
<1>8. CASE Purge
  BY <1>8, PurgeKeepsInv
<1>9. CASE UNCHANGED vars
  <2>1. UNCHANGED library /\ UNCHANGED <<clock, requests, waiting, sweep>>
    BY <1>9 DEF vars, library
  <2>2. TypeOK'
    BY <1>a, <2>1 DEF library, TypeOK
  <2> QED BY <2>1, <2>2, LibraryUntouched
<1> QED BY <1>1, <1>2, <1>3, <1>4, <1>5, <1>6, <1>7, <1>8, <1>9 DEF Next

---------------------------------------------------------------------------
(***************************************************************************)
(* The library's inductive invariant holds in every reachable state.       *)
(***************************************************************************)
THEOREM LibraryInvariant == Spec => []LibraryInv
BY InitLibraryInv, NextLibraryInv, PTL DEF Spec

(***************************************************************************)
(* Types: the record store, the index and their history keep their shape,  *)
(* a record's count is never zero, and no counter goes below zero.         *)
(***************************************************************************)
THEOREM TypesHold == Spec => []TypeOK
<1>1. LibraryInv => TypeOK
  BY DEF LibraryInv
<1> QED BY <1>1, LibraryInvariant, PTL

(***************************************************************************)
(* Fail-safe growth, for every cap: the record store and each block stay   *)
(* within theirs.                                                          *)
(***************************************************************************)
THEOREM BoundsHold == Spec => []WithinBounds
<1>1. LibraryInv => WithinBounds
  BY DEF LibraryInv
<1> QED BY <1>1, LibraryInvariant, PTL

(***************************************************************************)
(* The right to be forgotten: until its id is minted again, an erased      *)
(* visitor is in no record and in no block, whatever was in flight.        *)
(***************************************************************************)
THEOREM ErasureIsComplete == Spec => []ErasedLeavesNoTrace
<1>1. LibraryInv => ErasedLeavesNoTrace
  BY DEF LibraryInv
<1> QED BY <1>1, LibraryInvariant, PTL

(***************************************************************************)
(* Recall: a visitor on record is found through every key it was observed  *)
(* under, unless a full block is on record as having dropped it.           *)
(***************************************************************************)
THEOREM RecallIsComplete == Spec => []Recallable
<1>1. LibraryInv => Recallable
  BY DEF LibraryInv
<1> QED BY <1>1, LibraryInvariant, PTL

(***************************************************************************)
(* Provenance: a record holds what was observed of its own visitor since   *)
(* it was created, and nothing else.                                       *)
(***************************************************************************)
THEOREM RecordsAreTheirObservations == Spec => []RecordIsItsObservations
<1>1. LibraryInv => RecordIsItsObservations
  BY DEF LibraryInv
<1> QED BY <1>1, LibraryInvariant, PTL

(***************************************************************************)
(* Accounting: created records are held, erased or counted as evicted.     *)
(***************************************************************************)
THEOREM CountsAddUp == Spec => []EvictionsAreCounted
<1>1. LibraryInv => EvictionsAreCounted
  BY DEF LibraryInv
<1> QED BY <1>1, LibraryInvariant, PTL

---------------------------------------------------------------------------
\* No record is lost early.

\* No call and no sweep works with a time the clock has not reached.
LEMMA TimesArePastHolds == Spec => []TimesArePast
<1>1. Init => TimesArePast
  BY DEF Init, TimesArePast
<1>2. LibraryInv /\ TimesArePast /\ [Next]_vars => TimesArePast'
  <2> SUFFICES ASSUME LibraryInv, TimesArePast, [Next]_vars PROVE TimesArePast'
    OBVIOUS
  <2>a. /\ clock \in Nat /\ sweep \subseteq Nat
        /\ \A h \in DOMAIN waiting : waiting[h].now \in Nat
    BY DEF LibraryInv, TypeOK
  <2>1. CASE Tick
    BY <2>a, <2>1 DEF Tick, TimesArePast
  <2>2. ASSUME NEW h \in Handlers, NEW p \in Probes, Arrive(h, p)
        PROVE  TimesArePast'
    BY <2>a, <2>2 DEF Arrive, TimesArePast
  <2>3. ASSUME NEW h, Leave(h), UNCHANGED <<clock, sweep>>
        PROVE  TimesArePast'
    BY <2>3 DEF Leave, TimesArePast
  <2>4. ASSUME NEW v \in Probes, Erase(v)
        PROVE  TimesArePast'
    BY <2>4 DEF Erase, TimesArePast
  <2>5. CASE SweepTick
    BY <2>a, <2>5 DEF SweepTick, TimesArePast
  <2>6. CASE Purge
    BY <2>6 DEF Purge, TimesArePast
  <2>7. CASE UNCHANGED vars
    BY <2>7 DEF vars, TimesArePast
  <2> QED BY <2>1, <2>2, <2>3, <2>4, <2>5, <2>6, <2>7
          DEF Next, IdentifyMatch, IdentifyReview, IdentifyNew
<1> QED BY <1>1, <1>2, LibraryInvariant, PTL DEF Spec

\* A record idle for more than a window at a time not after the clock.
LEMMA IdleMeansAged ==
    ASSUME NEW seen \in Nat, NEW now \in Nat, NEW window \in Nat, NEW time \in Nat,
           now <= time, NEW r, r.last_seen = seen, Idle(r, now) > window
    PROVE  seen + window < time
BY DEF Idle

\* Whom an observation drops: the aged, or somebody at the cap.
LEMMA ObserveDrops ==
    ASSUME NEW recs, IsFiniteSet(DOMAIN recs), NEW v, NEW c, NEW now \in Nat,
           NEW after \in Observed(recs, v, c, now),
           NEW w \in DOMAIN recs \ DOMAIN after
    PROVE  \/ Cardinality(DOMAIN after) >= MaxRecords
           \/ Idle(recs[w], now) > RecordTTL
<1> DEFINE up == Upsert(recs, v, c, now)
           live == AfterTTL(up, now)
           D == DOMAIN live
<1>1. PICK out \in CapVictims(live, v) : after = Keep(live, D \ out)
  BY DEF Observed
<1>2. DOMAIN after = D \ out /\ v \in DOMAIN after
  BY <1>1, ObservedShape DEF Keep
<1>3. CASE w \notin D
  <2>1. w # v /\ w \in DOMAIN up
    BY <1>2 DEF Upsert
  <2>2. up[w] = recs[w]
    BY <2>1 DEF Upsert
  <2>3. D = DOMAIN up \ IdleFor(up, now, RecordTTL)
    BY DEF AfterTTL, Keep
  <2>4. w \in IdleFor(up, now, RecordTTL)
    BY <1>3, <2>1, <2>3
  <2>5. Idle(up[w], now) > RecordTTL
    BY <2>4 DEF IdleFor
  <2> HIDE DEF up, D
  <2> QED BY <2>2, <2>5
<1>4. CASE w \in D
  <2>1. D \subseteq DOMAIN recs \cup {v}
    <3>1. D \subseteq DOMAIN up
      BY DEF AfterTTL, Keep
    <3>2. DOMAIN up = DOMAIN recs \cup {v}
      BY UpsertedDomain
    <3> HIDE DEF D, up
    <3> QED BY <3>1, <3>2
  <2>2. /\ out \subseteq D \ {v}
        /\ \/ Cardinality(out) = Excess(live)
           \/ Cardinality(out) < Excess(live) /\ out = D \ {v}
    BY <1>1 DEF CapVictims
  <2>3. Excess(live) = IF Cardinality(D) > MaxRecords
                       THEN Cardinality(D) - MaxRecords ELSE 0
    BY DEF Excess
  <2>4. w \in out
    BY <1>2, <1>4
  <2> HIDE DEF live, D
  <2>5. IsFiniteSet(DOMAIN recs \cup {v})
    BY FS_AddElement
  <2>6. IsFiniteSet(D)
    BY <2>1, <2>5, FS_Subset
  <2>7. /\ Cardinality(out) \in Nat /\ Cardinality(DOMAIN after) \in Nat
        /\ Cardinality(D) = Cardinality(out) + Cardinality(DOMAIN after)
    <3>1. out \in SUBSET D
      BY <2>2
    <3>2. /\ Cardinality(out) \in Nat /\ Cardinality(D \ out) \in Nat
          /\ Cardinality(D) = Cardinality(out) + Cardinality(D \ out)
      BY <2>6, <3>1, CardinalityOfDifference
    <3>3. D \ out = DOMAIN after
      BY <1>2
    <3> QED BY <3>2, <3>3
  <2>8. Cardinality(out) # 0
    <3>1. IsFiniteSet(out)
      BY <2>2, <2>6, FS_Subset
    <3> QED BY <2>4, <3>1, FS_EmptySet
  <2> QED BY <2>2, <2>3, <2>7, <2>8, RecordStoreAssumption
<1> QED BY <1>3, <1>4

(***************************************************************************)
(* No record is lost early: who is dropped was erased, made room at the    *)
(* cap, or had aged out by the real clock, however late the request or the *)
(* sweep that dropped it acted.                                            *)
(***************************************************************************)
THEOREM NoRecordIsLostEarly == Spec => FreshRecordsAreKept
<1>1. LibraryInv /\ TimesArePast /\ [Next]_vars =>
        [\A v \in DOMAIN records \ DOMAIN records' :
            \/ v \in erased'
            \/ Cardinality(DOMAIN records') >= MaxRecords
            \/ records[v].last_seen + RecordTTL < clock
            \/ Retention > 0 /\ records[v].last_seen + Retention < clock]_vars
  <2> SUFFICES ASSUME LibraryInv, TimesArePast, Next,
                      NEW w \in DOMAIN records \ DOMAIN records'
               PROVE  \/ w \in erased'
                      \/ Cardinality(DOMAIN records') >= MaxRecords
                      \/ records[w].last_seen + RecordTTL < clock
                      \/ Retention > 0 /\ records[w].last_seen + Retention < clock
    BY DEF vars
  <2>a. /\ records[w].last_seen \in Nat /\ IsFiniteSet(DOMAIN records)
        /\ clock \in Nat /\ sweep \subseteq Nat
        /\ \A h \in DOMAIN waiting : waiting[h].now \in Nat
    BY DEF LibraryInv, FiniteHoldings, TypeOK, IsRecord
  <2>1. ASSUME NEW h \in DOMAIN waiting, NEW v, NEW p, Observe(v, p, waiting[h].now)
        PROVE  \/ Cardinality(DOMAIN records') >= MaxRecords
               \/ records[w].last_seen + RecordTTL < clock
    <3>1. records' \in Observed(records, v, Stored[p], waiting[h].now)
      BY <2>1 DEF Observe
    <3>2. \/ Cardinality(DOMAIN records') >= MaxRecords
          \/ Idle(records[w], waiting[h].now) > RecordTTL
      BY <2>a, <3>1, ObserveDrops
    <3>3. waiting[h].now <= clock
      BY DEF TimesArePast
    <3> QED BY <2>a, <3>2, <3>3, IdleMeansAged, RecordStoreAssumption
  <2>2. CASE Purge
    <3>1. PICK t \in sweep : records' = Purged(records, t, Retention)
      BY <2>2 DEF Purge
    <3>2. Idle(records[w], t) > Retention
      BY <3>1 DEF Purged, Keep, IdleFor
    <3>3. t <= clock /\ Retention > 0
      BY DEF TimesArePast
    <3> QED BY <2>a, <3>2, <3>3, IdleMeansAged, LibraryAssumption
  <2>3. ASSUME NEW v \in Probes, Erase(v)
        PROVE  w \in erased'
    BY <2>3 DEF Erase, Removed, Keep
  <2>4. UNCHANGED library => FALSE
    BY DEF library
  <2> QED BY <2>1, <2>2, <2>3, <2>4
          DEF Next, Tick, Arrive, IdentifyMatch, IdentifyReview, IdentifyNew, SweepTick
<1> QED BY <1>1, LibraryInvariant, TimesArePastHolds, PTL DEF Spec, FreshRecordsAreKept
===========================================================================
