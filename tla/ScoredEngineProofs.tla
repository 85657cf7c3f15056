------------------------ MODULE ScoredEngineProofs ------------------------
(***************************************************************************)
(* Proofs about ScoredEngine, for every set of devices, headers, caps and  *)
(* thresholds.  However the scores come out, a step of the engine is a     *)
(* step of FingerprintLibrary, so the invariant of FingerprintLibraryProofs*)
(* holds of the engine too; the bookkeeping of the offline evaluation and  *)
(* of the velocity follow from what the engine answers.                    *)
(***************************************************************************)
EXTENDS ScoredEngine, FingerprintLibraryProofs, WellFoundedInduction

\* Whatever the scores: a new device is answered the id minted for the probe,
\* and a match or a review a visitor the index recalled.
LEMMA OutcomesName ==
  ASSUME NEW p \in Probes, NEW o \in Verdicts(p)
  PROVE  /\ o.decision = "new_device" => o.visitor_id = p
         /\ o.decision # "new_device" =>
               o.visitor_id \in Candidates(index, KeysOf[p]) \cup {p}
<1> DEFINE recalled == Candidates(index, KeysOf[p])
<1>1. \E v \in recalled \cup {p} : \E best, second, compared :
         o = OutcomeOf(v, p, best, second, compared)
  BY DEF Verdicts, Evaluated, Visitor
<1>2. QED
  BY <1>1 DEF OutcomeOf

\* A match and a mint observe the visitor they answer.
LEMMA AnsweredAreObserved ==
  ASSUME LibraryInv, NEW h \in Handlers, NEW o,
         \/ IdentifyMatch(h, o.visitor_id)
         \/ IdentifyReview(h, o.visitor_id)
         \/ IdentifyNew(h) /\ o.visitor_id = waiting[h].probe
  PROVE  /\ o.visitor_id \in Probes
         /\ DOMAIN records' \subseteq DOMAIN records \cup {o.visitor_id}
<1>1. CASE IdentifyMatch(h, o.visitor_id) \/ IdentifyReview(h, o.visitor_id)
  <2>1. o.visitor_id \in DOMAIN records /\ DOMAIN records \subseteq Probes
        /\ waiting[h] \in [probe : Probes, now : Nat]
    BY <1>1 DEF IdentifyMatch, IdentifyReview, Comparable, LibraryInv, TypeOK
  <2>2. CASE IdentifyMatch(h, o.visitor_id)
    BY <2>1, <2>2, ObserveTypes DEF IdentifyMatch
  <2>3. CASE IdentifyReview(h, o.visitor_id)
    BY <2>1, <2>3 DEF IdentifyReview, library
  <2>4. QED
    BY <1>1, <2>2, <2>3
<1>2. CASE IdentifyNew(h) /\ o.visitor_id = waiting[h].probe
  <2>1. waiting[h] \in [probe : Probes, now : Nat]
    BY <1>2 DEF IdentifyNew, LibraryInv, TypeOK
  <2>2. QED
    BY <1>2, <2>1, ObserveTypes DEF IdentifyNew, Visitor
<1>3. QED
  BY <1>1, <1>2

\* Every answer of the engine is one of these.
LEMMA AnswersOfEngine ==
  ASSUME LibraryInv, NEW h \in Handlers, NEW headers \in Headers,
         Match(h, headers) \/ Review(h, headers) \/ NewDevice(h, headers)
  PROVE  \E p, o, edge, bands :
            /\ p \in Probes /\ o \in Verdicts(waiting[h].probe)
            /\ p = waiting[h].probe
            /\ \/ IdentifyMatch(h, o.visitor_id)
               \/ IdentifyReview(h, o.visitor_id)
               \/ IdentifyNew(h) /\ o.visitor_id = p
            /\ Respond(p, o, edge, bands)
<1>1. waiting[h].probe \in Probes
  BY DEF Match, Review, NewDevice, LibraryInv, TypeOK
<1>2. CASE Match(h, headers)
  BY <1>1, <1>2 DEF Match
<1>3. CASE Review(h, headers)
  BY <1>1, <1>3 DEF Review
<1>4. CASE NewDevice(h, headers)
  <2>1. PICK o \in Verdicts(waiting[h].probe) :
          /\ o.decision = "new_device"
          /\ IdentifyNew(h)
          /\ \E edge, bands : Respond(waiting[h].probe, o, edge, bands)
    BY <1>4 DEF NewDevice
  <2>2. o.visitor_id = waiting[h].probe
    BY <1>1, <2>1, OutcomesName
  <2>3. QED
    BY <1>1, <2>1, <2>2
<1>5. QED
  BY <1>2, <1>3, <1>4

\* Every step of the engine is a step of the library, or none.
LEMMA StepOfLibrary ==
  ASSUME LibraryInv, [ScoredNext]_engineVars
  PROVE  [Next]_vars
<1>1. ASSUME NEW h \in Handlers, NEW headers \in Headers,
             Match(h, headers) \/ Review(h, headers) \/ NewDevice(h, headers)
      PROVE  Next
  <2>1. PICK p, o, edge, bands :
          /\ p \in Probes /\ o \in Verdicts(waiting[h].probe)
          /\ p = waiting[h].probe
          /\ \/ IdentifyMatch(h, o.visitor_id)
             \/ IdentifyReview(h, o.visitor_id)
             \/ IdentifyNew(h) /\ o.visitor_id = p
          /\ Respond(p, o, edge, bands)
    BY <1>1, AnswersOfEngine
  <2>2. o.visitor_id \in Probes
    BY <2>1, AnsweredAreObserved
  <2>3. QED
    BY <2>1, <2>2 DEF Next
<1>2. CASE Meanwhile
  BY <1>2 DEF Meanwhile, Next
<1>3. ASSUME NEW v \in Probes, ScoredErase(v)
      PROVE  Next
  BY <1>3 DEF ScoredErase, Next
<1>4. CASE ScoredPurge
  BY <1>4 DEF ScoredPurge, Next
<1>5. CASE UNCHANGED engineVars
  BY <1>5 DEF engineVars
<1>6. QED
  BY <1>1, <1>2, <1>3, <1>4, <1>5 DEF ScoredNext

\* The library's invariant, with its verdicts computed.
LEMMA EngineKeepsLibraryInv == ScoredSpec => []LibraryInv
<1>1. ScoredInit => LibraryInv
  BY InitLibraryInv DEF ScoredInit
<1>2. LibraryInv /\ [ScoredNext]_engineVars => LibraryInv'
  BY StepOfLibrary, NextLibraryInv
<1>3. QED
  BY <1>1, <1>2, PTL DEF ScoredSpec

\* The engine with its scores implements the library where any verdict goes.
THEOREM EngineIsALibrary == ScoredSpec => Spec
<1>1. ScoredInit => Init
  BY DEF ScoredInit
<1>2. LibraryInv /\ [ScoredNext]_engineVars => [Next]_vars
  BY StepOfLibrary
<1>3. QED
  BY <1>1, <1>2, EngineKeepsLibraryInv, PTL DEF ScoredSpec, Spec

---------------------------------------------------------------------------
\* What the replay keeps of its own: an id belongs to a device it has visited.
ReplayInv ==
    /\ IsFiniteSet(DOMAIN replay.owner) /\ IsFiniteSet(replay.visited)
    /\ \A v \in DOMAIN replay.owner : replay.owner[v] \in replay.visited
    /\ replay.total \in Nat /\ replay.revisits \in Nat /\ replay.stable \in Nat
    /\ replay.collisions \in Nat /\ replay.minted \in Nat
    /\ EvaluationAddsUp

\* An answer is entered once: under its id, under its device and in one rate.
LEMMA JudgedKeepsReplayInv ==
  ASSUME ReplayInv, NEW device, NEW v, replay' = Judged(replay, device, v),
         DOMAIN records' \subseteq DOMAIN records \cup {v}
  PROVE  ReplayInv'
<1> DEFINE known == v \in DOMAIN replay.owner
           own == known /\ replay.owner[v] = device
           revisit == device \in replay.visited
<1>1. /\ replay'.owner = [w \in DOMAIN replay.owner \cup {v} |->
                            IF w \in DOMAIN replay.owner THEN replay.owner[w] ELSE device]
      /\ replay'.visited = replay.visited \cup {device}
      /\ replay'.total = replay.total + 1
      /\ replay'.revisits = replay.revisits + (IF revisit THEN 1 ELSE 0)
      /\ replay'.stable = replay.stable + (IF own /\ revisit THEN 1 ELSE 0)
      /\ replay'.collisions = replay.collisions + (IF known /\ ~own THEN 1 ELSE 0)
      /\ replay'.minted = replay.minted + (IF ~known THEN 1 ELSE 0)
  BY DEF Judged
<1>2. /\ DOMAIN replay'.owner = DOMAIN replay.owner \cup {v}
      /\ IsFiniteSet(DOMAIN replay'.owner) /\ IsFiniteSet(replay'.visited)
      /\ Cardinality(DOMAIN replay'.owner)
            = Cardinality(DOMAIN replay.owner) + (IF known THEN 0 ELSE 1)
      /\ Cardinality(replay'.visited)
            = Cardinality(replay.visited) + (IF revisit THEN 0 ELSE 1)
  <2>1. IsFiniteSet(DOMAIN replay.owner) /\ IsFiniteSet(replay.visited)
    BY DEF ReplayInv
  <2>2. Cardinality(DOMAIN replay.owner) \in Nat /\ Cardinality(replay.visited) \in Nat
    BY <2>1, FS_CardinalityType
  <2>3. DOMAIN replay'.owner = DOMAIN replay.owner \cup {v}
    BY <1>1
  <2>4. IsFiniteSet(DOMAIN replay.owner \cup {v})
        /\ Cardinality(DOMAIN replay.owner \cup {v})
             = Cardinality(DOMAIN replay.owner) + (IF known THEN 0 ELSE 1)
    BY <2>1, <2>2, FS_AddElement
  <2>5. IsFiniteSet(replay.visited \cup {device})
        /\ Cardinality(replay.visited \cup {device})
             = Cardinality(replay.visited) + (IF revisit THEN 0 ELSE 1)
    BY <2>1, <2>2, FS_AddElement
  <2>6. QED
    BY <1>1, <2>3, <2>4, <2>5
<1>3. own => revisit
  BY DEF ReplayInv
<1>4. \A w \in DOMAIN replay'.owner : replay'.owner[w] \in replay'.visited
  BY <1>1 DEF ReplayInv
<1>5. /\ replay'.total \in Nat /\ replay'.revisits \in Nat /\ replay'.stable \in Nat
      /\ replay'.collisions \in Nat /\ replay'.minted \in Nat
  <2> HIDE DEF known, own, revisit
  <2> QED BY <1>1 DEF ReplayInv
<1>6. EvaluationAddsUp'
  <2>1. DOMAIN records' \subseteq DOMAIN replay'.owner
    BY <1>2 DEF ReplayInv, EvaluationAddsUp
  <2>2. known \/ ~own
    OBVIOUS
  <2>3. /\ replay.minted = Cardinality(DOMAIN replay.owner)
        /\ replay.total = replay.minted + replay.stable + replay.collisions
        /\ replay.total = replay.revisits + Cardinality(replay.visited)
        /\ Cardinality(replay.visited) \in Nat
    BY FS_CardinalityType DEF ReplayInv, EvaluationAddsUp
  <2> HIDE DEF known, own, revisit
  <2>4. replay'.minted = Cardinality(DOMAIN replay'.owner)
    BY <1>1, <1>2, <2>3 DEF ReplayInv
  <2>5. replay'.total = replay'.minted + replay'.stable + replay'.collisions
    BY <1>1, <1>3, <2>2, <2>3 DEF ReplayInv
  <2>6. replay'.total = replay'.revisits + Cardinality(replay'.visited)
    BY <1>1, <1>2, <2>3 DEF ReplayInv
  <2>7. QED
    BY <2>1, <2>4, <2>5, <2>6 DEF EvaluationAddsUp
<1>7. QED
  BY <1>2, <1>4, <1>5, <1>6 DEF ReplayInv

\* A step that answers nobody brings nobody onto record.
LEMMA ReplayUntouched ==
  ASSUME ReplayInv, replay' = replay, DOMAIN records' \subseteq DOMAIN records
  PROVE  ReplayInv'
  BY DEF ReplayInv, EvaluationAddsUp

\* The evaluation enters every answer once, and every device once.
THEOREM EvaluationIsComplete == ScoredSpec => []EvaluationAddsUp
<1>1. ScoredInit => ReplayInv
  <2> SUFFICES ASSUME ScoredInit PROVE ReplayInv
    OBVIOUS
  <2>1. DOMAIN records = {}
    BY DEF ScoredInit, Init, NoRecords
  <2>2. DOMAIN replay.owner = {} /\ replay.visited = {}
    BY DEF ScoredInit, NoReplay
  <2>3. IsFiniteSet({}) /\ Cardinality({}) = 0
    BY FS_EmptySet
  <2>4. QED
    BY <2>1, <2>2, <2>3 DEF ScoredInit, NoReplay, ReplayInv, EvaluationAddsUp
<1>2. ASSUME ReplayInv, LibraryInv, [ScoredNext]_engineVars
      PROVE  ReplayInv'
  <2>1. ASSUME NEW h \in Handlers, NEW headers \in Headers,
               Match(h, headers) \/ Review(h, headers) \/ NewDevice(h, headers)
        PROVE  ReplayInv'
    <3>1. PICK p, o, edge, bands :
            /\ p \in Probes /\ o \in Verdicts(waiting[h].probe)
            /\ p = waiting[h].probe
            /\ \/ IdentifyMatch(h, o.visitor_id)
               \/ IdentifyReview(h, o.visitor_id)
               \/ IdentifyNew(h) /\ o.visitor_id = p
            /\ Respond(p, o, edge, bands)
      BY <1>2, <2>1, AnswersOfEngine
    <3>2. DOMAIN records' \subseteq DOMAIN records \cup {o.visitor_id}
      BY <1>2, <3>1, AnsweredAreObserved
    <3>3. replay' = Judged(replay, DeviceOf[p], o.visitor_id)
      BY <3>1 DEF Respond
    <3>4. QED
      BY <1>2, <3>2, <3>3, JudgedKeepsReplayInv
  <2>2. CASE Meanwhile \/ UNCHANGED engineVars
    <3>1. replay' = replay /\ records' = records
      BY <2>2 DEF Meanwhile, Tick, Arrive, SweepTick, library, engineVars, vars
    <3>2. QED
      BY <1>2, <3>1, ReplayUntouched
  <2>3. ASSUME NEW v \in Probes, ScoredErase(v)
        PROVE  ReplayInv'
    BY <1>2, <2>3, ReplayUntouched DEF ScoredErase, Erase, Removed, Keep
  <2>4. CASE ScoredPurge
    <3>1. PICK t \in sweep : records' = Purged(records, t, Retention)
      BY <2>4 DEF ScoredPurge, Purge
    <3>2. DOMAIN records' \subseteq DOMAIN records /\ replay' = replay
      BY <2>4, <3>1 DEF ScoredPurge, Purged, Keep
    <3>3. QED
      BY <1>2, <3>2, ReplayUntouched
  <2>5. QED
    BY <1>2, <2>1, <2>2, <2>3, <2>4 DEF ScoredNext
<1>3. ReplayInv => EvaluationAddsUp
  BY DEF ReplayInv
<1>4. QED
  BY <1>1, <1>2, <1>3, EngineKeepsLibraryInv, PTL DEF ScoredSpec

---------------------------------------------------------------------------
\* An origin that does not trust the edge counts no velocity for anybody, and
\* bands nobody: the headers name no address and no class to count under.
LEMMA UntrustedIsNotCounted == ScoredSpec => [](~trusting => NothingIsCounted)
<1> DEFINE Inv == ~trusting => NothingIsCounted
<1>1. ScoredInit => Inv
  BY DEF ScoredInit, NothingIsCounted
<1>2. ASSUME Inv, [ScoredNext]_engineVars
      PROVE  Inv'
  <2>1. trusting' = trusting
    <3>1. ASSUME NEW h \in Handlers, NEW headers \in Headers,
                 Match(h, headers) \/ Review(h, headers) \/ NewDevice(h, headers)
          PROVE  trusting' = trusting
      BY <3>1 DEF Match, Review, NewDevice, Respond
    <3>2. CASE Meanwhile \/ ScoredPurge \/ \E v \in Probes : ScoredErase(v)
      BY <3>2 DEF Meanwhile, ScoredPurge, ScoredErase
    <3>3. QED
      BY <1>2, <3>1, <3>2 DEF ScoredNext, engineVars
  <2>2. SUFFICES ASSUME ~trusting, NothingIsCounted
                 PROVE  NothingIsCounted'
    BY <1>2, <2>1
  <2>3. ASSUME NEW h \in Handlers, NEW headers \in Headers,
               Match(h, headers) \/ Review(h, headers)
        PROVE  NothingIsCounted'
    <3>1. velocity' = velocity /\ \E p, o, edge : Respond(p, o, edge, NoBands)
      BY <2>3 DEF Match, Review, tables
    <3>2. QED
      BY <2>2, <3>1 DEF Respond, NothingIsCounted
  <2>4. ASSUME NEW h \in Handlers, NEW headers \in Headers, NewDevice(h, headers)
        PROVE  NothingIsCounted'
    <3> DEFINE edge == Trusted(trusting, headers)
               secs == waiting[h].now \div Second
               ipKeys == {<<"ip", a>> : a \in edge.ip}
               classKeys == JA4Class(edge.ja4)
               events == Minted(Minted(velocity, ipKeys, secs), classKeys, secs)
               bands == [ip |-> Band(events, ipKeys, Bands.ip),
                         ja4 |-> Band(events, classKeys, Bands.ja4)]
    <3>1. ipKeys = {} /\ classKeys = {}
      BY <2>2 DEF Trusted, NoHeaders, JA4Class
    <3>2. events = velocity /\ bands = NoBands
      BY <3>1 DEF Minted, Band, NoBands
    <3>3. \E o : velocity' = events /\ Respond(waiting[h].probe, o, edge, bands)
      BY <2>4 DEF NewDevice
    <3> HIDE DEF edge, events, bands
    <3>4. QED
      BY <2>2, <3>2, <3>3 DEF Respond, NothingIsCounted
  <2>5. CASE Meanwhile \/ UNCHANGED engineVars
    BY <2>2, <2>5 DEF Meanwhile, tables, engineVars, NothingIsCounted
  <2>6. CASE ScoredPurge \/ \E v \in Probes : ScoredErase(v)
    BY <2>2, <2>6 DEF ScoredPurge, ScoredErase, tables, NothingIsCounted
  <2>7. QED
    BY <1>2, <2>3, <2>4, <2>5, <2>6 DEF ScoredNext
<1>3. QED
  BY <1>1, <1>2, PTL DEF ScoredSpec

---------------------------------------------------------------------------
\* Recursion over finite sets and up to a number.

\* Induction over a finite set, with the property as the set Good of the sets
\* that have it: a smallest subset outside Good would contradict the step.
LEMMA SetInduction ==
  ASSUME NEW S, IsFiniteSet(S), NEW Good,
         \A T \in SUBSET S : (\A x \in T : T \ {x} \in Good) => T \in Good
  PROVE  S \in Good
<1> SUFFICES ASSUME S \notin Good PROVE FALSE
  OBVIOUS
<1> DEFINE Bad == (SUBSET S) \ Good
<1>1. \A T \in SUBSET S : IsFiniteSet(T)
  BY FS_Subset
<1>2. Bad \subseteq FiniteSubsetsOf(S) /\ Bad # {}
  BY <1>1 DEF FiniteSubsetsOf
<1>3. PICK T \in Bad : \A U \in Bad : <<U, T>> \notin StrictSubsetOrdering(S)
  BY <1>2, FS_StrictSubsetOrderingWellFounded, WFMin
<1>4. ASSUME NEW x \in T PROVE T \ {x} \in Good
  <2>1. T \ {x} \in SUBSET S /\ T \in SUBSET S /\ T \ {x} # T
    BY <1>3
  <2>2. <<T \ {x}, T>> \in StrictSubsetOrdering(S)
    BY <2>1 DEF StrictSubsetOrdering
  <2> QED BY <1>3, <2>1, <2>2
<1> QED BY <1>3, <1>4

\* The function by which a sum of w over the subsets of T is computed: one element
\* after another is taken out.
Taken(s) == CHOOSE x \in s : TRUE

IsSum(g, w, T) ==
    g = [s \in SUBSET T |-> IF s = {} THEN 0 ELSE w[Taken(s)] + g[s \ {Taken(s)}]]

\* What such a function says of one set.
LEMMA SumOfSet ==
  ASSUME NEW g, NEW w, NEW T, IsSum(g, w, T), NEW s \in SUBSET T
  PROVE  /\ s = {} => g[s] = 0
         /\ s # {} => /\ Taken(s) \in s
                      /\ g[s] = w[Taken(s)] + g[s \ {Taken(s)}]
<1>1. s # {} => Taken(s) \in s
  BY DEF Taken
<1>2. g[s] = IF s = {} THEN 0 ELSE w[Taken(s)] + g[s \ {Taken(s)}]
  BY Zenon DEF IsSum
<1> QED BY <1>1, <1>2

\* Two of them agree where they meet.
LEMMA SumsAgree ==
  ASSUME NEW w, NEW T, NEW U, NEW g, NEW h, IsSum(g, w, T), IsSum(h, w, U),
         NEW s, IsFiniteSet(s), s \subseteq T, s \subseteq U
  PROVE  g[s] = h[s]
<1> DEFINE Good == {r \in SUBSET s : g[r] = h[r]}
<1>1. ASSUME NEW r \in SUBSET s, \A x \in r : r \ {x} \in Good
      PROVE  r \in Good
  <2>1. r \in SUBSET T /\ r \in SUBSET U
    OBVIOUS
  <2>2. CASE r = {}
    BY <2>1, <2>2, SumOfSet
  <2>3. CASE r # {}
    <3>1. /\ Taken(r) \in r
          /\ g[r] = w[Taken(r)] + g[r \ {Taken(r)}]
          /\ h[r] = w[Taken(r)] + h[r \ {Taken(r)}]
      BY <2>1, <2>3, SumOfSet
    <3>2. g[r \ {Taken(r)}] = h[r \ {Taken(r)}]
      BY <1>1, <3>1
    <3> QED BY <3>1, <3>2
  <2> QED BY <2>2, <2>3
<1>2. s \in Good
  <2> HIDE DEF Good
  <2> QED BY <1>1, SetInduction
<1> QED BY <1>2

\* There is one for every finite set.
LEMMA SumExists ==
  ASSUME NEW w, NEW S, IsFiniteSet(S)
  PROVE  \E g : IsSum(g, w, S)
<1> DEFINE Good == {T \in SUBSET S : \E g : IsSum(g, w, T)}
<1>1. ASSUME NEW T \in SUBSET S, \A x \in T : T \ {x} \in Good
      PROVE  \E g : IsSum(g, w, T)
  <2> DEFINE without(s) == CHOOSE y \in T : y \notin s
             sum(y) == CHOOSE g : IsSum(g, w, T \ {y})
             rest(s) == s \ {Taken(s)}
             at(s) == IF s = {} THEN 0
                      ELSE w[Taken(s)] + sum(without(rest(s)))[rest(s)]
             h == [s \in SUBSET T |-> at(s)]
  <2>1. ASSUME NEW y \in T
        PROVE  IsSum(sum(y), w, T \ {y})
    BY <1>1
  <2>2. ASSUME NEW s \in SUBSET T, s # T
        PROVE  /\ without(s) \in T /\ without(s) \notin s
               /\ h[s] = sum(without(s))[s]
    <3>1. without(s) \in T /\ without(s) \notin s
      BY <2>2
    <3>2. h[s] = at(s)
      OBVIOUS
    <3> HIDE DEF without, sum, h
    <3>3. IsSum(sum(without(s)), w, T \ {without(s)}) /\ s \in SUBSET (T \ {without(s)})
      BY <2>1, <3>1
    <3>4. CASE s = {}
      BY <3>1, <3>2, <3>3, <3>4, SumOfSet
    <3>5. CASE s # {}
      <4>1. /\ Taken(s) \in s
            /\ sum(without(s))[s] = w[Taken(s)] + sum(without(s))[rest(s)]
        BY <3>3, <3>5, SumOfSet
      <4>2. without(rest(s)) \in T /\ without(rest(s)) \notin rest(s)
        <5>1. \E y \in T : y \notin rest(s)
          BY <3>1
        <5> QED BY <5>1 DEF without
      <4>3. /\ IsSum(sum(without(rest(s))), w, T \ {without(rest(s))})
            /\ rest(s) \subseteq T \ {without(rest(s))}
            /\ rest(s) \subseteq T \ {without(s)}
        BY <2>1, <3>3, <4>2
      <4>4. IsFiniteSet(rest(s))
        BY FS_Subset
      <4>5. sum(without(s))[rest(s)] = sum(without(rest(s)))[rest(s)]
        <5>1. PICK g, f, r, A, B :
                /\ g = sum(without(s)) /\ f = sum(without(rest(s))) /\ r = rest(s)
                /\ A = T \ {without(s)} /\ B = T \ {without(rest(s))}
          OBVIOUS
        <5> HIDE DEF rest
        <5>2. IsSum(g, w, A) /\ IsSum(f, w, B)
          BY <3>3, <4>3, <5>1
        <5>3. IsFiniteSet(r) /\ r \subseteq A /\ r \subseteq B
          BY <4>3, <4>4, <5>1
        <5>4. g[r] = f[r]
          BY <5>2, <5>3, SumsAgree
        <5> QED BY <5>1, <5>4
      <4> QED BY <3>1, <3>2, <3>5, <4>1, <4>5
    <3> QED BY <3>4, <3>5
  <2>3. ASSUME NEW s \in SUBSET T
        PROVE  h[s] = IF s = {} THEN 0 ELSE w[Taken(s)] + h[s \ {Taken(s)}]
    <3>1. h[s] = at(s)
      OBVIOUS
    <3>2. CASE s = {}
      BY <3>1, <3>2
    <3>3. CASE s # {}
      <4>1. Taken(s) \in s
        BY <3>3 DEF Taken
      <4>2. rest(s) \in SUBSET T /\ rest(s) # T
        BY <4>1
      <4> HIDE DEF h, rest
      <4>3. h[rest(s)] = sum(without(rest(s)))[rest(s)]
        BY <2>2, <4>2
      <4> QED BY <3>1, <3>3, <4>3 DEF rest
    <3> QED BY <3>2, <3>3
  <2>4. h = [s \in SUBSET T |-> h[s]]
    OBVIOUS
  <2> HIDE DEF h
  <2>5. IsSum(h, w, T)
    BY <2>3, <2>4 DEF IsSum
  <2> QED BY <2>5
<1>2. S \in Good
  <2>1. \A T \in SUBSET S : (\A x \in T : T \ {x} \in Good) => T \in Good
    BY <1>1
  <2> HIDE DEF Good
  <2> QED BY <2>1, SetInduction
<1> QED BY <1>2

\* V holds zero, and what a summand of S adds to a member of V.
Holds(V, w, S) == 0 \in V /\ \A x \in S : \A a \in V : w[x] + a \in V

\* A sum stays in such a set.
LEMMA SumStays ==
  ASSUME NEW w, NEW S, IsFiniteSet(S), NEW V, Holds(V, w, S), NEW g, IsSum(g, w, S)
  PROVE  g[S] \in V
<1> DEFINE Good == {T \in SUBSET S : g[T] \in V}
<1>1. ASSUME NEW T \in SUBSET S, \A x \in T : T \ {x} \in Good
      PROVE  T \in Good
  <2>0. 0 \in V
    BY DEF Holds
  <2>1. CASE T = {}
    <3>1. g[T] = 0
      BY <2>1, SumOfSet
    <3> QED BY <2>0, <3>1
  <2>2. CASE T # {}
    <3>1. Taken(T) \in T /\ g[T] = w[Taken(T)] + g[T \ {Taken(T)}]
      BY <2>2, SumOfSet
    <3>2. T \ {Taken(T)} \in Good
      BY <1>1, <3>1, Zenon
    <3>3. g[T \ {Taken(T)}] \in V
      BY <3>2
    <3>4. w[Taken(T)] + g[T \ {Taken(T)}] \in V
      BY <3>1, <3>3 DEF Holds
    <3> QED BY <3>1, <3>4
  <2> QED BY <2>1, <2>2
<1>2. S \in Good
  <2> HIDE DEF Good
  <2> QED BY <1>1, SetInduction
<1> QED BY <1>2

\* SumOver of naturals is a natural.
LEMMA SumIsNatural ==
  ASSUME NEW f, NEW S, IsFiniteSet(S), \A x \in S : f[x] \in Nat
  PROVE  SumOver(f, S) \in Nat
<1> DEFINE sum == CHOOSE g : IsSum(g, f, S)
<1>1. SumOver(f, S) = sum[S]
  BY DEF SumOver, MapThenSumSet, MapThenFoldSet, IsSum, Taken
<1>2. IsSum(sum, f, S)
  BY SumExists
<1> HIDE DEF sum
<1>3. Holds(Nat, f, S)
  BY DEF Holds
<1> QED BY <1>1, <1>2, <1>3, SumStays

\* What one name contributes to a score.
WeightOf(n, probe, template, freq, agr) ==
    AgreementWeight(MEstimate(agr, n), Rarity(freq, probe[n]),
                    Similarity(probe[n], template[n]))

\* A score is the sum of the weights of what is compared.
LEMMA ScoreIsSum ==
  ASSUME NEW probe, NEW template, NEW freq, NEW agr,
         IsFiniteSet(ComparedNames(probe, template))
  PROVE  \E w, g :
            /\ \A n \in ComparedNames(probe, template) :
                  w[n] = WeightOf(n, probe, template, freq, agr)
            /\ IsSum(g, w, ComparedNames(probe, template))
            /\ Score(probe, template, freq, agr) = g[ComparedNames(probe, template)]
<1> DEFINE names == ComparedNames(probe, template)
           weight(n) == WeightOf(n, probe, template, freq, agr)
           w == [n \in names |-> weight(n)]
           pick(s) == CHOOSE x \in s : TRUE
           Is(g) == g = [s \in SUBSET names |->
                            IF s = {} THEN 0 ELSE weight(pick(s)) + g[s \ {pick(s)}]]
           sum == CHOOSE g : Is(g)
<1>1. Score(probe, template, freq, agr) = sum[names]
  BY DEF Score, WeightOf, MapThenSumSet, MapThenFoldSet
<1> HIDE DEF names, weight
<1>2. ASSUME NEW g
      PROVE  Is(g) <=> IsSum(g, w, names)
  <2>1. ASSUME NEW s \in SUBSET names
        PROVE  (IF s = {} THEN 0 ELSE weight(pick(s)) + g[s \ {pick(s)}])
                   = (IF s = {} THEN 0 ELSE w[pick(s)] + g[s \ {pick(s)}])
    <3>1. s # {} => pick(s) \in names
      OBVIOUS
    <3> HIDE DEF pick
    <3>2. s # {} => w[pick(s)] = weight(pick(s))
      BY <3>1
    <3> QED BY <3>2
  <2>2. \A s : Taken(s) = pick(s)
    BY DEF Taken
  <2> HIDE DEF pick, w
  <2> QED BY <2>1, <2>2 DEF IsSum
<1>3. IsSum(sum, w, names)
  <2>1. PICK g : IsSum(g, w, names)
    BY SumExists DEF names
  <2>2. Is(g)
    BY <1>2, <2>1
  <2> HIDE DEF Is
  <2>3. Is(sum)
    BY <2>2
  <2> QED BY <1>2, <2>3
<1>4. \A n \in names : w[n] = weight(n)
  OBVIOUS
<1> HIDE DEF sum, Is, w
<1> QED BY <1>1, <1>3, <1>4 DEF names, weight

\* A score whose weights are integers is one.
LEMMA ScoreOfNumbers ==
  ASSUME NEW probe, NEW template, NEW freq, NEW agr,
         IsFiniteSet(ComparedNames(probe, template)),
         \A n \in ComparedNames(probe, template) :
            WeightOf(n, probe, template, freq, agr) \in Int
  PROVE  Score(probe, template, freq, agr) \in Int
<1> DEFINE names == ComparedNames(probe, template)
<1>1. PICK w, g : /\ \A n \in names : w[n] = WeightOf(n, probe, template, freq, agr)
                  /\ IsSum(g, w, names)
                  /\ Score(probe, template, freq, agr) = g[names]
  BY ScoreIsSum
<1>2. Holds(Int, w, names)
  BY <1>1 DEF Holds
<1> HIDE DEF names
<1> QED BY <1>1, <1>2, SumStays DEF names

\* Induction up to a number, with the property as a set.
LEMMA InductionUpTo ==
    ASSUME NEW n \in Nat, NEW Good, 0 \in Good,
           \A i \in Nat : i < n /\ i \in Good => i + 1 \in Good
    PROVE  0 .. n \subseteq Good
<1> SUFFICES ASSUME NEW j \in 0 .. n, j \notin Good PROVE FALSE
  OBVIOUS
<1> DEFINE Bad == {i \in Nat : i <= n /\ i \notin Good}
<1>1. Bad \subseteq Nat /\ Bad # {}
  OBVIOUS
<1>2. PICK i \in Bad : \A y \in Bad : <<y, i>> \notin OpToRel(<, Nat)
  BY <1>1, NatLessThanWellFounded, WFMin
<1>3. i # 0 /\ i \in Nat /\ i <= n
  BY <1>2
<1>4. i - 1 \in Good
  <2>1. i - 1 \in Nat /\ i - 1 < i /\ i - 1 <= n
    BY <1>3
  <2>2. <<i - 1, i>> \in OpToRel(<, Nat)
    BY <1>3, <2>1 DEF OpToRel
  <2> QED BY <1>2, <2>1, <2>2
<1>5. i \in Good
  <2>1. i - 1 \in Nat /\ i - 1 < n /\ (i - 1) + 1 = i
    BY <1>3
  <2> QED BY <1>4, <2>1
<1> QED BY <1>2, <1>5

---------------------------------------------------------------------------
\* Logarithms.

\* The powers of two a mantissa is scaled by are positive.
LEMMA PowersOfTwo ==
  ASSUME NEW k \in 0 .. 16
  PROVE  2^k \in Nat \ {0}
<1>1. \/ k = 0 \/ k = 1 \/ k = 2 \/ k = 3 \/ k = 4 \/ k = 5 \/ k = 6 \/ k = 7 \/ k = 8
      \/ k = 9 \/ k = 10 \/ k = 11 \/ k = 12 \/ k = 13 \/ k = 14 \/ k = 15 \/ k = 16
  OBVIOUS
<1>2. /\ 2^0 \in Nat \ {0} /\ 2^1 \in Nat \ {0} /\ 2^2 \in Nat \ {0} /\ 2^3 \in Nat \ {0}
      /\ 2^4 \in Nat \ {0} /\ 2^5 \in Nat \ {0} /\ 2^6 \in Nat \ {0} /\ 2^7 \in Nat \ {0}
      /\ 2^8 \in Nat \ {0} /\ 2^9 \in Nat \ {0} /\ 2^10 \in Nat \ {0} /\ 2^11 \in Nat \ {0}
      /\ 2^12 \in Nat \ {0} /\ 2^13 \in Nat \ {0} /\ 2^14 \in Nat \ {0}
      /\ 2^15 \in Nat \ {0} /\ 2^16 \in Nat \ {0}
  OBVIOUS
<1> QED BY <1>1, <1>2, Zenon

\* A quotient of naturals is one.
LEMMA QuotientIsNatural ==
  ASSUME NEW a \in Nat, NEW b \in Nat \ {0}
  PROVE  a \div b \in Nat
  OBVIOUS

\* The exponent counts powers, the mantissa is a natural.
LEMMA ScaledIsNatural ==
  ASSUME NEW n \in Nat
  PROVE  Exponent(n) \in Nat /\ Mantissa(n) \in Nat
<1> DEFINE below == {k \in 1 .. 16 : 2^k <= n}
<1>1. IsFiniteSet(1 .. 16) /\ Cardinality(1 .. 16) = 16
  <2>1. 1 \in Int /\ 16 \in Int /\ 16 - 1 + 1 = 16 /\ ~(1 > 16)
    OBVIOUS
  <2> QED BY <2>1, FS_Interval, Zenon
<1>2. IsFiniteSet(below) /\ Cardinality(below) <= 16
  BY <1>1, FS_Subset
<1>3. Cardinality(below) \in Nat
  BY <1>2, FS_CardinalityType
<1> HIDE DEF below
<1>4. Exponent(n) \in 0 .. 16
  BY <1>2, <1>3 DEF Exponent, below
<1>5. 2^Exponent(n) \in Nat \ {0} /\ 2^14 \in Nat
  <2>1. 14 \in 0 .. 16
    OBVIOUS
  <2>2. 2^14 \in Nat \ {0}
    BY <2>1, PowersOfTwo
  <2> QED BY <1>4, <2>2, PowersOfTwo, Zenon
<1>6. \A x, y \in Nat : \A z \in Nat \ {0} : (x * y) \div z \in Nat
  BY QuotientIsNatural
<1>7. Mantissa(n) \in Nat
  BY <1>5, <1>6, Zenon DEF Mantissa
<1> QED BY <1>4, <1>7

\* A digit more leaves a mantissa and digits.
LEMMA DigitIsNatural ==
  ASSUME NEW before \in [rest : Nat, digits : Nat]
  PROVE  NextDigit(before) \in [rest : Nat, digits : Nat]
<1> DEFINE square == (before.rest * before.rest) \div 2^14
<1>1. before.rest * before.rest \in Nat /\ 2^14 \in Nat \ {0}
  BY PowersOfTwo
<1>2. square \in Nat
  BY <1>1, QuotientIsNatural
<1> HIDE DEF square
<1>3. square \div 2 \in Nat
  BY <1>2
<1> QED BY <1>2, <1>3 DEF NextDigit, square

\* The digits found one after another, up to the m-th.
IsDigits(g, n, m) ==
    g = [i \in 0 .. m |->
            IF i = 0 THEN [rest |-> Mantissa(n), digits |-> 0] ELSE NextDigit(g[i - 1])]

\* They exist.
LEMMA DigitsExist ==
  ASSUME NEW n
  PROVE  \E g : IsDigits(g, n, 10)
<1> DEFINE Good == {m \in Nat : \E g : IsDigits(g, n, m)}
<1>1. 0 \in Good
  <2>1. IsDigits([i \in 0 .. 0 |-> [rest |-> Mantissa(n), digits |-> 0]], n, 0)
    BY DEF IsDigits
  <2> QED BY <2>1
<1>2. ASSUME NEW m \in Nat, m \in Good
      PROVE  m + 1 \in Good
  <2>1. PICK g : IsDigits(g, n, m)
    BY <1>2
  <2> DEFINE h == [i \in 0 .. m + 1 |-> IF i = m + 1 THEN NextDigit(g[m]) ELSE g[i]]
  <2>2. ASSUME NEW i \in 0 .. m + 1
        PROVE  h[i] = IF i = 0 THEN [rest |-> Mantissa(n), digits |-> 0]
                      ELSE NextDigit(h[i - 1])
    <3>1. CASE i = m + 1
      <4>1. h[i] = NextDigit(g[m]) /\ i # 0 /\ h[i - 1] = g[m]
        BY <3>1
      <4> HIDE DEF h
      <4> QED BY <4>1
    <3>2. CASE i # m + 1
      <4>1. i \in 0 .. m /\ h[i] = g[i] /\ (i # 0 => h[i - 1] = g[i - 1])
        BY <3>2
      <4>2. g[i] = IF i = 0 THEN [rest |-> Mantissa(n), digits |-> 0]
                   ELSE NextDigit(g[i - 1])
        BY <2>1, <4>1, Zenon DEF IsDigits
      <4> HIDE DEF h
      <4> QED BY <4>1, <4>2
    <3> QED BY <3>1, <3>2
  <2>3. h = [i \in 0 .. m + 1 |-> h[i]]
    OBVIOUS
  <2> HIDE DEF h
  <2>4. IsDigits(h, n, m + 1)
    BY <2>2, <2>3 DEF IsDigits
  <2> QED BY <2>4
<1>3. 0 .. 10 \subseteq Good
  <2> HIDE DEF Good
  <2> QED BY <1>1, <1>2, InductionUpTo
<1> QED BY <1>3

\* The table holds logarithms.
LEMMA LogsAreLookedUp ==
  ASSUME NEW n
  PROVE  Log2(n) = Logarithm(n)
<1>1. n \in DOMAIN LogTable => LogTable[n] = Logarithm(n)
  BY DEF LogTable
<1> QED BY <1>1 DEF Log2

\* The logarithm of a positive number is a natural.
LEMMA LogIsNatural ==
  ASSUME NEW n \in Nat \ {0}
  PROVE  Log2(n) \in Nat
<1> DEFINE step == CHOOSE g : IsDigits(g, n, 10)
           Typed == [rest : Nat, digits : Nat]
           Good == {i \in 0 .. 10 : step[i] \in Typed}
<1>1. Log2Digits(n) = step[10].digits
  BY DEF Log2Digits, IsDigits
<1>2. IsDigits(step, n, 10)
  BY DigitsExist
<1>3. Exponent(n) \in Nat /\ Mantissa(n) \in Nat
  BY ScaledIsNatural
<1>4. \A i \in 0 .. 10 :
         step[i] = IF i = 0 THEN [rest |-> Mantissa(n), digits |-> 0]
                   ELSE NextDigit(step[i - 1])
  <2> HIDE DEF step
  <2> QED BY <1>2, Zenon DEF IsDigits
<1> HIDE DEF step
<1>5. 0 \in Good
  BY <1>3, <1>4
<1>6. ASSUME NEW i \in Nat, i < 10, i \in Good
      PROVE  i + 1 \in Good
  <2>1. i + 1 \in 0 .. 10 /\ i + 1 # 0 /\ (i + 1) - 1 = i
    BY <1>6
  <2>2. step[i + 1] = NextDigit(step[i])
    BY <1>4, <2>1
  <2> QED BY <1>6, <2>1, <2>2, DigitIsNatural
<1>7. 10 \in Good
  <2>1. 0 .. 10 \subseteq Good
    <3> HIDE DEF Good
    <3> QED BY <1>5, <1>6, InductionUpTo
  <2> QED BY <2>1
<1>8. Log2Digits(n) \in Nat
  BY <1>1, <1>7
<1>9. Logarithm(n) \in Nat
  BY <1>3, <1>8 DEF Logarithm, Bit
<1> QED BY <1>9, LogsAreLookedUp

---------------------------------------------------------------------------
\* Weights.

\* A share of something that is neither none nor all of it.
IsShare(r) == \E a, b \in Nat : 0 < a /\ a < b /\ r = <<a, b>>

\* Between its floor and its ceiling every fraction is one.
LEMMA ClampedIsShare ==
  ASSUME NEW a \in Nat, NEW b \in Nat \ {0}
  PROVE  IsShare(ClampRatio(<<a, b>>))
<1>1. CASE 10000 * a < b
  <2>1. ClampRatio(<<a, b>>) = <<1, 10000>>
    BY <1>1 DEF ClampRatio
  <2> QED BY <2>1 DEF IsShare
<1>2. CASE ~(10000 * a < b) /\ 10000 * a > 9999 * b
  <2>1. ClampRatio(<<a, b>>) = <<9999, 10000>>
    BY <1>2 DEF ClampRatio
  <2> QED BY <2>1 DEF IsShare
<1>3. CASE ~(10000 * a < b) /\ ~(10000 * a > 9999 * b)
  <2>1. ClampRatio(<<a, b>>) = <<a, b>>
    BY <1>3 DEF ClampRatio
  <2>2. 0 < a /\ a < b
    BY <1>3
  <2> QED BY <2>1, <2>2 DEF IsShare
<1> QED BY <1>1, <1>2, <1>3

\* A share and what is left of it have logarithms.
LEMMA SharesHaveLogs ==
  ASSUME NEW r, IsShare(r)
  PROVE  Log2Of(r) \in Int /\ Log2Of(Complement(r)) \in Int
<1>1. PICK a, b \in Nat : 0 < a /\ a < b /\ r = <<a, b>>
  BY DEF IsShare
<1>2. a \in Nat \ {0} /\ b \in Nat \ {0} /\ b - a \in Nat \ {0}
  BY <1>1
<1>3. Log2(a) \in Nat /\ Log2(b) \in Nat /\ Log2(b - a) \in Nat
  BY <1>2, LogIsNatural
<1>4. r[1] = a /\ r[2] = b /\ Complement(r) = <<b - a, b>>
  BY <1>1 DEF Complement
<1>5. Log2Of(r) = Log2(a) - Log2(b) /\ Log2Of(Complement(r)) = Log2(b - a) - Log2(b)
  BY <1>4 DEF Log2Of
<1> QED BY <1>3, <1>5

\* What counts sightings and pairs.
Counting(freq, agr) ==
    /\ freq.total \in Nat /\ freq.dropped \in Nat
    /\ \A x \in DOMAIN freq.count : freq.count[x] \in Nat
    /\ \A n \in DOMAIN agr.stats : agr.stats[n].agree \in Nat /\ agr.stats[n].total \in Nat

\* From such tables every estimate is a share.
LEMMA EstimatesAreShares ==
  ASSUME NEW freq, NEW agr, Counting(freq, agr), NEW n, NEW stored
  PROVE  IsShare(MEstimate(agr, n)) /\ IsShare(Rarity(freq, stored))
<1>1. Prior(n) \in Nat /\ 0 < Prior(n) /\ Prior(n) < ALPHA /\ ALPHA \in Nat
  BY DEF Prior, ALPHA
<1>2. IsShare(MEstimate(agr, n))
  <2> DEFINE learnt == IF n \in DOMAIN agr.stats THEN agr.stats[n]
                       ELSE [agree |-> 0, total |-> 0]
  <2>1. learnt.agree \in Nat /\ learnt.total \in Nat
    BY DEF Counting
  <2>2. CASE learnt.total = 0
    <3>1. MEstimate(agr, n) = <<Prior(n), ALPHA>>
      BY <2>2 DEF MEstimate
    <3> QED BY <1>1, <3>1 DEF IsShare
  <2>3. CASE learnt.total # 0
    <3>1. MEstimate(agr, n) = ClampRatio(<<learnt.agree + Prior(n), learnt.total + ALPHA>>)
      BY <2>3 DEF MEstimate
    <3>2. learnt.agree + Prior(n) \in Nat /\ learnt.total + ALPHA \in Nat \ {0}
      BY <1>1, <2>1
    <3> HIDE DEF learnt
    <3> QED BY <3>1, <3>2, ClampedIsShare
  <2> QED BY <2>2, <2>3
<1>3. IsShare(Rarity(freq, stored))
  <2>1. IsShare(SET_U)
    BY DEF IsShare, SET_U
  <2>2. ASSUME NEW x PROVE IsShare(UEstimate(freq, x))
    <3> DEFINE hits == IF x \in DOMAIN freq.count THEN freq.count[x] ELSE 0
    <3>1. hits \in Nat /\ freq.total \in Nat
      BY DEF Counting
    <3>2. UEstimate(freq, x) = ClampRatio(<<2 * hits + 1, 2 * freq.total + 2>>)
      BY DEF UEstimate
    <3> HIDE DEF hits
    <3>3. 2 * hits + 1 \in Nat /\ 2 * freq.total + 2 \in Nat \ {0}
      BY <3>1
    <3> QED BY <3>2, <3>3, ClampedIsShare
  <2> QED BY <2>1, <2>2 DEF Rarity
<1> QED BY <1>2, <1>3

\* Values that are alike in part: the similarity is a fraction.
IsFraction(s) == \E x \in Nat, y \in Nat \ {0} : x <= y /\ s = <<x, y>>

\* Two finite sets, or two scalars, are.
LEMMA SimilarityIsFraction ==
  ASSUME NEW a, NEW b, a.kind = "set" => IsFiniteSet(a.of) /\ IsFiniteSet(b.of)
  PROVE  IsFraction(Similarity(a, b))
<1>1. IsFraction(<<1, 1>>) /\ IsFraction(<<0, 1>>)
  BY DEF IsFraction
<1>2. CASE a.kind = "set"
  <2>1. CASE a.of \cup b.of = {}
    BY <1>1, <1>2, <2>1 DEF Similarity, Jaccard
  <2>2. CASE a.of \cup b.of # {}
    <3>1. IsFiniteSet(a.of \cup b.of) /\ IsFiniteSet(a.of \cap b.of)
      BY <1>2, FS_Union, FS_Intersection
    <3>2. /\ Cardinality(a.of \cap b.of) \in Nat
          /\ Cardinality(a.of \cup b.of) \in Nat \ {0}
          /\ Cardinality(a.of \cap b.of) <= Cardinality(a.of \cup b.of)
      <4>1. a.of \cap b.of \in SUBSET (a.of \cup b.of)
        OBVIOUS
      <4> QED BY <2>2, <3>1, <4>1, FS_CardinalityType, FS_EmptySet, FS_Subset
    <3>3. Jaccard(a.of, b.of) = <<Cardinality(a.of \cap b.of), Cardinality(a.of \cup b.of)>>
      BY <2>2 DEF Jaccard
    <3>4. IsFraction(Jaccard(a.of, b.of))
      BY <3>2, <3>3 DEF IsFraction
    <3> QED BY <1>1, <1>2, <3>4 DEF Similarity
  <2> QED BY <2>1, <2>2
<1>3. CASE a.kind # "set"
  BY <1>1, <1>3 DEF Similarity
<1> QED BY <1>2, <1>3

\* A weight between two logarithms is an integer.
LEMMA WeightIsInteger ==
  ASSUME NEW m, IsShare(m), NEW u, IsShare(u), NEW s, IsFraction(s)
  PROVE  AgreementWeight(m, u, s) \in Int
<1>1. PICK x \in Nat, y \in Nat \ {0} : s = <<x, y>>
  BY DEF IsFraction
<1> DEFINE agree == Log2Of(m) - Log2Of(u)
           disagree == Log2Of(Complement(m)) - Log2Of(Complement(u))
<1>2. agree \in Int /\ disagree \in Int
  BY SharesHaveLogs
<1>3. AgreementWeight(m, u, s) = (x * agree + (y - x) * disagree) \div y
  BY <1>1 DEF AgreementWeight
<1> HIDE DEF agree, disagree
<1>4. x * agree + (y - x) * disagree \in Int
  BY <1>2
<1>5. \A i \in Int : i \div y \in Int
  OBVIOUS
<1> QED BY <1>3, <1>4, <1>5

---------------------------------------------------------------------------
\* What is compared and counted.

\* The stored components are finitely many, a set of them is finite, and the name
\* fixes which are sets.
LEMMA StoredFacts ==
  ASSUME NEW p \in Probes
  PROVE  /\ IsFiniteSet(DOMAIN Stored[p])
         /\ \A n \in DOMAIN Stored[p] :
               /\ Stored[p][n].kind = Kind(n)
               /\ Kind(n) = "set" => IsFiniteSet(Stored[p][n].of)
<1> DEFINE kept == {n \in DOMAIN Raw[p] : Storable(n, Raw[p][n])}
<1>1. Stored[p] = [n \in kept |-> StoredForm(n, Raw[p][n])]
  BY EngineAssumption DEF StoredMap
<1>2. IsFiniteSet(DOMAIN Raw[p]) /\ kept \in SUBSET DOMAIN Raw[p]
  BY EngineAssumption
<1>3. ASSUME NEW n \in kept
      PROVE  /\ StoredForm(n, Raw[p][n]).kind = Kind(n)
             /\ StoredForm(n, Raw[p][n]).of = Raw[p][n].val
             /\ Kind(n) = "set" => Raw[p][n].type = "array"
  BY DEF StoredForm, Storable
<1>4. \A n \in kept : Raw[p][n].type = "array" => IsFiniteSet(Raw[p][n].val)
  BY EngineAssumption
<1> HIDE DEF kept
<1>5. IsFiniteSet(kept)
  BY <1>2, FS_Subset
<1> QED BY <1>1, <1>3, <1>4, <1>5

\* A sighting counts a value some naturals of times.
LEMMA SightingsCount ==
  ASSUME NEW p \in Probes
  PROVE  /\ IsFiniteSet(DOMAIN Sightings(Stored[p]))
         /\ \A x \in DOMAIN Sightings(Stored[p]) : Sightings(Stored[p])[x] \in Nat
<1> DEFINE N == Scalars(Stored[p])
           of == [n \in N |-> Stored[p][n].of]
           S == {Stored[p][n].of : n \in N}
           with(x) == {n \in N : Stored[p][n].of = x}
<1>1. IsFiniteSet(N)
  <2>1. N \in SUBSET DOMAIN Stored[p]
    BY DEF Scalars
  <2> HIDE DEF N
  <2> QED BY <2>1, StoredFacts, FS_Subset
<1>2. Sightings(Stored[p]) = [x \in S |-> Cardinality(with(x))]
  BY DEF Sightings
<1> HIDE DEF N
<1>3. IsFiniteSet(S)
  <2>1. of \in Surjection(N, S)
    BY DEF Surjection
  <2> QED BY <1>1, <2>1, FS_Surjection
<1>4. \A x : Cardinality(with(x)) \in Nat
  <2>1. \A x : with(x) \in SUBSET N
    OBVIOUS
  <2> HIDE DEF with
  <2> QED BY <1>1, <2>1, FS_Subset, FS_CardinalityType
<1> HIDE DEF S, with
<1> QED BY <1>2, <1>3, <1>4

\* Observing a probe leaves tables that count.
LEMMA SeenCounts ==
  ASSUME NEW p \in Probes, Counting(frequency, agreement),
         NEW after \in Seen(frequency, Stored[p])
  PROVE  Counting(after, agreement)
<1> DEFINE seen == Sightings(Stored[p])
<1>1. PICK kept : after = Sighted(frequency, seen, kept)
  BY DEF Seen
<1> DEFINE tracked == DOMAIN frequency.count \cup kept
<1>2. /\ after.count = [x \in tracked |->
                          (IF x \in DOMAIN frequency.count THEN frequency.count[x] ELSE 0)
                          + (IF x \in DOMAIN seen THEN seen[x] ELSE 0)]
      /\ after.total = frequency.total + SumOver(seen, DOMAIN seen \cap tracked)
      /\ after.dropped = frequency.dropped + SumOver(seen, DOMAIN seen \ tracked)
  BY <1>1 DEF Sighted
<1>3. IsFiniteSet(DOMAIN seen) /\ \A x \in DOMAIN seen : seen[x] \in Nat
  BY SightingsCount
<1> HIDE DEF seen, tracked
<1>4. /\ SumOver(seen, DOMAIN seen \cap tracked) \in Nat
      /\ SumOver(seen, DOMAIN seen \ tracked) \in Nat
  <2>1. /\ DOMAIN seen \cap tracked \in SUBSET DOMAIN seen
        /\ DOMAIN seen \ tracked \in SUBSET DOMAIN seen
    OBVIOUS
  <2>2. IsFiniteSet(DOMAIN seen \cap tracked) /\ IsFiniteSet(DOMAIN seen \ tracked)
    BY <1>3, <2>1, FS_Subset
  <2>3. SumOver(seen, DOMAIN seen \cap tracked) \in Nat
    BY <1>3, <2>2, SumIsNatural
  <2>4. SumOver(seen, DOMAIN seen \ tracked) \in Nat
    BY <1>3, <2>2, SumIsNatural
  <2> QED BY <2>3, <2>4
<1>5. /\ frequency.total \in Nat /\ frequency.dropped \in Nat
      /\ \A x \in DOMAIN frequency.count : frequency.count[x] \in Nat
  BY DEF Counting
<1>6. after.total \in Nat /\ after.dropped \in Nat
  BY <1>2, <1>4, <1>5
<1>7. \A x \in DOMAIN after.count : after.count[x] \in Nat
  BY <1>2, <1>3, <1>5
<1> QED BY <1>6, <1>7 DEF Counting

\* So does confirming a pair.
LEMMA LearntCounts ==
  ASSUME NEW probe, NEW template, NEW freq, Counting(freq, agreement),
         NEW after \in Learnt(agreement, probe, template)
  PROVE  Counting(freq, after)
<1>1. PICK names, agreed, kept : after = Compared(agreement, names, agreed, kept)
  BY DEF Learnt
<1> DEFINE tracked == DOMAIN agreement.stats \cup kept
           Before(n) == IF n \in DOMAIN agreement.stats THEN agreement.stats[n]
                        ELSE [agree |-> 0, total |-> 0]
<1>2. after.stats = [n \in tracked |->
                       IF n \notin names THEN Before(n)
                       ELSE [agree |-> Before(n).agree + (IF n \in agreed THEN 1 ELSE 0),
                             total |-> Before(n).total + 1]]
  BY <1>1 DEF Compared
<1>3. \A n : Before(n).agree \in Nat /\ Before(n).total \in Nat
  BY DEF Counting
<1> HIDE DEF tracked, Before
<1>4. \A n \in DOMAIN after.stats :
         after.stats[n].agree \in Nat /\ after.stats[n].total \in Nat
  BY <1>2, <1>3
<1> QED BY <1>4 DEF Counting

\* The scores the engine would compute now are integers.
ScoresAreNumbers ==
    \A p \in Probes : \A v \in Candidates(index, KeysOf[p]) \cap DOMAIN records :
        Score(Stored[p], Template(records[v]), frequency, agreement) \in Int

\* What the template of a record holds of a name, some probe stored.
LEMMA TemplatesAreStored ==
  ASSUME LibraryInv, NEW v \in DOMAIN records, NEW n \in DOMAIN Template(records[v])
  PROVE  \E q \in Probes : n \in DOMAIN Stored[q] /\ Template(records[v])[n] = Stored[q][n]
<1>1. MadeOf(records[v], absorbed[v]) /\ v \in Probes
  BY DEF LibraryInv, RecordIsItsObservations, TypeOK
<1>2. n \in DOMAIN records[v].template /\ Template(records[v])[n] = records[v].template[n].value
  BY DEF Template
<1>3. PICK o \in absorbed[v] :
         /\ n \in DOMAIN Stored[o.probe]
         /\ records[v].template[n] = [value |-> Stored[o.probe][n], fresh |-> o.at]
  BY <1>1, <1>2 DEF MadeOf
<1>4. o.probe \in Probes
  BY <1>1, <1>3 DEF LibraryInv, TypeOK
<1> QED BY <1>2, <1>3, <1>4

\* From tables that count, every candidate on record is scored by an integer: what
\* its template holds of a name is what some probe stored of it.
LEMMA CountingGivesNumbers ==
  ASSUME LibraryInv, Counting(frequency, agreement)
  PROVE  ScoresAreNumbers
<1> SUFFICES ASSUME NEW p \in Probes, NEW v \in DOMAIN records
             PROVE  Score(Stored[p], Template(records[v]), frequency, agreement) \in Int
  BY DEF ScoresAreNumbers
<1> DEFINE template == Template(records[v])
           names == ComparedNames(Stored[p], template)
<1>1. IsFiniteSet(names) /\ names \subseteq DOMAIN Stored[p] /\ names \subseteq DOMAIN template
  BY StoredFacts, FS_Intersection, FS_Subset DEF ComparedNames
<1>2. \A n \in DOMAIN template :
         \E q \in Probes : n \in DOMAIN Stored[q] /\ template[n] = Stored[q][n]
  BY TemplatesAreStored
<1> HIDE DEF template
<1>3. ASSUME NEW n \in names
      PROVE  WeightOf(n, Stored[p], template, frequency, agreement) \in Int
  <2>1. PICK q \in Probes : n \in DOMAIN Stored[q] /\ template[n] = Stored[q][n]
    BY <1>1, <1>2
  <2>2. /\ Stored[p][n].kind = "set" =>
               IsFiniteSet(Stored[p][n].of) /\ IsFiniteSet(template[n].of)
    BY <1>1, <2>1, StoredFacts
  <2>3. IsFraction(Similarity(Stored[p][n], template[n]))
    BY <2>2, SimilarityIsFraction
  <2> QED BY <2>3, EstimatesAreShares, WeightIsInteger DEF WeightOf
<1> QED BY <1>1, <1>3, ScoreOfNumbers DEF template

\* The engine's own tables do, at all times.
TablesCount == Counting(frequency, agreement)

\* They start empty, and every request leaves them counting.
LEMMA EngineCounts == ScoredSpec => []TablesCount
<1>1. ScoredInit => TablesCount
  BY DEF ScoredInit, NoFrequency, NoAgreement, TablesCount, Counting
<1>2. ASSUME TablesCount, LibraryInv, [ScoredNext]_engineVars
      PROVE  TablesCount'
  <2>1. ASSUME NEW h \in Handlers, NEW headers \in Headers, Match(h, headers)
        PROVE  TablesCount'
    <3> DEFINE p == waiting[h].probe
    <3>1. p \in Probes
      BY <1>2, <2>1 DEF Match, LibraryInv, TypeOK
    <3>2. \E template : agreement' \in Learnt(agreement, Stored[p], template)
      BY <2>1 DEF Match
    <3>3. frequency' \in Seen(frequency, Stored[p])
      BY <2>1 DEF Match
    <3> HIDE DEF p
    <3>4. Counting(frequency', agreement)
      BY <1>2, <3>1, <3>3, SeenCounts DEF TablesCount, Counting
    <3>5. Counting(frequency', agreement')
      BY <3>2, <3>4, LearntCounts
    <3> QED BY <3>5 DEF TablesCount, Counting
  <2>2. ASSUME NEW h \in Handlers, NEW headers \in Headers, Review(h, headers)
        PROVE  TablesCount'
    BY <1>2, <2>2 DEF Review, tables, TablesCount, Counting
  <2>3. ASSUME NEW h \in Handlers, NEW headers \in Headers, NewDevice(h, headers)
        PROVE  TablesCount'
    <3> DEFINE p == waiting[h].probe
    <3>1. p \in Probes
      BY <1>2, <2>3 DEF NewDevice, LibraryInv, TypeOK
    <3>2. frequency' \in Seen(frequency, Stored[p]) /\ agreement' = agreement
      BY <2>3 DEF NewDevice
    <3> HIDE DEF p
    <3> QED BY <1>2, <3>1, <3>2, SeenCounts DEF TablesCount, Counting
  <2>4. CASE Meanwhile \/ UNCHANGED engineVars
    BY <1>2, <2>4 DEF Meanwhile, engineVars, tables, TablesCount, Counting
  <2>5. CASE ScoredPurge \/ \E v \in Probes : ScoredErase(v)
    BY <1>2, <2>5 DEF ScoredPurge, ScoredErase, tables, TablesCount, Counting
  <2> QED BY <1>2, <2>1, <2>2, <2>3, <2>4, <2>5 DEF ScoredNext
<1> QED BY <1>1, <1>2, EngineKeepsLibraryInv, PTL DEF ScoredSpec

\* However long the engine learns, whomever it can compare it scores by a number: no
\* estimate comes to zero or to one, and no logarithm of either is taken.
THEOREM ScoresStayNumbers == ScoredSpec => []ScoresAreNumbers
<1>1. LibraryInv /\ TablesCount => ScoresAreNumbers
  BY CountingGivesNumbers DEF TablesCount
<1> QED BY <1>1, EngineCounts, EngineKeepsLibraryInv, PTL

---------------------------------------------------------------------------
\* Verdicts.

\* Two sets of components with no name in common score nothing.
LEMMA NothingComparedScoresZero ==
  ASSUME NEW probe, NEW template, NEW freq, NEW agr, ComparedNames(probe, template) = {}
  PROVE  Score(probe, template, freq, agr) = 0
<1> DEFINE weight(n) == AgreementWeight(MEstimate(agr, n), Rarity(freq, probe[n]),
                                        Similarity(probe[n], template[n]))
           pick(s) == CHOOSE x \in s : TRUE
           Is(g) == g = [s \in SUBSET {} |->
                            IF s = {} THEN 0 ELSE weight(pick(s)) + g[s \ {pick(s)}]]
           sum == CHOOSE g : Is(g)
<1>1. Score(probe, template, freq, agr) = sum[{}]
  BY DEF Score, MapThenSumSet, MapThenFoldSet
<1> HIDE DEF weight, pick
<1>2. Is([s \in SUBSET {} |-> 0])
  OBVIOUS
<1>3. Is(sum)
  <2> HIDE DEF Is
  <2> QED BY <1>2
<1> HIDE DEF sum
<1>4. sum[{}] = 0
  BY <1>3
<1> QED BY <1>1, <1>4

\* Only a score of T_LO at least is anything but a new device.
LEMMA LowScoresAreNew ==
  /\ Decided(NEG_INFINITY) = "new_device"
  /\ Decided(0) = "new_device"
  BY DEF Decided, NEG_INFINITY, T_HI, T_LO, Bit

\* A match or a review names a candidate on record with a component in common.
LEMMA VerdictNamesComparable ==
  ASSUME NEW p \in Probes, NEW o \in Verdicts(p), o.decision # "new_device"
  PROVE  o.visitor_id \in Comparable(p)
<1> DEFINE recalled == Candidates(index, KeysOf[p])
           score == [v \in recalled |->
                       IF v \in DOMAIN Templates
                       THEN Score(Stored[p], Templates[v], frequency, agreement)
                       ELSE NEG_INFINITY]
<1>1. \/ \E second, compared : o = OutcomeOf(p, p, NEG_INFINITY, second, compared)
      \/ \E v \in recalled : \E second, compared :
            o = OutcomeOf(v, p, score[v], second, compared)
  BY DEF Verdicts, Evaluated, Visitor
<1>2. \A v, best, second, compared :
         LET out == OutcomeOf(v, p, best, second, compared)
         IN  /\ out.decision = Decided(best)
             /\ out.decision # "new_device" => out.visitor_id = v
  BY DEF OutcomeOf
<1> HIDE DEF recalled, score
<1>3. PICK v \in recalled : Decided(score[v]) # "new_device" /\ o.visitor_id = v
  BY <1>1, <1>2, LowScoresAreNew
<1>4. score[v] # NEG_INFINITY /\ score[v] # 0
  BY <1>3, LowScoresAreNew
<1>5. v \in DOMAIN Templates
      /\ score[v] = Score(Stored[p], Templates[v], frequency, agreement)
  BY <1>3, <1>4 DEF score
<1>6. ComparedNames(Stored[p], Templates[v]) # {}
  BY <1>4, <1>5, NothingComparedScoresZero
<1>7. v \in DOMAIN records /\ DOMAIN Templates[v] = DOMAIN records[v].template
  BY <1>5 DEF Templates, Template
<1> QED BY <1>3, <1>6, <1>7 DEF recalled, Comparable, ComparedNames

\* Whatever the records, the tables and the scores, the engine answers a match or a
\* review only with a visitor on record it could compare the probe with.
THEOREM VerdictsAreAllowed == ScoredSpec => []VerdictIsAllowed
<1>1. VerdictIsAllowed
  BY VerdictNamesComparable DEF VerdictIsAllowed
<1> QED BY <1>1, PTL

---------------------------------------------------------------------------
\* Signals.

\* Where the edge adds nothing of its own, the two hosts read the same signals off
\* the same headers, whoever is trusted and whatever the probe claims.
THEOREM HostsReadTheSameSignals == ScoredSpec => []SignalsAgree
<1>1. SignalsAgree
  <2> SUFFICES ASSUME NEW headers \in Headers, NEW claimed
               PROVE  EdgeSignals(trusting, headers, NoEnrichment, claimed)
                          = NativeSignals(trusting, headers, claimed)
    BY DEF SignalsAgree
  <2>1. CASE trusting
    BY <2>1 DEF EdgeSignals, NativeSignals, PassiveSignals, NoEnrichment, Trusted
  <2>2. CASE ~trusting
    BY <2>2 DEF EdgeSignals, NativeSignals, PassiveSignals, Trusted, NoHeaders, Compute
  <2> QED BY <2>1, <2>2
<1> QED BY <1>1, PTL

\* A confidence is between none and full.
LEMMA ConfidenceIsClamped ==
  ASSUME NEW p \in Probes, NEW o \in Verdicts(p)
  PROVE  o.confidence \in 0..1000
<1>1. \E v, best, second, compared : o = OutcomeOf(v, p, best, second, compared)
  BY DEF Verdicts, Evaluated, Visitor
<1>2. \A x : ClampConfidence(x) \in 0..1000
  BY DEF ClampConfidence
<1>3. \A decision, best, second, compared :
         Confidence(decision, best, second, compared) \in 0..1000
  <2> TAKE decision, best, second, compared
  <2>1. \E x : Confidence(decision, best, second, compared) = ClampConfidence(x)
    BY DEF Confidence
  <2> QED BY <1>2, <2>1
<1> QED BY <1>1, <1>3 DEF OutcomeOf

\* Without headers and without a band no confidence is moved.
LEMMA NothingMovesConfidence ==
  ASSUME NEW c \in 0..1000, NEW ua
  PROVE  Fused(Penalised(c, "low"), Compute({}, {}, ua)) = c
<1>1. ConfidenceAdjustment(Compute({}, {}, ua)) = 0
  BY DEF ConfidenceAdjustment, Compute
<1>2. Penalised(c, "low") = c
  BY DEF Penalised
<1>3. c + 0 = c
  OBVIOUS
<1> QED BY <1>1, <1>2, <1>3 DEF Fused, ClampConfidence

\* Every answer of a step that gives one.
LEMMA AnswersGiven ==
  ASSUME NEW h \in Handlers, NEW headers \in Headers,
         Match(h, headers) \/ Review(h, headers) \/ NewDevice(h, headers)
  PROVE  \E o \in Verdicts(waiting[h].probe) : \E bands :
            Respond(waiting[h].probe, o, Trusted(trusting, headers), bands)
<1>1. CASE Match(h, headers)
  BY <1>1 DEF Match
<1>2. CASE Review(h, headers)
  BY <1>2 DEF Review
<1>3. CASE NewDevice(h, headers)
  BY <1>3 DEF NewDevice
<1> QED BY <1>1, <1>2, <1>3

\* On an origin that does not trust the edge's headers nothing a client writes into
\* them is counted, bands anybody, or moves the confidence of any answer.
THEOREM UntrustedHeadersAreNothing == ScoredSpec => []UntrustedHeadersCountForNothing
<1> DEFINE Counts == ~trusting => NothingIsCounted
           Moves == ~trusting => \A a \in answer : a.confidence = a.outcome.confidence
<1>1. ScoredInit => Moves
  BY DEF ScoredInit
<1>2. ASSUME Moves, Counts', LibraryInv, [ScoredNext]_engineVars
      PROVE  Moves'
  <2>1. ASSUME NEW h \in Handlers, NEW headers \in Headers,
               Match(h, headers) \/ Review(h, headers) \/ NewDevice(h, headers)
        PROVE  Moves'
    <3>1. waiting[h].probe \in Probes
      BY <1>2, <2>1 DEF Match, Review, NewDevice, LibraryInv, TypeOK
    <3>a. PICK o \in Verdicts(waiting[h].probe) :
             \E bands : Respond(waiting[h].probe, o, Trusted(trusting, headers), bands)
      BY <2>1, AnswersGiven
    <3>2. PICK bands : Respond(waiting[h].probe, o, Trusted(trusting, headers), bands)
      BY <3>a
    <3> DEFINE ua == {Markers[v] : v \in ClaimedUA(Raw[waiting[h].probe])}
               edge == Trusted(trusting, headers)
               signals == Compute(edge.ja4, edge.ip, ua)
    <3>3. /\ trusting' = trusting
          /\ \A a \in answer' :
                /\ a.bands = bands /\ a.outcome = o
                /\ a.confidence = Fused(Penalised(o.confidence, bands.ip), signals)
      BY <3>2 DEF Respond
    <3>4. SUFFICES ASSUME ~trusting, NEW a \in answer'
                   PROVE  a.confidence = a.outcome.confidence
      BY <3>3
    <3>5. bands.ip = "low"
      <4>1. ~trusting'
        BY <3>3, <3>4
      <4>2. NothingIsCounted'
        BY <1>2, <4>1
      <4>3. a.bands = NoBands
        BY <4>2 DEF NothingIsCounted
      <4>4. bands = NoBands
        BY <3>3, <4>3
      <4> QED BY <4>4 DEF NoBands
    <3>6. signals = Compute({}, {}, ua)
      BY <3>4 DEF Trusted, NoHeaders
    <3>7. o.confidence \in 0..1000
      BY <3>1, ConfidenceIsClamped
    <3> HIDE DEF signals, ua
    <3> QED BY <3>3, <3>5, <3>6, <3>7, NothingMovesConfidence
  <2>2. CASE Meanwhile \/ UNCHANGED engineVars
    BY <1>2, <2>2 DEF Meanwhile, engineVars
  <2>3. CASE ScoredPurge \/ \E v \in Probes : ScoredErase(v)
    BY <1>2, <2>3 DEF ScoredPurge, ScoredErase
  <2> QED BY <1>2, <2>1, <2>2, <2>3 DEF ScoredNext
<1>3. Counts /\ Moves => UntrustedHeadersCountForNothing
  BY DEF UntrustedHeadersCountForNothing
<1> QED BY <1>1, <1>2, <1>3, UntrustedIsNotCounted, EngineKeepsLibraryInv, PTL DEF ScoredSpec

---------------------------------------------------------------------------
\* Ties.

\* A finite set of integers has a greatest one, if it has any.
LEMMA FiniteSetsHaveAMax ==
  ASSUME NEW S, IsFiniteSet(S), S \subseteq Int, S # {}
  PROVE  Max(S) \in S /\ \A x \in S : Max(S) >= x
<1> DEFINE HasMax(T) == \E m \in T : \A x \in T : m >= x
           Good == {T \in SUBSET S : T = {} \/ HasMax(T)}
<1>1. ASSUME NEW T \in SUBSET S, \A e \in T : T \ {e} \in Good
      PROVE  T \in Good
  <2>1. SUFFICES ASSUME NEW e \in T PROVE HasMax(T)
    OBVIOUS
  <2>2. CASE T \ {e} = {}
    <3>1. T = {e} /\ e \in Int
      BY <2>2
    <3> QED BY <3>1
  <2>3. CASE T \ {e} # {}
    <3>1. PICK m \in T \ {e} : \A x \in T \ {e} : m >= x
      BY <1>1, <2>3
    <3>2. m \in Int /\ e \in Int /\ \A x \in T : x \in Int
      OBVIOUS
    <3>3. CASE m >= e
      <4>1. \A x \in T : m >= x
        BY <3>1, <3>3
      <4> QED BY <4>1
    <3>4. CASE ~(m >= e)
      <4>1. \A x \in T : e >= x
        BY <3>1, <3>2, <3>4
      <4> QED BY <4>1
    <3> QED BY <3>3, <3>4
  <2> QED BY <2>2, <2>3
<1>2. S \in Good
  <2> HIDE DEF Good
  <2> QED BY <1>1, SetInduction
<1>3. HasMax(S)
  BY <1>2
<1> QED BY <1>3 DEF Max

\* evaluate's scores of the recalled candidates of p, and the best of some of them.
Scored(p) ==
    [v \in Candidates(index, KeysOf[p]) |->
        IF v \in DOMAIN Templates THEN Score(Stored[p], Templates[v], frequency, agreement)
        ELSE NEG_INFINITY]

BestOf(p, vs) == Highest({Scored(p)[v] : v \in vs})

\* Every verdict is that of a best candidate, or of none.
LEMMA VerdictsAreOfBest ==
  ASSUME NEW p, NEW o \in Verdicts(p)
  PROVE  \/ /\ Candidates(index, KeysOf[p]) = {}
            /\ \E compared : o = OutcomeOf(p, p, NEG_INFINITY, NEG_INFINITY, compared)
         \/ \E v \in Candidates(index, KeysOf[p]) : \E compared :
               /\ Scored(p)[v] = BestOf(p, Candidates(index, KeysOf[p]))
               /\ o = OutcomeOf(v, p, Scored(p)[v],
                                BestOf(p, Candidates(index, KeysOf[p]) \ {v}), compared)
<1> QED BY DEF Verdicts, Evaluated, Scored, BestOf, Visitor

\* Every best candidate has a verdict.
LEMMA BestHaveVerdicts ==
  ASSUME NEW p, NEW v \in Candidates(index, KeysOf[p]),
         Scored(p)[v] = BestOf(p, Candidates(index, KeysOf[p]))
  PROVE  \E second, compared : OutcomeOf(v, p, Scored(p)[v], second, compared) \in Verdicts(p)
<1> QED BY DEF Verdicts, Evaluated, Scored, BestOf, Visitor

\* The best of some candidates is at least each of them.
LEMMA BestIsHighest ==
  ASSUME ScoresAreNumbers, IsFiniteSet(DOMAIN records), NEW p \in Probes,
         NEW vs \in SUBSET Candidates(index, KeysOf[p])
  PROVE  /\ BestOf(p, vs) \in Int
         /\ \A v \in vs : Scored(p)[v] \in Int /\ BestOf(p, vs) >= Scored(p)[v]
<1> DEFINE recalled == Candidates(index, KeysOf[p])
           kept == recalled \cap DOMAIN records
           score == Scored(p)
           all == {score[v] : v \in vs} \cup {NEG_INFINITY}
<1>1. \A v \in recalled : /\ score[v] \in Int
                          /\ v \in kept \/ score[v] = NEG_INFINITY
  BY DEF ScoresAreNumbers, Scored, Templates, NEG_INFINITY
<1>2. IsFiniteSet(kept) /\ BestOf(p, vs) = Max(all)
  BY FS_Subset DEF BestOf, Highest
<1> HIDE DEF recalled, score, kept
<1>3. IsFiniteSet({score[v] : v \in kept})
  <2> DEFINE scoring == [v \in kept |-> score[v]]
  <2>1. scoring \in Surjection(kept, {score[v] : v \in kept})
    BY DEF Surjection
  <2> QED BY <1>2, <2>1, FS_Surjection
<1>4. IsFiniteSet({score[v] : v \in kept} \cup {NEG_INFINITY})
  BY <1>3, FS_AddElement
<1>5. all \subseteq {score[v] : v \in kept} \cup {NEG_INFINITY}
  BY <1>1 DEF recalled
<1>6. IsFiniteSet(all) /\ all # {} /\ all \subseteq Int
  BY <1>1, <1>4, <1>5, FS_Subset DEF NEG_INFINITY, recalled
<1>7. Max(all) \in all /\ \A x \in all : Max(all) >= x
  BY <1>6, FiniteSetsHaveAMax
<1> QED BY <1>2, <1>6, <1>7 DEF score

\* What an outcome says of the score it is made from.
LEMMA OutcomesDecide ==
  ASSUME NEW v, NEW p, NEW best, NEW second, NEW compared,
         NEW out, out = OutcomeOf(v, p, best, second, compared)
  PROVE  /\ out.decision = Decided(best)
         /\ out.decision # "new_device" => out.visitor_id = v
         /\ out.collision_risk = Flagged(Decided(best), best, second)
<1> QED BY DEF OutcomeOf

\* A match or a review is the verdict of a best candidate.
LEMMA WinnersAreBest ==
  ASSUME NEW p, NEW o \in Verdicts(p), o.decision # "new_device"
  PROVE  \E v \in Candidates(index, KeysOf[p]) : \E second :
            /\ Scored(p)[v] = BestOf(p, Candidates(index, KeysOf[p]))
            /\ second = BestOf(p, Candidates(index, KeysOf[p]) \ {v})
            /\ o.visitor_id = v /\ o.decision = Decided(Scored(p)[v])
            /\ o.collision_risk = Flagged(Decided(Scored(p)[v]), Scored(p)[v], second)
<1>1. PICK v \in Candidates(index, KeysOf[p]) : \E compared :
         /\ Scored(p)[v] = BestOf(p, Candidates(index, KeysOf[p]))
         /\ o = OutcomeOf(v, p, Scored(p)[v],
                          BestOf(p, Candidates(index, KeysOf[p]) \ {v}), compared)
  BY VerdictsAreOfBest, OutcomesDecide, LowScoresAreNew
<1>2. PICK second : second = BestOf(p, Candidates(index, KeysOf[p]) \ {v})
  OBVIOUS
<1>3. /\ o.visitor_id = v /\ o.decision = Decided(Scored(p)[v])
      /\ o.collision_risk = Flagged(Decided(Scored(p)[v]), Scored(p)[v], second)
  BY <1>1, <1>2, OutcomesDecide
<1> QED BY <1>1, <1>2, <1>3

\* Of two visitors that could both be answered, neither leads by the gap.
LEMMA TieIsFlagged ==
  ASSUME ScoresAreNumbers, IsFiniteSet(DOMAIN records), NEW p \in Probes,
         NEW o \in Verdicts(p), o.decision = "match",
         NEW w \in Verdicts(p), w.visitor_id # o.visitor_id
  PROVE  o.collision_risk
<1> DEFINE recalled == Candidates(index, KeysOf[p])
           score == Scored(p)
<1>1. PICK v \in recalled :
         /\ o.visitor_id = v /\ Decided(score[v]) = "match" /\ score[v] = BestOf(p, recalled)
         /\ o.collision_risk
                = Flagged(Decided(score[v]), score[v], BestOf(p, recalled \ {v}))
  <2>1. o.decision # "new_device"
    OBVIOUS
  <2> QED BY <2>1, WinnersAreBest
<1>3. PICK x \in recalled : score[x] = score[v] /\ x # v
  <2>1. PICK x \in recalled : \E c :
           /\ score[x] = BestOf(p, recalled)
           /\ w = OutcomeOf(x, p, score[x], BestOf(p, recalled \ {x}), c)
    BY <1>1, VerdictsAreOfBest
  <2>2. w.visitor_id = x
    <3>1. Decided(score[x]) = "match"
      BY <1>1, <2>1
    <3> QED BY <2>1, <3>1, OutcomesDecide
  <2> QED BY <1>1, <2>1, <2>2
<1>4. /\ score[v] \in Int
      /\ BestOf(p, recalled \ {v}) \in Int /\ BestOf(p, recalled \ {v}) >= score[v]
  <2>1. recalled \in SUBSET recalled /\ recalled \ {v} \in SUBSET recalled
    OBVIOUS
  <2>2. score[v] \in Int
    BY <1>1, <2>1, BestIsHighest
  <2>3. BestOf(p, recalled \ {v}) \in Int /\ BestOf(p, recalled \ {v}) >= score[x]
    BY <1>3, <2>1, BestIsHighest
  <2> QED BY <1>3, <2>2, <2>3
<1> HIDE DEF recalled, score
<1>5. score[v] >= T_HI /\ T_HI \in Int
  BY <1>1, <1>4 DEF Decided, T_HI, T_LO, Bit
<1>6. BestOf(p, recalled \ {v}) >= T_HI /\ score[v] - BestOf(p, recalled \ {v}) < COLLISION_GAP
  BY <1>4, <1>5 DEF COLLISION_GAP, Bit
<1> QED BY <1>1, <1>6 DEF Flagged

\* A match that another visitor could as well have been answered is flagged, whichever
\* of them the order of a hash set picks.
THEOREM TiesAreNeverHidden == ScoredSpec => []TiesAreFlagged
<1>1. ScoredInit => TiesAreFlagged
  BY DEF ScoredInit, TiesAreFlagged
<1>2. ASSUME TiesAreFlagged, LibraryInv, ScoresAreNumbers, [ScoredNext]_engineVars
      PROVE  TiesAreFlagged'
  <2>1. ASSUME NEW h \in Handlers, NEW headers \in Headers,
               Match(h, headers) \/ Review(h, headers) \/ NewDevice(h, headers)
        PROVE  TiesAreFlagged'
    <3> DEFINE p == waiting[h].probe
    <3>1. p \in Probes /\ IsFiniteSet(DOMAIN records)
      BY <1>2, <2>1 DEF Match, Review, NewDevice, LibraryInv, TypeOK, FiniteHoldings
    <3>a. PICK o \in Verdicts(p) :
             \E bands : Respond(p, o, Trusted(trusting, headers), bands)
      BY <2>1, AnswersGiven
    <3>2. PICK bands : Respond(p, o, Trusted(trusting, headers), bands)
      BY <3>a
    <3>3. \A a \in answer' :
             a.outcome = o /\ a.winners = {w.visitor_id : w \in Verdicts(p)}
      BY <3>2 DEF Respond
    <3> HIDE DEF p
    <3>4. ASSUME NEW a \in answer', a.outcome.decision = "match",
                 a.winners # {a.outcome.visitor_id}
          PROVE  a.outcome.collision_risk
      <4>1. o.visitor_id \in a.winners /\ a.winners # {o.visitor_id}
        BY <3>3, <3>4
      <4>2. PICK w \in Verdicts(p) : w.visitor_id # o.visitor_id
        BY <3>3, <4>1
      <4>3. o.decision = "match"
        BY <3>3, <3>4
      <4>4. o.collision_risk
        BY <1>2, <3>1, <4>2, <4>3, TieIsFlagged
      <4> QED BY <3>3, <4>4
    <3> QED BY <3>4 DEF TiesAreFlagged
  <2>2. CASE Meanwhile \/ UNCHANGED engineVars
    BY <1>2, <2>2 DEF Meanwhile, engineVars, TiesAreFlagged
  <2>3. CASE ScoredPurge \/ \E v \in Probes : ScoredErase(v)
    BY <2>3 DEF ScoredPurge, ScoredErase, TiesAreFlagged
  <2> QED BY <1>2, <2>1, <2>2, <2>3 DEF ScoredNext
<1> QED BY <1>1, <1>2, EngineKeepsLibraryInv, ScoresStayNumbers, PTL DEF ScoredSpec

---------------------------------------------------------------------------
\* The same request again.

\* Sums of integers are integers, and any element may be taken out first.
LEMMA SumWithout ==
  ASSUME NEW w, NEW S, IsFiniteSet(S), \A x \in S : w[x] \in Int, NEW g, IsSum(g, w, S)
  PROVE  /\ \A T \in SUBSET S : g[T] \in Int
         /\ \A T \in SUBSET S : \A e \in T : g[T] = w[e] + g[T \ {e}]
<1> DEFINE Splits(U) == \A x \in U : g[U] = w[x] + g[U \ {x}]
           Good == {U \in SUBSET S : (\A R \in SUBSET U : g[R] \in Int) /\ Splits(U)}
<1>1. ASSUME NEW U \in SUBSET S, \A x \in U : U \ {x} \in Good
      PROVE  U \in Good
  <2>1. CASE U = {}
    <3>1. g[U] = 0
      BY <2>1, SumOfSet
    <3>2. \A R \in SUBSET U : g[R] \in Int
      BY <2>1, <3>1
    <3> QED BY <2>1, <3>2
  <2>2. CASE U # {}
    <3>1. PICK t \in U : g[U] = w[t] + g[U \ {t}]
      <4>1. Taken(U) \in U /\ g[U] = w[Taken(U)] + g[U \ {Taken(U)}]
        BY <2>2, SumOfSet
      <4> QED BY <4>1
    <3>2. ASSUME NEW x \in U
          PROVE  /\ \A R \in SUBSET (U \ {x}) : g[R] \in Int
                 /\ \A y \in U \ {x} : g[U \ {x}] = w[y] + g[(U \ {x}) \ {y}]
      BY <1>1
    <3>3. g[U] \in Int
      <4>1. w[t] \in Int /\ g[U \ {t}] \in Int
        BY <3>2
      <4> QED BY <3>1, <4>1
    <3>4. \A R \in SUBSET U : g[R] \in Int
      <4> SUFFICES ASSUME NEW R \in SUBSET U, R # U PROVE g[R] \in Int
        BY <3>3
      <4>1. PICK x \in U : R \in SUBSET (U \ {x})
        OBVIOUS
      <4> QED BY <3>2, <4>1
    <3>5. ASSUME NEW x \in U, x # t
          PROVE  g[U] = w[x] + g[U \ {x}]
      <4>1. PICK rest : rest = (U \ {t}) \ {x} /\ rest = (U \ {x}) \ {t}
        OBVIOUS
      <4>2. g[U \ {t}] = w[x] + g[rest] /\ g[U \ {x}] = w[t] + g[rest]
        BY <3>2, <3>5, <4>1
      <4>3. g[rest] \in Int /\ w[x] \in Int /\ w[t] \in Int
        BY <3>4, <4>1
      <4> QED BY <3>1, <4>2, <4>3
    <3> QED BY <3>1, <3>4, <3>5
  <2> QED BY <2>1, <2>2
<1>2. \A T \in SUBSET S : T \in Good
  <2> SUFFICES ASSUME NEW T \in SUBSET S PROVE T \in Good
    OBVIOUS
  <2>1. IsFiniteSet(T)
    BY FS_Subset
  <2> DEFINE Here == {U \in SUBSET T : U \in Good}
  <2>2. \A U \in SUBSET T : (\A x \in U : U \ {x} \in Here) => U \in Here
    BY <1>1
  <2> HIDE DEF Here
  <2>3. T \in Here
    BY <2>1, <2>2, SetInduction
  <2> QED BY <2>3 DEF Here
<1> QED BY <1>2

\* A sum over fewer elements, each of them less, is less.
LEMMA SumIsDominated ==
  ASSUME NEW S, IsFiniteSet(S), NEW N \in SUBSET S,
         NEW w, NEW g, IsSum(g, w, N), NEW x, NEW h, IsSum(h, x, S),
         \A n \in S : x[n] \in Nat, \A n \in N : w[n] \in Int /\ w[n] <= x[n]
  PROVE  g[N] \in Int /\ h[S] \in Nat /\ g[N] <= h[S]
<1>1. IsFiniteSet(N)
  BY FS_Subset
<1>2. /\ \A T \in SUBSET N : g[T] \in Int
      /\ \A T \in SUBSET N : \A e \in T : g[T] = w[e] + g[T \ {e}]
  BY <1>1, SumWithout
<1> DEFINE Good == {T \in SUBSET S : h[T] \in Nat /\ g[T \cap N] <= h[T]}
<1>3. ASSUME NEW T \in SUBSET S, \A e \in T : T \ {e} \in Good
      PROVE  T \in Good
  <2>1. CASE T = {}
    <3>1. h[T] = 0 /\ g[{}] = 0 /\ T \cap N = {}
      BY <2>1, SumOfSet
    <3> QED BY <3>1
  <2>2. CASE T # {}
    <3>1. PICK t \in T : h[T] = x[t] + h[T \ {t}]
      <4>1. Taken(T) \in T /\ h[T] = x[Taken(T)] + h[T \ {Taken(T)}]
        BY <2>2, SumOfSet
      <4> QED BY <4>1
    <3>2. h[T \ {t}] \in Nat /\ g[(T \ {t}) \cap N] <= h[T \ {t}] /\ x[t] \in Nat
      BY <1>3
    <3>3. CASE t \in N
      <4>1. g[T \cap N] = w[t] + g[(T \cap N) \ {t}]
        BY <1>2, <3>3
      <4>2. PICK rest \in SUBSET N : rest = (T \cap N) \ {t} /\ rest = (T \ {t}) \cap N
        OBVIOUS
      <4>3. g[rest] \in Int /\ w[t] \in Int /\ w[t] <= x[t]
        BY <1>2, <3>3
      <4> QED BY <3>1, <3>2, <4>1, <4>2, <4>3
    <3>4. CASE t \notin N
      <4>1. T \cap N = (T \ {t}) \cap N /\ g[T \cap N] \in Int
        BY <1>2, <3>4
      <4> QED BY <3>1, <3>2, <4>1
    <3> QED BY <3>3, <3>4
  <2> QED BY <2>1, <2>2
<1>4. S \in Good
  <2> HIDE DEF Good
  <2> QED BY <1>3, SetInduction
<1>5. S \cap N = N
  OBVIOUS
<1> QED BY <1>2, <1>4, <1>5

\* Where agreeing counts, nothing weighs more than agreement.
LEMMA AgreementWeighsMost ==
  ASSUME NEW m, IsShare(m), NEW u, IsShare(u), NEW s, IsFraction(s),
         AgreementWeight(m, u, <<1, 1>>) >= AgreementWeight(m, u, <<0, 1>>)
  PROVE  AgreementWeight(m, u, s) <= AgreementWeight(m, u, <<1, 1>>)
<1>1. PICK x \in Nat, y \in Nat \ {0} : x <= y /\ s = <<x, y>>
  BY DEF IsFraction
<1>2. PICK a \in Int, d \in Int :
         /\ AgreementWeight(m, u, s) = (x * a + (y - x) * d) \div y
         /\ AgreementWeight(m, u, <<1, 1>>) = (1 * a + (1 - 1) * d) \div 1
         /\ AgreementWeight(m, u, <<0, 1>>) = (0 * a + (1 - 0) * d) \div 1
  <2>1. /\ Log2Of(m) - Log2Of(u) \in Int
        /\ Log2Of(Complement(m)) - Log2Of(Complement(u)) \in Int
    BY SharesHaveLogs
  <2> QED BY <1>1, <2>1 DEF AgreementWeight
<1>3. AgreementWeight(m, u, <<1, 1>>) = a /\ d <= a
  <2>1. (1 * a + (1 - 1) * d) \div 1 = a /\ (0 * a + (1 - 0) * d) \div 1 = d
    OBVIOUS
  <2> QED BY <1>2, <2>1
<1>4. x * a + (y - x) * d <= a * y
  <2>1. \A c \in Nat : c * d <= c * a
    BY <1>3
  <2>2. y - x \in Nat
    BY <1>1
  <2>3. (y - x) * d <= (y - x) * a
    BY <2>1, <2>2
  <2>4. (y - x) * a = a * y - x * a
    OBVIOUS
  <2> QED BY <2>3, <2>4
<1>5. \A k \in Int : k <= a * y => k \div y <= a
  <2> SUFFICES ASSUME NEW k \in Int, k <= a * y PROVE k \div y <= a
    OBVIOUS
  <2>1. PICK q \in Int : q = k \div y /\ y * q <= k
    OBVIOUS
  <2>2. q > a => y * q >= a * y + y
    OBVIOUS
  <2> QED BY <2>1, <2>2
<1>6. x * a + (y - x) * d \in Int
  OBVIOUS
<1> QED BY <1>2, <1>3, <1>4, <1>5, <1>6

\* Two values that are the same agree.
LEMMA SameAgrees ==
  ASSUME NEW a, a.kind = "set" => IsFiniteSet(a.of)
  PROVE  Similarity(a, a) = <<1, 1>>
<1>1. CASE a.kind = "set" /\ a.of # {}
  <2>1. Cardinality(a.of) \in Nat /\ Jaccard(a.of, a.of) = <<Cardinality(a.of), Cardinality(a.of)>>
    BY <1>1, FS_CardinalityType DEF Jaccard
  <2> QED BY <1>1, <2>1 DEF Similarity
<1>2. CASE ~(a.kind = "set" /\ a.of # {})
  BY <1>2 DEF Similarity, Jaccard
<1> QED BY <1>1, <1>2

\* The record of v holds all that p stores, as p stores it.
HoldsAll(v, p) ==
    /\ v \in DOMAIN records
    /\ \A n \in DOMAIN Stored[p] :
          n \in DOMAIN records[v].template /\ records[v].template[n].value = Stored[p][n]

ScoreOf(p, v) == Score(Stored[p], Template(records[v]), frequency, agreement)

\* A score is the sum of the weights of what the record and the probe both have.
LEMMA ScoresSum ==
  ASSUME NEW p, NEW v, IsFiniteSet(ComparedNames(Stored[p], Template(records[v])))
  PROVE  \E w, g :
            /\ \A n \in ComparedNames(Stored[p], Template(records[v])) :
                  w[n] = WeightOf(n, Stored[p], Template(records[v]), frequency, agreement)
            /\ IsSum(g, w, ComparedNames(Stored[p], Template(records[v])))
            /\ ScoreOf(p, v) = g[ComparedNames(Stored[p], Template(records[v]))]
<1> QED BY ScoreIsSum DEF ScoreOf

\* Nobody on record scores more with a probe than one that holds all of it.
LEMMA WhoHoldsAllScoresMost ==
  ASSUME LibraryInv, TablesCount, NEW p \in Probes, AgreeingCounts(p),
         NEW v, HoldsAll(v, p), NEW y \in DOMAIN records
  PROVE  ScoreOf(p, y) \in Int /\ ScoreOf(p, v) \in Nat /\ ScoreOf(p, y) <= ScoreOf(p, v)
<1> DEFINE S == DOMAIN Stored[p]
           most(n) == AgreementWeight(MEstimate(agreement, n),
                                      Rarity(frequency, Stored[p][n]), <<1, 1>>)
           N == ComparedNames(Stored[p], Template(records[y]))
<1>1. /\ IsFiniteSet(S) /\ N \in SUBSET S /\ IsFiniteSet(N)
      /\ ComparedNames(Stored[p], Template(records[v])) = S
  BY StoredFacts, FS_Subset DEF ComparedNames, Template, HoldsAll
<1>2. ASSUME NEW n \in S
      PROVE  /\ most(n) \in Nat
             /\ WeightOf(n, Stored[p], Template(records[v]), frequency, agreement) = most(n)
  <2>1. Template(records[v])[n] = Stored[p][n]
    BY DEF HoldsAll, Template
  <2>2. Similarity(Stored[p][n], Stored[p][n]) = <<1, 1>>
    BY StoredFacts, SameAgrees
  <2>3. most(n) \in Int
    <3>1. IsFraction(<<1, 1>>)
      BY DEF IsFraction
    <3> QED BY <3>1, EstimatesAreShares, WeightIsInteger DEF TablesCount
  <2>4. most(n) >= 0
    BY DEF AgreeingCounts
  <2> QED BY <2>1, <2>2, <2>3, <2>4 DEF WeightOf
<1>3. ASSUME NEW n \in N
      PROVE  /\ WeightOf(n, Stored[p], Template(records[y]), frequency, agreement) \in Int
             /\ WeightOf(n, Stored[p], Template(records[y]), frequency, agreement) <= most(n)
  <2>1. n \in DOMAIN Template(records[y]) /\ n \in S
    BY DEF ComparedNames
  <2>2. PICK q \in Probes : n \in DOMAIN Stored[q] /\ Template(records[y])[n] = Stored[q][n]
    BY <2>1, TemplatesAreStored
  <2>3. Stored[p][n].kind = "set" =>
           IsFiniteSet(Stored[p][n].of) /\ IsFiniteSet(Template(records[y])[n].of)
    BY <2>1, <2>2, StoredFacts
  <2>4. IsFraction(Similarity(Stored[p][n], Template(records[y])[n]))
    BY <2>3, SimilarityIsFraction
  <2>5. /\ IsShare(MEstimate(agreement, n)) /\ IsShare(Rarity(frequency, Stored[p][n]))
    BY EstimatesAreShares DEF TablesCount
  <2>6. most(n) >= AgreementWeight(MEstimate(agreement, n),
                                   Rarity(frequency, Stored[p][n]), <<0, 1>>)
    BY <2>1 DEF AgreeingCounts
  <2> QED BY <2>4, <2>5, <2>6, WeightIsInteger, AgreementWeighsMost DEF WeightOf
<1>4. PICK x, h : /\ \A n \in S : x[n] = most(n)
                  /\ IsSum(h, x, S) /\ ScoreOf(p, v) = h[S]
  BY <1>1, <1>2, ScoreIsSum DEF ScoreOf
<1>5. PICK w, g : /\ \A n \in N : w[n] = WeightOf(n, Stored[p], Template(records[y]),
                                                 frequency, agreement)
                  /\ IsSum(g, w, N) /\ ScoreOf(p, y) = g[N]
  BY <1>1, ScoresSum
<1> HIDE DEF S, N, most
<1>6. (\A n \in S : x[n] \in Nat) /\ (\A n \in N : w[n] \in Int /\ w[n] <= x[n])
  BY <1>1, <1>2, <1>3, <1>4, <1>5
<1> QED BY <1>1, <1>4, <1>5, <1>6, SumIsDominated

\* A probe finds whoever holds all of it and is recalled for it.
LEMMA HolderIsFound ==
  ASSUME LibraryInv, TablesCount, ScoresAreNumbers, NEW p \in Probes, AgreeingCounts(p),
         NEW v \in Candidates(index, KeysOf[p]), HoldsAll(v, p)
  PROVE  FindsAgain(p, v)
<1> DEFINE recalled == Candidates(index, KeysOf[p])
           score == Scored(p)
           best == BestOf(p, recalled)
<1> SUFFICES ASSUME NEW o \in Verdicts(p), o.decision # "new_device"
             PROVE  /\ \E w \in Verdicts(p) : w.visitor_id = v
                    /\ o.visitor_id # v /\ o.decision = "match" => o.collision_risk
  BY DEF FindsAgain
<1>1. PICK y \in recalled : score[y] = best /\ o.decision = Decided(score[y])
  BY WinnersAreBest
<1>2. Decided(score[y]) # "new_device"
  BY <1>1
<1>3. y \in DOMAIN Templates /\ y \in DOMAIN records /\ v \in DOMAIN records
  <2>1. score[y] # NEG_INFINITY
    BY <1>2, LowScoresAreNew
  <2> QED BY <1>1, <2>1 DEF Scored, Templates, HoldsAll
<1>4. score[y] = ScoreOf(p, y) /\ score[v] = ScoreOf(p, v)
  BY <1>1, <1>3 DEF Scored, ScoreOf, Templates
<1>5. score[y] \in Int /\ score[v] \in Int /\ score[y] <= score[v]
  BY <1>3, <1>4, WhoHoldsAllScoresMost
<1>6. IsFiniteSet(DOMAIN records) /\ recalled \in SUBSET recalled
  BY DEF LibraryInv, FiniteHoldings
<1>7. best >= score[v]
  BY <1>6, BestIsHighest
<1>8. score[v] = score[y] /\ score[v] = best
  <2> HIDE DEF score, best
  <2> QED BY <1>1, <1>5, <1>7
<1>9. PICK w \in Verdicts(p) : \E second, compared :
         w = OutcomeOf(v, p, score[v], second, compared)
  BY <1>8, BestHaveVerdicts
<1>10. w.visitor_id = v
  BY <1>2, <1>8, <1>9, OutcomesDecide
<1> QED BY <1>6, <1>10, TieIsFlagged

\* The latest answer, unless it was a review, names a record that has observed its probe
\* and still holds all of it.
RemembersAnswer ==
    \A a \in answer : a.outcome.decision # "review" =>
        /\ a.probe \in Probes /\ HoldsAll(a.outcome.visitor_id, a.probe)
        /\ \E ob \in absorbed[a.outcome.visitor_id] : ob.probe = a.probe

\* An observation leaves all of its probe in the record it is folded into.
LEMMA ObserveHolds ==
  ASSUME LibraryInv, NEW v \in Probes, NEW p \in Probes, NEW now \in Nat,
         Observe(v, p, now)
  PROVE  HoldsAll(v, p)' /\ \E ob \in absorbed'[v] : ob.probe = p
<1>1. /\ v \in DOMAIN records'
      /\ records'[v] = Upsert(records, v, Stored[p], now)[v]
  BY ObserveTypes
<1>2. ASSUME NEW n \in DOMAIN Stored[p]
      PROVE  /\ n \in DOMAIN records'[v].template
             /\ records'[v].template[n].value = Stored[p][n]
  <2>1. /\ n \in DOMAIN records'[v].template
        /\ records'[v].template[n] = Stamp(Stored[p], now)[n]
    <3>1. CASE v \in DOMAIN records
      <4>1. records'[v] = Refreshed(records[v], Stored[p], now)
        BY <1>1, <3>1 DEF Upsert
      <4> QED BY <4>1 DEF Refreshed
    <3>2. CASE v \notin DOMAIN records
      <4>1. records'[v] = Born(Stored[p], now)
        BY <1>1, <3>2 DEF Upsert
      <4> QED BY <4>1 DEF Born, Stamp
    <3> QED BY <3>1, <3>2
  <2>2. Stamp(Stored[p], now)[n].value = Stored[p][n]
    BY DEF Stamp
  <2> QED BY <2>1, <2>2
<1>3. HoldsAll(v, p)'
  BY <1>1, <1>2 DEF HoldsAll
<1>4. absorbed'[v] = absorbed[v] \cup {[probe |-> p, at |-> now]}
  BY <1>1 DEF Observe
<1>5. [probe |-> p, at |-> now].probe = p
  OBVIOUS
<1> QED BY <1>3, <1>4, <1>5

\* Whatever became of the answer, it is remembered by the record that got it.
LEMMA AnswersAreRemembered == ScoredSpec => []RemembersAnswer
<1>1. ScoredInit => RemembersAnswer
  BY DEF ScoredInit, RemembersAnswer
<1>2. ASSUME RemembersAnswer, LibraryInv, [ScoredNext]_engineVars
      PROVE  RemembersAnswer'
  <2>1. ASSUME NEW p \in Probes, NEW now \in Nat, NEW o \in Verdicts(p),
               NEW edge, NEW bands, Respond(p, o, edge, bands),
               o.decision = "review" \/ (o.visitor_id \in Probes /\ Observe(o.visitor_id, p, now))
        PROVE  RemembersAnswer'
    <3>1. \A a \in answer' : a.probe = p /\ a.outcome = o
      BY <2>1 DEF Respond
    <3>2. o.decision # "review" =>
             HoldsAll(o.visitor_id, p)' /\ \E ob \in absorbed'[o.visitor_id] : ob.probe = p
      BY <1>2, <2>1, ObserveHolds
    <3> QED BY <3>1, <3>2 DEF RemembersAnswer, HoldsAll
  <2>2. ASSUME NEW h \in Handlers, NEW headers \in Headers,
               Match(h, headers) \/ Review(h, headers) \/ NewDevice(h, headers)
        PROVE  RemembersAnswer'
    <3>1. PICK p, now : p = waiting[h].probe /\ now = waiting[h].now
      OBVIOUS
    <3>2. p \in Probes /\ now \in Nat
      BY <1>2, <2>2, <3>1 DEF Match, Review, NewDevice, LibraryInv, TypeOK
    <3>3. PICK o \in Verdicts(p) :
             /\ \E edge, bands : Respond(p, o, edge, bands)
             /\ \/ o.decision = "review"
                \/ o.visitor_id \in Probes /\ Observe(o.visitor_id, p, now)
      <4>1. CASE Match(h, headers)
        <5>1. PICK o \in Verdicts(p) : /\ IdentifyMatch(h, o.visitor_id)
                                       /\ \E edge, bands : Respond(p, o, edge, bands)
          BY <3>1, <4>1 DEF Match
        <5>2. o.visitor_id \in Probes
          BY <1>2, <5>1, AnsweredAreObserved
        <5> QED BY <3>1, <5>1, <5>2 DEF IdentifyMatch
      <4>2. CASE Review(h, headers)
        BY <3>1, <4>2 DEF Review
      <4>3. CASE NewDevice(h, headers)
        <5>1. PICK o \in Verdicts(p) : /\ o.decision = "new_device" /\ IdentifyNew(h)
                                       /\ \E edge, bands : Respond(p, o, edge, bands)
          BY <3>1, <4>3 DEF NewDevice
        <5>2. o.visitor_id = p
          BY <3>2, <5>1, OutcomesName
        <5> QED BY <3>1, <3>2, <5>1, <5>2 DEF IdentifyNew, Visitor
      <4> QED BY <2>2, <4>1, <4>2, <4>3
    <3> QED BY <2>1, <3>2, <3>3
  <2>3. CASE ScoredPurge \/ \E v \in Probes : ScoredErase(v)
    BY <2>3 DEF ScoredPurge, ScoredErase, RemembersAnswer
  <2>4. CASE Meanwhile \/ UNCHANGED engineVars
    <3>1. UNCHANGED <<answer, records, absorbed>>
      BY <2>4 DEF Meanwhile, Tick, Arrive, SweepTick, library, engineVars, vars
    <3> QED BY <1>2, <3>1 DEF RemembersAnswer, HoldsAll
  <2> QED BY <1>2, <2>2, <2>3, <2>4 DEF ScoredNext
<1> QED BY <1>1, <1>2, EngineKeepsLibraryInv, PTL DEF ScoredSpec

\* However the first request changed what the second is scored with, it finds whom the
\* first was answered.
THEOREM RepeatsFindTheAnswered == ScoredSpec => []RepeatFindsAnswered
<1>1. LibraryInv /\ TablesCount /\ ScoresAreNumbers /\ RemembersAnswer => RepeatFindsAnswered
  <2> SUFFICES ASSUME LibraryInv, TablesCount, ScoresAreNumbers, RemembersAnswer,
                      NEW a \in answer, a.outcome.decision # "review",
                      NEW k \in KeysOf[a.probe], <<k, a.outcome.visitor_id>> \notin dropped,
                      AgreeingCounts(a.probe)
               PROVE  FindsAgain(a.probe, a.outcome.visitor_id)
    BY DEF RepeatFindsAnswered
  <2>1. PICK p, v : p = a.probe /\ v = a.outcome.visitor_id
    OBVIOUS
  <2>2. PICK ob \in absorbed[v] : ob.probe = p /\ p \in Probes /\ HoldsAll(v, p)
    BY <2>1 DEF RemembersAnswer
  <2>3. v \in Candidates(index, KeysOf[p])
    <3>1. v \in index[k]
      BY <2>1, <2>2 DEF LibraryInv, Recallable, HoldsAll
    <3> QED BY <2>1, <3>1 DEF Candidates
  <2> QED BY <2>1, <2>2, <2>3, HolderIsFound
<1> QED
  BY <1>1, EngineKeepsLibraryInv, EngineCounts, ScoresStayNumbers, AnswersAreRemembered, PTL

---------------------------------------------------------------------------
\* Types.

\* The engine answers at most one request at a time, with a known id and with a
\* confidence between none and full, whatever the signals and bands add or take.
THEOREM EngineIsTyped == ScoredSpec => []ScoredTypeOK
<1>1. ScoredInit => ScoredTypeOK
  BY DEF ScoredInit, NoReplay, ScoredTypeOK
<1>2. ASSUME ScoredTypeOK, LibraryInv, [ScoredNext]_engineVars
      PROVE  ScoredTypeOK'
  <2>1. ASSUME NEW h \in Handlers, NEW headers \in Headers,
               Match(h, headers) \/ Review(h, headers) \/ NewDevice(h, headers)
        PROVE  ScoredTypeOK'
    <3>1. PICK p, o, edge, bands :
            /\ p \in Probes /\ o \in Verdicts(waiting[h].probe)
            /\ p = waiting[h].probe
            /\ \/ IdentifyMatch(h, o.visitor_id)
               \/ IdentifyReview(h, o.visitor_id)
               \/ IdentifyNew(h) /\ o.visitor_id = p
            /\ Respond(p, o, edge, bands)
      BY <1>2, <2>1, AnswersOfEngine
    <3>2. o.visitor_id \in Probes
      BY <1>2, <3>1, AnsweredAreObserved
    <3>3. \A x, y : Fused(x, y) \in 0..1000
      BY DEF Fused, ClampConfidence
    <3> DEFINE base == Penalised(o.confidence, bands.ip)
               signals == Compute(edge.ja4, edge.ip, {Markers[v] : v \in ClaimedUA(Raw[p])})
               a == [probe |-> p, outcome |-> o, bands |-> bands,
                     confidence |-> Fused(base, signals),
                     winners |-> {w.visitor_id : w \in Verdicts(p)}]
    <3>4. answer' = {a}
      BY <3>1 DEF Respond
    <3>5. a.probe = p /\ a.outcome = o /\ a.confidence \in 0..1000
      BY <3>3
    <3> HIDE DEF a
    <3>6. /\ trusting' = trusting
          /\ DOMAIN replay'.owner = DOMAIN replay.owner \cup {o.visitor_id}
      BY <3>1 DEF Respond, Judged
    <3> QED BY <1>2, <3>1, <3>2, <3>4, <3>5, <3>6 DEF ScoredTypeOK
  <2>2. CASE Meanwhile \/ UNCHANGED engineVars
    BY <1>2, <2>2 DEF Meanwhile, engineVars, ScoredTypeOK
  <2>3. CASE ScoredPurge \/ \E v \in Probes : ScoredErase(v)
    BY <1>2, <2>3 DEF ScoredPurge, ScoredErase, ScoredTypeOK
  <2> QED BY <1>2, <2>1, <2>2, <2>3 DEF ScoredNext
<1> QED BY <1>1, <1>2, EngineKeepsLibraryInv, PTL DEF ScoredSpec

---------------------------------------------------------------------------
\* One table on two hosts.

\* Two finite sets with nothing in common have as many elements as both.
LEMMA DisjointUnion ==
  ASSUME NEW A, IsFiniteSet(A), NEW B, IsFiniteSet(B), A \cap B = {}
  PROVE  /\ IsFiniteSet(A \cup B)
         /\ Cardinality(A \cup B) = Cardinality(A) + Cardinality(B)
<1>1. Cardinality(A \cap B) = 0
  BY FS_EmptySet
<1> QED BY <1>1, FS_Union, FS_CardinalityType

\* A sum over nothing is zero, and over positive numbers it is zero only then.
LEMMA SumOfPositives ==
  ASSUME NEW f, NEW S, IsFiniteSet(S), \A x \in S : f[x] \in Nat \ {0}
  PROVE  SumOver(f, S) = 0 <=> S = {}
<1> DEFINE sum == CHOOSE g : IsSum(g, f, S)
           Good == {T \in SUBSET S : sum[T] \in Nat /\ (sum[T] = 0 <=> T = {})}
<1>1. SumOver(f, S) = sum[S]
  BY DEF SumOver, MapThenSumSet, MapThenFoldSet, IsSum, Taken
<1>2. IsSum(sum, f, S)
  BY SumExists
<1> HIDE DEF sum
<1>3. ASSUME NEW T \in SUBSET S, \A x \in T : T \ {x} \in Good
      PROVE  T \in Good
  <2>1. CASE T = {}
    <3>1. sum[T] = 0
      BY <1>2, <2>1, SumOfSet
    <3> QED BY <2>1, <3>1
  <2>2. CASE T # {}
    <3>1. Taken(T) \in T /\ sum[T] = f[Taken(T)] + sum[T \ {Taken(T)}]
      BY <1>2, <2>2, SumOfSet
    <3>2. T \ {Taken(T)} \in Good
      BY <1>3, <3>1, Zenon
    <3>3. sum[T \ {Taken(T)}] \in Nat /\ f[Taken(T)] \in Nat \ {0}
      BY <3>1, <3>2
    <3>4. sum[T] \in Nat \ {0}
      BY <3>1, <3>3
    <3> QED BY <2>2, <3>4
  <2> QED BY <2>1, <2>2
<1>4. S \in Good
  <2> HIDE DEF Good
  <2> QED BY <1>3, SetInduction
<1> QED BY <1>1, <1>4

\* The sightings of a probe are its scalar components, and every value sighted is
\* one's.
LEMMA SightingsAreScalars ==
  ASSUME NEW p \in Probes
  PROVE  /\ SumOver(Sightings(Stored[p]), DOMAIN Sightings(Stored[p]))
                = Cardinality(Scalars(Stored[p]))
         /\ \A x \in DOMAIN Sightings(Stored[p]) : Sightings(Stored[p])[x] \in Nat \ {0}
<1> DEFINE N == Scalars(Stored[p])
           of == [n \in N |-> Stored[p][n].of]
           S == {of[n] : n \in N}
           with(x) == {n \in N : of[n] = x}
           seen == Sightings(Stored[p])
<1>1. IsFiniteSet(N)
  <2>1. N \in SUBSET DOMAIN Stored[p]
    BY DEF Scalars
  <2> HIDE DEF N
  <2> QED BY <2>1, StoredFacts, FS_Subset
<1>2. seen = [x \in S |-> Cardinality(with(x))]
  BY DEF Sightings
<1>3. IsFiniteSet(DOMAIN seen) /\ DOMAIN seen = S
  BY <1>2, SightingsCount
<1> HIDE DEF N, of, seen
<1>4. ASSUME NEW x \in S
      PROVE  seen[x] \in Nat \ {0}
  <2>1. with(x) \in SUBSET N /\ with(x) # {}
    BY <1>4
  <2>2. IsFiniteSet(with(x)) /\ Cardinality(with(x)) \in Nat /\ Cardinality(with(x)) # 0
    <3> HIDE DEF with
    <3> QED BY <1>1, <2>1, FS_Subset, FS_CardinalityType, FS_EmptySet
  <2> QED BY <1>2, <2>2
<1> DEFINE sum == CHOOSE g : IsSum(g, seen, S)
           among(T) == {n \in N : of[n] \in T}
           Good == {T \in SUBSET S : sum[T] = Cardinality(among(T))}
<1>5. SumOver(seen, S) = sum[S]
  BY DEF SumOver, MapThenSumSet, MapThenFoldSet, IsSum, Taken
<1>6. IsSum(sum, seen, S)
  BY <1>3, SumExists
<1> HIDE DEF sum
<1>7. ASSUME NEW T \in SUBSET S, \A x \in T : T \ {x} \in Good
      PROVE  T \in Good
  <2>1. CASE T = {}
    <3>1. among(T) = {}
      BY <2>1
    <3>2. sum[T] = 0
      BY <1>6, <2>1, SumOfSet
    <3> QED BY <3>1, <3>2, FS_EmptySet
  <2>2. CASE T # {}
    <3>1. PICK x : x = Taken(T)
      OBVIOUS
    <3>2. x \in T /\ sum[T] = seen[x] + sum[T \ {x}]
      BY <1>6, <2>2, <3>1, SumOfSet
    <3>3. sum[T \ {x}] = Cardinality(among(T \ {x})) /\ seen[x] = Cardinality(with(x))
      BY <1>2, <1>7, <3>2
    <3>4. /\ among(T) = with(x) \cup among(T \ {x})
          /\ with(x) \cap among(T \ {x}) = {}
          /\ with(x) \in SUBSET N /\ among(T \ {x}) \in SUBSET N
      BY <3>2
    <3> HIDE DEF with, among
    <3>5. IsFiniteSet(with(x)) /\ IsFiniteSet(among(T \ {x}))
      BY <1>1, <3>4, FS_Subset
    <3>6. Cardinality(among(T)) = Cardinality(with(x)) + Cardinality(among(T \ {x}))
      BY <3>4, <3>5, DisjointUnion
    <3> QED BY <3>2, <3>3, <3>6
  <2> QED BY <2>1, <2>2
<1>8. S \in Good
  <2> HIDE DEF Good, S
  <2> QED BY <1>3, <1>7, SetInduction
<1>9. among(S) = N
  OBVIOUS
<1>10. SumOver(seen, S) = Cardinality(N)
  BY <1>5, <1>8, <1>9
<1> HIDE DEF S
<1>11. SumOver(seen, DOMAIN seen) = Cardinality(N) /\ \A x \in DOMAIN seen : seen[x] \in Nat \ {0}
  BY <1>3, <1>4, <1>10
<1> QED BY <1>11 DEF seen, N

\* The scalar fields of some probes' components, and those of one value.
Fields(T) == UNION {{v} \X Scalars(Stored[v]) : v \in T}

ValueOf(f) == Stored[f[1]][f[2]].of

Holding(T, x) == {f \in Fields(T) : ValueOf(f) = x}

\* The frequency table of probes observed once each, in whatever order.
Tally(T) ==
    [count |-> [x \in {ValueOf(f) : f \in Fields(T)} |-> Cardinality(Holding(T, x))],
     total |-> Cardinality(Fields(T)),
     dropped |-> 0]

\* An observation with room for all its values.
Adding(table, seen) == Sighted(table, seen, DOMAIN seen \ DOMAIN table.count)

\* One probe's fields are its scalar components, of the values it is sighted with.
LEMMA FieldsOfOne ==
  ASSUME NEW v \in Probes
  PROVE  /\ IsFiniteSet(Fields({v}))
         /\ Cardinality(Fields({v})) = Cardinality(Scalars(Stored[v]))
         /\ DOMAIN Sightings(Stored[v]) = {ValueOf(f) : f \in Fields({v})}
         /\ \A x \in DOMAIN Sightings(Stored[v]) :
               Sightings(Stored[v])[x] = Cardinality(Holding({v}, x))
<1> DEFINE N == Scalars(Stored[v])
           with(x) == {n \in N : Stored[v][n].of = x}
<1>1. IsFiniteSet(N)
  <2>1. N \in SUBSET DOMAIN Stored[v]
    BY DEF Scalars
  <2> HIDE DEF N
  <2> QED BY <2>1, StoredFacts, FS_Subset
<1>2. Sightings(Stored[v]) = [x \in {Stored[v][n].of : n \in N} |-> Cardinality(with(x))]
  BY DEF Sightings
<1> HIDE DEF N
<1>3. Fields({v}) = {v} \X N
  BY DEF Fields, N
<1>4. ASSUME NEW M \in SUBSET N
      PROVE  IsFiniteSet({v} \X M) /\ Cardinality({v} \X M) = Cardinality(M)
  <2> DEFINE f == [n \in M |-> <<v, n>>]
  <2>1. f \in Bijection(M, {v} \X M)
    <3>1. /\ f \in [M -> {v} \X M]
          /\ \A n, m \in M : f[n] = f[m] => n = m
      OBVIOUS
    <3>2. \A t \in {v} \X M : \E n \in M : f[n] = t
      OBVIOUS
    <3> HIDE DEF f
    <3> QED BY <3>1, <3>2 DEF Bijection, Injection, Surjection, IsInjective
  <2>2. IsFiniteSet(M)
    BY <1>1, FS_Subset
  <2>3. ExistsBijection(M, {v} \X M)
    BY <2>1 DEF ExistsBijection
  <2> HIDE DEF f
  <2> QED BY <2>2, <2>3, FS_Bijection
<1>5. \A x : Holding({v}, x) = {v} \X with(x)
  BY <1>3 DEF Holding, ValueOf
<1>6. \A x : Cardinality(Holding({v}, x)) = Cardinality(with(x))
  <2>1. \A x : with(x) \in SUBSET N
    OBVIOUS
  <2> HIDE DEF with
  <2> QED BY <1>4, <1>5, <2>1
<1>7. {ValueOf(f) : f \in Fields({v})} = {Stored[v][n].of : n \in N}
  <2>1. \A f \in Fields({v}) : \E n \in N : f = <<v, n>>
    BY <1>3
  <2>2. \A n \in N : <<v, n>> \in Fields({v})
    BY <1>3
  <2>3. \A n \in N : ValueOf(<<v, n>>) = Stored[v][n].of
    BY DEF ValueOf
  <2> QED BY <2>1, <2>2, <2>3
<1>8. IsFiniteSet(Fields({v})) /\ Cardinality(Fields({v})) = Cardinality(N)
  BY <1>3, <1>4
<1> HIDE DEF with
<1> DEFINE S == {ValueOf(f) : f \in Fields({v})}
<1>9. Sightings(Stored[v]) = [x \in S |-> Cardinality(with(x))]
  BY <1>2, <1>7
<1> HIDE DEF S
<1>10. /\ DOMAIN Sightings(Stored[v]) = S
       /\ \A x \in DOMAIN Sightings(Stored[v]) :
               Sightings(Stored[v])[x] = Cardinality(Holding({v}, x))
  BY <1>6, <1>9
<1> QED BY <1>8, <1>10 DEF N, S

\* Finitely many probes have finitely many fields.
LEMMA FieldsAreFinite ==
  ASSUME NEW T \in SUBSET Probes, IsFiniteSet(T)
  PROVE  IsFiniteSet(Fields(T))
<1> DEFINE Good == {U \in SUBSET T : IsFiniteSet(Fields(U))}
<1>1. ASSUME NEW U \in SUBSET T, \A v \in U : U \ {v} \in Good
      PROVE  U \in Good
  <2>1. CASE U = {}
    <3>1. Fields(U) = {}
      BY <2>1 DEF Fields
    <3> QED BY <3>1, FS_EmptySet
  <2>2. CASE U # {}
    <3>1. PICK v \in U : TRUE
      BY <2>2
    <3>2. Fields(U) = Fields(U \ {v}) \cup Fields({v})
      BY <3>1 DEF Fields
    <3>3. IsFiniteSet(Fields(U \ {v})) /\ IsFiniteSet(Fields({v}))
      BY <1>1, <3>1, FieldsOfOne
    <3>4. IsFiniteSet(Fields(U \ {v}) \cup Fields({v}))
      BY ONLY <3>3, FS_Union
    <3> QED BY ONLY <3>2, <3>4
  <2> QED BY <2>1, <2>2
<1>2. T \in Good
  <2> HIDE DEF Good
  <2> QED BY <1>1, SetInduction
<1> QED BY <1>2

\* Observing one probe more leaves the table of one probe more.
LEMMA TallyGrows ==
  ASSUME NEW T \in SUBSET Probes, IsFiniteSet(T), NEW v \in Probes \ T
  PROVE  Adding(Tally(T), Sightings(Stored[v])) = Tally(T \cup {v})
<1> DEFINE seen == Sightings(Stored[v])
           old == {ValueOf(f) : f \in Fields(T)}
           all == T \cup {v}
<1>1. /\ Fields(all) = Fields(T) \cup Fields({v})
      /\ Fields(T) \cap Fields({v}) = {}
  BY DEF Fields
<1>2. IsFiniteSet(Fields(T)) /\ IsFiniteSet(Fields({v}))
  BY FieldsAreFinite, FieldsOfOne
<1>3. Cardinality(Fields(all)) = Cardinality(Fields(T)) + SumOver(seen, DOMAIN seen)
  <2>1. Cardinality(Fields(all)) = Cardinality(Fields(T)) + Cardinality(Fields({v}))
    <3> HIDE DEF all
    <3> QED BY <1>1, <1>2, DisjointUnion
  <2> QED BY <2>1, FieldsOfOne, SightingsAreScalars
<1>4. {ValueOf(f) : f \in Fields(all)} = old \cup DOMAIN seen
  <2>1. DOMAIN seen = {ValueOf(f) : f \in Fields({v})}
    BY FieldsOfOne
  <2> HIDE DEF seen, all
  <2> QED BY <1>1, <2>1
<1>5. ASSUME NEW x
      PROVE  Cardinality(Holding(all, x))
                 = (IF x \in old THEN Cardinality(Holding(T, x)) ELSE 0)
                   + (IF x \in DOMAIN seen THEN seen[x] ELSE 0)
  <2>1. /\ Holding(all, x) = Holding(T, x) \cup Holding({v}, x)
        /\ Holding(T, x) \cap Holding({v}, x) = {}
        /\ Holding(T, x) \in SUBSET Fields(T)
        /\ Holding({v}, x) \in SUBSET Fields({v})
    BY <1>1 DEF Holding
  <2>2. /\ IsFiniteSet(Holding(T, x)) /\ IsFiniteSet(Holding({v}, x))
        /\ Cardinality(Holding(all, x))
               = Cardinality(Holding(T, x)) + Cardinality(Holding({v}, x))
    BY <1>2, <2>1, FS_Subset, DisjointUnion
  <2>3. x \notin old => Holding(T, x) = {}
    BY DEF Holding
  <2>4. x \notin DOMAIN seen => Holding({v}, x) = {}
    BY FieldsOfOne DEF Holding
  <2>5. x \in DOMAIN seen => seen[x] = Cardinality(Holding({v}, x))
    BY FieldsOfOne
  <2> HIDE DEF seen, old, all
  <2> QED BY <2>2, <2>3, <2>4, <2>5, FS_EmptySet
<1>6. /\ Tally(T).count = [x \in old |-> Cardinality(Holding(T, x))]
      /\ Tally(T).total = Cardinality(Fields(T)) /\ Tally(T).dropped = 0
      /\ DOMAIN Tally(T).count = old
  BY DEF Tally
<1>7. /\ SumOver(seen, {}) = 0
      /\ (DOMAIN seen) \cap (old \cup ((DOMAIN seen) \ old)) = DOMAIN seen
      /\ (DOMAIN seen) \ (old \cup ((DOMAIN seen) \ old)) = {}
      /\ old \cup ((DOMAIN seen) \ old) = old \cup DOMAIN seen
  BY SumOfPositives, FS_EmptySet
<1>8. Adding(Tally(T), seen) =
         [count |-> [x \in old \cup DOMAIN seen |->
                       (IF x \in old THEN Cardinality(Holding(T, x)) ELSE 0)
                       + (IF x \in DOMAIN seen THEN seen[x] ELSE 0)],
          total |-> Cardinality(Fields(T)) + SumOver(seen, DOMAIN seen),
          dropped |-> 0]
  <2> HIDE DEF seen, old
  <2> QED BY <1>6, <1>7 DEF Adding, Sighted
<1>9. Tally(all) =
         [count |-> [x \in old \cup DOMAIN seen |-> Cardinality(Holding(all, x))],
          total |-> Cardinality(Fields(all)), dropped |-> 0]
  BY <1>4 DEF Tally
<1> HIDE DEF seen, old, all
<1> QED BY <1>3, <1>5, <1>8, <1>9 DEF all, seen

\* Nobody observed, nothing counted.
LEMMA NobodyTallied == Tally({}) = NoFrequency
<1>1. Fields({}) = {}
  BY DEF Fields
<1> DEFINE none == {ValueOf(f) : f \in Fields({})}
<1>2. none = {} /\ Cardinality(Fields({})) = 0
  BY <1>1, FS_EmptySet
<1>3. Tally({}) = [count |-> [x \in none |-> Cardinality(Holding({}, x))],
                   total |-> 0, dropped |-> 0]
  BY <1>2 DEF Tally
<1> HIDE DEF none
<1>4. [x \in none |-> Cardinality(Holding({}, x))] = [x \in {} |-> 0]
  BY <1>2
<1> QED BY <1>3, <1>4 DEF NoFrequency

\* The edge's transient store, over templates that are as probes stored them, counts
\* what the probes hold, in whatever order it takes them.
LEMMA EdgeTallies ==
  ASSUME NEW D \in SUBSET Probes, IsFiniteSet(D), NEW templates,
         templates = [v \in D |-> Stored[v]]
  PROVE  Observing(NoFrequency, templates) = Tally(D)
<1> DEFINE add(v, t) == Adding(t, Sightings(templates[v]))
           Is(g) == g = [s \in SUBSET D |-> IF s = {} THEN NoFrequency
                                            ELSE add(Taken(s), g[s \ {Taken(s)}])]
           fold == CHOOSE g : Is(g)
           tally == [s \in SUBSET D |-> Tally(s)]
<1>1. Observing(NoFrequency, templates) = fold[D]
  BY DEF Observing, FoldSet, MapThenFoldSet, Adding, Taken
<1>2. ASSUME NEW s \in SUBSET D
      PROVE  Tally(s) = IF s = {} THEN NoFrequency
                        ELSE add(Taken(s), tally[s \ {Taken(s)}])
  <2>1. CASE s = {}
    BY <2>1, NobodyTallied
  <2>2. CASE s # {}
    <3>1. PICK v : v = Taken(s)
      OBVIOUS
    <3>2. v \in s
      BY <2>2, <3>1 DEF Taken
    <3>3. /\ s \ {v} \in SUBSET D /\ s \ {v} \in SUBSET Probes
          /\ v \in Probes \ (s \ {v}) /\ (s \ {v}) \cup {v} = s
          /\ templates[v] = Stored[v]
      BY <3>2
    <3>4. tally[s \ {v}] = Tally(s \ {v}) /\ IsFiniteSet(s \ {v})
      BY <3>3, FS_Subset
    <3>5. Adding(Tally(s \ {v}), Sightings(Stored[v])) = Tally(s)
      BY <3>3, <3>4, TallyGrows
    <3>6. add(v, tally[s \ {v}]) = Tally(s)
      BY <3>3, <3>4, <3>5
    <3> HIDE DEF add, tally
    <3> QED BY <2>2, <3>1, <3>6
  <2> HIDE DEF add, tally
  <2> QED BY <2>1, <2>2
<1>3. Is(tally)
  <2>1. tally = [s \in SUBSET D |-> tally[s]] /\ \A s \in SUBSET D : tally[s] = Tally(s)
    OBVIOUS
  <2> HIDE DEF add, tally
  <2> QED BY <1>2, <2>1
<1>4. Is(fold)
  <2> HIDE DEF Is
  <2> QED BY <1>3
<1> HIDE DEF fold
<1>5. ASSUME NEW s \in SUBSET D
      PROVE  fold[s] = IF s = {} THEN NoFrequency
                       ELSE add(Taken(s), fold[s \ {Taken(s)}])
  <2> HIDE DEF add
  <2> QED BY <1>4, Zenon
<1> DEFINE Good == {s \in SUBSET D : fold[s] = Tally(s)}
<1>6. ASSUME NEW s \in SUBSET D, \A v \in s : s \ {v} \in Good
      PROVE  s \in Good
  <2>1. CASE s = {}
    BY <1>5, <2>1, NobodyTallied
  <2>2. CASE s # {}
    <3>1. PICK v : v = Taken(s)
      OBVIOUS
    <3>2. v \in s
      BY <2>2, <3>1 DEF Taken
    <3>3. fold[s \ {v}] = Tally(s \ {v}) /\ tally[s \ {v}] = Tally(s \ {v})
      BY <1>6, <3>2
    <3> HIDE DEF add, tally
    <3>4. fold[s] = add(v, fold[s \ {v}]) /\ Tally(s) = add(v, tally[s \ {v}])
      BY <1>2, <1>5, <2>2, <3>1
    <3> QED BY <3>3, <3>4
  <2> QED BY <2>1, <2>2
<1>7. D \in Good
  <2> HIDE DEF Good
  <2> QED BY <1>6, SetInduction
<1> QED BY <1>1, <1>7

\* A table that has never dropped a sighting had room for all of the latest.
LEMMA SeenWhole ==
  ASSUME NEW p \in Probes, NEW table, table.dropped \in Nat,
         NEW after \in Seen(table, Stored[p]), after.dropped = 0
  PROVE  table.dropped = 0 /\ after = Adding(table, Sightings(Stored[p]))
<1> DEFINE seen == Sightings(Stored[p])
           new == DOMAIN seen \ DOMAIN table.count
<1>1. PICK kept \in Admitted(DOMAIN table.count, new, MaxFrequencyValues) :
         after = Sighted(table, seen, kept)
  BY DEF Seen
<1>2. kept \in SUBSET new
  BY <1>1 DEF Admitted, kSubset
<1> DEFINE lost == DOMAIN seen \ (DOMAIN table.count \cup kept)
<1>3. after.dropped = table.dropped + SumOver(seen, lost)
  BY <1>1 DEF Sighted
<1>4. lost \in SUBSET DOMAIN seen
  OBVIOUS
<1>5. IsFiniteSet(DOMAIN seen) /\ \A x \in DOMAIN seen : seen[x] \in Nat \ {0}
  BY SightingsCount, SightingsAreScalars
<1>6. lost = {} /\ table.dropped = 0
  <2> HIDE DEF seen, lost
  <2>1. IsFiniteSet(lost) /\ \A x \in lost : seen[x] \in Nat \ {0} /\ seen[x] \in Nat
    BY <1>4, <1>5, FS_Subset
  <2>2. SumOver(seen, lost) \in Nat
    BY <2>1, SumIsNatural
  <2>3. SumOver(seen, lost) = 0 /\ table.dropped = 0
    BY <1>3, <2>2
  <2> QED BY <2>1, <2>3, SumOfPositives
<1>7. kept = new
  BY <1>2, <1>6
<1> QED BY <1>1, <1>6, <1>7 DEF Adding

\* What a library that has learnt nothing yet holds: every record as its probe was
\* stored, every block those on record it is a key of, and their tally.
AsMinted ==
    /\ \A v \in DOMAIN records : Template(records[v]) = Stored[v]
    /\ \A k \in Keys : \A v \in index[k] : v \in DOMAIN records /\ k \in KeysOf[v]
    /\ frequency = Tally(DOMAIN records)

ColdHoldsMints == Cold => AsMinted

\* Nothing is lost by a library whose records are as many as were created.
LEMMA ColdKeepsAll ==
  ASSUME LibraryInv', Cold'
  PROVE  evicted' = 0 /\ ledger'.forgotten = 0
<1>1. /\ ledger'.created = Cardinality(DOMAIN records') + evicted' + ledger'.forgotten
      /\ IsFiniteSet(DOMAIN records') /\ evicted' \in Nat
  BY DEF LibraryInv, EvictionsAreCounted, FiniteHoldings, TypeOK
<1>2. Cardinality(DOMAIN records') \in Nat
  BY <1>1, FS_CardinalityType
<1>3. ledger'.created = Cardinality(DOMAIN records') /\ ledger'.forgotten = 0
  BY DEF Cold
<1> QED BY <1>1, <1>2, <1>3

\* Records that are all that were created are a cold library's.
LEMMA FullIsCreated ==
  ASSUME LibraryInv, evicted = 0, ledger.forgotten = 0
  PROVE  ledger = [created |-> Cardinality(DOMAIN records), forgotten |-> 0]
<1>1. /\ ledger.created = Cardinality(DOMAIN records) + evicted + ledger.forgotten
      /\ IsFiniteSet(DOMAIN records) /\ ledger \in [created : Nat, forgotten : Nat]
  BY DEF LibraryInv, EvictionsAreCounted, FiniteHoldings, TypeOK
<1>2. Cardinality(DOMAIN records) \in Nat
  BY <1>1, FS_CardinalityType
<1>3. ledger.created = Cardinality(DOMAIN records)
  BY <1>1, <1>2
<1> QED BY <1>1, <1>3

\* A match counts a second observation.
LEMMA MatchWarms ==
  ASSUME LibraryInv, NEW h \in Handlers, NEW v, IdentifyMatch(h, v)
  PROVE  ~Cold'
<1>1. /\ v \in DOMAIN records /\ v \in Probes /\ waiting[h].probe \in Probes
      /\ waiting[h].now \in Nat /\ records[v].observation_count \in Nat \ {0}
  BY DEF IdentifyMatch, Comparable, LibraryInv, TypeOK, IsRecord
<1>2. /\ v \in DOMAIN records'
      /\ records'[v] = Upsert(records, v, Stored[waiting[h].probe], waiting[h].now)[v]
  BY <1>1, ObserveTypes DEF IdentifyMatch
<1>3. records'[v].observation_count = records[v].observation_count + 1
  BY <1>1, <1>2 DEF Upsert, Refreshed
<1> QED BY <1>1, <1>2, <1>3 DEF Cold

\* A mint that leaves the library cold found it cold, and is one record more.
LEMMA MintKeepsCold ==
  ASSUME LibraryInv, LibraryInv', TablesCount, Cold',
         NEW h \in Handlers, NEW headers \in Headers, NewDevice(h, headers)
  PROVE  Cold /\ (AsMinted => AsMinted')
<1> DEFINE p == waiting[h].probe
           now == waiting[h].now
<1>1. /\ p \in Probes /\ now \in Nat
      /\ DOMAIN records \subseteq Probes /\ evicted \in Nat
      /\ \A v \in DOMAIN records : records[v].observation_count \in Nat \ {0}
      /\ index \in [Keys -> SUBSET Probes]
      /\ ledger \in [created : Nat, forgotten : Nat]
      /\ IsFiniteSet(DOMAIN records)
  BY DEF NewDevice, LibraryInv, TypeOK, IsRecord, FiniteHoldings
<1>2. /\ Observe(p, p, now) /\ ledger'.forgotten = ledger.forgotten
      /\ frequency' \in Seen(frequency, Stored[p]) /\ agreement' = agreement
  BY <1>1 DEF NewDevice, IdentifyNew, Visitor
<1> HIDE DEF p, now
<1>3. /\ DOMAIN records' \subseteq DOMAIN records \cup {p}
      /\ \A v \in DOMAIN records' : records'[v] = Upsert(records, p, Stored[p], now)[v]
      /\ p \in DOMAIN records'
  BY <1>1, <1>2, ObserveTypes
<1>4. \A v \in DOMAIN records' : records'[v].observation_count = 1
  BY DEF Cold
<1>5. p \notin DOMAIN records
  <2> SUFFICES ASSUME p \in DOMAIN records PROVE FALSE
    OBVIOUS
  <2>1. records'[p].observation_count = records[p].observation_count + 1
    <3>1. Upsert(records, p, Stored[p], now)[p] = Refreshed(records[p], Stored[p], now)
      BY DEF Upsert
    <3> QED BY <1>3, <3>1 DEF Refreshed
  <2> QED BY <1>1, <1>3, <1>4, <2>1
<1>6. evicted' = 0 /\ ledger'.forgotten = 0
  BY ColdKeepsAll
<1>7. evicted = 0 /\ DOMAIN records' = DOMAIN records \cup {p}
  <2> DEFINE gone == (DOMAIN records \cup {p}) \ DOMAIN records'
  <2>1. evicted' = evicted + Cardinality(gone)
    BY <1>2 DEF Observe, Gone
  <2>2. IsFiniteSet(DOMAIN records \cup {p}) /\ gone \in SUBSET (DOMAIN records \cup {p})
    BY <1>1, FS_AddElement
  <2>3. IsFiniteSet(gone)
    BY <2>2, FS_Subset
  <2> HIDE DEF gone
  <2>4. evicted = 0 /\ Cardinality(gone) = 0
    BY <1>1, <1>6, <2>1, <2>3, FS_CardinalityType
  <2>5. gone = {}
    BY <2>3, <2>4, FS_EmptySet
  <2> QED BY <1>3, <2>4, <2>5 DEF gone
<1>8. /\ \A v \in DOMAIN records : records'[v] = records[v]
      /\ records'[p] = Born(Stored[p], now)
  BY <1>3, <1>5, <1>7 DEF Upsert
<1>9. frequency.dropped = 0 /\ frequency' = Adding(frequency, Sightings(Stored[p]))
  <2>1. frequency'.dropped = 0 /\ frequency.dropped \in Nat
    BY DEF Cold, TablesCount, Counting
  <2> QED BY <1>1, <1>2, <2>1, SeenWhole
<1>10. Cold
  <2>1. ledger = [created |-> Cardinality(DOMAIN records), forgotten |-> 0]
    BY <1>2, <1>6, <1>7, FullIsCreated
  <2>2. \A v \in DOMAIN records : records[v].observation_count = 1
    BY <1>4, <1>7, <1>8
  <2>3. agreement = NoAgreement
    BY <1>2 DEF Cold
  <2> QED BY <1>9, <2>1, <2>2, <2>3 DEF Cold
<1>11. ASSUME AsMinted
       PROVE  AsMinted'
  <2>1. ASSUME NEW v \in DOMAIN records'
        PROVE  Template(records'[v]) = Stored[v]
    <3>1. CASE v = p
      <4>1. Stored[p] = [n \in DOMAIN Stored[p] |-> Stored[p][n]]
        BY <1>1, LibraryAssumption
      <4> QED BY <1>8, <3>1, <4>1 DEF Template, Born, Stamp
    <3>2. CASE v # p
      BY <1>7, <1>8, <1>11, <3>2 DEF AsMinted
    <3> QED BY <3>1, <3>2
  <2>2. ASSUME NEW k \in Keys, NEW v \in index'[k]
        PROVE  v \in DOMAIN records' /\ k \in KeysOf[v]
    <3>1. index' = InsertAll(index, KeysOf[p], p)
      BY <1>2 DEF Observe
    <3>2. v \in index[k] \/ (v = p /\ k \in KeysOf[p])
      BY <3>1 DEF InsertAll
    <3> QED BY <1>7, <1>11, <3>2 DEF AsMinted
  <2>3. frequency' = Tally(DOMAIN records')
    <3>1. frequency = Tally(DOMAIN records)
      BY <1>11 DEF AsMinted
    <3> QED BY <1>1, <1>5, <1>7, <1>9, <3>1, TallyGrows
  <2> QED BY <2>1, <2>2, <2>3 DEF AsMinted
<1> QED BY <1>10, <1>11

\* An erasure or a purge that leaves the library cold found nothing to take.
LEMMA LossKeepsCold ==
  ASSUME LibraryInv, LibraryInv', Cold',
         ScoredPurge \/ \E v \in Probes : ScoredErase(v)
  PROVE  Cold /\ (AsMinted => AsMinted')
<1>1. /\ evicted \in Nat /\ ledger \in [created : Nat, forgotten : Nat]
      /\ records = [v \in DOMAIN records |-> records[v]]
      /\ index \in [Keys -> SUBSET Probes] /\ IsFiniteSet(DOMAIN records)
  BY DEF LibraryInv, TypeOK, FiniteHoldings
<1>2. evicted' = 0 /\ ledger'.forgotten = 0
  BY ColdKeepsAll
<1>3. agreement' = agreement /\ frequency' = frequency
  BY DEF ScoredPurge, ScoredErase, tables
<1>4. /\ records' = records /\ evicted = 0 /\ ledger.forgotten = 0
      /\ \A k \in Keys : index'[k] \subseteq index[k]
  <2>1. CASE ScoredPurge
    <3>1. PICK t : /\ records' = Purged(records, t, Retention)
                   /\ evicted' = evicted + Gone(DOMAIN records, DOMAIN records')
                   /\ UNCHANGED <<index, ledger>>
      BY <2>1 DEF ScoredPurge, Purge
    <3> DEFINE gone == DOMAIN records \ DOMAIN records'
    <3>2. gone \in SUBSET DOMAIN records
      OBVIOUS
    <3>3. IsFiniteSet(gone) /\ evicted' = evicted + Cardinality(gone)
      BY <1>1, <3>1, <3>2, FS_Subset DEF Gone
    <3> HIDE DEF gone
    <3>4. evicted = 0 /\ Cardinality(gone) = 0
      BY <1>1, <1>2, <3>3, FS_CardinalityType
    <3>5. gone = {}
      BY <3>3, <3>4, FS_EmptySet
    <3>6. DOMAIN records' = DOMAIN records
      BY <3>1, <3>5 DEF gone, Purged, Keep
    <3>7. records' = [v \in DOMAIN records |-> records[v]]
      BY <3>1, <3>6 DEF Purged, Keep
    <3> QED BY <1>1, <1>2, <3>1, <3>4, <3>7
  <2>2. ASSUME NEW v \in Probes, ScoredErase(v)
        PROVE  /\ records' = records /\ evicted = 0 /\ ledger.forgotten = 0
               /\ \A k \in Keys : index'[k] \subseteq index[k]
    <3>1. /\ records' = Removed(records, v) /\ index' = WithoutVisitor(index, v)
          /\ ledger'.forgotten = ledger.forgotten + 1 - Newly(v)
          /\ evicted' = evicted
      BY <1>1, <2>2 DEF ScoredErase, Erase
    <3>2. v \notin DOMAIN records /\ ledger.forgotten = 0
      BY <1>1, <1>2, <3>1 DEF Newly
    <3>3. records' = [w \in DOMAIN records |-> records[w]]
      BY <3>1, <3>2 DEF Removed, Keep
    <3>4. \A k \in Keys : index'[k] \subseteq index[k]
      BY <3>1 DEF WithoutVisitor
    <3> QED BY <1>1, <1>2, <3>1, <3>2, <3>3, <3>4
  <2> QED BY <2>1, <2>2
<1>5. Cold
  <2>1. ledger = [created |-> Cardinality(DOMAIN records), forgotten |-> 0]
    BY <1>4, FullIsCreated
  <2>2. /\ \A v \in DOMAIN records : records[v].observation_count = 1
        /\ agreement = NoAgreement /\ frequency.dropped = 0
    BY <1>3, <1>4 DEF Cold
  <2> QED BY <2>1, <2>2 DEF Cold
<1>6. AsMinted => AsMinted'
  BY <1>3, <1>4 DEF AsMinted
<1> QED BY <1>5, <1>6

\* As long as the library is cold it holds what was minted, and nothing else.
LEMMA ColdIsAsMinted == ScoredSpec => []ColdHoldsMints
<1>1. ScoredInit => ColdHoldsMints
  <2> SUFFICES ASSUME ScoredInit PROVE AsMinted
    BY DEF ColdHoldsMints
  <2>1. DOMAIN records = {} /\ index = [k \in Keys |-> {}] /\ frequency = NoFrequency
    BY DEF ScoredInit, Init, NoRecords, EmptyIndex
  <2> QED BY <2>1, NobodyTallied DEF AsMinted
<1>2. ASSUME ColdHoldsMints, LibraryInv, LibraryInv', TablesCount, [ScoredNext]_engineVars
      PROVE  ColdHoldsMints'
  <2> SUFFICES ASSUME Cold' PROVE AsMinted'
    BY DEF ColdHoldsMints
  <2>1. ASSUME NEW h \in Handlers, NEW headers \in Headers, Match(h, headers)
        PROVE  FALSE
    <3>1. \E v : IdentifyMatch(h, v)
      BY <2>1 DEF Match
    <3> QED BY <1>2, <3>1, MatchWarms
  <2>2. ASSUME UNCHANGED <<records, index, ledger, frequency, agreement>>
        PROVE  AsMinted'
    <3>1. Cold
      BY <2>2 DEF Cold
    <3>2. AsMinted
      BY <1>2, <3>1 DEF ColdHoldsMints
    <3> QED BY <2>2, <3>2 DEF AsMinted
  <2>3. ASSUME NEW h \in Handlers, NEW headers \in Headers, Review(h, headers)
        PROVE  AsMinted'
    <3>1. UNCHANGED <<records, index, ledger, frequency, agreement>>
      BY <2>3 DEF Review, IdentifyReview, library, tables
    <3> QED BY <2>2, <3>1
  <2>4. ASSUME NEW h \in Handlers, NEW headers \in Headers, NewDevice(h, headers)
        PROVE  AsMinted'
    BY <1>2, <2>4, MintKeepsCold DEF ColdHoldsMints
  <2>5. CASE ScoredPurge \/ \E v \in Probes : ScoredErase(v)
    BY <1>2, <2>5, LossKeepsCold DEF ColdHoldsMints
  <2>6. CASE Meanwhile
    <3>1. UNCHANGED <<records, index, ledger, frequency, agreement>>
      BY <2>6 DEF Meanwhile, Tick, Arrive, SweepTick, library, tables
    <3> QED BY <2>2, <3>1
  <2>7. CASE UNCHANGED engineVars
    <3>1. UNCHANGED <<records, index, ledger, frequency, agreement>>
      BY <2>7 DEF engineVars, vars, tables
    <3> QED BY <2>2, <3>1
  <2> QED BY <1>2, <2>1, <2>3, <2>4, <2>5, <2>6, <2>7 DEF ScoredNext
<1> QED BY <1>1, <1>2, EngineKeepsLibraryInv, EngineCounts, PTL DEF ScoredSpec

\* Of a cold library that recalls everybody the edge recalls everybody too, counts
\* the same table, and so evaluates alike.
LEMMA ColdVerdictsAgree ==
  ASSUME LibraryInv, Cold, AsMinted,
         NEW p \in Probes, Candidates(index, KeysOf[p]) = DOMAIN records
  PROVE  EdgeVerdicts(p, Templates) = Verdicts(p)
<1> DEFINE D == DOMAIN records
           recalled == {v \in DOMAIN Templates :
                           BlockingKeys(Templates[v], Perms) \cap KeysOf[p] # {}}
<1>1. D \in SUBSET Probes /\ IsFiniteSet(D) /\ KeysOf[p] \in SUBSET Keys
  BY LibraryAssumption DEF LibraryInv, TypeOK, FiniteHoldings
<1>2. Templates = [v \in D |-> Stored[v]]
  BY DEF Templates, AsMinted
<1> HIDE DEF D
<1>3. \A v \in D : BlockingKeys(Templates[v], Perms) = KeysOf[v]
  BY <1>1, <1>2, EngineAssumption
<1>4. \A v \in D : KeysOf[v] \cap KeysOf[p] # {}
  <2> SUFFICES ASSUME NEW v \in D PROVE KeysOf[v] \cap KeysOf[p] # {}
    OBVIOUS
  <2>1. PICK k \in KeysOf[p] : v \in index[k]
    BY DEF D, Candidates
  <2> QED BY <1>1, <2>1 DEF AsMinted
<1>5. recalled = Candidates(index, KeysOf[p])
  BY <1>2, <1>3, <1>4 DEF D
<1>6. EdgeFrequency(Stored[p], Templates) = frequency
  BY <1>1, <1>2, EdgeTallies DEF EdgeFrequency, AsMinted, D
<1>7. agreement = NoAgreement
  BY DEF Cold
<1>8. EdgeVerdicts(p, Templates) =
         Evaluated(Stored[p], recalled, Templates, EdgeFrequency(Stored[p], Templates),
                   NoAgreement, Visitor(p))
  BY DEF EdgeVerdicts
<1> HIDE DEF recalled
<1> QED BY <1>5, <1>6, <1>7, <1>8 DEF Verdicts

\* Until the native library has learnt anything the edge cannot know, the edge's
\* transient store reaches its verdicts, and both read the same signals.
THEOREM HostsReachTheSameVerdicts == ScoredSpec => []HostsAgree
<1>1. LibraryInv /\ ColdHoldsMints => VerdictsAgree
  BY ColdVerdictsAgree DEF ColdHoldsMints, VerdictsAgree
<1>2. []VerdictsAgree /\ []SignalsAgree => []HostsAgree
  <2>1. VerdictsAgree /\ SignalsAgree => HostsAgree
    BY DEF HostsAgree
  <2> QED BY <2>1, PTL
<1> QED
  BY <1>1, <1>2, EngineKeepsLibraryInv, ColdIsAsMinted, HostsReadTheSameSignals, PTL

===========================================================================
