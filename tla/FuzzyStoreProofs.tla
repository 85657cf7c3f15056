-------------------------- MODULE FuzzyStoreProofs --------------------------
(***************************************************************************)
(* Proofs about FuzzyStore, for any devices, caps, origins and number of   *)
(* handlers: StoreInv is inductive, what the tables and the answers hold   *)
(* follows from it, and the locked code implements FingerprintLibrary.     *)
(***************************************************************************)
EXTENDS FuzzyStore, FiniteSetTheorems, FunctionTheorems, NaturalsInduction,
        WellFoundedInduction, TLAPS

---------------------------------------------------------------------------
\* Sums over finite sets (SumOver of AggregateTables).

\* Induction over a finite set, with the property as the set Good of the sets
\* that have it: a smallest subset outside Good would contradict the step.
LEMMA FiniteInduction ==
    ASSUME NEW S, IsFiniteSet(S), NEW Good,
           \A T \in SUBSET S : (\A x \in T : T \ {x} \in Good) => T \in Good
    PROVE  S \in Good
<1> SUFFICES ASSUME S \notin Good PROVE FALSE
  OBVIOUS
<1> DEFINE Bad == (SUBSET S) \ Good
<1>1. \A T \in SUBSET S : IsFiniteSet(T)
  BY FS_Subset
<1>2. Bad \subseteq FiniteSubsetsOf(S) /\ Bad # {}
  BY <1>1 DEF FiniteSubsetsOf
<1>3. PICK T \in Bad : \A U \in Bad : <<U, T>> \notin StrictSubsetOrdering(S)
  BY <1>2, FS_StrictSubsetOrderingWellFounded, WFMin
<1>4. ASSUME NEW x \in T PROVE T \ {x} \in Good
  <2>1. T \ {x} \in SUBSET S /\ T \in SUBSET S /\ T \ {x} # T
    BY <1>3
  <2>2. <<T \ {x}, T>> \in StrictSubsetOrdering(S)
    BY <2>1 DEF StrictSubsetOrdering
  <2> QED BY <1>3, <2>1, <2>2
<1> QED BY <1>3, <1>4

\* The sum of f over S is the number of pairs <<x, i>> with i at most f[x].
Pairs(f, S) == UNION {{x} \X (1 .. f[x]) : x \in S}

\* One element more adds its own pairs to the pairs of the others.
LEMMA PairsOfElement ==
    ASSUME NEW f, NEW S, NEW x \in S, f[x] \in Nat, IsFiniteSet(Pairs(f, S \ {x}))
    PROVE  /\ IsFiniteSet(Pairs(f, S))
           /\ Cardinality(Pairs(f, S)) = f[x] + Cardinality(Pairs(f, S \ {x}))
<1> DEFINE own == {x} \X (1 .. f[x])
           rest == Pairs(f, S \ {x})
<1>1. Pairs(f, S) = own \cup rest /\ own \cap rest = {}
  BY DEF Pairs
<1>2. IsFiniteSet(own) /\ Cardinality(own) = f[x]
  <2>1. IsFiniteSet({x}) /\ Cardinality({x}) = 1
    BY FS_Singleton
  <2>2. IsFiniteSet(1 .. f[x]) /\ Cardinality(1 .. f[x]) = f[x]
    <3>1. 0 \in Int /\ 1 \in Int /\ f[x] \in Int /\ f[x] >= 0
      OBVIOUS
    <3>2. /\ IsFiniteSet(1 .. f[x])
          /\ Cardinality(1 .. f[x]) = IF 1 > f[x] THEN 0 ELSE f[x] - 1 + 1
      BY <3>1, FS_Interval
    <3> QED BY <3>1, <3>2
  <2>3. IsFiniteSet(own) /\ Cardinality(own) = Cardinality({x}) * Cardinality(1 .. f[x])
    BY <2>1, <2>2, FS_Product
  <2> QED BY <2>1, <2>2, <2>3
<1> HIDE DEF own, rest
<1>3. /\ IsFiniteSet(own \cup rest)
      /\ Cardinality(own \cup rest) = Cardinality(own) + Cardinality(rest)
                                      - Cardinality(own \cap rest)
  BY <1>2, FS_Union DEF rest
<1>4. Cardinality(own \cap rest) = 0
  BY <1>1, FS_EmptySet
<1>5. Cardinality(rest) \in Nat
  BY FS_CardinalityType DEF rest
<1> QED BY <1>1, <1>2, <1>3, <1>4, <1>5 DEF rest

\* Finitely many naturals make finitely many pairs.
LEMMA PairsAreFinite ==
    ASSUME NEW f, NEW S, IsFiniteSet(S), \A x \in S : f[x] \in Nat
    PROVE  IsFiniteSet(Pairs(f, S)) /\ Cardinality(Pairs(f, S)) \in Nat
<1> DEFINE Good == {T \in SUBSET S : IsFiniteSet(Pairs(f, T))}
<1>1. ASSUME NEW T \in SUBSET S, \A x \in T : T \ {x} \in Good
      PROVE  T \in Good
  <2>1. CASE T = {}
    BY <2>1, FS_EmptySet DEF Pairs
  <2>2. CASE T # {}
    BY <1>1, <2>2, PairsOfElement
  <2> QED BY <2>1, <2>2
<1>2. S \in Good
  <2> HIDE DEF Good
  <2> QED BY <1>1, FiniteInduction
<1> QED BY <1>2, FS_CardinalityType

\* SumOver is that number: what the table's recursive sum adds up is a count.
LEMMA SumIsCount ==
    ASSUME NEW f, NEW S, IsFiniteSet(S), \A x \in S : f[x] \in Nat
    PROVE  SumOver(f, S) = Cardinality(Pairs(f, S))
<1> DEFINE pick(s) == CHOOSE x \in s : TRUE
           Is(g) == g = [s \in SUBSET S |->
                            IF s = {} THEN 0 ELSE f[pick(s)] + g[s \ {pick(s)}]]
           count == [s \in SUBSET S |-> Cardinality(Pairs(f, s))]
           sum == CHOOSE g : Is(g)
<1>1. SumOver(f, S) = sum[S]
  BY DEF SumOver, MapThenSumSet, MapThenFoldSet
<1>2. ASSUME NEW s \in SUBSET S
      PROVE  /\ s # {} => pick(s) \in s
             /\ IsFiniteSet(Pairs(f, s))
             /\ Cardinality(Pairs(f, s)) =
                    IF s = {} THEN 0 ELSE f[pick(s)] + Cardinality(Pairs(f, s \ {pick(s)}))
  <2>1. IsFiniteSet(s)
    BY FS_Subset
  <2>2. CASE s = {}
    BY <2>2, FS_EmptySet DEF Pairs
  <2>3. CASE s # {}
    <3>1. pick(s) \in s
      BY <2>3
    <3> HIDE DEF pick
    <3>2. IsFiniteSet(s \ {pick(s)})
      BY <2>1, FS_RemoveElement
    <3>3. IsFiniteSet(Pairs(f, s \ {pick(s)}))
      BY <3>2, PairsAreFinite
    <3> QED BY <2>3, <3>1, <3>3, PairsOfElement
  <2> QED BY <2>2, <2>3
<1>3. Is(count)
  <2>1. ASSUME NEW s \in SUBSET S
        PROVE  count[s] = IF s = {} THEN 0 ELSE f[pick(s)] + count[s \ {pick(s)}]
    <3> HIDE DEF pick
    <3> QED BY <1>2
  <2> HIDE DEF pick
  <2> QED BY <2>1
<1>4. Is(sum)
  <2> HIDE DEF count, Is
  <2> QED BY <1>3
<1> HIDE DEF sum, pick
<1> DEFINE Good == {s \in SUBSET S : sum[s] = count[s]}
<1>5. ASSUME NEW T \in SUBSET S, \A x \in T : T \ {x} \in Good
      PROVE  T \in Good
  BY <1>2, <1>4, <1>5
<1>6. S \in Good
  <2> HIDE DEF Good
  <2> QED BY <1>5, FiniteInduction
<1> QED BY <1>1, <1>6

\* A sum of naturals: none, one element taken out, and its type.
LEMMA SumFacts ==
    ASSUME NEW f, NEW S, IsFiniteSet(S), \A x \in S : f[x] \in Nat
    PROVE  /\ SumOver(f, S) \in Nat
           /\ S = {} => SumOver(f, S) = 0
           /\ \A x \in S : SumOver(f, S) = f[x] + SumOver(f, S \ {x})
<1>1. SumOver(f, S) \in Nat
  BY SumIsCount, PairsAreFinite
<1>2. ASSUME S = {} PROVE SumOver(f, S) = 0
  <2>1. Pairs(f, S) = {}
    BY <1>2 DEF Pairs
  <2> QED BY <2>1, SumIsCount, FS_EmptySet
<1>3. ASSUME NEW x \in S PROVE SumOver(f, S) = f[x] + SumOver(f, S \ {x})
  <2>1. IsFiniteSet(S \ {x}) /\ \A y \in S \ {x} : f[y] \in Nat
    BY FS_RemoveElement
  <2>2. IsFiniteSet(Pairs(f, S \ {x})) /\ SumOver(f, S \ {x}) = Cardinality(Pairs(f, S \ {x}))
    BY <2>1, PairsAreFinite, SumIsCount
  <2>3. SumOver(f, S) = Cardinality(Pairs(f, S))
    BY SumIsCount
  <2> QED BY <2>2, <2>3, PairsOfElement
<1> QED BY <1>1, <1>2, <1>3

\* Two sums that add up point by point, each over its own part of the set.
LEMMA SumOfParts ==
    ASSUME NEW S, IsFiniteSet(S), NEW A \in SUBSET S, NEW B \in SUBSET S,
           NEW f, NEW g, NEW h,
           \A x \in A : f[x] \in Nat, \A x \in B : g[x] \in Nat,
           \A x \in S : h[x] = (IF x \in A THEN f[x] ELSE 0) + (IF x \in B THEN g[x] ELSE 0)
    PROVE  SumOver(h, S) = SumOver(f, A) + SumOver(g, B)
<1> DEFINE Good == {T \in SUBSET S :
                       SumOver(h, T) = SumOver(f, T \cap A) + SumOver(g, T \cap B)}
<1>0. \A x \in S : h[x] \in Nat
  OBVIOUS
<1>1. ASSUME NEW T \in SUBSET S, \A x \in T : T \ {x} \in Good
      PROVE  T \in Good
  <2>1. /\ IsFiniteSet(T) /\ IsFiniteSet(T \cap A) /\ IsFiniteSet(T \cap B)
        /\ \A x \in T : h[x] \in Nat
        /\ \A x \in T \cap A : f[x] \in Nat
        /\ \A x \in T \cap B : g[x] \in Nat
    BY <1>0, FS_Subset
  <2>2. CASE T = {}
    BY <2>1, <2>2, SumFacts
  <2>3. CASE T # {}
    <3>1. PICK x \in T : TRUE
      BY <2>3
    <3>2. SumOver(h, T \ {x}) = SumOver(f, (T \ {x}) \cap A) + SumOver(g, (T \ {x}) \cap B)
      BY <1>1, <3>1
    <3>3. SumOver(h, T) = h[x] + SumOver(h, T \ {x})
      BY <2>1, SumFacts
    <3>4. /\ IsFiniteSet((T \ {x}) \cap A) /\ IsFiniteSet((T \ {x}) \cap B)
          /\ IsFiniteSet(T \ {x})
      BY <2>1, FS_Subset
    <3>5. SumOver(f, (T \ {x}) \cap A) \in Nat /\ SumOver(g, (T \ {x}) \cap B) \in Nat
      BY <2>1, <3>4, SumFacts
    <3>6. SumOver(f, T \cap A) = (IF x \in A THEN f[x] ELSE 0) + SumOver(f, (T \ {x}) \cap A)
      <4>1. CASE x \in A
        <5>1. (T \cap A) \ {x} = (T \ {x}) \cap A /\ x \in T \cap A
          BY <4>1
        <5> QED BY <2>1, <4>1, <5>1, SumFacts
      <4>2. CASE x \notin A
        <5>1. T \cap A = (T \ {x}) \cap A
          BY <4>2
        <5> QED BY <3>5, <4>2, <5>1
      <4> QED BY <4>1, <4>2
    <3>7. SumOver(g, T \cap B) = (IF x \in B THEN g[x] ELSE 0) + SumOver(g, (T \ {x}) \cap B)
      <4>1. CASE x \in B
        <5>1. (T \cap B) \ {x} = (T \ {x}) \cap B /\ x \in T \cap B
          BY <4>1
        <5> QED BY <2>1, <4>1, <5>1, SumFacts
      <4>2. CASE x \notin B
        <5>1. T \cap B = (T \ {x}) \cap B
          BY <4>2
        <5> QED BY <3>5, <4>2, <5>1
      <4> QED BY <4>1, <4>2
    <3> QED BY <1>0, <3>2, <3>3, <3>5, <3>6, <3>7
  <2> QED BY <2>2, <2>3
<1>2. S \in Good
  <2> HIDE DEF Good
  <2> QED BY <1>1, FiniteInduction
<1>3. S \cap A = A /\ S \cap B = B
  OBVIOUS
<1> QED BY <1>2, <1>3

\* Members counted class by class are counted once each.
LEMMA SumOfClasses ==
    ASSUME NEW S, IsFiniteSet(S), NEW N, IsFiniteSet(N), NEW of, NEW f,
           \A x \in S : f[x] = Cardinality({n \in N : of[n] = x})
    PROVE  SumOver(f, S) = Cardinality({n \in N : of[n] \in S})
<1> DEFINE In(T) == {n \in N : of[n] \in T}
           Good == {T \in SUBSET S : SumOver(f, T) = Cardinality(In(T))}
<1>0. /\ \A T : IsFiniteSet(In(T)) /\ Cardinality(In(T)) \in Nat
      /\ \A x \in S : f[x] = Cardinality(In({x})) /\ f[x] \in Nat
  <2>1. ASSUME NEW T PROVE IsFiniteSet(In(T)) /\ Cardinality(In(T)) \in Nat
    <3>1. In(T) \in SUBSET N
      OBVIOUS
    <3> QED BY <3>1, FS_Subset, FS_CardinalityType
  <2>2. ASSUME NEW x \in S PROVE f[x] = Cardinality(In({x})) /\ f[x] \in Nat
    <3>1. In({x}) = {n \in N : of[n] = x}
      OBVIOUS
    <3>2. Cardinality(In({x})) \in Nat
      BY <2>1
    <3> QED BY <3>1, <3>2
  <2> QED BY <2>1, <2>2
<1>1. ASSUME NEW T \in SUBSET S, \A x \in T : T \ {x} \in Good
      PROVE  T \in Good
  <2>1. IsFiniteSet(T) /\ \A x \in T : f[x] \in Nat
    BY <1>0, FS_Subset
  <2>2. CASE T = {}
    <3>1. In(T) = {}
      BY <2>2
    <3> QED BY <2>1, <2>2, <3>1, SumFacts, FS_EmptySet
  <2>3. CASE T # {}
    <3>1. PICK x \in T : TRUE
      BY <2>3
    <3>2. SumOver(f, T) = f[x] + SumOver(f, T \ {x})
      BY <2>1, SumFacts
    <3>3. SumOver(f, T \ {x}) = Cardinality(In(T \ {x}))
      BY <1>1
    <3>4. In(T) = In({x}) \cup In(T \ {x}) /\ In({x}) \cap In(T \ {x}) = {}
      BY <3>1
    <3> HIDE DEF In
    <3>5. Cardinality(In({x}) \cup In(T \ {x})) =
              Cardinality(In({x})) + Cardinality(In(T \ {x}))
              - Cardinality(In({x}) \cap In(T \ {x}))
      BY <1>0, FS_Union
    <3>6. Cardinality(In({x}) \cap In(T \ {x})) = 0
      BY <3>4, FS_EmptySet
    <3>7. Cardinality(In({x})) \in Nat /\ Cardinality(In(T \ {x})) \in Nat
      BY <1>0
    <3>8. Cardinality(In(T)) = Cardinality(In({x})) + Cardinality(In(T \ {x}))
      <4>1. Cardinality(In(T)) = Cardinality(In({x}) \cup In(T \ {x}))
        BY <3>4, Zenon
      <4> QED BY <3>5, <3>6, <3>7, <4>1
    <3>9. f[x] = Cardinality(In({x}))
      BY <1>0, <3>1
    <3>10. SumOver(f, T) = Cardinality(In(T))
      BY <3>2, <3>3, <3>8, <3>9
    <3> QED BY <3>10
  <2> QED BY <2>2, <2>3
<1>2. S \in Good
  <2> HIDE DEF Good
  <2> QED BY <1>1, FiniteInduction
<1> QED BY <1>2

---------------------------------------------------------------------------
\* Lists of times (Since of VelocityTable).

\* Induction up to n, with the property as the set Good of the numbers that have it.
LEMMA InductionUpTo ==
    ASSUME NEW n \in Nat, NEW Good, 0 \in Good,
           \A i \in Nat : i < n /\ i \in Good => i + 1 \in Good
    PROVE  0 .. n \subseteq Good
<1> SUFFICES ASSUME NEW j \in 0 .. n, j \notin Good PROVE FALSE
  OBVIOUS
<1> DEFINE Bad == {i \in Nat : i <= n /\ i \notin Good}
<1>1. Bad \subseteq Nat /\ Bad # {}
  OBVIOUS
<1>2. PICK i \in Bad : \A y \in Bad : <<y, i>> \notin OpToRel(<, Nat)
  BY <1>1, NatLessThanWellFounded, WFMin
<1>3. i # 0 /\ i \in Nat /\ i <= n
  BY <1>2
<1>4. i - 1 \in Good
  <2>1. i - 1 \in Nat /\ i - 1 < i /\ i - 1 <= n
    BY <1>3
  <2>2. <<i - 1, i>> \in OpToRel(<, Nat)
    BY <1>3, <2>1 DEF OpToRel
  <2> QED BY <1>2, <2>1, <2>2
<1>5. i \in Good
  <2>1. i - 1 \in Nat /\ i - 1 < n /\ (i - 1) + 1 = i
    BY <1>3
  <2> QED BY <1>4, <2>1
<1> QED BY <1>2, <1>5

\* What the list of times becomes, position by position.
IsKept(g, times, cutoff, n) ==
    g = [i \in 0 .. n |->
            IF i = 0 THEN <<>>
            ELSE IF times[i] >= cutoff THEN Append(g[i - 1], times[i])
            ELSE g[i - 1]]

\* The recursive function by which a list is pruned exists, for every list.
LEMMA KeptExists ==
    ASSUME NEW times, Len(times) \in Nat, NEW cutoff
    PROVE  \E g : IsKept(g, times, cutoff, Len(times))
<1> DEFINE Good == {n \in Nat : \E g : IsKept(g, times, cutoff, n)}
<1>1. 0 \in Good
  <2>1. IsKept([i \in 0 .. 0 |-> <<>>], times, cutoff, 0)
    BY DEF IsKept
  <2> QED BY <2>1
<1>2. ASSUME NEW n \in Nat, n \in Good
      PROVE  n + 1 \in Good
  <2>1. PICK g : IsKept(g, times, cutoff, n)
    BY <1>2
  <2> DEFINE last == IF times[n + 1] >= cutoff THEN Append(g[n], times[n + 1]) ELSE g[n]
             h == [i \in 0 .. n + 1 |-> IF i = n + 1 THEN last ELSE g[i]]
  <2>2. ASSUME NEW i \in 0 .. n + 1
        PROVE  h[i] = IF i = 0 THEN <<>>
                      ELSE IF times[i] >= cutoff THEN Append(h[i - 1], times[i])
                      ELSE h[i - 1]
    <3>1. CASE i = n + 1
      <4>1. h[i] = last /\ i # 0 /\ h[i - 1] = g[n] /\ i = n + 1
        BY <3>1
      <4> HIDE DEF h
      <4> QED BY <4>1
    <3>2. CASE i # n + 1
      <4>1. i \in 0 .. n /\ h[i] = g[i] /\ (i # 0 => h[i - 1] = g[i - 1])
        BY <3>2
      <4>2. g[i] = IF i = 0 THEN <<>>
                   ELSE IF times[i] >= cutoff THEN Append(g[i - 1], times[i])
                   ELSE g[i - 1]
        BY <2>1, <4>1 DEF IsKept
      <4> HIDE DEF h
      <4> QED BY <4>1, <4>2
    <3> QED BY <3>1, <3>2
  <2>3. h = [i \in 0 .. n + 1 |-> h[i]]
    OBVIOUS
  <2> HIDE DEF h
  <2>4. IsKept(h, times, cutoff, n + 1)
    BY <2>2, <2>3 DEF IsKept
  <2> QED BY <2>4
<1>3. Len(times) \in Good
  <2>1. \A n \in Nat : n \in Good => n + 1 \in Good
    BY <1>2
  <2> HIDE DEF Good
  <2>2. 0 .. Len(times) \subseteq Good
    BY <1>1, <2>1, InductionUpTo
  <2> QED BY <2>2
<1> QED BY <1>3

\* A bijection from 1 .. n grows by one pair.
LEMMA BijectionGrows ==
    ASSUME NEW n \in Nat, NEW T, NEW f \in Bijection(1 .. n, T), NEW x, x \notin T
    PROVE  [i \in 1 .. n + 1 |-> IF i = n + 1 THEN x ELSE f[i]]
               \in Bijection(1 .. n + 1, T \cup {x})
<1> DEFINE h == [i \in 1 .. n + 1 |-> IF i = n + 1 THEN x ELSE f[i]]
<1>1. /\ f \in [1 .. n -> T] /\ \A a, b \in 1 .. n : f[a] = f[b] => a = b
      /\ \A t \in T : \E a \in 1 .. n : f[a] = t
  BY Fun_BijectionProperties
<1>2. /\ h[n + 1] = x /\ n + 1 \in 1 .. n + 1 /\ n + 1 \notin 1 .. n
      /\ \A a \in 1 .. n : h[a] = f[a] /\ f[a] \in T /\ a \in 1 .. n + 1
      /\ \A a \in 1 .. n + 1 : a \in 1 .. n \/ a = n + 1
  BY <1>1
<1>3. h \in [1 .. n + 1 -> T \cup {x}]
  BY <1>1
<1> HIDE DEF h
<1>4. \A a, b \in 1 .. n + 1 : h[a] = h[b] => a = b
  BY <1>1, <1>2, Zenon
<1>5. \A t \in T \cup {x} : \E a \in 1 .. n + 1 : h[a] = t
  BY <1>1, <1>2, Zenon
<1> QED BY <1>3, <1>4, <1>5, Fun_IsBij DEF h

\* retain leaves the times of the list that are not before the cutoff, each once.
LEMMA SinceKeeps ==
    ASSUME NEW times \in Seq(Nat), NEW cutoff \in Nat
    PROVE  /\ Since(times, cutoff) \in Seq(Nat)
           /\ \E g \in Bijection(DOMAIN Since(times, cutoff),
                                 {i \in DOMAIN times : times[i] >= cutoff}) :
                  \A i \in DOMAIN Since(times, cutoff) :
                      Since(times, cutoff)[i] = times[g[i]]
<1> DEFINE L == Len(times)
           kept == CHOOSE g : IsKept(g, times, cutoff, L)
           Picks(n) == {i \in 1 .. n : times[i] >= cutoff}
           IsPick(g, n) == /\ g \in Bijection(1 .. Len(kept[n]), Picks(n))
                           /\ \A i \in 1 .. Len(kept[n]) : kept[n][i] = times[g[i]]
           Good == {n \in 0 .. L : kept[n] \in Seq(Nat) /\ \E g : IsPick(g, n)}
<1>0. L \in Nat /\ DOMAIN times = 1 .. L
  OBVIOUS
<1>1. Since(times, cutoff) = kept[L]
  BY DEF Since, IsKept
<1>2. IsKept(kept, times, cutoff, L)
  BY KeptExists
<1> HIDE DEF kept
<1>3. /\ kept[0] = <<>>
      /\ \A i \in 1 .. L : kept[i] = IF times[i] >= cutoff THEN Append(kept[i - 1], times[i])
                                     ELSE kept[i - 1]
  <2> HIDE DEF L
  <2>1. \A i \in 0 .. L : kept[i] = IF i = 0 THEN <<>>
                                    ELSE IF times[i] >= cutoff
                                    THEN Append(kept[i - 1], times[i])
                                    ELSE kept[i - 1]
    BY <1>2, Zenon DEF IsKept
  <2>2. 0 \in 0 .. L /\ \A i \in 1 .. L : i \in 0 .. L /\ i # 0
    BY <1>0
  <2> QED BY <2>1, <2>2, Zenon
<1>4. 0 \in Good
  <2>1. 0 \in 0 .. L /\ kept[0] \in Seq(Nat) /\ 1 .. Len(kept[0]) = {} /\ Picks(0) = {}
    BY <1>0, <1>3
  <2> DEFINE g == [i \in {} |-> 0]
  <2>2. g \in Bijection({}, {})
    BY Fun_IsBij
  <2>3. IsPick(g, 0)
    BY <2>1, <2>2
  <2> QED BY <2>1, <2>3
<1>5. ASSUME NEW n \in Nat, n < L, n \in Good
      PROVE  n + 1 \in Good
  <2>0. n + 1 \in 0 .. L /\ n + 1 \in 1 .. L /\ (n + 1) - 1 = n /\ times[n + 1] \in Nat
    BY <1>0, <1>5
  <2>1. kept[n + 1] = IF times[n + 1] >= cutoff THEN Append(kept[n], times[n + 1]) ELSE kept[n]
    BY <1>3, <2>0
  <2>2. kept[n] \in Seq(Nat) /\ Len(kept[n]) \in Nat
    BY <1>5
  <2>3. PICK g : IsPick(g, n)
    BY <1>5
  <2>4. CASE times[n + 1] >= cutoff
    <3> DEFINE m == Len(kept[n])
               f == [i \in 1 .. m + 1 |-> IF i = m + 1 THEN n + 1 ELSE g[i]]
    <3>1. Picks(n + 1) = Picks(n) \cup {n + 1} /\ n + 1 \notin Picks(n)
      BY <2>0, <2>4
    <3>2. /\ kept[n + 1] = Append(kept[n], times[n + 1])
          /\ kept[n + 1] \in Seq(Nat) /\ Len(kept[n + 1]) = m + 1 /\ m \in Nat
      BY <2>0, <2>1, <2>2, <2>4
    <3>3. g \in Bijection(1 .. m, Picks(n)) /\ \A i \in 1 .. m : kept[n][i] = times[g[i]]
      BY <2>3
    <3>a. \A i \in 1 .. m + 1 : kept[n + 1][i] = IF i = m + 1 THEN times[n + 1] ELSE kept[n][i]
      BY <2>0, <2>2, <3>2
    <3> HIDE DEF Picks, m
    <3>4. f \in Bijection(1 .. m + 1, Picks(n + 1))
      BY <3>1, <3>2, <3>3, BijectionGrows
    <3>5. ASSUME NEW i \in 1 .. m + 1
          PROVE  kept[n + 1][i] = times[f[i]]
      <4>1. CASE i = m + 1
        BY <3>a, <4>1
      <4>2. CASE i # m + 1
        <5>1. i \in 1 .. m /\ f[i] = g[i]
          BY <3>2, <4>2
        <5> HIDE DEF f
        <5> QED BY <3>3, <3>a, <4>2, <5>1
      <4> QED BY <4>1, <4>2
    <3> HIDE DEF f
    <3>6. IsPick(f, n + 1)
      BY <3>2, <3>4, <3>5
    <3> QED BY <2>0, <3>2, <3>6
  <2>5. CASE ~(times[n + 1] >= cutoff)
    <3>1. Picks(n + 1) = Picks(n) /\ kept[n + 1] = kept[n]
      BY <2>0, <2>1, <2>5
    <3> HIDE DEF Picks
    <3>2. IsPick(g, n + 1)
      BY <2>3, <3>1
    <3> QED BY <2>0, <2>2, <3>1, <3>2
  <2> QED BY <2>4, <2>5
<1>6. 0 .. L \subseteq Good
  <2>1. \A i \in Nat : i < L /\ i \in Good => i + 1 \in Good
    BY <1>5
  <2> HIDE DEF Good, L
  <2> QED BY <1>0, <1>4, <2>1, InductionUpTo
<1>7. L \in Good
  <2>1. L \in 0 .. L
    BY <1>0
  <2> HIDE DEF Good, L
  <2> QED BY <1>6, <2>1
<1>8. kept[L] \in Seq(Nat) /\ DOMAIN kept[L] = 1 .. Len(kept[L])
  BY <1>7
<1>9. PICK g : IsPick(g, L)
  BY <1>7
<1>10. Picks(L) = {i \in DOMAIN times : times[i] >= cutoff}
  BY <1>0
<1> HIDE DEF L, Picks
<1> QED BY <1>1, <1>8, <1>9, <1>10

\* The lasting times of one more: those before it that are not out of its window,
\* and it itself.
LEMMA LastingGrows ==
    ASSUME NEW times \in Seq(Nat), NEW secs \in Nat
    PROVE  Lasting(Append(times, secs)) =
               {x \in Lasting(times) \cup {Len(times) + 1} :
                   Append(times, secs)[x] >= Cutoff(secs)}
<1> DEFINE N == Len(times)
           all == Append(times, secs)
<1>1. /\ N \in Nat /\ DOMAIN times = 1 .. N /\ DOMAIN all = 1 .. N + 1 /\ Len(all) = N + 1
      /\ all[N + 1] = secs /\ \A x \in 1 .. N : all[x] = times[x] /\ times[x] \in Nat
  OBVIOUS
<1>2. Cutoff(secs) \in Nat /\ Cutoff(secs) <= secs
  BY VelocityAssumption DEF Cutoff
<1> HIDE DEF N, all
<1>3. ASSUME NEW x \in 1 .. N
      PROVE  x \in Lasting(all) <=> x \in Lasting(times) /\ all[x] >= Cutoff(secs)
  <2>1. /\ x \in Lasting(all) <=> \A j \in x .. N + 1 : all[x] >= Cutoff(all[j])
        /\ x \in Lasting(times) <=> \A j \in x .. N : times[x] >= Cutoff(times[j])
    BY <1>1 DEF Lasting, N
  <2>2. /\ \A j \in x .. N + 1 : j \in x .. N \/ j = N + 1
        /\ \A j \in x .. N : j \in x .. N + 1 /\ j \in 1 .. N
        /\ N + 1 \in x .. N + 1 /\ all[x] = times[x]
    BY <1>1
  <2>3. \A j \in x .. N : all[j] = times[j]
    BY <1>1, <2>2
  <2> QED BY <1>1, <2>1, <2>2, <2>3, Zenon
<1>4. N + 1 \in Lasting(all) /\ all[N + 1] >= Cutoff(secs)
  BY <1>1, <1>2 DEF Lasting
<1>5. Lasting(all) \subseteq 1 .. N + 1 /\ Lasting(times) \subseteq 1 .. N
  BY <1>1 DEF Lasting, N
<1>6. ASSUME NEW x
      PROVE  x \in Lasting(all) <=>
                 x \in Lasting(times) \cup {N + 1} /\ all[x] >= Cutoff(secs)
  <2>1. x \in 1 .. N + 1 => x \in 1 .. N \/ x = N + 1
    BY <1>1
  <2>2. N + 1 \notin 1 .. N
    BY <1>1
  <2> QED BY <1>3, <1>4, <1>5, <2>1, <2>2
<1> QED BY <1>6 DEF N, all

\* What a list holds of the times is as many as last of them.
LEMMA LastingAreCounted ==
    ASSUME NEW list \in Seq(Nat), NEW times \in Seq(Nat), IsLasting(list, times)
    PROVE  Len(list) = Cardinality(Lasting(times))
<1>1. PICK f \in Bijection(DOMAIN list, Lasting(times)) : TRUE
  BY DEF IsLasting
<1>2. DOMAIN list = 1 .. Len(list) /\ Len(list) \in Nat
  OBVIOUS
<1>3. IsFiniteSet(1 .. Len(list)) /\ Cardinality(1 .. Len(list)) = Len(list)
  <2>1. \A m \in Nat : /\ IsFiniteSet(1 .. m)
                       /\ Cardinality(1 .. m) = IF 1 > m THEN 0 ELSE m - 1 + 1
    BY FS_Interval
  <2>2. \A m \in Nat : (IF 1 > m THEN 0 ELSE m - 1 + 1) = m
    OBVIOUS
  <2> QED BY <1>2, <2>1, <2>2
<1>4. ExistsBijection(1 .. Len(list), Lasting(times))
  BY <1>1, <1>2 DEF ExistsBijection
<1> QED BY <1>3, <1>4, FS_Bijection

\* Nothing lasts of no mints.
LEMMA NoneLast == IsLasting(<<>>, <<>>)
<1> DEFINE f == [i \in {} |-> 0]
<1>1. DOMAIN <<>> = {} /\ Lasting(<<>>) = {}
  BY DEF Lasting
<1>2. f \in Bijection({}, {})
  BY Fun_IsBij
<1> QED BY <1>1, <1>2 DEF IsLasting

\* A list of the lasting times is one again after a mint: appended, then pruned.
LEMMA MintLasts ==
    ASSUME NEW list \in Seq(Nat), NEW times \in Seq(Nat), IsLasting(list, times),
           NEW secs \in Nat
    PROVE  /\ Since(Append(list, secs), Cutoff(secs)) \in Seq(Nat)
           /\ IsLasting(Since(Append(list, secs), Cutoff(secs)), Append(times, secs))
           /\ Cardinality(Lasting(Append(times, secs))) > 0
<1> DEFINE n == Len(list)
           N == Len(times)
           more == Append(list, secs)
           all == Append(times, secs)
           c == Cutoff(secs)
           left == Since(more, c)
<1>1. /\ n \in Nat /\ N \in Nat /\ more \in Seq(Nat) /\ all \in Seq(Nat)
      /\ DOMAIN list = 1 .. n /\ DOMAIN more = 1 .. n + 1 /\ DOMAIN times = 1 .. N
      /\ more[n + 1] = secs /\ \A i \in 1 .. n : more[i] = list[i]
      /\ all[N + 1] = secs /\ \A x \in 1 .. N : all[x] = times[x]
  OBVIOUS
<1>2. c \in Nat /\ c <= secs
  BY VelocityAssumption DEF Cutoff
<1>3. PICK f \in Bijection(1 .. n, Lasting(times)) : \A i \in 1 .. n : list[i] = times[f[i]]
  <2>1. \E f \in Bijection(DOMAIN list, Lasting(times)) :
           \A i \in DOMAIN list : list[i] = times[f[i]]
    BY ONLY IsLasting(list, times) DEF IsLasting
  <2>2. DOMAIN list = 1 .. n
    BY <1>1
  <2> QED BY ONLY <2>1, <2>2
<1>4. Lasting(times) \subseteq 1 .. N /\ N + 1 \notin Lasting(times)
  BY <1>1 DEF Lasting
<1>5. PICK g \in Bijection(DOMAIN left, {i \in DOMAIN more : more[i] >= c}) :
          \A i \in DOMAIN left : left[i] = more[g[i]]
  BY <1>1, <1>2, SinceKeeps
<1>6. left \in Seq(Nat)
  BY <1>1, <1>2, SinceKeeps
<1>7. Lasting(all) = {x \in Lasting(times) \cup {N + 1} : all[x] >= c}
  BY LastingGrows
<1> DEFINE F == [i \in 1 .. n + 1 |-> IF i = n + 1 THEN N + 1 ELSE f[i]]
           H == [i \in DOMAIN left |-> F[g[i]]]
<1> HIDE DEF n, N, more, all, c, left
<1>8. F \in Bijection(1 .. n + 1, Lasting(times) \cup {N + 1})
  BY <1>1, <1>3, <1>4, BijectionGrows
<1>9. \A i \in 1 .. n + 1 : more[i] = all[F[i]]
  <2>1. \A i \in 1 .. n : f[i] \in 1 .. N
    BY <1>3, <1>4 DEF Bijection, Injection, Surjection, IsInjective
  <2>2. ASSUME NEW i \in 1 .. n + 1
        PROVE  more[i] = all[F[i]]
    <3>1. CASE i = n + 1
      BY <1>1, <3>1
    <3>2. CASE i # n + 1
      <4>1. i \in 1 .. n
        BY <1>1, <3>2
      <4>2. F[i] = f[i] /\ f[i] \in 1 .. N
        BY <2>1, <3>2, <4>1
      <4>3. list[i] = times[f[i]] /\ more[i] = list[i] /\ all[f[i]] = times[f[i]]
        BY <1>1, <1>3, <4>1, <4>2
      <4> QED BY ONLY <4>2, <4>3
    <3> QED BY <3>1, <3>2
  <2> QED BY <2>2
<1> HIDE DEF F
<1>10. /\ F \in [1 .. n + 1 -> Lasting(times) \cup {N + 1}]
       /\ \A a, b \in 1 .. n + 1 : F[a] = F[b] => a = b
       /\ \A t \in Lasting(times) \cup {N + 1} : \E a \in 1 .. n + 1 : F[a] = t
  BY <1>8 DEF Bijection, Injection, Surjection, IsInjective
<1> DEFINE P == {i \in 1 .. n + 1 : more[i] >= c}
<1>a. g \in Bijection(DOMAIN left, P)
  BY <1>1, <1>5
<1>11. /\ g \in [DOMAIN left -> P]
       /\ \A a, b \in DOMAIN left : g[a] = g[b] => a = b
       /\ \A t \in P : \E a \in DOMAIN left : g[a] = t
  BY <1>a DEF Bijection, Injection, Surjection, IsInjective
<1>12. \A i \in 1 .. n + 1 : i \in P <=> F[i] \in Lasting(all)
  BY <1>7, <1>9, <1>10
<1>13. P \subseteq 1 .. n + 1 /\ Lasting(all) \subseteq Lasting(times) \cup {N + 1}
  BY <1>7
<1> HIDE DEF P
<1>14. H \in [DOMAIN left -> Lasting(all)] /\ \A a \in DOMAIN left : H[a] = F[g[a]]
  BY <1>11, <1>12, <1>13
<1> HIDE DEF H
<1>b. \A a \in DOMAIN left : g[a] \in P /\ g[a] \in 1 .. n + 1
  BY <1>11, <1>13
<1>15. ASSUME NEW a \in DOMAIN left, NEW b \in DOMAIN left, H[a] = H[b]
       PROVE  a = b
  <2>1. F[g[a]] = F[g[b]]
    BY <1>14, <1>15
  <2>2. g[a] = g[b]
    BY <1>10, <1>b, <2>1, Zenon
  <2> QED BY <1>11, <2>2, Zenon
<1>16. ASSUME NEW t \in Lasting(all)
       PROVE  \E a \in DOMAIN left : H[a] = t
  <2>1. PICK x \in 1 .. n + 1 : F[x] = t
    BY <1>10, <1>13
  <2>2. x \in P
    BY <1>12, <2>1
  <2>3. PICK a \in DOMAIN left : g[a] = x
    BY <1>11, <2>2, Zenon
  <2> QED BY <1>14, <2>1, <2>3
<1>17. H \in Bijection(DOMAIN left, Lasting(all))
  BY <1>14, <1>15, <1>16, Fun_IsBij
<1>18. \A i \in DOMAIN left : left[i] = all[H[i]]
  BY <1>5, <1>9, <1>14, <1>b, Zenon
<1>19. IsLasting(left, all)
  BY <1>17, <1>18 DEF IsLasting
<1>20. Cardinality(Lasting(all)) > 0
  <2>1. N + 1 \in Lasting(all)
    BY <1>1, <1>2, <1>7
  <2>2. Len(left) = Cardinality(Lasting(all)) /\ Len(left) \in Nat
    BY <1>1, <1>6, <1>19, LastingAreCounted
  <2>3. PICK a \in DOMAIN left : H[a] = N + 1
    BY <1>16, <2>1
  <2>4. Len(left) # 0
    BY <1>6, <2>3
  <2> QED BY <2>2, <2>4
<1> QED BY <1>6, <1>19, <1>20 DEF left, more, all, c

---------------------------------------------------------------------------
\* Steps of a call.  h's locals become j, everybody else's stay.
Moved(h, j) == h \in DOMAIN jobs /\ jobs' = [jobs EXCEPT ![h] = j]

\* A call's step that keeps its locals typed keeps every call typed.
LEMMA MovedJobs ==
    ASSUME TypeOK, NEW h, NEW j \in Job, Moved(h, j), Len(j.counts) <= Len(j.origin)
    PROVE  /\ h \in Handlers /\ jobs[h] \in Job
           /\ DOMAIN jobs' = DOMAIN jobs /\ jobs'[h] = j
           /\ \A g \in DOMAIN jobs : g # h => jobs'[g] = jobs[g]
           /\ DOMAIN jobs' \subseteq Handlers
           /\ jobs' \in [DOMAIN jobs' -> Job]
           /\ \A g \in DOMAIN jobs' : Len(jobs'[g].counts) <= Len(jobs'[g].origin)
BY DEF Moved, TypeOK

\* What each step of a call does to its locals.
LEMMA JobMoves ==
    ASSUME TypeOK, NEW h \in Handlers
    PROVE  /\ Recall(h) =>
                 Moved(h, [jobs[h] EXCEPT !.phase = "decide",
                                          !.candidates = Candidates(index, KeysOf[jobs[h].probe])])
           /\ \A verdict, v, phase : h \in DOMAIN jobs /\ Decide(h, verdict, v, phase) =>
                 Moved(h, [jobs[h] EXCEPT !.phase = phase, !.verdict = verdict, !.target = v])
           /\ \A phase : h \in DOMAIN jobs /\ Advance(h, phase) =>
                 Moved(h, [jobs[h] EXCEPT !.phase = phase])
<1>1. ASSUME h \in DOMAIN jobs
      PROVE  jobs[h] \in Job
  BY <1>1 DEF TypeOK
<1>2. ASSUME NEW a, NEW b, h \in DOMAIN jobs,
             jobs' = [jobs EXCEPT ![h].phase = a, ![h].candidates = b]
      PROVE  Moved(h, [jobs[h] EXCEPT !.phase = a, !.candidates = b])
  BY <1>2 DEF Moved
<1>3. ASSUME NEW a, NEW b, NEW c, h \in DOMAIN jobs,
             jobs' = [jobs EXCEPT ![h].phase = a, ![h].verdict = b, ![h].target = c]
      PROVE  Moved(h, [jobs[h] EXCEPT !.phase = a, !.verdict = b, !.target = c])
  BY <1>3 DEF Moved
<1>4. ASSUME NEW a, h \in DOMAIN jobs, jobs' = [jobs EXCEPT ![h].phase = a]
      PROVE  Moved(h, [jobs[h] EXCEPT !.phase = a])
  BY <1>4 DEF Moved
<1> QED BY <1>2, <1>3, <1>4 DEF Recall, At, Decide, Advance

\* A key's list of times, empty if it has none.
Held(events, key) == IF key \in DOMAIN events THEN events[key] ELSE <<>>

\* What one counted mint does to the table.
LEMMA MintFacts ==
    ASSUME NEW events, events \in [DOMAIN events -> Seq(Nat)], NEW key, NEW secs \in Nat,
           NEW after, after = Pruned(Recorded(events, key, secs), key, secs)
    PROVE  /\ DOMAIN after = IF HasRoom(events, key) THEN DOMAIN events \cup {key}
                             ELSE DOMAIN events
           /\ after \in [DOMAIN after -> Seq(Nat)]
           /\ \A k \in DOMAIN events : k # key => after[k] = events[k]
           /\ ~HasRoom(events, key) => key \notin DOMAIN after
<1> DEFINE more == Recorded(events, key, secs)
<1>1. /\ DOMAIN after = DOMAIN more
      /\ \A k \in DOMAIN more : k # key => after[k] = more[k]
      /\ key \in DOMAIN more => after[key] = Since(more[key], Cutoff(secs))
      /\ after = [k \in DOMAIN after |-> after[k]]
  BY DEF Pruned
<1>2. Cutoff(secs) \in Nat
  BY VelocityAssumption DEF Cutoff
<1>3. CASE ~HasRoom(events, key)
  <2>1. more = events /\ key \notin DOMAIN events
    BY <1>3 DEF Recorded, HasRoom
  <2> HIDE DEF more
  <2> QED BY <1>1, <1>3, <2>1
<1>4. CASE HasRoom(events, key)
  <2>1. /\ DOMAIN more = DOMAIN events \cup {key}
        /\ \A k \in DOMAIN events : k # key => more[k] = events[k]
        /\ more[key] = IF key \in DOMAIN events THEN Append(events[key], secs) ELSE <<secs>>
    BY <1>4 DEF Recorded
  <2> HIDE DEF more
  <2>2. Held(events, key) \in Seq(Nat)
    BY DEF Held
  <2>3. more[key] = Append(Held(events, key), secs)
    <3>1. <<secs>> = Append(<<>>, secs)
      OBVIOUS
    <3>2. CASE key \in DOMAIN events
      BY <2>1, <3>2 DEF Held
    <3>3. CASE key \notin DOMAIN events
      BY <2>1, <3>1, <3>3 DEF Held
    <3> QED BY <3>2, <3>3
  <2>4. more[key] \in Seq(Nat)
    BY <2>2, <2>3
  <2>5. after[key] = Since(more[key], Cutoff(secs))
    BY <1>1, <2>1
  <2>6. after[key] \in Seq(Nat)
    BY <1>2, <2>4, <2>5, SinceKeeps
  <2>7. \A k \in DOMAIN after : after[k] \in Seq(Nat)
    BY <1>1, <2>1, <2>6
  <2>8. after \in [DOMAIN after -> Seq(Nat)]
    BY <1>1, <2>7
  <2> QED BY <1>1, <1>4, <2>1, <2>8
<1> QED BY <1>3, <1>4

\* The counted key's list is appended to and pruned.
LEMMA MintIsHeld ==
    ASSUME NEW events, NEW key, NEW secs \in Nat, HasRoom(events, key),
           NEW after, after = Pruned(Recorded(events, key, secs), key, secs),
           events \in [DOMAIN events -> Seq(Nat)]
    PROVE  after[key] = Since(Append(Held(events, key), secs), Cutoff(secs))
<1> DEFINE more == Recorded(events, key, secs)
<1>1. key \in DOMAIN more => after[key] = Since(more[key], Cutoff(secs))
  BY DEF Pruned
<1>2. /\ key \in DOMAIN more
      /\ more[key] = IF key \in DOMAIN events THEN Append(events[key], secs) ELSE <<secs>>
  BY DEF Recorded
<1> HIDE DEF more
<1>3. more[key] = Append(Held(events, key), secs)
  <2>1. <<secs>> = Append(<<>>, secs)
    OBVIOUS
  <2>2. CASE key \in DOMAIN events
    BY <1>2, <2>2 DEF Held
  <2>3. CASE key \notin DOMAIN events
    BY <1>2, <2>1, <2>3 DEF Held
  <2> QED BY <2>2, <2>3
<1> QED BY <1>1, <1>2, <1>3

\* The seconds of a request's time.
LEMMA SecondsAreNatural == ASSUME NEW t \in Nat PROVE t \div Second \in Nat
BY FuzzyStoreAssumption

---------------------------------------------------------------------------
\* Who holds the lock.
LEMMA Holder ==
    ASSUME TypeOK, LockIsHeld, NEW h \in DOMAIN jobs, jobs[h].phase # "recall"
    PROVE  /\ lock = h /\ h \in Handlers /\ lock # "free" /\ erasing = {}
           /\ \A g \in DOMAIN jobs : g # h => jobs[g].phase = "recall"
BY FuzzyStoreAssumption DEF TypeOK, LockIsHeld

\* While the lock is free nobody is past its recall and nothing is being erased.
LEMMA NobodyHolds ==
    ASSUME TypeOK, LockIsHeld, lock = "free"
    PROVE  erasing = {} /\ \A g \in DOMAIN jobs : jobs[g].phase = "recall"
BY FuzzyStoreAssumption DEF TypeOK, LockIsHeld

\* While a visitor is being erased no call is past its recall.
LEMMA EraserHolds ==
    ASSUME TypeOK, LockIsHeld, erasing # {}
    PROVE  \A g \in DOMAIN jobs : jobs[g].phase = "recall"
BY FuzzyStoreAssumption DEF TypeOK, LockIsHeld

\* What the blocks recall are visitor ids.
LEMMA CandidatesAreProbes ==
    ASSUME TypeOK, NEW p \in Probes
    PROVE  Candidates(index, KeysOf[p]) \subseteq Probes
BY FuzzyStoreAssumption DEF TypeOK, Candidates

\* A counted mint appends one count; the last of them ends the counting.
LEMMA CountMintMoves ==
    ASSUME StoreInv, NEW h \in Handlers, CountMint(h)
    PROVE  LET job == jobs[h]
               n == Len(job.counts) + 1
               key == job.origin[n]
               secs == job.now \div Second
               events == Pruned(Recorded(velocity, key, secs), key, secs)
               j == [job EXCEPT !.counts = Append(job.counts, Count(events, key)),
                                !.phase = IF n = Len(job.origin) THEN "answer" ELSE "count"]
           IN  /\ job \in Job /\ n \in DOMAIN job.origin
               /\ key \in VelocityKeys /\ secs \in Nat
               /\ velocity' = events /\ Count(events, key) \in Nat
               /\ tally' = [tally EXCEPT !.mints[key] = Append(tally.mints[key], secs)]
               /\ j \in Job /\ Moved(h, j) /\ Len(j.counts) = n
               /\ UNCHANGED <<outside, lock, erasing, frequency, agreement, library>>
<1> DEFINE job == jobs[h]
           n == Len(job.counts) + 1
           key == job.origin[n]
           secs == job.now \div Second
           events == Pruned(Recorded(velocity, key, secs), key, secs)
           counts == Append(job.counts, Count(events, key))
           j == [job EXCEPT !.counts = counts,
                            !.phase = IF n = Len(job.origin) THEN "answer" ELSE "count"]
<1>1. h \in DOMAIN jobs /\ job \in Job /\ job.phase = "count" /\ TypeOK
  BY DEF CountMint, At, StoreInv, TypeOK
<1>2. Len(job.counts) < Len(job.origin)
  BY <1>1 DEF StoreInv, ListsAreOfMints
<1>3. job.origin \in Origins /\ job.counts \in Seq(Nat) /\ job.now \in Nat
  BY <1>1 DEF Job
<1>4. job.origin \in Seq(VelocityKeys)
  BY <1>3, FuzzyStoreAssumption
<1>5. n \in DOMAIN job.origin /\ key \in VelocityKeys
  BY <1>2, <1>3, <1>4
<1>6. secs \in Nat
  BY <1>3, SecondsAreNatural
<1>7. velocity' = events
  BY DEF CountMint
<1>8. Count(events, key) \in Nat
  <2>1. velocity \in [DOMAIN velocity -> Seq(Nat)]
    BY <1>1 DEF TypeOK
  <2>2. events \in [DOMAIN events -> Seq(Nat)]
    BY <1>6, <2>1, MintFacts
  <2> HIDE DEF events, key
  <2> QED BY <2>2 DEF Count
<1>9. tally' = [tally EXCEPT !.mints[key] = Append(tally.mints[key], secs)]
  BY DEF CountMint
<1>10. counts \in Seq(Nat) /\ Len(counts) = n
  <2> HIDE DEF events, key
  <2> QED BY <1>3, <1>8
<1>11. Moved(h, j)
  <2>1. jobs' = [jobs EXCEPT ![h].counts = counts,
                             ![h].phase = IF Len(counts) = Len(job.origin) THEN "answer" ELSE @]
    BY DEF CountMint
  <2> HIDE DEF counts, n
  <2>2. jobs' = [jobs EXCEPT ![h] = j]
    BY <1>1, <1>10, <2>1
  <2> QED BY <1>1, <2>2 DEF Moved
<1>12. j \in Job
  <2> HIDE DEF counts, n
  <2> QED BY <1>1, <1>10 DEF Job, Phases
<1>13. j.counts = counts
  <2> HIDE DEF counts, n
  <2> QED BY <1>1 DEF Job
<1>14. UNCHANGED <<outside, lock, erasing, frequency, agreement, library>>
  BY DEF CountMint
<1> HIDE DEF events, counts, n, key, secs
<1> QED BY <1>1, <1>5, <1>6, <1>7, <1>8, <1>9, <1>10, <1>11, <1>12, <1>13, <1>14
        DEF events, counts, n, key, secs

\* Every step of a call but its last keeps it among the jobs, past its first
\* step and with the lock.
LEMMA CallMoves ==
    ASSUME StoreInv, NEW h \in Handlers, Identify(h), ~Answer(h)
    PROVE  \E j \in Job : /\ Moved(h, j) /\ j.phase # "recall"
                          /\ Len(j.counts) <= Len(j.origin)
                          /\ lock' = h /\ erasing' = erasing
<1>a. TypeOK /\ LockIsHeld
  BY DEF StoreInv
<1>b. ASSUME h \in DOMAIN jobs
      PROVE  /\ jobs[h] \in Job /\ jobs[h].probe \in Probes
             /\ Len(jobs[h].counts) <= Len(jobs[h].origin)
  BY <1>a, <1>b DEF TypeOK, Job
<1>c. ASSUME NEW phase, At(h, phase), phase # "recall"
      PROVE  lock = h
  BY <1>a, <1>c, Holder DEF At
<1>1. CASE Recall(h)
  <2> DEFINE j == [jobs[h] EXCEPT !.phase = "decide",
                                  !.candidates = Candidates(index, KeysOf[jobs[h].probe])]
  <2>1. h \in DOMAIN jobs /\ Moved(h, j) /\ lock' = h /\ erasing' = erasing
    BY <1>a, <1>1, JobMoves DEF Recall, At
  <2>2. Candidates(index, KeysOf[jobs[h].probe]) \subseteq Probes
    BY <1>a, <1>b, <2>1, CandidatesAreProbes
  <2>3. /\ j \in Job /\ j.phase = "decide" /\ j.counts = jobs[h].counts
        /\ j.origin = jobs[h].origin
    BY <1>b, <2>1, <2>2 DEF Job, Phases
  <2> HIDE DEF j
  <2> QED BY <1>b, <2>1, <2>3
<1>2. ASSUME NEW verdict \in {"match", "review", "new"}, NEW v \in Probes,
             NEW phase \in Phases \ {"recall"},
             At(h, "decide"), Decide(h, verdict, v, phase)
      PROVE  \E j \in Job : /\ Moved(h, j) /\ j.phase # "recall"
                            /\ Len(j.counts) <= Len(j.origin)
                            /\ lock' = h /\ erasing' = erasing
  <2> DEFINE j == [jobs[h] EXCEPT !.phase = phase, !.verdict = verdict, !.target = v]
  <2>1. h \in DOMAIN jobs /\ Moved(h, j) /\ lock' = h /\ erasing' = erasing
    BY <1>a, <1>c, <1>2, JobMoves DEF Decide, At
  <2>2. /\ j \in Job /\ j.phase = phase /\ j.counts = jobs[h].counts
        /\ j.origin = jobs[h].origin
    BY <1>b, <1>2, <2>1 DEF Job
  <2> HIDE DEF j
  <2> QED BY <1>b, <1>2, <2>1, <2>2
<1>3. ASSUME NEW v \in Scorable(h), At(h, "decide")
      PROVE  v \in Probes
  BY <1>a, <1>3 DEF Scorable, At, TypeOK, Job
<1>4. CASE DecideMatch(h)
  <2>1. PICK v \in Scorable(h) : Decide(h, "match", v, "agree")
    BY <1>4 DEF DecideMatch
  <2> QED BY <1>2, <1>3, <1>4, <2>1 DEF DecideMatch, Phases
<1>5. CASE DecideReview(h)
  <2>1. PICK v \in Scorable(h) : Decide(h, "review", v, "answer")
    BY <1>5 DEF DecideReview
  <2> QED BY <1>2, <1>3, <1>5, <2>1 DEF DecideReview, Phases
<1>6. CASE DecideNew(h)
  BY <1>b, <1>2, <1>6 DEF DecideNew, At, Visitor, Phases
<1>7. ASSUME NEW before, before # "recall", At(h, before),
             NEW phase \in Phases \ {"recall"}, Advance(h, phase),
             lock' = lock, erasing' = erasing
      PROVE  \E j \in Job : /\ Moved(h, j) /\ j.phase # "recall"
                            /\ Len(j.counts) <= Len(j.origin)
                            /\ lock' = h /\ erasing' = erasing
  <2> DEFINE j == [jobs[h] EXCEPT !.phase = phase]
  <2>1. h \in DOMAIN jobs /\ Moved(h, j) /\ lock' = h /\ erasing' = erasing
    BY <1>a, <1>c, <1>7, JobMoves DEF At
  <2>2. /\ j \in Job /\ j.phase = phase /\ j.counts = jobs[h].counts
        /\ j.origin = jobs[h].origin
    BY <1>b, <1>7, <2>1 DEF Job
  <2> HIDE DEF j
  <2> QED BY <1>b, <1>7, <2>1, <2>2
<1>8. CASE Agree(h)
  BY <1>7, <1>8 DEF Agree, Phases
<1>9. CASE Sight(h)
  BY <1>7, <1>9 DEF Sight, Phases
<1>10. CASE Index(h)
  BY <1>7, <1>10 DEF Index, Phases
<1>11. CASE Fold(h)
  BY <1>7, <1>11 DEF Fold, Phases
<1>12. CASE CountMint(h)
  <2>1. h \in DOMAIN jobs /\ lock' = h /\ erasing' = erasing
    BY <1>c, <1>12 DEF CountMint, At
  <2>2. PICK j \in Job : /\ Moved(h, j) /\ j.phase \in {"answer", "count"}
                         /\ Len(j.counts) \in DOMAIN jobs[h].origin
                         /\ j.origin = jobs[h].origin
    <3> DEFINE n == Len(jobs[h].counts) + 1
               key == jobs[h].origin[n]
               secs == jobs[h].now \div Second
               events == Pruned(Recorded(velocity, key, secs), key, secs)
               k == [jobs[h] EXCEPT !.counts = Append(jobs[h].counts, Count(events, key)),
                                    !.phase = IF n = Len(jobs[h].origin) THEN "answer" ELSE "count"]
    <3>1. k \in Job /\ Moved(h, k) /\ Len(k.counts) = n /\ n \in DOMAIN jobs[h].origin
      BY <1>12, CountMintMoves
    <3> HIDE DEF n, events, key
    <3>2. k.phase \in {"answer", "count"} /\ k.origin = jobs[h].origin
      BY <1>b, <2>1 DEF Job
    <3> QED BY <3>1, <3>2
  <2>3. j.origin \in Seq(VelocityKeys)
    BY FuzzyStoreAssumption DEF Job
  <2> QED BY <2>1, <2>2, <2>3
<1> QED BY <1>1, <1>4, <1>5, <1>6, <1>8, <1>9, <1>10, <1>11, <1>12 DEF Identify

\* A call's last step takes it away and gives the lock back.
LEMMA CallEnds ==
    ASSUME StoreInv, NEW h \in Handlers, Answer(h)
    PROVE  /\ lock = h /\ lock' = "free"
           /\ DOMAIN jobs' = DOMAIN jobs \ {h} /\ h \in DOMAIN jobs
           /\ jobs' \in [DOMAIN jobs' -> Job]
           /\ \A g \in DOMAIN jobs' : jobs'[g] = jobs[g]
<1>1. h \in DOMAIN jobs /\ jobs[h].phase # "recall"
  BY DEF Answer, At
<1>2. lock = h
  BY <1>1, Holder DEF StoreInv
<1> QED BY <1>1, <1>2 DEF Answer, Released, StoreInv, TypeOK

\* A new call has done nothing yet.
LEMMA CallArrives ==
    ASSUME TypeOK, NEW h \in Handlers, NEW p \in Probes, NEW o \in Origins, Arrive(h, p, o)
    PROVE  /\ h \notin DOMAIN jobs /\ DOMAIN jobs' = DOMAIN jobs \cup {h}
           /\ jobs' \in [DOMAIN jobs' -> Job]
           /\ jobs'[h].probe = p /\ jobs'[h].now = clock
           /\ jobs'[h].phase = "recall" /\ jobs'[h].counts = <<>>
           /\ jobs'[h].origin = o
           /\ \A g \in DOMAIN jobs : jobs'[g] = jobs[g]
<1> DEFINE j == [probe |-> p, now |-> clock, origin |-> o,
                 phase |-> "recall", candidates |-> {}, target |-> Visitor(p),
                 verdict |-> "none", counts |-> <<>>]
<1>1. /\ h \notin DOMAIN jobs
      /\ jobs' = [g \in DOMAIN jobs \cup {h} |-> IF g # h THEN jobs[g] ELSE j]
  BY DEF Arrive
<1>2. j \in Job
  BY DEF TypeOK, Job, Phases, Visitor
<1> HIDE DEF j
<1>3. /\ jobs'[h] = j /\ DOMAIN jobs' = DOMAIN jobs \cup {h}
      /\ \A g \in DOMAIN jobs : jobs'[g] = jobs[g]
  BY <1>1
<1>4. jobs' \in [DOMAIN jobs' -> Job]
  BY <1>1, <1>2, <1>3 DEF TypeOK
<1> QED BY <1>1, <1>3, <1>4 DEF j

\* One call at a time.
LEMMA NextLockIsHeld == StoreInv /\ [Next]_vars => LockIsHeld'
<1> SUFFICES ASSUME StoreInv, [Next]_vars PROVE LockIsHeld'
  OBVIOUS
<1>a. TypeOK /\ LockIsHeld
  BY DEF StoreInv
<1>1. CASE UNCHANGED <<lock, jobs, erasing>>
  BY <1>a, <1>1 DEF LockIsHeld
<1>2. ASSUME NEW h \in Handlers, NEW p \in Probes, NEW o \in Origins, Arrive(h, p, o)
      PROVE  LockIsHeld'
  <2>1. lock' = lock /\ erasing' = erasing
    BY <1>2 DEF Arrive
  <2>2. /\ h \notin DOMAIN jobs /\ DOMAIN jobs' = DOMAIN jobs \cup {h}
        /\ jobs'[h].phase = "recall"
        /\ \A g \in DOMAIN jobs : jobs'[g] = jobs[g]
    BY <1>a, <1>2, CallArrives
  <2>3. lock # h
    BY <1>a, <2>2 DEF LockIsHeld
  <2> QED BY <1>a, <2>1, <2>2, <2>3 DEF LockIsHeld
<1>3. ASSUME NEW h \in Handlers, Identify(h), ~Answer(h)
      PROVE  LockIsHeld'
  <2>1. PICK j \in Job : /\ Moved(h, j) /\ j.phase # "recall"
                         /\ Len(j.counts) <= Len(j.origin)
                         /\ lock' = h /\ erasing' = erasing
    BY <1>3, CallMoves
  <2>2. /\ h \in DOMAIN jobs /\ DOMAIN jobs' = DOMAIN jobs /\ jobs'[h] = j
        /\ \A g \in DOMAIN jobs : g # h => jobs'[g] = jobs[g]
    BY <1>a, <2>1, MovedJobs DEF Moved
  <2>3. erasing = {} /\ \A g \in DOMAIN jobs : g # h => jobs[g].phase = "recall"
    <3>1. CASE Recall(h)
      BY <1>a, <3>1, NobodyHolds DEF Recall, Unlocked
    <3>2. CASE ~Recall(h)
      <4>1. h \in DOMAIN jobs /\ jobs[h].phase # "recall"
        BY <1>3, <3>2 DEF Identify, DecideMatch, DecideReview, DecideNew, Agree, Sight,
                          Index, Fold, CountMint, At
      <4> QED BY <1>a, <4>1, Holder
    <3> QED BY <3>1, <3>2
  <2> QED BY <2>1, <2>2, <2>3, FuzzyStoreAssumption DEF LockIsHeld
<1>4. ASSUME NEW h \in Handlers, Answer(h)
      PROVE  LockIsHeld'
  <2>1. erasing' = erasing
    BY <1>4 DEF Answer
  <2>2. /\ lock = h /\ lock' = "free"
        /\ DOMAIN jobs' = DOMAIN jobs \ {h}
        /\ \A g \in DOMAIN jobs' : jobs'[g] = jobs[g]
    BY <1>4, CallEnds
  <2>3. erasing = {}
    BY <1>a, <2>2, FuzzyStoreAssumption DEF LockIsHeld
  <2>4. \A g \in DOMAIN jobs' : jobs'[g].phase = "recall" /\ g # "free"
    BY <1>a, <2>2, FuzzyStoreAssumption DEF LockIsHeld, TypeOK
  <2> QED BY <2>1, <2>2, <2>3, <2>4, FuzzyStoreAssumption DEF LockIsHeld
<1>5. ASSUME NEW v \in Probes, EraseRecord(v)
      PROVE  LockIsHeld'
  <2>1. lock = "free" /\ lock' = "eraser" /\ erasing' = {v} /\ jobs' = jobs
    BY <1>5 DEF EraseRecord, Unlocked
  <2>2. \A g \in DOMAIN jobs : jobs[g].phase = "recall" /\ g \in Handlers
    BY <1>a, <2>1, NobodyHolds DEF TypeOK
  <2> QED BY <2>1, <2>2, FuzzyStoreAssumption DEF LockIsHeld
<1>6. CASE EraseBlocks
  <2>1. erasing # {} /\ lock' = "free" /\ erasing' = {} /\ jobs' = jobs
    BY <1>6 DEF EraseBlocks
  <2>2. \A g \in DOMAIN jobs : jobs[g].phase = "recall" /\ g \in Handlers
    BY <1>a, <2>1, EraserHolds DEF TypeOK
  <2> QED BY <2>1, <2>2, FuzzyStoreAssumption DEF LockIsHeld
<1> QED BY <1>1, <1>2, <1>3, <1>4, <1>5, <1>6
        DEF Next, Identify, Tick, SweepTick, Purge, vars

---------------------------------------------------------------------------
\* What the call in progress has read still stands.

\* A call that has not begun, or whose write has taken effect, relies on nothing.
LEMMA IdleStands ==
    ASSUME NEW g, jobs'[g].phase \in {"recall", "count", "answer"}
    PROVE  JobStands(jobs[g])'
BY DEF JobStands

\* A step of the call that holds the lock concerns its own locals only.
LEMMA OwnReadsStand ==
    ASSUME StoreInv, NEW h \in Handlers, NEW j \in Job, Moved(h, j),
           Len(j.counts) <= Len(j.origin), erasing = {}, erasing' = {},
           \A g \in DOMAIN jobs : g # h => jobs[g].phase = "recall",
           JobStands(jobs[h])'
    PROVE  ReadsStand'
<1>1. /\ DOMAIN jobs' = DOMAIN jobs
      /\ \A g \in DOMAIN jobs : g # h => jobs'[g] = jobs[g]
  BY MovedJobs DEF StoreInv
<1>2. ASSUME NEW g \in DOMAIN jobs'
      PROVE  JobStands(jobs[g])'
  BY <1>1, IdleStands
<1> QED BY <1>2 DEF ReadsStand

\* A call's own steps keep what it has read true: the lock keeps everybody else
\* away, and its own writes come in the order its phase says.
LEMMA CallReadsStand ==
    ASSUME StoreInv, NEW h \in Handlers, Identify(h), ~Answer(h)
    PROVE  ReadsStand'
<1>a. TypeOK /\ LockIsHeld /\ ReadsStand
  BY DEF StoreInv
<1>1. PICK j \in Job : /\ Moved(h, j) /\ j.phase # "recall"
                       /\ Len(j.counts) <= Len(j.origin)
                       /\ lock' = h /\ erasing' = erasing
  BY CallMoves
<1>2. h \in DOMAIN jobs /\ jobs[h] \in Job /\ jobs'[h] = j
  BY <1>a, <1>1, MovedJobs DEF Moved
<1>3. erasing = {} /\ \A g \in DOMAIN jobs : g # h => jobs[g].phase = "recall"
  <2>1. CASE Recall(h)
    BY <1>a, <2>1, NobodyHolds DEF Recall, Unlocked
  <2>2. CASE ~Recall(h)
    <3>1. jobs[h].phase # "recall"
      BY <2>2 DEF Identify, DecideMatch, DecideReview, DecideNew, Agree, Sight,
                  Index, Fold, CountMint, At
    <3> QED BY <1>a, <1>2, <3>1, Holder
  <2> QED BY <2>1, <2>2
<1>4. SUFFICES JobStands(jobs[h])'
  BY <1>1, <1>3, OwnReadsStand
<1>5. JobStands(jobs[h])
  BY <1>a, <1>2 DEF ReadsStand
<1>6. CASE Recall(h)
  <2>1. /\ index' = index /\ records' = records
        /\ saved' = [records |-> records, index |-> index]
        /\ Moved(h, [jobs[h] EXCEPT !.phase = "decide",
                                    !.candidates = Candidates(index, KeysOf[jobs[h].probe])])
    BY <1>a, <1>6, JobMoves DEF Recall
  <2>2. /\ jobs'[h].phase = "decide" /\ jobs'[h].probe = jobs[h].probe
        /\ jobs'[h].candidates = Candidates(index, KeysOf[jobs[h].probe])
    BY <1>2, <2>1 DEF Moved, TypeOK, Job
  <2> QED BY <2>1, <2>2 DEF JobStands
<1>7. ASSUME NEW verdict, NEW v, NEW phase, Decide(h, verdict, v, phase)
      PROVE  /\ UNCHANGED <<index, saved, records>>
             /\ jobs'[h].phase = phase /\ jobs'[h].verdict = verdict
             /\ jobs'[h].target = v /\ jobs'[h].probe = jobs[h].probe
  <2>1. Moved(h, [jobs[h] EXCEPT !.phase = phase, !.verdict = verdict, !.target = v])
    BY <1>a, <1>2, <1>7, JobMoves
  <2>2. jobs'[h] = [jobs[h] EXCEPT !.phase = phase, !.verdict = verdict, !.target = v]
    BY <1>2, <2>1 DEF Moved
  <2>3. /\ jobs'[h].phase = phase /\ jobs'[h].verdict = verdict
        /\ jobs'[h].target = v /\ jobs'[h].probe = jobs[h].probe
    BY <1>2, <2>2 DEF Job
  <2>4. UNCHANGED <<index, saved, records>>
    BY <1>7 DEF Decide, library
  <2> QED BY <2>3, <2>4
<1>8. CASE DecideMatch(h)
  <2>1. PICK v \in Scorable(h) : Decide(h, "match", v, "agree")
    BY <1>8 DEF DecideMatch
  <2>2. /\ jobs[h].phase = "decide" /\ index = saved.index /\ records = saved.records
        /\ jobs[h].candidates = Candidates(saved.index, KeysOf[jobs[h].probe])
    BY <1>5, <1>8 DEF DecideMatch, At, JobStands
  <2>3. v \in Comparable(jobs[h].probe)
    BY <2>1, <2>2 DEF Scorable, Comparable
  <2> QED BY <1>7, <2>1, <2>2, <2>3 DEF JobStands, Comparable
<1>9. CASE DecideReview(h)
  <2>1. PICK v \in Scorable(h) : Decide(h, "review", v, "answer")
    BY <1>9 DEF DecideReview
  <2> QED BY <1>7, <2>1, IdleStands
<1>10. CASE DecideNew(h)
  <2>1. Decide(h, "new", Visitor(jobs[h].probe), "sight")
    BY <1>10 DEF DecideNew
  <2>2. jobs[h].phase = "decide" /\ index = saved.index /\ records = saved.records
    BY <1>5, <1>10 DEF DecideNew, At, JobStands
  <2> QED BY <1>7, <2>1, <2>2 DEF JobStands, Visitor
<1>11. ASSUME NEW phase, Advance(h, phase)
       PROVE  /\ jobs'[h].phase = phase /\ jobs'[h].verdict = jobs[h].verdict
              /\ jobs'[h].target = jobs[h].target /\ jobs'[h].probe = jobs[h].probe
  <2>1. Moved(h, [jobs[h] EXCEPT !.phase = phase])
    BY <1>a, <1>2, <1>11, JobMoves
  <2> QED BY <1>2, <1>11, <2>1 DEF Moved, Job
<1>12. CASE Agree(h)
  <2>1. UNCHANGED <<index, saved, records>> /\ Advance(h, "sight") /\ jobs[h].phase = "agree"
    BY <1>12 DEF Agree, At, library
  <2> QED BY <1>5, <1>11, <2>1 DEF JobStands, Comparable
<1>13. CASE Sight(h)
  <2>1. UNCHANGED <<index, saved, records>> /\ Advance(h, "index") /\ jobs[h].phase = "sight"
    BY <1>13 DEF Sight, At, library
  <2> QED BY <1>5, <1>11, <2>1 DEF JobStands, Comparable
<1>14. CASE Index(h)
  <2>1. /\ UNCHANGED <<saved, records>> /\ Advance(h, "fold") /\ jobs[h].phase = "index"
        /\ index' = InsertAll(index, KeysOf[jobs[h].probe], jobs[h].target)
    BY <1>14 DEF Index, At
  <2> QED BY <1>5, <1>11, <2>1 DEF JobStands, Comparable
<1>15. CASE Fold(h)
  BY <1>11, <1>15, IdleStands DEF Fold
<1>16. CASE CountMint(h)
  <2>1. jobs[h].phase = "count"
    BY <1>16 DEF CountMint, At
  <2>2. \E counts, phase : /\ phase \in {"answer", "count"}
                           /\ Moved(h, [jobs[h] EXCEPT !.counts = counts, !.phase = phase])
    BY <1>16, CountMintMoves
  <2>3. jobs'[h].phase \in {"answer", "count"}
    BY <1>2, <2>2 DEF Moved, Job
  <2> QED BY <2>3, IdleStands
<1> QED BY <1>6, <1>8, <1>9, <1>10, <1>12, <1>13, <1>14, <1>15, <1>16 DEF Identify

\* What a call in progress has read stands through every step of anybody.
LEMMA NextReadsStand == StoreInv /\ [Next]_vars => ReadsStand'
<1> SUFFICES ASSUME StoreInv, [Next]_vars PROVE ReadsStand'
  OBVIOUS
<1>a. TypeOK /\ LockIsHeld /\ ReadsStand
  BY DEF StoreInv
<1>1. ASSUME UNCHANGED <<index, saved, records, erasing>>,
             \A g \in DOMAIN jobs' : \/ g \in DOMAIN jobs /\ jobs'[g] = jobs[g]
                                     \/ jobs'[g].phase = "recall"
      PROVE  ReadsStand'
  <2>1. ASSUME NEW g \in DOMAIN jobs'
        PROVE  JobStands(jobs[g])'
    <3>1. CASE g \in DOMAIN jobs /\ jobs'[g] = jobs[g]
      <4>1. JobStands(jobs[g])
        BY <1>a, <3>1 DEF ReadsStand
      <4> QED BY <1>1, <3>1, <4>1 DEF JobStands, Comparable
    <3>2. CASE jobs'[g].phase = "recall"
      BY <3>2, IdleStands
    <3> QED BY <1>1, <3>1, <3>2
  <2> QED BY <1>a, <1>1, <2>1 DEF ReadsStand
<1>2. CASE Tick \/ SweepTick \/ UNCHANGED vars
  BY <1>1, <1>2 DEF Tick, SweepTick, vars, library
<1>3. ASSUME NEW h \in Handlers, NEW p \in Probes, NEW o \in Origins, Arrive(h, p, o)
      PROVE  ReadsStand'
  <2>1. UNCHANGED <<index, saved, records, erasing>>
    BY <1>3 DEF Arrive, library
  <2>2. /\ DOMAIN jobs' = DOMAIN jobs \cup {h} /\ jobs'[h].phase = "recall"
        /\ \A g \in DOMAIN jobs : jobs'[g] = jobs[g]
    BY <1>a, <1>3, CallArrives
  <2> QED BY <1>1, <2>1, <2>2
<1>4. ASSUME NEW h \in Handlers, Identify(h), ~Answer(h)
      PROVE  ReadsStand'
  BY <1>4, CallReadsStand
<1>5. ASSUME NEW h \in Handlers, Answer(h)
      PROVE  ReadsStand'
  <2>1. UNCHANGED <<index, saved, records, erasing>>
    BY <1>5 DEF Answer, library
  <2>2. \A g \in DOMAIN jobs' : g \in DOMAIN jobs /\ jobs'[g] = jobs[g]
    BY <1>5, CallEnds
  <2> QED BY <1>1, <2>1, <2>2
<1>6. ASSUME jobs' = jobs, \A g \in DOMAIN jobs : jobs[g].phase = "recall",
             \A v \in erasing' : index' = saved'.index /\ records' = Removed(saved'.records, v)
      PROVE  ReadsStand'
  <2>1. \A g \in DOMAIN jobs' : JobStands(jobs[g])'
    BY <1>6, IdleStands
  <2> QED BY <1>6, <2>1 DEF ReadsStand
<1>7. ASSUME NEW v \in Probes, EraseRecord(v)
      PROVE  ReadsStand'
  <2>1. /\ jobs' = jobs /\ lock = "free" /\ erasing' = {v} /\ index' = index
        /\ saved' = [records |-> records, index |-> index]
        /\ records' = Removed(records, v)
    BY <1>7 DEF EraseRecord, Unlocked
  <2>2. \A g \in DOMAIN jobs : jobs[g].phase = "recall"
    BY <1>a, <2>1, NobodyHolds
  <2> QED BY <1>6, <2>1, <2>2
<1>8. CASE EraseBlocks
  <2>1. jobs' = jobs /\ erasing' = {} /\ erasing # {}
    BY <1>8 DEF EraseBlocks
  <2> QED BY <1>6, <1>a, <2>1, EraserHolds
<1>9. CASE Purge
  <2>1. jobs' = jobs /\ erasing' = erasing /\ lock = "free"
    BY <1>9 DEF Purge, Unlocked
  <2> QED BY <1>6, <1>a, <2>1, NobodyHolds
<1> QED BY <1>2, <1>3, <1>4, <1>5, <1>7, <1>8, <1>9 DEF Next

---------------------------------------------------------------------------
\* The aggregate tables.

\* The new keys that find room leave the table within its cap.
LEMMA AdmittedFacts ==
    ASSUME NEW tracked, IsFiniteSet(tracked), NEW new, IsFiniteSet(new), tracked \cap new = {},
           NEW cap \in Nat, Cardinality(tracked) <= cap, NEW kept \in Admitted(tracked, new, cap)
    PROVE  /\ kept \subseteq new
           /\ IsFiniteSet(tracked \cup kept) /\ Cardinality(tracked \cup kept) <= cap
<1> DEFINE room == Room(tracked, cap)
<1>1. Cardinality(tracked) \in Nat
  BY FS_CardinalityType
<1>2. room \in Nat /\ room + Cardinality(tracked) <= cap
  BY <1>1 DEF Room
<1>3. kept \subseteq new /\ Cardinality(kept) <= room
  <2>1. CASE Cardinality(new) <= room
    BY <2>1 DEF Admitted
  <2>2. CASE ~(Cardinality(new) <= room)
    <3>1. kept \in kSubset(room, new)
      BY <2>2 DEF Admitted
    <3>2. kept \subseteq new /\ Cardinality(kept) = room
      BY <3>1 DEF kSubset
    <3> QED BY <1>2, <3>2
  <2> QED BY <2>1, <2>2
<1>4. IsFiniteSet(kept) /\ Cardinality(kept) \in Nat
  BY <1>3, FS_Subset, FS_CardinalityType
<1>5. Cardinality(tracked \cap kept) = 0
  <2>1. tracked \cap kept = {}
    BY <1>3
  <2> QED BY <2>1, FS_EmptySet
<1>6. /\ IsFiniteSet(tracked \cup kept)
      /\ Cardinality(tracked \cup kept) =
             Cardinality(tracked) + Cardinality(kept) - Cardinality(tracked \cap kept)
  BY <1>4, FS_Union
<1> HIDE DEF room
<1> QED BY <1>1, <1>2, <1>3, <1>4, <1>5, <1>6

\* A frequency table that adds up still does after the sightings of one observation.
IsSound(table) ==
    /\ IsFiniteSet(DOMAIN table.count)
    /\ Cardinality(DOMAIN table.count) <= MaxFrequencyValues
    /\ table.count \in [DOMAIN table.count -> Nat \ {0}]
    /\ table.total \in Nat /\ table.dropped \in Nat
    /\ table.total = SumOver(table.count, DOMAIN table.count)

\* Recording a set of sightings keeps a frequency table sound, and every sighting
\* of it is in the total or in the dropped.
LEMMA SightedFacts ==
    ASSUME NEW table, IsSound(table),
           NEW seen, IsFiniteSet(DOMAIN seen), \A x \in DOMAIN seen : seen[x] \in Nat \ {0},
           NEW kept \in Admitted(DOMAIN table.count, DOMAIN seen \ DOMAIN table.count,
                                 MaxFrequencyValues),
           NEW after, after = Sighted(table, seen, kept)
    PROVE  /\ IsSound(after)
           /\ after.total + after.dropped =
                  table.total + table.dropped + SumOver(seen, DOMAIN seen)
<1> DEFINE D == DOMAIN table.count
           S == DOMAIN seen
           T == D \cup kept
<1>0. /\ IsFiniteSet(DOMAIN table.count)
      /\ Cardinality(DOMAIN table.count) <= MaxFrequencyValues
      /\ \A x \in DOMAIN table.count : table.count[x] \in Nat \ {0}
      /\ table.total \in Nat /\ table.dropped \in Nat
      /\ table.total = SumOver(table.count, DOMAIN table.count)
  BY DEF IsSound
<1>1. kept \subseteq S \ D /\ IsFiniteSet(T) /\ Cardinality(T) <= MaxFrequencyValues
  <2>1. IsFiniteSet(S \ D) /\ D \cap (S \ D) = {}
    BY FS_Difference
  <2> HIDE DEF D, S
  <2> QED BY <1>0, <2>1, AdmittedFacts, AggregateAssumption DEF D, S
<1>2. /\ after.count = [x \in T |-> (IF x \in D THEN table.count[x] ELSE 0)
                                    + (IF x \in S THEN seen[x] ELSE 0)]
      /\ after.total = table.total + SumOver(seen, S \cap T)
      /\ after.dropped = table.dropped + SumOver(seen, S \ T)
  BY DEF Sighted
<1>3. /\ DOMAIN after.count = T
      /\ \A x \in T : after.count[x] = (IF x \in D THEN table.count[x] ELSE 0)
                                       + (IF x \in S \cap T THEN seen[x] ELSE 0)
  BY <1>2
<1>4. \A x \in T : after.count[x] \in Nat \ {0}
  <2>1. \A x \in T : x \in D \/ x \in S \cap T
    BY <1>1
  <2> HIDE DEF T, D, S
  <2> QED BY <1>0, <1>3, <2>1 DEF D, S
<1>5. after.count \in [DOMAIN after.count -> Nat \ {0}]
  <2> HIDE DEF T, D, S
  <2>1. after.count = [x \in DOMAIN after.count |-> after.count[x]]
    BY <1>2
  <2> QED BY <1>3, <1>4, <2>1
<1>6. /\ IsFiniteSet(S \cap T) /\ IsFiniteSet(S \ T)
      /\ SumOver(seen, S \cap T) \in Nat /\ SumOver(seen, S \ T) \in Nat
  <2>1. IsFiniteSet(S \cap T) /\ IsFiniteSet(S \ T)
    <3>1. S \cap T \in SUBSET S /\ S \ T \in SUBSET S
      OBVIOUS
    <3> QED BY <3>1, FS_Subset
  <2>2. \A x \in S : seen[x] \in Nat
    OBVIOUS
  <2> HIDE DEF S, T
  <2> QED BY <2>1, <2>2, SumFacts
<1>7. SumOver(after.count, T) = SumOver(table.count, D) + SumOver(seen, S \cap T)
  <2>1. D \in SUBSET T /\ S \cap T \in SUBSET T
    OBVIOUS
  <2>2. /\ \A x \in D : table.count[x] \in Nat
        /\ \A x \in S \cap T : seen[x] \in Nat
    BY <1>0
  <2> HIDE DEF D, S, T
  <2> QED BY <1>1, <1>3, <2>1, <2>2, SumOfParts
<1>8. SumOver(seen, S) = SumOver(seen, S \cap T) + SumOver(seen, S \ T)
  <2>1. S \cap T \in SUBSET S /\ S \ T \in SUBSET S
    OBVIOUS
  <2>2. /\ \A x \in S : seen[x] \in Nat
        /\ \A x \in S : seen[x] = (IF x \in S \cap T THEN seen[x] ELSE 0)
                                  + (IF x \in S \ T THEN seen[x] ELSE 0)
    OBVIOUS
  <2>3. IsFiniteSet(S)
    OBVIOUS
  <2> HIDE DEF S, T
  <2>4. \A x \in S \cap T : seen[x] \in Nat
    BY <2>2
  <2>5. \A x \in S \ T : seen[x] \in Nat
    BY <2>2
  <2> QED BY <2>1, <2>2, <2>3, <2>4, <2>5, SumOfParts
<1> HIDE DEF T, S
<1> QED BY <1>0, <1>1, <1>2, <1>3, <1>5, <1>6, <1>7, <1>8 DEF S, IsSound

\* The scalar values of an observation are sighted once each, component by
\* component.
LEMMA SightingsFacts ==
    ASSUME NEW stored, IsFiniteSet(DOMAIN stored)
    PROVE  /\ IsFiniteSet(DOMAIN Sightings(stored))
           /\ \A x \in DOMAIN Sightings(stored) : Sightings(stored)[x] \in Nat \ {0}
           /\ SumOver(Sightings(stored), DOMAIN Sightings(stored)) = Cardinality(Scalars(stored))
           /\ Cardinality(Scalars(stored)) \in Nat
<1> DEFINE N == Scalars(stored)
           of == [n \in N |-> stored[n].of]
           S == {stored[n].of : n \in N}
           f == Sightings(stored)
<1>1. IsFiniteSet(N) /\ Cardinality(N) \in Nat
  <2>1. N \in SUBSET DOMAIN stored
    BY DEF Scalars
  <2> HIDE DEF N
  <2> QED BY <2>1, FS_Subset, FS_CardinalityType
<1>2. IsFiniteSet(S)
  <2> HIDE DEF N
  <2>1. of \in Surjection(N, S)
    BY DEF Surjection
  <2> HIDE DEF S, of
  <2> QED BY <1>1, <2>1, FS_Surjection
<1>3. /\ DOMAIN f = S
      /\ \A x \in S : f[x] = Cardinality({n \in N : of[n] = x})
  <2>1. f = [x \in S |-> Cardinality({n \in N : stored[n].of = x})]
    BY DEF Sightings
  <2>2. ASSUME NEW x \in S
        PROVE  {n \in N : stored[n].of = x} = {n \in N : of[n] = x}
    <3> HIDE DEF N
    <3> QED OBVIOUS
  <2> HIDE DEF N, of, S
  <2> QED BY <2>1, <2>2
<1>4. ASSUME NEW x \in S
      PROVE  f[x] \in Nat \ {0}
  <2> DEFINE C == {n \in N : of[n] = x}
  <2>1. C \in SUBSET N
    OBVIOUS
  <2>2. C # {}
    <3> HIDE DEF N
    <3> QED OBVIOUS
  <2> HIDE DEF C, N
  <2>3. IsFiniteSet(C) /\ Cardinality(C) \in Nat /\ Cardinality(C) # 0
    BY <1>1, <2>1, <2>2, FS_Subset, FS_CardinalityType, FS_EmptySet
  <2> HIDE DEF f
  <2> QED BY <1>3, <2>3 DEF C
<1>5. {n \in N : of[n] \in S} = N
  <2> HIDE DEF N
  <2> QED OBVIOUS
<1> HIDE DEF f, N, of, S
<1>6. SumOver(f, S) = Cardinality({n \in N : of[n] \in S})
  BY <1>1, <1>2, <1>3, SumOfClasses
<1> QED BY <1>1, <1>2, <1>3, <1>4, <1>5, <1>6 DEF f, N

\* A table that turned a new key away, or had no room, is full afterwards.
LEMMA AdmittedFills ==
    ASSUME NEW tracked, IsFiniteSet(tracked), NEW new, IsFiniteSet(new), tracked \cap new = {},
           NEW cap \in Nat, NEW kept \in Admitted(tracked, new, cap)
    PROVE  /\ kept \subseteq new /\ IsFiniteSet(tracked \cup kept)
           /\ kept # {} => Cardinality(tracked) < cap
           /\ kept # new \/ Cardinality(tracked) >= cap => Cardinality(tracked \cup kept) >= cap
<1> DEFINE room == Room(tracked, cap)
<1>1. Cardinality(tracked) \in Nat /\ Cardinality(new) \in Nat
  BY FS_CardinalityType
<1>2. /\ room \in Nat
      /\ room = IF Cardinality(tracked) < cap THEN cap - Cardinality(tracked) ELSE 0
  BY <1>1 DEF Room
<1>3. \/ kept = new /\ Cardinality(new) <= room
      \/ kept \subseteq new /\ Cardinality(kept) = room
  BY DEF Admitted, kSubset
<1>4. kept \subseteq new /\ Cardinality(kept) <= room
  BY <1>2, <1>3
<1>5. IsFiniteSet(kept) /\ Cardinality(kept) \in Nat
  BY <1>4, FS_Subset, FS_CardinalityType
<1>6. Cardinality(tracked \cap kept) = 0
  <2>1. tracked \cap kept = {}
    BY <1>4
  <2> QED BY <2>1, FS_EmptySet
<1>7. /\ IsFiniteSet(tracked \cup kept)
      /\ Cardinality(tracked \cup kept) =
             Cardinality(tracked) + Cardinality(kept) - Cardinality(tracked \cap kept)
  BY <1>5, FS_Union
<1> HIDE DEF room
<1>8. kept # {} => Cardinality(tracked) < cap
  <2>1. kept # {} => Cardinality(kept) # 0
    BY <1>5, FS_EmptySet
  <2> QED BY <1>1, <1>2, <1>4, <1>5, <2>1
<1>9. ASSUME kept # new \/ Cardinality(tracked) >= cap
      PROVE  Cardinality(tracked \cup kept) >= cap
  <2>1. Cardinality(tracked) >= cap \/ Cardinality(kept) = room
    BY <1>3, <1>9
  <2> QED BY <1>1, <1>2, <1>5, <1>6, <1>7, <2>1
<1> QED BY <1>4, <1>7, <1>8, <1>9

\* Every sighting is counted once or reported as dropped, step by step.
LEMMA NextFrequency ==
    ASSUME StoreInv, [Next]_vars
    PROVE  /\ IsFiniteSet(DOMAIN frequency'.count) /\ FrequencyAddsUp'
           /\ frequency'.count \in [DOMAIN frequency'.count -> Nat \ {0}]
           /\ frequency'.total \in Nat /\ frequency'.dropped \in Nat
           /\ tally'.sighted \in Nat
<1>a. TypeOK /\ IsFiniteSet(DOMAIN frequency.count) /\ FrequencyAddsUp
  BY DEF StoreInv
<1>1. CASE frequency' = frequency /\ tally'.sighted = tally.sighted
  BY <1>a, <1>1 DEF FrequencyAddsUp, TypeOK
<1>2. ASSUME NEW h \in Handlers, Sight(h)
      PROVE  /\ IsFiniteSet(DOMAIN frequency'.count) /\ FrequencyAddsUp'
             /\ frequency'.count \in [DOMAIN frequency'.count -> Nat \ {0}]
             /\ frequency'.total \in Nat /\ frequency'.dropped \in Nat
             /\ tally'.sighted \in Nat
  <2> DEFINE probe == Stored[jobs[h].probe]
             seen == Sightings(probe)
  <2>1. jobs[h].probe \in Probes
    BY <1>a, <1>2 DEF Sight, At, TypeOK, Job
  <2>2. IsFiniteSet(DOMAIN probe)
    BY <2>1, FuzzyStoreAssumption
  <2>3. PICK kept \in Admitted(DOMAIN frequency.count, DOMAIN seen \ DOMAIN frequency.count,
                               MaxFrequencyValues) :
            frequency' = Sighted(frequency, seen, kept)
    BY <1>2 DEF Sight
  <2>4. tally'.sighted = tally.sighted + Cardinality(Scalars(probe)) /\ tally.sighted \in Nat
    BY <1>a, <1>2 DEF Sight, TypeOK
  <2>5. /\ IsFiniteSet(DOMAIN seen) /\ \A x \in DOMAIN seen : seen[x] \in Nat \ {0}
        /\ SumOver(seen, DOMAIN seen) = Cardinality(Scalars(probe))
        /\ Cardinality(Scalars(probe)) \in Nat
    <3> HIDE DEF probe
    <3> QED BY <2>2, SightingsFacts
  <2>6. IsSound(frequency)
    BY <1>a DEF TypeOK, FrequencyAddsUp, IsSound
  <2> HIDE DEF seen, probe
  <2>8. /\ IsSound(frequency')
        /\ frequency'.total + frequency'.dropped =
               frequency.total + frequency.dropped + SumOver(seen, DOMAIN seen)
    BY <2>3, <2>5, <2>6, SightedFacts
  <2>9. frequency'.total + frequency'.dropped = tally'.sighted
    BY <1>a, <2>4, <2>5, <2>8 DEF FrequencyAddsUp
  <2>10. tally'.sighted \in Nat
    BY <2>4, <2>5
  <2> QED BY <2>8, <2>9, <2>10 DEF FrequencyAddsUp, IsSound
<1>3. ASSUME NEW h \in Handlers, Agree(h)
      PROVE  frequency' = frequency /\ tally'.sighted = tally.sighted
  BY <1>a, <1>3 DEF Agree, TypeOK
<1>4. ASSUME NEW h \in Handlers, CountMint(h)
      PROVE  frequency' = frequency /\ tally'.sighted = tally.sighted
  BY <1>a, <1>4 DEF CountMint, TypeOK
<1>5. ASSUME NEW h \in Handlers, Identify(h), ~Sight(h), ~Agree(h), ~CountMint(h)
      PROVE  frequency' = frequency /\ tally' = tally
  BY <1>5 DEF Identify, Recall, DecideMatch, DecideReview, DecideNew, Decide, Index, Fold,
              Answer, tables
<1>6. CASE ~\E h \in Handlers : Identify(h)
  <2>1. frequency' = frequency /\ tally' = tally
    BY <1>6 DEF Next, Tick, Arrive, EraseRecord, EraseBlocks, SweepTick, Purge, vars, tables
  <2> QED BY <1>1, <2>1
<1> QED BY <1>1, <1>2, <1>3, <1>4, <1>5, <1>6

\* What a name's pairs say once a pair is added.
LEMMA PairIsCounted ==
    ASSUME NEW n, NEW counts, n \in DOMAIN counts, counts[n] \in [agree : Nat, total : Nat],
           NEW pair, pair.agreed \subseteq pair.names
    PROVE  /\ CountedIn(counts, pair)[n] \in [agree : Nat, total : Nat]
           /\ n \notin pair.names => CountedIn(counts, pair)[n] = counts[n]
           /\ n \in pair.names =>
                 CountedIn(counts, pair)[n] =
                    [agree |-> counts[n].agree + (IF n \in pair.agreed THEN 1 ELSE 0),
                     total |-> counts[n].total + 1]
           /\ n \in pair.names => CountedIn(counts, pair)[n].total # 0
           /\ counts[n].agree <= counts[n].total =>
                 CountedIn(counts, pair)[n].agree <= CountedIn(counts, pair)[n].total
<1>1. CountedIn(counts, pair)[n] =
          [agree |-> counts[n].agree + (IF n \in pair.agreed THEN 1 ELSE 0),
           total |-> counts[n].total + (IF n \in pair.names THEN 1 ELSE 0)]
  BY DEF CountedIn
<1>2. /\ counts[n] = [agree |-> counts[n].agree, total |-> counts[n].total]
      /\ counts[n].agree \in Nat /\ counts[n].total \in Nat
  OBVIOUS
<1>3. CASE n \in pair.names
  BY <1>1, <1>2, <1>3
<1>4. CASE n \notin pair.names
  <2>1. n \notin pair.agreed
    BY <1>4
  <2>2. counts[n].agree + 0 = counts[n].agree /\ counts[n].total + 0 = counts[n].total
    BY <1>2
  <2> QED BY <1>1, <1>2, <1>4, <2>1, <2>2
<1> QED BY <1>3, <1>4

\* m_i is learnt from matches, step by step.
LEMMA NextAgreement ==
    ASSUME StoreInv, [Next]_vars
    PROVE  /\ agreement'.stats \in [DOMAIN agreement'.stats -> [agree : Nat, total : Nat \ {0}]]
           /\ DOMAIN agreement'.stats \subseteq Names /\ IsFiniteSet(DOMAIN agreement'.stats)
           /\ LearntFromMatches' /\ tally'.matched \in [Names -> [agree : Nat, total : Nat]]
<1>a. TypeOK /\ ReadsStand /\ LearntFromMatches /\ IsFiniteSet(DOMAIN agreement.stats)
  BY DEF StoreInv
<1>1. CASE agreement' = agreement /\ tally'.matched = tally.matched
  BY <1>a, <1>1 DEF LearntFromMatches, TypeOK
<1>2. ASSUME NEW h \in Handlers, Agree(h)
      PROVE  /\ agreement'.stats \in [DOMAIN agreement'.stats ->
                                         [agree : Nat, total : Nat \ {0}]]
             /\ DOMAIN agreement'.stats \subseteq Names /\ IsFiniteSet(DOMAIN agreement'.stats)
             /\ LearntFromMatches' /\ tally'.matched \in [Names -> [agree : Nat, total : Nat]]
  <2> DEFINE stats == agreement.stats
             counts == tally.matched
  <2>1. h \in DOMAIN jobs /\ jobs[h].phase = "agree" /\ jobs[h].probe \in Probes
    BY <1>a, <1>2 DEF Agree, At, TypeOK, Job
  <2>2. records = saved.records
    BY <1>a, <2>1 DEF ReadsStand, JobStands
  <2>3. PICK pair : /\ pair = Comparison(records, h)
                    /\ \E kept \in Admitted(DOMAIN stats, pair.names \ DOMAIN stats,
                                            MaxAgreementComponents) :
                           agreement' = Compared(agreement, pair.names, pair.agreed, kept)
    BY <1>2 DEF Agree, LearntPair
  <2>4. PICK kept \in Admitted(DOMAIN stats, pair.names \ DOMAIN stats, MaxAgreementComponents) :
            agreement' = Compared(agreement, pair.names, pair.agreed, kept)
    BY <2>3
  <2>5. /\ pair.names \subseteq DOMAIN Stored[jobs[h].probe]
        /\ pair.agreed \subseteq pair.names
    BY <2>3 DEF Comparison
  <2>6. pair.names \subseteq Names /\ IsFiniteSet(pair.names \ DOMAIN stats)
    BY <2>1, <2>5, FuzzyStoreAssumption, FS_Subset
  <2>7. /\ stats \in [DOMAIN stats -> [agree : Nat, total : Nat \ {0}]]
        /\ DOMAIN stats \subseteq Names /\ IsFiniteSet(DOMAIN stats)
        /\ counts \in [Names -> [agree : Nat, total : Nat]]
    BY <1>a DEF TypeOK
  <2>8. /\ kept \subseteq pair.names \ DOMAIN stats
        /\ IsFiniteSet(DOMAIN stats \cup kept)
        /\ kept # {} => Cardinality(DOMAIN stats) < MaxAgreementComponents
        /\ kept # pair.names \ DOMAIN stats
              \/ Cardinality(DOMAIN stats) >= MaxAgreementComponents =>
                 Cardinality(DOMAIN stats \cup kept) >= MaxAgreementComponents
    <3> HIDE DEF stats
    <3>1. DOMAIN stats \cap (pair.names \ DOMAIN stats) = {}
      OBVIOUS
    <3> QED BY <2>6, <2>7, <3>1, AdmittedFills, AggregateAssumption
  <2>9. tally'.matched = CountedIn(counts, pair)
    BY <1>a, <1>2, <2>2, <2>3 DEF Agree, TypeOK
  <2>10. /\ DOMAIN agreement'.stats = DOMAIN stats \cup kept
         /\ agreement'.stats = [n \in DOMAIN agreement'.stats |-> agreement'.stats[n]]
         /\ \A n \in DOMAIN agreement'.stats :
               LET before == IF n \in DOMAIN stats THEN stats[n] ELSE NoPairs
               IN  agreement'.stats[n] =
                      IF n \notin pair.names THEN before
                      ELSE [agree |-> before.agree + (IF n \in pair.agreed THEN 1 ELSE 0),
                            total |-> before.total + 1]
    <3>1. kept \in SUBSET pair.names /\ agreement' = Compared(agreement, pair.names, pair.agreed, kept)
      BY <2>4, <2>8
    <3> QED BY <3>1 DEF Compared, NoPairs
  <2>11. ASSUME NEW n \in Names
         PROVE  /\ tally'.matched[n] \in [agree : Nat, total : Nat]
                /\ n \notin pair.names => tally'.matched[n] = counts[n]
                /\ n \in pair.names =>
                      tally'.matched[n] =
                         [agree |-> counts[n].agree + (IF n \in pair.agreed THEN 1 ELSE 0),
                          total |-> counts[n].total + 1]
                /\ n \in pair.names => tally'.matched[n].total # 0
                /\ counts[n].agree <= counts[n].total =>
                      tally'.matched[n].agree <= tally'.matched[n].total
    <3>1. n \in DOMAIN counts /\ counts[n] \in [agree : Nat, total : Nat]
      BY <2>7
    <3> HIDE DEF counts
    <3> QED BY <2>5, <2>9, <3>1, PairIsCounted
  <2>12. tally'.matched \in [Names -> [agree : Nat, total : Nat]]
    <3>1. DOMAIN counts = Names
      BY <2>7
    <3>2. tally'.matched = [n \in Names |-> tally'.matched[n]]
      BY <2>9, <3>1 DEF CountedIn
    <3> QED BY <2>11, <3>2
  <2>13. ASSUME NEW n \in Names
         PROVE  IF n \in DOMAIN stats
                THEN stats[n] = counts[n] /\ stats[n].agree <= stats[n].total
                ELSE \/ counts[n] = NoPairs
                     \/ Cardinality(DOMAIN stats) >= MaxAgreementComponents
    BY <1>a DEF LearntFromMatches
  <2> HIDE DEF stats, counts
  <2>14. ASSUME NEW n \in DOMAIN stats \cup kept
         PROVE  /\ agreement'.stats[n] = tally'.matched[n]
                /\ agreement'.stats[n].agree <= agreement'.stats[n].total
                /\ agreement'.stats[n] \in [agree : Nat, total : Nat \ {0}]
    <3>0. n \in Names
      BY <2>6, <2>7, <2>8
    <3>1. CASE n \in DOMAIN stats
      <4>1. stats[n] = counts[n] /\ stats[n].agree <= stats[n].total
        BY <2>13, <3>0, <3>1
      <4>2. agreement'.stats[n] = tally'.matched[n]
        BY <2>10, <2>11, <3>0, <3>1, <4>1
      <4>3. tally'.matched[n].agree <= tally'.matched[n].total
        BY <2>11, <3>0, <4>1
      <4>4. tally'.matched[n].total # 0
        <5>1. stats[n].total # 0
          BY <2>7, <3>1
        <5>2. \/ n \in pair.names
              \/ tally'.matched[n] = counts[n]
          BY <2>11, <3>0
        <5>3. n \in pair.names => tally'.matched[n].total # 0
          BY <2>11, <3>0
        <5> QED BY ONLY <4>1, <5>1, <5>2, <5>3
      <4>5. tally'.matched[n] \in [agree : Nat, total : Nat]
        BY <2>11, <3>0
      <4> QED BY <4>2, <4>3, <4>4, <4>5
    <3>2. CASE n \notin DOMAIN stats
      <4>1. n \in kept /\ n \in pair.names
        BY <2>8, <3>2
      <4>2. counts[n] = NoPairs
        <5>1. Cardinality(DOMAIN stats) \in Nat /\ Cardinality(DOMAIN stats) < MaxAgreementComponents
          BY <2>7, <2>8, <4>1, FS_CardinalityType
        <5>2. ~(Cardinality(DOMAIN stats) >= MaxAgreementComponents)
          BY <5>1, AggregateAssumption
        <5> QED BY <2>13, <3>0, <3>2, <5>2
      <4>3. agreement'.stats[n] = tally'.matched[n]
        BY <2>10, <2>11, <3>0, <3>2, <4>1, <4>2
      <4>4. tally'.matched[n].agree <= tally'.matched[n].total
        <5>1. counts[n].agree <= counts[n].total
          BY <4>2 DEF NoPairs
        <5> QED BY <2>11, <3>0, <5>1
      <4>5. tally'.matched[n].total # 0 /\ tally'.matched[n] \in [agree : Nat, total : Nat]
        BY <2>11, <3>0, <4>1
      <4> QED BY <4>3, <4>4, <4>5
    <3> QED BY <3>1, <3>2
  <2>15. ASSUME NEW n \in Names, n \notin DOMAIN stats \cup kept
         PROVE  \/ tally'.matched[n] = NoPairs
                \/ Cardinality(DOMAIN stats \cup kept) >= MaxAgreementComponents
    <3>1. CASE Cardinality(DOMAIN stats) >= MaxAgreementComponents
      BY <2>8, <3>1
    <3>2. CASE n \in pair.names
      BY <2>8, <2>15, <3>2
    <3>3. CASE n \notin pair.names /\ ~(Cardinality(DOMAIN stats) >= MaxAgreementComponents)
      BY <2>11, <2>13, <2>15, <3>3
    <3> QED BY <3>1, <3>2, <3>3
  <2>16. LearntFromMatches'
    BY <2>10, <2>14, <2>15 DEF LearntFromMatches
  <2>17. agreement'.stats \in [DOMAIN agreement'.stats -> [agree : Nat, total : Nat \ {0}]]
    BY <2>10, <2>14
  <2>18. DOMAIN agreement'.stats \subseteq Names /\ IsFiniteSet(DOMAIN agreement'.stats)
    BY <2>6, <2>7, <2>8, <2>10
  <2> QED BY <2>12, <2>16, <2>17, <2>18
<1>3. ASSUME NEW h \in Handlers, Sight(h)
      PROVE  agreement' = agreement /\ tally'.matched = tally.matched
  BY <1>a, <1>3 DEF Sight, TypeOK
<1>4. ASSUME NEW h \in Handlers, CountMint(h)
      PROVE  agreement' = agreement /\ tally'.matched = tally.matched
  BY <1>a, <1>4 DEF CountMint, TypeOK
<1>5. ASSUME NEW h \in Handlers, Identify(h), ~Sight(h), ~Agree(h), ~CountMint(h)
      PROVE  agreement' = agreement /\ tally' = tally
  BY <1>5 DEF Identify, Recall, DecideMatch, DecideReview, DecideNew, Decide, Index, Fold,
              Answer, tables
<1>6. CASE ~\E h \in Handlers : Identify(h)
  <2>1. agreement' = agreement /\ tally' = tally
    BY <1>6 DEF Next, Tick, Arrive, EraseRecord, EraseBlocks, SweepTick, Purge, vars, tables
  <2> QED BY <1>1, <2>1
<1> QED BY <1>1, <1>2, <1>3, <1>4, <1>5, <1>6

\* A step that counts nothing leaves every list and every count as it was.
LEMMA NothingCounted ==
    ASSUME StoreInv, velocity' = velocity, tally'.mints = tally.mints,
           \A g \in DOMAIN jobs' :
              \/ g \in DOMAIN jobs /\ jobs'[g] = jobs[g]
              \/ /\ jobs'[g].counts = <<>>
                 /\ jobs'[g].phase = "count" => Len(jobs'[g].origin) > 0
    PROVE  ListsAreOfMints' /\ CountsAreOfMints'
<1>1. ASSUME NEW g \in DOMAIN jobs'
      PROVE  /\ jobs'[g].phase \notin {"count", "answer"} => jobs'[g].counts = <<>>
             /\ jobs'[g].phase = "count" => Len(jobs'[g].counts) < Len(jobs'[g].origin)
             /\ \A i \in DOMAIN jobs'[g].counts :
                   jobs'[g].counts[i] = 0 => ~HasRoom(velocity, jobs'[g].origin[i])
             /\ HasCounted(jobs[g])'
  <2>1. CASE g \in DOMAIN jobs /\ jobs'[g] = jobs[g]
    <3>1. HasCounted(jobs[g])
      BY <2>1 DEF StoreInv, CountsAreOfMints
    <3>2. HasCounted(jobs[g])'
      BY <2>1, <3>1 DEF HasCounted
    <3> QED BY <2>1, <3>2 DEF StoreInv, ListsAreOfMints
  <2>2. CASE /\ jobs'[g].counts = <<>>
             /\ jobs'[g].phase = "count" => Len(jobs'[g].origin) > 0
    BY <2>2 DEF HasCounted
  <2> QED BY <2>1, <2>2
<1>2. /\ \A k \in DOMAIN velocity : IsLasting(velocity[k], tally.mints[k])
      /\ \A k \in VelocityKeys :
            k \notin DOMAIN velocity /\ HasRoom(velocity, k) => tally.mints[k] = <<>>
  BY DEF StoreInv, ListsAreOfMints
<1>3. \A k : HasRoom(velocity, k)' <=> HasRoom(velocity, k)
  BY DEF HasRoom
<1>4. ListsAreOfMints'
  BY <1>1, <1>2, <1>3 DEF ListsAreOfMints, HasRoom
<1> QED BY <1>1, <1>4 DEF CountsAreOfMints

\* One counted mint: the key's list, its mints and the call's counts grow together.
LEMMA MintCounted ==
    ASSUME StoreInv, NEW h \in Handlers, CountMint(h)
    PROVE  /\ ListsAreOfMints' /\ CountsAreOfMints'
           /\ DOMAIN velocity' \subseteq VelocityKeys
           /\ velocity' \in [DOMAIN velocity' -> Seq(Nat)]
           /\ tally'.mints \in [VelocityKeys -> Seq(Nat)]
<1> DEFINE job == jobs[h]
           n == Len(job.counts) + 1
           key == job.origin[n]
           secs == job.now \div Second
           events == Pruned(Recorded(velocity, key, secs), key, secs)
           j == [job EXCEPT !.counts = Append(job.counts, Count(events, key)),
                            !.phase = IF n = Len(job.origin) THEN "answer" ELSE "count"]
<1>1. /\ job \in Job /\ n \in DOMAIN job.origin
      /\ key \in VelocityKeys /\ secs \in Nat
      /\ velocity' = events /\ Count(events, key) \in Nat
      /\ tally' = [tally EXCEPT !.mints[key] = Append(tally.mints[key], secs)]
      /\ j \in Job /\ Moved(h, j) /\ Len(j.counts) = n
  BY CountMintMoves
<1>2. /\ h \in DOMAIN jobs /\ job.phase = "count"
      /\ job.counts \in Seq(Nat) /\ job.origin \in Seq(VelocityKeys)
      /\ n \in Nat /\ n <= Len(job.origin)
  <2>1. h \in DOMAIN jobs /\ job.phase = "count"
    BY DEF CountMint, At
  <2>2. job.origin \in Seq(VelocityKeys) /\ job.counts \in Seq(Nat)
    BY <1>1, FuzzyStoreAssumption DEF Job
  <2>3. n \in Nat /\ n <= Len(job.origin)
    <3>1. n \in DOMAIN job.origin
      BY <1>1
    <3> HIDE DEF n, job
    <3> QED BY <2>2, <3>1
  <2> HIDE DEF n
  <2> QED BY <2>1, <2>2, <2>3
<1>3. /\ j.counts = Append(job.counts, Count(events, key)) /\ j.origin = job.origin
      /\ j.phase = IF n = Len(job.origin) THEN "answer" ELSE "count"
  <2> HIDE DEF events, key, n
  <2> QED BY <1>1 DEF Job
<1>4. /\ TypeOK /\ velocity \in [DOMAIN velocity -> Seq(Nat)] /\ DOMAIN velocity \subseteq VelocityKeys
      /\ tally.mints \in [VelocityKeys -> Seq(Nat)]
      /\ tally = [sighted |-> tally.sighted, matched |-> tally.matched, mints |-> tally.mints]
      /\ \A k \in DOMAIN velocity : IsLasting(velocity[k], tally.mints[k])
      /\ \A k \in VelocityKeys :
            k \notin DOMAIN velocity /\ HasRoom(velocity, k) => tally.mints[k] = <<>>
      /\ HasCounted(job)
      /\ \A i \in DOMAIN job.counts : job.counts[i] = 0 => ~HasRoom(velocity, job.origin[i])
  BY <1>2 DEF StoreInv, TypeOK, ListsAreOfMints, CountsAreOfMints
<1>5. /\ DOMAIN velocity' = IF HasRoom(velocity, key) THEN DOMAIN velocity \cup {key}
                            ELSE DOMAIN velocity
      /\ velocity' \in [DOMAIN velocity' -> Seq(Nat)]
      /\ \A k \in DOMAIN velocity : k # key => velocity'[k] = velocity[k]
      /\ ~HasRoom(velocity, key) => key \notin DOMAIN velocity'
      /\ HasRoom(velocity, key) =>
            velocity'[key] = Since(Append(Held(velocity, key), secs), Cutoff(secs))
  <2>1. velocity' = events /\ secs \in Nat /\ velocity \in [DOMAIN velocity -> Seq(Nat)]
    BY <1>1, <1>4
  <2> HIDE DEF key, secs
  <2>2. /\ DOMAIN events = IF HasRoom(velocity, key) THEN DOMAIN velocity \cup {key}
                           ELSE DOMAIN velocity
        /\ events \in [DOMAIN events -> Seq(Nat)]
        /\ \A k \in DOMAIN velocity : k # key => events[k] = velocity[k]
        /\ ~HasRoom(velocity, key) => key \notin DOMAIN events
    BY ONLY <2>1, MintFacts
  <2>3. ASSUME HasRoom(velocity, key)
        PROVE  events[key] = Since(Append(Held(velocity, key), secs), Cutoff(secs))
    BY ONLY <2>1, <2>3, MintIsHeld
  <2> HIDE DEF events
  <2> QED BY <2>1, <2>2, <2>3
<1>6. Count(events, key) = IF key \in DOMAIN velocity' THEN Len(velocity'[key]) ELSE 0
  BY <1>1 DEF Count
<1> DEFINE c == Count(events, key)
<1>a. c \in Nat /\ c = IF key \in DOMAIN velocity' THEN Len(velocity'[key]) ELSE 0
  BY <1>1, <1>6
<1>b. j.counts = Append(job.counts, c)
  BY <1>3
<1> HIDE DEF c, events, secs, j, n, key
<1>7. /\ tally'.mints \in [VelocityKeys -> Seq(Nat)]
      /\ tally'.mints[key] = Append(tally.mints[key], secs)
      /\ \A k \in VelocityKeys : k # key => tally'.mints[k] = tally.mints[k]
  BY <1>1, <1>4
<1>8. DOMAIN velocity \subseteq DOMAIN velocity' /\ DOMAIN velocity' \subseteq VelocityKeys
  BY <1>1, <1>4, <1>5
\* The list of the key that was counted.
<1>9. ASSUME HasRoom(velocity, key)
      PROVE  /\ IsLasting(velocity'[key], tally'.mints[key])
             /\ Len(velocity'[key]) = Cardinality(Lasting(tally'.mints[key]))
             /\ Len(velocity'[key]) > 0
  <2>1. IsLasting(Held(velocity, key), tally.mints[key])
    <3>1. CASE key \in DOMAIN velocity
      BY <1>4, <3>1 DEF Held
    <3>2. CASE key \notin DOMAIN velocity
      <4>1. Held(velocity, key) = <<>> /\ tally.mints[key] = <<>>
        BY <1>1, <1>4, <1>9, <3>2 DEF Held
      <4> QED BY <4>1, NoneLast
    <3> QED BY <3>1, <3>2
  <2>2. Held(velocity, key) \in Seq(Nat) /\ tally.mints[key] \in Seq(Nat)
    BY <1>1, <1>4 DEF Held
  <2>3. /\ velocity'[key] \in Seq(Nat) /\ IsLasting(velocity'[key], tally'.mints[key])
        /\ Cardinality(Lasting(tally'.mints[key])) > 0
    BY <1>1, <1>5, <1>7, <1>9, <2>1, <2>2, MintLasts
  <2>4. tally'.mints[key] \in Seq(Nat)
    BY <1>1, <1>7
  <2>5. Len(velocity'[key]) = Cardinality(Lasting(tally'.mints[key]))
    BY <2>3, <2>4, LastingAreCounted
  <2> QED BY <2>3, <2>5
\* A full table stays full and admits nobody.
<1>10. ASSUME NEW k, ~HasRoom(velocity, k)
       PROVE  ~HasRoom(velocity', k)
  BY <1>5, <1>10 DEF HasRoom
<1>11. ASSUME NEW k \in DOMAIN velocity'
       PROVE  IsLasting(velocity'[k], tally'.mints[k])
  <2>1. CASE k # key
    <3>1. k \in DOMAIN velocity /\ velocity'[k] = velocity[k] /\ k \in VelocityKeys
      BY <1>5, <1>8, <2>1
    <3> QED BY <1>4, <1>7, <2>1, <3>1
  <2>2. CASE k = key
    <3>1. HasRoom(velocity, key)
      BY <1>5, <2>2
    <3> QED BY <1>9, <2>2, <3>1
  <2> QED BY <2>1, <2>2
<1>12. ASSUME NEW k \in VelocityKeys, k \notin DOMAIN velocity', HasRoom(velocity', k)
       PROVE  tally'.mints[k] = <<>>
  <2>1. HasRoom(velocity, k) /\ k \notin DOMAIN velocity
    BY <1>8, <1>10, <1>12
  <2>2. k # key
    BY <1>5, <1>12, <2>1
  <2> QED BY <1>4, <1>7, <2>1, <2>2
<1>13. c = 0 <=> key \notin DOMAIN velocity'
  <2>1. CASE HasRoom(velocity, key)
    BY <1>5, <1>9, <1>a, <2>1
  <2>2. CASE ~HasRoom(velocity, key)
    BY <1>5, <1>a, <2>2
  <2> QED BY <2>1, <2>2
<1>14. c = 0 => ~HasRoom(velocity', key)
  BY <1>5, <1>10, <1>13
<1>15. ASSUME NEW i \in DOMAIN j.counts
       PROVE  /\ j.counts[i] = 0 => ~HasRoom(velocity', job.origin[i])
              /\ j.counts[i] = 0 <=> job.origin[i] \notin DOMAIN velocity'
  <2>1. CASE i # n
    <3>1. i \in DOMAIN job.counts /\ j.counts[i] = job.counts[i]
      BY <1>2, <1>a, <1>b, <2>1 DEF n
    <3>2. /\ job.counts[i] = 0 => ~HasRoom(velocity, job.origin[i])
          /\ job.counts[i] = 0 <=> job.origin[i] \notin DOMAIN velocity
      BY <1>4, <3>1 DEF HasCounted
    <3>3. j.counts[i] = 0 => ~HasRoom(velocity', job.origin[i])
      BY <1>10, <3>1, <3>2
    <3>4. ~HasRoom(velocity', job.origin[i]) => job.origin[i] \notin DOMAIN velocity'
      BY DEF HasRoom
    <3> QED BY ONLY <1>8, <3>1, <3>2, <3>3, <3>4
  <2>2. CASE i = n
    <3>1. j.counts[i] = c /\ job.origin[i] = key
      BY <1>2, <1>a, <1>b, <2>2 DEF n, key
    <3> QED BY <1>13, <1>14, <3>1
  <2> QED BY <2>1, <2>2
<1>16. /\ Len(j.counts) = n /\ j.counts[n] = c /\ j.origin[n] = key /\ n > 0
       /\ j.origin = job.origin
  BY <1>1, <1>2, <1>3, <1>a, <1>b DEF n, key
<1>17. key \in DOMAIN velocity' => c = Cardinality(Lasting(tally'.mints[key]))
  <2>1. key \in DOMAIN velocity' => HasRoom(velocity, key)
    BY <1>5
  <2> QED BY <1>9, <1>a, <2>1
<1>18. ASSUME NEW g \in DOMAIN jobs'
       PROVE  /\ jobs'[g].phase \notin {"count", "answer"} => jobs'[g].counts = <<>>
              /\ jobs'[g].phase = "count" => Len(jobs'[g].counts) < Len(jobs'[g].origin)
              /\ \A i \in DOMAIN jobs'[g].counts :
                    jobs'[g].counts[i] = 0 => ~HasRoom(velocity', jobs'[g].origin[i])
              /\ HasCounted(jobs[g])'
  <2>0. Len(j.counts) <= Len(j.origin)
    BY <1>1, <1>2, <1>3
  <2>1. CASE g = h
    <3>1. jobs'[g] = j
      BY <1>1, <1>4, <2>0, <2>1, MovedJobs
    <3>2. jobs'[g].phase \in {"count", "answer"}
      BY <1>3, <3>1
    <3>3. jobs'[g].phase = "count" => Len(j.counts) < Len(j.origin)
      BY <1>1, <1>2, <1>3, <3>1
    <3>4. HasCounted(jobs[g])'
      BY <1>15, <1>16, <1>17, <3>1 DEF HasCounted
    <3> QED BY <1>15, <1>16, <3>1, <3>2, <3>3, <3>4
  <2>2. CASE g # h
    <3>1. g \in DOMAIN jobs /\ jobs'[g] = jobs[g]
      BY <1>1, <1>4, <2>0, <2>2, MovedJobs
    <3>2. jobs[g].phase = "recall"
      BY <1>2, <1>4, <2>2, <3>1, Holder DEF StoreInv
    <3>3. jobs'[g].counts = <<>> /\ jobs'[g].phase = "recall"
      BY <3>1, <3>2 DEF StoreInv, ListsAreOfMints
    <3> QED BY <3>3 DEF HasCounted
  <2> QED BY <2>1, <2>2
<1>19. ListsAreOfMints'
  BY <1>11, <1>12, <1>18 DEF ListsAreOfMints, HasRoom
<1>20. CountsAreOfMints'
  BY <1>18 DEF CountsAreOfMints
<1> QED BY <1>5, <1>7, <1>8, <1>19, <1>20

\* Before it counts, a call has counted nothing; it goes on to count for a
\* request that has a key to be counted under.
LEMMA NotYetCounted ==
    ASSUME StoreInv, NEW h \in Handlers, Identify(h), ~CountMint(h), ~Answer(h)
    PROVE  /\ jobs'[h].counts = <<>>
           /\ jobs'[h].phase = "count" => Len(jobs'[h].origin) > 0
<1>a. TypeOK
  BY DEF StoreInv
<1>1. /\ h \in DOMAIN jobs /\ jobs[h] \in Job /\ jobs[h].counts = <<>>
      /\ jobs[h].origin \in Seq(VelocityKeys)
  <2>1. h \in DOMAIN jobs /\ jobs[h].phase \notin {"count", "answer"}
    BY DEF Identify, Recall, DecideMatch, DecideReview, DecideNew, Agree, Sight, Index, Fold, At
  <2>2. jobs[h] \in Job
    BY <1>a, <2>1 DEF TypeOK
  <2>3. jobs[h].origin \in Seq(VelocityKeys)
    BY <2>2, FuzzyStoreAssumption DEF Job
  <2> QED BY <2>1, <2>2, <2>3 DEF StoreInv, ListsAreOfMints
<1>2. CASE Recall(h)
  <2>1. Moved(h, [jobs[h] EXCEPT !.phase = "decide",
                                 !.candidates = Candidates(index, KeysOf[jobs[h].probe])])
    BY <1>a, <1>2, JobMoves
  <2> QED BY <1>a, <1>1, <2>1 DEF Moved, TypeOK, Job
<1>3. ASSUME NEW verdict, NEW v, NEW phase, phase # "count", Decide(h, verdict, v, phase)
      PROVE  jobs'[h].counts = <<>> /\ jobs'[h].phase # "count"
  <2>1. Moved(h, [jobs[h] EXCEPT !.phase = phase, !.verdict = verdict, !.target = v])
    BY <1>a, <1>1, <1>3, JobMoves
  <2> QED BY <1>a, <1>1, <1>3, <2>1 DEF Moved, TypeOK, Job
<1>4. CASE DecideMatch(h) \/ DecideReview(h) \/ DecideNew(h)
  BY <1>3, <1>4 DEF DecideMatch, DecideReview, DecideNew
<1>5. ASSUME NEW phase, phase = "count" => jobs[h].origin # <<>>, Advance(h, phase)
      PROVE  /\ jobs'[h].counts = <<>>
             /\ jobs'[h].phase = "count" => Len(jobs'[h].origin) > 0
  <2>1. Moved(h, [jobs[h] EXCEPT !.phase = phase])
    BY <1>a, <1>1, <1>5, JobMoves
  <2>2. /\ jobs'[h].counts = <<>> /\ jobs'[h].phase = phase
        /\ jobs'[h].origin = jobs[h].origin
    BY <1>a, <1>1, <2>1 DEF Moved, TypeOK, Job
  <2> QED BY <1>1, <1>5, <2>2
<1>6. CASE Agree(h) \/ Sight(h) \/ Index(h)
  BY <1>5, <1>6 DEF Agree, Sight, Index
<1>7. CASE Fold(h)
  BY <1>5, <1>7 DEF Fold
<1> QED BY <1>2, <1>4, <1>6, <1>7 DEF Identify

\* Counts are of mints, step by step.
LEMMA NextVelocity ==
    ASSUME StoreInv, [Next]_vars
    PROVE  /\ ListsAreOfMints' /\ CountsAreOfMints'
           /\ DOMAIN velocity' \subseteq VelocityKeys
           /\ velocity' \in [DOMAIN velocity' -> Seq(Nat)]
           /\ tally'.mints \in [VelocityKeys -> Seq(Nat)]
<1>a. /\ TypeOK /\ DOMAIN velocity \subseteq VelocityKeys
      /\ velocity \in [DOMAIN velocity -> Seq(Nat)]
      /\ tally.mints \in [VelocityKeys -> Seq(Nat)]
  BY DEF StoreInv, TypeOK
<1>1. ASSUME NEW h \in Handlers, CountMint(h)
      PROVE  /\ ListsAreOfMints' /\ CountsAreOfMints'
             /\ DOMAIN velocity' \subseteq VelocityKeys
             /\ velocity' \in [DOMAIN velocity' -> Seq(Nat)]
             /\ tally'.mints \in [VelocityKeys -> Seq(Nat)]
  BY <1>1, MintCounted
<1>2. ASSUME velocity' = velocity, tally'.mints = tally.mints,
             \A g \in DOMAIN jobs' :
                \/ g \in DOMAIN jobs /\ jobs'[g] = jobs[g]
                \/ /\ jobs'[g].counts = <<>>
                   /\ jobs'[g].phase = "count" => Len(jobs'[g].origin) > 0
      PROVE  /\ ListsAreOfMints' /\ CountsAreOfMints'
             /\ DOMAIN velocity' \subseteq VelocityKeys
             /\ velocity' \in [DOMAIN velocity' -> Seq(Nat)]
             /\ tally'.mints \in [VelocityKeys -> Seq(Nat)]
  BY <1>a, <1>2, NothingCounted
<1>3. ASSUME NEW h \in Handlers, Identify(h), ~CountMint(h), ~Answer(h)
      PROVE  /\ velocity' = velocity /\ tally'.mints = tally.mints
             /\ \A g \in DOMAIN jobs' :
                   \/ g \in DOMAIN jobs /\ jobs'[g] = jobs[g]
                   \/ /\ jobs'[g].counts = <<>>
                      /\ jobs'[g].phase = "count" => Len(jobs'[g].origin) > 0
  <2>1. velocity' = velocity /\ tally'.mints = tally.mints
    BY <1>a, <1>3 DEF Identify, Recall, DecideMatch, DecideReview, DecideNew, Decide, Agree,
                      Sight, Index, Fold, tables, TypeOK
  <2>2. PICK j \in Job : Moved(h, j) /\ Len(j.counts) <= Len(j.origin)
    BY <1>3, CallMoves
  <2>3. DOMAIN jobs' = DOMAIN jobs /\ \A g \in DOMAIN jobs : g # h => jobs'[g] = jobs[g]
    BY <1>a, <2>2, MovedJobs
  <2>4. /\ jobs'[h].counts = <<>>
        /\ jobs'[h].phase = "count" => Len(jobs'[h].origin) > 0
    BY <1>3, NotYetCounted
  <2> QED BY <2>1, <2>3, <2>4
<1>4. ASSUME NEW h \in Handlers, Answer(h)
      PROVE  /\ velocity' = velocity /\ tally'.mints = tally.mints
             /\ \A g \in DOMAIN jobs' : g \in DOMAIN jobs /\ jobs'[g] = jobs[g]
  <2>1. velocity' = velocity /\ tally' = tally
    BY <1>4 DEF Answer, tables
  <2>2. \A g \in DOMAIN jobs' : g \in DOMAIN jobs /\ jobs'[g] = jobs[g]
    BY <1>4, CallEnds
  <2> QED BY <2>1, <2>2
<1>5. ASSUME NEW h \in Handlers, NEW p \in Probes, NEW o \in Origins, Arrive(h, p, o)
      PROVE  /\ velocity' = velocity /\ tally'.mints = tally.mints
             /\ \A g \in DOMAIN jobs' :
                   \/ g \in DOMAIN jobs /\ jobs'[g] = jobs[g]
                   \/ jobs'[g].counts = <<>> /\ jobs'[g].phase # "count"
  <2>1. velocity' = velocity /\ tally' = tally
    BY <1>5 DEF Arrive, tables
  <2>2. /\ DOMAIN jobs' = DOMAIN jobs \cup {h}
        /\ jobs'[h].phase = "recall" /\ jobs'[h].counts = <<>>
        /\ \A g \in DOMAIN jobs : jobs'[g] = jobs[g]
    BY <1>a, <1>5, CallArrives
  <2> QED BY <2>1, <2>2
<1>6. CASE Tick \/ SweepTick \/ Purge \/ EraseBlocks \/ (\E v \in Probes : EraseRecord(v))
           \/ UNCHANGED vars
  <2>1. velocity' = velocity /\ tally' = tally /\ jobs' = jobs
    BY <1>6 DEF Tick, EraseRecord, EraseBlocks, SweepTick, Purge, vars, tables
  <2> QED BY <1>2, <2>1
<1>7. ASSUME NEW h \in Handlers, Identify(h), ~CountMint(h), ~Answer(h)
      PROVE  /\ ListsAreOfMints' /\ CountsAreOfMints'
             /\ DOMAIN velocity' \subseteq VelocityKeys
             /\ velocity' \in [DOMAIN velocity' -> Seq(Nat)]
             /\ tally'.mints \in [VelocityKeys -> Seq(Nat)]
  BY <1>2, <1>3, <1>7
<1>8. ASSUME NEW h \in Handlers, Answer(h)
      PROVE  /\ ListsAreOfMints' /\ CountsAreOfMints'
             /\ DOMAIN velocity' \subseteq VelocityKeys
             /\ velocity' \in [DOMAIN velocity' -> Seq(Nat)]
             /\ tally'.mints \in [VelocityKeys -> Seq(Nat)]
  BY <1>2, <1>4, <1>8
<1>9. ASSUME NEW h \in Handlers, NEW p \in Probes, NEW o \in Origins, Arrive(h, p, o)
      PROVE  /\ ListsAreOfMints' /\ CountsAreOfMints'
             /\ DOMAIN velocity' \subseteq VelocityKeys
             /\ velocity' \in [DOMAIN velocity' -> Seq(Nat)]
             /\ tally'.mints \in [VelocityKeys -> Seq(Nat)]
  BY <1>2, <1>5, <1>9
<1> QED BY <1>1, <1>6, <1>7, <1>8, <1>9 DEF Next

---------------------------------------------------------------------------
\* Types.
LEMMA NextTypeOK == StoreInv /\ [Next]_vars => TypeOK'
<1> SUFFICES ASSUME StoreInv, [Next]_vars PROVE TypeOK'
  OBVIOUS
<1>a. TypeOK
  BY DEF StoreInv
<1>1. /\ DOMAIN jobs' \subseteq Handlers /\ jobs' \in [DOMAIN jobs' -> Job]
      /\ \A h \in DOMAIN jobs' : Len(jobs'[h].counts) <= Len(jobs'[h].origin)
  <2>1. ASSUME NEW h \in Handlers, NEW p \in Probes, NEW o \in Origins, Arrive(h, p, o)
        PROVE  /\ DOMAIN jobs' \subseteq Handlers /\ jobs' \in [DOMAIN jobs' -> Job]
               /\ \A g \in DOMAIN jobs' : Len(jobs'[g].counts) <= Len(jobs'[g].origin)
    <3>1. /\ DOMAIN jobs' = DOMAIN jobs \cup {h} /\ jobs' \in [DOMAIN jobs' -> Job]
          /\ jobs'[h].counts = <<>> /\ jobs'[h].origin = o
          /\ \A g \in DOMAIN jobs : jobs'[g] = jobs[g]
      BY <1>a, <2>1, CallArrives
    <3>2. o \in Seq(VelocityKeys)
      BY FuzzyStoreAssumption
    <3> QED BY <1>a, <3>1, <3>2 DEF TypeOK
  <2>2. ASSUME NEW h \in Handlers, Identify(h), ~Answer(h)
        PROVE  /\ DOMAIN jobs' \subseteq Handlers /\ jobs' \in [DOMAIN jobs' -> Job]
               /\ \A g \in DOMAIN jobs' : Len(jobs'[g].counts) <= Len(jobs'[g].origin)
    <3>1. PICK j \in Job : Moved(h, j) /\ Len(j.counts) <= Len(j.origin)
      BY <2>2, CallMoves
    <3> QED BY <1>a, <3>1, MovedJobs
  <2>3. ASSUME NEW h \in Handlers, Answer(h)
        PROVE  /\ DOMAIN jobs' \subseteq Handlers /\ jobs' \in [DOMAIN jobs' -> Job]
               /\ \A g \in DOMAIN jobs' : Len(jobs'[g].counts) <= Len(jobs'[g].origin)
    BY <1>a, <2>3, CallEnds DEF TypeOK
  <2>4. CASE Tick \/ (\E v \in Probes : EraseRecord(v)) \/ EraseBlocks \/ SweepTick \/ Purge
             \/ UNCHANGED vars
    <3>1. jobs' = jobs
      BY <2>4 DEF Tick, EraseRecord, EraseBlocks, SweepTick, Purge, vars
    <3> QED BY <1>a, <3>1 DEF TypeOK
  <2> QED BY <2>1, <2>2, <2>3, <2>4 DEF Next
<1>2. lock' \in Handlers \cup {"free", "eraser"}
  <2>0. lock \in Handlers \cup {"free", "eraser"}
    BY <1>a DEF TypeOK
  <2>1. ASSUME NEW h \in Handlers, Identify(h)
        PROVE  lock' \in {lock, h, "free"}
    BY <2>1 DEF Identify, Recall, DecideMatch, DecideReview, DecideNew, Decide, Agree, Sight,
                Index, Fold, CountMint, Answer, Released
  <2>2. CASE Tick \/ SweepTick \/ Purge \/ UNCHANGED vars
             \/ \E h \in Handlers, p \in Probes, o \in Origins : Arrive(h, p, o)
    BY <2>0, <2>2 DEF Tick, SweepTick, Purge, Arrive, vars
  <2>3. CASE EraseBlocks \/ \E v \in Probes : EraseRecord(v)
    BY <2>3 DEF EraseBlocks, EraseRecord
  <2> QED BY <2>0, <2>1, <2>2, <2>3 DEF Next
<1>3. clock' \in Nat /\ erasing' \subseteq Probes
  <2>0. clock \in Nat /\ erasing \subseteq Probes
    BY <1>a DEF TypeOK
  <2>1. ASSUME NEW h \in Handlers, Identify(h)
        PROVE  clock' = clock /\ erasing' = erasing
    BY <2>1 DEF Identify, Recall, DecideMatch, DecideReview, DecideNew, Decide, Agree, Sight,
                Index, Fold, CountMint, Answer, outside
  <2>2. ASSUME NEW v \in Probes, EraseRecord(v)
        PROVE  clock' = clock /\ erasing' = {v}
    BY <2>2 DEF EraseRecord
  <2>3. CASE Tick
    BY <2>0, <2>3 DEF Tick
  <2>4. CASE EraseBlocks
    BY <2>0, <2>4 DEF EraseBlocks, outside
  <2>5. ASSUME NEW h \in Handlers, NEW p \in Probes, NEW o \in Origins, Arrive(h, p, o)
        PROVE  clock' = clock /\ erasing' = erasing
    BY <2>5 DEF Arrive
  <2>6. CASE SweepTick \/ Purge \/ UNCHANGED vars
    BY <2>0, <2>6 DEF SweepTick, Purge, vars, outside
  <2> QED BY <2>0, <2>1, <2>2, <2>3, <2>4, <2>5, <2>6 DEF Next
<1>4. index' \in [Keys -> SUBSET Probes] /\ saved'.index \in [Keys -> SUBSET Probes]
  <2>1. ASSUME NEW h \in Handlers, Index(h)
        PROVE  index' \in [Keys -> SUBSET Probes] /\ saved' = saved
    <3>1. jobs[h].target \in Probes
      BY <1>a, <2>1 DEF Index, At, TypeOK, Job
    <3>2. saved' = saved /\ index' = InsertAll(index, KeysOf[jobs[h].probe], jobs[h].target)
      BY <2>1 DEF Index
    <3> QED BY <1>a, <3>1, <3>2 DEF InsertAll, TypeOK
  <2>2. CASE EraseBlocks
    BY <1>a, <2>2 DEF EraseBlocks, WithoutVisitor, TypeOK
  <2>3. CASE index' = index /\ (saved' = saved \/ saved' = [records |-> records, index |-> index])
    BY <1>a, <2>3 DEF TypeOK
  <2>4. ASSUME NEW h \in Handlers, Identify(h), ~Index(h)
        PROVE  index' = index /\ (saved' = saved \/ saved' = [records |-> records, index |-> index])
    BY <2>4 DEF Identify, Recall, DecideMatch, DecideReview, DecideNew, Decide, Agree, Sight,
                Fold, CountMint, Answer, library
  <2>5. CASE Tick \/ (\E h \in Handlers, p \in Probes, o \in Origins : Arrive(h, p, o))
             \/ SweepTick \/ Purge \/ UNCHANGED vars
    <3>1. index' = index /\ saved' = saved
      BY <2>5 DEF Tick, Arrive, SweepTick, Purge, vars, library
    <3> QED BY <1>a, <3>1 DEF TypeOK
  <2>6. ASSUME NEW v \in Probes, EraseRecord(v)
        PROVE  index' = index /\ saved' = [records |-> records, index |-> index]
    BY <2>6 DEF EraseRecord
  <2>7. ASSUME NEW h \in Handlers, Identify(h)
        PROVE  index' \in [Keys -> SUBSET Probes] /\ saved'.index \in [Keys -> SUBSET Probes]
    <3>1. CASE Index(h)
      BY <1>a, <2>1, <3>1 DEF TypeOK
    <3>2. CASE ~Index(h)
      BY <2>3, <2>4, <2>7, <3>2
    <3> QED BY <3>1, <3>2
  <2>8. ASSUME NEW v \in Probes, EraseRecord(v)
        PROVE  index' \in [Keys -> SUBSET Probes] /\ saved'.index \in [Keys -> SUBSET Probes]
    BY <2>3, <2>6, <2>8
  <2> QED BY <2>2, <2>5, <2>7, <2>8 DEF Next
<1>5. ledger' \in [created : Nat, forgotten : Nat]
  <2>0. ledger \in [created : Nat, forgotten : Nat]
    BY <1>a DEF TypeOK
  <2>1. ASSUME NEW h \in Handlers, Fold(h)
        PROVE  \/ ledger' = ledger
               \/ \E v : ledger' = [ledger EXCEPT !.created = @ + Newly(v)]
    BY <2>1 DEF Fold
  <2>2. \A v : Newly(v) \in {0, 1}
    BY DEF Newly
  <2>3. ASSUME EraseBlocks
        PROVE  \/ ledger' = ledger
               \/ ledger' = [ledger EXCEPT !.forgotten = @ + 1]
    BY <2>0, <2>3 DEF EraseBlocks
  <2>4. CASE ~EraseBlocks /\ ~\E h \in Handlers : Fold(h)
    <3>1. ASSUME NEW h \in Handlers, Identify(h), ~Fold(h)
          PROVE  ledger' = ledger
      BY <3>1 DEF Identify, Recall, DecideMatch, DecideReview, DecideNew, Decide, Agree, Sight,
                  Index, CountMint, Answer, library
    <3>2. CASE Tick \/ (\E h \in Handlers, p \in Probes, o \in Origins : Arrive(h, p, o))
               \/ SweepTick \/ Purge \/ UNCHANGED vars
      <4> QED BY <2>0, <3>2 DEF Tick, Arrive, SweepTick, Purge, vars, library
    <3>3. ASSUME NEW v \in Probes, EraseRecord(v)
          PROVE  ledger' = ledger
      BY <3>3 DEF EraseRecord
    <3> QED BY <2>0, <2>4, <3>1, <3>2, <3>3 DEF Next
  <2>5. ASSUME NEW h \in Handlers, Fold(h)
        PROVE  ledger' \in [created : Nat, forgotten : Nat]
    BY <2>0, <2>1, <2>2, <2>5
  <2>6. ASSUME EraseBlocks
        PROVE  ledger' \in [created : Nat, forgotten : Nat]
    BY <2>0, <2>3, <2>6
  <2> QED BY <2>4, <2>5, <2>6
<1>6. /\ frequency'.count \in [DOMAIN frequency'.count -> Nat \ {0}]
      /\ frequency'.total \in Nat /\ frequency'.dropped \in Nat
      /\ tally'.sighted \in Nat
  BY NextFrequency
<1>7. /\ agreement'.stats \in [DOMAIN agreement'.stats -> [agree : Nat, total : Nat \ {0}]]
      /\ DOMAIN agreement'.stats \subseteq Names
      /\ tally'.matched \in [Names -> [agree : Nat, total : Nat]]
  BY NextAgreement
<1>8. /\ DOMAIN velocity' \subseteq VelocityKeys
      /\ velocity' \in [DOMAIN velocity' -> Seq(Nat)]
      /\ tally'.mints \in [VelocityKeys -> Seq(Nat)]
  BY NextVelocity
<1>9. tally' = [sighted |-> tally'.sighted, matched |-> tally'.matched, mints |-> tally'.mints]
  <2>1. tally \in [sighted : Nat, matched : [Names -> [agree : Nat, total : Nat]],
                     mints : [VelocityKeys -> Seq(Nat)]]
    BY <1>a DEF TypeOK
  <2>2. CASE tally' = tally
    BY <2>1, <2>2
  <2>3. ASSUME NEW h \in Handlers, Agree(h) \/ Sight(h) \/ CountMint(h)
        PROVE  tally' = [sighted |-> tally'.sighted, matched |-> tally'.matched,
                         mints |-> tally'.mints]
    BY <2>1, <2>3 DEF Agree, Sight, CountMint
  <2>4. ASSUME NEW h \in Handlers, Identify(h), ~Agree(h), ~Sight(h), ~CountMint(h)
        PROVE  tally' = tally
    BY <2>4 DEF Identify, Recall, DecideMatch, DecideReview, DecideNew, Decide, Index, Fold,
                Answer, tables
  <2>5. CASE Tick \/ (\E h \in Handlers, p \in Probes, o \in Origins : Arrive(h, p, o))
             \/ (\E v \in Probes : EraseRecord(v)) \/ EraseBlocks \/ SweepTick \/ Purge
             \/ UNCHANGED vars
    BY <2>2, <2>5 DEF Tick, Arrive, EraseRecord, EraseBlocks, SweepTick, Purge, vars, tables
  <2> QED BY <2>2, <2>3, <2>4, <2>5 DEF Next
<1>10. tally' \in [sighted : Nat, matched : [Names -> [agree : Nat, total : Nat]],
                      mints : [VelocityKeys -> Seq(Nat)]]
  BY <1>6, <1>7, <1>8, <1>9
<1> QED BY <1>1, <1>2, <1>3, <1>4, <1>5, <1>6, <1>7, <1>8, <1>10 DEF TypeOK

---------------------------------------------------------------------------
\* An empty store satisfies the invariant.
LEMMA InitStoreInv == Init => StoreInv
<1> SUFFICES ASSUME Init PROVE StoreInv
  OBVIOUS
<1>1. /\ IsFiniteSet(DOMAIN frequency.count) /\ Cardinality(DOMAIN frequency.count) = 0
      /\ SumOver(frequency.count, DOMAIN frequency.count) = 0
  <2>1. DOMAIN frequency.count = {}
    BY DEF Init, NoFrequency
  <2>2. IsFiniteSet({}) /\ Cardinality({}) = 0
    BY FS_EmptySet
  <2>3. SumOver(frequency.count, {}) = 0
    BY <2>2, SumFacts
  <2> QED BY <2>1, <2>2, <2>3
<1>2. TypeOK
  BY DEF Init, TypeOK, NoFrequency, NoAgreement, NoEvents, EmptyIndex, NoPairs
<1>3. LockIsHeld /\ ReadsStand
  BY FuzzyStoreAssumption DEF Init, LockIsHeld, ReadsStand
<1>4. FrequencyAddsUp
  BY <1>1, AggregateAssumption DEF Init, FrequencyAddsUp, NoFrequency
<1>5. LearntFromMatches /\ ListsAreOfMints /\ CountsAreOfMints
  BY DEF Init, LearntFromMatches, ListsAreOfMints, CountsAreOfMints, NoAgreement, NoEvents
<1>6. IsFiniteSet(DOMAIN agreement.stats)
  <2>1. DOMAIN agreement.stats = {}
    BY DEF Init, NoAgreement
  <2> QED BY <2>1, FS_EmptySet
<1> QED BY <1>1, <1>2, <1>3, <1>4, <1>5, <1>6 DEF StoreInv

\* Every step of the store keeps the invariant.
LEMMA NextStoreInv == StoreInv /\ [Next]_vars => StoreInv'
BY NextTypeOK, NextLockIsHeld, NextReadsStand, NextFrequency, NextAgreement, NextVelocity
   DEF StoreInv

\* The lock belongs to one call, what that call has read still stands, and the
\* tables say what the calls did.
THEOREM StoreInvariant == Spec => []StoreInv
<1>1. StoreInv /\ [Next]_vars => StoreInv'
  BY NextStoreInv
<1> QED BY InitStoreInv, <1>1, PTL DEF Spec

\* The state of the engine is well typed (every backend of FuzzyStore).
THEOREM StoreIsTyped == Spec => []TypeOK
<1>1. StoreInv => TypeOK
  BY DEF StoreInv
<1> QED BY StoreInvariant, <1>1, PTL

\* Every sighting is counted or reported as dropped, and u_i's denominator is the
\* sum of its numerators (FrequencyTable::record), whatever requests interleave.
THEOREM SightingsAddUp == Spec => []FrequencyAddsUp
<1>1. StoreInv => FrequencyAddsUp
  BY DEF StoreInv
<1> QED BY StoreInvariant, <1>1, PTL

\* m_i says what the confirmed matches say, each compared with the template it was
\* decided on (record_agreement before observe, AgreementTable::record).
THEOREM AgreementIsLearnt == Spec => []LearntFromMatches
<1>1. StoreInv => LearntFromMatches
  BY DEF StoreInv
<1> QED BY StoreInvariant, <1>1, PTL

\* A velocity count is zero exactly for a key the cap refused; otherwise it is
\* the number of its key's mints that no request has found to be out of its window
\* (VelocityTable::record and count, interleaved by requests late and early).
THEOREM CountsCountMints == Spec => []CountsAreOfMints
<1>1. StoreInv => CountsAreOfMints
  BY DEF StoreInv
<1> QED BY StoreInvariant, <1>1, PTL

---------------------------------------------------------------------------
\* Atomicity: FuzzyStore implements FingerprintLibrary.

\* The library's operators on the record store and the index are these.
LEMMA SameOperators ==
    /\ \A S : Library!Cardinality(S) = Cardinality(S)
    /\ \A recs, v, c, t : Library!Observed(recs, v, c, t) = Observed(recs, v, c, t)
    /\ \A recs, t, w : Library!Purged(recs, t, w) = Purged(recs, t, w)
    /\ \A recs, v : Library!Removed(recs, v) = Removed(recs, v)
    /\ \A i, ks, v : /\ Library!InsertAll(i, ks, v) = InsertAll(i, ks, v)
                     /\ Library!Refused(i, ks, v) = Refused(i, ks, v)
                     /\ Library!WithoutVisitor(i, v) = WithoutVisitor(i, v)
                     /\ Library!Candidates(i, ks) = Candidates(i, ks)
<1>0. \A S : Library!Cardinality(S) = Cardinality(S)
  BY DEF Library!Cardinality, Cardinality
<1>1. \A recs, vs : Library!Keep(recs, vs) = Keep(recs, vs)
  BY DEF Library!Keep, Keep
<1>2. \A r, t : Library!Idle(r, t) = Idle(r, t)
  BY DEF Library!Idle, Idle
<1>3. \A recs, t, w : Library!IdleFor(recs, t, w) = IdleFor(recs, t, w)
  BY <1>2 DEF Library!IdleFor, IdleFor
<1>4. \A recs, v, c, t : Library!Upsert(recs, v, c, t) = Upsert(recs, v, c, t)
  <2>1. \A c, t : Library!Stamp(c, t) = Stamp(c, t)
    BY DEF Library!Stamp, Stamp
  <2>2. \A r, c, t : Library!Refreshed(r, c, t) = Refreshed(r, c, t)
    BY <2>1 DEF Library!Refreshed, Refreshed
  <2>3. \A c, t : Library!Born(c, t) = Born(c, t)
    BY <2>1 DEF Library!Born, Born
  <2> QED BY <2>2, <2>3 DEF Library!Upsert, Upsert
<1>5. \A recs, t : Library!AfterTTL(recs, t) = AfterTTL(recs, t)
  BY <1>1, <1>3 DEF Library!AfterTTL, AfterTTL
<1>6. \A recs, v : Library!CapVictims(recs, v) = CapVictims(recs, v)
  <2>1. \A recs : Library!Excess(recs) = Excess(recs)
    BY <1>0 DEF Library!Excess, Excess
  <2>2. ASSUME NEW recs, NEW v, NEW out \in SUBSET (DOMAIN recs \ {v})
        PROVE  out \in Library!CapVictims(recs, v) <=> out \in CapVictims(recs, v)
    <3>1. Library!Excess(recs) = Excess(recs) /\ Library!Cardinality(out) = Cardinality(out)
      BY <1>0, <2>1
    <3> QED BY <3>1 DEF Library!CapVictims, CapVictims
  <2>3. ASSUME NEW recs, NEW v
        PROVE  Library!CapVictims(recs, v) = CapVictims(recs, v)
    <3>1. /\ Library!CapVictims(recs, v) \subseteq SUBSET (DOMAIN recs \ {v})
          /\ CapVictims(recs, v) \subseteq SUBSET (DOMAIN recs \ {v})
      BY DEF Library!CapVictims, CapVictims
    <3> QED BY <2>2, <3>1
  <2> QED BY <2>3
<1>7. \A recs, v, c, t : Library!Observed(recs, v, c, t) = Observed(recs, v, c, t)
  <2>1. ASSUME NEW recs, NEW v, NEW c, NEW t
        PROVE  Library!Observed(recs, v, c, t) = Observed(recs, v, c, t)
    <3> DEFINE live == AfterTTL(Upsert(recs, v, c, t), t)
    <3>1. Library!AfterTTL(Library!Upsert(recs, v, c, t), t) = live
      BY <1>4, <1>5
    <3>2. Observed(recs, v, c, t) = {Keep(live, DOMAIN live \ out) : out \in CapVictims(live, v)}
      BY DEF Observed
    <3> HIDE DEF live
    <3>3. Library!Observed(recs, v, c, t) =
              {Library!Keep(live, DOMAIN live \ out) : out \in Library!CapVictims(live, v)}
      BY <3>1, Zenon DEF Library!Observed
    <3>4. /\ Library!CapVictims(live, v) = CapVictims(live, v)
          /\ \A vs : Library!Keep(live, vs) = Keep(live, vs)
      BY <1>1, <1>6
    <3> QED BY <3>2, <3>3, <3>4
  <2> QED BY <2>1
<1>8. \A recs, t, w : Library!Purged(recs, t, w) = Purged(recs, t, w)
  BY <1>1, <1>3 DEF Library!Purged, Purged
<1>9. \A recs, v : Library!Removed(recs, v) = Removed(recs, v)
  BY <1>1 DEF Library!Removed, Removed
<1>10. \A i, ks, v : Library!Refused(i, ks, v) = Refused(i, ks, v)
  BY <1>0 DEF Library!Refused, Refused, Library!Full, Full
<1>11. \A i, ks, v : Library!InsertAll(i, ks, v) = InsertAll(i, ks, v)
  BY <1>10 DEF Library!InsertAll, InsertAll
<1>12. \A i, ks, v : /\ Library!WithoutVisitor(i, v) = WithoutVisitor(i, v)
                     /\ Library!Candidates(i, ks) = Candidates(i, ks)
  BY DEF Library!WithoutVisitor, WithoutVisitor, Library!Candidates, Candidates
<1> QED BY <1>0, <1>7, <1>8, <1>9, <1>10, <1>11, <1>12

\* While nobody is past the writes and nothing is half erased, the library is what
\* the backends hold.
LEMMA SeenAtRest ==
    ASSUME \A g \in DOMAIN jobs : jobs[g].phase # "fold", erasing = {}
    PROVE  SeenRecords = records /\ SeenIndex = index
BY DEF SeenRecords, SeenIndex, Indexed

\* A call whose phase stays on the same side of its effect is waiting as before.
LEMMA WaitingStays ==
    ASSUME DOMAIN jobs' = DOMAIN jobs,
           \A g \in DOMAIN jobs : /\ Effective(g)' <=> Effective(g)
                                  /\ jobs'[g].probe = jobs[g].probe
                                  /\ jobs'[g].now = jobs[g].now
    PROVE  Waiting' = Waiting
BY DEF Waiting

\* The step by which a call takes effect is its leaving, in the library's terms.
LEMMA WaitingLeaves ==
    ASSUME NEW h \in DOMAIN jobs, ~Effective(h), Effective(h)',
           DOMAIN jobs' = DOMAIN jobs,
           \A g \in DOMAIN jobs : g # h => jobs'[g] = jobs[g]
    PROVE  Library!Leave(h)
<1>1. \A g \in DOMAIN jobs : g # h => (Effective(g)' <=> Effective(g))
  BY DEF Effective
<1>2. {g \in DOMAIN jobs' : ~Effective(g)'} = {g \in DOMAIN jobs : ~Effective(g)} \ {h}
  BY <1>1
<1>3. \A g \in {g \in DOMAIN jobs : ~Effective(g)} \ {h} : jobs'[g] = jobs[g]
  OBVIOUS
<1> QED BY <1>2, <1>3 DEF Library!Leave, Waiting

\* What a step of a call does to its request and its phase.
LEMMA CallKeeps ==
    ASSUME StoreInv, NEW h \in Handlers, Identify(h), ~Answer(h)
    PROVE  /\ h \in DOMAIN jobs /\ DOMAIN jobs' = DOMAIN jobs
           /\ \A g \in DOMAIN jobs : g # h => jobs'[g] = jobs[g]
           /\ jobs'[h].probe = jobs[h].probe /\ jobs'[h].now = jobs[h].now
           /\ Fold(h) \/ DecideReview(h) =>
                 /\ jobs[h].phase \in {"decide", "fold"}
                 /\ jobs'[h].phase \in {"count", "answer"}
           /\ ~Fold(h) /\ ~DecideReview(h) =>
                 /\ jobs[h].phase # "fold"
                 /\ jobs[h].phase \in {"count", "answer"} <=>
                    jobs'[h].phase \in {"count", "answer"}
           /\ jobs'[h].phase = "fold" => Index(h)
<1>a. TypeOK
  BY DEF StoreInv
<1>1. /\ h \in DOMAIN jobs /\ DOMAIN jobs' = DOMAIN jobs
      /\ \A g \in DOMAIN jobs : g # h => jobs'[g] = jobs[g]
  <2>1. PICK j \in Job : Moved(h, j) /\ Len(j.counts) <= Len(j.origin)
    BY CallMoves
  <2> QED BY <1>a, <2>1, MovedJobs DEF Moved
<1>2. jobs[h] \in Job
  BY <1>a, <1>1 DEF TypeOK
<1>3. ASSUME NEW verdict, NEW v, NEW phase, Decide(h, verdict, v, phase)
      PROVE  /\ jobs'[h].probe = jobs[h].probe /\ jobs'[h].now = jobs[h].now
             /\ jobs'[h].phase = phase
  <2>1. Moved(h, [jobs[h] EXCEPT !.phase = phase, !.verdict = verdict, !.target = v])
    BY <1>a, <1>1, <1>3, JobMoves
  <2> QED BY <1>1, <1>2, <2>1 DEF Moved, Job
<1>4. ASSUME NEW phase, Advance(h, phase)
      PROVE  /\ jobs'[h].probe = jobs[h].probe /\ jobs'[h].now = jobs[h].now
             /\ jobs'[h].phase = phase
  <2>1. Moved(h, [jobs[h] EXCEPT !.phase = phase])
    BY <1>a, <1>1, <1>4, JobMoves
  <2> QED BY <1>1, <1>2, <2>1 DEF Moved, Job
<1>5. CASE Recall(h)
  <2>1. Moved(h, [jobs[h] EXCEPT !.phase = "decide",
                                 !.candidates = Candidates(index, KeysOf[jobs[h].probe])])
    BY <1>a, <1>5, JobMoves
  <2>2. /\ jobs'[h].probe = jobs[h].probe /\ jobs'[h].now = jobs[h].now
        /\ jobs'[h].phase = "decide" /\ jobs[h].phase = "recall"
    BY <1>1, <1>2, <1>5, <2>1 DEF Moved, Job, Recall, At
  <2>3. ~Fold(h) /\ ~DecideReview(h)
    BY <2>2 DEF Fold, DecideReview, At
  <2> QED BY <1>1, <2>2, <2>3
<1>6. CASE DecideMatch(h) \/ DecideNew(h)
  <2>1. /\ jobs'[h].probe = jobs[h].probe /\ jobs'[h].now = jobs[h].now
        /\ jobs'[h].phase \in {"agree", "sight"} /\ jobs[h].phase = "decide"
    BY <1>3, <1>6 DEF DecideMatch, DecideNew, At
  <2>2. ~Fold(h) /\ ~DecideReview(h)
    <3>1. ASSUME NEW v, Decide(h, "review", v, "answer") PROVE FALSE
      BY <1>3, <2>1, <3>1
    <3> QED BY <2>1, <3>1 DEF Fold, DecideReview, At
  <2> QED BY <1>1, <2>1, <2>2
<1>7. CASE DecideReview(h)
  <2>1. /\ jobs'[h].probe = jobs[h].probe /\ jobs'[h].now = jobs[h].now
        /\ jobs'[h].phase = "answer" /\ jobs[h].phase = "decide"
    BY <1>3, <1>7 DEF DecideReview, At
  <2> QED BY <1>1, <1>7, <2>1
<1>8. CASE Agree(h) \/ Sight(h) \/ Index(h)
  <2>1. /\ jobs'[h].probe = jobs[h].probe /\ jobs'[h].now = jobs[h].now
        /\ jobs'[h].phase \in {"sight", "index", "fold"}
        /\ jobs[h].phase \in {"agree", "sight", "index"}
        /\ jobs'[h].phase = "fold" => Index(h)
    BY <1>4, <1>8 DEF Agree, Sight, Index, At
  <2>2. ~Fold(h) /\ ~DecideReview(h)
    BY <2>1 DEF Fold, DecideReview, At
  <2> QED BY <1>1, <2>1, <2>2
<1>9. CASE Fold(h)
  <2>1. /\ jobs'[h].probe = jobs[h].probe /\ jobs'[h].now = jobs[h].now
        /\ jobs'[h].phase \in {"count", "answer"} /\ jobs[h].phase = "fold"
    BY <1>4, <1>9 DEF Fold, At
  <2> QED BY <1>1, <1>9, <2>1
<1>10. CASE CountMint(h)
  <2> DEFINE n == Len(jobs[h].counts) + 1
             key == jobs[h].origin[n]
             secs == jobs[h].now \div Second
             events == Pruned(Recorded(velocity, key, secs), key, secs)
             counts == Append(jobs[h].counts, Count(events, key))
             phase == IF n = Len(jobs[h].origin) THEN "answer" ELSE "count"
  <2>1. Moved(h, [jobs[h] EXCEPT !.counts = counts, !.phase = phase])
    BY <1>10, CountMintMoves
  <2>2. phase \in {"count", "answer"}
    OBVIOUS
  <2> HIDE DEF counts, phase
  <2>3. /\ jobs'[h].probe = jobs[h].probe /\ jobs'[h].now = jobs[h].now
        /\ jobs'[h].phase = phase
    BY <1>1, <1>2, <2>1 DEF Moved, Job
  <2>5. jobs'[h].phase \in {"count", "answer"} /\ jobs[h].phase = "count"
    BY <1>10, <2>2, <2>3 DEF CountMint, At
  <2>4. ~Fold(h) /\ ~DecideReview(h)
    BY <2>5 DEF Fold, DecideReview, At
  <2> QED BY <1>1, <2>3, <2>4, <2>5
<1> QED BY <1>5, <1>6, <1>7, <1>8, <1>9, <1>10 DEF Identify

\* The steps of a call that callers of other calls cannot tell.
LEMMA CallStutters ==
    ASSUME StoreInv, NEW h \in Handlers, Identify(h), ~Answer(h), ~Fold(h), ~DecideReview(h)
    PROVE  UNCHANGED Library!vars
<1>a. TypeOK /\ LockIsHeld /\ ReadsStand
  BY DEF StoreInv
<1>1. /\ h \in DOMAIN jobs /\ DOMAIN jobs' = DOMAIN jobs
      /\ \A g \in DOMAIN jobs : g # h => jobs'[g] = jobs[g]
      /\ jobs'[h].probe = jobs[h].probe /\ jobs'[h].now = jobs[h].now
      /\ jobs[h].phase # "fold"
      /\ jobs[h].phase \in {"count", "answer"} <=> jobs'[h].phase \in {"count", "answer"}
      /\ jobs'[h].phase = "fold" => Index(h)
  BY CallKeeps
<1>2. Waiting' = Waiting
  <2>1. ASSUME NEW g \in DOMAIN jobs
        PROVE  /\ Effective(g)' <=> Effective(g)
               /\ jobs'[g].probe = jobs[g].probe
               /\ jobs'[g].now = jobs[g].now
    BY <1>1 DEF Effective
  <2> QED BY <1>1, <2>1, WaitingStays
<1>3. erasing = {} /\ erasing' = {} /\ \A g \in DOMAIN jobs : g # h => jobs[g].phase = "recall"
  <2>1. \E j \in Job : erasing' = erasing
    BY CallMoves
  <2>2. CASE Recall(h)
    BY <1>a, <2>1, <2>2, NobodyHolds DEF Recall, Unlocked
  <2>3. CASE ~Recall(h)
    <3>1. jobs[h].phase # "recall"
      BY <2>3 DEF Identify, DecideMatch, DecideReview, DecideNew, Agree, Sight,
                  Index, Fold, CountMint, At
    <3> QED BY <1>a, <1>1, <2>1, <3>1, Holder
  <2> QED BY <2>2, <2>3
<1>4. UNCHANGED <<clock, requests, sweep, records, evicted, absorbed, dropped, erased, ledger>>
  BY DEF Identify, Recall, DecideMatch, DecideReview, DecideNew, Decide, Agree, Sight, Index,
         CountMint, outside, library
<1>5. SeenRecords = records /\ SeenIndex = index
  BY <1>1, <1>3, SeenAtRest
<1>6. SeenRecords' = records
  BY <1>3, <1>4 DEF SeenRecords
<1>7. SeenIndex' = index
  <2>1. CASE Index(h)
    <3>1. jobs[h].phase = "index" /\ saved' = saved
      BY <2>1 DEF Index, At
    <3>2. index = saved.index
      BY <1>a, <1>1, <3>1 DEF ReadsStand, JobStands
    <3>3. jobs'[h].phase = "fold"
      <4>1. Moved(h, [jobs[h] EXCEPT !.phase = "fold"])
        BY <1>a, <1>1, <2>1, JobMoves DEF Index
      <4> QED BY <1>a, <1>1, <4>1 DEF Moved, TypeOK, Job
    <3> QED BY <1>1, <3>1, <3>2, <3>3 DEF SeenIndex, Indexed
  <2>2. CASE ~Index(h)
    <3>1. index' = index
      BY <2>2 DEF Identify, Recall, DecideMatch, DecideReview, DecideNew, Decide, Agree,
                  Sight, CountMint, library
    <3>2. ~Indexed'
      BY <1>1, <1>3, <2>2 DEF Indexed
    <3> QED BY <3>1, <3>2 DEF SeenIndex
  <2> QED BY <2>1, <2>2
<1> QED BY <1>2, <1>4, <1>5, <1>6, <1>7 DEF Library!vars

\* The step of a call that callers see takes it out of those waiting.
LEMMA CallTakesEffect ==
    ASSUME StoreInv, NEW h \in Handlers, Identify(h), Fold(h) \/ DecideReview(h)
    PROVE  /\ h \in DOMAIN jobs /\ jobs[h] \in Job
           /\ h \in DOMAIN Waiting
           /\ Waiting[h] = [probe |-> jobs[h].probe, now |-> jobs[h].now]
           /\ Library!Leave(h)
           /\ erasing = {} /\ erasing' = {}
           /\ SeenRecords = records /\ SeenRecords' = records'
           /\ SeenIndex' = index' /\ index' = index
           /\ SeenIndex = IF Fold(h) THEN saved.index ELSE index
<1>a. TypeOK /\ LockIsHeld /\ ReadsStand
  BY DEF StoreInv
<1>0. ~Answer(h)
  <2>1. h \in DOMAIN jobs /\ jobs[h].phase \in {"decide", "fold"}
    BY DEF Fold, DecideReview, At
  <2> QED BY <2>1 DEF Answer, At
<1>1. /\ h \in DOMAIN jobs /\ DOMAIN jobs' = DOMAIN jobs
      /\ \A g \in DOMAIN jobs : g # h => jobs'[g] = jobs[g]
      /\ jobs[h].phase \in {"decide", "fold"}
      /\ jobs'[h].phase \in {"count", "answer"}
  BY <1>0, CallKeeps
<1>2. ~Effective(h) /\ Effective(h)'
  BY <1>1 DEF Effective
<1>3. Library!Leave(h)
  BY <1>1, <1>2, WaitingLeaves
<1>4. h \in DOMAIN Waiting /\ Waiting[h] = [probe |-> jobs[h].probe, now |-> jobs[h].now]
  BY <1>1, <1>2 DEF Waiting
<1>5. erasing = {} /\ \A g \in DOMAIN jobs : g # h => jobs[g].phase = "recall"
  BY <1>a, <1>1, Holder
<1>6. erasing' = {}
  BY <1>5 DEF Fold, DecideReview, Decide
<1>7. SeenRecords = records /\ SeenRecords' = records'
  BY <1>5, <1>6 DEF SeenRecords
<1>8. index' = index
  BY DEF Fold, DecideReview, Decide, library
<1>9. ~Indexed'
  BY <1>1, <1>5 DEF Indexed
<1>10. SeenIndex = IF Fold(h) THEN saved.index ELSE index
  <2>1. CASE Fold(h)
    <3>1. Indexed
      BY <1>1, <2>1 DEF Indexed, Fold, At
    <3> QED BY <2>1, <3>1 DEF SeenIndex
  <2>2. CASE ~Fold(h)
    <3>1. ~Indexed
      BY <1>1, <1>5, <2>2 DEF Indexed, DecideReview, At
    <3> QED BY <2>2, <3>1 DEF SeenIndex
  <2> QED BY <2>1, <2>2
<1>11. jobs[h] \in Job
  BY <1>a, <1>1 DEF TypeOK
<1> QED BY <1>1, <1>3, <1>4, <1>5, <1>6, <1>7, <1>8, <1>9, <1>10, <1>11 DEF SeenIndex

\* A review writes nothing: the library's IdentifyReview.
LEMMA ReviewIsOne ==
    ASSUME StoreInv, NEW h \in Handlers, DecideReview(h)
    PROVE  \E v \in Probes : Library!IdentifyReview(h, v)
<1>a. TypeOK /\ LockIsHeld /\ ReadsStand
  BY DEF StoreInv
<1>1. /\ h \in DOMAIN jobs /\ jobs[h] \in Job
      /\ h \in DOMAIN Waiting
      /\ Waiting[h] = [probe |-> jobs[h].probe, now |-> jobs[h].now]
      /\ Library!Leave(h)
      /\ SeenRecords = records /\ SeenRecords' = records'
      /\ SeenIndex' = index' /\ index' = index
  BY CallTakesEffect DEF Identify
<1>2. SeenIndex = index
  <2>1. ~Fold(h)
    BY DEF DecideReview, Fold, At
  <2> QED BY <2>1, CallTakesEffect DEF Identify
<1>3. PICK v \in Scorable(h) : Decide(h, "review", v, "answer")
  BY DEF DecideReview
<1>4. jobs[h].candidates = Candidates(index, KeysOf[jobs[h].probe]) /\ jobs[h].phase = "decide"
  BY <1>a, <1>1 DEF ReadsStand, JobStands, DecideReview, At
<1>5. v \in Probes
  BY <1>1, <1>3 DEF Scorable, Job
<1>6. v \in Library!Comparable(Waiting[h].probe)
  <2>1. Waiting[h].probe = jobs[h].probe
    BY <1>1
  <2>2. Library!Candidates(SeenIndex, KeysOf[jobs[h].probe]) = jobs[h].candidates
    BY <1>2, <1>4, SameOperators
  <2> QED BY <1>1, <1>3, <2>1, <2>2 DEF Library!Comparable, Scorable
<1>7. UNCHANGED <<clock, requests, sweep, records, evicted, absorbed, dropped, erased, ledger>>
  BY <1>3 DEF Decide, outside, library
<1>8. Library!IdentifyReview(h, v)
  BY <1>1, <1>2, <1>6, <1>7 DEF Library!IdentifyReview, Library!library
<1> QED BY <1>5, <1>8

\* The fold is where a match or a new device takes effect.
LEMMA FoldIsOne ==
    ASSUME StoreInv, NEW h \in Handlers, Fold(h)
    PROVE  \/ \E v \in Probes : Library!IdentifyMatch(h, v)
           \/ Library!IdentifyNew(h)
<1> DEFINE job == jobs[h]
           v == job.target
<1>a. TypeOK /\ LockIsHeld /\ ReadsStand
  BY DEF StoreInv
<1>1. /\ h \in DOMAIN jobs /\ job \in Job
      /\ h \in DOMAIN Waiting
      /\ Waiting[h].probe = job.probe /\ Waiting[h].now = job.now
      /\ Library!Leave(h)
      /\ SeenRecords = records /\ SeenRecords' = records'
      /\ SeenIndex' = index' /\ index' = index /\ SeenIndex = saved.index
  <2>1. Identify(h)
    BY DEF Identify
  <2>2. /\ h \in DOMAIN jobs /\ jobs[h] \in Job
        /\ h \in DOMAIN Waiting
        /\ Waiting[h] = [probe |-> jobs[h].probe, now |-> jobs[h].now]
        /\ Library!Leave(h)
        /\ SeenRecords = records /\ SeenRecords' = records'
        /\ SeenIndex' = index' /\ index' = index
        /\ SeenIndex = IF Fold(h) THEN saved.index ELSE index
    BY <2>1, CallTakesEffect
  <2> QED BY <2>2
<1>2. /\ index = InsertAll(saved.index, KeysOf[job.probe], v)
      /\ \/ job.verdict = "match" /\ v \in Comparable(job.probe)
         \/ job.verdict = "new" /\ v = Visitor(job.probe)
  BY <1>a, <1>1 DEF ReadsStand, JobStands, Fold, At
<1>3. v \in Probes
  BY <1>1 DEF Job
<1>4. Library!Observe(v, job.probe, job.now)
  <2>1. SeenIndex' = Library!InsertAll(SeenIndex, KeysOf[job.probe], v)
    BY <1>1, <1>2, SameOperators
  <2>2. dropped' = LET refused == Library!Refused(SeenIndex, KeysOf[job.probe], v)
                   IN  {d \in dropped : d[1] \notin KeysOf[job.probe] \/ d[2] # v}
                       \cup {<<k, v>> : k \in refused}
    <3>1. Library!Refused(SeenIndex, KeysOf[job.probe], v)
              = Refused(saved.index, KeysOf[job.probe], v)
      BY <1>1, SameOperators
    <3>2. dropped' = {d \in dropped : d[1] \notin KeysOf[job.probe] \/ d[2] # v}
                     \cup {<<k, v>> : k \in Refused(saved.index, KeysOf[job.probe], v)}
      BY DEF Fold
    <3> QED BY <3>1, <3>2
  <2>3. PICK recs \in Observed(records, v, Stored[job.probe], job.now) :
           /\ records' = recs
           /\ evicted' = evicted + Cardinality((DOMAIN records \cup {v}) \ DOMAIN recs)
           /\ absorbed' = [w \in Probes |->
                  IF w \notin DOMAIN recs THEN {}
                  ELSE IF w # v THEN absorbed[w]
                  ELSE absorbed[w] \cup {[probe |-> job.probe, at |-> job.now]}]
    BY DEF Fold
  <2>4. recs \in Library!Observed(SeenRecords, v, Stored[job.probe], job.now)
    BY <1>1, <2>3, SameOperators
  <2>5. evicted' = evicted + Library!Gone(DOMAIN SeenRecords \cup {v}, DOMAIN recs)
    <3>1. Library!Gone(DOMAIN SeenRecords \cup {v}, DOMAIN recs)
              = Cardinality((DOMAIN records \cup {v}) \ DOMAIN recs)
      BY <1>1, SameOperators DEF Library!Gone
    <3> QED BY <2>3, <3>1
  <2> HIDE DEF v, job
  <2> QED BY <1>1, <2>1, <2>2, <2>3, <2>4, <2>5 DEF Library!Observe
<1>5. UNCHANGED <<clock, requests, sweep>>
  BY DEF Fold, outside
<1>6. CASE job.verdict = "match" /\ v \in Comparable(job.probe)
  <2>1. v \in Library!Comparable(Waiting[h].probe)
    BY <1>1, <1>6, SameOperators DEF Comparable, Library!Comparable
  <2>2. UNCHANGED <<erased, ledger>>
    BY <1>6 DEF Fold
  <2> HIDE DEF v
  <2>3. Library!IdentifyMatch(h, v)
    BY <1>1, <1>4, <1>5, <2>1, <2>2 DEF Library!IdentifyMatch
  <2> QED BY <1>3, <2>3
<1>7. CASE job.verdict = "new" /\ v = Visitor(job.probe)
  <2>1. /\ erased' = erased \ {v}
        /\ ledger' = [ledger EXCEPT !.created = @ + Newly(v)]
    BY <1>7 DEF Fold
  <2>2. Library!Visitor(job.probe) = v
    BY <1>7 DEF Library!Visitor, Visitor
  <2>3. Library!Newly(v) = Newly(v)
    BY <1>1 DEF Library!Newly, Newly
  <2> HIDE DEF v, job
  <2>4. Library!IdentifyNew(h)
    BY <1>1, <1>4, <1>5, <2>1, <2>2, <2>3 DEF Library!IdentifyNew
  <2> QED BY <2>4
<1> QED BY <1>2, <1>6, <1>7

\* An answer gives the lock back and changes nothing else.
LEMMA AnswerStutters ==
    ASSUME StoreInv, NEW h \in Handlers, Answer(h)
    PROVE  UNCHANGED Library!vars
<1>a. TypeOK /\ LockIsHeld
  BY DEF StoreInv
<1>1. /\ h \in DOMAIN jobs /\ jobs[h].phase = "answer"
      /\ DOMAIN jobs' = DOMAIN jobs \ {h}
      /\ \A g \in DOMAIN jobs' : jobs'[g] = jobs[g]
  BY CallEnds DEF Answer, At
<1>2. Waiting' = Waiting
  <2>1. {g \in DOMAIN jobs' : ~Effective(g)'} = {g \in DOMAIN jobs : ~Effective(g)}
    BY <1>1 DEF Effective
  <2>2. \A g \in {g \in DOMAIN jobs : ~Effective(g)} : jobs'[g] = jobs[g]
    BY <1>1 DEF Effective
  <2> QED BY <2>1, <2>2 DEF Waiting
<1>3. Indexed' = Indexed
  BY <1>1 DEF Indexed
<1>4. /\ UNCHANGED <<clock, requests, sweep, erasing, records, index, saved>>
      /\ UNCHANGED <<evicted, absorbed, dropped, erased, ledger>>
  BY DEF Answer, outside, library
<1> QED BY <1>2, <1>3, <1>4 DEF Library!vars, SeenRecords, SeenIndex

\* A new call waits.
LEMMA ArriveIsOne ==
    ASSUME StoreInv, NEW h \in Handlers, NEW p \in Probes, NEW o \in Origins, Arrive(h, p, o)
    PROVE  Library!Arrive(h, p)
<1>1. /\ h \notin DOMAIN jobs /\ DOMAIN jobs' = DOMAIN jobs \cup {h}
      /\ jobs'[h].probe = p /\ jobs'[h].now = clock /\ jobs'[h].phase = "recall"
      /\ \A g \in DOMAIN jobs : jobs'[g] = jobs[g]
  BY CallArrives DEF StoreInv
<1>2. h \notin DOMAIN Waiting /\ DOMAIN Waiting = {g \in DOMAIN jobs : ~Effective(g)}
  BY <1>1 DEF Waiting
<1>3. Waiting' = [g \in DOMAIN Waiting \cup {h} |->
                     IF g = h THEN [probe |-> p, now |-> clock] ELSE Waiting[g]]
  <2>1. {g \in DOMAIN jobs' : ~Effective(g)'} = DOMAIN Waiting \cup {h}
    BY <1>1, <1>2 DEF Effective
  <2>2. \A g \in DOMAIN Waiting : /\ g # h /\ jobs'[g] = jobs[g]
                                  /\ Waiting[g] = [probe |-> jobs[g].probe, now |-> jobs[g].now]
    BY <1>1, <1>2 DEF Waiting
  <2>3. Waiting' = [g \in DOMAIN Waiting \cup {h} |->
                       [probe |-> jobs'[g].probe, now |-> jobs'[g].now]]
    BY <2>1 DEF Waiting
  <2> QED BY <1>1, <2>2, <2>3
<1>4. Indexed' = Indexed
  BY <1>1 DEF Indexed
<1>5. /\ UNCHANGED <<clock, sweep, erasing, records, index, saved>>
      /\ UNCHANGED <<evicted, absorbed, dropped, erased, ledger>>
      /\ requests < MaxRequests /\ requests' = requests + 1
  BY DEF Arrive, library
<1> QED BY <1>2, <1>3, <1>4, <1>5 DEF Library!Arrive, Library!library, SeenRecords, SeenIndex

\* Between the two deletions of an erasure callers would find what was there.
LEMMA EraseRecordStutters ==
    ASSUME StoreInv, NEW v \in Probes, EraseRecord(v)
    PROVE  UNCHANGED Library!vars
<1>1. /\ lock = "free" /\ erasing' = {v} /\ jobs' = jobs /\ index' = index
      /\ saved' = [records |-> records, index |-> index]
      /\ UNCHANGED <<clock, requests, sweep, evicted, absorbed, dropped, erased, ledger>>
  BY DEF EraseRecord, Unlocked
<1>2. erasing = {} /\ \A g \in DOMAIN jobs : jobs[g].phase = "recall"
  BY <1>1, NobodyHolds DEF StoreInv
<1>3. SeenRecords = records /\ SeenIndex = index
  BY <1>2, SeenAtRest
<1>4. SeenRecords' = records /\ SeenIndex' = index
  BY <1>1, <1>2 DEF SeenRecords, SeenIndex, Indexed
<1>5. Waiting' = Waiting
  BY <1>1 DEF Waiting, Effective
<1> QED BY <1>1, <1>3, <1>4, <1>5 DEF Library!vars

\* The second half of an erasure is the library's erasure, done at once.
LEMMA EraseBlocksIsOne ==
    ASSUME StoreInv, EraseBlocks
    PROVE  \E v \in Probes : Library!Erase(v)
<1>a. TypeOK /\ LockIsHeld /\ ReadsStand
  BY DEF StoreInv
<1>1. PICK v \in erasing :
         /\ index' = WithoutVisitor(index, v)
         /\ absorbed' = [absorbed EXCEPT ![v] = {}]
         /\ dropped' = {d \in dropped : d[2] # v}
         /\ erased' = erased \cup {v}
         /\ ledger' = [ledger EXCEPT !.forgotten =
                           IF v \in DOMAIN saved.records THEN @ + 1 ELSE @]
  BY DEF EraseBlocks
<1>2. /\ jobs' = jobs /\ erasing' = {} /\ erasing # {}
      /\ UNCHANGED <<clock, requests, sweep, records, evicted>>
  BY <1>1 DEF EraseBlocks, outside
<1>3. \A g \in DOMAIN jobs : jobs[g].phase = "recall"
  BY <1>a, <1>2, EraserHolds
<1>4. v \in Probes /\ records = Removed(saved.records, v) /\ index = saved.index
  BY <1>a, <1>1 DEF TypeOK, ReadsStand
<1>5. /\ SeenRecords = saved.records /\ SeenRecords' = records
      /\ SeenIndex = index /\ SeenIndex' = index'
  BY <1>2, <1>3 DEF SeenRecords, SeenIndex, Indexed
<1>6. Waiting' = Waiting
  BY <1>2 DEF Waiting, Effective
<1>7. SeenRecords' = Library!Removed(SeenRecords, v)
  BY <1>4, <1>5, SameOperators
<1>8. SeenIndex' = Library!WithoutVisitor(SeenIndex, v)
  BY <1>1, <1>5, SameOperators
<1>9. ledger' = [ledger EXCEPT !.forgotten = @ + 1 - Library!Newly(v)]
  <2>1. ledger \in [created : Nat, forgotten : Nat]
    BY <1>a DEF TypeOK
  <2>2. (IF v \in DOMAIN saved.records THEN ledger.forgotten + 1 ELSE ledger.forgotten)
            = ledger.forgotten + 1 - Library!Newly(v)
    BY <1>5, <2>1 DEF Library!Newly
  <2> QED BY <1>1, <2>1, <2>2
<1> QED BY <1>1, <1>2, <1>4, <1>6, <1>7, <1>8, <1>9 DEF Library!Erase

\* A sweep of the store is a sweep of the library.
LEMMA PurgeIsOne == ASSUME StoreInv, Purge PROVE Library!Purge
<1>1. /\ lock = "free" /\ jobs' = jobs /\ erasing' = erasing /\ sweep' = {}
      /\ UNCHANGED <<clock, requests, index, saved, dropped, erased, ledger>>
  BY DEF Purge, Unlocked
<1>2. PICK t \in sweep :
         /\ records' = Purged(records, t, Retention)
         /\ evicted' = evicted + Cardinality(DOMAIN records \ DOMAIN records')
         /\ absorbed' = [v \in Probes |->
                             IF v \in DOMAIN records' THEN absorbed[v] ELSE {}]
  BY DEF Purge
<1>3. erasing = {} /\ \A g \in DOMAIN jobs : jobs[g].phase = "recall"
  BY <1>1, NobodyHolds DEF StoreInv
<1>4. SeenRecords = records /\ SeenIndex = index
  BY <1>3, SeenAtRest
<1>5. SeenRecords' = records' /\ SeenIndex' = index
  BY <1>1, <1>3 DEF SeenRecords, SeenIndex, Indexed
<1>6. Waiting' = Waiting
  BY <1>1 DEF Waiting, Effective
<1>7. Library!Purged(SeenRecords, t, Retention) = records'
  BY <1>2, <1>4, SameOperators
<1>8. Library!Gone(DOMAIN records, DOMAIN records') = Cardinality(DOMAIN records \ DOMAIN records')
  BY SameOperators DEF Library!Gone
<1> QED BY <1>1, <1>2, <1>4, <1>5, <1>6, <1>7, <1>8 DEF Library!Purge

\* The clock, the sweep's tick and a stutter concern no call.
LEMMA OutsideIsOne ==
    ASSUME jobs' = jobs, erasing' = erasing, UNCHANGED library
    PROVE  /\ Waiting' = Waiting /\ SeenRecords' = SeenRecords /\ SeenIndex' = SeenIndex
           /\ UNCHANGED <<evicted, absorbed, dropped, erased, ledger>>
BY DEF Waiting, Effective, SeenRecords, SeenIndex, Indexed, library

\* Every step of the store is one step of the library or none.
LEMMA StepIsOne ==
    ASSUME StoreInv, [Next]_vars
    PROVE  [Library!Next]_(Library!vars)
<1>1. CASE Tick
  <2>1. jobs' = jobs /\ erasing' = erasing /\ UNCHANGED library
    BY <1>1 DEF Tick
  <2>2. Library!Tick
    BY <1>1, <2>1, OutsideIsOne DEF Tick, Library!Tick, Library!library
  <2> QED BY <2>2 DEF Library!Next
<1>2. CASE SweepTick
  <2>1. jobs' = jobs /\ erasing' = erasing /\ UNCHANGED library
    BY <1>2 DEF SweepTick
  <2>2. Library!SweepTick
    BY <1>2, <2>1, OutsideIsOne DEF SweepTick, Library!SweepTick, Library!library
  <2> QED BY <2>2 DEF Library!Next
<1>3. CASE UNCHANGED vars
  BY <1>3, OutsideIsOne DEF vars, outside, Library!vars
<1>4. CASE Purge
  BY <1>4, PurgeIsOne DEF Library!Next
<1>5. CASE EraseBlocks
  BY <1>5, EraseBlocksIsOne DEF Library!Next
<1>6. ASSUME NEW v \in Probes, EraseRecord(v)
      PROVE  UNCHANGED Library!vars
  BY <1>6, EraseRecordStutters
<1>7. ASSUME NEW h \in Handlers, NEW p \in Probes, NEW o \in Origins, Arrive(h, p, o)
      PROVE  Library!Next
  BY <1>7, ArriveIsOne DEF Library!Next
<1>8. ASSUME NEW h \in Handlers, Identify(h)
      PROVE  [Library!Next]_(Library!vars)
  <2>1. CASE Fold(h)
    BY <2>1, FoldIsOne DEF Library!Next
  <2>2. CASE DecideReview(h)
    BY <2>2, ReviewIsOne DEF Library!Next
  <2>3. CASE Answer(h)
    BY <2>3, AnswerStutters
  <2>4. CASE ~Fold(h) /\ ~DecideReview(h) /\ ~Answer(h)
    BY <1>8, <2>4, CallStutters
  <2> QED BY <2>1, <2>2, <2>3, <2>4
<1> QED BY <1>1, <1>2, <1>3, <1>4, <1>5, <1>6, <1>7, <1>8 DEF Next

\* An empty store is an empty library.
LEMMA InitIsOne == Init => Library!Init
<1> SUFFICES ASSUME Init PROVE Library!Init
  OBVIOUS
<1>1. Waiting = [h \in {} |-> 0]
  BY DEF Init, Waiting
<1>2. SeenRecords = records /\ SeenIndex = index
  BY DEF Init, SeenRecords, SeenIndex, Indexed
<1> QED BY <1>1, <1>2 DEF Init, Library!Init, NoRecords, Library!NoRecords, EmptyIndex,
                          Library!EmptyIndex

\* identify, erase and purge_expired are atomic to their callers: the locked code
\* of FuzzyStore, backend call by backend call, implements the library in which
\* each of them is one step.
THEOREM StoreIsALibrary == Spec => Implements
<1>1. StoreInv /\ [Next]_vars => [Library!Next]_(Library!vars)
  BY StepIsOne
<1> QED BY InitIsOne, StoreInvariant, <1>1, PTL DEF Spec, Implements, Library!Spec
===========================================================================
