------------------------------ MODULE Scoring ------------------------------
(***************************************************************************)
(* The verdict of the fuzzy engine on one probe (evaluate and what it      *)
(* calls, crates/fp-core/src/fuzzy/engine.rs), and of the stateless edge's *)
(* transient store (score_impl, crates/fp-wasm/src/lib.rs).                *)
(*                                                                         *)
(* The code computes in f64.  Here estimates are fractions <<n, d>>, scores*)
(* are in 1/1024 bit from a logarithm that is exact to about 1/1024, and   *)
(* confidence is in thousandths.  Equal scores of the code are equal here; *)
(* scores closer than a few 1/1024 bit may compare otherwise than there.   *)
(***************************************************************************)
EXTENDS ProbeSchema, Integers, FiniteSetsExt

Bit == 1024
T_HI == 12 * Bit
T_LO == 8 * Bit
COLLISION_GAP == 2 * Bit
SET_U == <<1, 20>>
ALPHA == 20
CONF_SCALE == 4
FULL_COMPONENTS == 8
\* Mutant of NEG_INFINITY: its sign lost.
INFINITY == 1000000

NEG_INFINITY == -1000000      \* below every score

\* Both floors are 1/10000, both ceilings 9999/10000.
ClampRatio(r) ==
    CASE 10000 * r[1] < r[2] -> <<1, 10000>>
      [] 10000 * r[1] > 9999 * r[2] -> <<9999, 10000>>
      [] OTHER -> r

---------------------------------------------------------------------------
\* log2 of a positive number in 1/1024 bit: the exponent, then ten binary digits
\* by squaring a mantissa of fourteen.  (To that precision below 2^17.)
Exponent(n) == Cardinality({k \in 1..16 : 2^k <= n})

Mantissa(n) == (n * 2^14) \div 2^Exponent(n)

NextDigit(before) ==
    LET square == (before.rest * before.rest) \div 2^14
    IN  IF square >= 2^15
        THEN [rest |-> square \div 2, digits |-> 2 * before.digits + 1]
        ELSE [rest |-> square, digits |-> 2 * before.digits]

Log2Digits(n) ==
    LET step[i \in 0..10] ==
            IF i = 0 THEN [rest |-> Mantissa(n), digits |-> 0] ELSE NextDigit(step[i - 1])
    IN  step[10].digits

Logarithm(n) == Bit * Exponent(n) + Log2Digits(n)

\* Those of the numbers that occur in the runs are looked up.
Tabled == 1..10000

LogTable == [n \in Tabled |-> Logarithm(n)]

Log2(n) == IF n \in DOMAIN LogTable THEN LogTable[n] ELSE Logarithm(n)

Log2Of(r) == Log2(r[1]) - Log2(r[2])

Complement(r) == <<r[2] - r[1], r[2]>>

---------------------------------------------------------------------------
\* u_estimate: add-half smoothing of the value's share of all sightings.
UEstimate(frequency, value) ==
    LET hits == IF value \in DOMAIN frequency.count THEN frequency.count[value] ELSE 0
    IN  ClampRatio(<<2 * hits + 1, 2 * frequency.total + 2>>)

\* m_estimate: the learnt rate, shrunk toward the prior (exactly the prior when
\* nothing is learnt).
MEstimate(agreement, name) ==
    LET learnt == IF name \in DOMAIN agreement.stats THEN agreement.stats[name]
                  ELSE [agree |-> 0, total |-> 0]
    IN  IF learnt.total = 0 THEN <<Prior(name), ALPHA>>
        ELSE ClampRatio(<<learnt.agree + Prior(name), learnt.total + ALPHA>>)

\* agreement_weight, interpolated by the similarity.
AgreementWeight(m, u, sim) ==
    LET agree == Log2Of(m) - Log2Of(u)
        disagree == Log2Of(Complement(m)) - Log2Of(Complement(u))
    IN  (sim[1] * agree + (sim[2] - sim[1]) * disagree) \div sim[2]

\* compare's rarity, which sets do not have.
Rarity(frequency, stored) ==
    IF stored.kind = "set" THEN SET_U ELSE UEstimate(frequency, stored.of)

ComparedNames(probe, template) == DOMAIN probe \cap DOMAIN template

\* score_candidate: what either side lacks is not compared.
Score(probe, template, frequency, agreement) ==
    MapThenSumSet(
        LAMBDA n : AgreementWeight(MEstimate(agreement, n), Rarity(frequency, probe[n]),
                                   Similarity(probe[n], template[n])),
        ComparedNames(probe, template))

---------------------------------------------------------------------------
\* 1 / (1 + e^x) in thousandths for x >= 0 in 1/1024: e^x is 2^y for
\* y = 1.443 x, whose fraction a parabola interpolates.
Falling(x) ==
    LET y == (x * 1443) \div 1000
        f == y % Bit
        power == 1000 + (656 * f) \div Bit + (344 * ((f * f) \div Bit)) \div Bit
    IN  IF y >= 15 * Bit THEN 0
        ELSE 1000000 \div (1000 + 2^(y \div Bit) * power)

Logistic(x) == IF x < 0 THEN Falling(-x) ELSE 1000 - Falling(x)

Smaller(a, b) == IF a < b THEN a ELSE b

Margin(s, bound) == Logistic((s - bound) \div CONF_SCALE)

ClampConfidence(x) == IF x \in 0..1000 THEN x ELSE IF x < 0 THEN 0 ELSE 1000

\* confidence: how far past its boundary the best score is, how far from the
\* runner-up, and how much was compared.  Where there is no such score it comes
\* out as for one of NEG_INFINITY.
Confidence(decision, best, second, compared) ==
    LET base ==
          CASE decision = "match" ->
                 500 + Smaller(Margin(best, T_HI), Margin(best, second)) \div 2
            [] decision = "review" ->
                 250 + (250 * (best - T_LO)) \div (T_HI - T_LO)
            [] decision = "new_device" ->
                 500 + (1000 - Margin(best, T_LO)) \div 2
        completeness ==
            500 + (500 * Smaller(compared, FULL_COMPONENTS)) \div FULL_COMPONENTS
    IN  ClampConfidence((base * completeness) \div 1000)

---------------------------------------------------------------------------
Decided(best) ==
    CASE best >= T_HI -> "match"
      [] best < T_HI /\ best >= T_LO -> "review"
      [] OTHER -> "new_device"

\* Mutant of Flagged: only a runner-up that scored less.
Flagged_NotOnTie(decision, best, second) ==
    decision = "match" /\ second >= T_HI /\ best - second \in 1..(COLLISION_GAP - 1)

\* collision_risk: of a match only.
Flagged(decision, best, second) ==
    decision = "match" /\ second >= T_HI /\ best - second < COLLISION_GAP

OutcomeOf(visitor, minted, best, second, compared) ==
    LET decision == Decided(best)
    IN  [visitor_id |-> IF decision = "new_device" THEN minted ELSE visitor,
         is_new_device |-> decision = "new_device",
         decision |-> decision,
         confidence |-> Confidence(decision, best, second, compared),
         collision_risk |-> Flagged(decision, best, second)]

\* Mutant of Highest: the candidates sorted the wrong way round.
Highest_Lowest(scores) == IF scores = {} THEN NEG_INFINITY ELSE Min(scores)

\* The first of the scores sorted in descending order, if there is one.
Highest(scores) == Max(scores \cup {NEG_INFINITY})

(***************************************************************************)
(* evaluate: the outcomes it may have.  recalled are the candidates of the *)
(* index, templates the stored components of those that have a record, and *)
(* minted the id derived from the probe.  The sort is stable over the order*)
(* of a HashSet, so any of several best candidates may be the winner.      *)
(***************************************************************************)
Evaluated(probe, recalled, templates, frequency, agreement, minted) ==
    LET score == [v \in recalled |->
                     IF v \in DOMAIN templates
                     THEN Score(probe, templates[v], frequency, agreement)
                     ELSE NEG_INFINITY]
        compared == [v \in recalled |->
                        IF v \in DOMAIN templates
                        THEN Cardinality(ComparedNames(probe, templates[v])) ELSE 0]
        Best(vs) == Highest({score[v] : v \in vs})
    IN  IF recalled = {}
        THEN {OutcomeOf(minted, minted, NEG_INFINITY, NEG_INFINITY, 0)}
        ELSE {OutcomeOf(v, minted, score[v], Best(recalled \ {v}), compared[v]) :
                 v \in {v \in recalled : score[v] = Best(recalled)}}
============================================================================
