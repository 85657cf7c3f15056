---------------------------- MODULE ProbeSchema ----------------------------
(***************************************************************************)
(* From a raw component object to what the store keeps and keys on:        *)
(* classify and the stored forms (fuzzy/component.rs, canonical.rs) and    *)
(* the blocking keys (fuzzy/mod.rs).  A raw value is [type, val]; hashes   *)
(* and digests are collision-free, so the hashed thing stands for them.    *)
(***************************************************************************)
EXTENDS Naturals, FiniteSets

Categories == {"string", "bool", "number"}   \* canonical_scalar accepts

Kind(name) ==
    CASE name \in {"fonts", "plugins"} -> "set"
      [] name \in {"cpu_cores", "device_memory", "screen"} -> "numeric"
      [] OTHER -> "category"

\* Twentieths of m_prior: 0.95, 0.80 and 0.50 by the name's stability tier.
Prior(name) ==
    CASE name \in {"webgl", "platform", "timezone", "audio", "languages",
                   "cpu_cores", "device_memory"} -> 19
      [] name = "user_agent" -> 10
      [] OTHER -> 16

\* to_stored: a missing or mistyped value is not stored, hence not compared.
Storable(name, raw) ==
    CASE Kind(name) = "set"     -> raw.type = "array"
      [] Kind(name) = "numeric" -> raw.type = "number"
      [] OTHER                  -> raw.type \in Categories

StoredForm(name, raw) == [kind |-> Kind(name), of |-> raw.val]

StoredMap(probe) ==
    LET kept == {n \in DOMAIN probe : Storable(n, probe[n])}
    IN  [n \in kept |-> StoredForm(n, probe[n])]

---------------------------------------------------------------------------
Scalars(stored) == {n \in DOMAIN stored : stored[n].kind # "set"}

Group(stored, members) == [n \in members |-> stored[n]]

AllScalarKey(stored) ==
    IF Scalars(stored) = {} THEN {}
    ELSE {<<"K0", Group(stored, Scalars(stored))>>}

GroupKey(stored, namespace, members) ==
    IF members \subseteq Scalars(stored)
    THEN {<<namespace, Group(stored, members)>>}
    ELSE {}

\* MinHash-LSH over the fonts with one row per band: perms[b] ranks the
\* elements, a band's key is its least element.  No key for an empty set.
BandKeys(elements, perms) ==
    {k \in {<<"K3", b, e>> : b \in DOMAIN perms, e \in elements} :
        \A y \in elements : perms[k[2]][k[3]] <= perms[k[2]][y]}

BlockingKeys(stored, perms) ==
    AllScalarKey(stored)
    \cup GroupKey(stored, "K1", {"webgl", "platform", "timezone"})
    \cup GroupKey(stored, "K2", {"audio", "cpu_cores", "device_memory"})
    \cup (IF "fonts" \in DOMAIN stored
          THEN BandKeys(stored["fonts"].of, perms) ELSE {})

---------------------------------------------------------------------------
\* jaccard, as <<numerator, denominator>>: two empty sets are identical.
Jaccard(a, b) ==
    IF a \cup b = {} THEN <<1, 1>>
    ELSE <<Cardinality(a \cap b), Cardinality(a \cup b)>>

\* compare's similarity of two values of one kind (a name fixes the kind, so the
\* code's mismatch arm is never taken): scalars agree when equal, sets when
\* their Jaccard similarity is at least TAU = 1/2, and partly below that.
Similarity(a, b) ==
    IF a.kind = "set"
    THEN LET j == Jaccard(a.of, b.of) IN IF 2 * j[1] >= j[2] THEN <<1, 1>> ELSE j
    ELSE IF a.of = b.of THEN <<1, 1>> ELSE <<0, 1>>

\* sim >= TAU, where a pair counts as agreed.
Agrees(a, b) == Similarity(a, b) = <<1, 1>>

\* What an observation is to the frequency table: every scalar value is sighted
\* once (equal values of two components are the same value to the table).
Sightings(stored) ==
    [x \in {stored[n].of : n \in Scalars(stored)} |->
        Cardinality({n \in Scalars(stored) : stored[n].of = x})]
===========================================================================
