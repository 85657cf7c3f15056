--------------------------- MODULE BlockingIndex ---------------------------
(***************************************************************************)
(* The blocking key -> set of visitors inverted index                      *)
(* (crates/fp-core/src/fuzzy/blocking.rs).  A key the HashMap does not     *)
(* hold is a key with an empty block.                                      *)
(***************************************************************************)
EXTENDS Naturals, FiniteSets

CONSTANTS
    Keys,        \* the blocking keys in play
    MaxBlock     \* max_block: visitors a block holds before inserts are dropped

ASSUME BlockingAssumption == MaxBlock \in Nat

EmptyIndex == [k \in Keys |-> {}]

\* Mutants: the cap off by one; the whole insertion given up at a full block;
\* an erasure that skips the index.
Full_OffByOne(block) == Cardinality(block) > MaxBlock

\* insert: a visitor new to a full block is dropped.
Full(block) == Cardinality(block) >= MaxBlock
Refused(index, keys, visitor) ==
    {k \in keys : visitor \notin index[k] /\ Full(index[k])}

InsertAll_StopsAtFull(index, keys, visitor) ==
    [k \in Keys |-> IF k \in keys /\ Refused(index, keys, visitor) = {}
                    THEN index[k] \cup {visitor}
                    ELSE index[k]]

InsertAll(index, keys, visitor) ==
    [k \in Keys |-> IF k \in keys \ Refused(index, keys, visitor)
                    THEN index[k] \cup {visitor}
                    ELSE index[k]]

\* candidates: the union of the probed blocks.
Candidates(index, keys) == UNION {index[k] : k \in keys}

WithoutVisitor_Nothing(index, visitor) == index

\* remove_visitor: out of every block.
WithoutVisitor(index, visitor) == [k \in Keys |-> index[k] \ {visitor}]
===========================================================================
