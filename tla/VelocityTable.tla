--------------------------- MODULE VelocityTable ---------------------------
(***************************************************************************)
(* New-device events per key (crates/fp-core/src/fuzzy/velocity.rs).  A    *)
(* key is a client IP or "ja4:" and a JA4 class; its list of event times   *)
(* is in the order the store was reached, not the order of the times.      *)
(***************************************************************************)
EXTENDS Naturals, Sequences, FiniteSets

CONSTANTS
    MaxVelocityKeys,   \* max_velocity_keys
    Window             \* WINDOW, in seconds

ASSUME VelocityAssumption == MaxVelocityKeys \in Nat /\ Window \in Nat

NoEvents == [k \in {} |-> <<>>]

\* record: append to a tracked key, track a new one unless the cap is reached.
\* A key is never given back: an empty list keeps its place.
HasRoom(events, key) ==
    key \in DOMAIN events \/ Cardinality(DOMAIN events) < MaxVelocityKeys

Recorded(events, key, now) ==
    IF ~HasRoom(events, key) THEN events
    ELSE [k \in DOMAIN events \cup {key} |->
             IF k # key THEN events[k]
             ELSE IF k \in DOMAIN events THEN Append(events[k], now)
             ELSE <<now>>]

\* count: prune what is older than the window ending at now, return the rest.
Cutoff(now) == IF now > Window THEN now - Window ELSE 0

\* The times from cutoff on, in their order (retain).
Since(times, cutoff) ==
    LET kept[i \in 0 .. Len(times)] ==
            IF i = 0 THEN <<>>
            ELSE IF times[i] >= cutoff THEN Append(kept[i - 1], times[i])
            ELSE kept[i - 1]
    IN  kept[Len(times)]

\* Mutant of Pruned: the window's oldest second excluded.
Pruned_Strict(events, key, now) ==
    [k \in DOMAIN events |->
        IF k = key THEN Since(events[k], Cutoff(now) + 1) ELSE events[k]]

Pruned(events, key, now) ==
    [k \in DOMAIN events |->
        IF k = key THEN Since(events[k], Cutoff(now)) ELSE events[k]]

Count(events, key) == IF key \in DOMAIN events THEN Len(events[key]) ELSE 0

\* VelocityBand::classify_with: a count against the thresholds of its key's kind.
ClassifyWith(n, medium, high) ==
    CASE n >= high -> "high"
      [] n < high /\ n >= medium -> "medium"
      [] OTHER -> "low"
============================================================================
