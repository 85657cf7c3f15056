----------------------------- MODULE MCDevices -----------------------------
(***************************************************************************)
(* The devices TLC runs the library on.  drifted is steady after a browser *)
(* upgrade with more fonts listed: they share K1, not K0.  sparse reports  *)
(* little and shares only the fonts band with drifted (its plugins are     *)
(* mistyped and not stored).  plain and patched are the smallest pair with *)
(* a block each and one in common.                                         *)
(***************************************************************************)
EXTENDS ProbeSchema, TLC

CONSTANTS steady, drifted, sparse, plain, patched,
          arial, noto, adreno, linux, utc, v1, v2

Text(v) == [type |-> "string", val |-> v]
Fonts(s) == [type |-> "array", val |-> s]

Raw ==
    (steady  :> [webgl |-> Text(adreno), platform |-> Text(linux),
                 timezone |-> Text(utc), user_agent |-> Text(v1)]) @@
    (drifted :> [webgl |-> Text(adreno), platform |-> Text(linux),
                 timezone |-> Text(utc), user_agent |-> Text(v2),
                 fonts |-> Fonts({arial, noto})]) @@
    (sparse  :> [user_agent |-> Text(v2), fonts |-> Fonts({arial}),
                 plugins |-> Text(v1)]) @@
    (plain   :> [webgl |-> Text(adreno), user_agent |-> Text(v1),
                 fonts |-> Fonts({arial})]) @@
    (patched :> [webgl |-> Text(adreno), user_agent |-> Text(v2),
                 fonts |-> Fonts({arial, noto})])

Three == {steady, drifted, sparse}
Pair == {plain, patched}

StoredOf(devices) == [p \in devices |-> StoredMap(Raw[p])]
KeysFor(devices) ==
    [p \in devices |-> BlockingKeys(StoredMap(Raw[p]), <<(arial :> 1) @@ (noto :> 2)>>)]

StoredThree == StoredOf(Three)
StoredPair == StoredOf(Pair)
KeysOfThree == KeysFor(Three)
KeysOfPair == KeysFor(Pair)
KeysThree == UNION {KeysOfThree[p] : p \in Three}
KeysPair == UNION {KeysOfPair[p] : p \in Pair}

AllNames == UNION {DOMAIN Raw[p] : p \in DOMAIN Raw}
AllValues ==
    UNION {{StoredThree[p][n] : n \in DOMAIN StoredThree[p]} : p \in Three}
    \cup UNION {{StoredPair[p][n] : n \in DOMAIN StoredPair[p]} : p \in Pair}
============================================================================
