------------------------- MODULE MCIdentifyServer -------------------------
(***************************************************************************)
(* IdentifyServer with two nonces, two handlers and one device, over two   *)
(* instants of either clock, started with keys that are unset, empty or    *)
(* real, with and without the timestamp window, or with nonces that expire *)
(* at once.                                                                *)
(***************************************************************************)
EXTENDS IdentifyServer

CONSTANTS n1, n2, h1, h2, device, name, value, key

StoredOne == [p \in {device} |-> [x \in {name} |-> value]]
KeysOfOne == [p \in {device} |-> {key}]

File == [nonce_ttl_secs |-> 0, ts_skew_secs |-> 0, retention_secs |-> 1,
         fuzzy_max_records |-> 1, fuzzy_max_block |-> 1, fuzzy_record_ttl_secs |-> 9]

Environment(ttl, k, window) ==
    [nonce_ttl_secs |-> ttl, probe_key |-> k, admin_key |-> k, enforce_ts_window |-> window]

ConfigsSeven ==
    {Loaded(<<File, Environment(1, k, window)>>) :
        k \in {{}, {""}, {"secret"}}, window \in BOOLEAN}
    \cup {Loaded(<<File, [probe_key |-> {"secret"}]>>)}
===========================================================================
