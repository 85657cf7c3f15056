--------------------------- MODULE ServiceConfig ---------------------------
(***************************************************************************)
(* The native service's configuration (crates/fingerprintd/src/config.rs)  *)
(* and what AppState makes of it (state.rs).  A configuration is a record  *)
(* of the fields that change behaviour; an optional key is a set of at     *)
(* most one string, and may well be the empty string.  Seconds are scaled  *)
(* by Second; the saturation of that product is out of reach of any run.   *)
(***************************************************************************)
EXTENDS Naturals, Sequences, FiniteSetsExt

CONSTANT Second    \* clock units in a second

ASSUME SecondAssumption == Second \in Nat \ {0}

\* EvictionPolicy::default.
DefaultPolicy ==
    [max_records |-> 1000000, record_ttl |-> {}, max_frequency_values |-> 1000000,
     max_agreement_components |-> 1024, max_velocity_keys |-> 1000000, max_block |-> 1024]

Default ==
    [nonce_ttl_secs |-> 30, trust_edge_headers |-> FALSE,
     probe_key |-> {}, response_signing_key |-> {}, admin_key |-> {},
     enforce_ts_window |-> FALSE, ts_skew_secs |-> 30,
     fuzzy_max_records |-> 1000000, fuzzy_record_ttl_secs |-> 0,
     fuzzy_max_block |-> DefaultPolicy.max_block, fuzzy_max_frequency_values |-> 1000000,
     fuzzy_max_agreement_components |-> 1024, retention_secs |-> 0]

\* load: the defaults, overlaid by the file's fields and then the environment's.
Loaded(layers) ==
    [f \in DOMAIN Default |->
        LET naming == {i \in DOMAIN layers : f \in DOMAIN layers[i]}
        IN  IF naming = {} THEN Default[f] ELSE layers[Max(naming)][f]]

---------------------------------------------------------------------------
\* Mutant of Configured: any key that is there.
Configured_Present(key) == key

\* is_configured: an empty key is no key.
Configured(key) == {k \in key : k # ""}

\* Where zero means off: no window at all.
Optional(secs) == {s * Second : s \in {secs} \ {0}}

FromConfig(c) ==
    [nonce_ttl |-> c.nonce_ttl_secs * Second,
     trust_edge_headers |-> c.trust_edge_headers,
     probe |-> Configured(c.probe_key),
     signer |-> Configured(c.response_signing_key),
     admin_key |-> Configured(c.admin_key),
     enforce_ts_window |-> c.enforce_ts_window,
     ts_skew |-> c.ts_skew_secs * Second,
     retention |-> c.retention_secs * Second,
     policy |-> [max_records |-> c.fuzzy_max_records,
                 record_ttl |-> Optional(c.fuzzy_record_ttl_secs),
                 max_block |-> c.fuzzy_max_block,
                 max_velocity_keys |-> DefaultPolicy.max_velocity_keys,
                 max_frequency_values |-> c.fuzzy_max_frequency_values,
                 max_agreement_components |-> c.fuzzy_max_agreement_components]]
============================================================================
