-------------------------- MODULE IdentifyServer --------------------------
(***************************************************************************)
(* The native service's HTTP surface (crates/fingerprintd/src/lib.rs and   *)
(* state.rs) over its two stores: GET /challenge, POST /identify,          *)
(* DELETE /visitor/{id} and the retention task.  An identify consumes its  *)
(* nonce FIRST, then checks the probe, reads the wall clock, checks the    *)
(* client's timestamp, and only then queues for the engine; a request that *)
(* fails a check has spent its nonce.  Nonces live by the monotonic clock  *)
(* (now), records and timestamps by the wall clock (clock).                *)
(***************************************************************************)
EXTENDS NonceStore, ServiceConfig, FiniteSets

CONSTANTS
    Handlers, Probes, Names, Values, Stored, KeysOf, Keys, \* of the library
    MaxRecords, RecordTTL, MaxBlock, Retention,
    Configs,                \* the configurations the service may be started with
    Secrets,                \* the strings callers try as a key
    MaxRequests             \* bound: engine calls

\* The stores' own parameters are the configuration's.
ASSUME ServerAssumption ==
    \A c \in Configs :
        /\ FromConfig(c).nonce_ttl \in TTLs
        /\ FromConfig(c).ts_skew \in Nat
        /\ FromConfig(c).retention = Retention
        /\ FromConfig(c).policy.max_records = MaxRecords
        /\ FromConfig(c).policy.max_block = MaxBlock
        /\ FromConfig(c).policy.record_ttl \subseteq {RecordTTL}

VARIABLES
    clock, requests, waiting, sweep, records, index, evicted, \* the matcher
    absorbed, dropped, erased, ledger,
    config,     \* the configuration the service was started with
    posts,      \* handler -> [nonce, probe, ts]: nonce spent, clock not read yet
    reached,    \* history: nonce -> engine calls made under it
    spoiled,    \* history: nonce -> requests refused after spending it
    stamps      \* history: client timestamps that reached the engine, with when

Library == INSTANCE FingerprintLibrary

history == <<reached, spoiled, stamps>>
server == <<config, posts, history>>
nonceStore == <<now, entries, drafts, expiry, accepted, verdict, swept>>
matcher == <<clock, requests, waiting, sweep, records, index, evicted, absorbed,
             dropped, erased, ledger>>
serverVars == <<nonceStore, matcher, server>>

\* AppState: each check is on exactly when it is configured.
Settings == FromConfig(config)

\* The numeric ts a client sends, or none.
Timestamps == {{}} \cup {{t} : t \in 0..MaxTime}

\* The keyed digest a client sends, by the key it used, or none.
Digests == {{}} \cup {{k} : k \in Secrets}

ServerInit ==
    /\ Init /\ Library!Init
    /\ config \in Configs
    /\ posts = [h \in {} |-> 0]
    /\ reached = [n \in Nonces |-> 0]
    /\ spoiled = [n \in Nonces |-> 0]
    /\ stamps = {}

Free(h) == h \notin DOMAIN posts \cup DOMAIN waiting

---------------------------------------------------------------------------
\* GET /challenge, and the monotonic clock.
Challenge ==
    /\ \/ Tick
       \/ \E n \in Nonces : Generate(n, Settings.nonce_ttl)
       \/ \E d \in drafts : Insert(d)
    /\ UNCHANGED <<matcher, server>>

\* Any outcome but Valid: 401.
IdentifyRejected(n) ==
    /\ ConsumeUnknown(n) \/ ConsumeExpired(n) \/ ConsumeReused(n)
    /\ UNCHANGED <<matcher, server>>

\* Mutant of Spend: the nonce looked at, and left to be spent by a request
\* that succeeds.
Spend_Peek(n) ==
    /\ n \in DOMAIN entries /\ ~entries[n].used /\ ~Expired(entries[n])
    /\ UNCHANGED nonceStore

Spend(n) == ConsumeValid(n)

Spoil(n) == spoiled' = [spoiled EXCEPT ![n] = @ + 1]

\* verify: the request's digest of this nonce, which it made with a key of its
\* own or left out, is the configured key's; looked at when there is one.
Proven(digest) == Settings.probe # {} => digest = Settings.probe

\* Valid: the nonce is spent, then the probe checked.
IdentifyNonceSpent(h, n, p, digest, ts) ==
    /\ Free(h)
    /\ Spend(n)
    /\ IF ~Proven(digest)
       THEN Spoil(n) /\ UNCHANGED posts
       ELSE /\ posts' = [g \in DOMAIN posts \cup {h} |->
                            IF g # h THEN posts[g]
                            ELSE [nonce |-> n, probe |-> p, ts |-> ts]]
            /\ UNCHANGED spoiled
    /\ UNCHANGED <<matcher, config, reached, stamps>>

\* The check returned, or the request went on to the engine.  Mutant: it did
\* neither for good.
Checked_Kept(h) == UNCHANGED posts

Checked(h) == posts' = [g \in DOMAIN posts \ {h} |-> posts[g]]

\* Mutant of InWindow: a saturating difference, so that the future passes.
InWindow_Saturating(ts) == \E t \in ts : clock <= t + Settings.ts_skew

\* ts_in_window: no timestamp is outside.
InWindow(ts) ==
    \E t \in ts : clock <= t + Settings.ts_skew /\ t <= clock + Settings.ts_skew

Admitted(h) == Settings.enforce_ts_window => InWindow(posts[h].ts)

IdentifyStale(h) ==
    /\ h \in DOMAIN posts
    /\ ~Admitted(h)
    /\ Spoil(posts[h].nonce)
    /\ Checked(h)
    /\ UNCHANGED <<nonceStore, matcher, config, reached, stamps>>

IdentifyAdmitted(h) ==
    /\ h \in DOMAIN posts
    /\ Admitted(h)
    /\ Library!Arrive(h, posts[h].probe)
    /\ reached' = [reached EXCEPT ![posts[h].nonce] = @ + 1]
    /\ stamps' = stamps \cup {[ts |-> t, at |-> clock] : t \in posts[h].ts}
    /\ Checked(h)
    /\ UNCHANGED <<nonceStore, config, spoiled>>

\* The engine's verdict; the response is signed over it.
IdentifyAnswered(h) ==
    /\ \/ \E v \in Probes : Library!IdentifyMatch(h, v) \/ Library!IdentifyReview(h, v)
       \/ Library!IdentifyNew(h)
    /\ UNCHANGED <<nonceStore, server>>

---------------------------------------------------------------------------
\* DELETE /visitor/{id}: 404 without an admin key, 401 without its bearer
\* (neither changes anything), else erased.
EraseVisitor(v, bearer) ==
    /\ bearer \in Settings.admin_key
    /\ Library!Erase(v)
    /\ UNCHANGED <<nonceStore, server>>

\* The retention task and the wall clock.
Background ==
    /\ Library!Tick \/ Library!SweepTick \/ Library!Purge
    /\ UNCHANGED <<nonceStore, server>>

ServerNext ==
    \/ Challenge
    \/ \E n \in Nonces : IdentifyRejected(n)
    \/ \E h \in Handlers, n \in Nonces, p \in Probes, digest \in Digests, ts \in Timestamps :
          IdentifyNonceSpent(h, n, p, digest, ts)
    \/ \E h \in Handlers : IdentifyStale(h)
    \/ \E h \in Handlers : IdentifyAdmitted(h)
    \/ \E h \in Handlers : IdentifyAnswered(h)
    \/ \E v \in Probes, bearer \in Secrets : EraseVisitor(v, bearer)
    \/ Background

ServerSpec == ServerInit /\ [][ServerNext]_serverVars

---------------------------------------------------------------------------
ServerTypeOK ==
    /\ config \in Configs
    /\ DOMAIN posts \subseteq Handlers
    /\ posts \in [DOMAIN posts -> [nonce : Nonces, probe : Probes, ts : Timestamps]]
    /\ reached \in [Nonces -> Nat]
    /\ spoiled \in [Nonces -> Nat]
    /\ stamps \subseteq [ts : Nat, at : Nat]

Carrying(n) == {h \in DOMAIN posts : posts[h].nonce = n}

(***************************************************************************)
(* A valid nonce is worth one attempt, whatever becomes of it: whichever   *)
(* requests race for it, at most one of them holds it, has been refused by *)
(* a later check, or has reached the engine.  So a nonce spent on a failed *)
(* check never reaches the engine with a better retry.                     *)
(***************************************************************************)
OneAttemptPerNonce ==
    \A n \in Nonces :
        /\ Cardinality(Carrying(n)) + spoiled[n] + reached[n] = accepted[n]
        /\ accepted[n] <= 1

\* The observations on record, each by its visitor and its number, and the nonces
\* that were worth an attempt.
OnRecord == UNION {{v} \X (1 .. records[v].observation_count) : v \in DOMAIN records}
Accepted == {n \in Nonces : accepted[n] > 0}

(***************************************************************************)
(* What the library holds was paid for in nonces: its observations, those  *)
(* queued for the engine and those still being checked are at most as many *)
(* as the nonces accepted, across evictions, erasures and purges.          *)
(***************************************************************************)
ObservationsArePaidFor ==
    Cardinality(OnRecord) + Cardinality(DOMAIN waiting) + Cardinality(DOMAIN posts)
        <= Cardinality(Accepted)

(***************************************************************************)
(* The timestamp window bounds how long a captured payload can be sent     *)
(* again under new nonces: its identifications lie within twice the skew   *)
(* of one another, future timestamps included.                             *)
(***************************************************************************)
ReplaysAreBounded ==
    Settings.enforce_ts_window =>
        \A r \in stamps, s \in stamps :
            r.ts = s.ts => r.at <= s.at + 2 * Settings.ts_skew

(***************************************************************************)
(* An empty key is no key ("An empty string is treated as no probe         *)
(* configured"): it refuses no request a probe, and it lets nobody erase,  *)
(* whatever bearer a caller presents, the empty one included.              *)
(***************************************************************************)
Provisioned(key) == \E k \in key : k # ""

EmptyKeysOpenNothing ==
    /\ erased # {} => Provisioned(config.admin_key)
    /\ \A n \in Nonces :
          spoiled[n] > 0 => Provisioned(config.probe_key) \/ config.enforce_ts_window

---------------------------------------------------------------------------
\* What every step keeps of the server's own state: a handler serves one request
\* at a time, a post holds a nonce that was accepted, and a stamp was in the window
\* when it was taken.
StampsInWindow ==
    Settings.enforce_ts_window =>
        \A r \in stamps : /\ r.at <= r.ts + Settings.ts_skew
                          /\ r.ts <= r.at + Settings.ts_skew

\* The counts of the records are natural numbers.
Counted == \A v \in DOMAIN records : records[v].observation_count \in Nat

\* What the account of paid observations rests on: only finitely many of them, of
\* requests and of accepted nonces, so that they can be counted.
PaidInv ==
    /\ Counted
    /\ IsFiniteSet(OnRecord) /\ IsFiniteSet(DOMAIN waiting) /\ IsFiniteSet(Accepted)
    /\ ObservationsArePaidFor

ServerInv ==
    /\ ServerTypeOK
    /\ DOMAIN posts \cap DOMAIN waiting = {}
    /\ OneAttemptPerNonce
    /\ StampsInWindow
===========================================================================
