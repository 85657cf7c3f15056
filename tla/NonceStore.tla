---------------------------- MODULE NonceStore ----------------------------
(***************************************************************************)
(* The in-memory nonce store of the native service                         *)
(* (crates/fp-core/src/nonce.rs, InMemoryNonceStore): GET /challenge       *)
(* issues, POST /identify consumes.  An issue stamps the entry's expiry    *)
(* BEFORE it takes the map's mutex, so other calls and the clock run       *)
(* between the stamp and the insertion; the sweep and the insertion are    *)
(* one critical section, and so is a whole consume.                        *)
(***************************************************************************)
EXTENDS Naturals

CONSTANTS
    Nonces,     \* the strings generate_nonce may draw and callers may present
    TTLs,       \* the lifetimes issue_with_ttl is called with
    MaxTime     \* bound: the last instant of a behaviour

ASSUME NonceAssumption == TTLs \subseteq Nat /\ MaxTime \in Nat

VARIABLES
    now,        \* Instant::now(): monotonic
    entries,    \* the guarded map: nonce -> [expires_at, used]
    drafts,     \* issue calls between building their Entry and inserting it
    expiry,     \* history: every nonce ever generated -> its expires_at
    accepted,   \* history: nonce -> how many consumes answered Valid
    verdict,    \* history: nonce -> the latest answer to a caller holding it
    swept       \* history: the instant of the last sweep and what it inserted

vars == <<now, entries, drafts, expiry, accepted, verdict, swept>>

\* A state of the map before any call, and the nonce no caller presents.
Nothing == [n \in {} |-> 0]
NoSweep == [at |-> 0, newest |-> {}]

Draft == [nonce : Nonces, expires_at : Nat]
Entry == [expires_at : Nat, used : BOOLEAN]
NonceOutcome == {"Valid", "Reused", "Expired", "Unknown"}

\* Nonces a caller has been given: generated and inserted.
Delivered == DOMAIN expiry \ {d.nonce : d \in drafts}

Init ==
    /\ now = 0
    /\ entries = Nothing
    /\ drafts = {}
    /\ expiry = Nothing
    /\ accepted = [n \in Nonces |-> 0]
    /\ verdict = [n \in Nonces |-> "none"]
    /\ swept = NoSweep

Tick ==
    /\ now < MaxTime
    /\ now' = now + 1
    /\ UNCHANGED <<entries, drafts, expiry, accepted, verdict, swept>>

(***************************************************************************)
(* issue_with_ttl, first half: draw 128 random bits (never drawn before)   *)
(* and stamp the entry.  issue is issue_with_ttl at the configured ttl.    *)
(***************************************************************************)
Generate(n, ttl) ==
    /\ n \notin DOMAIN expiry
    /\ drafts' = drafts \cup {[nonce |-> n, expires_at |-> now + ttl]}
    /\ expiry' = [m \in DOMAIN expiry \cup {n} |->
                      IF m = n THEN now + ttl ELSE expiry[m]]
    /\ UNCHANGED <<now, entries, accepted, verdict, swept>>

\* Mutant of Live: a sweep one instant early.
Live_OneEarly(map, t) == {n \in DOMAIN map : t + 1 < map[n].expires_at}

\* entries.retain(|_, e| Instant::now() < e.expires_at)
Live(map, t) == {n \in DOMAIN map : t < map[n].expires_at}

(***************************************************************************)
(* issue_with_ttl, second half, under the lock: reap, insert, return.      *)
(***************************************************************************)
Insert(d) ==
    /\ entries' = [n \in Live(entries, now) \cup {d.nonce} |->
                       IF n = d.nonce
                       THEN [expires_at |-> d.expires_at, used |-> FALSE]
                       ELSE entries[n]]
    /\ drafts' = drafts \ {d}
    /\ swept' = [at |-> now, newest |-> {d.nonce}]
    /\ UNCHANGED <<now, expiry, accepted, verdict>>

(***************************************************************************)
(* consume, one critical section.  The caller may present any string; the  *)
(* answer is remembered only for a nonce some caller was really given.     *)
(***************************************************************************)
Answer(n, outcome) ==
    /\ verdict' = IF n \in Delivered
                  THEN [verdict EXCEPT ![n] = outcome]
                  ELSE verdict
    /\ UNCHANGED <<now, drafts, expiry, swept>>

ConsumeUnknown(n) ==
    /\ n \notin DOMAIN entries
    /\ Answer(n, "Unknown")
    /\ UNCHANGED <<entries, accepted>>

\* Mutants of Expired and Burned: the comparison flipped, the flag not set.
Expired_Flipped(e) == now < e.expires_at
Burned_Not(e) == e

\* Some(entry) if Instant::now() >= entry.expires_at; entry.used = true
Expired(e) == now >= e.expires_at
Burned(e) == [e EXCEPT !.used = TRUE]

\* Expiry is checked before use.
ConsumeExpired(n) ==
    /\ n \in DOMAIN entries
    /\ Expired(entries[n])
    /\ Answer(n, "Expired")
    /\ UNCHANGED <<entries, accepted>>

ConsumeReused(n) ==
    /\ n \in DOMAIN entries
    /\ ~Expired(entries[n])
    /\ entries[n].used
    /\ Answer(n, "Reused")
    /\ UNCHANGED <<entries, accepted>>

ConsumeValid(n) ==
    /\ n \in DOMAIN entries
    /\ ~Expired(entries[n])
    /\ ~entries[n].used
    /\ entries' = [entries EXCEPT ![n] = Burned(@)]
    /\ accepted' = [accepted EXCEPT ![n] = @ + 1]
    /\ Answer(n, "Valid")

Next ==
    \/ Tick
    \/ \E n \in Nonces, ttl \in TTLs : Generate(n, ttl)
    \/ \E d \in drafts : Insert(d)
    \/ \E n \in Nonces : ConsumeUnknown(n)
    \/ \E n \in Nonces : ConsumeExpired(n)
    \/ \E n \in Nonces : ConsumeReused(n)
    \/ \E n \in Nonces : ConsumeValid(n)

Spec == Init /\ [][Next]_vars

---------------------------------------------------------------------------
\* Types of the state and of its history.
TypeOK ==
    /\ now \in Nat
    /\ DOMAIN entries \subseteq Nonces
    /\ entries \in [DOMAIN entries -> Entry]
    /\ drafts \subseteq Draft
    /\ DOMAIN expiry \subseteq Nonces
    /\ expiry \in [DOMAIN expiry -> Nat]
    /\ accepted \in [Nonces -> Nat]
    /\ verdict \in [Nonces -> NonceOutcome \cup {"none"}]
    /\ swept \in [at : Nat, newest : SUBSET Nonces]

(***************************************************************************)
(* The one-time promise.  The caller's view of this store (nonces it was   *)
(* given, with their expiries; nonces that were accepted) is a behaviour   *)
(* of OneTimeNonce: nothing is accepted twice, undelivered, or late,       *)
(* however issue, the sweep it runs and consume interleave.                *)
(***************************************************************************)
Promise == INSTANCE OneTimeNonce WITH
    clock <- now,
    deadline <- [n \in Delivered |-> expiry[n]],
    honoured <- accepted

OneTime == Promise!Spec

(***************************************************************************)
(* The lazy sweep never costs a caller a live nonce: as long as its ttl    *)
(* runs, a delivered nonce is in the map, burned exactly if it was         *)
(* accepted.  (retain runs in other callers' issue calls.)                 *)
(***************************************************************************)
LiveNonceKept ==
    \A n \in Delivered :
        now < expiry[n] =>
            /\ n \in DOMAIN entries
            /\ entries[n].used <=> accepted[n] > 0

(***************************************************************************)
(* "bounds memory to nonces issued within one live TTL window" (comment in *)
(* issue_with_ttl): what the map holds was still alive at the last sweep,  *)
(* apart from the entry that sweep made room for.                          *)
(***************************************************************************)
SweptToWindow ==
    \A n \in DOMAIN entries \ swept.newest : swept.at < expiry[n]

(***************************************************************************)
(* The answers a holder of one nonce receives only move forward: Valid,    *)
(* then Reused, then Expired once its ttl is over, then Unknown once a     *)
(* sweep has dropped it.  In particular no later sweep or issue revives a  *)
(* nonce that was once refused.                                            *)
(***************************************************************************)
Rank == [none |-> 0, Valid |-> 1, Reused |-> 2, Expired |-> 3, Unknown |-> 4]

AnswersMoveForward ==
    [][\A n \in Nonces : Rank[verdict[n]] <= Rank[verdict'[n]]]_vars

---------------------------------------------------------------------------
\* The inductive invariant behind the properties above: a draft is nowhere
\* else yet, and the map and the answers agree with the history.
DraftsAreFresh ==
    \A d \in drafts :
        /\ d.nonce \in DOMAIN expiry
        /\ d.expires_at = expiry[d.nonce]
        /\ d.nonce \notin DOMAIN entries
        /\ \A e \in drafts : e.nonce = d.nonce => e = d

MapAgrees ==
    \A n \in DOMAIN entries :
        /\ n \in DOMAIN expiry
        /\ entries[n].expires_at = expiry[n]
        /\ accepted[n] = IF entries[n].used THEN 1 ELSE 0

AcceptedWereDelivered ==
    \A n \in Nonces : accepted[n] > 0 => n \in Delivered

AnswersAgree ==
    \A n \in Nonces :
        /\ verdict[n] # "none" => n \in Delivered
        /\ verdict[n] \in {"Valid", "Reused"} => accepted[n] > 0
        /\ verdict[n] = "Expired" => now >= expiry[n]
        /\ verdict[n] = "Unknown" => n \notin DOMAIN entries

NonceInv ==
    /\ TypeOK
    /\ DraftsAreFresh
    /\ MapAgrees
    /\ AcceptedWereDelivered
    /\ AnswersAgree
    /\ LiveNonceKept
    /\ SweptToWindow

===========================================================================
