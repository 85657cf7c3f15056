--------------------------- MODULE ScoredEngine ---------------------------
(***************************************************************************)
(* The library with its verdicts computed: FingerprintLibrary, where any   *)
(* verdict is allowed, together with what the verdicts come from and lead  *)
(* to (crates/fp-core/src/fuzzy/engine.rs and the success path of identify *)
(* in crates/fingerprintd/src/lib.rs): the frequency and agreement tables, *)
(* the new-device velocity, the passive signals, and the response.  Each   *)
(* answer is judged against the true device as the offline evaluation      *)
(* (eval.rs) does.                                                         *)
(***************************************************************************)
EXTENDS FingerprintLibrary, AggregateTables, VelocityTable, Scoring, Signals

CONSTANTS
    Raw,        \* probe -> its raw component object
    Perms,      \* the MinHash permutations
    Markers,    \* user agent value -> the markers in it
    DeviceOf,   \* probe -> the device that truly submits it
    Headers,    \* the edge headers requests may carry
    Second,     \* clock units in a second
    Bands       \* [ip, ja4 |-> [medium, high]]: the velocity thresholds

ASSUME EngineAssumption ==
    /\ Stored = [p \in Probes |-> StoredMap(Raw[p])]
    /\ KeysOf = [p \in Probes |-> BlockingKeys(Stored[p], Perms)]
    /\ \A p \in Probes :       \* JSON objects and arrays are finite
          /\ IsFiniteSet(DOMAIN Raw[p])
          /\ \A n \in DOMAIN Raw[p] :
                Raw[p][n].type = "array" => IsFiniteSet(Raw[p][n].val)
    /\ Second \in Nat \ {0}

VARIABLES
    trusting,    \* trust_edge_headers
    frequency, agreement, velocity,    \* the engine's tables
    answer,      \* the latest response, and what it was an answer to
    replay       \* the offline evaluation of the answers so far

tables == <<frequency, agreement, velocity>>
engineVars == <<vars, trusting, tables, answer, replay>>

VELOCITY_PENALTY == 300

NoReplay == [owner |-> [v \in {} |-> 0], visited |-> {}, total |-> 0, revisits |-> 0,
             stable |-> 0, collisions |-> 0, minted |-> 0]

ScoredInit ==
    /\ Init
    /\ trusting \in BOOLEAN
    /\ frequency = NoFrequency /\ agreement = NoAgreement /\ velocity = NoEvents
    /\ answer = {}
    /\ replay = NoReplay

---------------------------------------------------------------------------
\* The stored components of a record, without their stamps.
Template(r) == [n \in DOMAIN r.template |-> r.template[n].value]

Templates == [v \in DOMAIN records |-> Template(records[v])]

Verdicts(p) ==
    Evaluated(Stored[p], Candidates(index, KeysOf[p]), Templates,
              frequency, agreement, Visitor(p))

\* record_agreement, before the match drifts the template.
Learnt(table, probe, template) ==
    LET names == ComparedNames(probe, template)
        agreed == {n \in names : Agrees(probe[n], template[n])}
    IN  {Compared(table, names, agreed, kept) :
            kept \in Admitted(DOMAIN table.stats, names \ DOMAIN table.stats,
                              MaxAgreementComponents)}

\* observe's sightings.
Seen(table, probe) ==
    LET seen == Sightings(probe)
    IN  {Sighted(table, seen, kept) :
            kept \in Admitted(DOMAIN table.count, DOMAIN seen \ DOMAIN table.count,
                              MaxFrequencyValues)}

\* A mint counted under one key, or under none.
Minted(events, keys, secs) ==
    IF keys = {} THEN events
    ELSE LET k == CHOOSE k \in keys : TRUE
         IN  Pruned(Recorded(events, k, secs), k, secs)

Band(events, keys, at) ==
    IF keys = {} THEN "low"
    ELSE LET k == CHOOSE k \in keys : TRUE
         IN  ClassifyWith(Count(events, k), at.medium, at.high)

Penalised(confidence, band) ==
    IF band = "high" THEN ClampConfidence(confidence - VELOCITY_PENALTY) ELSE confidence

\* Mutant of Judged: the devices seen are looked up and never entered.
Judged_NeverSeen(r, device, visitor) ==
    LET known == visitor \in DOMAIN r.owner
    IN  [r EXCEPT !.owner = [v \in DOMAIN r.owner \cup {visitor} |->
                                IF v \in DOMAIN r.owner THEN r.owner[v] ELSE device],
                  !.total = @ + 1,
                  !.collisions = IF known /\ r.owner[visitor] # device THEN @ + 1 ELSE @,
                  !.minted = IF known THEN @ ELSE @ + 1]

\* The body of eval.rs's loop: an id belongs to the device it was first answered to.
Judged(r, device, visitor) ==
    LET revisit == device \in r.visited
        known == visitor \in DOMAIN r.owner
        own == known /\ r.owner[visitor] = device
        One(b) == IF b THEN 1 ELSE 0
    IN  [owner |-> [v \in DOMAIN r.owner \cup {visitor} |->
                       IF v \in DOMAIN r.owner THEN r.owner[v] ELSE device],
         visited |-> r.visited \cup {device},
         total |-> r.total + 1,
         revisits |-> r.revisits + One(revisit),
         stable |-> r.stable + One(own /\ revisit),
         collisions |-> r.collisions + One(known /\ ~own),
         minted |-> r.minted + One(~known)]

---------------------------------------------------------------------------
\* The edge's score_impl: a transient store that observes each candidate the
\* host recalled once, and knows nothing else.  (A block is far below the caps.)
Observing(table, templates) ==
    FoldSet(LAMBDA v, t : LET seen == Sightings(templates[v])
                          IN  Sighted(t, seen, DOMAIN seen \ DOMAIN t.count),
            table, DOMAIN templates)

\* Mutant of EdgeFrequency: the probe observed before its candidates.
EdgeFrequency_WithProbe(probe, templates) ==
    Observing(Sighted(NoFrequency, Sightings(probe), DOMAIN Sightings(probe)), templates)

EdgeFrequency(probe, templates) == Observing(NoFrequency, templates)

\* A candidate is recalled by the keys of what the host stored of it.
EdgeVerdicts(p, templates) ==
    LET recalled == {v \in DOMAIN templates :
                        BlockingKeys(templates[v], Perms) \cap KeysOf[p] # {}}
    IN  Evaluated(Stored[p], recalled, templates, EdgeFrequency(Stored[p], templates),
                  NoAgreement, Visitor(p))

---------------------------------------------------------------------------
\* The handlers' fusion of the engine's confidence with the signals.
Fused(confidence, signals) ==
    ClampConfidence(confidence + ConfidenceAdjustment(signals))

(***************************************************************************)
(* identify_with_signals under its lock, and the handler's response.  The  *)
(* signals are fused into the response only; velocity is counted only for  *)
(* a new device, under the client's IP and then under its JA4 class.       *)
(***************************************************************************)
Respond(p, o, edge, bands) ==
    LET signals == Compute(edge.ja4, edge.ip, {Markers[v] : v \in ClaimedUA(Raw[p])})
        base == Penalised(o.confidence, bands.ip)
    IN  /\ answer' = {[probe |-> p, outcome |-> o, bands |-> bands,
                       confidence |-> Fused(base, signals),
                       winners |-> {w.visitor_id : w \in Verdicts(p)}]}
        /\ replay' = Judged(replay, DeviceOf[p], o.visitor_id)
        /\ UNCHANGED trusting

NoBands == [ip |-> "low", ja4 |-> "low"]

Match(h, headers) ==
    /\ h \in DOMAIN waiting
    /\ LET p == waiting[h].probe
       IN  \E o \in Verdicts(p) :
             /\ o.decision = "match"
             /\ IdentifyMatch(h, o.visitor_id)
             /\ agreement' \in Learnt(agreement, Stored[p], Template(records[o.visitor_id]))
             /\ frequency' \in Seen(frequency, Stored[p])
             /\ Respond(p, o, Trusted(trusting, headers), NoBands)
    /\ UNCHANGED velocity

Review(h, headers) ==
    /\ h \in DOMAIN waiting
    /\ LET p == waiting[h].probe
       IN  \E o \in Verdicts(p) :
             /\ o.decision = "review"
             /\ IdentifyReview(h, o.visitor_id)
             /\ Respond(p, o, Trusted(trusting, headers), NoBands)
    /\ UNCHANGED tables

NewDevice(h, headers) ==
    /\ h \in DOMAIN waiting
    /\ LET p == waiting[h].probe
           edge == Trusted(trusting, headers)
           secs == waiting[h].now \div Second
           ipKeys == {<<"ip", a>> : a \in edge.ip}
           classKeys == JA4Class(edge.ja4)
           events == Minted(Minted(velocity, ipKeys, secs), classKeys, secs)
           bands == [ip |-> Band(events, ipKeys, Bands.ip),
                     ja4 |-> Band(events, classKeys, Bands.ja4)]
       IN  \E o \in Verdicts(p) :
             /\ o.decision = "new_device"
             /\ IdentifyNew(h)
             /\ frequency' \in Seen(frequency, Stored[p])
             /\ velocity' = events
             /\ Respond(p, o, edge, bands)
    /\ UNCHANGED agreement

\* Everything else leaves the engine's tables alone.  An answer is forgotten
\* when records go, for it is then no longer the latest thing that happened.
\* An id nobody was answered is not erased here: nothing would change.
ScoredErase(v) ==
    /\ v \in DOMAIN replay.owner
    /\ Erase(v)
    /\ answer' = {}
    /\ UNCHANGED <<trusting, tables, replay>>

ScoredPurge == Purge /\ answer' = {} /\ UNCHANGED <<trusting, tables, replay>>

Meanwhile ==
    /\ \/ Tick
       \/ \E h \in Handlers, p \in Probes : Arrive(h, p)
       \/ SweepTick
    /\ UNCHANGED <<trusting, tables, answer, replay>>

ScoredNext ==
    \/ Meanwhile
    \/ \E h \in Handlers, headers \in Headers : Match(h, headers)
    \/ \E h \in Handlers, headers \in Headers : Review(h, headers)
    \/ \E h \in Handlers, headers \in Headers : NewDevice(h, headers)
    \/ \E v \in Probes : ScoredErase(v)
    \/ ScoredPurge

ScoredSpec == ScoredInit /\ [][ScoredNext]_engineVars

---------------------------------------------------------------------------
\* Types: one answer at most, of a known id, with a confidence between none and full.
ScoredTypeOK ==
    /\ trusting \in BOOLEAN
    /\ answer = {} \/ \E a \in answer : answer = {a}
    /\ \A a \in answer :
          /\ a.probe \in Probes /\ a.outcome.visitor_id \in Probes
          /\ a.confidence \in 0..1000
    /\ DOMAIN replay.owner \subseteq Probes

(***************************************************************************)
(* Scores stay within what FingerprintLibrary allows: a match or a review  *)
(* names a visitor on record that shares a component with the probe, never *)
(* a leftover of the index, and never one it has nothing to compare with.  *)
(***************************************************************************)
VerdictIsAllowed ==
    \A p \in Probes : \A o \in Verdicts(p) :
        o.decision # "new_device" => o.visitor_id \in Comparable(p)

(***************************************************************************)
(* Two visitors that score equally share the first place, and which of     *)
(* them is answered is left to a hash set's order: every such match is     *)
(* flagged as a collision risk.                                            *)
(***************************************************************************)
TiesAreFlagged ==
    \A a \in answer :
        a.outcome.decision = "match" /\ a.winners # {a.outcome.visitor_id}
            => a.outcome.collision_risk

(***************************************************************************)
(* A device that submits the same components again at once finds whom it   *)
(* was answered: unless every block dropped it, a match or a mint is among *)
(* the best candidates of the next request, although the first one changed *)
(* the template, the frequencies and the agreement rates it is scored with.*)
(* Only an equal score can have another visitor answered, and such a match *)
(* is flagged.  This takes that agreeing counts for a candidate: where the *)
(* weights assume m >= u and it is not so, whoever agrees on less may win. *)
(***************************************************************************)
AgreeingCounts(p) ==
    \A n \in DOMAIN Stored[p] :
        LET weight(sim) == AgreementWeight(MEstimate(agreement, n),
                                           Rarity(frequency, Stored[p][n]), sim)
        IN  weight(<<1, 1>>) >= 0 /\ weight(<<1, 1>>) >= weight(<<0, 1>>)

FindsAgain(p, v) ==
    \A o \in Verdicts(p) : o.decision # "new_device" =>
        /\ \E w \in Verdicts(p) : w.visitor_id = v
        /\ o.visitor_id # v /\ o.decision = "match" => o.collision_risk

RepeatFindsAnswered ==
    \A a \in answer :
        /\ a.outcome.decision # "review"
        /\ \E k \in KeysOf[a.probe] : <<k, a.outcome.visitor_id>> \notin dropped
        /\ AgreeingCounts(a.probe)
        => FindsAgain(a.probe, a.outcome.visitor_id)

(***************************************************************************)
(* One engine on two hosts: until the native library has learnt anything   *)
(* the edge cannot know (all visitors recalled, each observed once, none   *)
(* gone), a transient store over the recalled templates reaches the same   *)
(* verdicts; and both hosts read the same signals off the same headers.    *)
(***************************************************************************)
Cold ==
    /\ \A v \in DOMAIN records : records[v].observation_count = 1
    /\ ledger = [created |-> Cardinality(DOMAIN records), forgotten |-> 0]
    /\ agreement = NoAgreement /\ frequency.dropped = 0

VerdictsAgree ==
    \A p \in Probes :
        Cold /\ Candidates(index, KeysOf[p]) = DOMAIN records
            => EdgeVerdicts(p, Templates) = Verdicts(p)

\* Behind an edge that adds nothing of its own, the same headers are the same signals.
SignalsAgree ==
    \A p \in Probes : \A headers \in Headers :
        LET claimed == {Markers[v] : v \in ClaimedUA(Raw[p])}
        IN  EdgeSignals(trusting, headers, NoEnrichment, claimed)
                = NativeSignals(trusting, headers, claimed)

\* Both halves of it: one engine, on two hosts.
HostsAgree == VerdictsAgree /\ SignalsAgree

(***************************************************************************)
(* On an origin that does not trust the edge's headers nothing a client    *)
(* writes into them has any effect, now or later: no velocity is counted   *)
(* under an address or a class of its choice, and no band and no signal    *)
(* moves a confidence.                                                     *)
(***************************************************************************)
NothingIsCounted == velocity = NoEvents /\ \A a \in answer : a.bands = NoBands

UntrustedHeadersCountForNothing ==
    ~trusting =>
        /\ NothingIsCounted
        /\ \A a \in answer : a.confidence = a.outcome.confidence

(***************************************************************************)
(* The offline evaluation accounts for every answer once (minted, stable   *)
(* or a collision) and for every device once (first visit or revisit), and *)
(* the library holds nobody the replay never saw answered.                 *)
(***************************************************************************)
EvaluationAddsUp ==
    /\ DOMAIN records \subseteq DOMAIN replay.owner
    /\ replay.minted = Cardinality(DOMAIN replay.owner)
    /\ replay.total = replay.minted + replay.stable + replay.collisions
    /\ replay.total = replay.revisits + Cardinality(replay.visited)

===========================================================================
