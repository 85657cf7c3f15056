# Formal verification of fingerprintd

fingerprintd identifies browsers. A client fetches a one-time nonce, collects
component values (fonts, screen, WebGL, user agent, ...), and posts them; the
service answers with a stable `visitorId`: the id of a known visitor when the
values match one, a newly minted id otherwise. It runs in two forms that share
the scoring code: a native Rust service that keeps everything in memory
(`crates/fingerprintd` over `crates/fp-core`), and an edge deployment on
Cloudflare Workers (`apps/edge`) that keeps its state in durable objects and a
D1 database and calls the same scoring code through WASM (`crates/fp-wasm`).

This directory holds TLA+ models of the system, TLC configurations that check
them on small instances, and TLAPS proofs of the results that matter most.
Paths in this file are relative to `src/`.

Contents: 1 the system, 2 the models and the code, 3 the runs, 4 fairness and
deadlock, 5 the proofs, 6 where the code and its documentation disagree,
7 abstractions, 8 what is not modelled, 9 the plan.

## 1. The system

### 1.1 Native service

| part | state | operations | correct when |
|---|---|---|---|
| Nonce store (`fp-core/src/nonce.rs`) | map nonce -> (expiry, used) under one mutex | issue (stamp, then under the lock sweep and insert); consume | a nonce authorises one identify, in its lifetime; another caller's sweep never loses a live one; memory is bounded by one window |
| Record store (`fuzzy/record.rs`) | map visitorId -> record (template with a freshness stamp per field, first/last seen, count), eviction counter | observe (create or drift, then TTL and cap eviction), remove, purge_older_than | bounded; every eviction counted; a record holds what was observed of that visitor and nothing else; none is lost early |
| Blocking index (`fuzzy/blocking.rs`) | blocking key -> set of visitors, dropped counter | insert under a cap, candidates, remove_visitor | a visitor on record is recalled by each of its keys unless a full block reported the drop |
| Schema and keys (`component.rs`, `canonical.rs`, `minhash.rs`) | none | classify, stored forms, K0/K1/K2 and font-band keys | mistyped values are never compared; small drift leaves a key in common |
| Aggregates (`frequency.rs`, `agreement.rs`) | sightings per value, agreements per component, capped | record; estimates of u and m for the scores | totals equal the sum of the counts; m is learnt from matches only |
| Velocity (`fuzzy/velocity.rs`) | event times per client IP and per JA4 class, capped keys | record, count within a window | counts are of mints that happened |
| Engine (`fuzzy/engine.rs`, `fuzzy/mod.rs`) | the six backends above and `identify_lock` | identify, erase, purge_expired, score | each of identify, erase, purge is atomic; every request is answered |
| Retention task (`fingerprintd/src/main.rs`) | an interval timer | read the clock, purge | a record nobody refreshes is purged without traffic |
| HTTP service (`fingerprintd/src/lib.rs`, `state.rs`) | the nonce store and the engine | challenge, identify, erase | a nonce is burned whatever the answer; only an administrator erases |
| Configuration (`fingerprintd/src/config.rs`) | the values the service was started with | defaults, file, environment; the checks and caps made of them | the later layer wins field by field; an empty key is no key |
| Passive signals (`fp-core/src/signals.rs`, `fingerprintd/src/signals.rs`) | none | JA4 class, claimed user agent against TLS stack, IP band, confidence adjustment | headers count only behind a trusted edge; both hosts read the same |
| Probe and signing (`fp-core/src/probe.rs`, `signing.rs`) | none | keyed digests of the nonce and of the response | only the configured key's digest passes |
| Offline evaluation (`fuzzy/eval.rs`) | device and id of every answer replayed | counts stable links, collisions, mints | each answer is counted once |
| P0 store (`fingerprintd/src/fingerprint.rs`) | one map | exact-match ids | not on the service's path |

Interaction. An identify handler consumes the nonce, checks the probe, reads
the wall clock (`lib.rs:114`), checks the timestamp, and only then calls the
engine, which queues for `identify_lock` (`engine.rs:225`). Under it the engine
calls index, records, frequency, agreement and velocity in turn; each has a
mutex of its own. `DELETE /visitor/{id}` and the retention task contend for the
same lock; the task also reads its clock before it queues.

What is hard here: times read before a lock and used after it; observations that
fold in out of the order of their times; four structures that must change
together; caps that drop (blocks), evict (records) or refuse for good (frequency,
agreement, velocity); index entries that outlive their records; ids derived from
the probe, so that "new" may name a visitor already on record; scores read off
tables that every answer changes; equal scores, whose order is a hash set's.

### 1.2 Edge service

| part | state | operations | correct when |
|---|---|---|---|
| Nonce object (`apps/edge/src/lib/do/nonce-do.ts`) | one durable object per nonce: the expiry, and the alarm that reclaims it | issue, consume (deletes the record), alarm | same promise as the native store; what nobody consumes is reclaimed |
| Velocity object (`do/velocity-do.ts`) | per entity, member -> expiry; a pruning alarm | bump, alarm | distinct members of the rolling window; nothing kept for an entity gone quiet |
| Library (`modules/fingerprint/*`, `lib/state.ts`) | D1 tables of templates and of blocking keys | recall, score (WASM), persist, erase, purge | the tables agree; no observation is lost from a count; an erasure holds |
| Check-in (`modules/checkin/*`) | event log in D1 | record, aggregate, assess, purge | a farm is noticed, no reason is made up, no young event is purged |
| Wiring (`index.ts`, `config/`, tables, cron) | none | routing, the cron's two purges | - |

Interaction. The identify route consumes the nonce at its object, scores what a
recall from D1 returned, writes the outcome (read, merge, batch), and for a new
device bumps the velocity objects of its IP and its JA4 class; a failure there
falls back to neutral bands. The check-in route records its event, awaits that,
then issues its queries together. The cron purges both tables.

What is hard here: every D1 call is a transaction of its own and there is no
lock across them, so an erasure or a purge runs between a recall and the write
it leads to; the aggregates of one check-in are read at different moments; an
alarm already dispatched meets a record changed meanwhile; a request is lost,
or a call fails after it took effect, and half of the work is done.

### 1.3 Client and web console

`packages/client` fetches the challenge, collects components in the browser,
and posts identify; `apps/web` is a playground over it. Neither keeps state the
services rely on.

## 2. The models and the code

```
OneTimeNonce <--implements-- NonceStore    (first part of IdentifyServerProofs)
     ^---------implements--- NonceObject   (NonceObjectProofs)

RecordStore, BlockingIndex -> FingerprintLibrary (FingerprintLibraryProofs)
                                ^     \-> DanglingIndex
                                | implements
RecordStore, BlockingIndex, AggregateTables, VelocityTable, ProbeSchema -> FuzzyStore
                                                                     (FuzzyStoreProofs)

NonceStore + FingerprintLibrary + ServiceConfig -> IdentifyServer (IdentifyServerProofs)

ProbeSchema -> Scoring -\
AggregateTables, VelocityTable, Signals -> ScoredEngine (ScoredEngineProofs)
                                            | extends, implements
                                            v
                                    FingerprintLibrary

ProbeSchema -> EdgeLibrary (EdgeLibraryProofs)
EdgeVelocity (EdgeVelocityProofs)       CheckIn (CheckInProofs)
ProbeSchema -> MCDevices -> MCFingerprintLibrary, MCDanglingIndex, MCFuzzyStore, MCEdgeLibrary
```

`M` is the model and `MCM` its instance for TLC, in every case.

* **OneTimeNonce** is the abstract promise of any nonce store: deadlines, and
  at most one honoured use in time. It is written from what the identify
  handlers rely on.
* **NonceStore** is `InMemoryNonceStore`. `Generate` is the first half of
  `issue_with_ttl` (random string, `expires_at` from the clock), `Insert` its
  critical section (`retain`, `insert`); the four `Consume...` actions are the
  arms of `consume`, in the code's order. `entries` is the guarded map, `drafts`
  are calls between the two halves. `expiry`, `accepted`, `verdict`, `swept` are
  history.
* **NonceObject** is the durable objects and the Worker's side of their calls.
  `Issue` stores the record and sets the alarm in one event of the object;
  `Deliver` is the answer reaching the Worker and the client, which may never
  happen. `Consume` deletes the record, then looks at the expiry; `ConsumeFails`
  is a call that took effect and whose answer was lost, or one that did not.
* **RecordStore**, **BlockingIndex**, **AggregateTables**, **VelocityTable**
  hold no state: each defines what one call does to the map it guards, so that
  the atomic library and the lock-by-lock engine use the same definitions.
  `Observed` is the set of maps `observe` can leave: the upsert, the TTL sweep,
  then the cap loop, whose choice among equal `last_seen` is the hash map's.
* **ProbeSchema** takes a raw component object to its stored form and its
  blocking keys, and has the priors and the similarity of two stored values. Its
  kinds are the code's `classify`; mistyped values vanish.
* **Scoring** is `evaluate`: the estimates of u and m, the weights, the score of
  a candidate, the two thresholds, confidence and collision flag. `Evaluated` is
  the set of outcomes the code may have: one for every best candidate.
* **Signals** is `signals.rs` and its two adapters: the native handler's and the
  edge's (`NativeSignals`, `EdgeSignals`), from the same headers.
* **ServiceConfig** is the configuration: `Loaded` overlays the layers on
  `Default`, `FromConfig` is what `AppState` makes of the result.
* **FingerprintLibrary** is what callers may rely on: each of identify (match,
  review, new), erase and purge is ONE step on records and index. `waiting` are
  handlers that have read the clock and not been served. `absorbed`, `dropped`,
  `erased`, `ledger` are history. It is at the same time the specification that
  the proofs are about.
* **FuzzyStore** is the code as it runs: `lock` is `identify_lock`, `jobs` the
  locals of the identify calls with `phase` as program counter. `Recall`,
  `Decide...`, `Agree`, `Sight`, `Index`, `Fold`, `CountMint`, `Answer` are the
  backend calls of `identify`/`observe` in order; `EraseRecord` and
  `EraseBlocks` the two of `erase`; `SweepTick` and `Purge` the retention task.
* **ScoredEngine** is FingerprintLibrary with its verdicts computed. It adds the
  engine's tables (`frequency`, `agreement`, `velocity`), the latest response
  (`answer`: signals fused in, the velocity penalty applied), and the offline
  evaluation of all answers so far (`replay`). `Match`, `Review` and `NewDevice`
  are `identify_with_signals` and the success path of the handler, each a step
  of the library and of the tables together, which is sound because FuzzyStore
  shows the locked code to be atomic. `EdgeVerdicts` is the WASM module's
  `score` over a transient store.
* **IdentifyServer** composes NonceStore and FingerprintLibrary into the HTTP
  handlers. `IdentifyNonceSpent` consumes the nonce and checks the probe,
  `IdentifyStale` and `IdentifyAdmitted` are the two outcomes of the timestamp
  check (they read the wall clock later than the nonce was spent), the latter
  hands over to the library; `EraseVisitor` wants the administrator's key.
  `config` is the configuration the service was started with, `Settings` what
  the handlers see of it.
* **DanglingIndex** runs the library beside an index without the entries of
  dropped records, to test what the docs say of those entries.
* **EdgeLibrary** is identify, erase and the cron over D1, one action per
  statement or batch: `RecallMatch/New/Review` (one SELECT, LIMIT included, and
  the verdict on it), `ReadTemplate`, `Write` (the batch), `Erase`,
  `PurgeSelect`, `PurgeDelete`. `Fail` drops a request between any two.
  `folded`, `writes`, `forgotten`, `quiet` are history.
* **EdgeVelocity** is one velocity object per entity and the calls the identify
  route makes to two of them: `Bump` may take effect and fail all the same
  (`BumpFails`), an alarm is dispatched (`AlarmDue`) and handled (`AlarmRuns`)
  with other events in between. `seen` is history.
* **CheckIn** is the assess endpoint: `Record`, then one action per query in any
  order, then the rule engine's reasons and decision; `CronTick`, `PurgeCount`,
  `PurgeDelete` are the cron. Row ids order events as they were inserted, which
  their times do not. `recorded` is history.
* **MCDevices** defines the devices TLC uses from raw component objects through
  ProbeSchema: `steady`, `drifted` (after an upgrade; shares K1 but not K0),
  `sparse` (little reported, one field mistyped; shares a font band with
  `drifted`), and the smallest pair with a block in common, `plain`/`patched`.
* **MCScoredEngine** defines five probes of four devices for their scores: a
  device before and after a browser update (`left`, `drift`), one that shares
  only its graphics (`right`), one that reports all that both do and so ties
  between them (`both`), and a script with so few components that it does not
  match even itself (`lite`).

`PROJECT.json` maps every definition to the lines it stands for.

## 3. The runs

| run | instance | shows |
|---|---|---|
| library | 3 devices, 2 handlers, 3 requests, 2 records, blocks of 1, windows of 1, instants 0..2 | bounds; complete erasure; recall; provenance of every field; counted evictions; no early loss; the retention task alone purges what nobody refreshes |
| fuzzy_store | 2 devices, 2 handlers, 2 requests, an eraser and the retention task; caps of 1 record, 1 visitor a block, 1 velocity key, 2 frequency values | the locked code implements FingerprintLibrary; the aggregate tables say what the matches and mints said, each at its moment; every request is answered |
| nonce_object | 2 nonces, lifetimes 0 and 2, instants 0..3 | refinement of OneTimeNonce with lost, late and failed answers; alarms spare live nonces and reclaim the unused |
| edge_library | 2 devices, 2 requests at a time, 3 in all, a recall limit of 1, instants 0..3 | the two tables agree whatever interleaves; the count misses no write; an erasure nobody was about to undo holds; the cron purges what nobody refreshes |
| edge_velocity | 2 visitors, 1 IP and 1 JA4 class, 2 requests, a window of 2, instants 0..4 | counts are of the rolling window; each record has an alarm late enough and soon enough; a quiet entity's record is deleted |
| identify_server | 2 nonces, 2 handlers, 1 device, 2 instants of each clock; keys unset, empty or real with the timestamp window on and off (lifetime 1), and once with lifetime 0 | one use in time (refinement of OneTimeNonce); no live nonce lost to a sweep; answers to a holder only move forward; one attempt per nonce; every observation was paid for; replays are bounded; empty keys open nothing |
| scored_engine | 5 probes of 4 devices, 2 sets of edge headers, trusted or not, a cap of 2 records, velocity thresholds 1/2 and 2/3, 4 requests | scores stay within the verdicts the library allows; ties are flagged; a repeated submission finds whom it was answered, or a flagged tie; the two hosts agree; untrusted headers count for nothing; the evaluation adds up |
| checkin | 2 accounts, 2 devices, 1 IP, 2 requests at a time, 3 in all, thresholds of 1, instants 0..2 | a farm is noticed by the last of its concurrent check-ins; each computed reason has its evidence, a reset up to what a purge took; no young event is purged |
| last_seen, dangling_index, edge_erasure, checkin_egress | small instances with the counterexample | refuted: section 6 |

Why these bounds are enough. Two handlers make every race of two requests; a
third contender of another kind (eraser, retention task, cron, alarm) is always
there. The caps are set below what the devices need, so that each cap is reached
by two requests. Three requests suffice for create, drift, evict, re-create, and
for a farm of two accounts with a retry. Instants 0..2 with windows of one give
a time inside, at the edge of and past every window. In identify_server the
library is small: what it does to the library is checked in `library`; two
nonces and two handlers make every race for one nonce, beside one in another
state. In scored_engine four requests are enough to create two visitors, evict
one and repeat, and to reach the high velocity band; `RepeatFindsAnswered` looks
at every outcome the next request may have, so it covers a fifth, and what
longer sequences of ties do to the tables is the theorem's part (section 5);
time stands still there, since its effects are checked in `library`, and the cap
below the number of devices makes leftovers of the index that are candidates
without a record. The churn sample is two events, the fewest with which an
account's older events matter. In identify_server the timestamp window's skew is
zero: the run decides its boundary there (two instants of the clock leave no
room for a larger skew to bite), and `ReplaysStayInTheWindow` covers every skew.
`MaxTime`, `MaxRequests` and `MaxErasures` are the only bounds on counters,
guards of `Tick`, `Arrive` and `EraseRecord`. The inductive invariants
(`NonceInv`, `LibraryInv`, ...) were checked by TLC before they were proved; now
that they are, no run repeats them. Symmetry (handlers, accounts, visitors) is
used in the two checkin runs only, where no liveness is checked.

## 4. Fairness and deadlock

* `FingerprintLibrary!FairSpec`: the clock, the retention tick and the purge
  (the loop in `main.rs` awaits its interval and purges for as long as the
  process lives). Nothing is assumed of clients.
* `FuzzyStore!FairSpec`: every handler's next step, the rest of an erasure, and
  the purge. Weak fairness of one handler is enough for a lock without a queue
  only because the contenders are finitely many in a behaviour: when the others
  are done the lock stays free. What the run shows is that no path keeps the
  guard, not that the operating system's mutex is fair.
* `NonceObject!FairSpec` and `EdgeVelocity!FairSpec`: time passes, and an alarm
  that is due is delivered, which is what the platform promises (at least once,
  retried). Nothing is assumed of requests, nor of calls in flight.
* `EdgeLibrary!FairSpec`: time passes, the cron keeps being triggered
  (`wrangler.jsonc`) and runs to its end.
* IdentifyServer, ScoredEngine and CheckIn state no fairness: every property
  checked of them is a safety property. What is live in them (the sweep) is in
  `library`.
* Deadlock is checked in every run except those of FuzzyStore and EdgeVelocity,
  which really stop: requests, erasures and the clock are bounded, and an idle
  service has nothing left to do. A handler stuck in the middle is what
  `EveryRequestIsAnswered` excludes.

## 5. The proofs

TLAPS checks these for every value of the constants, under the named assumption
of each module (caps, windows and bounds are natural numbers; stored components
and keys are maps of the declared sets; in FuzzyStore and ScoredEngine also: a
probe has finitely many components, and in ScoredEngine an array finitely many
elements, as in any JSON text; in FuzzyStore: components have declared names, an origin is a list of velocity keys, and
the lock's two other values are no handlers). Sets of nonces, handlers, devices,
accounts and addresses may be infinite.

The prover cannot instantiate the library's induction theorems. Where a proof
needs induction over a finite set or up to a number (`FiniteInduction`,
`SetInduction`, `InductionUpTo`), the property is written as the set of
things that have it, and a smallest one outside it is refuted by the
well-foundedness theorems that take a set.

*IdentifyServerProofs, the nonce store.* `NonceInv` is inductive. It adds to the types that a draft
is nowhere else yet, that the map agrees with the history (same expiry, burned
exactly if accepted), and that answers agree with it (Unknown is only said of
what is not in the map). Without these `LiveNonceKept` is not preserved by
`Insert`. From it: `LiveNoncesAreKept`, `MapIsSweptToTheWindow`,
`AnswersNeverGoBack`, and `StoreIsOneTime`, the refinement of OneTimeNonce.

*NonceObjectProofs.* `ObjectInv` is inductive: a stored record has the expiry it
was issued with and was never accepted, an alarm is set to exactly that expiry,
what was accepted had been delivered, and what is unexpired and unanswered is
held. From it the same refinement of OneTimeNonce (`ObjectIsOneTime`), with failed and lost
calls, and `AlarmSparesLiveNonces`.

*FingerprintLibraryProofs.* `LibraryInv` is inductive: types, bounds, erasure,
recall, provenance and the eviction count together. Two conjuncts are there for
the induction only. `AbsorbedIsOnRecord` says the history of a visitor without
a record is empty: a record created again must start from nothing, or
`RecordIsItsObservations` breaks. `FiniteHoldings` says that records and blocks
are finite, without which cardinalities mean nothing when probes are infinitely
many. The lemmas on operators come first: the shape of what `observe` leaves
(`ObservedShape`), its bound at every cap, zero included (`ObservedIsBounded`),
what an insertion does to a block (`InsertAllIsBounded`), what a fold does to
the provenance (`UpsertMadeOf`). Then one lemma per action.
`NoRecordIsLostEarly` (an action property) needs one more invariant,
`TimesArePast`: nobody acts on a time that has not come.

*EdgeLibraryProofs.* `EdgeInv`. `IndexIsExact` alone is not inductive: it says
that the rows of a visitor are the keys of the observations in its history, and a
template created again must start with none (`FoldedIsOnRecord`). Since a
template and its rows are only ever touched in one batch, no assumption on the
requests in flight is needed for it; that is the argument for doing without a
lock. `QuietErasureHolds`
does look at them: an erasure is quiet when no request was about to write.

*EdgeVelocityProofs.* `VelocityInv` says that every member was seen with the
expiry it has (`MembersWereSeen`) and every sighting inside the window is a
member with an expiry no earlier than its own (`SeenAreMembers`). Both are
needed: the first bounds a count from above, the second from below, and the
prune of a bump or an alarm keeps the second because it drops only what has
expired by now. `ObjectsHoldTheWindow` follows, and so does the action property
`AnswersAreTheWindow`: the number a bump answers is that of the window as the
bump leaves it. `AlarmsCoverTheRecords` goes through because every bump that
stores an expiry sets the alarm to the furthest one stored, also when its answer
is lost, and an alarm under way stays in `firing` until it has looked.

*FuzzyStoreProofs.* `StoreInv` is inductive over the calls as they run, lock by
lock. Its heart is `ReadsStand`: what the holder of `identify_lock` has read or
written so far is what its phase says, relative to the library as it was when
the lock was taken (`saved`). It is kept because the lock names its one holder
(`LockIsHeld`), so that nobody else is past its recall (`Holder`, `NobodyHolds`,
`EraserHolds`). For the tables: `SumOver` is a recursive sum, and is shown to be
the cardinality of a set of pairs (`SumIsCount`), from which follow the sums that
a recording changes (`SumOfParts`, `SumOfClasses`) and so `SightingsAddUp` for
every cap, whichever new values the cap admits. `AgreementIsLearnt` compares the table
with a history computed from `saved`, the library as the match found it; that the
code compares with the same template is again `ReadsStand`, and that a name is
missing only from a full table is how an admission fills it (`AdmittedFills`).
`CountsCountMints` needs `ListsAreOfMints`: a key's list is in bijection with its
lasting mints, those no request since has found out of its window. An append and a
prune keep this (`MintLasts`): the prune drops exactly what the newest cutoff
excludes (`SinceKeeps`, `LastingGrows`). A key once refused for want of room finds
none later in the same call.

`StoreIsALibrary` is the refinement: the mutex-by-mutex engine implements
FingerprintLibrary, in which identify, erase and purge are single steps. The
mapping shows the library as it was when the lock was taken until the call takes
effect: a match or a mint at its `Fold`, a review at its decision, an erasure at
its second half. One lemma per action says that it is that one step of the
library (`FoldIsOne`, `ReviewIsOne`, `EraseBlocksIsOne`, `PurgeIsOne`,
`ArriveIsOne`) or none (`CallStutters`, `AnswerStutters`,
`EraseRecordStutters`), from the facts `ReadsStand` keeps. Hence everything
proved of FingerprintLibrary holds of the concurrent engine.

*CheckInProofs.* `CheckInInv`. Two conjuncts carry the results. `CutoffIsPast`:
a cutoff taken stays a window back from now, however late the delete; with it
`YoungEventsAreKept` is preserved. `CountsAreCovered`: an answer already given
lies between the events that were on the log when the request's own was recorded
and those ever recorded. It survives other requests' inserts because their rows
are higher (`RowsAgree`), purges because the lower bound only shrinks, and it
holds when a query is answered because the insert was awaited (`RecordedFirst`).
`NoFarmSlipsThrough` is then a comparison with the thresholds from below,
and `NoAlarmWithoutEvidence` one from above. The latter also needs
`TimingStands`: an answer that calls an account's timing scripted was drawn from
at least three of its events (the sample is a subset of the log of that size by
the guard of the regularity, so nothing about the sort is needed), and
`ChurnStands`: an answer on the churn names no more devices than the account ever
had, out of no fewer events than its earlier ones still on the log, up to the
sample. The last is all that can be said of FP_RESET, which is a share: a purge of
older events raises it.

*IdentifyServerProofs.* The service is a nonce store (`ServiceIsANonceStore`)
and a library (`ServiceIsALibrary`): each of its steps is a step of each part or
leaves it alone. So every theorem about the parts holds of the service;
`ServiceIsOneTime`, `ServiceKeepsLiveNonces` and `ServiceAnswersNeverGoBack`
state three of them. `ServerInv` is inductive over both: `OneAttemptPerNonce`
counts, for each nonce, requests under check, requests refused and requests in
the engine; it needs that a handler with a post is not also queued, and that a
nonce is accepted once, which is the nonce store's invariant. `StampsInWindow`
is what makes `ReplaysAreBounded` a sum of two inequalities.
`ObservationsArePaid` joins the two stores: observations on record (each a
visitor and its number), requests in the engine and requests being checked are
never more than the nonces accepted. Each step of identify turns one of these
into the next, a nonce enters once (`OneAttemptPerNonce`), and evictions,
erasures and purges only take observations away (`PaidInv`).

*ScoredEngineProofs.* `EngineIsALibrary`: whatever the scores, every step of the
engine is a step of FingerprintLibrary, whose theorems then hold of it.
`EvaluationIsComplete` needs an invariant on the replay: who owns an id is among
the devices visited, and the library holds only ids that were answered.
`UntrustedHeadersAreNothing` is an induction in two parts: first no event is ever
counted, then no confidence is moved, since an outcome's confidence is clamped to
none to full (`ConfidenceIsClamped`) and neither the low band nor absent headers
change it. `VerdictsAreAllowed` looks into the scores as far as it must: the sum
over no common component is zero and so below T_lo, and an id without a record
scores minus infinity. `EngineIsTyped`: every confidence answered is between none
and full.

`TiesAreNeverHidden` needs the scores to be numbers, which `ScoresStayNumbers`
proves first. In the code that is what the floors and ceilings of the estimates
are for: no estimate is 0 or 1, so `agreement_weight` takes no logarithm of zero.
Here: the tables hold natural numbers whatever is observed (`EngineCounts`), so
every estimate is a share strictly between none and all (`EstimatesAreShares`);
the logarithm of a positive number is a natural (`LogIsNatural`, through the ten
digits its recursion finds); the similarity of two values of one name is a
fraction, because the name fixes the kind and a template holds what some probe
stored (`CountingGivesNumbers`, from the provenance in `LibraryInv`); and a sum of
integers over finitely many names is one (`ScoreOfNumbers`). With numbers, the
best score of the others is at least the winner's whenever another visitor could
have been answered (`FiniteSetsHaveAMax`), and the gap is none.

`RepeatsFindTheAnswered` is about two evaluations with the learning of the first in
between, and does not compare them. `RemembersAnswer`: the latest answer's visitor
holds every component of its probe, as submitted, unless the answer was a review. So
in the next evaluation it agrees on every name, and where agreeing counts
(`AgreeingCounts`) no candidate scores more. Whether it still reaches a threshold is
left open: the property is about answers that name somebody on record. Which
of two equal candidates is answered may change from one request to the next, by the
hash set's order; the property says that such a match is flagged, not that it does
not happen.

Only model-checked are the liveness properties (`AgedRecordsArePurged`,
`EveryRequestIsAnswered`, `UnusedIsReclaimed`, `AgedTemplatesArePurged`,
`QuietIsDrained`): temporal reasoning with fairness is beyond the prover.

## 6. Where the code and its documentation disagree

Each of these is a run that ends in a counterexample, listed with its quotation
in `PROJECT.json` under `findings`.

* `last_seen`: two requests read the clock in one order and take the lock in
  the other; `last_seen` moves back. The record then looks older to the LRU cap
  and to the retention purge than it is. (`FreshRecordsAreKept` bounds the harm:
  `last_seen` is the time of *an* observation, and no record goes before a
  window has passed since that.)
* `dangling_index`: entries that outlive their records are documented as
  harmless; they fill blocks, and recall a re-minted visitor by old keys.
* `edge_erasure`: on the edge a request that had matched a visitor writes it
  back after its erasure.
* `checkin_egress`: the first check-in of any account has a churn rate of one
  device in one event, so FP_RESET fires; with IP_BATCH, a benign account behind
  a shared egress is denied. The test that excludes this stubs the churn.

Noted while modelling, without a run of their own (the models have the behaviour
and no property forbids it): a nonce reaped by a sweep, and on the edge any
replayed one, is answered Unknown, documented as "never issued"; a device whose
own record scores below T_lo is answered `is_new_device` with an id that is on
record, and that record is refreshed without a match; a velocity count includes
mints later than the request's time and loses those an earlier prune took; a
nonce of lifetime zero leaves a record no alarm reclaims; two concurrent matches
on the edge lose one another's components (a merge read before it is written);
the edge purge deletes by id a template refreshed since it was selected; the
edge counts distinct ids where the native table counts mints; the number of
events a check-in purge reports is not the number it removed; a purge of an account's
older events raises its churn, to one device in one event at the last, so FP_RESET
may be given to an account that changed nothing (`AlarmsHaveEvidence` bounds it by
what the purge took).

Noted on scores and signals, again without a run: the first device of all, with
nothing to be compared with, is answered with a confidence of exactly one half
(`engine.rs:516-518` speaks of a high one); agreeing on a value most devices
share lowers a score when the component churns, where `engine.rs:14-15` says it
carries almost nothing; two submissions of one device may be answered two
visitors in turn, if these tie exactly (both matches are flagged); two
candidates that tie below the upper threshold are a review that names either,
without a flag; the native engine's velocity penalty has no counterpart where
the edge fuses its confidence (`fingerprint.routes.ts:305-306`,
`engine.rs:253`); the transient store derives a candidate's keys anew from its
template, so one that D1 recalled by an older key is not scored; an automation
TLS stack without a user agent is consistent, and gains the boost.

## 7. Abstractions

* Verdicts. FingerprintLibrary, FuzzyStore and IdentifyServer allow any verdict
  for any candidate that shares a stored component with the probe, and for none
  that does not (such a candidate scores zero or minus infinity, below T_lo).
  What holds for every verdict holds for the scores' verdicts: that these are
  among the allowed ones is `VerdictIsAllowed` and `EngineIsALibrary`.
* Scores. Estimates are exact fractions; scores are integers of 1/1024 bit from
  a logarithm exact to about that (for numbers below 2^17; a logarithm of larger
  ones is too low by more), confidences thousandths. Equal scores in the
  code are equal in the model; those closer than a few 1/1024 bit may compare
  otherwise.
* Text. A JA4 is the fields that parse, a user agent the set of markers it
  contains, an address its octets, a keyed digest the key it was made with.
* Digests (blocking keys, derived ids, probes) are collision-free: the digested
  thing stands for the digest. MinHash has one row per band.
* Numerics are the exact value; the stored rounding is not modelled.
* Which new keys a capped table admits within one request is any choice that
  fills it: the code's order is that of a map.
* Mutexes are never poisoned: no code panics while it holds one.
* Clocks do not step back. The native clock is the system time; a step back
  would be one more way to out-of-order times. Isolates share one clock.
* A D1 statement or batch is atomic and durable; one event of a durable object
  is not interleaved with another of the same object (input gates).
* In CheckIn the aggregates no threshold looks at are left out, and the hard
  reasons of the body (UA/TLS mismatch, datacenter IP) are a set.

## 8. What is not modelled, and why

* Response signing: it changes no state, and that a digest cannot be made
  without its key would be an assumption of any model.
* The P0 store: no handler uses it any more.
* The two rates of the offline evaluation: quotients of the counters modelled.
  The order in which it interleaves devices is covered, the run takes every one.
* IPv6 in the IP bands (always low), rounding of numerics, MinHash collisions,
  the JSON boundary of WASM: data no property tells apart.
* The stubs an edge without bindings falls back to, its static ASN list beyond
  what it does to a band.
* The edge's identify route as a whole: its parts are modelled (nonce object,
  library, velocity object, scores, signals), their composition is not.
* Client collectors, web console, scripts: user interface and tooling.

## 9. The plan

Done: the nonce stores of both hosts against one promise; the native library as
an atomic specification, its locked implementation, the same with its scores
computed, and the configured server over it; the edge's D1 library, its velocity
objects and its check-in log; inductive invariants proved for all of these, and
both refinements (nonce stores of OneTimeNonce, FuzzyStore of FingerprintLibrary).

Next, in this order:

1. **EdgeIdentify**: the edge's identify route over NonceObject, EdgeLibrary and
   EdgeVelocity, with the fail-open velocity path and the checks before scoring
   (as IdentifyServer is for the native host). Properties: one attempt per nonce
   across isolates and retries, no template without a nonce, a failing velocity
   object never costs an answer. It can take over the instance of nonce_object,
   as identify_server took over that of the native nonce store.
2. **ClientRoundTrip**: the SDK's challenge, collection and identify with its
   failures, over IdentifyServer.
3. Proofs: the theorems of the modules above.

The number of runs is kept at a dozen, so that each answers a question of its
own: a new composition replaces or absorbs the run of a part it contains.
