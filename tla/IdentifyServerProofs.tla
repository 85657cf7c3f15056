----------------------- MODULE IdentifyServerProofs -----------------------
(***************************************************************************)
(* Proofs about IdentifyServer, for every set of handlers, devices, nonces *)
(* and configurations.  The service is both of its stores at once: each of *)
(* its steps is a step of NonceStore and a step of FingerprintLibrary, or  *)
(* leaves that store alone, so what the first part shows of the nonce      *)
(* store holds of the service too.  The properties that join the two       *)
(* stores follow from ServerInv.                                           *)
(***************************************************************************)
EXTENDS IdentifyServer, FiniteSetTheorems, TLAPS

---------------------------------------------------------------------------
(***************************************************************************)
(* The nonce store, for any set of nonces, any lifetimes and any length of *)
(* behaviour: NonceInv is inductive, and every step of the store is a step *)
(* of OneTimeNonce or leaves the caller's view as it was.                  *)
(***************************************************************************)

\* The store starts in NonceInv.
LEMMA InitNonceInv == Init => NonceInv
  BY DEF Init, NonceInv, TypeOK, DraftsAreFresh, MapAgrees,
         AcceptedWereDelivered, AnswersAgree, LiveNonceKept, SweptToWindow,
         Delivered, Nothing, NoSweep, Draft, Entry, NonceOutcome

\* The draft set names each nonce once, so inserting a draft delivers
\* exactly that draft's nonce.
LEMMA InsertDelivers ==
  ASSUME NonceInv, NEW d \in drafts, Insert(d)
  PROVE  /\ d.nonce \in Nonces
         /\ d.nonce \notin Delivered
         /\ Delivered' = Delivered \cup {d.nonce}
  BY DEF NonceInv, TypeOK, DraftsAreFresh, Insert, Delivered, Draft

\* Generating a nonce delivers nothing.
LEMMA GenerateDelivers ==
  ASSUME NonceInv, NEW n \in Nonces, NEW ttl \in TTLs, Generate(n, ttl)
  PROVE  n \notin Delivered /\ Delivered' = Delivered
<1>1. {d.nonce : d \in drafts'} = {d.nonce : d \in drafts} \cup {n}
  <2> DEFINE new == [nonce |-> n, expires_at |-> now + ttl]
  <2>1. drafts' = drafts \cup {new} /\ new.nonce = n
    BY DEF Generate
  <2> HIDE DEF new
  <2>2. QED
    BY <2>1
<1>2. DOMAIN expiry' = DOMAIN expiry \cup {n}
  BY DEF Generate
<1>3. QED
  BY <1>1, <1>2 DEF Generate, Delivered

---------------------------------------------------------------------------
\* NonceInv is preserved by every action.
LEMMA NextNonceInv == NonceInv /\ [Next]_vars => NonceInv'
<1> SUFFICES ASSUME NonceInv, [Next]_vars
             PROVE  NonceInv'
  OBVIOUS
<1> USE DEF NonceInv
<1>1. CASE Tick
  BY <1>1 DEF Tick, TypeOK, DraftsAreFresh, MapAgrees,
     AcceptedWereDelivered, AnswersAgree, LiveNonceKept, SweptToWindow,
     Delivered
<1>2. ASSUME NEW n \in Nonces, NEW ttl \in TTLs, Generate(n, ttl)
      PROVE  NonceInv'
  <2> USE <1>2
  <2>1. now + ttl \in Nat
    BY NonceAssumption DEF TypeOK
  <2>2. n \notin Delivered /\ Delivered' = Delivered
    BY GenerateDelivers
  <2>3. TypeOK'
    BY <2>1 DEF TypeOK, Generate, Draft, Entry
  <2>4. DraftsAreFresh'
    BY DEF DraftsAreFresh, Generate, MapAgrees, AcceptedWereDelivered,
           Delivered
  <2>5. MapAgrees'
    BY DEF MapAgrees, Generate
  <2>6. AcceptedWereDelivered' /\ AnswersAgree' /\ LiveNonceKept'
    BY <2>2 DEF AcceptedWereDelivered, AnswersAgree, LiveNonceKept,
       Generate, Delivered, TypeOK
  <2>7. SweptToWindow'
    BY DEF SweptToWindow, MapAgrees, Generate
  <2>8. QED
    BY <2>3, <2>4, <2>5, <2>6, <2>7
<1>3. ASSUME NEW d \in drafts, Insert(d)
      PROVE  NonceInv'
  <2> USE <1>3
  <2>1. /\ d.nonce \in Nonces
        /\ d.nonce \notin Delivered
        /\ Delivered' = Delivered \cup {d.nonce}
    BY InsertDelivers
  <2> accepted[d.nonce] = 0
    BY <2>1 DEF AcceptedWereDelivered, TypeOK
  <2>2. TypeOK'
    BY <2>1 DEF TypeOK, Insert, Draft, Entry, Live
  <2>3. DraftsAreFresh'
    BY DEF DraftsAreFresh, Insert, Live, TypeOK
  <2>4. MapAgrees'
    BY <2>1 DEF MapAgrees, Insert, Live, DraftsAreFresh
  <2>5. AcceptedWereDelivered'
    BY <2>1 DEF AcceptedWereDelivered, Insert
  <2>6. AnswersAgree'
    BY <2>1 DEF AnswersAgree, Insert, Live, TypeOK
  <2>7. LiveNonceKept'
    BY <2>1 DEF LiveNonceKept, Insert, Live, MapAgrees, DraftsAreFresh
  <2>8. SweptToWindow'
    BY DEF SweptToWindow, Insert, Live, MapAgrees
  <2>9. QED
    BY <2>2, <2>3, <2>4, <2>5, <2>6, <2>7, <2>8
<1>4. ASSUME NEW n \in Nonces, ConsumeUnknown(n)
      PROVE  NonceInv'
  BY <1>4 DEF ConsumeUnknown, Answer, TypeOK, DraftsAreFresh, MapAgrees,
     AcceptedWereDelivered, AnswersAgree, LiveNonceKept, SweptToWindow,
     Delivered, NonceOutcome
<1>5. ASSUME NEW n \in Nonces, ConsumeExpired(n)
      PROVE  NonceInv'
  BY <1>5 DEF ConsumeExpired, Expired, Answer, TypeOK, DraftsAreFresh,
     MapAgrees, AcceptedWereDelivered, AnswersAgree, LiveNonceKept,
     SweptToWindow, Delivered, NonceOutcome
<1>6. ASSUME NEW n \in Nonces, ConsumeReused(n)
      PROVE  NonceInv'
  BY <1>6 DEF ConsumeReused, Expired, Answer, TypeOK, DraftsAreFresh,
     MapAgrees, AcceptedWereDelivered, AnswersAgree, LiveNonceKept,
     SweptToWindow, Delivered, NonceOutcome
<1>7. ASSUME NEW n \in Nonces, ConsumeValid(n)
      PROVE  NonceInv'
  <2> USE <1>7
  <2>1. n \in Delivered /\ Delivered' = Delivered
    BY DEF ConsumeValid, Answer, MapAgrees, DraftsAreFresh, Delivered
  <2>2. TypeOK'
    <3>1. accepted' \in [Nonces -> Nat]
      BY DEF ConsumeValid, TypeOK
    <3>2. Burned(entries[n]) \in Entry
      BY DEF ConsumeValid, TypeOK, Burned, Entry
    <3>3. QED
      BY <3>1, <3>2 DEF TypeOK, ConsumeValid, Answer, NonceOutcome
  <2>3. DraftsAreFresh' /\ MapAgrees'
    BY <2>1 DEF DraftsAreFresh, MapAgrees, ConsumeValid, Burned, Answer,
       Delivered, TypeOK, Entry
  <2>4. AcceptedWereDelivered' /\ AnswersAgree'
    BY <2>1 DEF AcceptedWereDelivered, AnswersAgree, ConsumeValid, Burned,
       Answer, TypeOK
  <2>5. LiveNonceKept' /\ SweptToWindow'
    BY <2>1, <2>3 DEF LiveNonceKept, MapAgrees, SweptToWindow, ConsumeValid,
       Burned, Answer, TypeOK, Entry
  <2>6. QED
    BY <2>2, <2>3, <2>4, <2>5
<1>8. CASE UNCHANGED vars
  BY <1>8 DEF vars, TypeOK, DraftsAreFresh, MapAgrees,
     AcceptedWereDelivered, AnswersAgree, LiveNonceKept, SweptToWindow,
     Delivered
<1>9. QED
  BY <1>1, <1>2, <1>3, <1>4, <1>5, <1>6, <1>7, <1>8 DEF Next

\* Every reachable state of the store satisfies NonceInv.
THEOREM NonceInvariant == Spec => []NonceInv
<1>1. QED
  BY InitNonceInv, NextNonceInv, PTL DEF Spec

\* No sweep costs a caller a nonce whose lifetime still runs.
THEOREM LiveNoncesAreKept == Spec => []LiveNonceKept
<1>1. NonceInv => LiveNonceKept
  BY DEF NonceInv
<1>2. QED
  BY <1>1, NonceInvariant, PTL

\* The map holds nothing that was already expired at the last sweep, apart
\* from the entry that sweep made room for.
THEOREM MapIsSweptToTheWindow == Spec => []SweptToWindow
<1>1. NonceInv => SweptToWindow
  BY DEF NonceInv
<1>2. QED
  BY <1>1, NonceInvariant, PTL

---------------------------------------------------------------------------
\* The answers to the holder of a nonce never move backwards.
THEOREM AnswersNeverGoBack == Spec => AnswersMoveForward
<1>1. ASSUME NonceInv, [Next]_vars
      PROVE  \A n \in Nonces : Rank[verdict[n]] <= Rank[verdict'[n]]
  <2> SUFFICES ASSUME NEW n \in Nonces
               PROVE  Rank[verdict[n]] <= Rank[verdict'[n]]
    OBVIOUS
  <2> USE <1>1 DEF NonceInv
  <2>1. verdict[n] \in {"none", "Valid", "Reused", "Expired", "Unknown"}
    BY DEF TypeOK, NonceOutcome
  <2>2. CASE verdict' = verdict
    BY <2>1, <2>2 DEF Rank
  <2>3. ASSUME NEW m \in Nonces, ConsumeUnknown(m)
        PROVE  Rank[verdict[n]] <= Rank[verdict'[n]]
    BY <2>1, <2>3 DEF ConsumeUnknown, Answer, Rank, TypeOK
  <2>4. ASSUME NEW m \in Nonces, ConsumeExpired(m)
        PROVE  Rank[verdict[n]] <= Rank[verdict'[n]]
    BY <2>1, <2>4 DEF ConsumeExpired, Answer, Rank, TypeOK, AnswersAgree
  <2>5. ASSUME NEW m \in Nonces, ConsumeReused(m)
        PROVE  Rank[verdict[n]] <= Rank[verdict'[n]]
    BY <2>1, <2>5 DEF ConsumeReused, Expired, Answer, Rank, TypeOK,
       AnswersAgree, MapAgrees, Entry
  <2>6. ASSUME NEW m \in Nonces, ConsumeValid(m)
        PROVE  Rank[verdict[n]] <= Rank[verdict'[n]]
    BY <2>1, <2>6 DEF ConsumeValid, Expired, Answer, Rank, TypeOK,
       AnswersAgree, MapAgrees, Entry
  <2>7. QED
    BY <2>2, <2>3, <2>4, <2>5, <2>6
       DEF Next, Tick, Generate, Insert, vars
<1>2. QED
  BY <1>1, NonceInvariant, PTL DEF Spec, AnswersMoveForward

---------------------------------------------------------------------------
\* The store implements the one-time promise: each of its steps is a step of
\* OneTimeNonce on the caller's view, or leaves that view alone.
THEOREM StoreIsOneTime == Spec => OneTime
<1>1. Init => Promise!Init
  BY DEF Init, Promise!Init, Delivered, Nothing
<1>2. ASSUME NonceInv, [Next]_vars
      PROVE  [Promise!Next]_(Promise!vars)
  <2> USE <1>2 DEF NonceInv
  <2>1. CASE Tick
    BY <2>1 DEF Tick, Delivered, TypeOK, Promise!Next, Promise!Pass
  <2>2. ASSUME NEW n \in Nonces, NEW ttl \in TTLs, Generate(n, ttl)
        PROVE  UNCHANGED Promise!vars
    <3>1. n \notin Delivered /\ Delivered' = Delivered
      BY <2>2, GenerateDelivers
    <3>2. \A m \in Delivered : expiry'[m] = expiry[m]
      BY <2>2, <3>1 DEF Generate, Delivered
    <3>3. QED
      BY <2>2, <3>1, <3>2 DEF Generate, Promise!vars
  <2>3. ASSUME NEW d \in drafts, Insert(d)
        PROVE  Promise!Next
    <3>1. /\ d.nonce \in Nonces
          /\ d.nonce \notin Delivered
          /\ Delivered' = Delivered \cup {d.nonce}
      BY <2>3, InsertDelivers
    <3>2. expiry[d.nonce] \in Nat
      BY DEF DraftsAreFresh, TypeOK
    <3>3. Promise!HandOut(d.nonce)
      BY <2>3, <3>1, <3>2 DEF Insert, Promise!HandOut
    <3>4. QED
      BY <3>1, <3>3 DEF Promise!Next
  <2>4. ASSUME NEW n \in Nonces, ConsumeValid(n)
        PROVE  Promise!Next
    <3>1. n \in Delivered /\ accepted[n] = 0
      BY <2>4 DEF ConsumeValid, MapAgrees, DraftsAreFresh, Delivered
    <3>2. now < expiry[n]
      BY <2>4 DEF ConsumeValid, Expired, MapAgrees, TypeOK, Entry
    <3>3. Promise!Honour(n)
      BY <2>4, <3>1, <3>2
         DEF ConsumeValid, Answer, Delivered, Promise!Honour
    <3>4. QED
      BY <3>3 DEF Promise!Next
  <2>5. ASSUME NEW n \in Nonces,
               ConsumeUnknown(n) \/ ConsumeExpired(n) \/ ConsumeReused(n)
        PROVE  UNCHANGED Promise!vars
    BY <2>5 DEF ConsumeUnknown, ConsumeExpired, ConsumeReused, Answer,
       Delivered, Promise!vars
  <2>6. CASE UNCHANGED vars
    BY <2>6 DEF vars, Delivered, Promise!vars
  <2>7. QED
    BY <2>1, <2>2, <2>3, <2>4, <2>5, <2>6 DEF Next
<1>3. QED
  BY <1>1, <1>2, NonceInvariant, PTL DEF Spec, OneTime, Promise!Spec

---------------------------------------------------------------------------
\* The service.

\* The nonce store and the library, as far as the joint properties need them.
Inductive ==
    /\ NonceInv
    /\ ServerInv
    /\ clock \in Nat
    /\ IsFiniteSet(DOMAIN posts)

\* A configuration gives the stores' parameters the values they assume.
LEMMA SettingsTyped ==
  ASSUME config \in Configs
  PROVE  Settings.nonce_ttl \in TTLs /\ Settings.ts_skew \in Nat
  BY ServerAssumption DEF Settings

---------------------------------------------------------------------------
\* Every step of the service is a step of the nonce store, or none.
LEMMA StepOfNonceStore ==
  ASSUME config \in Configs, [ServerNext]_serverVars
  PROVE  [Next]_vars
<1>1. CASE Challenge
  BY <1>1, SettingsTyped DEF Challenge, Next
<1>2. ASSUME NEW n \in Nonces, IdentifyRejected(n)
      PROVE  Next
  BY <1>2 DEF IdentifyRejected, Next
<1>3. ASSUME NEW h \in Handlers, NEW n \in Nonces, NEW p \in Probes,
             NEW digest \in Digests, NEW ts \in Timestamps,
             IdentifyNonceSpent(h, n, p, digest, ts)
      PROVE  Next
  BY <1>3 DEF IdentifyNonceSpent, Spend, Next
<1>4. ASSUME NEW h \in Handlers,
             IdentifyStale(h) \/ IdentifyAdmitted(h) \/ IdentifyAnswered(h)
      PROVE  UNCHANGED vars
  BY <1>4 DEF IdentifyStale, IdentifyAdmitted, IdentifyAnswered, nonceStore, vars
<1>5. ASSUME NEW v \in Probes, NEW bearer \in Secrets, EraseVisitor(v, bearer)
      PROVE  UNCHANGED vars
  BY <1>5 DEF EraseVisitor, nonceStore, vars
<1>6. CASE Background
  BY <1>6 DEF Background, nonceStore, vars
<1>7. CASE UNCHANGED serverVars
  BY <1>7 DEF serverVars, nonceStore, vars
<1>8. QED
  BY <1>1, <1>2, <1>3, <1>4, <1>5, <1>6, <1>7 DEF ServerNext

\* Every step of the service is a step of the library, or none.
LEMMA StepOfLibrary ==
  ASSUME ServerTypeOK, [ServerNext]_serverVars
  PROVE  [Library!Next]_(Library!vars)
<1>1. CASE Challenge \/ UNCHANGED serverVars
  BY <1>1 DEF Challenge, serverVars, matcher, Library!vars
<1>2. ASSUME NEW n \in Nonces, IdentifyRejected(n)
      PROVE  UNCHANGED matcher
  BY <1>2 DEF IdentifyRejected
<1>3. ASSUME NEW h \in Handlers, NEW n \in Nonces, NEW p \in Probes,
             NEW digest \in Digests, NEW ts \in Timestamps,
             IdentifyNonceSpent(h, n, p, digest, ts)
      PROVE  UNCHANGED matcher
  BY <1>3 DEF IdentifyNonceSpent
<1>4. ASSUME NEW h \in Handlers, IdentifyStale(h)
      PROVE  UNCHANGED matcher
  BY <1>4 DEF IdentifyStale
<1>5. ASSUME NEW h \in Handlers, IdentifyAdmitted(h)
      PROVE  Library!Next
  <2>1. posts[h].probe \in Probes
    BY <1>5 DEF IdentifyAdmitted, ServerTypeOK
  <2>2. QED
    BY <1>5, <2>1 DEF IdentifyAdmitted, Library!Next
<1>6. ASSUME NEW h \in Handlers, IdentifyAnswered(h)
      PROVE  Library!Next
  BY <1>6 DEF IdentifyAnswered, Library!Next
<1>7. ASSUME NEW v \in Probes, NEW bearer \in Secrets, EraseVisitor(v, bearer)
      PROVE  Library!Next
  BY <1>7 DEF EraseVisitor, Library!Next
<1>8. CASE Background
  BY <1>8 DEF Background, Library!Next
<1>9. QED
  BY <1>1, <1>2, <1>3, <1>4, <1>5, <1>6, <1>7, <1>8
     DEF ServerNext, serverVars, matcher, Library!vars

---------------------------------------------------------------------------
\* A handler that takes up a post holds one more of its nonce, and of no other.
LEMMA PostTaken ==
  ASSUME IsFiniteSet(DOMAIN posts), NEW h, h \notin DOMAIN posts,
         NEW r, posts' = [g \in DOMAIN posts \cup {h} |->
                             IF g # h THEN posts[g] ELSE r],
         NEW m
  PROVE  /\ IsFiniteSet(DOMAIN posts')
         /\ Cardinality(Carrying(m)) \in Nat
         /\ Cardinality(Carrying(m)')
               = Cardinality(Carrying(m)) + (IF r.nonce = m THEN 1 ELSE 0)
<1>1. IsFiniteSet(DOMAIN posts')
  BY FS_AddElement
<1>2. IsFiniteSet(Carrying(m)) /\ h \notin Carrying(m)
  BY FS_Subset DEF Carrying
<1>3. Carrying(m)' = Carrying(m) \cup (IF r.nonce = m THEN {h} ELSE {})
  BY DEF Carrying
<1>4. Cardinality(Carrying(m)) \in Nat
  BY <1>2, FS_CardinalityType
<1>5. Cardinality(Carrying(m) \cup {h}) = Cardinality(Carrying(m)) + 1
  BY <1>2, FS_AddElement
<1>6. CASE r.nonce = m
  BY <1>1, <1>3, <1>4, <1>5, <1>6
<1>7. CASE r.nonce # m
  <2>1. Carrying(m)' = Carrying(m)
    BY <1>3, <1>7
  <2>2. QED
    BY <1>1, <1>4, <1>7, <2>1
<1>8. QED
  BY <1>6, <1>7

\* A handler whose check is over holds its nonce no more.
LEMMA PostDone ==
  ASSUME IsFiniteSet(DOMAIN posts), NEW h \in DOMAIN posts, Checked(h), NEW m
  PROVE  /\ IsFiniteSet(DOMAIN posts')
         /\ Cardinality(Carrying(m)) \in Nat
         /\ Cardinality(Carrying(m)') \in Nat
         /\ Cardinality(Carrying(m))
               = Cardinality(Carrying(m)') + (IF posts[h].nonce = m THEN 1 ELSE 0)
<1>1. DOMAIN posts' = DOMAIN posts \ {h} /\ IsFiniteSet(DOMAIN posts')
  BY FS_RemoveElement DEF Checked
<1>2. IsFiniteSet(Carrying(m)) /\ IsFiniteSet(Carrying(m)')
  BY <1>1, FS_Subset DEF Carrying
<1>3. Carrying(m)' = Carrying(m) \ {h} /\ h \notin Carrying(m)'
  BY <1>1 DEF Carrying, Checked
<1>4. Cardinality(Carrying(m)) \in Nat /\ Cardinality(Carrying(m)') \in Nat
  BY <1>2, FS_CardinalityType
<1>5. CASE posts[h].nonce = m
  <2>1. Carrying(m) = Carrying(m)' \cup {h}
    BY <1>3, <1>5 DEF Carrying
  <2>2. Cardinality(Carrying(m)' \cup {h}) = Cardinality(Carrying(m)') + 1
    BY <1>2, <1>3, FS_AddElement
  <2>3. QED
    BY <1>1, <1>4, <1>5, <2>1, <2>2
<1>6. CASE posts[h].nonce # m
  <2>1. Carrying(m)' = Carrying(m)
    BY <1>3, <1>6 DEF Carrying
  <2>2. QED
    BY <1>1, <1>4, <1>6, <2>1
<1>7. QED
  BY <1>5, <1>6

\* A nonce is accepted once: the store answers Valid only to one it has not.
LEMMA SpendOnce ==
  ASSUME NonceInv, NEW n \in Nonces, Spend(n)
  PROVE  /\ accepted[n] = 0
         /\ accepted' = [accepted EXCEPT ![n] = 1]
<1>1. n \in DOMAIN entries /\ ~entries[n].used /\ accepted' = [accepted EXCEPT ![n] = @ + 1]
  BY DEF Spend, ConsumeValid
<1>2. accepted[n] = 0
  BY <1>1 DEF NonceInv, MapAgrees
<1>3. QED
  BY <1>1, <1>2

\* A service that has just started satisfies the whole invariant.
LEMMA InitInductive == ServerInit => Inductive
<1> SUFFICES ASSUME ServerInit PROVE Inductive
  OBVIOUS
<1>1. NonceInv
  BY InitNonceInv DEF ServerInit
<1>2. posts = [h \in {} |-> 0] /\ DOMAIN posts = {} /\ IsFiniteSet(DOMAIN posts)
  BY FS_EmptySet DEF ServerInit
<1>3. clock \in Nat /\ DOMAIN waiting = {}
  BY DEF ServerInit, Library!Init
<1>4. ServerTypeOK
  BY <1>2 DEF ServerInit, ServerTypeOK
<1>5. \A n \in Nonces : Carrying(n) = {} /\ Cardinality(Carrying(n)) = 0
  BY <1>2, FS_EmptySet DEF Carrying
<1>6. OneAttemptPerNonce
  <2>1. \A n \in Nonces : spoiled[n] = 0 /\ reached[n] = 0 /\ accepted[n] = 0
    BY DEF ServerInit, Init
  <2>2. ASSUME NEW n \in Nonces
        PROVE  /\ Cardinality(Carrying(n)) + spoiled[n] + reached[n] = accepted[n]
               /\ accepted[n] <= 1
    <3>1. Cardinality(Carrying(n)) = 0
      BY <1>5
    <3>2. QED
      BY <2>1, <3>1
  <2>3. QED
    BY <2>2 DEF OneAttemptPerNonce
<1>7. StampsInWindow
  BY DEF ServerInit, StampsInWindow
<1>8. QED
  BY <1>1, <1>2, <1>3, <1>4, <1>6, <1>7 DEF Inductive, ServerInv

\* A step that leaves the posts and the history alone and brings no request
\* to the engine keeps the invariant.
LEMMA Untouched ==
  ASSUME Inductive, NonceInv', UNCHANGED server, accepted' = accepted,
         clock' \in Nat, DOMAIN waiting' \subseteq DOMAIN waiting
  PROVE  Inductive'
<1> UNCHANGED <<config, posts, reached, spoiled, stamps>>
  BY DEF server, history
<1>1. ServerTypeOK' /\ IsFiniteSet(DOMAIN posts')
  BY DEF Inductive, ServerInv, ServerTypeOK
<1>2. OneAttemptPerNonce' /\ StampsInWindow'
  BY DEF Inductive, ServerInv, OneAttemptPerNonce, Carrying, StampsInWindow, Settings
<1>3. QED
  BY <1>1, <1>2 DEF Inductive, ServerInv

\* A spent nonce is either spoiled at once or carried by its request.
LEMMA SpentInductive ==
  ASSUME Inductive, NonceInv', NEW h \in Handlers, NEW n \in Nonces, NEW p \in Probes,
         NEW digest \in Digests, NEW ts \in Timestamps,
         IdentifyNonceSpent(h, n, p, digest, ts)
  PROVE  Inductive'
<1> DEFINE r == [nonce |-> n, probe |-> p, ts |-> ts]
<1>1. accepted[n] = 0 /\ accepted' = [accepted EXCEPT ![n] = 1]
  BY SpendOnce DEF IdentifyNonceSpent, Inductive
<1>2. UNCHANGED <<config, reached, stamps, clock, waiting>> /\ h \notin DOMAIN posts
      /\ h \notin DOMAIN waiting
  BY DEF IdentifyNonceSpent, Free, matcher
<1>3. accepted \in [Nonces -> Nat] /\ spoiled \in [Nonces -> Nat] /\ reached \in [Nonces -> Nat]
  BY DEF Inductive, NonceInv, TypeOK, ServerInv, ServerTypeOK
<1>4. StampsInWindow' /\ clock' \in Nat
  BY <1>2 DEF Inductive, ServerInv, StampsInWindow, Settings
<1>5. CASE ~Proven(digest)
  <2>1. spoiled' = [spoiled EXCEPT ![n] = @ + 1] /\ posts' = posts
    BY <1>5 DEF IdentifyNonceSpent, Spoil
  <2>2. ServerTypeOK' /\ IsFiniteSet(DOMAIN posts') /\ DOMAIN posts' \cap DOMAIN waiting' = {}
    BY <1>2, <1>3, <2>1 DEF Inductive, ServerInv, ServerTypeOK
  <2>3. ASSUME NEW m \in Nonces
        PROVE  /\ Cardinality(Carrying(m)') + spoiled'[m] + reached'[m] = accepted'[m]
               /\ accepted'[m] <= 1
    <3>1. Carrying(m)' = Carrying(m) /\ Cardinality(Carrying(m)) \in Nat
      BY <2>1, FS_Subset, FS_CardinalityType DEF Carrying, Inductive
    <3>2. /\ Cardinality(Carrying(m)) + spoiled[m] + reached[m] = accepted[m]
          /\ accepted[m] <= 1
      BY DEF Inductive, ServerInv, OneAttemptPerNonce
    <3>3. QED
      BY <1>1, <1>2, <1>3, <2>1, <3>1, <3>2
  <2>4. OneAttemptPerNonce'
    BY <2>3 DEF OneAttemptPerNonce
  <2>5. QED
    BY <1>4, <2>2, <2>4 DEF Inductive, ServerInv
<1>6. CASE Proven(digest)
  <2>1. /\ posts' = [g \in DOMAIN posts \cup {h} |-> IF g # h THEN posts[g] ELSE r]
        /\ spoiled' = spoiled
    BY <1>6 DEF IdentifyNonceSpent
  <2>2. /\ posts' \in [DOMAIN posts' -> [nonce : Nonces, probe : Probes, ts : Timestamps]]
        /\ DOMAIN posts' \subseteq Handlers
    BY <2>1 DEF Inductive, ServerInv, ServerTypeOK
  <2>3. ServerTypeOK' /\ DOMAIN posts' \cap DOMAIN waiting' = {}
    BY <1>2, <2>1, <2>2 DEF Inductive, ServerInv, ServerTypeOK
  <2>4. ASSUME NEW m \in Nonces
        PROVE  /\ IsFiniteSet(DOMAIN posts')
               /\ Cardinality(Carrying(m)') + spoiled'[m] + reached'[m] = accepted'[m]
               /\ accepted'[m] <= 1
    <3>1. /\ IsFiniteSet(DOMAIN posts')
          /\ Cardinality(Carrying(m)) \in Nat
          /\ Cardinality(Carrying(m)')
                = Cardinality(Carrying(m)) + (IF r.nonce = m THEN 1 ELSE 0)
      <4> HIDE DEF r
      <4> QED BY <1>2, <2>1, PostTaken DEF Inductive
    <3>2. /\ Cardinality(Carrying(m)) + spoiled[m] + reached[m] = accepted[m]
          /\ accepted[m] <= 1
      BY DEF Inductive, ServerInv, OneAttemptPerNonce
    <3>3. QED
      BY <1>1, <1>2, <1>3, <2>1, <3>1, <3>2
  <2>5. OneAttemptPerNonce' /\ IsFiniteSet(DOMAIN posts')
    BY <2>4 DEF OneAttemptPerNonce
  <2>6. QED
    BY <1>4, <2>3, <2>5 DEF Inductive, ServerInv
<1>7. QED
  BY <1>5, <1>6

\* The check of a post over, its nonce has been spoiled or has reached the engine.
LEMMA CheckedInductive ==
  ASSUME Inductive, NonceInv', NEW h \in Handlers, IdentifyStale(h) \/ IdentifyAdmitted(h)
  PROVE  Inductive'
<1> DEFINE n == posts[h].nonce
<1>1. /\ h \in DOMAIN posts /\ Checked(h)
      /\ UNCHANGED <<config, accepted, clock>>
      /\ n \in Nonces /\ posts[h].ts \in Timestamps
  BY DEF IdentifyStale, IdentifyAdmitted, nonceStore, matcher, Inductive, ServerInv,
         ServerTypeOK, Library!Arrive
<1>2. accepted \in [Nonces -> Nat] /\ spoiled \in [Nonces -> Nat] /\ reached \in [Nonces -> Nat]
  BY DEF Inductive, NonceInv, TypeOK, ServerInv, ServerTypeOK
<1>3. clock \in Nat /\ MaxTime \in Nat /\ Settings.ts_skew \in Nat /\ Settings' = Settings
  BY <1>1, NonceAssumption, SettingsTyped DEF Inductive, ServerInv, ServerTypeOK, Settings
<1>4. DOMAIN posts' \subseteq DOMAIN posts \ {h}
      /\ posts' \in [DOMAIN posts' -> [nonce : Nonces, probe : Probes, ts : Timestamps]]
  BY <1>1 DEF Checked, Inductive, ServerInv, ServerTypeOK
<1>5. \/ spoiled' = [spoiled EXCEPT ![n] = @ + 1] /\ reached' = reached
      \/ reached' = [reached EXCEPT ![n] = @ + 1] /\ spoiled' = spoiled
  BY DEF IdentifyStale, IdentifyAdmitted, Spoil
<1>6. ASSUME NEW m \in Nonces
      PROVE  /\ IsFiniteSet(DOMAIN posts')
             /\ Cardinality(Carrying(m)') + spoiled'[m] + reached'[m] = accepted'[m]
             /\ accepted'[m] <= 1
  <2>1. /\ IsFiniteSet(DOMAIN posts')
        /\ Cardinality(Carrying(m)') \in Nat
        /\ Cardinality(Carrying(m)) = Cardinality(Carrying(m)') + (IF n = m THEN 1 ELSE 0)
    BY <1>1, PostDone DEF Inductive
  <2>2. /\ Cardinality(Carrying(m)) + spoiled[m] + reached[m] = accepted[m]
        /\ accepted[m] <= 1
    BY DEF Inductive, ServerInv, OneAttemptPerNonce
  <2>3. spoiled'[m] + reached'[m] = spoiled[m] + reached[m] + (IF n = m THEN 1 ELSE 0)
        /\ spoiled'[m] \in Nat /\ reached'[m] \in Nat
    <3> HIDE DEF n
    <3> QED BY <1>1, <1>2, <1>5
  <2>4. Cardinality(Carrying(m)') + spoiled'[m] + reached'[m]
            = Cardinality(Carrying(m)) + spoiled[m] + reached[m]
    <3> DEFINE one == IF n = m THEN 1 ELSE 0
    <3>1. one \in Nat /\ Cardinality(Carrying(m)') \in Nat
          /\ Cardinality(Carrying(m)) = Cardinality(Carrying(m)') + one
      BY <2>1
    <3>2. spoiled'[m] \in Nat /\ reached'[m] \in Nat
          /\ spoiled'[m] + reached'[m] = spoiled[m] + reached[m] + one
      BY <2>3
    <3>3. spoiled[m] \in Nat /\ reached[m] \in Nat
      BY <1>2
    <3> HIDE DEF one
    <3> QED BY <3>1, <3>2, <3>3
  <2>5. accepted' = accepted
    BY <1>1
  <2> HIDE DEF n
  <2>6. QED
    BY <2>1, <2>2, <2>4, <2>5
<1>7. OneAttemptPerNonce' /\ IsFiniteSet(DOMAIN posts')
  BY <1>1, <1>6 DEF OneAttemptPerNonce
<1>8. CASE IdentifyStale(h)
  <2>1. stamps' = stamps /\ waiting' = waiting
    BY <1>8 DEF IdentifyStale, matcher
  <2>2. ServerTypeOK'
    <3>1. spoiled' \in [Nonces -> Nat] /\ reached' \in [Nonces -> Nat]
      BY <1>2, <1>5
    <3>2. /\ config' = config /\ config \in Configs
          /\ DOMAIN posts \subseteq Handlers /\ stamps \subseteq [ts : Nat, at : Nat]
      BY <1>1 DEF Inductive, ServerInv, ServerTypeOK
    <3>3. DOMAIN posts' \subseteq Handlers
      BY <1>4, <3>2
    <3> QED BY <1>4, <2>1, <3>1, <3>2, <3>3 DEF ServerTypeOK
  <2>3. StampsInWindow' /\ DOMAIN posts' \cap DOMAIN waiting' = {}
    BY <1>1, <1>3, <1>4, <2>1 DEF Inductive, ServerInv, StampsInWindow
  <2>4. QED
    BY <1>1, <1>3, <1>7, <2>2, <2>3 DEF Inductive, ServerInv
<1>9. CASE IdentifyAdmitted(h)
  <2>1. /\ stamps' = stamps \cup {[ts |-> t, at |-> clock] : t \in posts[h].ts}
        /\ DOMAIN waiting' = DOMAIN waiting \cup {h}
        /\ Settings.enforce_ts_window => InWindow(posts[h].ts)
    BY <1>9 DEF IdentifyAdmitted, Library!Arrive, Admitted
  <2>2. \A t \in posts[h].ts : t \in Nat /\ posts[h].ts = {t}
    BY <1>1, <1>3 DEF Timestamps
  <2>3. stamps' \subseteq [ts : Nat, at : Nat]
    BY <1>3, <2>1, <2>2 DEF Inductive, ServerInv, ServerTypeOK
  <2>4. ServerTypeOK'
    BY <1>1, <1>2, <1>4, <1>5, <2>3 DEF Inductive, ServerInv, ServerTypeOK
  <2>5. Settings.enforce_ts_window =>
           \A t \in posts[h].ts : /\ clock <= t + Settings.ts_skew
                                  /\ t <= clock + Settings.ts_skew
    BY <2>1, <2>2 DEF InWindow
  <2>6. StampsInWindow'
    BY <1>3, <2>1, <2>5 DEF Inductive, ServerInv, StampsInWindow
  <2>7. DOMAIN posts' \cap DOMAIN waiting' = {}
    BY <1>4, <2>1 DEF Inductive, ServerInv
  <2>8. QED
    BY <1>1, <1>3, <1>7, <2>4, <2>6, <2>7 DEF Inductive, ServerInv
<1>10. QED
  BY <1>8, <1>9

\* The invariant is inductive.
LEMMA NextInductive == Inductive /\ [ServerNext]_serverVars => Inductive'
<1> SUFFICES ASSUME Inductive, [ServerNext]_serverVars PROVE Inductive'
  OBVIOUS
<1>1. NonceInv'
  BY StepOfNonceStore, NextNonceInv DEF Inductive, ServerInv, ServerTypeOK
<1>2. clock \in Nat
  BY DEF Inductive
<1>3. CASE Challenge \/ UNCHANGED serverVars
  <2>1. UNCHANGED <<matcher, server, accepted>>
    BY <1>3 DEF Challenge, Tick, Generate, Insert, serverVars, nonceStore
  <2>2. QED
    BY <1>1, <1>2, <2>1, Untouched DEF matcher
<1>4. ASSUME NEW n \in Nonces, IdentifyRejected(n)
      PROVE  Inductive'
  <2>1. UNCHANGED <<matcher, server, accepted>>
    BY <1>4 DEF IdentifyRejected, ConsumeUnknown, ConsumeExpired, ConsumeReused
  <2>2. QED
    BY <1>1, <1>2, <2>1, Untouched DEF matcher
<1>5. ASSUME NEW h \in Handlers, NEW n \in Nonces, NEW p \in Probes,
             NEW digest \in Digests, NEW ts \in Timestamps,
             IdentifyNonceSpent(h, n, p, digest, ts)
      PROVE  Inductive'
  BY <1>1, <1>5, SpentInductive
<1>6. ASSUME NEW h \in Handlers, IdentifyStale(h) \/ IdentifyAdmitted(h)
      PROVE  Inductive'
  BY <1>1, <1>6, CheckedInductive
<1>7. ASSUME NEW h \in Handlers, IdentifyAnswered(h)
      PROVE  Inductive'
  <2>1. UNCHANGED <<server, accepted, clock>>
    BY <1>7 DEF IdentifyAnswered, nonceStore, Library!IdentifyMatch,
                Library!IdentifyReview, Library!IdentifyNew
  <2>2. DOMAIN waiting' \subseteq DOMAIN waiting
    BY <1>7 DEF IdentifyAnswered, Library!IdentifyMatch, Library!IdentifyReview,
                Library!IdentifyNew, Library!Leave
  <2>3. QED
    BY <1>1, <1>2, <2>1, <2>2, Untouched
<1>8. ASSUME NEW v \in Probes, NEW bearer \in Secrets, EraseVisitor(v, bearer)
      PROVE  Inductive'
  <2>1. UNCHANGED <<server, accepted, clock, waiting>>
    BY <1>8 DEF EraseVisitor, nonceStore, Library!Erase
  <2>2. QED
    BY <1>1, <1>2, <2>1, Untouched
<1>9. CASE Background
  <2>1. UNCHANGED <<server, accepted, waiting>> /\ clock' \in Nat
    BY <1>2, <1>9 DEF Background, nonceStore, Library!Tick, Library!SweepTick, Library!Purge
  <2>2. QED
    BY <1>1, <2>1, Untouched
<1>10. QED
  BY <1>3, <1>4, <1>5, <1>6, <1>7, <1>8, <1>9 DEF ServerNext

---------------------------------------------------------------------------
\* The invariants of the store, of the library and of the service hold together.
LEMMA InductiveInvariant == ServerSpec => []Inductive
<1>1. QED
  BY InitInductive, NextInductive, PTL DEF ServerSpec

\* The service's own state keeps ServerInv.
THEOREM ServerInvariant == ServerSpec => []ServerInv
<1>1. Inductive => ServerInv
  BY DEF Inductive
<1>2. QED
  BY <1>1, InductiveInvariant, PTL

\* A nonce is worth one attempt: held, spoiled or spent on the engine, once.
THEOREM NoncesBuyOneAttempt == ServerSpec => []OneAttemptPerNonce
<1>1. Inductive => OneAttemptPerNonce
  BY DEF Inductive, ServerInv
<1>2. QED
  BY <1>1, InductiveInvariant, PTL

\* Two identifications of one captured timestamp are within twice the skew.
THEOREM ReplaysStayInTheWindow == ServerSpec => []ReplaysAreBounded
<1>1. Inductive => ReplaysAreBounded
  <2> SUFFICES ASSUME Inductive, Settings.enforce_ts_window,
                      NEW r \in stamps, NEW s \in stamps, r.ts = s.ts
               PROVE  r.at <= s.at + 2 * Settings.ts_skew
    BY DEF ReplaysAreBounded
  <2>1. Settings.ts_skew \in Nat
    BY SettingsTyped DEF Inductive, ServerInv, ServerTypeOK
  <2>2. r.at \in Nat /\ s.at \in Nat /\ r.ts \in Nat
    BY DEF Inductive, ServerInv, ServerTypeOK
  <2>3. r.at <= r.ts + Settings.ts_skew /\ s.ts <= s.at + Settings.ts_skew
    BY DEF Inductive, ServerInv, StampsInWindow
  <2>4. QED
    BY <2>1, <2>2, <2>3
<1>2. QED
  BY <1>1, InductiveInvariant, PTL

\* An empty key neither lets anybody erase nor refuses anybody.
THEOREM EmptyKeysAreNoKeys == ServerSpec => []EmptyKeysOpenNothing
<1>1. ServerInit => EmptyKeysOpenNothing
  BY DEF ServerInit, Library!Init, EmptyKeysOpenNothing
<1>2. ASSUME Inductive, EmptyKeysOpenNothing, [ServerNext]_serverVars
      PROVE  EmptyKeysOpenNothing'
  <2> USE <1>2 DEF EmptyKeysOpenNothing
  <2>0. spoiled \in [Nonces -> Nat]
    BY DEF Inductive, ServerInv, ServerTypeOK
  <2>1. CASE Challenge \/ UNCHANGED serverVars
    BY <2>1 DEF Challenge, serverVars, matcher, server, history
  <2>2. ASSUME NEW n \in Nonces, IdentifyRejected(n)
        PROVE  EmptyKeysOpenNothing'
    BY <2>2 DEF IdentifyRejected, matcher, server, history
  <2>3. ASSUME NEW h \in Handlers, NEW n \in Nonces, NEW p \in Probes,
               NEW digest \in Digests, NEW ts \in Timestamps,
               IdentifyNonceSpent(h, n, p, digest, ts)
        PROVE  EmptyKeysOpenNothing'
    <3>1. UNCHANGED <<erased, config>>
      BY <2>3 DEF IdentifyNonceSpent, matcher
    <3>2. CASE ~Proven(digest)
      <4>1. Provisioned(config.probe_key)
        BY <3>2 DEF Proven, Settings, FromConfig, Configured, Provisioned
      <4>2. QED
        BY <3>1, <4>1
    <3>3. CASE Proven(digest)
      BY <2>3, <3>1, <3>3 DEF IdentifyNonceSpent
    <3>4. QED
      BY <3>2, <3>3
  <2>4. ASSUME NEW h \in Handlers, IdentifyStale(h)
        PROVE  EmptyKeysOpenNothing'
    <3>1. config.enforce_ts_window
      BY <2>4 DEF IdentifyStale, Admitted, Settings, FromConfig
    <3>2. QED
      BY <2>4, <3>1 DEF IdentifyStale, matcher
  <2>5. ASSUME NEW h \in Handlers, IdentifyAdmitted(h) \/ IdentifyAnswered(h)
        PROVE  EmptyKeysOpenNothing'
    <3>1. UNCHANGED <<spoiled, config>> /\ erased' \subseteq erased
      BY <2>5 DEF IdentifyAdmitted, IdentifyAnswered, Library!Arrive, Library!library,
                  Library!IdentifyMatch, Library!IdentifyReview, Library!IdentifyNew,
                  server, history
    <3>2. QED
      BY <3>1
  <2>6. ASSUME NEW v \in Probes, NEW bearer \in Secrets, EraseVisitor(v, bearer)
        PROVE  EmptyKeysOpenNothing'
    <3>1. Provisioned(config.admin_key)
      BY <2>6 DEF EraseVisitor, Settings, FromConfig, Configured, Provisioned
    <3>2. QED
      BY <2>6, <3>1 DEF EraseVisitor, server, history
  <2>7. CASE Background
    BY <2>7 DEF Background, Library!Tick, Library!SweepTick, Library!Purge,
                Library!library, server, history
  <2>8. QED
    BY <2>1, <2>2, <2>3, <2>4, <2>5, <2>6, <2>7 DEF ServerNext
<1>3. QED
  BY <1>1, <1>2, InductiveInvariant, PTL DEF ServerSpec

---------------------------------------------------------------------------
\* What the library holds was paid for in nonces.

\* One observation adds at most one to its visitor's count, and to no other's.
LEMMA ObservedCounts ==
  ASSUME NEW recs, NEW v, NEW c, NEW t, NEW after \in Library!Observed(recs, v, c, t)
  PROVE  /\ DOMAIN after \subseteq DOMAIN recs \cup {v}
         /\ \A w \in DOMAIN after \ {v} : after[w] = recs[w]
         /\ v \in DOMAIN after =>
               after[v].observation_count
                   = IF v \in DOMAIN recs THEN recs[v].observation_count + 1 ELSE 1
<1> DEFINE up == Library!Upsert(recs, v, c, t)
           live == Library!AfterTTL(up, t)
<1>1. /\ DOMAIN up = DOMAIN recs \cup {v}
      /\ \A w \in DOMAIN recs \ {v} : up[w] = recs[w]
      /\ up[v].observation_count
            = IF v \in DOMAIN recs THEN recs[v].observation_count + 1 ELSE 1
  BY DEF Library!Upsert, Library!Refreshed, Library!Born
<1>2. PICK out \in Library!CapVictims(live, v) :
         after = Library!Keep(live, DOMAIN live \ out)
  BY DEF Library!Observed
<1> HIDE DEF up
<1>3. /\ DOMAIN live \subseteq DOMAIN up
      /\ \A w \in DOMAIN live : live[w] = up[w]
  BY DEF Library!AfterTTL, Library!Keep
<1> HIDE DEF live
<1>4. /\ DOMAIN after \subseteq DOMAIN live
      /\ \A w \in DOMAIN after : after[w] = live[w]
  BY <1>2 DEF Library!Keep
<1>5. /\ DOMAIN after \subseteq DOMAIN up
      /\ \A w \in DOMAIN after : after[w] = up[w]
  BY <1>3, <1>4
<1> QED BY <1>1, <1>5

\* What is on record, pair by pair.
LEMMA OnRecordPairs ==
  ASSUME NEW v, NEW i
  PROVE  <<v, i>> \in OnRecord
            <=> v \in DOMAIN records /\ i \in 1 .. records[v].observation_count
  BY DEF OnRecord

\* A record made anew by an observation leaves at most one more on record.
LEMMA ObservedOnRecord ==
  ASSUME Counted, NEW v, NEW c, NEW t, records' \in Library!Observed(records, v, c, t)
  PROVE  /\ Counted'
         /\ \E e : OnRecord' \subseteq OnRecord \cup {e}
<1> DEFINE new == IF v \in DOMAIN records THEN records[v].observation_count + 1 ELSE 1
<1>1. /\ DOMAIN records' \subseteq DOMAIN records \cup {v}
      /\ \A w \in DOMAIN records' \ {v} : records'[w] = records[w]
      /\ v \in DOMAIN records' => records'[v].observation_count = new
  BY ObservedCounts
<1>2. new \in Nat
  BY DEF Counted
<1>3. \A w \in DOMAIN records' : records'[w].observation_count \in Nat
  <2> HIDE DEF new
  <2>1. \A w \in DOMAIN records : records[w].observation_count \in Nat
    BY DEF Counted
  <2> QED BY <1>1, <1>2, <2>1
<1>4. ASSUME NEW w \in DOMAIN records', NEW i \in 1 .. records'[w].observation_count
      PROVE  <<w, i>> \in OnRecord \cup {<<v, new>>}
  <2>1. CASE w # v
    BY <1>1, <1>4, <2>1, OnRecordPairs
  <2>2. CASE w = v
    <3>1. i \in 1 .. new
      BY <1>1, <1>4, <2>2
    <3>2. CASE i = new
      BY <2>2, <3>2
    <3>3. CASE i # new
      <4>1. v \in DOMAIN records /\ i \in 1 .. records[v].observation_count
        BY <3>1, <3>3 DEF Counted
      <4> QED BY <2>2, <4>1, OnRecordPairs
    <3> QED BY <3>2, <3>3
  <2> QED BY <2>1, <2>2
<1> HIDE DEF new
<1>5. OnRecord' \subseteq OnRecord \cup {<<v, new>>}
  BY <1>4 DEF OnRecord
<1> QED BY <1>3, <1>5 DEF Counted

\* Keeping some of the records leaves nothing new on record.
LEMMA KeptOnRecord ==
  ASSUME Counted, NEW kept, kept \subseteq DOMAIN records,
         records' = Library!Keep(records, kept)
  PROVE  Counted' /\ OnRecord' \subseteq OnRecord
<1>1. /\ DOMAIN records' = kept
      /\ \A w \in kept : records'[w] = records[w]
  BY DEF Library!Keep
<1> QED BY <1>1 DEF Counted, OnRecord

\* Whatever a step adds on record, to the queue or to the posts has left the queue,
\* the posts, or is paid for by the step itself.
LEMMA PaidStep ==
  ASSUME PaidInv, IsFiniteSet(DOMAIN posts), Counted', IsFiniteSet(OnRecord'),
         IsFiniteSet(DOMAIN waiting'), IsFiniteSet(DOMAIN posts'), IsFiniteSet(Accepted'),
         NEW o \in Int, NEW w \in Int, NEW p \in Int, NEW a \in Int, o + w + p <= a,
         Cardinality(OnRecord') <= Cardinality(OnRecord) + o,
         Cardinality(DOMAIN waiting') <= Cardinality(DOMAIN waiting) + w,
         Cardinality(DOMAIN posts') <= Cardinality(DOMAIN posts) + p,
         Cardinality(Accepted') >= Cardinality(Accepted) + a
  PROVE  PaidInv'
<1>1. /\ Cardinality(OnRecord) \in Nat /\ Cardinality(OnRecord') \in Nat
      /\ Cardinality(DOMAIN waiting) \in Nat /\ Cardinality(DOMAIN waiting') \in Nat
      /\ Cardinality(DOMAIN posts) \in Nat /\ Cardinality(DOMAIN posts') \in Nat
      /\ Cardinality(Accepted) \in Nat /\ Cardinality(Accepted') \in Nat
  BY FS_CardinalityType DEF PaidInv
<1>2. Cardinality(OnRecord) + Cardinality(DOMAIN waiting) + Cardinality(DOMAIN posts)
         <= Cardinality(Accepted)
  BY DEF PaidInv, ObservationsArePaidFor
<1>3. Cardinality(OnRecord') + Cardinality(DOMAIN waiting') + Cardinality(DOMAIN posts')
         <= Cardinality(Accepted')
  BY <1>1, <1>2
<1> QED BY <1>3 DEF PaidInv, ObservationsArePaidFor, Counted

\* A set with at most one element more has at most one more.
LEMMA AtMostOneMore ==
  ASSUME NEW S, IsFiniteSet(S), NEW e, NEW T, T \subseteq S \cup {e}
  PROVE  IsFiniteSet(T) /\ Cardinality(T) <= Cardinality(S) + 1
<1>1. IsFiniteSet(S \cup {e}) /\ Cardinality(S) \in Nat
      /\ Cardinality(S \cup {e}) <= Cardinality(S) + 1
  BY FS_AddElement, FS_CardinalityType
<1>2. IsFiniteSet(T) /\ Cardinality(T) <= Cardinality(S \cup {e})
      /\ Cardinality(T) \in Nat /\ Cardinality(S \cup {e}) \in Nat
  BY <1>1, FS_Subset, FS_CardinalityType
<1> QED BY <1>1, <1>2

\* A subset has no more.
LEMMA NoMore ==
  ASSUME NEW S, IsFiniteSet(S), NEW T, T \subseteq S
  PROVE  IsFiniteSet(T) /\ Cardinality(T) <= Cardinality(S) + 0
<1>1. IsFiniteSet(T) /\ Cardinality(T) <= Cardinality(S)
      /\ Cardinality(S) \in Nat /\ Cardinality(T) \in Nat
  BY FS_Subset, FS_CardinalityType
<1> QED BY <1>1

\* Nothing has been paid for at the start, and nothing is owed.
LEMMA InitPaid == ServerInit => PaidInv
<1> SUFFICES ASSUME ServerInit PROVE PaidInv
  OBVIOUS
<1>1. DOMAIN records = {} /\ DOMAIN waiting = {} /\ DOMAIN posts = {}
  BY DEF ServerInit, Library!Init, Library!NoRecords
<1>2. OnRecord = {} /\ Counted
  BY <1>1 DEF OnRecord, Counted
<1>3. Accepted = {}
  BY DEF ServerInit, Init, Accepted
<1> QED BY <1>1, <1>2, <1>3, FS_EmptySet DEF PaidInv, ObservationsArePaidFor

\* A step that only takes records away, or none, leaves the account as it was.
LEMMA PaidAlready ==
  ASSUME PaidInv, IsFiniteSet(DOMAIN posts), Counted',
         OnRecord' \subseteq OnRecord, DOMAIN waiting' \subseteq DOMAIN waiting,
         DOMAIN posts' \subseteq DOMAIN posts, accepted' = accepted
  PROVE  PaidInv'
<1>1. /\ IsFiniteSet(OnRecord')
      /\ Cardinality(OnRecord') <= Cardinality(OnRecord) + 0
  BY NoMore DEF PaidInv
<1>2. /\ IsFiniteSet(DOMAIN waiting')
      /\ Cardinality(DOMAIN waiting') <= Cardinality(DOMAIN waiting) + 0
  BY NoMore DEF PaidInv
<1>3. /\ IsFiniteSet(DOMAIN posts')
      /\ Cardinality(DOMAIN posts') <= Cardinality(DOMAIN posts) + 0
  BY NoMore
<1>4. /\ IsFiniteSet(Accepted')
      /\ Cardinality(Accepted') >= Cardinality(Accepted) + 0
  <2>1. Accepted' = Accepted
    BY DEF Accepted
  <2>2. Cardinality(Accepted) \in Nat
    BY FS_CardinalityType DEF PaidInv
  <2> QED BY <2>1, <2>2 DEF PaidInv
<1> QED BY <1>1, <1>2, <1>3, <1>4, PaidStep

\* The records as they were.
LEMMA SameRecords ==
  ASSUME Counted, records' = records
  PROVE  Counted' /\ OnRecord' \subseteq OnRecord
  BY DEF Counted, OnRecord

\* A nonce spent pays for the post it becomes.
LEMMA SpentIsPaid ==
  ASSUME Inductive, PaidInv, NEW h \in Handlers, NEW n \in Nonces, NEW p \in Probes,
         NEW digest \in Digests, NEW ts \in Timestamps,
         IdentifyNonceSpent(h, n, p, digest, ts)
  PROVE  PaidInv'
<1>1. accepted[n] = 0 /\ accepted' = [accepted EXCEPT ![n] = 1]
  BY SpendOnce DEF IdentifyNonceSpent, Inductive
<1>2. UNCHANGED <<waiting, records>>
  BY DEF IdentifyNonceSpent, matcher
<1>3. DOMAIN posts' \subseteq DOMAIN posts \cup {h}
  BY DEF IdentifyNonceSpent
<1>4. /\ IsFiniteSet(DOMAIN posts')
      /\ Cardinality(DOMAIN posts') <= Cardinality(DOMAIN posts) + 1
  BY <1>3, AtMostOneMore DEF Inductive
<1>5. /\ IsFiniteSet(Accepted')
      /\ Cardinality(Accepted') >= Cardinality(Accepted) + 1
  <2>1. accepted \in [Nonces -> Nat]
    BY DEF Inductive, NonceInv, TypeOK
  <2>2. n \notin Accepted /\ Accepted' = Accepted \cup {n}
    BY <1>1, <2>1 DEF Accepted
  <2>3. IsFiniteSet(Accepted)
    BY DEF PaidInv
  <2>4. /\ IsFiniteSet(Accepted \cup {n})
        /\ Cardinality(Accepted \cup {n}) = Cardinality(Accepted) + 1
        /\ Cardinality(Accepted) \in Nat
    BY <2>2, <2>3, FS_AddElement, FS_CardinalityType
  <2> QED BY <2>2, <2>4
<1>6. /\ Counted' /\ IsFiniteSet(OnRecord')
      /\ Cardinality(OnRecord') <= Cardinality(OnRecord) + 0
  BY <1>2, SameRecords, NoMore DEF PaidInv
<1>7. /\ IsFiniteSet(DOMAIN waiting')
      /\ Cardinality(DOMAIN waiting') <= Cardinality(DOMAIN waiting) + 0
  BY <1>2, NoMore DEF PaidInv
<1> QED BY <1>4, <1>5, <1>6, <1>7, PaidStep DEF Inductive

\* A set with one element fewer has one fewer.
LEMMA OneFewer ==
  ASSUME NEW S, IsFiniteSet(S), NEW e \in S, NEW T, T = S \ {e}
  PROVE  IsFiniteSet(T) /\ Cardinality(T) <= Cardinality(S) + (-1)
<1>1. /\ IsFiniteSet(T) /\ Cardinality(T) = Cardinality(S) - 1
      /\ Cardinality(S) \in Nat
  BY FS_RemoveElement, FS_CardinalityType
<1> QED BY <1>1

\* A post admitted takes its place in the queue.
LEMMA AdmittedIsPaid ==
  ASSUME Inductive, PaidInv, NEW h \in Handlers, IdentifyAdmitted(h)
  PROVE  PaidInv'
<1>1. /\ h \in DOMAIN posts /\ DOMAIN posts' = DOMAIN posts \ {h}
      /\ DOMAIN waiting' = DOMAIN waiting \cup {h}
      /\ UNCHANGED <<accepted, records>>
  BY DEF IdentifyAdmitted, Checked, nonceStore, Library!Arrive, Library!library
<1>2. /\ IsFiniteSet(DOMAIN posts')
      /\ Cardinality(DOMAIN posts') <= Cardinality(DOMAIN posts) + (-1)
  BY <1>1, OneFewer DEF Inductive
<1>3. /\ IsFiniteSet(DOMAIN waiting')
      /\ Cardinality(DOMAIN waiting') <= Cardinality(DOMAIN waiting) + 1
  BY <1>1, AtMostOneMore DEF PaidInv
<1>4. /\ Counted' /\ IsFiniteSet(OnRecord')
      /\ Cardinality(OnRecord') <= Cardinality(OnRecord) + 0
  BY <1>1, SameRecords, NoMore DEF PaidInv
<1>5. /\ IsFiniteSet(Accepted')
      /\ Cardinality(Accepted') >= Cardinality(Accepted) + 0
  <2>1. Accepted' = Accepted
    BY <1>1 DEF Accepted
  <2>2. Cardinality(Accepted) \in Nat
    BY FS_CardinalityType DEF PaidInv
  <2> QED BY <2>1, <2>2 DEF PaidInv
<1> QED BY <1>2, <1>3, <1>4, <1>5, PaidStep DEF Inductive

\* An answer that observes takes its place on record; a review's leaves nothing.
LEMMA AnsweredIsPaid ==
  ASSUME Inductive, PaidInv, NEW h \in Handlers, IdentifyAnswered(h)
  PROVE  PaidInv'
<1>1. UNCHANGED <<posts, accepted>>
  BY DEF IdentifyAnswered, nonceStore, server
<1>2. h \in DOMAIN waiting /\ DOMAIN waiting' = DOMAIN waiting \ {h}
  BY DEF IdentifyAnswered, Library!IdentifyMatch, Library!IdentifyReview,
         Library!IdentifyNew, Library!Leave
<1>3. \/ records' = records
      \/ \E v, c, t : records' \in Library!Observed(records, v, c, t)
  <2>1. ASSUME NEW v, NEW p, NEW t, Library!Observe(v, p, t)
        PROVE  \E c : records' \in Library!Observed(records, v, c, t)
    BY <2>1 DEF Library!Observe
  <2>2. CASE \E v \in Probes : Library!IdentifyMatch(h, v)
    BY <2>1, <2>2 DEF Library!IdentifyMatch
  <2>3. CASE \E v \in Probes : Library!IdentifyReview(h, v)
    BY <2>3 DEF Library!IdentifyReview, Library!library
  <2>4. CASE Library!IdentifyNew(h)
    <3>1. \E v, p, t : Library!Observe(v, p, t)
      BY <2>4 DEF Library!IdentifyNew
    <3> QED BY <2>1, <3>1
  <2> QED BY <2>2, <2>3, <2>4 DEF IdentifyAnswered
<1>4. CASE records' = records
  <2>1. DOMAIN waiting' \subseteq DOMAIN waiting /\ DOMAIN posts' \subseteq DOMAIN posts
    BY <1>1, <1>2
  <2> QED BY <1>1, <1>4, <2>1, SameRecords, PaidAlready DEF PaidInv, Inductive
<1>5. CASE \E v, c, t : records' \in Library!Observed(records, v, c, t)
  <2>1. Counted' /\ \E e : OnRecord' \subseteq OnRecord \cup {e}
    BY <1>5, ObservedOnRecord DEF PaidInv
  <2>2. /\ IsFiniteSet(OnRecord')
        /\ Cardinality(OnRecord') <= Cardinality(OnRecord) + 1
    BY <2>1, AtMostOneMore DEF PaidInv
  <2>3. /\ IsFiniteSet(DOMAIN waiting')
        /\ Cardinality(DOMAIN waiting') <= Cardinality(DOMAIN waiting) + (-1)
    BY <1>2, OneFewer DEF PaidInv
  <2>4. /\ IsFiniteSet(DOMAIN posts')
        /\ Cardinality(DOMAIN posts') <= Cardinality(DOMAIN posts) + 0
    BY <1>1, NoMore DEF Inductive
  <2>5. /\ IsFiniteSet(Accepted')
        /\ Cardinality(Accepted') >= Cardinality(Accepted) + 0
    <3>1. Accepted' = Accepted
      BY <1>1 DEF Accepted
    <3>2. Cardinality(Accepted) \in Nat
      BY FS_CardinalityType DEF PaidInv
    <3> QED BY <3>1, <3>2 DEF PaidInv
  <2> QED BY <2>1, <2>2, <2>3, <2>4, <2>5, PaidStep DEF Inductive
<1> QED BY <1>3, <1>4, <1>5

\* Every step of the service keeps the account.
LEMMA NextPaid == Inductive /\ PaidInv /\ [ServerNext]_serverVars => PaidInv'
<1> SUFFICES ASSUME Inductive, PaidInv, [ServerNext]_serverVars PROVE PaidInv'
  OBVIOUS
<1>1. Counted /\ IsFiniteSet(DOMAIN posts)
  BY DEF PaidInv, Inductive
<1>2. ASSUME UNCHANGED <<records, waiting, posts, accepted>>
      PROVE  PaidInv'
  BY <1>1, <1>2, SameRecords, PaidAlready
<1>3. CASE Challenge \/ UNCHANGED serverVars
  <2>1. UNCHANGED <<records, waiting, posts, accepted>>
    BY <1>3 DEF Challenge, Tick, Generate, Insert, serverVars, nonceStore, matcher, server
  <2> QED BY <1>2, <2>1
<1>4. ASSUME NEW n \in Nonces, IdentifyRejected(n)
      PROVE  PaidInv'
  <2>1. UNCHANGED <<records, waiting, posts, accepted>>
    BY <1>4 DEF IdentifyRejected, ConsumeUnknown, ConsumeExpired, ConsumeReused,
       matcher, server
  <2> QED BY <1>2, <2>1
<1>5. ASSUME NEW h \in Handlers, NEW n \in Nonces, NEW p \in Probes,
             NEW digest \in Digests, NEW ts \in Timestamps,
             IdentifyNonceSpent(h, n, p, digest, ts)
      PROVE  PaidInv'
  BY <1>5, SpentIsPaid
<1>6. ASSUME NEW h \in Handlers, IdentifyStale(h)
      PROVE  PaidInv'
  <2>1. UNCHANGED <<records, waiting, accepted>> /\ DOMAIN posts' \subseteq DOMAIN posts
    BY <1>6 DEF IdentifyStale, Checked, nonceStore, matcher
  <2>2. DOMAIN waiting' \subseteq DOMAIN waiting
    BY <2>1
  <2> QED BY <1>1, <2>1, <2>2, SameRecords, PaidAlready
<1>7. ASSUME NEW h \in Handlers, IdentifyAdmitted(h) \/ IdentifyAnswered(h)
      PROVE  PaidInv'
  BY <1>7, AdmittedIsPaid, AnsweredIsPaid
<1>8. ASSUME NEW kept, kept \subseteq DOMAIN records,
             records' = Library!Keep(records, kept),
             UNCHANGED <<waiting, posts, accepted>>
      PROVE  PaidInv'
  <2>1. DOMAIN waiting' \subseteq DOMAIN waiting /\ DOMAIN posts' \subseteq DOMAIN posts
    BY <1>8
  <2> QED BY <1>1, <1>8, <2>1, KeptOnRecord, PaidAlready
<1>9. ASSUME NEW v \in Probes, NEW bearer \in Secrets, EraseVisitor(v, bearer)
      PROVE  PaidInv'
  <2>1. /\ records' = Library!Keep(records, DOMAIN records \ {v})
        /\ UNCHANGED <<waiting, posts, accepted>>
    BY <1>9 DEF EraseVisitor, Library!Erase, Library!Removed, nonceStore, server
  <2> QED BY <1>8, <2>1
<1>10. CASE Background
  <2>1. UNCHANGED <<waiting, posts, accepted>>
    BY <1>10 DEF Background, Library!Tick, Library!SweepTick, Library!Purge,
                 nonceStore, server
  <2>2. \/ records' = records
        \/ \E kept \in SUBSET DOMAIN records : records' = Library!Keep(records, kept)
    BY <1>10 DEF Background, Library!Tick, Library!SweepTick, Library!Purge,
                 Library!library, Library!Purged
  <2> QED BY <1>2, <1>8, <2>1, <2>2
<1> QED BY <1>3, <1>4, <1>5, <1>6, <1>7, <1>9, <1>10 DEF ServerNext

\* The library never holds an observation that no nonce paid for: its observations,
\* the queue and the posts are at most as many as the nonces the service accepted.
THEOREM ObservationsArePaid == ServerSpec => []ObservationsArePaidFor
<1>1. PaidInv => ObservationsArePaidFor
  BY DEF PaidInv
<1> QED BY <1>1, InitPaid, NextPaid, InductiveInvariant, PTL DEF ServerSpec

---------------------------------------------------------------------------
\* The service implements the nonce store it is built on.
THEOREM ServiceIsANonceStore == ServerSpec => Spec
<1>1. ServerInit => Init
  BY DEF ServerInit
<1>2. Inductive /\ [ServerNext]_serverVars => [Next]_vars
  BY StepOfNonceStore DEF Inductive, ServerInv, ServerTypeOK
<1>3. QED
  BY <1>1, <1>2, InductiveInvariant, PTL DEF ServerSpec, Spec

\* The service implements the library it is built on.
THEOREM ServiceIsALibrary == ServerSpec => Library!Spec
<1>1. ServerInit => Library!Init
  BY DEF ServerInit
<1>2. Inductive /\ [ServerNext]_serverVars => [Library!Next]_(Library!vars)
  BY StepOfLibrary DEF Inductive, ServerInv
<1>3. QED
  BY <1>1, <1>2, InductiveInvariant, PTL DEF ServerSpec, Library!Spec

\* So a nonce authorises one identify, in time, across the whole service.
THEOREM ServiceIsOneTime == ServerSpec => OneTime
<1>1. QED
  BY ServiceIsANonceStore, StoreIsOneTime, PTL

\* Nor does any path of the service lose a live nonce.
THEOREM ServiceKeepsLiveNonces == ServerSpec => []LiveNonceKept
<1>1. QED
  BY ServiceIsANonceStore, LiveNoncesAreKept, PTL

\* Nor does the service go back on an answer.
THEOREM ServiceAnswersNeverGoBack == ServerSpec => AnswersMoveForward
<1>1. QED
  BY ServiceIsANonceStore, AnswersNeverGoBack, PTL

===========================================================================
