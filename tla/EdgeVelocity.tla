---------------------------- MODULE EdgeVelocity ----------------------------
(***************************************************************************)
(* New-device velocity on the edge: edgeVelocity of the identify route     *)
(* (apps/edge/src/modules/fingerprint/fingerprint.routes.ts) over the      *)
(* durable objects of apps/edge/src/lib/do/velocity-do.ts, one object per  *)
(* IP and per JA4 class.  An object runs one invocation at a time, so bump *)
(* and alarm are each one step; a request bumps its IP, then its class,    *)
(* and gives up on the first call that fails.                              *)
(***************************************************************************)
EXTENDS Naturals, Sequences, FiniteSets, FiniteSetsExt

CONSTANTS
    Handlers,      \* requests that may be in flight at once
    Visitors,      \* the ids new-device verdicts carry
    Ips, Classes,  \* the entities, of two scopes that cannot collide
    Window,        \* VELOCITY_WINDOW_MS
    MaxTime,       \* bound: the last instant
    MaxRequests    \* bound: requests in a behaviour

ASSUME EdgeVelocityAssumption ==
    /\ Window \in Nat \ {0} /\ MaxTime \in Nat /\ MaxRequests \in Nat

Entities == Ips \cup Classes

VARIABLES
    now,       \* Date.now()
    requests,  \* requests that have reached edgeVelocity
    jobs,      \* handler -> its visitor, the entities still to bump, the counts it got
    members,   \* entity -> its stored record: visitor -> expiry
    alarms,    \* entity -> when its alarm is due, if one is set
    firing,    \* entities whose alarm has been dispatched and not handled yet
    seen       \* history: the bumps that took effect

vars == <<now, requests, jobs, members, alarms, firing, seen>>

Nothing == [e \in {} |-> 0]

Init ==
    /\ now = 0 /\ requests = 0
    /\ jobs = Nothing /\ members = Nothing /\ alarms = Nothing
    /\ firing = {} /\ seen = {}

Tick ==
    /\ now < MaxTime
    /\ now' = now + 1
    /\ UNCHANGED <<requests, jobs, members, alarms, firing, seen>>

\* A new-device verdict behind a trusted edge, with an IP, a JA4 class or both.
\* Ids are digests of the probe, so the same id may be new more than once.
Targets == {<<e>> : e \in Entities} \cup (Ips \X Classes)

Arrive(h, v, targets) ==
    /\ h \notin DOMAIN jobs
    /\ requests < MaxRequests
    /\ requests' = requests + 1
    /\ jobs' = [g \in DOMAIN jobs \cup {h} |->
                   IF g # h THEN jobs[g]
                   ELSE [visitor |-> v, todo |-> targets, counts |-> Nothing]]
    /\ UNCHANGED <<now, members, alarms, firing, seen>>

---------------------------------------------------------------------------
\* The object.
With(map, e, x) == [d \in DOMAIN map \cup {e} |-> IF d = e THEN x ELSE map[d]]
Without(map, e) == [d \in DOMAIN map \ {e} |-> map[d]]

\* Mutant of Live: members of the last instant kept.
Live_Late(record) == {v \in DOMAIN record : record[v] >= now}

\* The members that survive the prune.
Live(record) == {v \in DOMAIN record : record[v] > now}
Stored(e) == IF e \in DOMAIN members THEN members[e] ELSE Nothing
Remaining(e) == [v \in Live(Stored(e)) |-> Stored(e)[v]]

\* Mutants of Bumped and Furthest: a member's first expiry kept; the alarm at
\* the next expiry.
Bumped_FirstKept(e, v) ==
    IF v \in DOMAIN Remaining(e) THEN Remaining(e) ELSE With(Remaining(e), v, now + Window)
Furthest_Next(record) == Min({record[v] : v \in DOMAIN record})

Bumped(e, v) == With(Remaining(e), v, now + Window)
Furthest(record) == Max({record[v] : v \in DOMAIN record})

\* Mutant of Armed: setAlarm left out.
Armed_Never(e, record) == alarms

Armed(e, record) == With(alarms, e, Furthest(record))

\* bump: prune, record the member, store, set the alarm.
BumpObject(e, v) ==
    /\ members' = With(members, e, Bumped(e, v))
    /\ alarms' = Armed(e, Bumped(e, v))
    /\ seen' = seen \cup {[entity |-> e, visitor |-> v, at |-> now]}

\* The alarm comes due and its event is dispatched ...
AlarmDue(e) ==
    /\ e \in DOMAIN alarms
    /\ now >= alarms[e]
    /\ alarms' = Without(alarms, e)
    /\ firing' = firing \cup {e}
    /\ UNCHANGED <<now, requests, jobs, members, seen>>

\* ... and handled, perhaps after another bump: delete the record, or store
\* what is left of it and set the alarm again.
AlarmRuns(e) ==
    /\ e \in firing
    /\ firing' = firing \ {e}
    /\ IF DOMAIN Remaining(e) = {}
       THEN members' = Without(members, e) /\ UNCHANGED alarms
       ELSE members' = With(members, e, Remaining(e)) /\ alarms' = Armed(e, Remaining(e))
    /\ UNCHANGED <<now, requests, jobs, seen>>

---------------------------------------------------------------------------
\* The request.
Pending(h) == h \in DOMAIN jobs /\ jobs[h].todo # <<>>
Target(h) == Head(jobs[h].todo)

Bump(h) ==
    /\ Pending(h)
    /\ LET e == Target(h)
           record == Bumped(e, jobs[h].visitor)
       IN  /\ BumpObject(e, jobs[h].visitor)
           /\ jobs' = [jobs EXCEPT ![h].todo = Tail(@),
                                   ![h].counts = With(@, e, Cardinality(DOMAIN record))]
    /\ UNCHANGED <<now, requests, firing>>

\* The call throws or its answer is not ok, the bump counted or not: no
\* further call, and the neutral bands, whatever was counted before.
BumpFails(h) ==
    /\ Pending(h)
    /\ \/ BumpObject(Target(h), jobs[h].visitor)
       \/ UNCHANGED <<members, alarms, seen>>
    /\ jobs' = [jobs EXCEPT ![h].todo = <<>>, ![h].counts = Nothing]
    /\ UNCHANGED <<now, requests, firing>>

\* The bands of the counts go into the response.
Respond(h) ==
    /\ h \in DOMAIN jobs
    /\ jobs[h].todo = <<>>
    /\ jobs' = Without(jobs, h)
    /\ UNCHANGED <<now, requests, members, alarms, firing, seen>>

Next ==
    \/ Tick
    \/ \E h \in Handlers, v \in Visitors, t \in Targets : Arrive(h, v, t)
    \/ \E h \in Handlers : Bump(h)
    \/ \E h \in Handlers : BumpFails(h)
    \/ \E h \in Handlers : Respond(h)
    \/ \E e \in Entities : AlarmDue(e)
    \/ \E e \in Entities : AlarmRuns(e)

Spec == Init /\ [][Next]_vars

\* Time passes, due alarms are dispatched and handled; requests owe nothing.
FairSpec ==
    /\ Spec
    /\ WF_vars(Tick)
    /\ \A e \in Entities : WF_vars(AlarmDue(e)) /\ WF_vars(AlarmRuns(e))

---------------------------------------------------------------------------
TypeOK ==
    /\ now \in Nat /\ requests \in Nat
    /\ DOMAIN jobs \subseteq Handlers
    /\ \A h \in DOMAIN jobs :
          /\ DOMAIN jobs[h] = {"visitor", "todo", "counts"}
          /\ jobs[h].visitor \in Visitors
          /\ jobs[h].todo \in Seq(Entities)
    /\ DOMAIN members \subseteq Entities
    /\ \A e \in DOMAIN members :
          /\ DOMAIN members[e] \subseteq Visitors
          /\ members[e] \in [DOMAIN members[e] -> Nat]
    /\ DOMAIN alarms \subseteq Entities
    /\ firing \subseteq Entities
    /\ seen \subseteq [entity : Entities, visitor : Visitors, at : Nat]

InWindow(s) == s.at + Window > now

(***************************************************************************)
(* Whatever requests fail, repeat or interleave and whenever the alarms    *)
(* run, what an object counts is its rolling window: a visitor is a live   *)
(* member exactly when a bump of it took effect less than a window ago.    *)
(***************************************************************************)
WindowIsExact ==
    \A e \in Entities, v \in Visitors :
        v \in Live(Stored(e)) <=>
            \E s \in seen : s.entity = e /\ s.visitor = v /\ InWindow(s)

(***************************************************************************)
(* The count a request is answered is of the window as it stands when the  *)
(* object is reached, the request's own visitor counted once.              *)
(***************************************************************************)
AnswersCountTheWindow ==
    [][\A h \in Handlers :
          Bump(h) =>
              jobs'[h].counts[Target(h)] =
                  Cardinality({s.visitor : s \in {x \in seen' :
                                  x.entity = Target(h) /\ InWindow(x)}})]_vars

(***************************************************************************)
(* An object with a record has an alarm coming: set for its furthest       *)
(* expiry, or dispatched and about to look.                                *)
(***************************************************************************)
AlarmCovers ==
    \A e \in DOMAIN members :
        \/ e \in firing
        \/ e \in DOMAIN alarms /\ \A v \in DOMAIN members[e] : members[e][v] <= alarms[e]

(***************************************************************************)
(* "An alarm at the furthest expiry evicts a fully-lapsed instance so      *)
(* storage does not leak": an entity that goes quiet is drained.  (Of      *)
(* records the bounded clock can outlast.)                                 *)
(***************************************************************************)
Outlasted(e) ==
    e \in DOMAIN members /\ \A v \in DOMAIN members[e] : members[e][v] <= MaxTime

QuietIsDrained == \A e \in Entities : Outlasted(e) ~> ~Outlasted(e)

---------------------------------------------------------------------------
\* The inductive invariant behind WindowIsExact: a member expires a window
\* after a bump of it, and no later bump expires after it.
MembersWereSeen ==
    \A e \in DOMAIN members : \A v \in DOMAIN members[e] :
        \E s \in seen : s.entity = e /\ s.visitor = v /\ s.at + Window = members[e][v]

SeenAreMembers ==
    \A s \in seen :
        InWindow(s) =>
            /\ s.entity \in DOMAIN members
            /\ s.visitor \in DOMAIN members[s.entity]
            /\ members[s.entity][s.visitor] >= s.at + Window

SeenBefore == \A s \in seen : s.at <= now

VelocityInv ==
    /\ TypeOK
    /\ MembersWereSeen
    /\ SeenAreMembers
    /\ SeenBefore

=============================================================================
