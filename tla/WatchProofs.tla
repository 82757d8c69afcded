---------------------------- MODULE WatchProofs ----------------------------
(***************************************************************************)
(* The invariants of WatchService, for any number of syncs, objects,       *)
(* edits and faults and under any calls: no task is leaked or doubled, a   *)
(* shutdown drains first, and no change is lost.                           *)
(***************************************************************************)
EXTENDS WatchService, RemoteWatcherProofs

ServiceInv == ServiceTypeOK /\ TaskInv

(***************************************************************************)
(* Types.                                                                  *)
(***************************************************************************)

\* The manager's part of the types.
LEMMA ServiceManagerType == ServiceTypeOK => ManagerTypeOK
BY DEF ServiceTypeOK, WatchTypeOK, ManagerTypeOK

\* The places a call comes to.
LEMMA CallPcs ==
  ASSUME NEW role \in Roles
  PROVE  {StartPc(role), StopPc(role), JoinPc(role), AfterStart(role), AfterStop(role)} \subseteq ServicePcs
BY DEF Roles, StartPc, StopPc, JoinPc, AfterStart, AfterStop, ServicePcs, StartPcs, StopPcs

\* A target that Sinker applies.
LEMMA OwnApplyType ==
  ASSUME WatchTypeOK, NEW s \in Syncs, NEW d \in Data, OwnApply(s, d)
  PROVE  WatchTypeOK'
<1> DEFINE new == [obj[TargetOf[s]] EXCEPT !.phase = IF @ = "absent" THEN "live" ELSE @,
                                           !.data = d, !.by = "us"]
<1>1. TargetOf[s] \in Objects /\ obj[TargetOf[s]] \in ObjectStates
  BY RemoteWatcherAssumption DEF WatchTypeOK
<1>2. "us" \in Writers /\ "us" \in Events
  BY DEF Events, Writers
<1>3. new \in ObjectStates
  BY <1>1, <1>2, ObjectFacts
<1>4. obj' \in [Objects -> ObjectStates] /\ backlog' \in [Keys -> Seq(Events)]
  BY <1>1, <1>2, <1>3, PublishType DEF OwnApply
<1> QED
  BY <1>4, RemoteWatcherAssumption DEF OwnApply, Edit, WatchTypeOK

\* The tracked keys are keys.
LEMMA TrackType == ServiceTypeOK /\ Track => unseen' \subseteq Keys
BY DEF ServiceTypeOK, Track, Changed

\* The manager's steps touch the tasks, the map, the mutex and the place of a call.
LEMMA ManagerStepType ==
  ASSUME ServiceTypeOK, unseen' \subseteq Keys,
         \/ \E s \in Syncs : TakeMutex(s) \/ JoinAny(s) \/ Call(s) \/ CallReturns(s)
         \/ ShutdownSignal \/ Shutdown
  PROVE  ServiceTypeOK'
<1> USE DEF ServiceTypeOK, WatchTypeOK
<1>1. ASSUME NEW s \in Syncs, NEW next \in ServicePcs, Goto(s, next) PROVE pc' \in [Syncs -> ServicePcs]
  BY <1>1 DEF Goto
<1>2. ASSUME NEW k \in Keys, RemoveAndCancel(k)
      PROVE  watching' \subseteq Keys /\ cancelled' \subseteq Keys /\ joining' \in Keys
  BY <1>2 DEF RemoveAndCancel
<1>3. ASSUME NEW s \in Syncs, NEW role \in Roles, AddIfNotExists(s, role) PROVE ServiceTypeOK'
  <2>1. <<s, role>> \in Keys /\ pc' \in [Syncs -> ServicePcs]
    BY <1>1, <1>3, KeyParts, CallPcs DEF AddIfNotExists
  <2>2. watcher' \in [Keys -> TaskStates] /\ watching' \subseteq Keys
    BY <1>3, <2>1 DEF AddIfNotExists, TaskStates
  <2> QED
    BY <1>3, <2>1, <2>2 DEF AddIfNotExists
<1>4. ASSUME NEW s \in Syncs, NEW role \in Roles, StopAndRemove(s, role) PROVE ServiceTypeOK'
  <2>1. <<s, role>> \in Keys /\ pc' \in [Syncs -> ServicePcs]
    BY <1>1, <1>4, KeyParts, CallPcs DEF StopAndRemove
  <2>2. watching' \subseteq Keys /\ cancelled' \subseteq Keys /\ joining' \in Keys \cup {NoKey}
    BY <1>2, <1>4, <2>1 DEF StopAndRemove
  <2> QED
    BY <1>4, <2>1, <2>2 DEF StopAndRemove
<1>5. ASSUME NEW s \in Syncs, NEW role \in Roles, Join(s, role) PROVE ServiceTypeOK'
  <2>1. pc' \in [Syncs -> ServicePcs] /\ joining' = NoKey
    BY <1>1, <1>5, CallPcs DEF Join
  <2> QED
    BY <1>5, <2>1 DEF Join, watchVars
<1>6. ASSUME NEW s \in Syncs, Call(s) \/ CallReturns(s) PROVE ServiceTypeOK'
  <2>1. \A next \in {"startSource", "stopSource", "idle"} : next \in ServicePcs
    BY DEF ServicePcs, StartPcs, StopPcs
  <2>2. pc' \in [Syncs -> ServicePcs]
    BY <1>1, <1>6, <2>1 DEF Call, CallReturns
  <2> QED
    BY <1>6, <2>2 DEF Call, CallReturns, watchVars
<1>7. CASE ShutdownSignal \/ Drained \/ StopAllReturns
  BY <1>7 DEF ShutdownSignal, Drained, StopAllReturns, watchVars, Modes
<1>8. CASE StopAllNext
  <2>1. watching' \subseteq Keys /\ cancelled' \subseteq Keys /\ joining' \in Keys \cup {NoKey}
    BY <1>2, <1>8 DEF StopAllNext
  <2> QED
    BY <1>8, <2>1 DEF StopAllNext
<1> QED
  BY <1>3, <1>4, <1>5, <1>6, <1>7, <1>8 DEF TakeMutex, JoinAny, Shutdown, Roles

(***************************************************************************)
(* Tasks and shutdown.                                                     *)
(***************************************************************************)

LEMMA ServiceInitial == ServiceInit => ServiceInv
<1> SUFFICES ASSUME ServiceInit PROVE ServiceInv
  OBVIOUS
<1>1. WatchTypeOK
  BY WatchTypeInit DEF ServiceInit
<1>2. ServiceTypeOK
  BY <1>1 DEF ServiceInit, ManagerInit, ServiceTypeOK, ServicePcs, Modes
<1>3. TaskInv
  BY TaskInitial DEF ServiceInit
<1> QED
  BY <1>2, <1>3 DEF ServiceInv

\* The steps outside the manager: tasks, users, the controller's own requests.
LEMMA AroundKeeps ==
  ASSUME ServiceInv, unseen' \subseteq Keys,
         \/ \E k \in Keys : (TaskProgress(k) \/ TaskTrouble(k)) /\ UNCHANGED managerVars
         \/ Environment /\ UNCHANGED managerVars
         \/ \E s \in Syncs : Consume(s) \/ \E d \in Data : OwnApply(s, d)
  PROVE  ServiceInv'
<1>0. WatchTypeOK /\ ManagerTypeOK /\ TaskInv
  BY ServiceManagerType DEF ServiceInv, ServiceTypeOK
<1>1. WatchTypeOK'
  <2>1. ASSUME NEW s \in Syncs, Consume(s) PROVE WatchTypeOK'
    BY <1>0, <2>1 DEF Consume, WatchTypeOK
  <2> QED
    BY <1>0, <2>1, TaskType, EnvironmentType, OwnApplyType
<1>2. TasksOnlyEnd
  <2>1. CASE \/ Environment
             \/ \E s \in Syncs : Consume(s) \/ \E d \in Data : OwnApply(s, d)
    <3>1. UNCHANGED <<watcher, cancelled>>
      BY <2>1 DEF Environment, ExternalDelete, DeletionEnds, ExternalWrite, AccessChanges, Consume, OwnApply
    <3> QED
      BY <1>0, <3>1, TasksUntouched
  <2> QED
    BY <1>0, <2>1, TaskOnlyEnds
<1>3. UNCHANGED <<watching, joining, pc, mode>>
  BY DEF managerVars, Consume, OwnApply
<1>4. TaskInv'
  BY <1>0, <1>2, <1>3, OutsideKeeps DEF MovesOutside
<1> QED
  BY <1>1, <1>3, <1>4 DEF ServiceInv, ServiceTypeOK

\* The manager and its callers.
LEMMA CallerKeeps ==
  ASSUME ServiceInv, unseen' \subseteq Keys,
         \/ \E s \in Syncs : TakeMutex(s) \/ JoinAny(s) \/ Call(s) \/ CallReturns(s)
         \/ ShutdownSignal \/ Shutdown
  PROVE  ServiceInv'
<1>0. ServiceTypeOK /\ ManagerTypeOK /\ TaskInv
  BY ServiceManagerType DEF ServiceInv
<1>1. ServiceTypeOK'
  BY <1>0, ManagerStepType
<1>2. ASSUME NEW s \in Syncs, Call(s) \/ CallReturns(s) PROVE TaskInv'
  <2>1. UNCHANGED <<watcher, cancelled, watching, joining, mode>>
    BY <1>2 DEF Call, CallReturns, watchVars
  <2>2. PICK next \in {"startSource", "stopSource", "idle"} : Goto(s, next) /\ (next = "idle" \/ mode = "up")
    BY <1>2 DEF Call, CallReturns
  <2>3. \A x \in Syncs : MovesOutside(x)
    BY <1>0, <2>2, GotoFacts DEF MovesOutside, JoinPc
  <2> QED
    BY <1>0, <2>1, <2>3, TasksUntouched, OutsideKeeps
<1>3. TaskInv'
  BY <1>0, <1>2, CallsKeep, ShutdownKeeps
<1> QED
  BY <1>1, <1>3 DEF ServiceInv

\* Every step keeps the invariant.
LEMMA ServiceStepKeeps == ServiceInv /\ [ServiceNext]_serviceVars => ServiceInv'
<1> SUFFICES ASSUME ServiceInv, [ServiceNext]_serviceVars PROVE ServiceInv'
  OBVIOUS
<1>1. CASE UNCHANGED serviceVars
  BY <1>1 DEF serviceVars, watchVars, managerVars, ServiceInv, ServiceTypeOK, WatchTypeOK,
              TaskInv, JoinsInOrder, TasksAccounted, DrainedBeforeStop
<1>2. CASE ServiceNext
  <2>1. unseen' \subseteq Keys
    BY <1>2, TrackType DEF ServiceNext, ServiceInv
  <2>2. CASE \/ \E s \in Syncs : TakeMutex(s) \/ JoinAny(s) \/ Call(s) \/ CallReturns(s)
             \/ ShutdownSignal \/ Shutdown
    BY <2>1, <2>2, CallerKeeps
  <2>3. CASE \/ \E k \in Keys : (TaskProgress(k) \/ TaskTrouble(k)) /\ UNCHANGED managerVars
             \/ Environment /\ UNCHANGED managerVars
             \/ \E s \in Syncs : Consume(s) \/ \E d \in Data : OwnApply(s, d)
    BY <2>1, <2>3, AroundKeeps
  <2> QED
    BY <1>2, <2>2, <2>3 DEF ServiceNext, ServiceStep, InCall, InTask
<1> QED
  BY <1>1, <1>2

\* The types of the manager, the tasks and the objects.
THEOREM ServiceTypeCorrect == ServiceSpec => []ServiceTypeOK
<1>1. ServiceInv => ServiceTypeOK
  BY DEF ServiceInv
<1> QED
  BY ServiceInitial, ServiceStepKeeps, <1>1, PTL DEF ServiceSpec

\* Whatever calls are made, and whatever tasks fail or panic, every running task is
\* in the map of the manager, or cancelled and waited for.
THEOREM NoTaskLeaks == ServiceSpec => []TasksAccounted
<1>1. ServiceInv => TasksAccounted
  BY DEF ServiceInv, TaskInv
<1> QED
  BY ServiceInitial, ServiceStepKeeps, <1>1, PTL DEF ServiceSpec

\* stop_all begins when the attempts have ended, and when it has returned no task runs.
THEOREM ShutdownInOrder == ServiceSpec => []DrainedBeforeStop
<1>1. ServiceInv => DrainedBeforeStop
  BY DEF ServiceInv, TaskInv
<1> QED
  BY ServiceInitial, ServiceStepKeeps, <1>1, PTL DEF ServiceSpec

(***************************************************************************)
(* Changes.                                                                *)
(***************************************************************************)

\* Events that somebody else's change is still among.
Ahead(q) == \E i \in 1..Len(q) : q[i] # "us"

\* What Append and Tail leave ahead.
LEMMA AheadFacts ==
  ASSUME NEW q \in Seq(Events), NEW e \in Events
  PROVE  /\ Ahead(q) \/ e # "us" => Ahead(Append(q, e))
         /\ Ahead(q) /\ q # <<>> /\ Head(q) = "us" => Ahead(Tail(q))
<1>1. ASSUME Ahead(q) PROVE Ahead(Append(q, e))
  BY <1>1 DEF Ahead
<1>2. ASSUME e # "us" PROVE Ahead(Append(q, e))
  <2>1. /\ Len(q) + 1 \in 1..Len(Append(q, e)) /\ Append(q, e)[Len(q) + 1] = e
    OBVIOUS
  <2> QED
    BY <1>2, <2>1 DEF Ahead
<1>3. ASSUME Ahead(q), q # <<>>, Head(q) = "us" PROVE Ahead(Tail(q))
  <2>1. PICK i \in 1..Len(q) : q[i] # "us"
    BY <1>3 DEF Ahead
  <2>2. i # 1 /\ i - 1 \in 1..Len(Tail(q)) /\ Tail(q)[i - 1] = q[i]
    BY <1>3, <2>1
  <2> QED
    BY <2>1, <2>2 DEF Ahead
<1> QED
  BY <1>1, <1>2, <1>3

\* Steps that leave the objects alone, and the events of each task that reads them or
\* for whose sync nothing is requested.
LEMMA QuietStep ==
  ASSUME ServiceTypeOK, NoLostChange, Track, UNCHANGED obj,
         \A k \in Keys : watcher'[k] \in {"watching", "paused"} /\ k[1] \notin pending' =>
            /\ watcher[k] \in {"watching", "paused"}
            /\ Ahead(backlog[k]) => Ahead(backlog'[k])
  PROVE  NoLostChange'
<1>1. unseen' \subseteq unseen
  BY DEF Track, Changed
<1> QED
  BY <1>1 DEF NoLostChange, Track, Ahead, ServiceTypeOK

\* A change of an object: its watchers have the event ahead of them.
LEMMA PublishStep ==
  ASSUME ServiceTypeOK, NoLostChange, Track, UNCHANGED watcher,
         NEW o \in Objects, NEW new \in ObjectStates, NEW event \in Events,
         Publish(o, new, event), new.by = "ext" => event # "us"
  PROVE  NoLostChange'
<1>1. SUFFICES ASSUME NEW k \in unseen', watcher[k] \in {"watching", "paused"}
               PROVE  Ahead(backlog'[k])
  BY DEF NoLostChange, Ahead
<1>2. /\ k \in Keys /\ backlog[k] \in Seq(Events) /\ obj \in [Objects -> ObjectStates]
      /\ ObjectOf(k) \in Objects
  BY <1>1, TrackType, KeyFacts DEF ServiceTypeOK, WatchTypeOK
<1>3. backlog'[k] = IF ObjectOf(k) = o THEN Append(backlog[k], event) ELSE backlog[k]
  BY <1>1, <1>2 DEF Publish
<1>4. CASE k \in unseen
  BY <1>1, <1>2, <1>3, <1>4, AheadFacts DEF NoLostChange, Ahead
<1>5. CASE k \in Changed
  <2>1. ObjectOf(k) = o /\ new.by = "ext"
    BY <1>2, <1>5 DEF Changed, Publish
  <2> QED
    BY <1>2, <1>3, <2>1, AheadFacts
<1> QED
  BY <1>1, <1>4, <1>5 DEF Track

\* The tasks, if no version expires.
LEMMA TaskTells ==
  ASSUME ~WatchExpiry, ServiceTypeOK, NoLostChange, Track,
         NEW k \in Keys, TaskProgress(k) \/ TaskTrouble(k)
  PROVE  NoLostChange'
<1>0. /\ watcher \in [Keys -> TaskStates] /\ backlog \in [Keys -> Seq(Events)]
      /\ UNCHANGED obj
  BY DEF ServiceTypeOK, WatchTypeOK, TaskProgress, TaskTrouble, Start, StartFails, BackoffEnds,
         Deliver, PauseEnds, Exit, StreamFails, Fails, Expire, ErrorEvent, TaskPanics
<1>1. CASE Deliver(k)
  <2>1. /\ watcher[k] = "watching" /\ backlog[k] # <<>> /\ UNCHANGED watcher
        /\ backlog' = [backlog EXCEPT ![k] = Tail(backlog[k])]
        /\ Head(backlog[k]) # "us" => k[1] \in pending'
    BY <1>1 DEF Deliver, SendReconcile, was_last_modified_by_us
  <2>2. backlog'[k] = Tail(backlog[k]) /\ \A x \in Keys : x # k => backlog'[x] = backlog[x]
    BY <1>0, <2>1
  <2>3. "us" \in Events
    BY DEF Events, Writers
  <2>4. Head(backlog[k]) = "us" /\ Ahead(backlog[k]) => Ahead(backlog'[k])
    BY <1>0, <2>1, <2>2, <2>3, AheadFacts
  <2> QED
    BY <1>0, <2>1, <2>2, <2>4, QuietStep
<1>2. CASE ~Deliver(k)
  <2>1. /\ \A x \in Keys : x # k => backlog'[x] = backlog[x] /\ watcher'[x] = watcher[x]
        /\ watcher'[k] \in {"watching", "paused"} =>
             \/ k[1] \in pending'
             \/ watcher[k] \in {"watching", "paused"} /\ backlog'[k] = backlog[k]
    BY <1>0, <1>2 DEF TaskProgress, TaskTrouble, Start, StartFails, BackoffEnds, PauseEnds, Exit,
                      StreamFails, Fails, Expire, ErrorEvent, TaskPanics, SendReconcile
  <2> QED
    BY <1>0, <2>1, QuietStep
<1> QED
  BY <1>1, <1>2

\* The other users of the objects.
LEMMA ChangeIsAhead ==
  ASSUME ServiceTypeOK, NoLostChange, Track, Environment
  PROVE  NoLostChange'
<1>0. obj \in [Objects -> ObjectStates] /\ "ext" \in Writers /\ "ext" \in Events /\ "del" \in Events
  BY DEF ServiceTypeOK, WatchTypeOK, Events, Writers
<1>1. ASSUME NEW o \in Objects, ExternalDelete(o) PROVE NoLostChange'
  <2>1. /\ [obj[o] EXCEPT !.phase = "deleting"] \in ObjectStates /\ obj[o].by \in Events
        /\ [obj[o] EXCEPT !.phase = "deleting"].by = obj[o].by
    <3>1. obj[o].phase = "live"
      BY <1>1 DEF ExternalDelete
    <3>2. obj[o] \in [phase : {"live", "deleting"}, data : Data, by : Writers,
                      owner : (Syncs \X (0..MaxUid)) \cup {NoOwner}]
      BY <1>0, <3>1 DEF ObjectStates, Absent
    <3> QED
      BY <1>0, <3>1, <3>2, ObjectFacts
  <2>2. UNCHANGED watcher /\ Publish(o, [obj[o] EXCEPT !.phase = "deleting"], obj[o].by)
    BY <1>1 DEF ExternalDelete, MarkDeleted
  <2> QED
    BY <2>1, <2>2, PublishStep
<1>2. ASSUME NEW o \in Objects, DeletionEnds(o) PROVE NoLostChange'
  <2>1. Absent \in ObjectStates /\ UNCHANGED watcher /\ Publish(o, Absent, "del")
    BY <1>2 DEF DeletionEnds, ObjectStates
  <2> QED
    BY <1>0, <2>1, PublishStep
<1>3. ASSUME NEW o \in Objects, NEW d \in Data, ExternalWrite(o, d) PROVE NoLostChange'
  <2> DEFINE new == [obj[o] EXCEPT !.phase = IF @ = "absent" THEN "live" ELSE @,
                                   !.data = d, !.by = "ext"]
  <2>1. new \in ObjectStates
    BY <1>0, ObjectFacts
  <2>2. UNCHANGED watcher /\ Publish(o, new, "ext")
    BY <1>3 DEF ExternalWrite
  <2> QED
    BY <1>0, <2>1, <2>2, PublishStep
<1>4. ASSUME NEW s \in Syncs, AccessChanges(s) PROVE NoLostChange'
  <2>1. UNCHANGED <<obj, backlog, watcher>>
    BY <1>4 DEF AccessChanges
  <2> QED
    BY <2>1, QuietStep
<1> QED
  BY <1>1, <1>2, <1>3, <1>4 DEF Environment

\* A target that Sinker applies is no change by somebody else.
LEMMA OwnApplyQuiet ==
  ASSUME ServiceTypeOK, NoLostChange, Track, NEW s \in Syncs, NEW d \in Data, OwnApply(s, d)
  PROVE  NoLostChange'
<1> DEFINE old == obj[TargetOf[s]]
           new == [old EXCEPT !.phase = IF @ = "absent" THEN "live" ELSE @,
                              !.data = d, !.by = "us"]
<1>1. TargetOf[s] \in Objects /\ old \in ObjectStates /\ "us" \in Writers /\ "us" \in Events
  BY RemoteWatcherAssumption DEF ServiceTypeOK, WatchTypeOK, Writers, Events
<1>2. new \in ObjectStates
  BY <1>1, ObjectFacts
<1>3. new.by = "us"
  <2>1. CASE old = Absent
    BY <2>1 DEF Absent
  <2>2. CASE old # Absent
    BY <1>1, <2>2 DEF ObjectStates
  <2> QED
    BY <2>1, <2>2
<1>4. UNCHANGED watcher /\ Publish(TargetOf[s], new, "us")
  BY DEF OwnApply
<1> QED
  BY <1>1, <1>2, <1>3, <1>4, PublishStep

\* The manager starts tasks, which have still to read their object.
LEMMA ManagerQuiet ==
  ASSUME ServiceTypeOK, NoLostChange, Track,
         \/ \E s \in Syncs : Call(s) \/ InCall(s) \/ TakeMutex(s) \/ Consume(s)
         \/ ShutdownSignal \/ Shutdown
  PROVE  NoLostChange'
<1>0. watcher \in [Keys -> TaskStates]
  BY DEF ServiceTypeOK, WatchTypeOK
<1>1. ASSUME NEW s \in Syncs, NEW role \in Roles, AddIfNotExists(s, role) PROVE NoLostChange'
  <2>1. UNCHANGED <<obj, backlog>> /\ <<s, role>> \in Keys
    BY <1>1, KeyParts DEF AddIfNotExists
  <2>2. watcher' = watcher \/ watcher' = [watcher EXCEPT ![<<s, role>>] = "starting"]
    BY <1>1 DEF AddIfNotExists
  <2> QED
    BY <1>0, <2>1, <2>2, QuietStep
<1>2. ASSUME UNCHANGED <<obj, backlog, watcher>> PROVE NoLostChange'
  BY <1>2, QuietStep
<1>3. ASSUME NEW s \in Syncs, NEW role \in Roles, StopAndRemove(s, role) \/ Join(s, role) PROVE NoLostChange'
  <2>1. UNCHANGED <<obj, backlog, watcher>>
    BY <1>3 DEF StopAndRemove, Join, watchVars
  <2> QED
    BY <1>2, <2>1
<1>4. ASSUME NEW s \in Syncs, Call(s) \/ CallReturns(s) \/ Consume(s) PROVE NoLostChange'
  <2>1. UNCHANGED <<obj, backlog, watcher>>
    BY <1>4 DEF Call, CallReturns, Consume, watchVars
  <2> QED
    BY <1>2, <2>1
<1>5. ASSUME ShutdownSignal \/ Shutdown PROVE NoLostChange'
  <2>1. UNCHANGED <<obj, backlog, watcher>>
    BY <1>5 DEF ShutdownSignal, Shutdown, Drained, StopAllNext, StopAllReturns, watchVars
  <2> QED
    BY <1>2, <2>1
<1> QED
  BY <1>1, <1>3, <1>4, <1>5 DEF InCall, TakeMutex, JoinAny, Roles

\* If no version expires (ErrorResponse 410 in listen), then between the read of a
\* reconcile, the start of the watch, its events, errors, pauses and retries no change
\* by somebody else gets lost: it is ahead of its task until a request is made.
THEOREM NothingLost == ~WatchExpiry => (ServiceSpec => []NoLostChange)
<1> SUFFICES ASSUME ~WatchExpiry PROVE ServiceSpec => []NoLostChange
  OBVIOUS
<1>1. ServiceInit => NoLostChange
  BY DEF ServiceInit, NoLostChange
<1>2. ServiceTypeOK /\ NoLostChange /\ [ServiceNext]_serviceVars => NoLostChange'
  <2> SUFFICES ASSUME ServiceTypeOK, NoLostChange, [ServiceNext]_serviceVars PROVE NoLostChange'
    OBVIOUS
  <2>1. CASE UNCHANGED serviceVars
    BY <2>1 DEF serviceVars, watchVars, NoLostChange
  <2>2. CASE ServiceNext
    BY <2>2, TaskTells, ChangeIsAhead, OwnApplyQuiet, ManagerQuiet
    DEF ServiceNext, ServiceStep, InTask
  <2> QED
    BY <2>1, <2>2
<1> QED
  BY <1>1, <1>2, ServiceTypeCorrect, PTL DEF ServiceSpec
=============================================================================
