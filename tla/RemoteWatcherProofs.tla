------------------------ MODULE RemoteWatcherProofs ------------------------
(***************************************************************************)
(* What the steps of RemoteWatcher and RemoteWatcherManager keep, whoever  *)
(* calls the manager: the lemmas that ControllerProofs and WatchProofs     *)
(* share.  First the types, then the tasks and the shutdown.               *)
(***************************************************************************)
EXTENDS RemoteWatcherManager, TLAPS

USE RemoteWatcherAssumption

\* A key has a sync and an object, and each sync has two keys.
LEMMA KeyFacts ==
  /\ \A k \in Keys : k[1] \in Syncs /\ ObjectOf(k) \in Objects
  /\ \A s \in Syncs, role \in {"source", "target"} : <<s, role>> \in Keys
BY DEF Keys, ObjectOf

\* Initial states have their types.
LEMMA WatchTypeInit == WatchInit => WatchTypeOK
<1> SUFFICES ASSUME WatchInit PROVE WatchTypeOK
  OBVIOUS
<1> QED
  BY DEF WatchInit, WatchTypeOK, ObjectStates, Absent, Fresh, Writers, TaskStates

\* The fields of an object, and that changes of them make an object.
LEMMA ObjectFacts ==
  ASSUME NEW x \in ObjectStates
  PROVE  /\ x.phase \in {"absent", "live", "deleting"}
         /\ x.by \in Events
         /\ x.phase # "absent" => x.data \in Data
         /\ x.phase = "live" => [x EXCEPT !.phase = "deleting"] \in ObjectStates
         /\ \A d \in Data, w \in Writers : [x EXCEPT !.phase = IF @ = "absent" THEN "live" ELSE @,
                                      !.data = d, !.by = w] \in ObjectStates
<1> DEFINE Present == [phase : {"live", "deleting"}, data : Data, by : Writers,
                       owner : (Syncs \X (0..MaxUid)) \cup {NoOwner}]
<1>1. CASE x = Absent
  <2>1. \A d \in Data, w \in Writers : [x EXCEPT !.phase = IF @ = "absent" THEN "live" ELSE @,
                                 !.data = d, !.by = w] \in Present
    BY <1>1 DEF Absent, Writers
  <2> QED
    BY <1>1, <2>1 DEF Absent, ObjectStates, Events, Writers
<1>2. CASE x \in Present
  <2>1. /\ [x EXCEPT !.phase = "deleting"] \in Present
        /\ \A d \in Data, w \in Writers : [x EXCEPT !.phase = IF @ = "absent" THEN "live" ELSE @,
                                     !.data = d, !.by = w] \in Present
    BY <1>2 DEF Writers
  <2> QED
    BY <1>2, <2>1 DEF ObjectStates, Events
<1> QED
  BY <1>1, <1>2 DEF ObjectStates

\* A change of an object and its events.
LEMMA PublishType ==
  ASSUME WatchTypeOK, NEW o \in Objects, NEW new \in ObjectStates, NEW event \in Events,
         Publish(o, new, event)
  PROVE  obj' \in [Objects -> ObjectStates] /\ backlog' \in [Keys -> Seq(Events)]
BY DEF WatchTypeOK, Publish

\* A request is one for a sync.
LEMMA RequestType ==
  ASSUME WatchTypeOK, NEW k \in Keys, pending' = pending \/ pending' = pending \cup {k[1]}
  PROVE  pending' \subseteq Syncs
<1>1. k[1] \in Syncs
  BY KeyFacts
<1>2. pending \subseteq Syncs
  BY DEF WatchTypeOK
<1> QED
  BY <1>1, <1>2

\* The tasks.
LEMMA TaskType ==
  ASSUME WatchTypeOK, NEW k \in Keys, TaskProgress(k) \/ TaskTrouble(k)
  PROVE  WatchTypeOK'
<1> USE KeyFacts DEF WatchTypeOK, SendReconcile, TaskStates, Fault
<1>1. CASE Start(k)
  BY <1>1 DEF Start
<1>2. CASE StartFails(k)
  BY <1>2 DEF StartFails, Fails
<1>3. CASE BackoffEnds(k)
  BY <1>3 DEF BackoffEnds
<1>4. CASE Deliver(k)
  <2>1. Tail(backlog[k]) \in Seq(Events)
    BY <1>4 DEF Deliver
  <2>2. backlog' = [backlog EXCEPT ![k] = Tail(backlog[k])]
    BY <1>4 DEF Deliver
  <2>3. backlog' \in [Keys -> Seq(Events)]
    BY <2>1, <2>2
  <2>4. pending' = pending \/ pending' = pending \cup {k[1]}
    BY <1>4 DEF Deliver
  <2>5. pending' \subseteq Syncs
    BY <2>4, RequestType
  <2> QED
    BY <1>4, <2>3, <2>5 DEF Deliver
<1>5. CASE PauseEnds(k)
  BY <1>5 DEF PauseEnds
<1>6. CASE Exit(k)
  BY <1>6 DEF Exit
<1>7. CASE StreamFails(k)
  BY <1>7 DEF StreamFails, Fails
<1>8. CASE Expire(k)
  <2>1. obj[ObjectOf(k)].by \in Events
    BY ObjectFacts
  <2>2. <<obj[ObjectOf(k)].by>> \in Seq(Events)
    BY <2>1
  <2> QED
    BY <1>8, <2>2 DEF Expire
<1>9. CASE ErrorEvent(k)
  BY <1>9 DEF ErrorEvent
<1>10. CASE TaskPanics(k)
  BY <1>10 DEF TaskPanics
<1> QED
  BY <1>1, <1>2, <1>3, <1>4, <1>5, <1>6, <1>7, <1>8, <1>9, <1>10 DEF TaskProgress, TaskTrouble

\* A delete request.
LEMMA MarkDeletedType ==
  ASSUME WatchTypeOK, NEW o \in Objects, obj[o].phase = "live", MarkDeleted(o)
  PROVE  obj' \in [Objects -> ObjectStates] /\ backlog' \in [Keys -> Seq(Events)]
<1>1. [obj[o] EXCEPT !.phase = "deleting"] \in ObjectStates /\ obj[o].by \in Events
  BY ObjectFacts DEF WatchTypeOK
<1> QED
  BY <1>1, PublishType DEF MarkDeleted

\* The other users of the objects.
LEMMA EnvironmentType ==
  ASSUME WatchTypeOK, Environment
  PROVE  WatchTypeOK'
<1> USE DEF WatchTypeOK
<1>1. ASSUME NEW o \in Objects, ExternalDelete(o) PROVE WatchTypeOK'
  BY <1>1, MarkDeletedType DEF ExternalDelete, Edit
<1>2. ASSUME NEW o \in Objects, DeletionEnds(o) PROVE WatchTypeOK'
  BY <1>2, PublishType DEF DeletionEnds, Events, ObjectStates
<1>3. ASSUME NEW o \in Objects, NEW d \in Data, ExternalWrite(o, d) PROVE WatchTypeOK'
  <2>1. "ext" \in Writers /\ "ext" \in Events
    BY DEF Events, Writers
  <2>2. [obj[o] EXCEPT !.phase = IF @ = "absent" THEN "live" ELSE @,
                       !.data = d, !.by = "ext"] \in ObjectStates
    BY <2>1, ObjectFacts
  <2> QED
    BY <1>3, <2>1, <2>2, PublishType DEF ExternalWrite, Edit
<1>4. ASSUME NEW s \in Syncs, AccessChanges(s) PROVE WatchTypeOK'
  BY <1>4 DEF AccessChanges, Edit
<1> QED
  BY <1>1, <1>2, <1>3, <1>4 DEF Environment

(***************************************************************************)
(* The manager.                                                            *)
(***************************************************************************)

Roles == {"source", "target"}

\* Of the callers it matters that there is one per sync.
ManagerTypeOK ==
  /\ watcher \in [Keys -> TaskStates]
  /\ cancelled \subseteq Keys
  /\ watching \subseteq Keys
  /\ joining \in Keys \cup {NoKey}
  /\ pc = [s \in Syncs |-> pc[s]]

\* The key that is being joined is the one whose task has been told to stop, and
\* a task that has been told to stop is still there.
JoinsInOrder ==
  /\ \A s \in Syncs, role \in Roles : pc[s] = JoinPc(role) => joining = <<s, role>>
  /\ \A k \in cancelled : joining = k /\ watcher[k] # "none"

\* TasksAccounted and DrainedBeforeStop are not inductive by themselves: a join must
\* be the one of the task that was cancelled.
TaskInv == JoinsInOrder /\ TasksAccounted /\ DrainedBeforeStop

\* A key is not NoKey, and has its parts.
LEMMA KeyParts ==
  /\ NoKey \notin Keys
  /\ \A s, x \in Syncs, role, other \in Roles :
       /\ <<s, role>> \in Keys
       /\ <<s, role>> = <<x, other>> => s = x /\ role = other
BY DEF Keys, NoKey, Roles

\* The names of the places in a call.
LEMMA RolePcs ==
  ASSUME NEW role \in Roles
  PROVE  /\ \A other \in Roles : /\ AfterStart(role) # JoinPc(other) /\ AfterStop(role) # JoinPc(other)
                                 /\ JoinPc(role) = JoinPc(other) => role = other
         /\ StartPc(role) # "idle" /\ StopPc(role) # "idle" /\ JoinPc(role) # "idle"
BY DEF Roles, StartPc, StopPc, JoinPc, AfterStart, AfterStop

\* Nothing runs at the start.
LEMMA TaskInitial == WatchInit /\ ManagerInit => TaskInv
BY RolePcs DEF WatchInit, ManagerInit, TaskInv, JoinsInOrder, TasksAccounted, DrainedBeforeStop

\* A step begins no task, takes back no cancellation, and keeps none of a task that
\* has ended.
TasksOnlyEnd ==
  /\ \A k \in Keys : watcher'[k] # "none" => watcher[k] # "none" /\ (k \in cancelled' <=> k \in cancelled)
  /\ cancelled' \subseteq {k \in cancelled : watcher'[k] # "none"}

\* An attempt stays where it is, or moves outside a join; it moves away from "idle"
\* only before the shutdown waits for it.
MovesOutside(s) ==
  \/ pc'[s] = pc[s]
  \/ /\ \A role \in Roles : pc'[s] # JoinPc(role)
     /\ pc'[s] # "idle" => mode \in {"up", "draining"}

\* The steps outside the manager keep its invariant.
LEMMA OutsideKeeps ==
  ASSUME ManagerTypeOK, TaskInv, TasksOnlyEnd, UNCHANGED <<watching, joining, mode>>,
         \A s \in Syncs : MovesOutside(s)
  PROVE  TaskInv'
<1>1. JoinsInOrder'
  BY DEF TaskInv, JoinsInOrder, TasksOnlyEnd, MovesOutside
<1>2. TasksAccounted'
  BY DEF TaskInv, TasksAccounted, TasksOnlyEnd
<1>3. DrainedBeforeStop'
  BY DEF TaskInv, DrainedBeforeStop, TasksOnlyEnd, MovesOutside
<1> QED
  BY <1>1, <1>2, <1>3 DEF TaskInv

\* A task runs, waits or ends.
LEMMA TaskOnlyEnds ==
  ASSUME ManagerTypeOK, TaskInv, NEW k \in Keys, TaskProgress(k) \/ TaskTrouble(k)
  PROVE  TasksOnlyEnd
<1>0. watcher \in [Keys -> TaskStates] /\ cancelled \subseteq Keys /\ \A x \in cancelled : watcher[x] # "none"
  BY DEF ManagerTypeOK, TaskInv, JoinsInOrder
<1>1. CASE Exit(k) \/ TaskPanics(k)
  <2>1. watcher' = [watcher EXCEPT ![k] = "none"] /\ cancelled' = cancelled \ {k}
    BY <1>1 DEF Exit, TaskPanics
  <2> QED
    BY <1>0, <2>1 DEF TasksOnlyEnd
<1>2. CASE ~(Exit(k) \/ TaskPanics(k))
  <2>1. /\ watcher[k] # "none" /\ cancelled' = cancelled
        /\ watcher' = watcher \/ \E x \in TaskStates \ {"none"} : watcher' = [watcher EXCEPT ![k] = x]
    BY <1>2 DEF TaskProgress, TaskTrouble, Start, StartFails, BackoffEnds, Deliver, PauseEnds,
                StreamFails, Fails, Expire, ErrorEvent, TaskStates
  <2> QED
    BY <1>0, <2>1 DEF TasksOnlyEnd
<1> QED
  BY <1>1, <1>2

\* Steps that leave the tasks alone.
LEMMA TasksUntouched ==
  ASSUME ManagerTypeOK, TaskInv, UNCHANGED <<watcher, cancelled>>
  PROVE  TasksOnlyEnd
BY DEF ManagerTypeOK, TaskInv, JoinsInOrder, TasksOnlyEnd

\* The place of one attempt changes.
LEMMA GotoFacts ==
  ASSUME ManagerTypeOK, NEW s \in Syncs, NEW next, Goto(s, next)
  PROVE  pc'[s] = next /\ \A x \in Syncs : x # s => pc'[x] = pc[x]
BY DEF ManagerTypeOK, Goto

\* add_if_not_exists spawns no second task, and none that is told to stop.
LEMMA AddKeeps ==
  ASSUME ManagerTypeOK, TaskInv, NEW s \in Syncs, NEW role \in Roles, AddIfNotExists(s, role)
  PROVE  TaskInv'
<1> DEFINE k == <<s, role>>
<1>1. k \in Keys /\ NoKey \notin Keys
  BY KeyParts
<1>2. pc'[s] = AfterStart(role) /\ \A x \in Syncs : x # s => pc'[x] = pc[x]
  BY GotoFacts DEF AddIfNotExists
<1>3. /\ joining = NoKey /\ cancelled = {}
      /\ watching' = watching \cup {k}
      /\ watcher' = IF k \in watching THEN watcher ELSE [watcher EXCEPT ![k] = "starting"]
      /\ UNCHANGED <<cancelled, joining, mode>>
  BY <1>1 DEF AddIfNotExists, MutexFree, ManagerTypeOK, TaskInv, JoinsInOrder
<1>4. JoinsInOrder'
  BY <1>2, <1>3, RolePcs DEF TaskInv, JoinsInOrder
<1>5. TasksAccounted'
  BY <1>1, <1>3 DEF ManagerTypeOK, TaskInv, TasksAccounted
<1>6. mode \notin {"stopping", "down"}
  BY RolePcs DEF AddIfNotExists, TaskInv, DrainedBeforeStop
<1>7. DrainedBeforeStop'
  BY <1>3, <1>6 DEF DrainedBeforeStop
<1> QED
  BY <1>4, <1>5, <1>7 DEF TaskInv

\* The entry of a key is removed and its task, if there is one, cancelled.
LEMMA RemoveFacts ==
  ASSUME ManagerTypeOK, TaskInv, NEW k \in watching, MutexFree, RemoveAndCancel(k), UNCHANGED watcher
  PROVE  /\ joining' = k
         /\ \A x \in cancelled' : joining' = x /\ watcher'[x] # "none"
         /\ TasksAccounted'
<1>1. cancelled = {}
  BY KeyParts DEF MutexFree, ManagerTypeOK, TaskInv, JoinsInOrder
<1>2. /\ joining' = k /\ watching' = watching \ {k}
      /\ cancelled' = IF watcher[k] = "none" THEN {} ELSE {k}
  BY <1>1 DEF RemoveAndCancel
<1>3. TasksAccounted'
  BY <1>1, <1>2 DEF TaskInv, TasksAccounted
<1> QED
  BY <1>2, <1>3

\* stop_and_remove_if_exists, up to the join.
LEMMA StopKeeps ==
  ASSUME ManagerTypeOK, TaskInv, NEW s \in Syncs, NEW role \in Roles, StopAndRemove(s, role)
  PROVE  TaskInv'
<1> DEFINE k == <<s, role>>
<1>1. k \in Keys /\ NoKey \notin Keys
  BY KeyParts
<1>2. joining = NoKey /\ UNCHANGED <<watcher, mode>>
  BY DEF StopAndRemove, MutexFree
<1>3. mode \notin {"stopping", "down"}
  BY RolePcs DEF StopAndRemove, TaskInv, DrainedBeforeStop
<1>4. DrainedBeforeStop'
  BY <1>2, <1>3 DEF DrainedBeforeStop
<1>5. \A x \in Syncs, other \in Roles : pc[x] # JoinPc(other)
  BY <1>1, <1>2, KeyParts DEF TaskInv, JoinsInOrder
<1>6. CASE k \in watching
  <2>1. RemoveAndCancel(k) /\ Goto(s, JoinPc(role))
    BY <1>6 DEF StopAndRemove
  <2>2. pc'[s] = JoinPc(role) /\ \A x \in Syncs : x # s => pc'[x] = pc[x]
    BY <2>1, GotoFacts
  <2>3. /\ joining' = k
        /\ \A x \in cancelled' : joining' = x /\ watcher'[x] # "none"
        /\ TasksAccounted'
    BY <1>2, <1>6, <2>1, RemoveFacts DEF MutexFree
  <2>4. JoinsInOrder'
    BY <1>5, <2>2, <2>3, RolePcs DEF JoinsInOrder
  <2> QED
    BY <1>4, <2>3, <2>4 DEF TaskInv
<1>7. CASE k \notin watching
  <2>1. UNCHANGED <<watching, cancelled, joining>> /\ Goto(s, AfterStop(role))
    BY <1>7 DEF StopAndRemove
  <2>2. pc'[s] = AfterStop(role) /\ \A x \in Syncs : x # s => pc'[x] = pc[x]
    BY <2>1, GotoFacts
  <2>3. JoinsInOrder'
    BY <1>2, <1>5, <2>1, <2>2, RolePcs DEF TaskInv, JoinsInOrder
  <2>4. TasksAccounted'
    BY <1>2, <2>1 DEF TaskInv, TasksAccounted
  <2> QED
    BY <1>4, <2>3, <2>4 DEF TaskInv
<1> QED
  BY <1>6, <1>7

\* The join, after which the mutex is free and nothing is cancelled.
LEMMA JoinKeeps ==
  ASSUME ManagerTypeOK, TaskInv, NEW s \in Syncs, NEW role \in Roles, Join(s, role)
  PROVE  TaskInv'
<1>1. joining = <<s, role>> /\ watcher[<<s, role>>] = "none" /\ cancelled = {}
  BY DEF Join, TaskInv, JoinsInOrder
<1>2. UNCHANGED <<watcher, cancelled, watching, mode>> /\ joining' = NoKey
  BY DEF Join, watchVars
<1>3. pc'[s] = AfterStop(role) /\ \A x \in Syncs : x # s => pc'[x] = pc[x]
  BY GotoFacts DEF Join
<1>4. JoinsInOrder'
  <2>1. ASSUME NEW x \in Syncs, NEW other \in Roles, pc'[x] = JoinPc(other) PROVE FALSE
    <3>1. x # s
      BY <1>3, <2>1, RolePcs
    <3>2. joining = <<x, other>>
      BY <1>3, <2>1, <3>1 DEF TaskInv, JoinsInOrder
    <3> QED
      BY <1>1, <3>1, <3>2, KeyParts
  <2> QED
    BY <1>1, <1>2, <2>1 DEF JoinsInOrder
<1>5. TasksAccounted'
  BY <1>1, <1>2 DEF TaskInv, TasksAccounted
<1>6. mode \notin {"stopping", "down"}
  BY RolePcs DEF Join, TaskInv, DrainedBeforeStop
<1>7. DrainedBeforeStop'
  BY <1>2, <1>6 DEF DrainedBeforeStop
<1> QED
  BY <1>4, <1>5, <1>7 DEF TaskInv

\* The calls of the attempts.
LEMMA CallsKeep ==
  ASSUME ManagerTypeOK, TaskInv, NEW s \in Syncs, TakeMutex(s) \/ JoinAny(s)
  PROVE  TaskInv'
BY AddKeeps, StopKeeps, JoinKeeps DEF TakeMutex, JoinAny, Roles

\* The shutdown.
LEMMA ShutdownKeeps ==
  ASSUME ManagerTypeOK, TaskInv, ShutdownSignal \/ Shutdown
  PROVE  TaskInv'
<1>1. CASE ShutdownSignal \/ Drained \/ StopAllReturns
  <2>1. /\ UNCHANGED <<watcher, cancelled, watching, joining, pc>>
        /\ \/ mode' = "draining"
           \/ mode' = "stopping" /\ \A s \in Syncs : pc[s] = "idle"
           \/ mode = "stopping" /\ mode' = "down" /\ joining = NoKey /\ watching = {}
    BY <1>1 DEF ShutdownSignal, Drained, StopAllReturns, MutexFree, watchVars
  <2>2. JoinsInOrder' /\ TasksAccounted'
    BY <2>1 DEF TaskInv, JoinsInOrder, TasksAccounted
  <2>3. DrainedBeforeStop'
    BY <2>1, KeyParts DEF TaskInv, DrainedBeforeStop, TasksAccounted
  <2> QED
    BY <2>2, <2>3 DEF TaskInv
<1>2. CASE StopAllNext
  <2>1. mode = "stopping" /\ UNCHANGED <<watcher, pc, mode>>
    BY <1>2 DEF StopAllNext
  <2>2. DrainedBeforeStop'
    BY <2>1 DEF TaskInv, DrainedBeforeStop
  <2>3. \A s \in Syncs, role \in Roles : pc[s] # JoinPc(role)
    BY <2>1, RolePcs DEF TaskInv, DrainedBeforeStop
  <2>4. /\ \A x \in cancelled' : joining' = x /\ watcher'[x] # "none"
        /\ TasksAccounted'
    <3>1. ASSUME MutexFree, NEW k \in watching, RemoveAndCancel(k)
          PROVE  /\ \A x \in cancelled' : joining' = x /\ watcher'[x] # "none"
                 /\ TasksAccounted'
      BY <2>1, <3>1, RemoveFacts
    <3>2. ASSUME watcher[joining] = "none", joining' = NoKey, UNCHANGED <<watching, cancelled>>
          PROVE  /\ \A x \in cancelled' : joining' = x /\ watcher'[x] # "none"
                 /\ TasksAccounted'
      BY <2>1, <3>2 DEF ManagerTypeOK, TaskInv, JoinsInOrder, TasksAccounted
    <3> QED
      BY <1>2, <3>1, <3>2 DEF StopAllNext
  <2>5. JoinsInOrder'
    BY <2>1, <2>3, <2>4 DEF JoinsInOrder
  <2> QED
    BY <2>2, <2>4, <2>5 DEF TaskInv
<1> QED
  BY <1>1, <1>2 DEF Shutdown
=============================================================================
