-------------------------- MODULE ControllerProofs --------------------------
(***************************************************************************)
(* Theorems about Controller, for every value of its constants.            *)
(***************************************************************************)
EXTENDS Controller, RemoteWatcherProofs

USE RemoteWatcherAssumption, ControllerAssumption

(***************************************************************************)
(* Type correctness.                                                       *)
(***************************************************************************)

LEMMA TypeInit == Init => TypeOK
<1> SUFFICES ASSUME Init PROVE TypeOK
  OBVIOUS
<1>1. WatchTypeOK
  BY WatchTypeInit DEF Init
<1>2. Gone(0) \in Versions
  BY DEF Gone, Versions
<1>3. NoWork \in Works /\ NoCondition \in Conditions
  BY DEF NoWork, Works, NoCondition, Conditions
<1> QED
  BY <1>1, <1>2, <1>3 DEF Init, ManagerInit, TypeOK, Pcs, Modes

\* The manager.  Its steps touch the tasks, the map, the mutex and the pc of one
\* attempt, which they never send to where a target is applied.
LEMMA ManagerFrame ==
  ASSUME TypeOK, Outside,
         watcher' \in [Keys -> TaskStates], cancelled' \subseteq Keys,
         UNCHANGED <<obj, backlog, pending, reachable, edits, faults>>,
         watching' \subseteq Keys, joining' \in Keys \cup {NoKey}, mode' \in Modes,
         \/ pc' = pc
         \/ \E s \in Syncs, next \in Pcs \ {"apply"} : Goto(s, next)
  PROVE  TypeOK'
<1>1. UNCHANGED <<rs, status, cache, feed, past, snap, work, crashes>>
  BY DEF Outside, apiVars, cacheVars, attemptVars
<1>2. /\ pc' \in [Syncs -> Pcs]
      /\ \A x \in Syncs : pc'[x] = "apply" => pc[x] = "apply"
  <2>0. pc \in [Syncs -> Pcs]
    BY DEF TypeOK
  <2>1. ASSUME NEW s \in Syncs, NEW next \in Pcs \ {"apply"}, pc' = [pc EXCEPT ![s] = next]
        PROVE  /\ pc' \in [Syncs -> Pcs]
               /\ \A x \in Syncs : pc'[x] = "apply" => pc[x] = "apply"
    BY <2>0, <2>1
  <2> QED
    BY <2>0, <2>1 DEF Goto
<1>3. WatchTypeOK'
  BY DEF TypeOK, WatchTypeOK
<1> QED
  BY <1>1, <1>2, <1>3 DEF TypeOK

LEMMA RoleFacts ==
  ASSUME NEW role \in {"source", "target"}
  PROVE  {AfterStart(role), AfterStop(role), JoinPc(role)} \subseteq Pcs \ {"apply"}
BY DEF AfterStart, AfterStop, JoinPc, Pcs, StartPcs, RemovalPcs, StopPcs

LEMMA RemoveType ==
  ASSUME TypeOK, NEW k \in Keys, RemoveAndCancel(k)
  PROVE  watching' \subseteq Keys /\ cancelled' \subseteq Keys /\ joining' \in Keys
BY DEF TypeOK, WatchTypeOK, RemoveAndCancel

LEMMA ManagerType ==
  ASSUME TypeOK,
         \/ \E s \in Syncs : InManager(s)
         \/ InShutdown
  PROVE  TypeOK'
<1>0. /\ watcher \in [Keys -> TaskStates] /\ cancelled \subseteq Keys
      /\ watching \subseteq Keys /\ joining \in Keys \cup {NoKey} /\ mode \in Modes
      /\ "stopping" \in Modes /\ "down" \in Modes /\ "starting" \in TaskStates
  BY DEF TypeOK, WatchTypeOK, Modes, TaskStates
<1>1. ASSUME NEW s \in Syncs, NEW role \in {"source", "target"},
             AddIfNotExists(s, role), Outside
      PROVE  TypeOK'
  <2>1. <<s, role>> \in Keys /\ Goto(s, AfterStart(role)) /\ AfterStart(role) \in Pcs \ {"apply"}
    BY <1>1, KeyFacts, RoleFacts DEF AddIfNotExists
  <2>2. watching' \subseteq Keys /\ watcher' \in [Keys -> TaskStates]
    BY <1>0, <1>1, <2>1 DEF AddIfNotExists
  <2>3. UNCHANGED <<obj, backlog, pending, reachable, edits, faults, cancelled, joining, mode>>
    BY <1>1 DEF AddIfNotExists
  <2> QED
    BY <1>0, <1>1, <2>1, <2>2, <2>3, ManagerFrame
<1>2. ASSUME NEW s \in Syncs, NEW role \in {"source", "target"},
             StopAndRemove(s, role), Outside
      PROVE  TypeOK'
  <2>1. <<s, role>> \in Keys /\ JoinPc(role) \in Pcs \ {"apply"} /\ AfterStop(role) \in Pcs \ {"apply"}
    BY KeyFacts, RoleFacts
  <2>2. watching' \subseteq Keys /\ cancelled' \subseteq Keys /\ joining' \in Keys \cup {NoKey}
    BY <1>0, <1>2, <2>1, RemoveType DEF StopAndRemove
  <2>3. Goto(s, JoinPc(role)) \/ Goto(s, AfterStop(role))
    BY <1>2 DEF StopAndRemove
  <2>4. UNCHANGED <<obj, backlog, watcher, pending, reachable, edits, faults, mode>>
    BY <1>2 DEF StopAndRemove
  <2> QED
    BY <1>0, <1>2, <2>1, <2>2, <2>3, <2>4, ManagerFrame
<1>3. ASSUME NEW s \in Syncs, NEW role \in {"source", "target"},
             Join(s, role), Outside
      PROVE  TypeOK'
  <2>1. joining' = NoKey /\ Goto(s, AfterStop(role)) /\ AfterStop(role) \in Pcs \ {"apply"}
    BY <1>3, RoleFacts DEF Join
  <2>2. UNCHANGED <<obj, backlog, watcher, cancelled, pending, reachable, edits, faults, watching, mode>>
    BY <1>3 DEF Join, watchVars
  <2> QED
    BY <1>0, <1>3, <2>1, <2>2, ManagerFrame
<1>4. ASSUME Drained \/ StopAllReturns, Outside PROVE TypeOK'
  <2>1. UNCHANGED <<watching, joining, pc>> /\ UNCHANGED watchVars /\ mode' \in {"stopping", "down"}
    BY <1>4 DEF Drained, StopAllReturns
  <2>2. UNCHANGED <<obj, backlog, watcher, cancelled, pending, reachable, edits, faults>>
    BY <2>1 DEF watchVars
  <2> QED
    BY <1>0, <1>4, <2>1, <2>2, ManagerFrame
<1>5. ASSUME StopAllNext, Outside PROVE TypeOK'
  <2>1. watching' \subseteq Keys /\ cancelled' \subseteq Keys /\ joining' \in Keys \cup {NoKey}
    BY <1>0, <1>5, RemoveType DEF StopAllNext
  <2>2. UNCHANGED <<obj, backlog, watcher, pending, reachable, edits, faults, pc, mode>>
    BY <1>5 DEF StopAllNext
  <2> QED
    BY <1>0, <1>5, <2>1, <2>2, ManagerFrame
<1> QED
  BY <1>1, <1>2, <1>3, <1>4, <1>5 DEF InManager, TakeMutex, JoinAny, InShutdown, Shutdown

\* The ResourceSyncs.
LEMMA VersionFacts ==
  ASSUME NEW v \in Versions
  PROVE  /\ Settled(v) \in Versions
         /\ [v EXCEPT !.phase = "deleting"] \in Versions
         /\ \A F \in SUBSET ({FINALIZER} \cup Foreign) : [v EXCEPT !.fins = F] \in Versions
         /\ \A a, b \in BOOLEAN : [v EXCEPT !.force = a, !.disable = b] \in Versions
BY DEF Versions, Settled, Gone

LEMMA StoreType ==
  ASSUME TypeOK, NEW s \in Syncs, NEW v \in Versions, Store(s, v)
  PROVE  rs' \in [Syncs -> Versions] /\ feed' \in [Syncs -> Seq(Versions)]
<1>1. Settled(v) \in Versions
  BY VersionFacts
<1> QED
  BY <1>1 DEF Store, TypeOK

LEMMA LastOfType ==
  ASSUME NEW V, NEW seq \in Seq(V), NEW n \in Nat
  PROVE  LastOf(seq, n) \in Seq(V)
BY DEF LastOf

LEMMA UserType ==
  ASSUME TypeOK, NEW s \in Syncs, User(s)
  PROVE  TypeOK'
<1> USE DEF TypeOK, WatchTypeOK, Edit, managerVars, attemptVars
<1>1. ASSUME NEW v \in Versions, UserChange(s, v) PROVE TypeOK'
  BY <1>1, StoreType DEF UserChange
<1>2. ASSUME NEW force \in BOOLEAN, NEW disable \in BOOLEAN, CreateSync(s, force, disable)
      PROVE  TypeOK'
  <2>1. [phase |-> "live", uid |-> rs[s].uid + 1, fins |-> {},
         force |-> force, disable |-> disable] \in Versions
    BY <1>2 DEF CreateSync, Versions
  <2>2. NoCondition \in Conditions
    BY DEF NoCondition, Conditions
  <2> QED
    BY <1>2, <2>1, <2>2, StoreType DEF CreateSync
<1>3. ASSUME NEW force \in BOOLEAN, NEW disable \in BOOLEAN, Annotate(s, force, disable)
      PROVE  TypeOK'
  BY <1>1, <1>3, VersionFacts DEF Annotate
<1>4. CASE DeleteSync(s)
  BY <1>1, <1>4, VersionFacts DEF DeleteSync
<1>5. ASSUME NEW f \in Foreign, ForeignClaims(s, f) \/ ForeignReleases(s, f)
      PROVE  TypeOK'
  <2>1. rs[s].fins \cup {f} \in SUBSET ({FINALIZER} \cup Foreign)
    BY DEF Versions
  <2>2. rs[s].fins \ {f} \in SUBSET ({FINALIZER} \cup Foreign)
    BY DEF Versions
  <2> QED
    BY <1>1, <1>5, <2>1, <2>2, VersionFacts DEF ForeignClaims, ForeignReleases
<1> QED
  BY <1>2, <1>3, <1>4, <1>5 DEF User

\* The kube runtime and the garbage collector.
LEMMA ShownType ==
  ASSUME TypeOK, NEW s \in Syncs
  PROVE  Shown(s) \in Seq(Versions) /\ Outdated(s) \in Seq(Versions)
<1>1. Shown(s) \in Seq(Versions)
  BY DEF TypeOK, Shown
<1>2. Shown(s) \o feed[s] \in Seq(Versions)
  BY <1>1 DEF TypeOK
<1>3. \A q \in Seq(Versions) : SubSeq(q, 1, Len(q) - 1) \in Seq(Versions)
  OBVIOUS
<1> QED
  BY <1>1, <1>2, <1>3 DEF Outdated

LEMMA RuntimeType ==
  ASSUME TypeOK, NEW s \in Syncs, Reflect(s) \/ Begin(s) \/ CollectGarbage(s)
  PROVE  TypeOK'
<1> USE DEF TypeOK, WatchTypeOK, managerVars, apiVars, cacheVars, attemptVars
<1>1. CASE Reflect(s)
  <2>1. Head(feed[s]) \in Versions /\ Tail(feed[s]) \in Seq(Versions)
    BY <1>1 DEF Reflect
  <2>2. LastOf(Shown(s), Staleness) \in Seq(Versions)
    BY ShownType, LastOfType
  <2> QED
    BY <1>1, <2>1, <2>2 DEF Reflect
<1>2. CASE Begin(s)
  BY <1>2 DEF Begin, Goto, Pcs
<1>3. CASE CollectGarbage(s)
  BY <1>3, MarkDeletedType DEF CollectGarbage
<1> QED
  BY <1>1, <1>2, <1>3

\* An attempt.
LEMMA WorkFacts ==
  /\ \A w \in Works : /\ w.result \in {"ok", "requeue", "err"}
                      /\ w.live \in Conditions
                      /\ w.data \in Data \cup {NoData}
                      /\ \A r \in {"ok", "requeue", "err"} : [w EXCEPT !.result = r] \in Works
                      /\ \A d \in Data : [w EXCEPT !.data = d] \in Works
                      /\ \A c \in Conditions : [w EXCEPT !.live = c] \in Works
  /\ NoWork \in Works
  /\ Gone(0) \in Versions
<1>1. NoCondition \in Conditions
  BY DEF NoCondition, Conditions
<1>2. NoWork \in Works
  BY <1>1 DEF NoWork, Works
<1>3. Gone(0) \in Versions
  BY DEF Gone, Versions
<1> QED
  BY <1>2, <1>3 DEF Works

LEMMA ReturnType ==
  ASSUME TypeOK, NEW s \in Syncs, NEW r \in {"ok", "requeue", "err"},
         work' = [work EXCEPT ![s].result = r]
  PROVE  work' \in [Syncs -> Works]
BY WorkFacts DEF TypeOK

LEMMA AttemptType ==
  ASSUME TypeOK, NEW s \in Syncs, Attempt(s) \/ Trouble(s)
  PROVE  TypeOK'
<1> USE DEF TypeOK, WatchTypeOK, managerVars, apiVars, cacheVars, attemptVars,
            Fault, Goto, Inert, NoTask, Pcs, StartPcs, StopPcs, RemovalPcs
<1>0. ASSUME Return(s, "err")
      PROVE  /\ pc' \in [Syncs -> Pcs]
             /\ work' \in [Syncs -> Works]
             /\ \A x \in Syncs : pc'[x] = "apply" => work'[x].data \in Data
  BY <1>0, ReturnType DEF Return
<1>1. ASSUME NEW next \in Pcs \ {"apply"}, NEW result \in {"ok", "requeue", "err"},
             Answered(s, next, result)
      PROVE  /\ pc' \in [Syncs -> Pcs]
             /\ work' \in [Syncs -> Works]
             /\ \A x \in Syncs : pc'[x] = "apply" => work'[x].data \in Data
             /\ faults' \in 0..MaxFaults
  <2>1. CASE Goto(s, next) /\ work' = [work EXCEPT ![s].result = result] /\ UNCHANGED faults
    BY <2>1, ReturnType
  <2>2. CASE Fault /\ Return(s, "err")
    BY <1>0, <2>2
  <2> QED
    BY <1>1, <2>1, <2>2 DEF Answered
<1>2. ASSUME NEW result \in {"ok", "requeue", "err"}, Finish(s, result),
             status' \in [Syncs -> Conditions], faults' \in 0..MaxFaults
      PROVE  TypeOK'
  BY <1>2, WorkFacts DEF Finish
<1>3. work[s].result \in {"ok", "requeue", "err"}
  BY WorkFacts
<1>4. CASE Begin(s)
  BY <1>4, RuntimeType
<1>5. CASE Resolve(s)
  BY <1>5 DEF Resolve, Dispatch
<1>6. CASE ResolveFails(s)
  <2>1. CASE LetGo(snap[s])
    <3>1. Goto(s, "stopSource") /\ UNCHANGED work /\ faults' \in 0..MaxFaults
      BY <1>6, <2>1 DEF ResolveFails
    <3> QED
      BY <1>6, <3>1 DEF ResolveFails
  <2>2. CASE ~LetGo(snap[s])
    BY <1>0, <1>6, <2>2 DEF ResolveFails
  <2> QED
    BY <2>1, <2>2
<1>7. CASE RequestFails(s)
  BY <1>0, <1>7 DEF RequestFails
<1>8. CASE GetTarget(s)
  <2>1. AfterGet(obj[TargetOf[s]].phase) \in Pcs \ {"apply"}
    BY ObjectFacts DEF AfterGet
  <2> QED
    BY <1>8, <2>1 DEF GetTarget
<1>9. CASE DeleteTarget(s)
  <2>2. obj' \in [Objects -> ObjectStates] /\ backlog' \in [Keys -> Seq(Events)]
    BY <1>9, MarkDeletedType DEF DeleteTarget
  <2>3. /\ pc' \in [Syncs -> Pcs]
        /\ work' \in [Syncs -> Works]
        /\ \A x \in Syncs : pc'[x] = "apply" => work'[x].data \in Data
        /\ faults' \in 0..MaxFaults
    BY <1>0, <1>1, <1>9 DEF DeleteTarget
  <2> QED
    BY <1>9, <2>2, <2>3 DEF DeleteTarget
<1>10. ASSUME NEW fins \in SUBSET ({FINALIZER} \cup Foreign),
              NEW result \in {"ok", "requeue", "err"}, PatchFinalizers(s, fins, result)
       PROVE  TypeOK'
  <2>1. [rs[s] EXCEPT !.fins = fins] \in Versions
    BY VersionFacts
  <2>2. rs' \in [Syncs -> Versions] /\ feed' \in [Syncs -> Seq(Versions)]
    BY <1>10, <2>1, StoreType DEF PatchFinalizers
  <2>3. /\ pc' \in [Syncs -> Pcs]
        /\ work' \in [Syncs -> Works]
        /\ \A x \in Syncs : pc'[x] = "apply" => work'[x].data \in Data
        /\ faults' \in 0..MaxFaults
    BY <1>0, <1>1, <1>10 DEF PatchFinalizers
  <2> QED
    BY <1>10, <2>2, <2>3 DEF PatchFinalizers
<1>11. CASE RemoveFinalizer(s)
  <2>1. snap[s].fins \ {FINALIZER} \in SUBSET ({FINALIZER} \cup Foreign)
    BY DEF Versions
  <2> QED
    BY <1>10, <1>11, <2>1 DEF RemoveFinalizer, with_item_removed
<1>12. CASE AddFinalizer(s)
  <2>1. snap[s].fins \cup {FINALIZER} \in SUBSET ({FINALIZER} \cup Foreign)
    BY DEF Versions
  <2> QED
    BY <1>10, <1>12, <2>1 DEF AddFinalizer, with_push
<1>13. CASE GetSource(s)
  <2>1. CASE Desired(s) = NoData
    BY <1>0, <1>13, <2>1 DEF GetSource
  <2>2. CASE Desired(s) # NoData
    <3>1. Desired(s) \in Data
      <4>1. obj[SourceOf[s]].phase # "absent" => obj[SourceOf[s]].data \in Data
        BY ObjectFacts
      <4>2. \A d \in Data : MappingOf[s][d] \in Data \cup {NoData}
        OBVIOUS
      <4> QED
        BY <2>2, <4>1, <4>2 DEF Desired
    <3>2. work' = [work EXCEPT ![s].data = Desired(s)] /\ Goto(s, "apply")
      BY <1>13, <2>2 DEF GetSource
    <3>3. work[s] \in Works /\ [work[s] EXCEPT !.data = Desired(s)] \in Works
      BY <3>1, WorkFacts
    <3>5. work' \in [Syncs -> Works] /\ work'[s].data = Desired(s)
      BY <3>2, <3>3 DEF Works
    <3>4. \A x \in Syncs : x # s => work'[x] = work[x]
      BY <3>2
    <3> QED
      BY <1>13, <3>1, <3>2, <3>4, <3>5 DEF GetSource
  <2> QED
    BY <2>1, <2>2
<1>14. CASE Apply(s)
  <2> DEFINE t == TargetOf[s]
             new == [phase |-> IF obj[t].phase = "absent" THEN "live" ELSE obj[t].phase,
                     data |-> work[s].data, by |-> "us", owner |-> <<s, snap[s].uid>>]
  <2>1. /\ obj[t].phase \in {"absent", "live", "deleting"}
        /\ work[s].data \in Data
        /\ snap[s].uid \in 0..MaxUid
    BY <1>14, ObjectFacts DEF Apply, Versions
  <2>2. new \in ObjectStates /\ "us" \in Events
    BY <2>1 DEF ObjectStates, Writers, Events
  <2>3. obj' \in [Objects -> ObjectStates] /\ backlog' \in [Keys -> Seq(Events)]
    BY <1>14, <2>2, PublishType DEF Apply
  <2>4. /\ pc' \in [Syncs -> Pcs]
        /\ work' \in [Syncs -> Works]
        /\ \A x \in Syncs : pc'[x] = "apply" => work'[x].data \in Data
        /\ faults' \in 0..MaxFaults
    BY <1>1, <1>14 DEF Apply
  <2> QED
    BY <1>14, <2>3, <2>4 DEF Apply
<1>15. CASE GetStatus(s)
  <2>1. work' \in [Syncs -> Works]
    BY <1>15, WorkFacts DEF GetStatus
  <2> QED
    BY <1>15, <2>1 DEF GetStatus
<1>16. CASE SkipStatus(s)
  BY <1>2, <1>3, <1>16 DEF SkipStatus
<1>17. CASE PatchStatus(s)
  <2>1. sync_failing_condition(s) \in Conditions
    <3>1. work[s].live \in Conditions
      BY WorkFacts
    <3>2. \A n \in Nat : n % Ticks \in 0..(Ticks - 1)
      OBVIOUS
    <3>3. Generation(snap[s]) \in 0..2
      BY DEF Generation
    <3>4. work[s].live.since \in 0..(Ticks - 1)
      BY <3>1 DEF Conditions
    <3>5. (work[s].live.since + 1) % Ticks \in 0..(Ticks - 1)
      <4>1. work[s].live.since + 1 \in Nat
        BY <3>4
      <4> QED
        BY <3>2, <4>1
    <3> QED
      BY <3>3, <3>4, <3>5 DEF sync_failing_condition, Conditions
  <2>2. status' \in [Syncs -> Conditions]
    BY <1>17, <2>1 DEF PatchStatus
  <2>3. PICK r \in {"ok", "requeue", "err"} : Finish(s, r)
    BY <1>3, <1>17 DEF PatchStatus
  <2>4. faults' \in 0..MaxFaults
    BY <1>17 DEF PatchStatus
  <2> QED
    BY <1>2, <2>2, <2>3, <2>4
<1>18. CASE StatusFails(s)
  BY <1>2, <1>18 DEF StatusFails
<1> QED
  BY <1>4, <1>5, <1>6, <1>7, <1>8, <1>9, <1>11, <1>12, <1>13, <1>14, <1>15, <1>16,
     <1>17, <1>18 DEF Attempt, Trouble

\* The process.
LEMMA BootType ==
  ASSUME TypeOK, Crash \/ Signal \/ Restart \/ \E s \in Syncs : AttemptPanics(s)
  PROVE  TypeOK'
<1>1. ASSUME Boot, crashes' \in 0..MaxCrashes PROVE TypeOK'
  <2>1. PICK behind \in [Syncs -> 0..Staleness] :
          feed' = [s \in Syncs |-> LastOf(Outdated(s), behind[s]) \o <<rs[s]>>]
    BY <1>1 DEF Boot
  <2>2. \A s \in Syncs : LastOf(Outdated(s), behind[s]) \in Seq(Versions) /\ <<rs[s]>> \in Seq(Versions)
    <3> TAKE s \in Syncs
    <3>1. Outdated(s) \in Seq(Versions) /\ behind[s] \in Nat
      BY ShownType
    <3>2. LastOf(Outdated(s), behind[s]) \in Seq(Versions)
      BY <3>1, LastOfType
    <3>3. rs[s] \in Versions
      BY DEF TypeOK
    <3> QED
      BY <3>2, <3>3
  <2>3. feed' \in [Syncs -> Seq(Versions)]
    BY <2>1, <2>2
  <2>4. WatchTypeOK'
    BY <1>1 DEF Boot, TypeOK, WatchTypeOK, TaskStates
  <2>5. /\ cache' \in [Syncs -> Versions]
        /\ past' \in [Syncs -> Seq(Versions)]
        /\ snap' \in [Syncs -> Versions]
        /\ work' \in [Syncs -> Works]
    BY <1>1, WorkFacts DEF Boot
  <2>6. /\ watching' \subseteq Keys
        /\ joining' \in Keys \cup {NoKey}
        /\ pc' = [s \in Syncs |-> "idle"]
        /\ mode' \in Modes
        /\ UNCHANGED <<rs, status>>
    BY <1>1 DEF Boot, Modes, apiVars
  <2> QED
    BY <1>1, <2>3, <2>4, <2>5, <2>6 DEF TypeOK, Pcs
<1>2. CASE Crash
  BY <1>1, <1>2 DEF Crash, TypeOK
<1>3. CASE Restart
  BY <1>1, <1>3 DEF Restart, TypeOK
<1>4. CASE Signal
  BY <1>4 DEF Signal, ShutdownSignal, TypeOK, WatchTypeOK, watchVars, Modes,
              apiVars, cacheVars, attemptVars
<1>5. CASE \E s \in Syncs : AttemptPanics(s)
  BY <1>1, <1>5 DEF AttemptPanics, TypeOK
<1> QED
  BY <1>2, <1>3, <1>4, <1>5

LEMMA TypeNext == TypeOK /\ [Next]_vars => TypeOK'
<1> SUFFICES ASSUME TypeOK, [Next]_vars PROVE TypeOK'
  OBVIOUS
<1>1. ASSUME UNCHANGED managerVars, Outside, WatchTypeOK' PROVE TypeOK'
  BY <1>1 DEF TypeOK, Outside, managerVars, apiVars, cacheVars, attemptVars
<1>2. WatchTypeOK
  BY DEF TypeOK
<1>3. ASSUME NEW s \in Syncs,
             \/ User(s) \/ CollectGarbage(s) \/ Reflect(s)
             \/ Attempt(s) \/ Trouble(s) \/ InManager(s)
      PROVE  TypeOK'
  BY <1>3, UserType, RuntimeType, AttemptType, ManagerType
<1>4. ASSUME NEW k \in Keys, InTask(k) \/ TaskInTrouble(k) PROVE TypeOK'
  BY <1>1, <1>2, <1>4, TaskType DEF InTask, TaskInTrouble
<1>5. CASE InEnvironment
  BY <1>1, <1>2, <1>5, EnvironmentType DEF InEnvironment
<1>6. CASE InShutdown
  BY <1>6, ManagerType
<1>7. CASE Crash \/ Signal \/ Restart \/ \E s \in Syncs : AttemptPanics(s)
  BY <1>7, BootType
<1>8. CASE UNCHANGED vars
  BY <1>8 DEF vars, TypeOK, WatchTypeOK, watchVars, managerVars, apiVars, cacheVars, attemptVars
<1> QED
  BY <1>3, <1>4, <1>5, <1>6, <1>7, <1>8 DEF Next

\* Every variable of the controller, its manager and its tasks keeps its type,
\* and an attempt that is about to apply a target has data to apply.
THEOREM TypeCorrect == Spec => []TypeOK
<1>1. Init => TypeOK
  BY TypeInit
<1>2. TypeOK /\ [Next]_vars => TypeOK'
  BY TypeNext
<1> QED
  BY <1>1, <1>2, PTL DEF Spec

(***************************************************************************)
(* The tasks and the shutdown, under the calls that the controller makes.  *)
(***************************************************************************)

ControllerInv == TypeOK /\ TaskInv

\* The steps of an attempt leave the manager alone; it is entered and left at the
\* places before and after its calls.
LEMMA AttemptOutside ==
  ASSUME TypeOK, TaskInv, NEW s \in Syncs, Attempt(s) \/ Trouble(s)
  PROVE  /\ UNCHANGED <<watcher, cancelled, watching, joining, mode>>
         /\ \A x \in Syncs : MovesOutside(x)
<1>1. UNCHANGED <<watcher, cancelled, watching, joining, mode>>
  BY DEF Attempt, Trouble, Begin, Resolve, ResolveFails, GetTarget, DeleteTarget, RemoveFinalizer,
         AddFinalizer, PatchFinalizers, GetSource, Apply, GetStatus, SkipStatus, PatchStatus,
         StatusFails, RequestFails, Finish, Inert, NoTask
<1>2. \A x \in Syncs : x # s => pc'[x] = pc[x]
  BY DEF TypeOK, Attempt, Trouble, Begin, Resolve, ResolveFails, GetTarget, DeleteTarget, RemoveFinalizer,
         AddFinalizer, PatchFinalizers, GetSource, Apply, GetStatus, SkipStatus, PatchStatus,
         StatusFails, RequestFails, Finish, Answered, Return, Goto
<1>3. pc'[s] \notin {"joinSource", "joinTarget"} \/ pc'[s] = pc[s]
  <2>0. \A next : Goto(s, next) => pc'[s] = next
    BY DEF Goto, TypeOK
  <2>1. obj[TargetOf[s]].phase \in {"absent", "live", "deleting"}
    BY ObjectFacts DEF TypeOK, WatchTypeOK
  <2>2. AfterGet(obj[TargetOf[s]].phase) \notin {"joinSource", "joinTarget"}
    BY <2>1 DEF AfterGet
  <2>3. Dispatch(snap[s]) \notin {"joinSource", "joinTarget"}
    BY DEF Dispatch
  <2>4. CASE Begin(s)
    BY <2>0, <2>4 DEF Begin
  <2>5. CASE Resolve(s) \/ ResolveFails(s) \/ RequestFails(s) \/ GetTarget(s) \/ GetSource(s) \/ GetStatus(s)
    BY <2>0, <2>2, <2>3, <2>5 DEF Resolve, ResolveFails, RequestFails, GetTarget, GetSource, GetStatus, Return
  <2>6. CASE DeleteTarget(s) \/ RemoveFinalizer(s) \/ AddFinalizer(s) \/ Apply(s)
    BY <2>0, <2>6 DEF DeleteTarget, RemoveFinalizer, AddFinalizer, PatchFinalizers, Apply, Answered, Return
  <2>7. CASE SkipStatus(s) \/ PatchStatus(s) \/ StatusFails(s)
    BY <2>0, <2>7 DEF SkipStatus, PatchStatus, StatusFails, Finish
  <2> QED
    BY <2>4, <2>5, <2>6, <2>7 DEF Attempt, Trouble
<1>4. pc[s] # "idle" \/ mode = "up"
  BY DEF Attempt, Trouble, Begin, Resolve, ResolveFails, GetTarget, DeleteTarget, RemoveFinalizer,
         AddFinalizer, GetSource, Apply, GetStatus, SkipStatus, PatchStatus, StatusFails, RequestFails
<1>5. mode \in {"up", "draining"}
  BY <1>4 DEF TypeOK, Modes, TaskInv, DrainedBeforeStop
<1> QED
  BY <1>1, <1>2, <1>3, <1>5 DEF MovesOutside, JoinPc

LEMMA ControllerStep == ControllerInv /\ [Next]_vars => ControllerInv'
<1> SUFFICES ASSUME ControllerInv, [Next]_vars PROVE ControllerInv'
  OBVIOUS
<1>0. TypeOK /\ TaskInv /\ ManagerTypeOK
  BY DEF ControllerInv, TypeOK, WatchTypeOK, ManagerTypeOK
<1>1. TypeOK'
  BY <1>0, TypeNext
<1>2. ASSUME UNCHANGED <<watcher, cancelled>>, UNCHANGED managerVars PROVE TaskInv'
  BY <1>0, <1>2, TasksUntouched, OutsideKeeps DEF managerVars, MovesOutside
<1>3. ASSUME NEW s \in Syncs, User(s) \/ CollectGarbage(s) \/ Reflect(s) PROVE TaskInv'
  BY <1>2, <1>3 DEF User, CreateSync, Annotate, DeleteSync, ForeignClaims, ForeignReleases, UserChange,
                    CollectGarbage, Reflect
<1>4. ASSUME NEW s \in Syncs, Attempt(s) \/ Trouble(s) PROVE TaskInv'
  BY <1>0, <1>4, AttemptOutside, TasksUntouched, OutsideKeeps
<1>5. ASSUME NEW s \in Syncs, InManager(s) PROVE TaskInv'
  BY <1>0, <1>5, CallsKeep DEF InManager
<1>6. ASSUME NEW k \in Keys, InTask(k) \/ TaskInTrouble(k) PROVE TaskInv'
  <2>1. TasksOnlyEnd /\ UNCHANGED <<watching, joining, pc, mode>>
    BY <1>0, <1>6, TaskOnlyEnds DEF InTask, TaskInTrouble, managerVars
  <2> QED
    BY <1>0, <2>1, OutsideKeeps DEF MovesOutside
<1>7. CASE InEnvironment
  <2>1. Environment /\ UNCHANGED managerVars
    BY <1>7 DEF InEnvironment
  <2>2. UNCHANGED <<watcher, cancelled>>
    BY <2>1 DEF Environment, ExternalDelete, DeletionEnds, ExternalWrite, AccessChanges
  <2> QED
    BY <1>1, <1>2, <2>1, <2>2 DEF ControllerInv
<1>8. CASE InShutdown \/ Signal
  <2>1. ShutdownSignal \/ Shutdown
    BY <1>8 DEF InShutdown, Signal
  <2> QED
    BY <1>1, <1>0, <2>1, ShutdownKeeps DEF ControllerInv
<1>9. CASE Crash \/ Restart \/ \E s \in Syncs : AttemptPanics(s)
  <2>1. Boot
    BY <1>9 DEF Crash, Restart, AttemptPanics
  <2>2. /\ \A k \in Keys : watcher'[k] = "none"
        /\ \A s \in Syncs : pc'[s] = "idle"
        /\ cancelled' = {} /\ mode' = "up"
    BY <2>1 DEF Boot
  <2>3. JoinsInOrder'
    BY <2>2, RolePcs DEF JoinsInOrder
  <2>4. TasksAccounted' /\ DrainedBeforeStop'
    BY <2>2 DEF TasksAccounted, DrainedBeforeStop
  <2> QED
    BY <1>1, <2>3, <2>4 DEF TaskInv, ControllerInv
<1>10. CASE UNCHANGED vars
  <2>1. UNCHANGED <<watcher, cancelled>> /\ UNCHANGED managerVars
    BY <1>10 DEF vars, watchVars
  <2> QED
    BY <1>1, <1>2, <2>1 DEF ControllerInv
<1> QED
  BY <1>1, <1>3, <1>4, <1>5, <1>6, <1>7, <1>8, <1>9, <1>10 DEF Next, ControllerInv

LEMMA ControllerInvariant == Spec => []ControllerInv
<1>1. Init => ControllerInv
  BY TypeInit, TaskInitial DEF Init, ControllerInv
<1> QED
  BY <1>1, ControllerStep, PTL DEF Spec

\* With the calls that reconcile_helper makes, its lost answers and failed requests,
\* crashes, panics and shutdowns: every running task is in the map, or cancelled and
\* waited for.
THEOREM ControllerLeaksNoTask == Spec => []TasksAccounted
<1>1. ControllerInv => TasksAccounted
  BY DEF ControllerInv, TaskInv
<1> QED
  BY <1>1, ControllerInvariant, PTL

\* run_with_metrics stops the watches when the running reconciliations are finished,
\* and leaves no task behind.
THEOREM ControllerShutsDownInOrder == Spec => []DrainedBeforeStop
<1>1. ControllerInv => DrainedBeforeStop
  BY DEF ControllerInv, TaskInv
<1> QED
  BY <1>1, ControllerInvariant, PTL

(***************************************************************************)
(* What a step may change of a sync.                                       *)
(***************************************************************************)

Untouched(s) ==
  /\ pc'[s] = pc[s] /\ rs'[s] = rs[s] /\ status'[s] = status[s]
  /\ cache'[s] = cache[s] /\ feed'[s] = feed[s] /\ past'[s] = past[s]
  /\ snap'[s] = snap[s] /\ work'[s] = work[s]

\* A user stores a version, and the status of a new ResourceSync is empty.
LEMMA UserFacts ==
  ASSUME NEW x \in Syncs, User(x)
  PROVE  /\ \E v : Store(x, v)
         /\ UNCHANGED <<obj, pc, work, snap, cache, past>>
         /\ status' = status \/ status' = [status EXCEPT ![x] = NoCondition]
<1> USE DEF managerVars, attemptVars
<1>1. ASSUME NEW v, UserChange(x, v)
      PROVE  Store(x, v) /\ UNCHANGED <<obj, pc, work, snap, cache, past, status>>
  BY <1>1 DEF UserChange
<1>2. ASSUME NEW force \in BOOLEAN, NEW disable \in BOOLEAN, CreateSync(x, force, disable)
      PROVE  /\ \E v : Store(x, v)
             /\ UNCHANGED <<obj, pc, work, snap, cache, past>>
             /\ status' = [status EXCEPT ![x] = NoCondition]
  BY <1>2 DEF CreateSync
<1>3. \/ \E force, disable \in BOOLEAN : CreateSync(x, force, disable)
      \/ \E v : UserChange(x, v)
  BY DEF User, DeleteSync, Annotate, ForeignClaims, ForeignReleases
<1> QED
  BY <1>1, <1>2, <1>3

\* A sync is touched by its users, its reflector, its own attempts and the end of
\* the process, and by nothing else.
LEMMA StepsOfOthers ==
  ASSUME TypeOK, NEW s \in Syncs, [Next]_vars
  PROVE  \/ User(s) \/ Reflect(s) \/ Attempt(s) \/ Trouble(s) \/ InManager(s)
         \/ Boot
         \/ Untouched(s)
<1> USE DEF Untouched, TypeOK, managerVars, apiVars, cacheVars, attemptVars
<1>1. ASSUME NEW x \in Syncs, x # s, User(x) PROVE Untouched(s)
  <2>1. PICK v : Store(x, v)
    BY <1>1, UserFacts
  <2>2. rs'[s] = rs[s] /\ feed'[s] = feed[s]
    BY <1>1, <2>1 DEF Store
  <2> QED
    BY <1>1, <2>2, UserFacts
<1>2. ASSUME NEW x \in Syncs, x # s, Reflect(x) \/ Begin(x) PROVE Untouched(s)
  BY <1>2 DEF Reflect, Begin, Goto
<1>3. ASSUME NEW x \in Syncs, CollectGarbage(x) PROVE Untouched(s)
  BY <1>3 DEF CollectGarbage
<1>4. ASSUME NEW x \in Syncs, x # s, InManager(x) PROVE Untouched(s)
  BY <1>4 DEF InManager, Outside, TakeMutex, JoinAny, AddIfNotExists, StopAndRemove, Join, Goto
<1>5. ASSUME NEW x \in Syncs, x # s,
             \/ Resolve(x) \/ ResolveFails(x) \/ RequestFails(x)
             \/ GetTarget(x) \/ DeleteTarget(x) \/ GetSource(x) \/ Apply(x) \/ GetStatus(x)
      PROVE  Untouched(s)
  BY <1>5 DEF Resolve, ResolveFails, RequestFails, GetTarget, DeleteTarget, GetSource, Apply, GetStatus,
              Answered, Return, Goto, Inert
<1>6. ASSUME NEW x \in Syncs, x # s, AddFinalizer(x) \/ RemoveFinalizer(x) PROVE Untouched(s)
  BY <1>6 DEF AddFinalizer, RemoveFinalizer, PatchFinalizers, Store, Answered, Return, Goto, Inert
<1>7. ASSUME NEW x \in Syncs, x # s, SkipStatus(x) \/ PatchStatus(x) \/ StatusFails(x) PROVE Untouched(s)
  BY <1>7 DEF SkipStatus, PatchStatus, StatusFails, Finish, Goto
<1>8. CASE \/ \E k \in Keys : InTask(k) \/ TaskInTrouble(k)
           \/ InEnvironment \/ InShutdown \/ Signal \/ UNCHANGED vars
  <2>1. UNCHANGED <<pc, rs, status, cache, feed, past, snap, work>>
    BY <1>8 DEF InTask, TaskInTrouble, InEnvironment, InShutdown, Shutdown, Drained, StopAllNext,
                StopAllReturns, Signal, ShutdownSignal, Outside, vars
  <2> QED
    BY <2>1
<1>9. ASSUME NEW x \in Syncs, x # s, Attempt(x) \/ Trouble(x) PROVE Untouched(s)
  BY <1>2, <1>5, <1>6, <1>7, <1>9 DEF Attempt, Trouble
<1>10. CASE Crash \/ Restart \/ \E x \in Syncs : AttemptPanics(x)
  BY <1>10 DEF Crash, Restart, AttemptPanics
<1> HIDE DEF Untouched
<1> QED
  BY <1>1, <1>2, <1>3, <1>4, <1>8, <1>9, <1>10 DEF Next

(***************************************************************************)
(* The time of the condition.                                              *)
(***************************************************************************)

\* The condition an attempt has read is still the stored one when it is patched,
\* unless the ResourceSync has been replaced by one without a condition.
StatusFresh(s) ==
  pc[s] = "patchStatus" => work[s].live = status[s] \/ status[s].value = "none"

FreshInv == TypeOK /\ \A s \in Syncs : StatusFresh(s)

LEMMA FreshStep == FreshInv /\ [Next]_vars => FreshInv'
<1> SUFFICES ASSUME FreshInv, [Next]_vars PROVE FreshInv'
  OBVIOUS
<1>0. TypeOK /\ TypeOK'
  BY TypeNext DEF FreshInv
<1>1. ASSUME NEW s \in Syncs PROVE StatusFresh(s)'
  <2>0. StatusFresh(s) /\ pc \in [Syncs -> Pcs] /\ status \in [Syncs -> Conditions] /\ work \in [Syncs -> Works]
    BY <1>0 DEF FreshInv, TypeOK
  <2>1. CASE User(s)
    BY <2>0, <2>1, UserFacts DEF StatusFresh, NoCondition
  <2>2. CASE Reflect(s)
    BY <2>0, <2>2 DEF Reflect, StatusFresh, managerVars, apiVars, attemptVars
  <2>3. CASE InManager(s)
    <3>1. pc'[s] # "patchStatus" /\ UNCHANGED <<status, work>>
      BY <2>0, <2>3 DEF InManager, Outside, TakeMutex, JoinAny, AddIfNotExists, StopAndRemove, Join, Goto,
                        AfterStart, AfterStop, JoinPc, apiVars, attemptVars
    <3> QED
      BY <3>1 DEF StatusFresh
  <2>4. CASE GetStatus(s)
    <3>1. work[s] \in Works
      BY <2>0
    <3>2. work'[s] = [work[s] EXCEPT !.live = status[s]] /\ status' = status
      BY <2>0, <2>4 DEF GetStatus
    <3> QED
      BY <3>1, <3>2 DEF StatusFresh, Works
  <2>5. CASE (Attempt(s) \/ Trouble(s)) /\ ~GetStatus(s)
    <3>0. \A next : Goto(s, next) => pc'[s] = next
      BY <2>0 DEF Goto
    <3>1. obj[TargetOf[s]].phase \in {"absent", "live", "deleting"}
      BY <1>0, ObjectFacts DEF TypeOK, WatchTypeOK
    <3>2. AfterGet(obj[TargetOf[s]].phase) # "patchStatus" /\ Dispatch(snap[s]) # "patchStatus"
      BY <3>1 DEF AfterGet, Dispatch
    <3>3. ASSUME Begin(s) PROVE pc'[s] # "patchStatus"
      BY <3>0, <3>3 DEF Begin
    <3>4. ASSUME \/ Resolve(s) \/ ResolveFails(s) \/ RequestFails(s) \/ GetTarget(s) \/ GetSource(s)
          PROVE  pc'[s] # "patchStatus"
      BY <3>0, <3>2, <3>4 DEF Resolve, ResolveFails, RequestFails, GetTarget, GetSource, Return
    <3>5. ASSUME DeleteTarget(s) \/ RemoveFinalizer(s) \/ AddFinalizer(s) \/ Apply(s)
          PROVE  pc'[s] # "patchStatus"
      BY <3>0, <3>5 DEF DeleteTarget, RemoveFinalizer, AddFinalizer, PatchFinalizers, Apply, Answered, Return
    <3>6. ASSUME SkipStatus(s) \/ PatchStatus(s) \/ StatusFails(s) PROVE pc'[s] # "patchStatus"
      BY <3>0, <3>6 DEF SkipStatus, PatchStatus, StatusFails, Finish
    <3> QED
      BY <2>5, <3>3, <3>4, <3>5, <3>6 DEF Attempt, Trouble, StatusFresh
  <2>6. CASE Boot
    BY <2>6 DEF Boot, StatusFresh
  <2>7. CASE Untouched(s)
    BY <2>0, <2>7 DEF Untouched, StatusFresh
  <2> QED
    BY <1>0, <2>1, <2>2, <2>3, <2>4, <2>5, <2>6, <2>7, StepsOfOthers
<1> QED
  BY <1>0, <1>1 DEF FreshInv

\* The status is written by PatchStatus, and cleared with a new ResourceSync.
LEMMA StatusWriters ==
  ASSUME TypeOK, NEW s \in Syncs, [Next]_vars, ~PatchStatus(s)
  PROVE  status'[s] = status[s] \/ status'[s].value = "none"
<1>1. CASE User(s)
  BY <1>1, UserFacts DEF TypeOK, NoCondition
<1>2. CASE Reflect(s) \/ InManager(s)
  BY <1>2 DEF Reflect, InManager, Outside, apiVars
<1>3. CASE Attempt(s) \/ Trouble(s)
  BY <1>3 DEF Attempt, Trouble, Begin, Resolve, ResolveFails, GetTarget, DeleteTarget, RemoveFinalizer,
              AddFinalizer, PatchFinalizers, GetSource, Apply, GetStatus, SkipStatus, StatusFails,
              RequestFails, apiVars
<1>4. CASE Boot \/ Untouched(s)
  BY <1>4 DEF Boot, Untouched, apiVars
<1> QED
  BY <1>1, <1>2, <1>3, <1>4, StepsOfOthers

\* sync_failing_transition_time: lastTransitionTime moves exactly when the value of
\* the condition flips, however stale the cached ResourceSync is and whatever
\* happens between the read and the patch of the status; provided that a new time
\* can be told from the old one.
THEOREM TransitionTimes ==
  ASSUME Ticks > 1
  PROVE  Spec => TimeMovesOnFlip
<1>1. Init => FreshInv
  BY TypeInit DEF FreshInv, StatusFresh, Init, ManagerInit
<1>2. FreshInv /\ [Next]_vars =>
        [\A s \in Syncs :
           (rs'[s].uid = rs[s].uid /\ status[s].value # "none" /\ status'[s].value # "none")
             => (status'[s].since # status[s].since <=> status'[s].value # status[s].value)]_vars
  <2> SUFFICES ASSUME FreshInv, [Next]_vars, NEW s \in Syncs,
                      status[s].value # "none", status'[s].value # "none"
               PROVE  status'[s].since # status[s].since <=> status'[s].value # status[s].value
    OBVIOUS
  <2>1. TypeOK /\ StatusFresh(s) /\ status[s] \in Conditions
    BY DEF FreshInv, TypeOK
  <2>2. CASE ~PatchStatus(s)
    BY <2>1, <2>2, StatusWriters
  <2>3. CASE PatchStatus(s)
    <3>1. status'[s] = sync_failing_condition(s) /\ work[s].live = status[s]
      BY <2>1, <2>3 DEF PatchStatus, StatusFresh, TypeOK
    <3>2. \A n \in 0..(Ticks - 1) : (n + 1) % Ticks # n
      <4> TAKE n \in 0..(Ticks - 1)
      <4>1. CASE n = Ticks - 1
        BY <4>1
      <4>2. CASE n + 1 \in 0..(Ticks - 1)
        BY <4>2
      <4> QED
        BY <4>1, <4>2
    <3>3. status[s].since \in 0..(Ticks - 1)
      BY <2>1 DEF Conditions
    <3>4. (status[s].since + 1) % Ticks # status[s].since
      BY <3>2, <3>3
    <3> QED
      BY <3>1, <3>4 DEF sync_failing_condition
  <2> QED
    BY <2>2, <2>3
<1> QED
  BY <1>1, <1>2, FreshStep, PTL DEF Spec, TimeMovesOnFlip

(***************************************************************************)
(* The finalizers of others.                                               *)
(***************************************************************************)

Elements(q) == {q[i] : i \in 1..Len(q)}

\* The versions of s that are or may again be shown to the controller, those that a
\* stale list brings back included.
History(s) == {cache[s], snap[s], rs[s]} \cup Elements(feed[s]) \cup Elements(past[s])

\* What is stored is no older than v; and from the deletion on, the list of
\* finalizers has only become shorter.
Outlived(s, v) ==
  /\ v.uid <= rs[s].uid
  /\ (v.uid = rs[s].uid /\ v.phase = "deleting")
       => rs[s].phase # "live" /\ rs[s].fins \subseteq v.fins

HistoryOutlived(s) == \A v \in History(s) : Outlived(s, v)

\* On the way to removing the finalizer, the attempt works on a deleted version.
DeletionSeen(s) ==
  pc[s] \in RemovalPcs \cup {"getTarget", "deleteTarget"} => snap[s].phase = "deleting"

ForeignInv == TypeOK /\ \A s \in Syncs : HistoryOutlived(s) /\ DeletionSeen(s)

LEMMA ElementsAdded ==
  ASSUME NEW p \in Seq(Versions), NEW q \in Seq(Versions), NEW v \in Versions
  PROVE  /\ Elements(p \o q) \subseteq Elements(p) \cup Elements(q)
         /\ Elements(Append(p, v)) \subseteq Elements(p) \cup {v}
         /\ Elements(<<v>>) = {v}
<1>1. Elements(p \o q) \subseteq Elements(p) \cup Elements(q)
  BY DEF Elements
<1>2. Elements(Append(p, v)) \subseteq Elements(p) \cup {v}
  BY DEF Elements
<1>3. Elements(<<v>>) = {v}
  BY DEF Elements
<1> QED
  BY <1>1, <1>2, <1>3

LEMMA ElementsTaken ==
  ASSUME NEW p \in Seq(Versions)
  PROVE  /\ Elements(p) \subseteq Versions
         /\ p # <<>> => Head(p) \in Elements(p) /\ Elements(Tail(p)) \subseteq Elements(p)
         /\ Elements(SubSeq(p, 1, Len(p) - 1)) \subseteq Elements(p)
         /\ \A n \in Nat : Elements(LastOf(p, n)) \subseteq Elements(p)
<1>1. Elements(p) \subseteq Versions
  BY DEF Elements
<1>2. p # <<>> => Head(p) \in Elements(p) /\ Elements(Tail(p)) \subseteq Elements(p)
  BY DEF Elements
<1>3. \A a, b \in Nat : (1 <= a /\ b <= Len(p)) => Elements(SubSeq(p, a, b)) \subseteq Elements(p)
  <2> SUFFICES ASSUME NEW a \in Nat, NEW b \in Nat, 1 <= a, b <= Len(p),
                      NEW i \in 1..Len(SubSeq(p, a, b))
               PROVE  SubSeq(p, a, b)[i] \in Elements(p)
    BY DEF Elements
  <2>1. a + i - 1 \in 1..Len(p) /\ SubSeq(p, a, b)[i] = p[a + i - 1]
    OBVIOUS
  <2> QED
    BY <2>1 DEF Elements
<1>4. Elements(SubSeq(p, 1, Len(p) - 1)) \subseteq Elements(p)
  <2>1. CASE Len(p) = 0
    BY <2>1 DEF Elements
  <2>2. CASE Len(p) > 0
    BY <1>3, <2>2
  <2> QED
    BY <2>1, <2>2
<1>5. ASSUME NEW n \in Nat PROVE Elements(LastOf(p, n)) \subseteq Elements(p)
  <2>1. CASE Len(p) <= n
    BY <2>1 DEF LastOf
  <2>2. CASE Len(p) > n
    BY <1>3, <2>2 DEF LastOf
  <2> QED
    BY <2>1, <2>2
<1> QED
  BY <1>1, <1>2, <1>4, <1>5

\* What the reflector has shown and has to show is history.
LEMMA ShownHistory ==
  ASSUME TypeOK, NEW s \in Syncs
  PROVE  Elements(Shown(s)) \subseteq History(s) /\ Elements(Outdated(s)) \subseteq History(s)
<1>1. /\ past[s] \in Seq(Versions) /\ feed[s] \in Seq(Versions) /\ cache[s] \in Versions
      /\ Shown(s) \in Seq(Versions) /\ Shown(s) \o feed[s] \in Seq(Versions)
  BY ShownType DEF TypeOK
<1>2. Elements(Shown(s)) \subseteq Elements(past[s]) \cup {cache[s]}
  BY <1>1, ElementsAdded DEF Shown
<1>3. Elements(Shown(s) \o feed[s]) \subseteq Elements(Shown(s)) \cup Elements(feed[s])
  BY <1>1, ElementsAdded
<1>4. Elements(Outdated(s)) \subseteq Elements(Shown(s) \o feed[s])
  BY <1>1, ElementsTaken DEF Outdated
<1> QED
  BY <1>2, <1>3, <1>4 DEF History

LEMMA HistoryType ==
  ASSUME TypeOK, NEW s \in Syncs, NEW v \in History(s)
  PROVE  v \in Versions /\ v.uid \in Nat
<1>1. v \in Versions
  BY ElementsTaken DEF TypeOK, History
<1> QED
  BY <1>1 DEF Versions

\* Versions are shown, forgotten and shown again.
LEMMA HistoryFrame ==
  ASSUME TypeOK, NEW s \in Syncs, HistoryOutlived(s), rs'[s] = rs[s],
         History(s)' \subseteq History(s) \cup {Gone(0)}
  PROVE  HistoryOutlived(s)'
<1>1. Gone(0).uid <= rs[s].uid /\ Gone(0).phase # "deleting"
  BY DEF TypeOK, Versions, Gone
<1> QED
  BY <1>1 DEF HistoryOutlived, Outlived

\* A version is stored: the one of a new incarnation, or one that is still deleted,
\* with no more finalizers, if the stored one was.
LEMMA HistoryStore ==
  ASSUME TypeOK, NEW s \in Syncs, HistoryOutlived(s), NEW v \in Versions, Store(s, v),
         cache'[s] = cache[s], past'[s] = past[s], snap'[s] = snap[s],
         \/ v.uid > rs[s].uid
         \/ /\ v.uid = rs[s].uid
            /\ rs[s].phase # "live" => v.phase # "live" /\ v.fins \subseteq rs[s].fins
  PROVE  HistoryOutlived(s)'
<1> DEFINE nv == Settled(v)
<1>1. nv \in Versions /\ rs[s] \in Versions /\ feed[s] \in Seq(Versions)
  BY VersionFacts DEF TypeOK
<1>2. /\ nv.uid = v.uid
      /\ nv.phase = "live" => v.phase = "live"
      /\ nv.fins \subseteq v.fins
  BY DEF Settled, Gone
<1>3. /\ rs'[s] = nv
      /\ feed'[s] = feed[s] \/ feed'[s] = Append(feed[s], nv)
  BY DEF Store, TypeOK
<1> HIDE DEF nv
<1>4. Elements(feed'[s]) \subseteq Elements(feed[s]) \cup {nv}
  BY <1>1, <1>3, ElementsAdded
<1>5. History(s)' \subseteq History(s) \cup {nv}
  BY <1>3, <1>4 DEF History, Elements
<1>6. \A w \in History(s) : w.uid \in Nat /\ Outlived(s, w)
  BY HistoryType DEF HistoryOutlived
<1>7. nv.uid \in Nat /\ rs[s].uid \in Nat
  BY <1>1 DEF Versions
<1>8. ASSUME NEW w \in History(s) PROVE Outlived(s, w)'
  <2>1. w.uid <= nv.uid
    BY <1>2, <1>6, <1>7 DEF Outlived
  <2>2. ASSUME w.uid = nv.uid, w.phase = "deleting"
        PROVE  nv.phase # "live" /\ nv.fins \subseteq w.fins
    <3>1. v.uid = rs[s].uid /\ w.uid = rs[s].uid
      BY <1>2, <1>6, <1>7, <2>2 DEF Outlived
    <3>2. rs[s].phase # "live" /\ rs[s].fins \subseteq w.fins
      BY <1>6, <2>2, <3>1 DEF Outlived
    <3>3. v.phase # "live" /\ v.fins \subseteq rs[s].fins
      BY <1>7, <3>1, <3>2
    <3> QED
      BY <1>2, <3>2, <3>3
  <2> QED
    BY <1>3, <2>1, <2>2 DEF Outlived
<1>9. Outlived(s, nv)'
  BY <1>3, <1>7 DEF Outlived
<1> QED
  BY <1>5, <1>8, <1>9 DEF HistoryOutlived

LEMMA HistoryUser ==
  ASSUME TypeOK, NEW s \in Syncs, HistoryOutlived(s), User(s)
  PROVE  HistoryOutlived(s)'
<1>0. rs[s] \in Versions /\ UNCHANGED <<cache, past, snap>>
  BY UserFacts DEF TypeOK
<1>1. ASSUME NEW force \in BOOLEAN, NEW disable \in BOOLEAN, CreateSync(s, force, disable)
      PROVE  HistoryOutlived(s)'
  <2> DEFINE v == [phase |-> "live", uid |-> rs[s].uid + 1, fins |-> {},
                   force |-> force, disable |-> disable]
  <2>1. v \in Versions /\ v.uid > rs[s].uid
    BY <1>0, <1>1 DEF CreateSync, Versions
  <2>2. Store(s, v)
    BY <1>1 DEF CreateSync
  <2> HIDE DEF v
  <2> QED
    BY <1>0, <2>1, <2>2, HistoryStore
<1>2. ASSUME NEW force \in BOOLEAN, NEW disable \in BOOLEAN, Annotate(s, force, disable)
      PROVE  HistoryOutlived(s)'
  <2> DEFINE v == [rs[s] EXCEPT !.force = force, !.disable = disable]
  <2>1. v \in Versions /\ v.uid = rs[s].uid /\ v.phase = rs[s].phase /\ v.fins = rs[s].fins
    BY <1>0 DEF Versions
  <2>2. Store(s, v)
    BY <1>2 DEF Annotate, UserChange
  <2> HIDE DEF v
  <2> QED
    BY <1>0, <2>1, <2>2, HistoryStore
<1>3. CASE DeleteSync(s)
  <2> DEFINE v == [rs[s] EXCEPT !.phase = "deleting"]
  <2>1. v \in Versions /\ v.uid = rs[s].uid /\ rs[s].phase = "live"
    BY <1>0, <1>3 DEF Versions, DeleteSync
  <2>2. Store(s, v)
    BY <1>3 DEF DeleteSync, UserChange
  <2> HIDE DEF v
  <2> QED
    BY <1>0, <2>1, <2>2, HistoryStore
<1>4. ASSUME NEW f \in Foreign, ForeignClaims(s, f) \/ ForeignReleases(s, f) PROVE HistoryOutlived(s)'
  <2>1. PICK F \in {rs[s].fins \cup {f}, rs[s].fins \ {f}} :
          /\ UserChange(s, [rs[s] EXCEPT !.fins = F])
          /\ rs[s].phase = "live" \/ F \subseteq rs[s].fins
    BY <1>4 DEF ForeignClaims, ForeignReleases
  <2> DEFINE v == [rs[s] EXCEPT !.fins = F]
  <2>2. F \in SUBSET ({FINALIZER} \cup Foreign)
    BY <1>0, <2>1 DEF Versions
  <2>3. v \in Versions /\ v.uid = rs[s].uid /\ v.phase = rs[s].phase /\ v.fins = F
    BY <1>0, <2>2 DEF Versions
  <2>4. Store(s, v)
    BY <2>1 DEF UserChange
  <2> HIDE DEF v
  <2> QED
    BY <1>0, <2>1, <2>3, <2>4, HistoryStore
<1> QED
  BY <1>1, <1>2, <1>3, <1>4 DEF User

\* A patch of the finalizers of a deleted ResourceSync only takes some away, or is
\* refused.
LEMMA HistoryPatch ==
  ASSUME TypeOK, NEW s \in Syncs, HistoryOutlived(s), AddFinalizer(s) \/ RemoveFinalizer(s)
  PROVE  HistoryOutlived(s)'
<1>0. rs[s] \in Versions /\ snap[s] \in Versions /\ UNCHANGED <<cache, past, snap>>
  BY DEF TypeOK, AddFinalizer, RemoveFinalizer, PatchFinalizers, Inert
<1>1. PICK F \in {snap[s].fins \cup {FINALIZER}, snap[s].fins \ {FINALIZER}} :
        \/ Patchable(s, F) /\ Store(s, [rs[s] EXCEPT !.fins = F])
        \/ UNCHANGED <<rs, feed>>
  BY DEF AddFinalizer, RemoveFinalizer, PatchFinalizers, with_push, with_item_removed
<1>2. CASE UNCHANGED <<rs, feed>>
  <2>1. History(s)' = History(s)
    BY <1>0, <1>2 DEF History, Elements
  <2> QED
    BY <1>2, <2>1, HistoryFrame
<1>3. CASE Patchable(s, F) /\ Store(s, [rs[s] EXCEPT !.fins = F])
  <2> DEFINE v == [rs[s] EXCEPT !.fins = F]
  <2>1. F \in SUBSET ({FINALIZER} \cup Foreign)
    BY <1>0, <1>1 DEF Versions
  <2>2. v \in Versions /\ v.uid = rs[s].uid /\ v.phase = rs[s].phase /\ v.fins = F
    BY <1>0, <2>1 DEF Versions
  <2>3. rs[s].phase # "live" => F \subseteq rs[s].fins
    BY <1>0, <1>3 DEF Patchable, Versions
  <2> HIDE DEF v
  <2> QED
    BY <1>0, <1>3, <2>2, <2>3, HistoryStore DEF v
<1> QED
  BY <1>1, <1>2, <1>3

LEMMA HistoryStep ==
  ASSUME TypeOK, NEW s \in Syncs, HistoryOutlived(s), [Next]_vars
  PROVE  HistoryOutlived(s)'
<1> USE DEF Inert, cacheVars, apiVars, attemptVars
<1>1. CASE Reflect(s)
  <2>1. /\ feed[s] \in Seq(Versions) /\ feed[s] # <<>> /\ cache'[s] = Head(feed[s])
        /\ feed'[s] = Tail(feed[s]) /\ past'[s] = LastOf(Shown(s), Staleness)
        /\ UNCHANGED <<rs, snap>>
    BY <1>1 DEF Reflect, TypeOK
  <2>2. Head(feed[s]) \in Elements(feed[s]) /\ Elements(feed'[s]) \subseteq Elements(feed[s])
    BY <2>1, ElementsTaken
  <2>3. Elements(past'[s]) \subseteq Elements(Shown(s))
    BY <2>1, ShownType, ElementsTaken
  <2>4. History(s)' \subseteq History(s)
    BY <2>1, <2>2, <2>3, ShownHistory DEF History, Elements
  <2> QED
    BY <2>1, <2>4, HistoryFrame
<1>2. CASE Boot
  <2>1. PICK behind \in [Syncs -> 0..Staleness] :
          feed' = [x \in Syncs |-> LastOf(Outdated(x), behind[x]) \o <<rs[x]>>]
    BY <1>2 DEF Boot
  <2>2. Elements(feed'[s]) \subseteq Elements(Outdated(s)) \cup {rs[s]}
    <3>1. behind[s] \in Nat /\ Outdated(s) \in Seq(Versions) /\ rs[s] \in Versions
      BY ShownType DEF TypeOK
    <3>2. LastOf(Outdated(s), behind[s]) \in Seq(Versions) /\ <<rs[s]>> \in Seq(Versions)
      BY <3>1, LastOfType
    <3>3. feed'[s] = LastOf(Outdated(s), behind[s]) \o <<rs[s]>>
      BY <2>1
    <3>4. Elements(feed'[s]) \subseteq Elements(LastOf(Outdated(s), behind[s])) \cup Elements(<<rs[s]>>)
      BY <3>1, <3>2, <3>3, ElementsAdded
    <3>5. /\ Elements(LastOf(Outdated(s), behind[s])) \subseteq Elements(Outdated(s))
          /\ Elements(<<rs[s]>>) = {rs[s]}
      BY <3>1, ElementsAdded, ElementsTaken
    <3> QED
      BY <3>4, <3>5
  <2>3. rs' = rs /\ cache'[s] = Gone(0) /\ snap'[s] = Gone(0) /\ past'[s] = <<>>
    BY <1>2 DEF Boot
  <2>4. Elements(past'[s]) = {}
    BY <2>3 DEF Elements
  <2>5. History(s)' \subseteq History(s) \cup {Gone(0)}
    BY <2>2, <2>3, <2>4, ShownHistory DEF History, Elements
  <2> QED
    BY <2>3, <2>5, HistoryFrame
<1>3. ASSUME rs'[s] = rs[s], cache'[s] = cache[s], feed'[s] = feed[s], past'[s] = past[s],
             snap'[s] \in {snap[s], cache[s], Gone(0)}
      PROVE  HistoryOutlived(s)'
  <2>1. History(s)' \subseteq History(s) \cup {Gone(0)}
    BY <1>3 DEF History, Elements
  <2> QED
    BY <1>3, <2>1, HistoryFrame
<1>4. CASE Attempt(s) \/ Trouble(s)
  <2>1. CASE Begin(s)
    BY <1>3, <2>1 DEF Begin, TypeOK
  <2>2. CASE SkipStatus(s) \/ PatchStatus(s) \/ StatusFails(s)
    <3>1. \E r : Finish(s, r)
      BY <2>2 DEF SkipStatus, PatchStatus, StatusFails
    <3> QED
      BY <1>3, <3>1 DEF Finish, TypeOK
  <2>3. CASE \/ Resolve(s) \/ ResolveFails(s) \/ RequestFails(s)
             \/ GetTarget(s) \/ DeleteTarget(s) \/ GetSource(s) \/ Apply(s) \/ GetStatus(s)
    <3>1. UNCHANGED <<rs, cache, feed, past, snap>>
      BY <2>3 DEF Resolve, ResolveFails, RequestFails, GetTarget, DeleteTarget, GetSource, Apply, GetStatus
    <3> QED
      BY <1>3, <3>1
  <2>4. CASE AddFinalizer(s) \/ RemoveFinalizer(s)
    BY <2>4, HistoryPatch
  <2> QED
    BY <1>4, <2>1, <2>2, <2>3, <2>4 DEF Attempt, Trouble
<1>5. CASE InManager(s)
  BY <1>3, <1>5 DEF InManager, Outside
<1>6. CASE Untouched(s)
  BY <1>3, <1>6 DEF Untouched
<1> QED
  BY <1>1, <1>2, <1>4, <1>5, <1>6, HistoryUser, StepsOfOthers

LEMMA DeletionSeenStep ==
  ASSUME TypeOK, NEW s \in Syncs, DeletionSeen(s), [Next]_vars
  PROVE  DeletionSeen(s)'
<1> USE DEF DeletionSeen, RemovalPcs, StopPcs
<1>0. \A next : Goto(s, next) => pc'[s] = next
  BY DEF Goto, TypeOK
<1>1. CASE User(s)
  BY <1>1, UserFacts
<1>2. CASE Reflect(s)
  BY <1>2 DEF Reflect, managerVars, attemptVars
<1>3. CASE InManager(s)
  <2>1. UNCHANGED snap
    BY <1>3 DEF InManager, Outside, attemptVars
  <2>2. ASSUME NEW role \in {"source", "target"}, AddIfNotExists(s, role)
        PROVE  pc'[s] \in {"startTarget", "done"}
    BY <1>0, <2>2 DEF AddIfNotExists, AfterStart
  <2>3. ASSUME NEW role \in {"source", "target"}, StopAndRemove(s, role) \/ Join(s, role)
        PROVE  pc[s] \in RemovalPcs
    BY <2>3 DEF StopAndRemove, Join, StopPc, JoinPc
  <2> QED
    BY <1>3, <2>1, <2>2, <2>3 DEF InManager, TakeMutex, JoinAny
<1>4. CASE Resolve(s) \/ ResolveFails(s)
  <2>1. /\ UNCHANGED snap
        /\ \/ pc'[s] = "done"
           \/ pc'[s] = Dispatch(snap[s])
           \/ LetGo(snap[s])
    BY <1>0, <1>4 DEF Resolve, ResolveFails, Return, Inert
  <2> QED
    BY <2>1 DEF Dispatch, LetGo, has_been_deleted
<1>5. CASE GetTarget(s)
  BY <1>5 DEF GetTarget, Inert
<1>6. CASE Begin(s)
  <2>1. UNCHANGED <<pc, snap>> \/ pc'[s] = "resolve"
    BY <1>0, <1>6 DEF Begin
  <2> QED
    BY <2>1
<1>7. CASE \/ RequestFails(s) \/ DeleteTarget(s) \/ RemoveFinalizer(s) \/ AddFinalizer(s)
           \/ GetSource(s) \/ Apply(s) \/ GetStatus(s)
  <2>1. pc'[s] \in {"done", "startSource", "apply", "patchStatus"}
    BY <1>0, <1>7 DEF RequestFails, DeleteTarget, RemoveFinalizer, AddFinalizer, PatchFinalizers,
                      GetSource, Apply, GetStatus, Answered, Return
  <2> QED
    BY <2>1
<1>8. CASE SkipStatus(s) \/ PatchStatus(s) \/ StatusFails(s)
  <2>1. pc'[s] = "idle"
    BY <1>0, <1>8 DEF SkipStatus, PatchStatus, StatusFails, Finish
  <2> QED
    BY <2>1
<1>9. CASE Attempt(s) \/ Trouble(s)
  BY <1>4, <1>5, <1>6, <1>7, <1>8, <1>9 DEF Attempt, Trouble
<1>10. CASE Boot
  BY <1>10 DEF Boot
<1>11. CASE Untouched(s)
  BY <1>11 DEF Untouched
<1> QED
  BY <1>1, <1>2, <1>3, <1>9, <1>10, <1>11, StepsOfOthers

LEMMA ForeignInitial == Init => ForeignInv
<1> SUFFICES ASSUME Init, NEW s \in Syncs PROVE HistoryOutlived(s) /\ DeletionSeen(s)
  BY TypeInit DEF ForeignInv
<1>1. /\ rs[s] = Gone(0) /\ cache[s] = Gone(0) /\ snap[s] = Gone(0)
      /\ feed[s] = <<>> /\ past[s] = <<>> /\ pc[s] = "idle"
  BY DEF Init, ManagerInit
<1>2. History(s) = {Gone(0)}
  BY <1>1 DEF History, Elements
<1> QED
  BY <1>1, <1>2 DEF HistoryOutlived, Outlived, DeletionSeen, Gone, RemovalPcs, StopPcs

LEMMA ForeignNext == ForeignInv /\ [Next]_vars => ForeignInv'
BY TypeNext, HistoryStep, DeletionSeenStep DEF ForeignInv

\* On the incarnation it was computed for, the patch that removes our finalizer
\* neither drops nor brings back another one, however stale the cached version is.
LEMMA RemovalKeepsForeign ==
  ASSUME ForeignInv, NEW s \in Syncs, RemoveFinalizer(s), rs[s].uid = snap[s].uid
  PROVE  rs'[s].fins \cap Foreign = rs[s].fins \cap Foreign
<1>0. rs[s] \in Versions /\ snap[s] \in Versions /\ rs \in [Syncs -> Versions]
  BY DEF ForeignInv, TypeOK
<1>1. snap[s].phase = "deleting"
  BY DEF ForeignInv, DeletionSeen, RemoveFinalizer, RemovalPcs
<1>2. rs[s].phase # "live" /\ rs[s].fins \cap Foreign \subseteq snap[s].fins
  BY <1>1 DEF ForeignInv, HistoryOutlived, History, Outlived
<1> DEFINE F == snap[s].fins \ {FINALIZER}
           v == [rs[s] EXCEPT !.fins = F]
<1>3. UNCHANGED rs \/ (Patchable(s, F) /\ Store(s, v))
  BY DEF RemoveFinalizer, PatchFinalizers, with_item_removed
<1>4. CASE Patchable(s, F) /\ Store(s, v)
  <2>1. F \subseteq rs[s].fins
    BY <1>0, <1>2, <1>4 DEF Patchable, Versions
  <2>2. v.fins = F
    BY <1>0 DEF Versions
  <2>3. Settled(v).fins = F
    BY <2>2 DEF Settled, Gone
  <2>4. rs'[s].fins = F
    BY <1>0, <1>4, <2>3 DEF Store
  <2>5. FINALIZER \notin Foreign
    BY DEF FINALIZER
  <2> QED
    BY <1>2, <2>1, <2>4, <2>5
<1> QED
  BY <1>3, <1>4
=============================================================================
