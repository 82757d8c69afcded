----------------------------- MODULE Controller -----------------------------
(***************************************************************************)
(* The ResourceSync controller (src/src/controller.rs) with the manager    *)
(* and the tasks it drives, the API server that stores the ResourceSyncs   *)
(* and the kube runtime that caches and schedules them (both external).    *)
(*                                                                         *)
(* The attempts of different syncs run concurrently, those of one sync one *)
(* after the other.  An attempt is a sequence of API requests; each is a   *)
(* step, made on what the attempt read at its start from the reflector's   *)
(* cache (snap) and in its earlier requests (work).                        *)
(***************************************************************************)
EXTENDS RemoteWatcherManager

CONSTANTS
  LocalTargets, \* syncs whose target is in the controller's own cluster
  MappingOf,    \* what a sync makes of a source's data; NoData: not mappable
  Overridable,  \* syncs whose users set the deletion annotations
  Foreign,      \* finalizers of other controllers
  Ticks,        \* bound: points in time a condition can tell apart
  MaxCrashes,   \* bound: crashes and shutdowns of the process
  Staleness     \* how many versions the list made at start may be behind

ASSUME ControllerAssumption ==
  /\ LocalTargets \subseteq Syncs
  /\ MappingOf \in [Syncs -> [Data -> Data \cup {NoData}]]
  /\ Overridable \subseteq Syncs
  /\ Ticks \in Nat \ {0}
  /\ MaxCrashes \in Nat
  /\ Staleness \in Nat
  /\ NoData \notin Data
  /\ "sinker" \notin Foreign

VARIABLES
  rs,           \* the stored ResourceSyncs, without their status
  status,       \* their ResourceSyncFailing condition
  cache,        \* the reflector's store
  feed,         \* versions the reflector's watch has still to deliver
  past,         \* versions it delivered before the cached one
  snap,         \* the cached version the running attempt works on
  work,         \* what the running attempt has found out so far
  crashes       \* how much of the bound is used up

apiVars == <<rs, status>>
cacheVars == <<cache, feed, past>>
attemptVars == <<snap, work>>
vars == <<watchVars, managerVars, apiVars, cacheVars, attemptVars, crashes>>

FINALIZER == "sinker"

\* The metadata of a ResourceSync.  The spec is immutable, so its generation is
\* 1, and 2 once the deletionTimestamp is set.
Versions ==
  [phase   : {"absent", "live", "deleting"},
   uid     : 0..MaxUid,
   fins    : SUBSET ({FINALIZER} \cup Foreign),
   force   : BOOLEAN,
   disable : BOOLEAN]

Gone(u) == [phase |-> "absent", uid |-> u, fins |-> {}, force |-> FALSE, disable |-> FALSE]

Generation(v) == IF v.phase = "deleting" THEN 2 ELSE 1

Conditions == [value : {"none", "True", "False"}, since : 0..(Ticks - 1), generation : 0..2]
NoCondition == [value |-> "none", since |-> 0, generation |-> 0]

Works == [result : {"ok", "requeue", "err"}, data : Data \cup {NoData}, live : Conditions]
NoWork == [result |-> "ok", data |-> NoData, live |-> NoCondition]

RemovalPcs == StopPcs \cup {"stopped"}
Pcs == {"idle", "resolve", "getTarget", "deleteTarget", "addFinalizer", "getSource",
        "apply", "done", "patchStatus"} \cup StartPcs \cup RemovalPcs

TypeOK ==
  /\ WatchTypeOK
  /\ watching \subseteq Keys
  /\ joining \in Keys \cup {NoKey}
  /\ pc \in [Syncs -> Pcs]
  /\ mode \in Modes
  /\ rs \in [Syncs -> Versions]
  /\ status \in [Syncs -> Conditions]
  /\ cache \in [Syncs -> Versions]
  /\ feed \in [Syncs -> Seq(Versions)]
  /\ past \in [Syncs -> Seq(Versions)]
  /\ snap \in [Syncs -> Versions]
  /\ work \in [Syncs -> Works]
  /\ \A s \in Syncs : pc[s] = "apply" => work[s].data \in Data
  /\ crashes \in 0..MaxCrashes

Init ==
  /\ WatchInit
  /\ ManagerInit
  /\ rs = [s \in Syncs |-> Gone(0)]
  /\ status = [s \in Syncs |-> NoCondition]
  /\ cache = [s \in Syncs |-> Gone(0)]
  /\ feed = [s \in Syncs |-> <<>>]
  /\ past = [s \in Syncs |-> <<>>]
  /\ snap = [s \in Syncs |-> Gone(0)]
  /\ work = [s \in Syncs |-> NoWork]
  /\ crashes = 0

(***************************************************************************)
(* The stored ResourceSyncs and those who change them (external).          *)
(***************************************************************************)

\* A version is stored; one that is being deleted and has no finalizer left is
\* gone.  Storing what is there already is no event.
Settled(v) == IF v.phase = "deleting" /\ v.fins = {} THEN Gone(v.uid) ELSE v

Store(s, v) ==
  /\ rs' = [rs EXCEPT ![s] = Settled(v)]
  /\ feed' = IF Settled(v) = rs[s] THEN feed
             ELSE [feed EXCEPT ![s] = Append(@, Settled(v))]

\* A merge patch of metadata.finalizers by name: it replaces the list, whatever
\* it is by then.  The API server rejects a patch of an object that is not
\* there, and a new finalizer on one that is being deleted.
Patchable(s, fins) ==
  /\ rs[s].phase # "absent"
  /\ rs[s].phase = "deleting" => fins \subseteq rs[s].fins

Annotations(s) == IF s \in Overridable THEN BOOLEAN ELSE {FALSE}

CreateSync(s, force, disable) ==
  /\ Edit
  /\ rs[s].phase = "absent"
  /\ rs[s].uid < MaxUid
  /\ force \in Annotations(s)
  /\ disable \in Annotations(s)
  /\ Store(s, [phase |-> "live", uid |-> rs[s].uid + 1, fins |-> {},
               force |-> force, disable |-> disable])
  /\ status' = [status EXCEPT ![s] = NoCondition]
  /\ UNCHANGED <<obj, backlog, watcher, cancelled, pending, reachable, faults,
                 managerVars, cache, past, attemptVars, crashes>>

UserChange(s, v) ==
  /\ Edit
  /\ Store(s, v)
  /\ UNCHANGED <<obj, backlog, watcher, cancelled, pending, reachable, faults,
                 managerVars, status, cache, past, attemptVars, crashes>>

DeleteSync(s) ==
  /\ rs[s].phase = "live"
  /\ UserChange(s, [rs[s] EXCEPT !.phase = "deleting"])

Annotate(s, force, disable) ==
  /\ rs[s].phase # "absent"
  /\ force \in Annotations(s)
  /\ disable \in Annotations(s)
  /\ <<force, disable>> # <<rs[s].force, rs[s].disable>>
  /\ UserChange(s, [rs[s] EXCEPT !.force = force, !.disable = disable])

\* Another controller claims the ResourceSync, and lets go of it.
ForeignClaims(s, f) ==
  /\ rs[s].phase = "live"
  /\ f \notin rs[s].fins
  /\ UserChange(s, [rs[s] EXCEPT !.fins = @ \cup {f}])

ForeignReleases(s, f) ==
  /\ f \in rs[s].fins
  /\ UserChange(s, [rs[s] EXCEPT !.fins = @ \ {f}])

\* The garbage collector deletes a local target whose owner is gone: its
\* ownerReference names the incarnation that applied it.
CollectGarbage(s) ==
  LET t == TargetOf[s] IN
  /\ s \in LocalTargets
  /\ obj[t].phase = "live"
  /\ \E u \in Uids : /\ obj[t].owner = <<s, u>>
                     /\ rs[s].phase = "absent" \/ rs[s].uid # u
  /\ MarkDeleted(t)
  /\ UNCHANGED <<watcher, cancelled, pending, reachable, edits, faults,
                 managerVars, apiVars, cacheVars, attemptVars, crashes>>

(***************************************************************************)
(* The kube runtime (external).                                            *)
(***************************************************************************)

LastOf(seq, n) == IF Len(seq) <= n THEN seq ELSE SubSeq(seq, Len(seq) - n + 1, Len(seq))

\* The versions the reflector has shown, and those older than the stored one.
Shown(s) == IF cache[s].uid = 0 THEN past[s] ELSE Append(past[s], cache[s])

Outdated(s) ==
  LET known == Shown(s) \o feed[s] IN SubSeq(known, 1, Len(known) - 1)

\* The next version reaches the store; behind it, predicates::generation lets
\* pass what has another uid or generation than the version before.
Reflect(s) ==
  LET v == Head(feed[s]) IN
  /\ mode = "up"
  /\ feed[s] # <<>>
  /\ cache' = [cache EXCEPT ![s] = v]
  /\ feed' = [feed EXCEPT ![s] = Tail(@)]
  /\ past' = [past EXCEPT ![s] = LastOf(Shown(s), Staleness)]
  /\ pending' = IF v.phase # "absent"
                   /\ <<v.uid, v.phase>> # <<cache[s].uid, cache[s].phase>>
                THEN pending \cup {s} ELSE pending
  /\ UNCHANGED <<obj, backlog, watcher, cancelled, reachable, edits, faults,
                 managerVars, apiVars, attemptVars, crashes>>

\* A scheduled request starts an attempt on the cached version, or is dropped
\* when there is none.
Begin(s) ==
  /\ mode = "up"
  /\ s \in pending
  /\ pc[s] = "idle"
  /\ pending' = pending \ {s}
  /\ \/ /\ cache[s].phase # "absent"
        /\ Goto(s, "resolve")
        /\ snap' = [snap EXCEPT ![s] = cache[s]]
     \/ /\ cache[s].phase = "absent"
        /\ UNCHANGED <<pc, snap>>
  /\ UNCHANGED <<obj, backlog, watcher, cancelled, reachable, edits, faults,
                 watching, joining, mode, apiVars, cacheVars, work, crashes>>

(***************************************************************************)
(* reconcile_helper.                                                       *)
(***************************************************************************)

has_been_deleted(v) == v.phase = "deleting"
has_target_finalizer(v) == FINALIZER \in v.fins

\* The helper returns, with this result.
Return(s, result) ==
  /\ Goto(s, "done")
  /\ work' = [work EXCEPT ![s].result = result]

Inert == UNCHANGED <<watching, joining, mode, cache, past, snap, crashes>>
NoTask == UNCHANGED <<watcher, cancelled, pending, reachable, edits>>

\* Mutant: the target is applied without the finalizer.
DispatchWithoutFinalizer(v) ==
  CASE has_been_deleted(v) /\ ~has_target_finalizer(v) -> "done"
    [] has_been_deleted(v) /\ has_target_finalizer(v) -> "getTarget"
    [] ~has_been_deleted(v) -> "getSource"

\* The next step once both APIs are resolved: the match of reconcile_helper and
\* the early returns of reconcile_deleted_resource.
Dispatch(v) ==
  CASE has_been_deleted(v) /\ ~has_target_finalizer(v) -> "done"
    [] has_been_deleted(v) /\ has_target_finalizer(v) /\ v.disable -> "stopSource"
    [] has_been_deleted(v) /\ has_target_finalizer(v) /\ ~v.disable -> "getTarget"
    [] ~has_been_deleted(v) /\ ~has_target_finalizer(v) -> "addFinalizer"
    [] ~has_been_deleted(v) /\ has_target_finalizer(v) -> "getSource"

Resolve(s) ==
  /\ pc[s] = "resolve"
  /\ api_for(s)
  /\ Goto(s, Dispatch(snap[s]))
  /\ UNCHANGED <<work, faults, obj, backlog, rs, feed, status>> /\ NoTask /\ Inert

\* Mutant: force-delete is not looked at.
NeverLetGo(v) == FALSE

\* With force-delete, a deleted ResourceSync is let go when there is no API for
\* its source or its target.
LetGo(v) == v.force /\ has_been_deleted(v)

ResolveFails(s) ==
  /\ pc[s] = "resolve"
  /\ \/ ~api_for(s) /\ UNCHANGED faults
     \/ api_for(s) /\ Fault
  /\ \/ LetGo(snap[s]) /\ Goto(s, "stopSource") /\ UNCHANGED work
     \/ ~LetGo(snap[s]) /\ Return(s, "err")
  /\ UNCHANGED <<obj, backlog, rs, feed, status>> /\ NoTask /\ Inert

\* A request is refused or lost on its way, and changes nothing.
RequestFails(s) ==
  /\ pc[s] \in {"getTarget", "deleteTarget", "stopped", "addFinalizer", "getSource", "apply"}
  /\ Fault
  /\ Return(s, "err")
  /\ UNCHANGED <<obj, backlog, rs, feed, status>> /\ NoTask /\ Inert

\* The answer to a write that was carried out: it may be lost, and the attempt
\* then takes it for a failure.
Answered(s, next, result) ==
  \/ Goto(s, next) /\ work' = [work EXCEPT ![s].result = result] /\ UNCHANGED faults
  \/ Fault /\ Return(s, "err")

(***************************************************************************)
(* reconcile_deleted_resource.                                             *)
(***************************************************************************)

\* Mutants: a target that is being deleted is not watched; it passes for absent.
AfterGetUnwatched(phase) ==
  CASE phase = "deleting" -> "done" [] phase = "live" -> "deleteTarget" [] phase = "absent" -> "stopSource"

AfterGetTooEarly(phase) == IF phase = "live" THEN "deleteTarget" ELSE "stopSource"

\* The target is read: wait for its end, delete it, or go on without it.
AfterGet(phase) ==
  CASE phase = "deleting" -> "startSource"
    [] phase = "live" -> "deleteTarget"
    [] phase = "absent" -> "stopSource"

GetTarget(s) ==
  /\ pc[s] = "getTarget"
  /\ Goto(s, AfterGet(obj[TargetOf[s]].phase))
  /\ UNCHANGED <<work, faults, obj, backlog, rs, feed, status>> /\ NoTask /\ Inert

\* The delete request names no version, and is refused if the target has gone
\* since it was read.
DeleteTarget(s) ==
  LET t == TargetOf[s] IN
  /\ pc[s] = "deleteTarget"
  /\ \/ /\ obj[t].phase = "live"
        /\ MarkDeleted(t)
        /\ Answered(s, "startSource", "ok")
     \/ /\ obj[t].phase = "deleting"
        /\ Answered(s, "startSource", "ok")
        /\ UNCHANGED <<obj, backlog>>
     \/ /\ obj[t].phase = "absent"
        /\ Return(s, "err")
        /\ UNCHANGED <<obj, backlog, faults>>
  /\ UNCHANGED <<rs, feed, status>> /\ NoTask /\ Inert

\* The patches of metadata.finalizers, computed from the cached version.
PatchFinalizers(s, fins, result) ==
  /\ \/ /\ Patchable(s, fins)
        /\ Store(s, [rs[s] EXCEPT !.fins = fins])
        /\ Answered(s, "done", result)
     \/ /\ ~Patchable(s, fins)
        /\ Return(s, "err")
        /\ UNCHANGED <<rs, feed, faults>>
  /\ UNCHANGED <<obj, backlog, status>> /\ NoTask /\ Inert

\* The new list of finalizers.
with_item_removed(fins, item) == fins \ {item}
with_push(fins, item) == fins \cup {item}

\* Mutant: the list is emptied.
RemoveAllFinalizers(s) ==
  /\ pc[s] = "stopped"
  /\ PatchFinalizers(s, {}, "ok")

\* stop_watches_and_remove_resource_sync_finalizers, after the watches.
RemoveFinalizer(s) ==
  /\ pc[s] = "stopped"
  /\ PatchFinalizers(s, with_item_removed(snap[s].fins, FINALIZER), "ok")

AddFinalizer(s) ==
  /\ pc[s] = "addFinalizer"
  /\ PatchFinalizers(s, with_push(snap[s].fins, FINALIZER), "requeue")

(***************************************************************************)
(* reconcile_normally.                                                     *)
(***************************************************************************)

\* What the source makes of the target: nothing without a source, or with one
\* that clone_resource or apply_mappings cannot use.
Desired(s) ==
  LET o == obj[SourceOf[s]] IN
  IF o.phase = "absent" THEN NoData ELSE MappingOf[s][o.data]

GetSource(s) ==
  /\ pc[s] = "getSource"
  /\ \/ /\ Desired(s) # NoData
        /\ work' = [work EXCEPT ![s].data = Desired(s)]
        /\ Goto(s, "apply")
     \/ /\ Desired(s) = NoData
        /\ Return(s, "err")
  /\ UNCHANGED <<faults, obj, backlog, rs, feed, status>> /\ NoTask /\ Inert

\* Forced server-side apply: it creates the target or takes its fields over, and
\* is no event when the target has them already.
Apply(s) ==
  LET t == TargetOf[s]
      new == [phase |-> IF obj[t].phase = "absent" THEN "live" ELSE obj[t].phase,
              data |-> work[s].data, by |-> "us", owner |-> <<s, snap[s].uid>>]
  IN
  /\ pc[s] = "apply"
  /\ IF obj[t] = [new EXCEPT !.by = obj[t].by]
     THEN UNCHANGED <<obj, backlog>>
     ELSE Publish(t, new, "us")
  /\ Answered(s, "startSource", "ok")
  /\ UNCHANGED <<rs, feed, status>> /\ NoTask /\ Inert

(***************************************************************************)
(* The end of reconcile: the status is written from the live one.          *)
(***************************************************************************)

\* Mutant: a requeue is not scheduled.
AgainAfterError(result) == result = "err"

\* An error (error_policy) and a requeue schedule another attempt.
Again(result) == result # "ok"

\* The attempt is over.
Finish(s, result) ==
  /\ Goto(s, "idle")
  /\ snap' = [snap EXCEPT ![s] = Gone(0)]
  /\ work' = [work EXCEPT ![s] = NoWork]
  /\ pending' = IF Again(result) THEN pending \cup {s} ELSE pending
  /\ UNCHANGED <<obj, backlog, watcher, cancelled, reachable, edits,
                 watching, joining, mode, rs, cacheVars, crashes>>

WritesStatus(s) == work[s].result = "err" \/ ~has_been_deleted(snap[s])

\* Mutant: the time is carried over whatever the value was.
condition_without_flip(s) ==
  [value |-> IF work[s].result = "err" THEN "True" ELSE "False",
   since |-> work[s].live.since,
   generation |-> Generation(snap[s])]

\* sync_failing_condition and sync_failing_transition_time: the time stays while
\* the value does; a new time is one the live condition does not have.
sync_failing_condition(s) ==
  LET live == work[s].live
      value == IF work[s].result = "err" THEN "True" ELSE "False"
  IN [value |-> value,
      since |-> IF live.value = value THEN live.since ELSE (live.since + 1) % Ticks,
      generation |-> Generation(snap[s])]

GetStatus(s) ==
  /\ pc[s] = "done"
  /\ WritesStatus(s)
  /\ rs[s].phase # "absent"
  /\ work' = [work EXCEPT ![s].live = status[s]]
  /\ Goto(s, "patchStatus")
  /\ UNCHANGED <<faults, obj, backlog, rs, feed, status>> /\ NoTask /\ Inert

SkipStatus(s) ==
  /\ pc[s] = "done"
  /\ ~WritesStatus(s)
  /\ Finish(s, work[s].result)
  /\ UNCHANGED <<status, faults>>

PatchStatus(s) ==
  /\ pc[s] = "patchStatus"
  /\ rs[s].phase # "absent"
  /\ status' = [status EXCEPT ![s] = sync_failing_condition(s)]
  /\ \/ Finish(s, work[s].result) /\ UNCHANGED faults
     \/ Fault /\ Finish(s, "err")

\* A failed status request replaces the result of the helper.
StatusFails(s) ==
  /\ pc[s] = "patchStatus" \/ (pc[s] = "done" /\ WritesStatus(s))
  /\ \/ rs[s].phase = "absent" /\ UNCHANGED faults
     \/ rs[s].phase # "absent" /\ Fault
  /\ Finish(s, "err")
  /\ UNCHANGED status

(***************************************************************************)
(* The process.                                                            *)
(***************************************************************************)

\* A new process: no tasks, no attempts, an empty store.  Its list is answered
\* from any version the API server likes (any_semantic), here at most Staleness
\* versions behind the stored one; its watch goes on from there.
Boot ==
  /\ mode' = "up"
  /\ watcher' = [k \in Keys |-> "none"]
  /\ backlog' = [k \in Keys |-> <<>>]
  /\ cancelled' = {}
  /\ watching' = {}
  /\ joining' = NoKey
  /\ pc' = [s \in Syncs |-> "idle"]
  /\ pending' = {}
  /\ cache' = [s \in Syncs |-> Gone(0)]
  /\ \E behind \in [Syncs -> 0..Staleness] :
       feed' = [s \in Syncs |-> LastOf(Outdated(s), behind[s]) \o <<rs[s]>>]
  /\ past' = [s \in Syncs |-> <<>>]
  /\ snap' = [s \in Syncs |-> Gone(0)]
  /\ work' = [s \in Syncs |-> NoWork]
  /\ UNCHANGED <<obj, reachable, edits, faults, apiVars>>

Crash ==
  /\ crashes < MaxCrashes
  /\ crashes' = crashes + 1
  /\ Boot

\* api_for panics on a Secret without data.  The runtime resumes the panic of an
\* attempt in the task that drives the controller, which is the process's main one.
AttemptPanics(s) ==
  /\ Panics
  /\ pc[s] = "resolve"
  /\ ~api_for(s)
  /\ Boot
  /\ UNCHANGED crashes

Signal ==
  /\ crashes < MaxCrashes
  /\ crashes' = crashes + 1
  /\ ShutdownSignal
  /\ UNCHANGED <<apiVars, cacheVars, attemptVars>>

Restart ==
  /\ mode = "down"
  /\ Boot
  /\ UNCHANGED crashes

(***************************************************************************)
(* The system.                                                             *)
(***************************************************************************)

\* Steps of the manager and of the tasks leave the rest alone.
Outside == UNCHANGED <<apiVars, cacheVars, attemptVars, crashes>>

InManager(s) == (TakeMutex(s) \/ JoinAny(s)) /\ Outside
InTask(k) == TaskProgress(k) /\ UNCHANGED managerVars /\ Outside
TaskInTrouble(k) == TaskTrouble(k) /\ UNCHANGED managerVars /\ Outside
InEnvironment == Environment /\ UNCHANGED managerVars /\ Outside
InShutdown == Shutdown /\ Outside

\* The steps of an attempt in which nothing fails but what has to.
Attempt(s) ==
  \/ Begin(s) \/ Resolve(s) \/ (ResolveFails(s) /\ ~api_for(s))
  \/ GetTarget(s) \/ DeleteTarget(s) \/ RemoveFinalizer(s)
  \/ AddFinalizer(s) \/ GetSource(s) \/ Apply(s)
  \/ GetStatus(s) \/ SkipStatus(s) \/ PatchStatus(s)
  \/ (StatusFails(s) /\ rs[s].phase = "absent")

Trouble(s) == ResolveFails(s) \/ RequestFails(s) \/ StatusFails(s)

User(s) ==
  \/ \E force, disable \in BOOLEAN : CreateSync(s, force, disable) \/ Annotate(s, force, disable)
  \/ DeleteSync(s)
  \/ \E f \in Foreign : ForeignClaims(s, f) \/ ForeignReleases(s, f)

Next ==
  \/ \E s \in Syncs : \/ User(s) \/ CollectGarbage(s) \/ Reflect(s)
                       \/ Attempt(s) \/ Trouble(s) \/ InManager(s)
  \/ \E k \in Keys : InTask(k) \/ TaskInTrouble(k)
  \/ InEnvironment \/ InShutdown
  \/ Crash \/ Signal \/ Restart \/ \E s \in Syncs : AttemptPanics(s)

\* What the runtimes run is run: requests are answered, timers fire, streams
\* deliver, tokio's mutex is first-come-first-served (hence strong fairness on
\* taking it), a finished deletion ends, a terminated pod is replaced.  Users
\* and faults owe nothing.
Fairness ==
  /\ \A s \in Syncs :
       /\ WF_vars(Attempt(s))
       /\ WF_vars(Reflect(s))
       /\ WF_vars(CollectGarbage(s))
       /\ WF_vars(JoinAny(s) /\ Outside)
       /\ SF_vars(TakeMutex(s) /\ Outside)
  /\ \A k \in Keys : WF_vars(InTask(k))
  /\ \A o \in Objects : WF_vars(DeletionEnds(o) /\ UNCHANGED managerVars /\ Outside)
  /\ WF_vars(InShutdown)
  /\ WF_vars(Restart)

Spec == Init /\ [][Next]_vars /\ Fairness

(***************************************************************************)
(* What the controller promises.                                           *)
(***************************************************************************)

\* As long as a target that a sync applied exists, the incarnation that applied
\* it exists and holds the finalizer, so that its deletion still comes past the
\* controller (add_target_finalizer before reconcile_normally, and the 404 of
\* reconcile_deleted_resource before the finalizer is removed).  Users waive
\* this with the deletion annotations.
TargetProtected ==
  \A s \in Syncs \ Overridable, u \in Uids :
    obj[TargetOf[s]].owner = <<s, u>> =>
      rs[s].phase # "absent" /\ rs[s].uid = u /\ FINALIZER \in rs[s].fins

\* sync_failing_transition_time: lastTransitionTime moves exactly when the value
\* of the condition flips, however far the cache is behind.
TimeMovesOnFlip ==
  [][\A s \in Syncs :
       (rs'[s].uid = rs[s].uid /\ status[s].value # "none" /\ status'[s].value # "none")
         => (status'[s].since # status[s].since <=> status'[s].value # status[s].value)]_vars

\* The patch that removes our finalizer goes by name.  It meets the incarnation it
\* was computed for, or one that holds our finalizer.  (A sync with force-delete is let
\* go without a look at our finalizer, so its patch may meet any later one.)
MeetsOurs(s) ==
  \/ rs[s].uid = snap[s].uid
  \/ s \notin Overridable /\ FINALIZER \in rs[s].fins

\* The list that patch stores (controller.rs:123) is computed from a cached version.
\* Still it neither drops nor brings back the finalizer of another controller, on the
\* incarnation it is meant for and on every one that the controller has put its
\* finalizer on.  A later incarnation without ours is not safe from it: RemovesOnlyOurs.
ForeignKeptOnDeletion ==
  [][\A s \in Syncs : RemoveFinalizer(s) /\ MeetsOurs(s) =>
       rs'[s].fins \cap Foreign = rs[s].fins \cap Foreign]_vars

\* "deleted_missing_target_removes_only_our_finalizer_and_skips_status" (the test at
\* controller.rs:675): whatever it meets, the patch takes no finalizer but ours.
RemovesOnlyOurs ==
  [][\A s \in Syncs : RemoveFinalizer(s) => rs[s].fins \cap Foreign \subseteq rs'[s].fins]_vars

\* Adding ours keeps the finalizers of others, as the test
\* initialization_preserves_finalizers_and_writes_live_success_status has it.
ForeignKeptOnInitialization ==
  [][\A s \in Syncs : AddFinalizer(s) =>
       rs'[s].fins \cap Foreign = rs[s].fins \cap Foreign]_vars

\* "We have removed our finalizer, so nothing more needs to be done": a target is
\* deleted only for an incarnation that still holds the finalizer.
NothingAfterRemoval ==
  [][\A s \in Syncs : DeleteTarget(s) =>
       rs[s].uid = snap[s].uid /\ FINALIZER \in rs[s].fins]_vars

\* A live sync with a usable source ends up with the mapped data in its target
\* and a condition that says so; without one, the condition says that.
InSync(s) ==
  (rs[s].phase = "live" /\ api_for(s)) =>
    /\ FINALIZER \in rs[s].fins
    /\ Desired(s) # NoData => /\ obj[TargetOf[s]].phase = "live"
                              /\ obj[TargetOf[s]].data = Desired(s)
                              /\ status[s].value = "False"
    /\ Desired(s) = NoData => status[s].value = "True"
    /\ status[s].generation = Generation(rs[s])

\* README: "Sinker watches both objects and reapplies the desired target when
\* they change."
Converges == \A s \in Syncs : <>[]InSync(s)

\* When syncs have competed for a target and all but one are gone, it ends up with
\* what that one makes of its source, whoever deleted the target last.
SurvivorConverges ==
  \A s \in Syncs :
    (<>[]\A x \in Syncs \ {s} : rs[x].phase = "absent") => <>[]InSync(s)

\* A deleted sync goes away once its APIs can be reached, or if its user has
\* given up on them (force-delete).
Deleted(s) ==
  (rs[s].phase = "deleting" /\ rs[s].fins \subseteq {FINALIZER})
    => ~api_for(s) /\ ~rs[s].force

DeletionCompletes == \A s \in Syncs : <>[]Deleted(s)

\* Nobody else's target is the source or the target of the sync.
Undisputed(s) == \A x \in Syncs \ {s} : TargetOf[x] \notin {SourceOf[s], TargetOf[s]}

\* No attempt is running or scheduled, the reflector has caught up, no task of the
\* sync is about to start and none has an event left that it will not ignore, and
\* the target is not on its way out.
AtRest(s) ==
  /\ mode = "up"
  /\ pc[s] = "idle"
  /\ s \notin pending
  /\ feed[s] = <<>>
  /\ obj[TargetOf[s]].phase # "deleting"
  /\ \A role \in {"source", "target"} :
       /\ watcher[<<s, role>>] \notin {"starting", "backoff"}
       /\ \A i \in 1..Len(backlog[<<s, role>>]) : was_last_modified_by_us(backlog[<<s, role>>][i])

\* "Ok(Action::await_change())" is the answer of an attempt that has nothing left to
\* do: when the controller waits for a change of a sync, and no change is on its way
\* to it, the target and the condition are up to date, and no deletion is left half
\* done.
NothingForgotten ==
  \A s \in Syncs \ Overridable :
    Undisputed(s) /\ AtRest(s) => InSync(s) /\ Deleted(s)

(***************************************************************************)
(* The abstract specification.                                             *)
(***************************************************************************)

\* The syncs whose users have not waived anything.
Leaseholders == Syncs \ Overridable

StageOf(v) ==
  CASE v.phase = "absent" -> "none"
    [] v.phase = "live" -> IF has_target_finalizer(v) THEN "held" ELSE "open"
    [] v.phase = "deleting" -> IF has_target_finalizer(v) THEN "closing" ELSE "closed"

Lease == INSTANCE TargetLease WITH
  Holders     <- Leaseholders,
  stage       <- [s \in Leaseholders |-> StageOf(rs[s])],
  incarnation <- [s \in Leaseholders |-> rs[s].uid],
  owner       <- [o \in Objects |-> IF obj[o].owner[1] \in Leaseholders
                                    THEN obj[o].owner ELSE NoOwner]

\* The controller implements the lease: whatever is cached, in flight, lost or
\* restarted, a target is applied under the finalizer only, the finalizer is not
\* lost before the deletion, and nothing is left behind when it is given up.
LeaseKept == Lease!LeaseSpec
=============================================================================
