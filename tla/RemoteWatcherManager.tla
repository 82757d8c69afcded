------------------------ MODULE RemoteWatcherManager ------------------------
(***************************************************************************)
(* The RemoteWatcherManager (src/src/remote_watcher_manager.rs): a map     *)
(* from keys to the handles of running tasks behind one mutex, and the     *)
(* callers that take it: the reconcile attempt of each sync, and the       *)
(* process itself when it shuts down.                                      *)
(*                                                                         *)
(* The mutex is held across an await only while a stopped task is joined,  *)
(* so the key being joined stands for the held mutex.                      *)
(***************************************************************************)
EXTENDS RemoteWatcher

VARIABLES
  watching,     \* the keys of the map
  joining,      \* the key being joined under the mutex, or NoKey
  pc,           \* where the attempt of each sync is
  mode          \* the life of the process: "up", "draining", "stopping", "down"

managerVars == <<watching, joining, pc, mode>>

NoKey == <<>>
MutexFree == joining = NoKey

StartPcs == {"startSource", "startTarget"}
StopPcs == {"stopSource", "joinSource", "stopTarget", "joinTarget"}
Modes == {"up", "draining", "stopping", "down"}

\* rs_watch: both operations treat the source first, then the target.  The
\* stops are followed by the request that removes the finalizer ("stopped"),
\* the starts by the end of the attempt ("done").
StartPc(role) == IF role = "source" THEN "startSource" ELSE "startTarget"
StopPc(role) == IF role = "source" THEN "stopSource" ELSE "stopTarget"
JoinPc(role) == IF role = "source" THEN "joinSource" ELSE "joinTarget"
AfterStart(role) == IF role = "source" THEN "startTarget" ELSE "done"
AfterStop(role) == IF role = "source" THEN "stopTarget" ELSE "stopped"

Goto(s, next) == pc' = [pc EXCEPT ![s] = next]

ManagerInit ==
  /\ watching = {}
  /\ joining = NoKey
  /\ pc = [s \in Syncs |-> "idle"]
  /\ mode = "up"

\* add_if_not_exists: spawn a task, unless the map has one.
AddIfNotExists(s, role) ==
  LET k == <<s, role>> IN
  /\ pc[s] = StartPc(role)
  /\ MutexFree
  /\ watching' = watching \cup {k}
  /\ watcher' = IF k \in watching THEN watcher ELSE [watcher EXCEPT ![k] = "starting"]
  /\ Goto(s, AfterStart(role))
  /\ UNCHANGED <<obj, backlog, cancelled, pending, reachable, edits, faults, joining, mode>>

\* Mutants: the task is not waited for; the task is not cancelled; the tasks of all
\* syncs on the object are.
RemoveWithoutJoin(k) ==
  /\ watching' = watching \ {k}
  /\ cancelled' = cancelled \cup {k}
  /\ UNCHANGED joining

RemoveWithoutCancel(k) ==
  /\ watching' = watching \ {k}
  /\ joining' = k
  /\ UNCHANGED cancelled

RemoveOfObject(k) ==
  LET same == {w \in watching : ObjectOf(w) = ObjectOf(k)} IN
  /\ watching' = watching \ same
  /\ cancelled' = cancelled \cup {w \in same : watcher[w] # "none"}
  /\ joining' = k

\* stop_and_remove_if_exists!: remove the entry and cancel its task, if it is still
\* running; the caller keeps the mutex until the task has been joined.
RemoveAndCancel(k) ==
  /\ watching' = watching \ {k}
  /\ cancelled' = cancelled \cup (IF watcher[k] = "none" THEN {} ELSE {k})
  /\ joining' = k

StopAndRemove(s, role) ==
  LET k == <<s, role>> IN
  /\ pc[s] = StopPc(role)
  /\ MutexFree
  /\ \/ /\ k \in watching
        /\ RemoveAndCancel(k)
        /\ Goto(s, JoinPc(role))
     \/ /\ k \notin watching
        /\ UNCHANGED <<watching, cancelled, joining>>
        /\ Goto(s, AfterStop(role))
  /\ UNCHANGED <<obj, backlog, watcher, pending, reachable, edits, faults, mode>>

Join(s, role) ==
  LET k == <<s, role>> IN
  /\ pc[s] = JoinPc(role)
  /\ watcher[k] = "none"
  /\ joining' = NoKey
  /\ Goto(s, AfterStop(role))
  /\ UNCHANGED <<watching, mode>> /\ UNCHANGED watchVars

\* shutdown_on_signal: no attempt begins any more, the running ones are finished.
ShutdownSignal ==
  /\ mode = "up"
  /\ mode' = "draining"
  /\ UNCHANGED <<watching, joining, pc>> /\ UNCHANGED watchVars

\* Mutant: the watches are stopped under running attempts.
DrainedTooEarly ==
  /\ mode = "draining"
  /\ mode' = "stopping"
  /\ UNCHANGED <<watching, joining, pc>> /\ UNCHANGED watchVars

Drained ==
  /\ mode = "draining"
  /\ \A s \in Syncs : pc[s] = "idle"
  /\ mode' = "stopping"
  /\ UNCHANGED <<watching, joining, pc>> /\ UNCHANGED watchVars

\* stop_all: stop and join one task after the other under the mutex.
StopAllNext ==
  /\ mode = "stopping"
  /\ \/ /\ MutexFree
        /\ \E k \in watching : RemoveAndCancel(k)
     \/ /\ ~MutexFree
        /\ watcher[joining] = "none"
        /\ joining' = NoKey
        /\ UNCHANGED <<watching, cancelled>>
  /\ UNCHANGED <<obj, backlog, watcher, pending, reachable, edits, faults, pc, mode>>

StopAllReturns ==
  /\ mode = "stopping"
  /\ MutexFree
  /\ watching = {}
  /\ mode' = "down"
  /\ UNCHANGED <<watching, joining, pc>> /\ UNCHANGED watchVars

\* The steps that need the mutex, and the others of an attempt inside the manager.
TakeMutex(s) ==
  \E role \in {"source", "target"} : AddIfNotExists(s, role) \/ StopAndRemove(s, role)

JoinAny(s) == \E role \in {"source", "target"} : Join(s, role)

Shutdown == Drained \/ StopAllNext \/ StopAllReturns

(***************************************************************************)
(* What the manager promises, whoever calls it.                            *)
(***************************************************************************)

\* No task is leaked and none is started twice: the running tasks are those in
\* the map and the one, already cancelled, whose caller waits for its end.
TasksAccounted ==
  \A k \in Keys :
    watcher[k] # "none" => \/ k \in watching /\ k \notin cancelled
                           \/ k \in cancelled /\ joining = k

\* run_with_metrics: "Graceful signal shutdown finishes active reconciliations
\* before canceling and joining the managed object watches."
DrainedBeforeStop ==
  /\ mode \in {"stopping", "down"} => \A s \in Syncs : pc[s] = "idle"
  /\ mode = "down" => \A k \in Keys : watcher[k] = "none"

\* A call of the manager comes back, although the mutex is held while a task is
\* joined that may be asleep.
CallsReturn ==
  \A s \in Syncs : (pc[s] \in StartPcs \cup StopPcs) ~> (pc[s] \in {"done", "stopped"})
=============================================================================
