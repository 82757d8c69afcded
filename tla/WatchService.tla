---------------------------- MODULE WatchService ----------------------------
(***************************************************************************)
(* The manager and its tasks on their own, under any calls: each sync's    *)
(* attempt starts or stops both its watches whenever it likes, Sinker and  *)
(* others write the objects, and the process may be told to shut down.     *)
(*                                                                         *)
(* The auxiliary variable unseen holds what the tasks are for: the keys    *)
(* whose object somebody else has changed and for whose sync no request to *)
(* reconcile has been outstanding since.                                   *)
(***************************************************************************)
EXTENDS RemoteWatcherManager

VARIABLE unseen

serviceVars == <<watchVars, managerVars, unseen>>

ServicePcs == {"idle", "done", "stopped"} \cup StartPcs \cup StopPcs

ServiceTypeOK ==
  /\ WatchTypeOK
  /\ watching \subseteq Keys
  /\ joining \in Keys \cup {NoKey}
  /\ pc \in [Syncs -> ServicePcs]
  /\ mode \in Modes
  /\ unseen \subseteq Keys

ServiceInit == WatchInit /\ ManagerInit /\ unseen = {}

\* The keys whose object this step changes so that the newest write is not ours.
Changed ==
  {k \in Keys : /\ obj'[ObjectOf(k)] # obj[ObjectOf(k)]
                /\ obj'[ObjectOf(k)].by = "ext"}

Track ==
  unseen' = {k \in unseen \cup Changed : watcher'[k] # "none" /\ k[1] \notin pending'}

\* An attempt calls start_remote_watches_if_not_watching, or
\* stop_remote_watches_if_watching, and the call returns.
Call(s) ==
  /\ mode = "up"
  /\ pc[s] = "idle"
  /\ \E next \in {"startSource", "stopSource"} : Goto(s, next)
  /\ UNCHANGED <<watching, joining, mode>> /\ UNCHANGED watchVars

CallReturns(s) ==
  /\ pc[s] \in {"done", "stopped"}
  /\ Goto(s, "idle")
  /\ UNCHANGED <<watching, joining, mode>> /\ UNCHANGED watchVars

\* The controller takes a request from the channel, and applies a target.
Consume(s) ==
  /\ s \in pending
  /\ pending' = pending \ {s}
  /\ UNCHANGED <<obj, backlog, watcher, cancelled, reachable, edits, faults>>
  /\ UNCHANGED managerVars

OwnApply(s, d) ==
  LET t == TargetOf[s] IN
  /\ Edit
  /\ obj[t].data # d
  /\ Publish(t, [obj[t] EXCEPT !.phase = IF @ = "absent" THEN "live" ELSE @,
                               !.data = d, !.by = "us"], "us")
  /\ UNCHANGED <<watcher, cancelled, pending, reachable, faults>>
  /\ UNCHANGED managerVars

InCall(s) == CallReturns(s) \/ JoinAny(s)
InTask(k) == TaskProgress(k) /\ UNCHANGED managerVars

ServiceStep ==
  \/ \E s \in Syncs : \/ Call(s) \/ InCall(s) \/ TakeMutex(s) \/ Consume(s)
                       \/ \E d \in Data : OwnApply(s, d)
  \/ \E k \in Keys : InTask(k) \/ (TaskTrouble(k) /\ UNCHANGED managerVars)
  \/ (Environment /\ UNCHANGED managerVars)
  \/ ShutdownSignal \/ Shutdown

ServiceNext == ServiceStep /\ Track

\* Tasks are polled, calls go on, and tokio's mutex is first-come-first-served.
ServiceFairness ==
  /\ \A s \in Syncs : /\ WF_serviceVars(InCall(s) /\ Track)
                      /\ SF_serviceVars(TakeMutex(s) /\ Track)
  /\ \A k \in Keys : WF_serviceVars(InTask(k) /\ Track)
  /\ WF_serviceVars(Shutdown /\ Track)

ServiceSpec == ServiceInit /\ [][ServiceNext]_serviceVars /\ ServiceFairness

(***************************************************************************)
(* Properties.                                                             *)
(***************************************************************************)

\* A change a task has not told of is still ahead of it: in the events it will
\* read, or in the start it is about to make ("Send a reconcile once in case
\* something changed before the rv we are watching from").
NoLostChange ==
  \A k \in unseen :
    watcher[k] \in {"watching", "paused"} =>
      \E i \in 1..Len(backlog[k]) : backlog[k][i] # "us"

\* Every change is followed by a request, unless the task is stopped first.
ChangesAreTold == \A k \in Keys : (k \in unseen) ~> (k \notin unseen)

\* A shutdown comes to its end.
ShutdownCompletes == (mode = "draining") ~> (mode = "down")
=============================================================================
