--------------------------- MODULE RemoteWatcher ---------------------------
(***************************************************************************)
(* The source and target objects of the ResourceSyncs, as the API servers  *)
(* keep them, and the RemoteWatcher tasks that watch them                  *)
(* (src/src/remote_watcher.rs).                                            *)
(*                                                                         *)
(* A task belongs to a key: a ResourceSync and the object (its source or   *)
(* its target) the task watches for it.  A task's resource version is      *)
(* modelled by what it is for: backlog[k] holds the events of the object   *)
(* after the version the task has reached.  A closed stream is reopened    *)
(* from that version and a bookmark only moves it, so neither changes the  *)
(* state of the model.                                                     *)
(***************************************************************************)
EXTENDS Naturals, Sequences, FiniteSets

CONSTANTS
  Syncs,        \* the ResourceSyncs, by namespace and name
  Objects,      \* the objects that are sources or targets
  SourceOf,     \* the object spec.source names
  TargetOf,     \* the object spec.target names
  Data,         \* contents of an object, as far as a sync copies them
  Existing,     \* the objects that exist at the start
  MaxUid,       \* bound: incarnations of a ResourceSync
  MaxEdits,     \* bound: changes users and other controllers make
  MaxFaults,    \* bound: API requests and streams that fail
  WatchExpiry,  \* whether a watch may be told its version has expired (410)
  Panics        \* whether a kubeconfig Secret may be without data

ASSUME RemoteWatcherAssumption ==
  /\ SourceOf \in [Syncs -> Objects]
  /\ TargetOf \in [Syncs -> Objects]
  /\ \A s \in Syncs : SourceOf[s] # TargetOf[s]
  /\ Existing \subseteq Objects
  /\ MaxUid \in Nat
  /\ MaxEdits \in Nat
  /\ MaxFaults \in Nat
  /\ WatchExpiry \in BOOLEAN
  /\ Panics \in BOOLEAN

VARIABLES
  obj,          \* the objects
  backlog,      \* events a task has still to receive from its stream
  watcher,      \* what each task is doing; "none" when there is no task
  cancelled,    \* keys whose task has been told to stop
  pending,      \* syncs with a reconcile request in the channel or scheduler
  reachable,    \* syncs for which api_for can build its clients
  edits, faults \* how much of the bounds is used up

watchVars == <<obj, backlog, watcher, cancelled, pending, reachable, edits, faults>>

Keys == Syncs \X {"source", "target"}

\* RemoteWatcherKey: the object a key's task watches.
ObjectOf(k) == IF k[2] = "source" THEN SourceOf[k[1]] ELSE TargetOf[k[1]]

Uids == 1..MaxUid
NoData == "nothing"
NoOwner == <<"nobody", 0>>

Writers == {"ext", "us"}
Events == Writers \cup {"del"}
TaskStates == {"none", "starting", "watching", "paused", "backoff"}

\* An object: who wrote it last (the newest managedFields entry, "us" for the
\* field manager sinker.influxdata.io), and the incarnation of the sync that
\* applied it.
Absent == [phase |-> "absent", data |-> NoData, by |-> "ext", owner |-> NoOwner]

ObjectStates ==
  {Absent} \cup
  [phase : {"live", "deleting"},
   data  : Data,
   by    : Writers,
   owner : (Syncs \X (0..MaxUid)) \cup {NoOwner}]

Fresh(d) == [phase |-> "live", data |-> d, by |-> "ext", owner |-> NoOwner]

WatchTypeOK ==
  /\ obj \in [Objects -> ObjectStates]
  /\ backlog \in [Keys -> Seq(Events)]
  /\ watcher \in [Keys -> TaskStates]
  /\ cancelled \subseteq Keys
  /\ pending \subseteq Syncs
  /\ reachable \subseteq Syncs
  /\ edits \in 0..MaxEdits
  /\ faults \in 0..MaxFaults

WatchInit ==
  /\ \E d \in Data : obj = [o \in Objects |-> IF o \in Existing THEN Fresh(d) ELSE Absent]
  /\ backlog = [k \in Keys |-> <<>>]
  /\ watcher = [k \in Keys |-> "none"]
  /\ cancelled = {}
  /\ pending = {}
  /\ reachable = Syncs
  /\ edits = 0
  /\ faults = 0

(***************************************************************************)
(* The API servers and their other users (external).                       *)
(***************************************************************************)

\* The object becomes `new`, and every stream on it gets an event.
Publish(o, new, event) ==
  /\ obj' = [obj EXCEPT ![o] = new]
  /\ backlog' = [k \in Keys |->
       IF ObjectOf(k) = o /\ watcher[k] \in {"watching", "paused"}
       THEN Append(backlog[k], event) ELSE backlog[k]]

Edit == edits < MaxEdits /\ edits' = edits + 1
Fault == faults < MaxFaults /\ faults' = faults + 1

\* Someone else creates the object or changes what a sync copies of it.
ExternalWrite(o, d) ==
  /\ Edit
  /\ obj[o].data # d
  /\ Publish(o, [obj[o] EXCEPT !.phase = IF @ = "absent" THEN "live" ELSE @,
                               !.data = d, !.by = "ext"], "ext")
  /\ UNCHANGED <<watcher, cancelled, pending, reachable, faults>>

\* A delete request sets the deletionTimestamp; managedFields stay as they are.
MarkDeleted(o) == Publish(o, [obj[o] EXCEPT !.phase = "deleting"], obj[o].by)

ExternalDelete(o) ==
  /\ Edit
  /\ obj[o].phase = "live"
  /\ MarkDeleted(o)
  /\ UNCHANGED <<watcher, cancelled, pending, reachable, faults>>

\* The object's finalizers are done with and it is gone.
DeletionEnds(o) ==
  /\ obj[o].phase = "deleting"
  /\ Publish(o, Absent, "del")
  /\ UNCHANGED <<watcher, cancelled, pending, reachable, edits, faults>>

\* The kubeconfig Secret of a sync, or the cluster behind it, goes or comes back.
AccessChanges(s) ==
  /\ Edit
  /\ reachable' = IF s \in reachable THEN reachable \ {s} ELSE reachable \cup {s}
  /\ UNCHANGED <<obj, backlog, watcher, cancelled, pending, faults>>

(***************************************************************************)
(* The tasks.                                                              *)
(***************************************************************************)

\* Mutant: the request names the watched object instead of the ResourceSync.
SendReconcileOfObject(k) == pending' = pending \cup {ObjectOf(k)}

\* send_reconcile: the channel is unbounded, and the scheduler at its end
\* merges requests for the same ResourceSync.
SendReconcile(k) == pending' = pending \cup {k[1]}

\* api_for builds a client for the sync's clusters: the kubeconfig Secret can be
\* read and used from its namespace and the API server behind it answers.
api_for(s) == s \in reachable

\* Mutant: start sends no request for what changed before its version.
StartWithoutReconcile(k) ==
  /\ watcher[k] = "starting"
  /\ api_for(k[1])
  /\ obj[ObjectOf(k)].phase # "absent"
  /\ watcher' = [watcher EXCEPT ![k] = "watching"]
  /\ backlog' = [backlog EXCEPT ![k] = <<>>]
  /\ UNCHANGED <<obj, pending, cancelled, reachable, edits, faults>>

\* start: read the object and its version, reconcile once, watch from there.
Start(k) ==
  /\ watcher[k] = "starting"
  /\ api_for(k[1])
  /\ obj[ObjectOf(k)].phase # "absent"
  /\ watcher' = [watcher EXCEPT ![k] = "watching"]
  /\ backlog' = [backlog EXCEPT ![k] = <<>>]
  /\ SendReconcile(k)
  /\ UNCHANGED <<obj, cancelled, reachable, edits, faults>>

\* send_reconcile_on_fail in run: reconcile, then sleep where the context that
\* cancels the task is not polled.
Fails(k) ==
  /\ watcher' = [watcher EXCEPT ![k] = "backoff"]
  /\ backlog' = [backlog EXCEPT ![k] = <<>>]
  /\ SendReconcile(k)
  /\ UNCHANGED <<obj, cancelled, reachable, edits>>

\* start fails: there is no API to ask, or the object is not there.
StartFails(k) ==
  /\ watcher[k] = "starting"
  /\ ~api_for(k[1]) \/ obj[ObjectOf(k)].phase = "absent"
  /\ Fails(k)
  /\ UNCHANGED faults

\* A request of start fails, or the stream breaks while it is read.
StreamFails(k) ==
  /\ watcher[k] \in {"starting", "watching"}
  /\ Fault
  /\ Fails(k)

\* The sleep is over and run starts again, unless it finds its context done.
BackoffEnds(k) ==
  /\ watcher[k] = "backoff"
  /\ k \notin cancelled
  /\ watcher' = [watcher EXCEPT ![k] = "starting"]
  /\ UNCHANGED <<obj, backlog, cancelled, pending, reachable, edits, faults>>

\* Mutant: a Deleted event goes through the filter for our own changes.
DeliverWithoutDeletions(k) ==
  /\ watcher[k] = "watching"
  /\ backlog[k] # <<>>
  /\ backlog' = [backlog EXCEPT ![k] = Tail(@)]
  /\ IF Head(backlog[k]) = "ext" THEN SendReconcile(k) ELSE UNCHANGED pending
  /\ UNCHANGED <<obj, watcher, cancelled, reachable, edits, faults>>

\* was_last_modified_by: the newest managedFields entry is ours.  An object on
\* which that cannot be told counts as somebody else's.
was_last_modified_by_us(event) == event = "us"

\* listen: Deleted, and Added or Modified by somebody else, reconcile; what we
\* modified ourselves is ignored.
Deliver(k) ==
  /\ watcher[k] = "watching"
  /\ backlog[k] # <<>>
  /\ backlog' = [backlog EXCEPT ![k] = Tail(@)]
  /\ IF was_last_modified_by_us(Head(backlog[k])) THEN UNCHANGED pending ELSE SendReconcile(k)
  /\ UNCHANGED <<obj, watcher, cancelled, reachable, edits, faults>>

\* listen: an error event with code 410.  The watch goes on from version "0",
\* which starts with an Added event for the object if it exists; the events in
\* between are skipped, and nothing is reconciled.
Expire(k) ==
  /\ WatchExpiry
  /\ watcher[k] = "watching"
  /\ Fault
  /\ backlog' = [backlog EXCEPT ![k] =
       IF obj[ObjectOf(k)].phase = "absent" THEN <<>> ELSE <<obj[ObjectOf(k)].by>>]
  /\ UNCHANGED <<obj, watcher, cancelled, pending, reachable, edits>>

\* listen: any other error event.  Reconcile and sleep, here where cancelling
\* the task ends the sleep, and read on.
ErrorEvent(k) ==
  /\ watcher[k] = "watching"
  /\ Fault
  /\ watcher' = [watcher EXCEPT ![k] = "paused"]
  /\ SendReconcile(k)
  /\ UNCHANGED <<obj, backlog, cancelled, reachable, edits>>

PauseEnds(k) ==
  /\ watcher[k] = "paused"
  /\ watcher' = [watcher EXCEPT ![k] = "watching"]
  /\ UNCHANGED <<obj, backlog, cancelled, pending, reachable, edits, faults>>

\* Mutant: the context is polled in listen only, not when a start is retried.
ExitFromListen(k) ==
  /\ k \in cancelled
  /\ watcher[k] \in {"watching", "paused"}
  /\ watcher' = [watcher EXCEPT ![k] = "none"]
  /\ cancelled' = cancelled \ {k}
  /\ backlog' = [backlog EXCEPT ![k] = <<>>]
  /\ UNCHANGED <<obj, pending, reachable, edits, faults>>

\* run: the select is biased to the cancelled context, so the task returns when
\* it is next polled there: at once, or, from the handler's sleep, after it.
Exit(k) ==
  /\ k \in cancelled
  /\ watcher' = [watcher EXCEPT ![k] = "none"]
  /\ cancelled' = cancelled \ {k}
  /\ backlog' = [backlog EXCEPT ![k] = <<>>]
  /\ UNCHANGED <<obj, pending, reachable, edits, faults>>

\* start: api_for panics on a Secret without data.  The task ends; whoever has its
\* handle finds out when joining it, and nobody else does.
TaskPanics(k) ==
  /\ Panics
  /\ watcher[k] = "starting"
  /\ ~api_for(k[1])
  /\ watcher' = [watcher EXCEPT ![k] = "none"]
  /\ cancelled' = cancelled \ {k}
  /\ backlog' = [backlog EXCEPT ![k] = <<>>]
  /\ UNCHANGED <<obj, pending, reachable, edits, faults>>

\* The steps a task takes without anything failing.
TaskProgress(k) ==
  Start(k) \/ StartFails(k) \/ BackoffEnds(k) \/ Deliver(k) \/ PauseEnds(k) \/ Exit(k)

TaskTrouble(k) == StreamFails(k) \/ Expire(k) \/ ErrorEvent(k) \/ TaskPanics(k)

Environment ==
  \/ \E o \in Objects : ExternalDelete(o) \/ DeletionEnds(o)
  \/ \E o \in Objects, d \in Data : ExternalWrite(o, d)
  \/ \E s \in Syncs : AccessChanges(s)
=============================================================================
