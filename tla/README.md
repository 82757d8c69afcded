# A TLA+ model of Sinker

Sinker is a Kubernetes controller. A `ResourceSync` names a source object and a
target object; Sinker copies the source, or a mapping of it, to the target, keeps
it that way, and deletes the target when the `ResourceSync` is deleted. This
directory models the controller (`src/src/*.rs`), checks it with TLC on small
instances and proves its central properties with TLAPS. All commands run here:
`tlc -config sync.cfg MCController` checks a run (`PROJECT.json` names the module of
each), `tlapm WatchProofs.tla` checks the proofs of a module.

## 1. Inventory

| Part | State | Operations | Talks to |
| --- | --- | --- | --- |
| Controller (`controller.rs`) | per attempt: the cached `ResourceSync`, results of earlier requests | `reconcile`: resolve APIs, add or remove the finalizer, read source or target, apply, delete, write status | API servers (requests), manager (calls) |
| kube runtime (library) | reflector store, scheduler | deliver a version, filter by generation, begin an attempt, retry | API server (list and watch), controller |
| RemoteWatcherManager (`remote_watcher_manager.rs`) | map from keys to tasks, behind a mutex | `add_if_not_exists`, `stop_and_remove_if_exists`, `stop_all` | tasks (spawn, cancel, join) |
| RemoteWatcher (`remote_watcher.rs`) | one task per key: version reached, backoff | start, listen, retry, exit | API servers (get, watch), scheduler (unbounded channel) |
| Extensions (`resource_extensions.rs`) | none; a resolution in progress | predicates, keys; `cluster_client`, `api_for` | Secrets, remote API servers, discovery |
| Filters (`filters.rs`) | none | was the object last modified by us? | managedFields, which the API server keeps |
| Mapping (`mapping.rs`) | the template being built | `apply_mappings`, `clone_resource`, paths | |
| Metrics (`metrics.rs`) | gauge, counters, histogram, shared by all attempts | `instrument`, the guard's drop | scrapes |
| Resources, util, lib | data types, errors | annotations, list helpers | |
| main | the process | | admin endpoint |

What is hard here, and which property is about it:

* An attempt decides on a *cached* `ResourceSync` and on answers it got earlier,
  and writes by name. Between the two, users, other controllers, the garbage
  collector and other attempts act. (`TargetProtected`, `ForeignKeptOnDeletion`,
  `RemovesOnlyOurs`, `ForeignKeptOnInitialization`, `NothingAfterRemoval`,
  `TimeMovesOnFlip`)
* Nothing is polled: after an attempt that succeeds, only a watch event can start
  the next. A change must not slip between a read and a watch, through an error, a
  retry or a restart, or the sync is forgotten. (`NoLostChange`, `NothingForgotten`,
  `ChangesAreTold`, `Converges`, `DeletionCompletes`)
* One mutex covers the tasks of all syncs and is held while a task is joined.
  (`TasksAccounted`, `CallsReturn`, `ShutdownCompletes`, `DrainedBeforeStop`)
* Requests fail, answers get lost, streams break, versions expire, the process
  dies at any point, a task or an attempt panics.
  (`LeaseKept`, `SurvivorConverges` and the properties above)
* Who wrote last is read off a list with whole seconds. (`LastWriterKnown`,
  `RegardlessOfPosition`)
* A reference is resolved in several requests, while Secrets, their permissions and
  clusters change. (`ForeignSecretNeedsPermission`, `DenialTellsNothing`,
  `NamespacesAgree`, `EventuallyResolved`, `TypedErrors`)
* Mappings are ordered, overlap, replace each other and carry whole objects.
  (`LaterEntriesWin`, `ReplacementStartsOver`, `OnlySelectedCopied`,
  `TargetIdentityKept`, `FieldsOnce`, `ContainerRoundTrip`, `BadLabelsAreErrors`)
* Collectors are updated one by one by attempts that may be dropped or unwind.
  (`ResultsCovered`, `BalancedAtRest`, `WorkersReleased`)

`PROJECT.json` lists these hazards one by one, each at its line.

## 2. Modules

```
RemoteWatcher            objects, watch streams, the tasks        RemoteWatcherProofs
  RemoteWatcherManager   the map of tasks, its mutex, its callers' program counters, shutdown
    WatchService         manager and tasks alone, under any calls     MCWatchService
                                                                  WatchProofs
    Controller           the whole system                             MCController
      TargetLease        what it implements (INSTANCE, LeaseKept)
                                                                  ControllerProofs
                                                                    ProtectionProofs
Filters                  was_last_modified_by                         FiltersProofs
ClusterAccess            from a reference to an Api                   MCClusterAccess
                                                                  AccessProofs
Mapping                  from source and mappings to the target       MappingTests
                                                                  MappingProofs
Metrics                  the collectors under concurrent attempts     MetricsProofs
```

The last four are the parts that `Controller` and `RemoteWatcher` use by their
answers: whether an event is our own (`was_last_modified_by_us`), whether an Api can
be built (`api_for`), what a mapping makes of a source (`MappingOf`). They are modelled
apart because their data would only multiply the states of the controller.

**RemoteWatcher.** `obj` holds the source and target objects: whether they are
absent, live or being deleted, the part of their contents a sync copies, who wrote
them last, and (a history variable for remote targets, the `ownerReference` for
local ones) which incarnation of which sync applied them. A task's resource version
is represented by what it is good for: `backlog[k]`, the events after it. So
reopening a closed stream from the last version, and a bookmark, leave the state as
it is. `watcher[k]` is the task: `starting` (in `start`, before its get), `watching`
(in `listen`), `paused` (asleep in `listen` after an error event, where cancelling
ends the sleep) and `backoff` (asleep in the handler of `run`, where the context is
not polled; the model lets `Exit` happen at any time after the cancellation, which
includes the end of that sleep). `pending` is the channel and the scheduler, which
merge requests for the same sync. With `Panics`, a start that finds no Api may end
the task instead of failing it (`TaskPanics`): `sec.data.unwrap()` panics on a Secret
without data.

**RemoteWatcherManager.** `joining` is the key whose task is being joined under the
mutex, or `NoKey`; the mutex is free exactly then, since all other critical sections
have no await in them. A task that has panicked stays in the map (`watching`) as a
finished one. `pc[s]` is where the attempt of `s` is. Source comes before
target, as in `rs_watch!`.

**Controller.** `rs` is what the API server stores of each `ResourceSync`, `feed`
the versions on their way to the reflector, `cache` its store, `snap` the version an
attempt works on. One action is one API request together with everything the code
does up to the next await. A write may be carried out and its answer lost
(`Answered`). `Boot` is a new process. `Reflect` and `Begin` are the library: the
predicate filter passes a version when its uid or generation differs from that of
the version before; at most one attempt per sync runs at a time; requests that
arrive meanwhile are kept. With `Panics`, an attempt may unwind where it resolves its
clusters: the panic leaves `main` with the future that polls all attempts, and the
container is started again (`AttemptPanics`).

**WatchService** takes the manager and the tasks out of the controller and puts them
under the weakest caller: any sync starts or stops its watches at any time. Its
auxiliary variable `unseen` holds the keys with a change that nobody has been told
of; it is what the tasks are for.

**TargetLease** is the promise without caches, attempts, tasks and processes: an
incarnation of a sync takes a lease (the finalizer), applies its target under the
lease only, keeps the lease until it is deleted and gives it up when nothing that it
applied is left. `Controller` instantiates it for the syncs without deletion
annotations (`Leaseholders`) and maps the stored `ResourceSync` to the stage of the
lease, its uid to the incarnation and the history of the objects to their owners.

**Filters** keeps a list of managedFields entries as an API server does: one entry per
manager, the time of its last write in whole seconds, in an order of the server's own;
a write may take all fields of another manager over, whose entry then vanishes. Some
managers' entries have no time. A write that leaves no entry (one that only removes
fields of others) is left out.

**ClusterAccess** resolves one reference again and again: `cluster_client` up to the
version request, `apiserver_version`, `pinned_kind`, each on what the clusters hold at
that moment. A Secret is what the code tells apart of it: its annotation by the
namespaces it matches, its content by how far the parsing gets. The outcome is the
error, `ok` or `panic`.

**Mapping** has JSON values as tagged tuples, a DynamicObject as type, metadata and data,
as the code has, and one action per entry of `spec.mappings`. JSONPath (a library) is
modelled for keys, indices and the wildcard; ObjectMeta (a library) for the fields that
the code touches. `MappingTests` and `MCClusterAccess` hold, beside the instances, the
tables of the unit tests: the model answers what the tests expect of the code. Those
definitions map to the tests' lines, everything else in the map to production code.

**Metrics** has one future per attempt: polled or dropped before its first poll,
completed with a result, dropped or unwound at an await. Each collector is atomic; an
attempt updates one after the other, so that others and a scrape come in between.

Abstractions that a reader should know of:

* The spec of a `ResourceSync` is constant (`SourceOf`, `TargetOf`, `MappingOf`): the
  CRD has the rule `self == oldSelf` (`src/src/resources.rs:45`,
  `src/manifests/crd.yml:152`). `src/README.md:153` says the opposite of the bundled
  CRD. A new incarnation has the same spec.
* In `Controller` a mapping is any partial function on data, and the errors of an
  attempt are not told apart, as the code does not.
* Whether clients can be built is one Boolean per sync (`api_for`), for source and
  target together. Failures of a single request are faults of their own.
* Finalizers are a set. The finalizers of objects are in `DeletionEnds`, which may
  take as long as it likes; background and foreground deletion both set the
  deletionTimestamp.
* Durations are left out: timers and requeues happen at any later time.
* `lastTransitionTime` has a resolution of a second; in the model a new time always differs
  from the one before. So two flips within a second, which leave the same time in the code,
  are two times here. `TimeMovesOnFlip` is to be read with that: the code sets a new time
  exactly at a flip.
* `RemoteWatcher` and `Controller` know who wrote an object last
  (`was_last_modified_by_us`). The code does so up to writes of the same second: `Filters`
  says when its answer can be wrong, and no run of the controller has a wrong one.

## 3. Runs

All passing runs explore their instance completely. Deadlock is checked in `access`
only, where resolutions go on for ever. Elsewhere behaviours come to rest: a controller
with nothing to do waits for changes, edits and seconds are bounded, attempts and lists
of mappings end.

| Run | Instance | Shows |
| --- | --- | --- |
| `watches` | one sync, 2 edits, 1 fault, panics | `NoLostChange`: a change not yet told of is still ahead of its task; `ChangesAreTold`: and is told, or the task has ended; `CallsReturn`: a call returns although it joins a sleeping task; `DrainedBeforeStop`; `ShutdownCompletes` although joined tasks may have panicked; types |
| `sync` | one sync, remote target, unusable data, 2 incarnations, 3 edits, 1 fault | `LeaseKept` (the refinement), `NothingForgotten`, `Converges`, `DeletionCompletes`, `TimeMovesOnFlip`, types |
| `restart` | one sync, local target, both annotations, 2 incarnations, 3 edits, a crash or shutdown | `Converges`, `DeletionCompletes` |
| `claims` | one sync, local target, a foreign finalizer, 2 incarnations, 4 edits, panics, a crash or shutdown | `TargetProtected`; `ForeignKeptOnDeletion`: however tasks, attempts and processes end, the patch that removes our finalizer neither drops nor brings back another one, as long as it meets the incarnation it was computed for or one that holds our finalizer. On a later one without ours it can: `RemovesOnlyOurs`, below |
| `shared` | two settled syncs of one source and one target, one of which copies and the other maps the data, 1 edit | `SurvivorConverges`: when one of them is gone, the target ends up with the contents the other wants; `TasksAccounted` and `CallsReturn`, with two syncs at the mutex |
| `filters` | 3 other managers, one without times, 3 seconds, any number of writes in each | `LastWriterKnown`: an answer is right, or Sinker and somebody else both wrote in the newest second (`Contested`); the tests' cases |
| `access` | 10 references, 2 namespaces, 6 contents | `NamespacesAgree`, `ForeignSecretNeedsPermission`, `DenialTellsNothing`, `EventuallyResolved`, types, the tests' cases |
| `mapping` | 5 sources, all lists of up to 3 of 17 entries | `OnlySelectedCopied`, `LaterEntriesWin`, `ReplacementStartsOver`, `TargetIdentityKept`, `FieldsOnce`, `ContainerRoundTrip`, types, the tests' cases |
| `metrics` | 3 attempts, an immediate and a later retry | `ResultsCovered`, `BalancedAtRest`, `WorkersReleased`, types, the tests' cases |

Three runs show a disagreement between the code and what the repository says of it;
each checks the one property that fails (`findings` in `PROJECT.json`):

| Run | Fails | Because |
| --- | --- | --- |
| `expired_watch` | `DeletionCompletes` | after a 410 the watch goes on from version 0 and no reconcile is sent: a deletion in the gap is never noticed |
| `late_cleanup` | `NothingAfterRemoval` | an attempt that begins on a cached version with the finalizer, after it was removed, deletes whatever has the target's name |
| `dead_watch` | `Converges` | a watch that panicked stays in the map as a finished task, and `add_if_not_exists` never starts it again |

Other disagreements of this kind are not runs of their own; each can be had from a run
by the change in the middle column:

| Fails | With | Because |
| --- | --- | --- |
| `TargetProtected` | `sync`: `Staleness = 3`, `MaxCrashes = 1`, `MaxEdits = 2` | `any_semantic()` (`controller.rs:472`) lets a new process list an old version; it then acts on an old deletion, and its patch by name takes the finalizer off a new incarnation |
| `RemovesOnlyOurs` | `late_cleanup`: `MaxEdits = 4`, `Foreign = {"other"}` | a late clean-up, as in `late_cleanup`, patches by name (`controller.rs:123`) a new incarnation that does not have our finalizer yet, and replaces its list by one computed from the old version: another controller's finalizer is lost. In the test at `controller.rs:675` ("deleted_missing_target_removes_only_our_finalizer_and_skips_status") the stored `ResourceSync` is the one the attempt works on |
| `ForeignKeptOnInitialization` | `claims` | the finalizer list is computed from the cache and overwrites the stored one (`controller.rs:140`); the test at `controller.rs:630` only ever has a cache that is up to date |
| `NothingForgotten` | `sync`: `WatchExpiry = TRUE` | as in `expired_watch`: the sync is at rest, and its target is not what it should be |
| `NothingForgotten` | `sync`: `Panics = TRUE`, `MaxEdits = 5` | as in `dead_watch` |
| `NothingForgotten` | `sync`: `Staleness = 3`, `MaxCrashes = 1` | the patch of an old deletion takes the finalizer off a new incarnation, as above; that changes no generation, so no attempt follows |
| `Converges` | two syncs, `ChainSource`, `ChainTarget`, `TwoMapping`, 2 edits | Sinker's own writes are ignored on every watch (`remote_watcher.rs:196`), also where the target of one sync is the source of another |
| `RegardlessOfPosition` | `filters` | of entries with equal times `max_by_key` takes the last one listed (`filters.rs:16`); the test "latest_entry_wins_regardless_of_position" has different times |
| `FieldsOnce`, `LaterEntriesWin` | `mapping`, without their conditions on the destination `metadata` | only a path that starts with `metadata.` is one into the metadata (`mapping.rs:101`); `toFieldPath: metadata` writes a field of the data, which hides the metadata and what later entries write there |
| `BadLabelsAreErrors` | `mapping` | `map_conversion` unwraps the labels of an inner object as strings (`mapping.rs:128`); a label that an entry writes is an error, as the test at `mapping.rs:460` has it |
| `TypedErrors` | `access` | `cluster_client` unwraps the data of the Secret (`resource_extensions.rs:140`), which `dead_watch` is a consequence of |

`WatchExpiry`, `Panics` and `Staleness` are off where nothing else is said, because the
tables say what they do to liveness and to the lease. So two of the hazards that
`PROJECT.json` lists are shown by counterexamples and not excluded by a run: a stale list
(`controller.rs:472`) and a chain of syncs (`remote_watcher.rs:196`). `TargetProtected` has one
sync in its run; for several that share a target it is a theorem. Likewise `LeaseKept` is
checked without panics and crashes and proved with them.

While two syncs of one target both exist and one of them is being deleted, the deleted
one deletes and the other one applies, and nothing ends this; README.md leaves a target
to one sync. So `shared` asks what holds once one of them is gone. It starts settled
(`SettledSpec`), because the way there is the way of `sync`.

**Bounds.** `MaxEdits` bounds what users and other controllers do, `MaxFaults` the
failing requests and streams, `MaxCrashes` the ends of the process, `MaxUid` the
incarnations of a sync, `Ticks` the times a condition tells apart (a new time is
one that differs from the last, see below). Three edits are enough for create, delete and create
again, or create and two changes of source or target around an attempt; the counterexamples
found need two or three edits and at most one fault or crash; `RemovesOnlyOurs` needs
a fourth, and `claims` has as many, to put a foreign finalizer on the new incarnation. Two data
values and a mapping without fixed points tell copied, stale and foreign contents
apart; the third value of `sync` is one the mapping does not accept. Three seconds
give Sinker and two others a second each or one they share; three entries give a replacement with an
entry before and after it, and the values of the sources are all different, so that
one tells where it came from; three attempts give one that counts, one that is dropped
and one that is running. No symmetry is used, because most runs check liveness.

**Fairness.** Weak fairness of the steps of an attempt, of each task, of the
reflector, of the garbage collector, of the end of a deletion and of the restart:
the tokio runtime polls what is ready, kube's timers fire, requests are answered (a
failed one is an answer), kubelet restarts the pod. In `ClusterAccess` the resolution goes
on and a failed one is retried (after five seconds or the backoff); nothing is assumed
of Secrets and clusters, and `EventuallyResolved` speaks of what stays in place. In
`Metrics` a future that was polled goes on to be polled; nobody has to poll or drop one.
Strong fairness for taking the manager's mutex, since tokio's is first-come-first-served.
None for users, for faults, or for a cluster to come back. Faults and crashes are finite, so `<>[]`
properties speak of what holds once they have stopped.

`Converges` says that each sync ends up in sync: with a usable source the target has
the mapped data and the condition says `False`, otherwise the condition says `True`.
`DeletionCompletes` says that a `ResourceSync` being deleted, on which nobody else
has a finalizer, goes away, unless its clusters stay out of reach without
`force-delete`. `NothingForgotten` is the safety that both rest on: whenever nothing of a
sync runs, is scheduled or is on its way (`AtRest`), it is in sync or its deletion is done,
so that there is no state to be stuck in. It is about syncs whose source and target are
nobody else's target (`Undisputed`), because of the chains in the table above, and without
deletion annotations.

Every property of a passing run is also shown to fail when the code is changed in
the way a plausible bug would change it: the operators under `Mutant:` comments, which
`PROJECT.json` pairs with properties.

## 4. Proofs

`TypeCorrect` (`ControllerProofs`): `Spec => []TypeOK` for all constants that satisfy
`RemoteWatcherAssumption` and `ControllerAssumption`. `TypeOK` says more than ranges:
an absent object has no data and no owner, and an attempt that is about to apply has
data to apply.

`TargetsProtected` (`ProtectionProofs`): if `Staleness = 0`, then
`Spec => []TargetProtected`, for any number of syncs, objects, incarnations, edits,
faults and crashes, for local and remote targets, with syncs that share objects, with
expiring watches. The assumption is needed: section 3 has the counterexample
without it. Syncs whose users may set the deletion annotations (`Overridable`) are
excepted, because the annotations waive the protection.

The property is not inductive. An attempt applies the target because its *cached*
version has the finalizer, and removes the finalizer because the target was absent
when it was *read*. The proof ranks versions by incarnation and, within one, by
whether it is being deleted, and strengthens the property for each sync to
`SyncInv`:

* `InOrder`: what the controller acts on, the cache, the feed and the store are
  ordered by rank;
* `FinalizerHeld`: if any version a step may be based on has the finalizer, and the
  controller has not yet seen the deletion of its incarnation, then that incarnation
  is the stored one and has the finalizer. It justifies `Apply`;
* `NoSuccessorHeld`: as long as the deletion of a finalized incarnation may still be
  acted on, no later incarnation has the finalizer. It justifies the removal by name:
  the patch of an old attempt cannot hit a finalizer that is needed;
* `PcJustified`: each place in the attempt with what its version says, and that from
  reading the target's absence to removing the finalizer no target of this sync
  exists (only the sync's own attempt makes one);
* `WellFormed` and the property itself.

The two conditions support each other: `AddFinalizer` keeps `NoSuccessorHeld` by
`FinalizerHeld`, and `RemoveFinalizer` keeps `FinalizerHeld` by `NoSuccessorHeld`.
There is a lemma per action; those that store a version go through `StoreStep`, those
that only move the attempt through `MoveStep`, and those of everybody else through
`OtherStep`. `ProtectionInv` was found with TLC on instances like `sync` and `restart` before it was
proved; `claims` checks its consequence `TargetProtected`.

`LeaseImplemented` (`ProtectionProofs`): if `Staleness = 0`, then `Spec => LeaseKept`, the
refinement of `TargetLease`. In a state that satisfies `ProtectionInv`, every step is
mapped to a step of the lease or to none: `AddFinalizer` takes the lease, and only for a
live incarnation without it; `Apply` is the lease's apply, because `FinalizerHeld` makes
the incarnation that the attempt works on the stored one, with the finalizer;
`RemoveFinalizer` gives the lease up, and `PcJustified` says that nothing it applied is
left, or it hits a version without the finalizer and changes nothing of the lease; users
delete and create again; the end of a deletion and the garbage collector take owners away;
all steps of tasks, manager, cache and process stutter. `Stutter`, `StageStep` and their
like turn what a step does to `rs` and `obj` into a step of the lease, and there is a lemma
per group of actions that uses one of them.

`NothingIsForgotten` (`ProtectionProofs`): if `Staleness = 0`, no watch expires
(`~WatchExpiry`) and nothing panics (`~Panics`), then `Spec => []NothingForgotten`, for any
number of syncs, faults, crashes and incarnations and any length of feeds and backlogs. Each
of the three is needed: section 3 has a counterexample without it. The property speaks of
rest only; the invariant has to say at every place of an attempt what it has attained so
far, unless something will start another one. `RestInv` consists of

* `Attained(s)`, for a sync that is `Quiet` (nothing pending, and the reflector has shown
  what is stored): the attempt works on the stored version; if that is live, the condition
  and the target are up to date from the step on that made them so, *or there is news of a
  change* (`NewsFor`: one of its tasks has yet to start or has an event it will tell of),
  and the tasks that give such news are in the map when the attempt ends; if it is being
  deleted, the finalizer is removed or the end of the target is still to be told of;
* `TasksThere`: the tasks in the map run and are not cancelled;
* `CaughtUp` and `Deferred`: the last version on its way to the reflector is the stored
  one, and a deleted one that still exists has a finalizer;
* `ProtectionInv`, `ForeignInv` and `TaskInv`. `Apply` and the removal of the finalizer are
  by name, and hit the incarnation that the attempt works on by `SyncInv` and
  `HistoryOutlived`.

What all other steps do to a sync is `Kept`: news may come, and nothing is spoilt without
news of it. `KeptAttained` carries `Attained` over all of them, and there is a lemma for
each step of the attempt itself.

`ForeignFinalizersKept` (`ProtectionProofs`): if `Staleness = 0`, then
`Spec => ForeignKeptOnDeletion`. The patch goes by name, so the property says which
incarnations it speaks of (`MeetsOurs`): the one the patch was computed for, and every one
that holds our finalizer. Two arguments make the proof.

* On the incarnation the patch was computed for (`RemovalKeepsForeign`, for every
  `Staleness`). `ForeignInv` looks at every version that is, or that a stale list may bring
  back (`History`): none is of a later incarnation than the stored one, and of the stored
  incarnation a deleted version means that the stored one is deleted too and that its
  finalizers are among those of that version. So the patch, computed from a deleted version,
  can only bring finalizers back, and those the API server refuses to add to a deleted
  object (`Patchable`).
* On every one that holds our finalizer (`RemovalMeetsItsIncarnation`): by
  `NoSuccessorHeld`, that is the incarnation the patch was computed for. Here the list must
  not be behind, and a sync with `force-delete` is excepted, since it is let go without a
  look at our finalizer.

What is left is a later incarnation that does not have our finalizer yet. There the patch
replaces whatever is in the list, and a finalizer of another controller can get lost that
way (`RemovesOnlyOurs` in section 3). Nothing is claimed of *adding* our finalizer:
`ForeignKeptOnInitialization` fails (section 3).

`TransitionTimes` (`ControllerProofs`): if `Ticks > 1`, then `Spec => TimeMovesOnFlip`. With one
tick there is no new time to see; the code has wall-clock time. `FreshInv` says that the
status an attempt has read is the stored one up to its patch, unless the `ResourceSync` was
replaced meanwhile by an incarnation without a condition: nobody else writes that status.

`ControllerLeaksNoTask`, `ControllerShutsDownInOrder` (`ControllerProofs`) and
`ServiceTypeCorrect`, `NoTaskLeaks`, `ShutdownInOrder`, `NothingLost` (`WatchProofs`): the
invariants of the manager, under the controller with its crashes and panics, and in
`WatchService` under any calls, for any number of syncs and objects. `TasksAccounted` and
`DrainedBeforeStop` hold together with `JoinsInOrder`, which makes `TaskInv`: an attempt
that joins has its own key joined, so that two never do, and a cancelled task is the joined
one and still runs, so that a free mutex means that nothing is cancelled.
`NoLostChange` is inductive by itself, given the types,
if no version expires (`~WatchExpiry`): `PublishStep` covers whoever changes an object,
`QuietStep` everything else. The lemmas on the steps of tasks and manager that both use are
in `RemoteWatcherProofs`.

`MetricsTypeCorrect`, `NoResultUnnoticed`, `BooksBalance` (`MetricsProofs`): the collectors for
any finite number of attempts. `MetricsInv` says which attempts each collector counts, as
cardinalities of sets (`Numbers`), and that an attempt returns or is aborted, never both
(`OneEnd`). `ResultsCovered` is then an inclusion of sets, `BalancedAtRest` a disjoint
union.

`MappingTypeCorrect`, `IdentityOfTarget`, `NoFieldTwice`, `StartsOver`, `ContainersRoundTrip`,
`LaterWins` (`MappingProofs`): `MappingTypeOK`, `TargetIdentityKept`, `FieldsOnce`,
`ReplacementStartsOver`, `ContainerRoundTrip` and `LaterEntriesWin`, for all sources, lists of
entries of any length and paths of any depth that satisfy `MappingAssumption`: what an API
server serves has valid metadata and its type and metadata once, and a path that is split
at dots has at least one key. For the first three, what JSONPath selects and what
`set_field_path` builds below the first key is any value at all: `MappingInv` rests on which
field is written, on what passes through `ObjectMeta`, and on `clone_resource` and
`cleanup_subtree`. The others are about the values:

* `LoopInv`: the template is what `apply_mappings` makes of the entries so far, and, from
  each replacement on, of the entries from it on (`Fresh`). A replacement does not depend on
  the template that it replaces (`Indifferent`);
* `Portable`: every source and every object that comes out of the loop survives
  `to_value` and the way back, type and metadata included (`RoundTrip`);
* `WinInv`: an entry that no later one has replaced or overlapped (`Standing`) has its
  value at its path, in the metadata or in the data (`There`). `Writing` says that
  `set_field_path` leads to what it writes, `WritingElsewhere` that it leaves alone the
  paths that part from its own (`Parting`), `Passing` what `ObjectMeta` keeps of it, and
  `ReadBack` that JSONPath finds it in the serialized template.

These need inductions over paths and lists. The library's induction theorems take an
operator as a parameter and cannot be used; `Counting` is an induction over *sets* of
naturals instead, from the well-foundedness of `<` (`WFMin`). The loops of the code are recursive
functions here (`Holders`, `Rebuilt`, `Query`, `apply_mappings`); of each it is first shown
that a function with its equation exists, by induction on how far it is defined
(`WalkExists`, `RebuiltExists`, `QueryExists`, `RunExists`), so that the equation can be used.

`LastWriterFound` (`FiltersProofs`): `FiltersSpec => []LastWriterKnown`, for all managers, any
spacing of the writes, all orders of the list and all takeovers. The invariant says that the
last writer's entry is in the list and that no entry with a time is newer (`Newest`), because
none is newer than the clock. `max_by_key` finds an entry of the newest second
(`MostRecentIsNewest`); if it is not the last writer's, then the two are of the same second,
and if the answer is wrong, one of them is Sinker's and the other is not: `Contested`. That
case cannot be excluded, since Sinker reapplies within milliseconds of a foreign write;
`RegardlessOfPosition` shows what the order of the list then does.

`AccessTypeCorrect`, `AccessInvariant`, `PermissionNeeded`, `OneDenial` (`AccessProofs`):
`AccessTypeOK`, `NamespacesAgree`, `ForeignSecretNeedsPermission` and `DenialTellsNothing` for
all namespaces, references and Secrets, those without data included. The invariant adds
which namespace the client's configuration has while it connects.

Each of these strengthened invariants was checked with TLC before it was proved; what the
runs keep are the properties that follow from them.

Only model-checked:

* all liveness properties: fairness and `ENABLED` are out of the prover's reach;
* `OnlySelectedCopied`: it compares the leaves of values, and `Leaves` is a recursive
  operator over trees, which the prover cannot reason about (it is in `MappingTests` for
  that reason);
* the tables of the tests (`ConformsToTests`, `OutcomesAsTested`, `MappingConformsToTests`,
  `AccessConformsToTests`): closed formulas, which TLC evaluates.

## 5. Not modelled

* `main.rs`: the command line, logging, the admin server, the construction of the first
  client. Input and output; what a start and an end of the process mean is in
  `Controller`.
* `SinkerContainer`, the CRD and the other manifests: static data.
* The text of errors and conditions, the buckets of the histogram, durations.
  (`MissingKeyError` prints its first argument three times, `src/src/lib.rs:20`; wording
  only.)
* The syntax of regexes and of JSONPath beyond keys, indices and wildcards: libraries.
* A source and a target that become unreachable one without the other: `Controller` has
  one Boolean per sync, `ClusterAccess` one reference at a time.
* A running watch whose permission is withdrawn: it keeps its client, as README.md:350
  says.
* Several controller processes at once: the deployment runs one replica.

Known limits of `Mapping`'s properties: an entry with `toFieldPath: kind`, `apiVersion` or
`metadata` writes a field of the data that is serialized beside the one of the object,
so that it is there twice; `FieldsOnce` is about lists without such entries, and
`LaterEntriesWin` about entries into the metadata that none to `metadata` comes before.

## 6. Plan

1. Done: tasks, manager, controller, their composition, the lease and its refinement,
   `Filters`, `ClusterAccess`, `Mapping`, `Metrics`, panics; the theorems above.
2. Done: a theorem for every safety and action property of the passing runs, except
   `OnlySelectedCopied` and the tables of the tests.
3. Model to come: a change notifier as an abstract specification of `WatchService`; source
   and target of a sync out of reach independently.
