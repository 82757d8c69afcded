-------------------------- MODULE ProtectionProofs --------------------------
(***************************************************************************)
(* TargetProtected, ForeignKeptOnDeletion, LeaseKept and NothingForgotten, *)
(* proved for every value of the constants but Staleness: the list a new   *)
(* process starts from must not be behind.                                 *)
(*                                                                         *)
(* TargetProtected is not inductive.  That the finalizer is there when a   *)
(* target is applied rests on a cached version, and that the target is     *)
(* gone when the finalizer is removed on a read made earlier; the patches  *)
(* go by name and may hit another incarnation.  SyncInv says what the      *)
(* versions a step may be based on have to do with the stored one.         *)
(***************************************************************************)
EXTENDS ControllerProofs

\* Later versions of a ResourceSync have a higher rank: a new incarnation, or the
\* deletion of the same one.
Rank(v) == 2 * v.uid + (IF v.phase = "live" THEN 0 ELSE 1)

\* The version the controller has acted on or is acting on.
Seen(s) == IF pc[s] = "idle" THEN cache[s] ELSE snap[s]

\* The versions some step may still be based on.
Known(s) == {cache[s], rs[s], Seen(s)} \cup {feed[s][i] : i \in 1..Len(feed[s])}

\* What the controller has seen, what it will see, and what is stored are in the
\* order in which the API server made them.
InOrder(s) ==
  /\ Rank(Seen(s)) <= Rank(cache[s])
  /\ Rank(cache[s]) <= Rank(rs[s])
  /\ \A i \in 1..Len(feed[s]) : /\ Rank(cache[s]) <= Rank(feed[s][i])
                                /\ Rank(feed[s][i]) <= Rank(rs[s])
  /\ \A i, j \in 1..Len(feed[s]) : i < j => Rank(feed[s][i]) <= Rank(feed[s][j])

\* A ResourceSync that is not there has no finalizers and one that is has a uid;
\* and its user has not waived anything.
WellFormed(s) ==
  /\ rs[s].phase = "absent" => rs[s].fins = {}
  /\ rs[s].phase # "absent" => rs[s].uid > 0
  /\ \A v \in Known(s) : ~v.force /\ ~v.disable

\* A finalizer the controller has put on an incarnation is still there as long as
\* the controller has not seen that incarnation being deleted.
FinalizerHeld(s) ==
  \A v \in Known(s) :
    (FINALIZER \in v.fins /\ Rank(Seen(s)) < 2 * v.uid + 1)
      => rs[s].uid = v.uid /\ FINALIZER \in rs[s].fins

\* As long as the deletion of a finalized incarnation may still be acted on, no
\* later incarnation has the finalizer: the patch that removes it, which goes by
\* name, cannot hit a sync that needs it.
NoSuccessorHeld(s) ==
  \A v, w \in Known(s) :
    (w.phase = "deleting" /\ FINALIZER \in w.fins /\ v.uid > w.uid) => FINALIZER \notin v.fins

\* Where an attempt is, its version justifies it, and on the way to removing the
\* finalizer there is no target of this sync.
PcJustified(s) ==
  /\ pc[s] # "idle" => snap[s].phase # "absent"
  /\ pc[s] = "addFinalizer" => snap[s].phase = "live"
  /\ pc[s] \in {"getSource", "apply"} => snap[s].phase = "live" /\ FINALIZER \in snap[s].fins
  /\ pc[s] \in {"getTarget", "deleteTarget"} \cup RemovalPcs =>
       snap[s].phase = "deleting" /\ FINALIZER \in snap[s].fins
  /\ pc[s] \in RemovalPcs => \A u \in Uids : obj[TargetOf[s]].owner # <<s, u>>

\* TargetProtected, for one sync.
Protected(s) ==
  \A u \in Uids :
    obj[TargetOf[s]].owner = <<s, u>> =>
      rs[s].phase # "absent" /\ rs[s].uid = u /\ FINALIZER \in rs[s].fins

SyncInv(s) ==
  /\ InOrder(s)
  /\ WellFormed(s)
  /\ FinalizerHeld(s)
  /\ NoSuccessorHeld(s)
  /\ PcJustified(s)
  /\ Protected(s)

(***************************************************************************)
(* Ranks.                                                                  *)
(***************************************************************************)

LEMMA RankFacts ==
  ASSUME NEW v \in Versions, NEW w \in Versions
  PROVE  /\ Rank(v) \in Nat
         /\ v.uid \in Nat
         /\ Rank(v) <= Rank(w) => v.uid <= w.uid
         /\ Rank(v) < 2 * w.uid + 1 => v.uid <= w.uid
         /\ (v.phase = "live" /\ Rank(v) <= Rank(w)) => Rank(v) < 2 * w.uid + 1
         /\ (v.phase # "live" /\ Rank(v) < 2 * w.uid + 1) => v.uid < w.uid
<1>1. v.uid \in Nat /\ w.uid \in Nat
  BY DEF Versions
<1> QED
  BY <1>1 DEF Rank

LEMMA KnownFacts ==
  ASSUME TypeOK, NEW s \in Syncs, InOrder(s), NEW v \in Known(s)
  PROVE  /\ v \in Versions
         /\ Rank(Seen(s)) <= Rank(v)
         /\ Rank(v) <= Rank(rs[s])
         /\ v.uid <= rs[s].uid
<1>1. /\ cache[s] \in Versions /\ rs[s] \in Versions /\ Seen(s) \in Versions
      /\ \A i \in 1..Len(feed[s]) : feed[s][i] \in Versions
  BY DEF TypeOK, Seen
<1>2. v \in Versions
  BY <1>1 DEF Known
<1>3. Rank(Seen(s)) \in Nat /\ Rank(cache[s]) \in Nat /\ Rank(rs[s]) \in Nat /\ Rank(v) \in Nat
  BY <1>1, <1>2, RankFacts
<1>4. Rank(Seen(s)) <= Rank(v) /\ Rank(v) <= Rank(rs[s])
  BY <1>3 DEF Known, InOrder
<1> QED
  BY <1>1, <1>2, <1>4, RankFacts

(***************************************************************************)
(* Steps that keep the versions of s.                                      *)
(***************************************************************************)

LEMMA Frame ==
  ASSUME NEW s \in Syncs, SyncInv(s),
         rs'[s] = rs[s], cache'[s] = cache[s], feed'[s] = feed[s], snap'[s] = snap[s],
         pc'[s] = "idle" <=> pc[s] = "idle",
         PcJustified(s)', Protected(s)'
  PROVE  SyncInv(s)'
<1>1. Seen(s)' = Seen(s)
  BY DEF Seen
<1>2. Known(s)' = Known(s)
  BY <1>1 DEF Known
<1> QED
  BY <1>1, <1>2 DEF SyncInv, InOrder, WellFormed, FinalizerHeld, NoSuccessorHeld

\* The steps that do not belong to s: what they do to its target, they do not do
\* in its name.
LEMMA OtherStep ==
  ASSUME NEW s \in Syncs, SyncInv(s),
         rs'[s] = rs[s], cache'[s] = cache[s], feed'[s] = feed[s], snap'[s] = snap[s],
         pc'[s] = pc[s],
         \/ obj'[TargetOf[s]].owner = obj[TargetOf[s]].owner
         \/ \A u \in Uids : obj'[TargetOf[s]].owner # <<s, u>>
  PROVE  SyncInv(s)'
<1>1. PcJustified(s)'
  BY DEF SyncInv, PcJustified
<1>2. Protected(s)'
  BY DEF SyncInv, Protected
<1> QED
  BY <1>1, <1>2, Frame

(***************************************************************************)
(* Steps that store a new version of s.                                    *)
(***************************************************************************)

LEMMA StoreStep ==
  ASSUME TypeOK, NEW s \in Syncs, SyncInv(s), NEW nv \in Versions,
         rs'[s] = nv,
         \/ feed'[s] = feed[s] /\ nv = rs[s]
         \/ feed'[s] = Append(feed[s], nv),
         cache'[s] = cache[s], snap'[s] = snap[s],
         pc'[s] = "idle" <=> pc[s] = "idle",
         Rank(rs[s]) <= Rank(nv),
         nv.phase = "absent" => nv.fins = {},
         nv.phase # "absent" => nv.uid > 0,
         ~nv.force /\ ~nv.disable,
         \A v \in Known(s) : (FINALIZER \in v.fins /\ Rank(Seen(s)) < 2 * v.uid + 1)
                               => nv.uid = v.uid /\ FINALIZER \in nv.fins,
         \A w \in Known(s) : (w.phase = "deleting" /\ FINALIZER \in w.fins /\ nv.uid > w.uid)
                               => FINALIZER \notin nv.fins,
         PcJustified(s)', Protected(s)'
  PROVE  SyncInv(s)'
<1>1. Seen(s)' = Seen(s)
  BY DEF Seen
<1>2. feed[s] \in Seq(Versions) /\ cache[s] \in Versions /\ rs[s] \in Versions
  BY DEF TypeOK
<1>3. /\ Len(feed'[s]) \in Nat /\ Len(feed[s]) \in Nat
      /\ \A i \in 1..Len(feed'[s]) :
           \/ i \in 1..Len(feed[s]) /\ feed'[s][i] = feed[s][i]
           \/ i = Len(feed[s]) + 1 /\ i = Len(feed'[s]) /\ feed'[s][i] = nv
  BY <1>2
<1>4. Known(s)' \subseteq Known(s) \cup {nv}
  BY <1>1, <1>3 DEF Known
<1>5. \A v \in Known(s) : /\ v \in Versions /\ Rank(v) \in Nat /\ v.uid \in Nat
                          /\ Rank(v) <= Rank(nv) /\ v.uid <= nv.uid
  <2> TAKE v \in Known(s)
  <2>1. v \in Versions /\ Rank(v) <= Rank(rs[s])
    BY KnownFacts DEF SyncInv
  <2>2. Rank(v) \in Nat /\ Rank(rs[s]) \in Nat /\ Rank(nv) \in Nat /\ v.uid \in Nat
    BY <1>2, <2>1, RankFacts
  <2>3. Rank(v) <= Rank(nv)
    BY <2>1, <2>2
  <2> QED
    BY <2>1, <2>2, <2>3, RankFacts
<1>6. InOrder(s)'
  <2>1. /\ Rank(cache[s]) <= Rank(nv)
        /\ \A i \in 1..Len(feed[s]) : /\ Rank(feed[s][i]) <= Rank(nv)
                                      /\ Rank(cache[s]) <= Rank(feed[s][i])
        /\ Rank(nv) \in Nat
    BY <1>5, RankFacts DEF Known, SyncInv, InOrder
  <2>2. \A i, j \in 1..Len(feed'[s]) : i < j => Rank(feed'[s][i]) <= Rank(feed'[s][j])
    <3> TAKE i, j \in 1..Len(feed'[s])
    <3> HAVE i < j
    <3>1. i \in 1..Len(feed[s]) /\ feed'[s][i] = feed[s][i]
      BY <1>3
    <3>2. CASE j \in 1..Len(feed[s]) /\ feed'[s][j] = feed[s][j]
      BY <3>1, <3>2 DEF SyncInv, InOrder
    <3>3. CASE feed'[s][j] = nv
      BY <3>1, <3>3, <2>1
    <3> QED
      BY <1>3, <3>2, <3>3
  <2>3. Rank(Seen(s)) <= Rank(cache[s])
    BY DEF SyncInv, InOrder
  <2> HIDE DEF Rank
  <2>4. \A i \in 1..Len(feed'[s]) : Rank(cache[s]) <= Rank(feed'[s][i]) /\ Rank(feed'[s][i]) <= Rank(nv)
    BY <1>3, <2>1
  <2> QED
    BY <1>1, <2>1, <2>2, <2>3, <2>4 DEF InOrder, Rank
<1>7. WellFormed(s)'
  BY <1>4 DEF SyncInv, WellFormed
<1>8. FinalizerHeld(s)'
  BY <1>1, <1>4 DEF FinalizerHeld
<1>9. NoSuccessorHeld(s)'
  <2> SUFFICES ASSUME NEW v \in Known(s)', NEW w \in Known(s)',
                      w.phase = "deleting", FINALIZER \in w.fins, v.uid > w.uid
               PROVE  FINALIZER \notin v.fins
    BY DEF NoSuccessorHeld
  <2>1. v.uid <= nv.uid /\ v.uid \in Nat /\ nv.uid \in Nat
    BY <1>4, <1>5, RankFacts
  <2>2. w # nv /\ w \in Known(s)
    BY <1>4, <2>1
  <2> QED
    BY <1>4, <2>2 DEF SyncInv, NoSuccessorHeld
<1> QED
  BY <1>6, <1>7, <1>8, <1>9 DEF SyncInv

\* A step that keeps the incarnation and our finalizer, and may begin or end a
\* deletion.
LEMMA SameIncarnation ==
  ASSUME TypeOK, NEW s \in Syncs, SyncInv(s), NEW v \in Versions,
         rs[s].phase # "absent",
         v.uid = rs[s].uid, v.phase \in {rs[s].phase, "deleting"}, ~v.force, ~v.disable,
         FINALIZER \in v.fins <=> FINALIZER \in rs[s].fins,
         Store(s, v),
         cache'[s] = cache[s], snap'[s] = snap[s], pc'[s] = pc[s], obj' = obj
  PROVE  SyncInv(s)'
<1> DEFINE nv == Settled(v)
<1>1. /\ nv \in Versions /\ rs[s] \in Versions
      /\ nv.uid = rs[s].uid
      /\ FINALIZER \in nv.fins <=> FINALIZER \in rs[s].fins
      /\ FINALIZER \in nv.fins => nv.phase # "absent"
      /\ nv.phase = "absent" => nv.fins = {}
      /\ ~nv.force /\ ~nv.disable
      /\ nv.phase = "live" => rs[s].phase = "live"
  <2>1. nv \in Versions /\ rs[s] \in Versions
    BY VersionFacts DEF TypeOK
  <2>2. CASE v.phase = "deleting" /\ v.fins = {}
    BY <2>1, <2>2 DEF Settled, Gone
  <2>3. CASE ~(v.phase = "deleting" /\ v.fins = {})
    <3>1. nv = v
      BY <2>3 DEF Settled
    <3> QED
      BY <2>1, <3>1
  <2> QED
    BY <2>2, <2>3
<1>2. /\ rs'[s] = nv
      /\ \/ feed'[s] = feed[s] /\ nv = rs[s]
         \/ feed'[s] = Append(feed[s], nv)
  BY DEF Store, TypeOK
<1> HIDE DEF nv
<1>3. Rank(rs[s]) <= Rank(nv) /\ nv.uid > 0
  BY <1>1 DEF Rank, Versions, SyncInv, WellFormed
<1>4. \A x \in Known(s) : (FINALIZER \in x.fins /\ Rank(Seen(s)) < 2 * x.uid + 1)
                            => nv.uid = x.uid /\ FINALIZER \in nv.fins
  BY <1>1 DEF SyncInv, FinalizerHeld
<1>5. \A w \in Known(s) : (w.phase = "deleting" /\ FINALIZER \in w.fins /\ nv.uid > w.uid)
                            => FINALIZER \notin nv.fins
  BY <1>1 DEF SyncInv, NoSuccessorHeld, Known
<1>6. PcJustified(s)'
  BY DEF SyncInv, PcJustified
<1>7. Protected(s)'
  BY <1>1, <1>2 DEF SyncInv, Protected
<1> QED
  BY <1>1, <1>2, <1>3, <1>4, <1>5, <1>6, <1>7, StoreStep

LEMMA UserStep ==
  ASSUME TypeOK, NEW s \in Syncs \ Overridable, SyncInv(s), User(s)
  PROVE  SyncInv(s)'
<1>0. rs[s] \in Versions /\ ~rs[s].force /\ ~rs[s].disable
  BY DEF TypeOK, SyncInv, WellFormed, Known
<1>1. ASSUME NEW force \in BOOLEAN, NEW disable \in BOOLEAN, CreateSync(s, force, disable)
      PROVE  SyncInv(s)'
  <2> DEFINE nv == [phase |-> "live", uid |-> rs[s].uid + 1, fins |-> {},
                    force |-> force, disable |-> disable]
  <2>1. ~force /\ ~disable
    BY <1>1 DEF CreateSync, Annotations
  <2>2. nv \in Versions
    BY <1>0, <1>1, RemoteWatcherAssumption DEF CreateSync, Versions
  <2>3. /\ rs'[s] = nv
        /\ \/ feed'[s] = feed[s] /\ nv = rs[s]
           \/ feed'[s] = Append(feed[s], nv)
    BY <1>1 DEF CreateSync, Store, Settled, TypeOK
  <2>4. /\ rs[s].phase = "absent" /\ FINALIZER \notin rs[s].fins
        /\ UNCHANGED <<obj, cache, snap, pc>>
    BY <1>1 DEF CreateSync, SyncInv, WellFormed, managerVars, attemptVars
  <2>5. Rank(rs[s]) <= Rank(nv) /\ nv.uid > 0
    BY <1>0, <2>4 DEF Rank, Versions
  <2>6. \A v \in Known(s) : ~(FINALIZER \in v.fins /\ Rank(Seen(s)) < 2 * v.uid + 1)
    BY <2>4 DEF SyncInv, FinalizerHeld
  <2>7. PcJustified(s)' /\ Protected(s)'
    BY <2>4 DEF SyncInv, PcJustified, Protected
  <2>8. FINALIZER \notin nv.fins /\ nv.phase = "live" /\ ~nv.force /\ ~nv.disable
    BY <2>1
  <2> HIDE DEF nv
  <2> QED
    BY <2>2, <2>3, <2>4, <2>5, <2>6, <2>7, <2>8, StoreStep
<1>2. ASSUME NEW v \in Versions, UserChange(s, v),
             rs[s].phase # "absent", v.uid = rs[s].uid,
             v.phase \in {rs[s].phase, "deleting"}, ~v.force, ~v.disable,
             FINALIZER \in v.fins <=> FINALIZER \in rs[s].fins
      PROVE  SyncInv(s)'
  <2>1. Store(s, v) /\ UNCHANGED <<obj, cache, snap, pc>>
    BY <1>2 DEF UserChange, managerVars, attemptVars
  <2> QED
    BY <1>2, <2>1, SameIncarnation
<1>3. CASE DeleteSync(s)
  <2> DEFINE v == [rs[s] EXCEPT !.phase = "deleting"]
  <2>1. /\ v \in Versions /\ v.uid = rs[s].uid /\ v.phase = "deleting"
        /\ v.fins = rs[s].fins /\ v.force = rs[s].force /\ v.disable = rs[s].disable
    BY <1>0 DEF Versions
  <2>2. UserChange(s, v) /\ rs[s].phase # "absent"
    BY <1>3 DEF DeleteSync
  <2> HIDE DEF v
  <2> QED
    BY <1>0, <1>2, <2>1, <2>2
<1>4. ASSUME NEW force \in BOOLEAN, NEW disable \in BOOLEAN, Annotate(s, force, disable)
      PROVE  SyncInv(s)'
  <2>1. ~force /\ ~disable
    BY <1>4 DEF Annotate, Annotations
  <2>2. force = rs[s].force /\ disable = rs[s].disable
    BY <1>0, <2>1 DEF Versions
  <2> QED
    BY <1>4, <2>2 DEF Annotate
<1>5. ASSUME NEW f \in Foreign, ForeignClaims(s, f) \/ ForeignReleases(s, f) PROVE SyncInv(s)'
  <2>1. f # FINALIZER
    BY ControllerAssumption DEF FINALIZER
  <2>2. PICK F \in {rs[s].fins \cup {f}, rs[s].fins \ {f}} :
          rs[s].phase # "absent" /\ UserChange(s, [rs[s] EXCEPT !.fins = F])
    BY <1>5 DEF ForeignClaims, ForeignReleases, SyncInv, WellFormed
  <2>3. F \in SUBSET ({FINALIZER} \cup Foreign) /\ (FINALIZER \in F <=> FINALIZER \in rs[s].fins)
    BY <1>0, <2>1, <2>2 DEF Versions
  <2> DEFINE v == [rs[s] EXCEPT !.fins = F]
  <2>4. /\ v \in Versions /\ v.uid = rs[s].uid /\ v.phase = rs[s].phase
        /\ v.fins = F /\ v.force = rs[s].force /\ v.disable = rs[s].disable
    BY <1>0, <2>3 DEF Versions
  <2>5. UserChange(s, v)
    BY <2>2
  <2> HIDE DEF v
  <2> QED
    BY <1>0, <1>2, <2>2, <2>3, <2>4, <2>5
<1> QED
  BY <1>1, <1>3, <1>4, <1>5 DEF User

(***************************************************************************)
(* The kube runtime.                                                       *)
(***************************************************************************)

LEMMA ReflectStep ==
  ASSUME TypeOK, NEW s \in Syncs, SyncInv(s), Reflect(s)
  PROVE  SyncInv(s)'
<1>1. /\ feed[s] \in Seq(Versions) /\ feed[s] # <<>>
      /\ cache'[s] = feed[s][1] /\ feed'[s] = Tail(feed[s])
      /\ UNCHANGED <<rs, snap, pc, obj>>
  BY DEF Reflect, TypeOK, managerVars, apiVars, attemptVars
<1>2. /\ Len(feed[s]) \in Nat /\ 1 \in 1..Len(feed[s])
      /\ Len(feed'[s]) = Len(feed[s]) - 1
      /\ \A i \in 1..Len(feed'[s]) : i + 1 \in 1..Len(feed[s]) /\ feed'[s][i] = feed[s][i + 1]
  BY <1>1
<1>3. Known(s)' \subseteq Known(s)
  <2>1. cache'[s] \in Known(s) /\ \A i \in 1..Len(feed'[s]) : feed'[s][i] \in Known(s)
    BY <1>1, <1>2 DEF Known
  <2>2. Seen(s)' \in Known(s) /\ rs'[s] \in Known(s)
    BY <1>1, <2>1 DEF Known, Seen
  <2> QED
    BY <2>1, <2>2 DEF Known
<1>4. \A v \in Known(s) : v \in Versions /\ Rank(v) \in Nat /\ Rank(Seen(s)) <= Rank(v)
  BY KnownFacts, RankFacts DEF SyncInv
<1>5. /\ Rank(cache[s]) <= Rank(feed[s][1]) /\ Rank(feed[s][1]) <= Rank(rs[s])
      /\ \A i \in 1..Len(feed[s]) : /\ Rank(feed[s][i]) <= Rank(rs[s])
                                    /\ i > 1 => Rank(feed[s][1]) <= Rank(feed[s][i])
      /\ \A i, j \in 1..Len(feed[s]) : i < j => Rank(feed[s][i]) <= Rank(feed[s][j])
  BY <1>2 DEF SyncInv, InOrder
<1>6. /\ Seen(s)' \in Versions /\ Rank(Seen(s)') \in Nat
      /\ Rank(Seen(s)) \in Nat /\ Rank(Seen(s)) <= Rank(Seen(s)')
      /\ Rank(Seen(s)') <= Rank(feed[s][1])
  <2>1. Seen(s)' \in Known(s) /\ Seen(s) \in Known(s) /\ feed[s][1] \in Known(s)
    BY <1>1, <1>2, <1>3 DEF Known
  <2>2. Rank(Seen(s)') <= Rank(feed[s][1])
    BY <1>1, <1>4, <2>1 DEF Seen
  <2> QED
    BY <1>4, <2>1, <2>2
<1>7. InOrder(s)'
  <2>1. Rank(Seen(s))' <= Rank(cache'[s]) /\ Rank(cache'[s]) <= Rank(rs'[s])
    BY <1>1, <1>5, <1>6 DEF Rank
  <2> HIDE DEF Rank
  <2>2. \A i \in 1..Len(feed'[s]) : /\ Rank(cache'[s]) <= Rank(feed'[s][i])
                                    /\ Rank(feed'[s][i]) <= Rank(rs'[s])
    BY <1>1, <1>2, <1>5
  <2>3. \A i, j \in 1..Len(feed'[s]) : i < j => Rank(feed'[s][i]) <= Rank(feed'[s][j])
    BY <1>1, <1>2, <1>5
  <2> QED
    BY <2>1, <2>2, <2>3 DEF InOrder, Rank
<1>8. WellFormed(s)' /\ NoSuccessorHeld(s)'
  BY <1>1, <1>3 DEF SyncInv, WellFormed, NoSuccessorHeld
<1>9. FinalizerHeld(s)'
  <2> SUFFICES ASSUME NEW v \in Known(s)', FINALIZER \in v.fins,
                      Rank(Seen(s)') < 2 * v.uid + 1
               PROVE  rs[s].uid = v.uid /\ FINALIZER \in rs[s].fins
    BY <1>1 DEF FinalizerHeld, Rank
  <2>1. v \in Known(s) /\ v.uid \in Nat
    BY <1>3, <1>4 DEF Versions
  <2>2. Rank(Seen(s)) < 2 * v.uid + 1
    BY <1>6, <2>1
  <2> QED
    BY <2>1, <2>2 DEF SyncInv, FinalizerHeld
<1>10. PcJustified(s)' /\ Protected(s)'
  BY <1>1 DEF SyncInv, PcJustified, Protected
<1> QED
  BY <1>7, <1>8, <1>9, <1>10 DEF SyncInv

LEMMA BeginStep ==
  ASSUME TypeOK, NEW s \in Syncs, SyncInv(s), Begin(s)
  PROVE  SyncInv(s)'
<1>1. /\ pc[s] = "idle" /\ UNCHANGED <<obj, rs, cache, feed>>
      /\ \/ pc'[s] = "resolve" /\ snap'[s] = cache[s] /\ cache[s].phase # "absent"
         \/ UNCHANGED <<pc, snap>>
  BY DEF Begin, TypeOK, apiVars, cacheVars, Goto
<1>2. Seen(s)' = Seen(s)
  BY <1>1 DEF Seen
<1>3. Known(s)' = Known(s)
  BY <1>1, <1>2 DEF Known
<1>4. PcJustified(s)' /\ Protected(s)'
  BY <1>1 DEF SyncInv, PcJustified, Protected, RemovalPcs, StopPcs
<1> QED
  BY <1>1, <1>2, <1>3, <1>4 DEF SyncInv, InOrder, WellFormed, FinalizerHeld, NoSuccessorHeld

(***************************************************************************)
(* The attempt of s.                                                       *)
(***************************************************************************)

\* A step from one place in the attempt to another that stores nothing.
LEMMA MoveStep ==
  ASSUME NEW s \in Syncs, SyncInv(s), UNCHANGED <<rs, cache, feed, snap, obj>>,
         pc[s] # "idle", pc'[s] # "idle",
         PcJustified(s)'
  PROVE  SyncInv(s)'
<1>1. Protected(s)'
  BY DEF SyncInv, Protected
<1> QED
  BY <1>1, Frame

\* The places that need no justification but that the attempt has a version.
LEMMA ToDone ==
  ASSUME NEW s \in Syncs, SyncInv(s), UNCHANGED snap, pc[s] # "idle",
         pc'[s] \in {"done", "patchStatus", "startSource", "startTarget"}
  PROVE  PcJustified(s)'
BY DEF SyncInv, PcJustified, RemovalPcs, StopPcs

LEMMA ManagerStep ==
  ASSUME TypeOK, NEW s \in Syncs, SyncInv(s), InManager(s)
  PROVE  SyncInv(s)'
<1> USE DEF Outside, apiVars, cacheVars, attemptVars, InManager, TypeOK, Goto
<1>1. ASSUME NEW role \in {"source", "target"}, AddIfNotExists(s, role) PROVE SyncInv(s)'
  <2>1. /\ pc[s] # "idle" /\ pc'[s] \in {"startTarget", "done"}
        /\ UNCHANGED <<rs, cache, feed, snap, obj>>
    BY <1>1 DEF AddIfNotExists, StartPc, AfterStart
  <2> QED
    BY <2>1, ToDone, MoveStep
<1>2. ASSUME NEW role \in {"source", "target"}, StopAndRemove(s, role) \/ Join(s, role)
      PROVE  SyncInv(s)'
  <2>1. /\ pc[s] \in RemovalPcs /\ pc'[s] \in RemovalPcs
        /\ UNCHANGED <<rs, cache, feed, snap, obj>>
    BY <1>2 DEF StopAndRemove, Join, StopPc, JoinPc, AfterStop, RemovalPcs, StopPcs, watchVars
  <2>2. PcJustified(s)'
    BY <2>1 DEF SyncInv, PcJustified, RemovalPcs, StopPcs
  <2>3. pc[s] # "idle" /\ pc'[s] # "idle"
    BY <2>1 DEF RemovalPcs, StopPcs
  <2> QED
    BY <2>1, <2>2, <2>3, MoveStep
<1> QED
  BY <1>1, <1>2 DEF TakeMutex, JoinAny

LEMMA FinishStep ==
  ASSUME TypeOK, NEW s \in Syncs, SyncInv(s), NEW r, Finish(s, r)
  PROVE  SyncInv(s)'
<1>1. pc'[s] = "idle" /\ UNCHANGED <<rs, cache, feed, obj>>
  BY DEF Finish, Goto, TypeOK, cacheVars
<1>2. Seen(s)' = cache[s] /\ Known(s)' \subseteq Known(s)
  BY <1>1 DEF Seen, Known
<1>3. /\ cache[s] \in Versions /\ Seen(s) \in Versions
      /\ Rank(Seen(s)) <= Rank(cache[s]) /\ Rank(Seen(s)) \in Nat /\ Rank(cache[s]) \in Nat
  BY RankFacts DEF TypeOK, Seen, SyncInv, InOrder
<1>4. FinalizerHeld(s)'
  <2> SUFFICES ASSUME NEW v \in Known(s), FINALIZER \in v.fins, Rank(cache[s]) < 2 * v.uid + 1
               PROVE  rs[s].uid = v.uid /\ FINALIZER \in rs[s].fins
    BY <1>1, <1>2 DEF FinalizerHeld, Rank
  <2>1. v.uid \in Nat
    BY KnownFacts DEF SyncInv, Versions
  <2> QED
    BY <1>3, <2>1 DEF SyncInv, FinalizerHeld
<1>5. InOrder(s)'
  BY <1>1, <1>2, <1>3 DEF SyncInv, InOrder, Rank
<1>6. WellFormed(s)' /\ NoSuccessorHeld(s)'
  BY <1>1, <1>2 DEF SyncInv, WellFormed, NoSuccessorHeld
<1>7. PcJustified(s)' /\ Protected(s)'
  BY <1>1 DEF SyncInv, PcJustified, Protected, RemovalPcs, StopPcs
<1> QED
  BY <1>4, <1>5, <1>6, <1>7 DEF SyncInv

\* The requests that store nothing: resolving the APIs and reading the objects.
LEMMA ReadStep ==
  ASSUME TypeOK, NEW s \in Syncs, SyncInv(s),
         \/ Resolve(s) \/ ResolveFails(s) \/ RequestFails(s)
         \/ GetTarget(s) \/ GetSource(s) \/ GetStatus(s)
  PROVE  SyncInv(s)'
<1> USE DEF Goto, Return, Inert, TypeOK
<1>1. snap[s] \in Versions /\ (pc[s] # "idle" => ~snap[s].force /\ ~snap[s].disable)
  BY DEF SyncInv, WellFormed, Known, Seen
<1>2. CASE Resolve(s)
  <2>1. /\ pc[s] = "resolve" /\ pc'[s] = Dispatch(snap[s])
        /\ UNCHANGED <<rs, cache, feed, snap, obj>>
    BY <1>2 DEF Resolve
  <2>2. snap[s].phase # "absent" /\ ~snap[s].disable
    BY <1>1, <2>1 DEF SyncInv, PcJustified
  <2>3. \/ Dispatch(snap[s]) = "done"
        \/ Dispatch(snap[s]) = "getTarget" /\ snap[s].phase = "deleting" /\ FINALIZER \in snap[s].fins
        \/ Dispatch(snap[s]) = "addFinalizer" /\ snap[s].phase = "live"
        \/ Dispatch(snap[s]) = "getSource" /\ snap[s].phase = "live" /\ FINALIZER \in snap[s].fins
    BY <1>1, <2>2 DEF Dispatch, has_been_deleted, has_target_finalizer, Versions
  <2>4. PcJustified(s)' /\ pc'[s] # "idle"
    BY <2>1, <2>2, <2>3 DEF PcJustified, RemovalPcs, StopPcs
  <2> QED
    BY <2>1, <2>4, MoveStep
<1>3. CASE ResolveFails(s) \/ RequestFails(s)
  <2>1. pc[s] # "idle" /\ pc'[s] = "done" /\ UNCHANGED <<rs, cache, feed, snap, obj>>
    BY <1>1, <1>3 DEF ResolveFails, RequestFails, LetGo
  <2> QED
    BY <2>1, ToDone, MoveStep
<1>4. CASE GetTarget(s)
  <2>1. /\ pc[s] = "getTarget" /\ pc'[s] = AfterGet(obj[TargetOf[s]].phase)
        /\ UNCHANGED <<rs, cache, feed, snap, obj>>
    BY <1>4 DEF GetTarget
  <2>2. obj[TargetOf[s]] \in ObjectStates
    BY RemoteWatcherAssumption DEF WatchTypeOK
  <2>3. CASE pc'[s] = "startSource"
    BY <2>1, <2>3, ToDone, MoveStep
  <2>4. CASE pc'[s] = "deleteTarget"
    <3>1. PcJustified(s)'
      BY <2>1, <2>4 DEF SyncInv, PcJustified, RemovalPcs, StopPcs
    <3> QED
      BY <2>1, <2>4, <3>1, MoveStep
  <2>5. CASE pc'[s] = "stopSource" /\ obj[TargetOf[s]].phase = "absent"
    <3>1. obj[TargetOf[s]] = Absent
      BY <2>2, <2>5 DEF ObjectStates
    <3>2. \A u \in Uids : obj[TargetOf[s]].owner # <<s, u>>
      BY <3>1 DEF Absent, NoOwner, Uids
    <3>3. PcJustified(s)'
      BY <2>1, <2>5, <3>2 DEF SyncInv, PcJustified, RemovalPcs, StopPcs
    <3> QED
      BY <2>1, <2>5, <3>3, MoveStep
  <2> QED
    BY <2>1, <2>2, <2>3, <2>4, <2>5, ObjectFacts DEF AfterGet
<1>5. CASE GetSource(s)
  <2>1. /\ pc[s] = "getSource" /\ pc'[s] \in {"apply", "done"}
        /\ UNCHANGED <<rs, cache, feed, snap, obj>>
    BY <1>5 DEF GetSource
  <2>2. PcJustified(s)'
    BY <2>1 DEF SyncInv, PcJustified, RemovalPcs, StopPcs
  <2> QED
    BY <2>1, <2>2, MoveStep
<1>6. CASE GetStatus(s)
  <2>1. pc[s] # "idle" /\ pc'[s] = "patchStatus" /\ UNCHANGED <<rs, cache, feed, snap, obj>>
    BY <1>6 DEF GetStatus
  <2> QED
    BY <2>1, ToDone, MoveStep
<1> QED
  BY <1>2, <1>3, <1>4, <1>5, <1>6

\* A delete request leaves the owner alone.
LEMMA MarkDeletedOwner ==
  ASSUME TypeOK, NEW o \in Objects, MarkDeleted(o), NEW t \in Objects
  PROVE  obj'[t].owner = obj[t].owner
<1>1. obj[o] \in ObjectStates /\ obj' = [obj EXCEPT ![o] = [obj[o] EXCEPT !.phase = "deleting"]]
  BY DEF TypeOK, WatchTypeOK, MarkDeleted, Publish
<1>2. [obj[o] EXCEPT !.phase = "deleting"].owner = obj[o].owner
  BY <1>1 DEF ObjectStates, Absent
<1> QED
  BY <1>1, <1>2 DEF TypeOK, WatchTypeOK

LEMMA DeleteTargetStep ==
  ASSUME TypeOK, NEW s \in Syncs, SyncInv(s), DeleteTarget(s)
  PROVE  SyncInv(s)'
<1>1. /\ pc[s] = "deleteTarget" /\ pc'[s] \in {"startSource", "done"}
      /\ UNCHANGED <<rs, cache, feed, snap>>
  BY DEF DeleteTarget, Answered, Return, Goto, Inert, TypeOK
<1>2. obj'[TargetOf[s]].owner = obj[TargetOf[s]].owner
  <2>1. TargetOf[s] \in Objects
    BY RemoteWatcherAssumption
  <2> QED
    BY <2>1, MarkDeletedOwner DEF DeleteTarget
<1>3. PcJustified(s)'
  BY <1>1, ToDone
<1>4. Protected(s)'
  BY <1>1, <1>2 DEF SyncInv, Protected
<1> QED
  BY <1>1, <1>3, <1>4, Frame

\* An apply names the incarnation the attempt works on as the owner.
LEMMA ApplyOwner ==
  ASSUME TypeOK, NEW s \in Syncs, Apply(s)
  PROVE  /\ obj'[TargetOf[s]].owner = <<s, snap[s].uid>>
         /\ \A o \in Objects : o # TargetOf[s] => obj'[o] = obj[o]
         /\ UNCHANGED <<rs, cache, feed, snap>>
<1> DEFINE t == TargetOf[s]
           new == [phase |-> IF obj[t].phase = "absent" THEN "live" ELSE obj[t].phase,
                   data |-> work[s].data, by |-> "us", owner |-> <<s, snap[s].uid>>]
<1>1. t \in Objects /\ obj \in [Objects -> ObjectStates]
  BY RemoteWatcherAssumption DEF TypeOK, WatchTypeOK
<1>2. UNCHANGED <<rs, cache, feed, snap>>
  BY DEF Apply, Inert
<1>3. CASE obj[t] = [new EXCEPT !.by = obj[t].by] /\ obj' = obj
  BY <1>2, <1>3
<1>4. CASE obj' = [obj EXCEPT ![t] = new]
  BY <1>1, <1>2, <1>4
<1> QED
  BY <1>3, <1>4 DEF Apply, Publish

\* The version the attempt works on is live and has the finalizer, and the
\* attempt has not seen it being deleted: it still has the finalizer.
LEMMA AppliedUnderFinalizer ==
  ASSUME TypeOK, NEW s \in Syncs, SyncInv(s), pc[s] = "apply"
  PROVE  rs[s].uid = snap[s].uid /\ rs[s].phase # "absent" /\ FINALIZER \in rs[s].fins
<1>1. snap[s] \in Known(s) /\ FINALIZER \in snap[s].fins /\ Rank(Seen(s)) < 2 * snap[s].uid + 1
  BY DEF Known, Seen, SyncInv, PcJustified, Rank, TypeOK, Versions
<1> QED
  BY <1>1 DEF SyncInv, FinalizerHeld, WellFormed

LEMMA ApplyStep ==
  ASSUME TypeOK, NEW s \in Syncs, SyncInv(s), Apply(s)
  PROVE  SyncInv(s)'
<1>1. pc[s] = "apply" /\ pc'[s] \in {"startSource", "done"}
  BY DEF Apply, Answered, Return, Goto, TypeOK
<1>2. Protected(s)'
  BY <1>1, ApplyOwner, AppliedUnderFinalizer DEF Protected
<1>3. PcJustified(s)'
  BY <1>1, ApplyOwner, ToDone
<1> QED
  BY <1>1, <1>2, <1>3, ApplyOwner, Frame

LEMMA PatchStep ==
  ASSUME TypeOK, NEW s \in Syncs, SyncInv(s), AddFinalizer(s) \/ RemoveFinalizer(s)
  PROVE  SyncInv(s)'
<1> DEFINE fins == IF pc[s] = "stopped" THEN snap[s].fins \ {FINALIZER}
                   ELSE snap[s].fins \cup {FINALIZER}
           v == [rs[s] EXCEPT !.fins = fins]
           nv == Settled(v)
<1>0. snap[s] \in Versions /\ rs[s] \in Versions
  BY DEF TypeOK
<1>1. /\ \/ AddFinalizer(s) /\ pc[s] = "addFinalizer"
         \/ RemoveFinalizer(s) /\ pc[s] = "stopped"
      /\ pc'[s] = "done" /\ UNCHANGED <<cache, snap, obj>>
  BY DEF AddFinalizer, RemoveFinalizer, PatchFinalizers, Answered, Return, Goto, Inert, TypeOK
<1>2. PcJustified(s)'
  BY <1>1, ToDone
<1>3. CASE UNCHANGED <<rs, feed>>
  BY <1>1, <1>2, <1>3, MoveStep
<1>4. CASE Patchable(s, fins) /\ Store(s, v)
  <2>1. rs[s].phase # "absent"
    BY <1>4 DEF Patchable
  <2>2. fins \in SUBSET ({FINALIZER} \cup Foreign)
    BY <1>0 DEF Versions
  <2>3. v \in Versions /\ nv \in Versions
    BY <1>0, <2>2, VersionFacts
  <2>4. /\ v.uid = rs[s].uid /\ v.phase = rs[s].phase /\ v.fins = fins
        /\ ~v.force /\ ~v.disable
    <3>1. ~rs[s].force /\ ~rs[s].disable
      BY DEF SyncInv, WellFormed, Known
    <3>2. /\ v.uid = rs[s].uid /\ v.phase = rs[s].phase /\ v.fins = fins
          /\ v.force = rs[s].force /\ v.disable = rs[s].disable
      BY <1>0 DEF Versions
    <3> QED
      BY <3>1, <3>2
  <2>5. /\ rs'[s] = nv
        /\ \/ feed'[s] = feed[s] /\ nv = rs[s]
           \/ feed'[s] = Append(feed[s], nv)
    BY <1>4 DEF Store, TypeOK
  <2>6. CASE pc[s] = "stopped"
    <3>1. FINALIZER \notin fins
      BY <2>6
    <3> HIDE DEF fins, v
    <3>2. /\ nv.uid = rs[s].uid /\ FINALIZER \notin nv.fins
          /\ nv.phase = "live" => rs[s].phase = "live"
          /\ nv.phase = "absent" => nv.fins = {}
          /\ ~nv.force /\ ~nv.disable
      <4>1. CASE v.phase = "deleting" /\ v.fins = {}
        BY <2>4, <4>1 DEF Settled, Gone
      <4>2. CASE nv = v
        BY <2>1, <2>4, <3>1, <4>2
      <4> QED
        BY <4>1, <4>2 DEF Settled
    <3> HIDE DEF nv
    <3>3. Rank(rs[s]) <= Rank(nv) /\ nv.uid > 0
      BY <1>0, <2>1, <2>3, <3>2 DEF Rank, Versions, SyncInv, WellFormed
    <3>4. /\ snap[s] = Seen(s) /\ snap[s] \in Known(s)
          /\ snap[s].phase = "deleting" /\ FINALIZER \in snap[s].fins
      BY <2>6 DEF Seen, Known, SyncInv, PcJustified, RemovalPcs
    <3>5. \A x \in Known(s) : ~(FINALIZER \in x.fins /\ Rank(Seen(s)) < 2 * x.uid + 1)
      <4> SUFFICES ASSUME NEW x \in Known(s), FINALIZER \in x.fins, Rank(snap[s]) < 2 * x.uid + 1
                   PROVE  FALSE
        BY <3>4
      <4>1. x \in Versions
        BY KnownFacts DEF SyncInv
      <4>2. x.uid > snap[s].uid
        BY <1>0, <3>4, <4>1, RankFacts DEF Versions
      <4> QED
        BY <3>4, <4>2 DEF SyncInv, NoSuccessorHeld
    <3>6. Protected(s)'
      BY <1>1, <2>6 DEF SyncInv, PcJustified, Protected, RemovalPcs
    <3> QED
      BY <1>1, <1>2, <2>3, <2>5, <2>6, <3>2, <3>3, <3>5, <3>6, StoreStep
  <2>7. CASE pc[s] = "addFinalizer"
    <3>1. FINALIZER \in fins
      BY <2>7
    <3> HIDE DEF fins, v
    <3>2. nv = v
      BY <2>4, <3>1 DEF Settled
    <3> HIDE DEF nv
    <3>3. nv.uid = rs[s].uid /\ FINALIZER \in nv.fins /\ nv.phase = rs[s].phase
      BY <2>4, <3>1, <3>2
    <3>4. Rank(rs[s]) <= Rank(nv) /\ nv.uid > 0
      BY <1>0, <2>1, <3>3 DEF Rank, Versions, SyncInv, WellFormed
    <3>5. snap[s] = Seen(s) /\ snap[s].phase = "live"
      BY <2>7 DEF Seen, SyncInv, PcJustified
    <3>6. \A x \in Known(s) : (FINALIZER \in x.fins /\ Rank(Seen(s)) < 2 * x.uid + 1)
                                => nv.uid = x.uid /\ FINALIZER \in nv.fins
      BY <3>3 DEF SyncInv, FinalizerHeld
    <3>7. \A w \in Known(s) : ~(w.phase = "deleting" /\ FINALIZER \in w.fins /\ nv.uid > w.uid)
      <4> SUFFICES ASSUME NEW w \in Known(s), FINALIZER \in w.fins, nv.uid > w.uid
                   PROVE  FALSE
        OBVIOUS
      <4>1. w \in Versions /\ Rank(Seen(s)) <= Rank(w)
        BY KnownFacts DEF SyncInv
      <4>2. Rank(Seen(s)) < 2 * w.uid + 1
        BY <1>0, <3>5, <4>1, RankFacts
      <4>3. nv.uid = w.uid
        BY <3>6, <4>2
      <4> QED
        BY <4>1, <4>3 DEF Versions
    <3>8. Protected(s)'
      BY <1>1, <2>5, <3>3 DEF SyncInv, Protected
    <3> QED
      BY <1>1, <1>2, <2>1, <2>3, <2>4, <2>5, <2>7, <3>2, <3>3, <3>4, <3>6, <3>7, <3>8, StoreStep
  <2> QED
    BY <1>1, <2>6, <2>7
<1> QED
  BY <1>1, <1>3, <1>4 DEF AddFinalizer, RemoveFinalizer, PatchFinalizers, with_push, with_item_removed

LEMMA AttemptStep ==
  ASSUME TypeOK, NEW s \in Syncs, SyncInv(s), Attempt(s) \/ Trouble(s)
  PROVE  SyncInv(s)'
<1>1. ASSUME SkipStatus(s) \/ PatchStatus(s) \/ StatusFails(s) PROVE SyncInv(s)'
  BY <1>1, FinishStep DEF SkipStatus, PatchStatus, StatusFails
<1> QED
  BY <1>1, BeginStep, ReadStep, DeleteTargetStep, ApplyStep, PatchStep DEF Attempt, Trouble

(***************************************************************************)
(* The steps of everything else.                                           *)
(***************************************************************************)

LEMMA OtherSync ==
  ASSUME TypeOK, NEW s \in Syncs, SyncInv(s), NEW x \in Syncs, x # s,
         \/ User(x) \/ Reflect(x) \/ Attempt(x) \/ Trouble(x) \/ InManager(x)
  PROVE  SyncInv(s)'
<1> USE DEF TypeOK, Goto, Inert, Store, managerVars, apiVars, cacheVars, attemptVars, Outside
<1>0. TargetOf[x] \in Objects /\ TargetOf[s] \in Objects
  BY RemoteWatcherAssumption
<1>1. CASE User(x)
  BY <1>1, OtherStep DEF User, CreateSync, DeleteSync, Annotate, ForeignClaims, ForeignReleases,
                         UserChange
<1>2. CASE Reflect(x)
  BY <1>2, OtherStep DEF Reflect
<1>3. CASE InManager(x)
  BY <1>3, OtherStep DEF InManager, TakeMutex, JoinAny, AddIfNotExists, StopAndRemove, Join, watchVars
<1>4. CASE DeleteTarget(x)
  <2>1. obj'[TargetOf[s]].owner = obj[TargetOf[s]].owner
    BY <1>0, <1>4, MarkDeletedOwner DEF DeleteTarget
  <2>2. /\ rs'[s] = rs[s] /\ cache'[s] = cache[s] /\ feed'[s] = feed[s] /\ snap'[s] = snap[s]
        /\ pc'[s] = pc[s]
    BY <1>4 DEF DeleteTarget, Answered, Return
  <2> QED
    BY <2>1, <2>2, OtherStep
<1>5. CASE Apply(x)
  <2>1. \/ obj'[TargetOf[s]] = obj[TargetOf[s]]
        \/ obj'[TargetOf[s]].owner = <<x, snap[x].uid>>
    BY <1>0, <1>5 DEF Apply, Publish, WatchTypeOK
  <2>2. /\ rs'[s] = rs[s] /\ cache'[s] = cache[s] /\ feed'[s] = feed[s] /\ snap'[s] = snap[s]
        /\ pc'[s] = pc[s]
    BY <1>5 DEF Apply, Answered, Return
  <2> QED
    BY <2>1, <2>2, OtherStep
<1>6. CASE AddFinalizer(x) \/ RemoveFinalizer(x)
  BY <1>6, OtherStep DEF AddFinalizer, RemoveFinalizer, PatchFinalizers, Answered, Return
<1>7. CASE \/ Resolve(x) \/ ResolveFails(x) \/ RequestFails(x)
           \/ GetTarget(x) \/ GetSource(x) \/ GetStatus(x)
  BY <1>7, OtherStep DEF Resolve, ResolveFails, RequestFails, GetTarget, GetSource, GetStatus, Return
<1>8. CASE Begin(x)
  BY <1>8, OtherStep DEF Begin
<1>9. CASE SkipStatus(x) \/ PatchStatus(x) \/ StatusFails(x)
  BY <1>9, OtherStep DEF SkipStatus, PatchStatus, StatusFails, Finish
<1> QED
  BY <1>1, <1>2, <1>3, <1>4, <1>5, <1>6, <1>7, <1>8, <1>9 DEF Attempt, Trouble

\* Whoever else writes or deletes objects leaves their owners alone, up to the end
\* of the deletion.
LEMMA EnvironmentOwner ==
  ASSUME TypeOK, Environment
  PROVE  \/ \E o \in Objects : DeletionEnds(o)
         \/ \A t \in Objects : obj'[t].owner = obj[t].owner
<1>0. obj \in [Objects -> ObjectStates]
  BY DEF TypeOK, WatchTypeOK
<1>1. ASSUME NEW o \in Objects, ExternalDelete(o)
      PROVE  \A t \in Objects : obj'[t].owner = obj[t].owner
  BY <1>1, MarkDeletedOwner DEF ExternalDelete
<1>2. ASSUME NEW o \in Objects, NEW d \in Data, ExternalWrite(o, d)
      PROVE  \A t \in Objects : obj'[t].owner = obj[t].owner
  <2> DEFINE new == [obj[o] EXCEPT !.phase = IF @ = "absent" THEN "live" ELSE @,
                                   !.data = d, !.by = "ext"]
  <2>1. new.owner = obj[o].owner
    BY <1>0 DEF ObjectStates, Absent
  <2>2. obj' = [obj EXCEPT ![o] = new]
    BY <1>2 DEF ExternalWrite, Publish
  <2> HIDE DEF new
  <2> QED
    BY <1>0, <2>1, <2>2
<1>3. ASSUME NEW x \in Syncs, AccessChanges(x) PROVE obj' = obj
  BY <1>3 DEF AccessChanges
<1> QED
  BY <1>1, <1>2, <1>3 DEF Environment

\* Users of the objects, the garbage collector, the tasks, the shutdown.
LEMMA AroundStep ==
  ASSUME TypeOK, NEW s \in Syncs, SyncInv(s),
         \/ \E x \in Syncs : CollectGarbage(x)
         \/ \E k \in Keys : InTask(k) \/ TaskInTrouble(k)
         \/ InEnvironment \/ InShutdown \/ Signal
  PROVE  SyncInv(s)'
<1> USE DEF Outside, managerVars, apiVars, cacheVars, attemptVars
<1>0. TargetOf \in [Syncs -> Objects] /\ obj \in [Objects -> ObjectStates]
  BY RemoteWatcherAssumption DEF TypeOK, WatchTypeOK
<1>1. ASSUME NEW x \in Syncs, CollectGarbage(x) PROVE SyncInv(s)'
  <2>1. obj'[TargetOf[s]].owner = obj[TargetOf[s]].owner
    BY <1>0, <1>1, MarkDeletedOwner DEF CollectGarbage
  <2> QED
    BY <1>1, <2>1, OtherStep DEF CollectGarbage
<1>2. ASSUME NEW k \in Keys, InTask(k) \/ TaskInTrouble(k) PROVE SyncInv(s)'
  <2>1. obj' = obj
    BY <1>2 DEF InTask, TaskInTrouble, TaskProgress, TaskTrouble, Start, StartFails, StreamFails,
                Fails, BackoffEnds, Deliver, PauseEnds, Exit, Expire, ErrorEvent, TaskPanics
  <2> QED
    BY <1>2, <2>1, OtherStep DEF InTask, TaskInTrouble
<1>3. CASE InEnvironment
  <2>1. \/ obj'[TargetOf[s]].owner = obj[TargetOf[s]].owner
        \/ obj'[TargetOf[s]] = Absent
    BY <1>0, <1>3, EnvironmentOwner DEF InEnvironment, DeletionEnds, Publish
  <2>2. obj'[TargetOf[s]] = Absent => \A u \in Uids : obj'[TargetOf[s]].owner # <<s, u>>
    BY DEF Absent, NoOwner, Uids
  <2>3. UNCHANGED <<rs, cache, feed, snap, pc>>
    BY <1>3 DEF InEnvironment
  <2> QED
    BY <2>1, <2>2, <2>3, OtherStep
<1>4. CASE InShutdown \/ Signal
  BY <1>4, OtherStep DEF InShutdown, Shutdown, Drained, StopAllNext, StopAllReturns, Signal,
                         ShutdownSignal, watchVars
<1> QED
  BY <1>1, <1>2, <1>3, <1>4

\* A list that is not behind has the stored version.
LEMMA BootFeed ==
  ASSUME Staleness = 0, TypeOK, NEW s \in Syncs, Boot
  PROVE  feed'[s] = <<rs[s]>>
<1>1. PICK behind \in [Syncs -> 0..Staleness] :
        feed' = [x \in Syncs |-> LastOf(Outdated(x), behind[x]) \o <<rs[x]>>]
  BY DEF Boot
<1>2. LastOf(Outdated(s), 0) = <<>>
  BY ShownType DEF LastOf
<1>3. behind[s] = 0
  BY <1>1
<1>4. feed'[s] = <<>> \o <<rs[s]>>
  BY <1>1, <1>2, <1>3
<1>5. <<rs[s]>> \in Seq(Versions)
  BY DEF TypeOK
<1> QED
  BY <1>4, <1>5

\* A new process begins with the stored versions, if its list is not behind.
LEMMA BootStep ==
  ASSUME Staleness = 0, TypeOK, NEW s \in Syncs, SyncInv(s), Boot
  PROVE  SyncInv(s)'
<1>1. feed'[s] = <<rs[s]>>
  BY BootFeed
<1>2. /\ rs' = rs /\ obj' = obj
      /\ cache'[s] = Gone(0) /\ snap'[s] = Gone(0) /\ pc'[s] = "idle"
  BY DEF Boot, apiVars
<1>3. Seen(s)' = Gone(0) /\ Known(s)' = {Gone(0), rs[s]}
  BY <1>1, <1>2 DEF Seen, Known
<1>4. Gone(0).fins = {} /\ Gone(0).uid = 0 /\ ~Gone(0).force /\ ~Gone(0).disable /\ Rank(Gone(0)) = 1
  BY DEF Gone, Rank
<1>5. rs[s] \in Versions /\ 1 <= Rank(rs[s]) /\ Rank(rs[s]) \in Nat
  BY DEF TypeOK, SyncInv, WellFormed, Rank, Versions
<1>6. InOrder(s)'
  <2>1. Rank(rs[s])' = Rank(rs[s]) /\ Rank(Seen(s))' = 1 /\ Rank(cache[s])' = 1
    BY <1>2, <1>3, <1>4 DEF Rank
  <2>2. Len(feed'[s]) = 1 /\ feed'[s][1] = rs[s]
    BY <1>1
  <2>3. \A i \in 1..Len(feed'[s]) : Rank(feed[s][i])' = Rank(rs[s])
    BY <2>2 DEF Rank
  <2> HIDE DEF Rank
  <2> QED
    BY <1>5, <2>1, <2>2, <2>3 DEF InOrder
<1>7. WellFormed(s)'
  BY <1>2, <1>3, <1>4 DEF SyncInv, WellFormed, Known
<1>8. FinalizerHeld(s)'
  BY <1>2, <1>3, <1>4 DEF FinalizerHeld
<1>9. NoSuccessorHeld(s)'
  BY <1>3, <1>4, <1>5 DEF NoSuccessorHeld, Versions
<1>10. PcJustified(s)' /\ Protected(s)'
  BY <1>2 DEF SyncInv, PcJustified, Protected, RemovalPcs, StopPcs
<1> QED
  BY <1>6, <1>7, <1>8, <1>9, <1>10 DEF SyncInv

(***************************************************************************)
(* The theorem.                                                            *)
(***************************************************************************)

ProtectionInv == TypeOK /\ \A s \in Syncs \ Overridable : SyncInv(s)

LEMMA ProtectionInit == Init => ProtectionInv
<1> SUFFICES ASSUME Init, NEW s \in Syncs \ Overridable PROVE SyncInv(s)
  BY TypeInit DEF ProtectionInv
<1>1. /\ rs[s] = Gone(0) /\ cache[s] = Gone(0) /\ snap[s] = Gone(0) /\ feed[s] = <<>>
      /\ pc[s] = "idle"
  BY DEF Init, ManagerInit
<1>2. Seen(s) = Gone(0) /\ Known(s) = {Gone(0)}
  BY <1>1 DEF Seen, Known
<1>3. \A u \in Uids : obj[TargetOf[s]].owner # <<s, u>>
  BY RemoteWatcherAssumption DEF Init, WatchInit, Fresh, Absent, NoOwner, Uids
<1> QED
  BY <1>1, <1>2, <1>3 DEF SyncInv, InOrder, WellFormed, FinalizerHeld, NoSuccessorHeld,
                          PcJustified, Protected, Gone, Rank, RemovalPcs, StopPcs

LEMMA ProtectionNext ==
  ASSUME Staleness = 0
  PROVE  ProtectionInv /\ [Next]_vars => ProtectionInv'
<1> SUFFICES ASSUME ProtectionInv, [Next]_vars PROVE ProtectionInv'
  OBVIOUS
<1>1. TypeOK
  BY DEF ProtectionInv
<1>2. TypeOK'
  BY <1>1, TypeNext
<1>3. ASSUME NEW s \in Syncs \ Overridable PROVE SyncInv(s)'
  <2>0. SyncInv(s) /\ s \in Syncs
    BY DEF ProtectionInv
  <2>1. ASSUME NEW x \in Syncs,
               \/ User(x) \/ Reflect(x) \/ Attempt(x) \/ Trouble(x) \/ InManager(x)
        PROVE  SyncInv(s)'
    <3>1. CASE x = s
      BY <1>1, <2>0, <2>1, <3>1, UserStep, ReflectStep, AttemptStep, ManagerStep
    <3>2. CASE x # s
      BY <1>1, <2>0, <2>1, <3>2, OtherSync
    <3> QED
      BY <3>1, <3>2
  <2>2. CASE \/ \E x \in Syncs : CollectGarbage(x)
             \/ \E k \in Keys : InTask(k) \/ TaskInTrouble(k)
             \/ InEnvironment \/ InShutdown \/ Signal
    BY <1>1, <2>0, <2>2, AroundStep
  <2>3. CASE Crash \/ Restart \/ \E x \in Syncs : AttemptPanics(x)
    BY <1>1, <2>0, <2>3, BootStep DEF Crash, Restart, AttemptPanics
  <2>4. CASE UNCHANGED vars
    BY <2>0, <2>4, OtherStep DEF vars, watchVars, managerVars, apiVars, cacheVars, attemptVars
  <2> QED
    BY <2>1, <2>2, <2>3, <2>4 DEF Next
<1> QED
  BY <1>2, <1>3 DEF ProtectionInv

\* If the list a new process starts from is not behind, then as long as a target
\* that a sync applied exists, the incarnation that applied it exists and holds
\* the finalizer: whatever users, other controllers, lost answers, crashes and
\* other syncs of the same target do, and however far the watch is behind.
THEOREM TargetsProtected ==
  ASSUME Staleness = 0
  PROVE  Spec => []TargetProtected
<1>1. Init => ProtectionInv
  BY ProtectionInit
<1>2. ProtectionInv /\ [Next]_vars => ProtectionInv'
  BY ProtectionNext
<1>3. ProtectionInv => TargetProtected
  BY DEF ProtectionInv, SyncInv, Protected, TargetProtected
<1> QED
  BY <1>1, <1>2, <1>3, PTL DEF Spec

\* The patch that removes our finalizer, which goes by name, never meets a later
\* incarnation that holds it.
LEMMA RemovalMeetsItsIncarnation ==
  ASSUME TypeOK, NEW s \in Syncs, SyncInv(s), RemoveFinalizer(s), FINALIZER \in rs[s].fins
  PROVE  rs[s].uid = snap[s].uid
<1>1. snap[s].phase = "deleting" /\ FINALIZER \in snap[s].fins
  BY DEF SyncInv, PcJustified, RemoveFinalizer, RemovalPcs
<1>2. snap[s] \in Known(s) /\ rs[s] \in Known(s)
  BY DEF Known, Seen, RemoveFinalizer
<1>3. snap[s].uid <= rs[s].uid /\ snap[s].uid \in Nat /\ rs[s].uid \in Nat
  BY <1>2, KnownFacts, RankFacts DEF SyncInv
<1>4. ~(rs[s].uid > snap[s].uid)
  BY <1>1, <1>2 DEF SyncInv, NoSuccessorHeld
<1> QED
  BY <1>3, <1>4

\* If the list of a new process is not behind, removing our finalizer neither drops nor
\* brings back the finalizer of another controller, on the incarnation the patch was
\* computed for and on every one that holds our finalizer, after any number of restarts
\* and although the patch replaces the whole list by one computed from a cached version.
\* A later incarnation without ours is not included: RemovesOnlyOurs.
THEOREM ForeignFinalizersKept ==
  ASSUME Staleness = 0
  PROVE  Spec => ForeignKeptOnDeletion
<1>1. Init => ProtectionInv /\ ForeignInv
  BY ProtectionInit, ForeignInitial
<1>2. ProtectionInv /\ ForeignInv /\ [Next]_vars => (ProtectionInv /\ ForeignInv)'
  BY ProtectionNext, ForeignNext
<1>3. ProtectionInv /\ ForeignInv /\ [Next]_vars =>
        [\A s \in Syncs : RemoveFinalizer(s) /\ MeetsOurs(s) =>
           rs'[s].fins \cap Foreign = rs[s].fins \cap Foreign]_vars
  <2> SUFFICES ASSUME ProtectionInv, ForeignInv, NEW s \in Syncs, RemoveFinalizer(s), MeetsOurs(s)
               PROVE  rs'[s].fins \cap Foreign = rs[s].fins \cap Foreign
    OBVIOUS
  <2>1. rs[s].uid = snap[s].uid
    BY RemovalMeetsItsIncarnation DEF ProtectionInv, MeetsOurs
  <2> QED
    BY <2>1, RemovalKeepsForeign
<1> QED
  BY <1>1, <1>2, <1>3, PTL DEF Spec, ForeignKeptOnDeletion

(***************************************************************************)
(* The controller implements TargetLease.  The initial states are mapped   *)
(* to initial states and, in states that satisfy ProtectionInv, every step *)
(* to a step of the lease or to none.                                      *)
(***************************************************************************)

\* The values of the lease's variables.
StageMap == [s \in Leaseholders |-> StageOf(rs[s])]
IncarnationMap == [s \in Leaseholders |-> rs[s].uid]
OwnerIn(o) == IF obj[o].owner[1] \in Leaseholders THEN obj[o].owner ELSE NoOwner
OwnerMap == [o \in Objects |-> OwnerIn(o)]

LeaseStep == Lease!LeaseNext \/ UNCHANGED Lease!leaseVars

(***************************************************************************)
(* The steps of the lease.                                                 *)
(***************************************************************************)

\* A step that changes no stage, no incarnation and no owner is none of the lease.
LEMMA Stutter ==
  ASSUME \A s \in Leaseholders : StageOf(rs[s])' = StageOf(rs[s]) /\ rs'[s].uid = rs[s].uid,
         \A o \in Objects : OwnerIn(o)' = OwnerIn(o)
  PROVE  LeaseStep
<1>1. StageMap' = StageMap /\ IncarnationMap' = IncarnationMap /\ OwnerMap' = OwnerMap
  BY DEF StageMap, IncarnationMap, OwnerMap
<1> QED
  BY <1>1 DEF LeaseStep, Lease!leaseVars, StageMap, IncarnationMap, OwnerMap, OwnerIn

\* The changes of stage that an incarnation may go through.
Advance(s, next) ==
  LET stage == StageOf(rs[s]) IN
  \/ next = stage
  \/ stage = "open" /\ next \in {"held", "closed", "none"}
  \/ stage = "held" /\ next = "closing"
  \/ /\ stage = "closing" /\ next \in {"closed", "none"}
     /\ OwnerIn(TargetOf[s]) # <<s, rs[s].uid>>
  \/ stage = "closed" /\ next = "none"

LEMMA StageStep ==
  ASSUME TypeOK, NEW s \in Leaseholders, NEW nv,
         rs' = [rs EXCEPT ![s] = nv], obj' = obj, nv.uid = rs[s].uid,
         Advance(s, StageOf(nv))
  PROVE  LeaseStep
<1>1. s \in Syncs /\ TargetOf[s] \in Objects /\ rs \in [Syncs -> Versions] /\ Leaseholders \subseteq Syncs
  BY RemoteWatcherAssumption DEF TypeOK, Leaseholders
<1>2. /\ rs'[s] = nv
      /\ \A x \in Leaseholders : x # s => rs'[x] = rs[x]
  BY <1>1
<1>3. /\ StageMap' = [StageMap EXCEPT ![s] = StageOf(nv)]
      /\ IncarnationMap' = IncarnationMap
  <2>1. StageMap' = [x \in Leaseholders |-> StageOf(rs'[x])]
    BY DEF StageMap, StageOf, has_target_finalizer
  <2>2. StageMap' = [StageMap EXCEPT ![s] = StageOf(nv)]
    <3>1. StageMap = [x \in Leaseholders |-> StageOf(rs[x])]
      BY DEF StageMap
    <3> QED
      BY <1>2, <2>1, <3>1
  <2> QED
    BY <1>2, <2>2 DEF IncarnationMap
<1>4. OwnerMap' = OwnerMap
  BY DEF OwnerMap, OwnerIn
<1>5. /\ StageMap[s] = StageOf(rs[s])
      /\ IncarnationMap[s] = rs[s].uid
      /\ OwnerMap[TargetOf[s]] = OwnerIn(TargetOf[s])
  BY <1>1 DEF StageMap, IncarnationMap, OwnerMap
<1>6. CASE StageOf(nv) = StageOf(rs[s])
  <2>1. StageMap' = StageMap
    BY <1>3, <1>5, <1>6 DEF StageMap
  <2> QED
    BY <1>3, <1>4, <2>1 DEF LeaseStep, Lease!leaseVars, StageMap, IncarnationMap, OwnerMap, OwnerIn
<1>7. CASE StageOf(nv) # StageOf(rs[s])
  <2>1. \/ Lease!Acquire(s) \/ Lease!Close(s) \/ Lease!Release(s) \/ Lease!Remove(s)
    BY <1>3, <1>4, <1>5, <1>7
       DEF Advance, Lease!Acquire, Lease!Close, Lease!Release, Lease!Remove, Lease!Becomes,
           StageMap, IncarnationMap, OwnerMap, OwnerIn
  <2> QED
    BY <2>1 DEF LeaseStep, Lease!LeaseNext
<1> QED
  BY <1>6, <1>7

\* A new incarnation.
LEMMA OpenStep ==
  ASSUME TypeOK, NEW s \in Leaseholders, NEW nv,
         rs' = [rs EXCEPT ![s] = nv], obj' = obj,
         StageOf(rs[s]) = "none", StageOf(nv) = "open",
         rs[s].uid < MaxUid, nv.uid = rs[s].uid + 1
  PROVE  LeaseStep
<1>1. s \in Syncs /\ rs \in [Syncs -> Versions] /\ Leaseholders \subseteq Syncs
  BY DEF TypeOK, Leaseholders
<1>2. /\ rs'[s] = nv
      /\ \A x \in Leaseholders : x # s => rs'[x] = rs[x]
  BY <1>1
<1>3. StageMap' = [StageMap EXCEPT ![s] = "open"]
  <2>1. StageMap' = [x \in Leaseholders |-> StageOf(rs'[x])]
    BY DEF StageMap, StageOf, has_target_finalizer
  <2>2. StageMap = [x \in Leaseholders |-> StageOf(rs[x])]
    BY DEF StageMap
  <2> QED
    BY <1>2, <2>1, <2>2
<1>4. IncarnationMap' = [IncarnationMap EXCEPT ![s] = nv.uid]
  <2>1. IncarnationMap' = [x \in Leaseholders |-> rs'[x].uid]
    BY DEF IncarnationMap
  <2>2. IncarnationMap = [x \in Leaseholders |-> rs[x].uid]
    BY DEF IncarnationMap
  <2> QED
    BY ONLY <1>2, <2>1, <2>2
<1>5. OwnerMap' = OwnerMap
  BY DEF OwnerMap, OwnerIn
<1>6. StageMap[s] = "none" /\ IncarnationMap[s] = rs[s].uid
  BY DEF StageMap, IncarnationMap
<1>7. Lease!Open(s)
  BY <1>3, <1>4, <1>5, <1>6 DEF Lease!Open, Lease!Becomes, StageMap, IncarnationMap, OwnerMap, OwnerIn
<1> QED
  BY <1>7 DEF LeaseStep, Lease!LeaseNext

\* The owner of one object changes: a holder applies it, or there is none any more.
LEMMA OwnerStep ==
  ASSUME TypeOK, NEW o \in Objects, NEW new, rs' = rs,
         \A x \in Objects : x # o => OwnerIn(x)' = OwnerIn(x),
         OwnerIn(o)' = new,
         \/ new = NoOwner
         \/ \E s \in Leaseholders : /\ o = TargetOf[s] /\ new = <<s, rs[s].uid>>
                                    /\ StageOf(rs[s]) \in {"held", "closing"}
  PROVE  LeaseStep
<1>1. StageMap' = StageMap /\ IncarnationMap' = IncarnationMap
  BY DEF StageMap, StageOf, has_target_finalizer, IncarnationMap
<1>2. OwnerMap' = [OwnerMap EXCEPT ![o] = new]
  BY DEF OwnerMap
<1>3. CASE new = NoOwner
  <2>1. Lease!Disown(o)
    BY <1>1, <1>2, <1>3 DEF Lease!Disown, Lease!Nobody, NoOwner, StageMap, IncarnationMap, OwnerMap, OwnerIn
  <2> QED
    BY <2>1 DEF LeaseStep, Lease!LeaseNext
<1>4. ASSUME NEW s \in Leaseholders, o = TargetOf[s], new = <<s, rs[s].uid>>,
             StageOf(rs[s]) \in {"held", "closing"}
      PROVE  LeaseStep
  <2>1. StageMap[s] = StageOf(rs[s]) /\ IncarnationMap[s] = rs[s].uid
    BY DEF StageMap, IncarnationMap
  <2>2. Lease!ApplyLeased(s)
    BY <1>1, <1>2, <1>4, <2>1 DEF Lease!ApplyLeased, StageMap, IncarnationMap, OwnerMap, OwnerIn
  <2> QED
    BY <2>2 DEF LeaseStep, Lease!LeaseNext
<1> QED
  BY <1>3, <1>4

(***************************************************************************)
(* The steps of the controller and its surroundings.                       *)
(***************************************************************************)

\* Nothing that the lease is about changes.
LEMMA Elsewhere ==
  ASSUME TypeOK,
         \A s \in Leaseholders : rs'[s] = rs[s],
         \A o \in Objects : obj'[o].owner = obj[o].owner
  PROVE  LeaseStep
<1>1. \A s \in Leaseholders : StageOf(rs[s])' = StageOf(rs[s]) /\ rs'[s].uid = rs[s].uid
  BY DEF StageOf, has_target_finalizer
<1>2. \A o \in Objects : OwnerIn(o)' = OwnerIn(o)
  BY DEF OwnerIn
<1> QED
  BY <1>1, <1>2, Stutter

\* Where a version is in the life of its incarnation.
LEMMA StageFacts ==
  ASSUME NEW v \in Versions
  PROVE  /\ v.phase = "absent" => StageOf(v) = "none"
         /\ v.phase = "live" => StageOf(v) = IF FINALIZER \in v.fins THEN "held" ELSE "open"
         /\ v.phase = "deleting" => StageOf(v) = IF FINALIZER \in v.fins THEN "closing" ELSE "closed"
BY DEF Versions, StageOf, has_target_finalizer

\* A version that keeps the incarnation is stored.
LEMMA StoredStep ==
  ASSUME TypeOK, NEW s \in Leaseholders, NEW v \in Versions, Store(s, v), obj' = obj,
         v.uid = rs[s].uid, rs[s].phase # "absent",
         \/ /\ v.phase = rs[s].phase
            /\ FINALIZER \in v.fins <=> FINALIZER \in rs[s].fins
         \/ /\ v.phase = "deleting" /\ rs[s].phase = "live"
            /\ FINALIZER \in v.fins <=> FINALIZER \in rs[s].fins
         \/ /\ v.phase = "live" /\ rs[s].phase = "live"
            /\ FINALIZER \in v.fins
         \/ /\ v.phase = "deleting" /\ rs[s].phase = "deleting"
            /\ FINALIZER \notin v.fins /\ OwnerIn(TargetOf[s]) # <<s, rs[s].uid>>
  PROVE  LeaseStep
<1> DEFINE nv == Settled(v)
<1>1. rs' = [rs EXCEPT ![s] = nv] /\ nv \in Versions /\ rs[s] \in Versions
  BY VersionFacts DEF Store, TypeOK, Leaseholders
<1>2. /\ nv.uid = rs[s].uid
      /\ \/ nv = v
         \/ nv.phase = "absent" /\ v.phase = "deleting" /\ FINALIZER \notin v.fins
  BY DEF Settled, Gone
<1> HIDE DEF nv
<1>3. rs[s].phase \in {"live", "deleting"}
  BY <1>1 DEF Versions
<1>4. Advance(s, StageOf(nv))
  BY <1>1, <1>2, <1>3, StageFacts DEF Advance
<1> QED
  BY <1>1, <1>2, <1>4, StageStep

\* The users of a sync: it is opened and closed, and others let go of it.
LEMMA UserLease ==
  ASSUME TypeOK, NEW s \in Leaseholders, SyncInv(s), User(s)
  PROVE  LeaseStep
<1>0. /\ s \in Syncs /\ s \notin Overridable /\ rs[s] \in Versions
      /\ ~rs[s].force /\ ~rs[s].disable /\ obj' = obj
  BY UserFacts DEF Leaseholders, TypeOK, SyncInv, WellFormed, Known
<1>1. ASSUME NEW force \in BOOLEAN, NEW disable \in BOOLEAN, CreateSync(s, force, disable)
      PROVE  LeaseStep
  <2> DEFINE nv == [phase |-> "live", uid |-> rs[s].uid + 1, fins |-> {},
                    force |-> force, disable |-> disable]
  <2>1. /\ rs' = [rs EXCEPT ![s] = nv] /\ rs[s].phase = "absent" /\ rs[s].uid < MaxUid
    BY <1>1 DEF CreateSync, Store, Settled
  <2>2. nv \in Versions
    BY <1>0, <2>1, RemoteWatcherAssumption DEF Versions
  <2>3. nv.uid = rs[s].uid + 1 /\ nv.phase = "live" /\ FINALIZER \notin nv.fins
    OBVIOUS
  <2> HIDE DEF nv
  <2>4. StageOf(rs[s]) = "none" /\ StageOf(nv) = "open"
    BY <1>0, <2>1, <2>2, <2>3, StageFacts
  <2> QED
    BY <1>0, <2>1, <2>3, <2>4, OpenStep
<1>2. CASE DeleteSync(s)
  <2> DEFINE v == [rs[s] EXCEPT !.phase = "deleting"]
  <2>1. /\ v \in Versions /\ v.uid = rs[s].uid /\ v.phase = "deleting" /\ v.fins = rs[s].fins
    BY <1>0 DEF Versions
  <2>2. Store(s, v) /\ rs[s].phase = "live"
    BY <1>2 DEF DeleteSync, UserChange
  <2> HIDE DEF v
  <2> QED
    BY <1>0, <2>1, <2>2, StoredStep
<1>3. ASSUME NEW force \in BOOLEAN, NEW disable \in BOOLEAN, Annotate(s, force, disable)
      PROVE  FALSE
  <2>1. ~force /\ ~disable
    BY <1>0, <1>3 DEF Annotate, Annotations
  <2>2. force = rs[s].force /\ disable = rs[s].disable
    BY <1>0, <2>1 DEF Versions
  <2> QED
    BY <1>3, <2>2 DEF Annotate
<1>4. ASSUME NEW f \in Foreign, ForeignClaims(s, f) \/ ForeignReleases(s, f) PROVE LeaseStep
  <2>1. f # FINALIZER
    BY ControllerAssumption DEF FINALIZER
  <2>2. PICK F \in {rs[s].fins \cup {f}, rs[s].fins \ {f}} :
          rs[s].phase # "absent" /\ UserChange(s, [rs[s] EXCEPT !.fins = F])
    BY <1>4 DEF ForeignClaims, ForeignReleases, SyncInv, WellFormed
  <2>3. F \in SUBSET ({FINALIZER} \cup Foreign) /\ (FINALIZER \in F <=> FINALIZER \in rs[s].fins)
    BY <1>0, <2>1, <2>2 DEF Versions
  <2> DEFINE v == [rs[s] EXCEPT !.fins = F]
  <2>4. v \in Versions /\ v.uid = rs[s].uid /\ v.phase = rs[s].phase /\ v.fins = F
    BY <1>0, <2>3 DEF Versions
  <2>5. Store(s, v)
    BY <2>2 DEF UserChange
  <2> HIDE DEF v
  <2> QED
    BY <1>0, <2>2, <2>3, <2>4, <2>5, StoredStep
<1> QED
  BY <1>1, <1>2, <1>3, <1>4 DEF User

\* The patches of the finalizers: the lease is acquired by a live incarnation, and
\* released by a deleted one that owns nothing; the patch that removes it, if it hits
\* another incarnation, finds it without.
LEMMA PatchLease ==
  ASSUME TypeOK, NEW s \in Leaseholders, SyncInv(s), AddFinalizer(s) \/ RemoveFinalizer(s)
  PROVE  LeaseStep
<1>0. s \in Syncs /\ rs[s] \in Versions /\ snap[s] \in Versions /\ obj' = obj
  BY DEF Leaseholders, TypeOK, AddFinalizer, RemoveFinalizer, PatchFinalizers
<1>1. CASE rs' = rs
  BY <1>0, <1>1, Elsewhere
<1>2. ASSUME NEW F, Patchable(s, F), Store(s, [rs[s] EXCEPT !.fins = F]),
             \/ F = snap[s].fins \cup {FINALIZER}
             \/ F = snap[s].fins \ {FINALIZER} /\ pc[s] = "stopped"
      PROVE  LeaseStep
  <2> DEFINE v == [rs[s] EXCEPT !.fins = F]
  <2>1. F \in SUBSET ({FINALIZER} \cup Foreign)
    BY <1>0, <1>2 DEF Versions
  <2>2. v \in Versions /\ v.uid = rs[s].uid /\ v.phase = rs[s].phase /\ v.fins = F
    BY <1>0, <2>1 DEF Versions
  <2>3. Store(s, v)
    BY <1>2
  <2>4. rs[s].phase \in {"live", "deleting"} /\ (rs[s].phase = "deleting" => F \subseteq rs[s].fins)
    BY <1>0, <1>2 DEF Patchable, Versions
  <2> HIDE DEF v
  <2>5. CASE F = snap[s].fins \cup {FINALIZER}
    BY <1>0, <2>2, <2>3, <2>4, <2>5, StoredStep
  <2>6. CASE F = snap[s].fins \ {FINALIZER} /\ pc[s] = "stopped"
    <3>1. /\ snap[s] \in Known(s) /\ rs[s] \in Known(s) /\ snap[s] = Seen(s)
          /\ snap[s].phase = "deleting" /\ FINALIZER \in snap[s].fins
          /\ \A u \in Uids : obj[TargetOf[s]].owner # <<s, u>>
      BY <2>6 DEF Known, Seen, SyncInv, PcJustified, RemovalPcs
    <3>2. CASE rs[s].phase = "live"
      <4>1. Rank(snap[s]) <= Rank(rs[s])
        BY <1>0, <3>1, KnownFacts DEF SyncInv
      <4>2. rs[s].uid > snap[s].uid
        BY <1>0, <3>1, <3>2, <4>1 DEF Rank, Versions
      <4>3. FINALIZER \notin rs[s].fins
        BY <3>1, <4>2 DEF SyncInv, NoSuccessorHeld
      <4> QED
        BY <1>0, <2>2, <2>3, <2>6, <3>2, <4>3, StoredStep
    <3>3. CASE rs[s].phase = "deleting"
      <4>1. rs[s].uid \in Uids
        BY <1>0, <3>3, RemoteWatcherAssumption DEF SyncInv, WellFormed, Versions, Uids
      <4>2. OwnerIn(TargetOf[s]) # <<s, rs[s].uid>>
        BY <3>1, <4>1 DEF OwnerIn, NoOwner, Uids
      <4> QED
        BY <1>0, <2>2, <2>3, <2>6, <3>3, <4>2, StoredStep
    <3> QED
      BY <2>4, <3>2, <3>3
  <2> QED
    BY <1>2, <2>5, <2>6
<1> QED
  BY <1>1, <1>2 DEF AddFinalizer, RemoveFinalizer, PatchFinalizers, with_push, with_item_removed

\* An apply of a holder is made under its lease; one of another sync takes the
\* object over.
LEMMA ApplyLease ==
  ASSUME TypeOK, NEW s \in Syncs, s \in Leaseholders => SyncInv(s), Apply(s)
  PROVE  LeaseStep
<1> DEFINE t == TargetOf[s]
<1>1. /\ t \in Objects /\ rs' = rs /\ obj'[t].owner = <<s, snap[s].uid>>
      /\ \A x \in Objects : x # t => obj'[x] = obj[x]
  BY ApplyOwner, RemoteWatcherAssumption
<1>2. \A x \in Objects : x # t => OwnerIn(x)' = OwnerIn(x)
  BY <1>1 DEF OwnerIn
<1>3. CASE s \in Leaseholders
  <2>1. rs[s].uid = snap[s].uid /\ rs[s].phase # "absent" /\ FINALIZER \in rs[s].fins
    BY <1>3, AppliedUnderFinalizer DEF Apply
  <2>2. StageOf(rs[s]) \in {"held", "closing"}
    <3>1. rs[s] \in Versions /\ rs[s].phase \in {"live", "deleting"}
      BY <2>1 DEF TypeOK, Versions
    <3> QED
      BY <2>1, <3>1, StageFacts
  <2>3. OwnerIn(t)' = <<s, rs[s].uid>>
    BY <1>1, <1>3, <2>1 DEF OwnerIn
  <2> QED
    BY <1>1, <1>2, <1>3, <2>2, <2>3, OwnerStep
<1>4. CASE s \notin Leaseholders
  <2>1. OwnerIn(t)' = NoOwner
    BY <1>1, <1>4 DEF OwnerIn
  <2> QED
    BY <1>1, <1>2, <2>1, OwnerStep
<1> QED
  BY <1>3, <1>4

LEMMA EnvironmentLease ==
  ASSUME TypeOK, Environment, rs' = rs
  PROVE  LeaseStep
<1>1. CASE \A o \in Objects : obj'[o].owner = obj[o].owner
  BY <1>1, Elsewhere
<1>2. ASSUME NEW o \in Objects, DeletionEnds(o) PROVE LeaseStep
  <2>1. obj' = [obj EXCEPT ![o] = Absent] /\ obj \in [Objects -> ObjectStates]
    BY <1>2 DEF DeletionEnds, Publish, TypeOK, WatchTypeOK
  <2>2. /\ obj'[o].owner = NoOwner
        /\ \A x \in Objects : x # o => obj'[x] = obj[x]
    BY <2>1 DEF Absent
  <2>3. OwnerIn(o)' = NoOwner /\ \A x \in Objects : x # o => OwnerIn(x)' = OwnerIn(x)
    BY <2>2 DEF OwnerIn
  <2> QED
    BY <2>3, OwnerStep
<1> QED
  BY <1>1, <1>2, EnvironmentOwner

\* The steps of a sync whose users may waive the protection do not concern the lease,
\* unless they apply a target.
LEMMA WaivedLease ==
  ASSUME TypeOK, NEW s \in Syncs \ Leaseholders, User(s) \/ AddFinalizer(s) \/ RemoveFinalizer(s)
  PROVE  LeaseStep
<1>1. obj' = obj
  BY UserFacts DEF AddFinalizer, RemoveFinalizer, PatchFinalizers
<1>2. rs' = rs \/ \E v : Store(s, v)
  BY UserFacts DEF AddFinalizer, RemoveFinalizer, PatchFinalizers
<1>3. \A x \in Leaseholders : rs'[x] = rs[x]
  BY <1>2 DEF Store, TypeOK, Leaseholders
<1> QED
  BY <1>1, <1>3, Elsewhere

LEMMA LeaseNextStep ==
  ASSUME ProtectionInv, [Next]_vars
  PROVE  LeaseStep
<1>0. TypeOK /\ \A s \in Leaseholders : SyncInv(s)
  BY DEF ProtectionInv, Leaseholders
<1> USE DEF managerVars, apiVars, attemptVars, cacheVars, Outside
<1>1. ASSUME UNCHANGED <<rs, obj>> PROVE LeaseStep
  BY <1>0, <1>1, Elsewhere
<1>2. ASSUME NEW s \in Syncs, User(s) \/ AddFinalizer(s) \/ RemoveFinalizer(s) PROVE LeaseStep
  BY <1>0, <1>2, UserLease, PatchLease, WaivedLease
<1>3. ASSUME NEW s \in Syncs, DeleteTarget(s) \/ CollectGarbage(s) PROVE LeaseStep
  <2>1. rs' = rs /\ (obj' = obj \/ MarkDeleted(TargetOf[s])) /\ TargetOf[s] \in Objects
    BY <1>3, RemoteWatcherAssumption DEF DeleteTarget, CollectGarbage
  <2>2. \A o \in Objects : obj'[o].owner = obj[o].owner
    BY <1>0, <2>1, MarkDeletedOwner
  <2> QED
    BY <1>0, <2>1, <2>2, Elsewhere
<1>4. ASSUME NEW s \in Syncs,
             \/ Begin(s) \/ Resolve(s) \/ ResolveFails(s) \/ RequestFails(s) \/ GetTarget(s)
             \/ GetSource(s) \/ GetStatus(s) \/ SkipStatus(s) \/ PatchStatus(s) \/ StatusFails(s)
      PROVE  LeaseStep
  <2>1. UNCHANGED <<rs, obj>>
    BY <1>4 DEF Begin, Resolve, ResolveFails, RequestFails, GetTarget, GetSource, GetStatus, SkipStatus,
                PatchStatus, StatusFails, Finish
  <2> QED
    BY <1>1, <2>1
<1>5. ASSUME NEW s \in Syncs, Reflect(s) \/ InManager(s) PROVE LeaseStep
  <2>1. UNCHANGED <<rs, obj>>
    BY <1>5 DEF Reflect, InManager, TakeMutex, JoinAny, AddIfNotExists, StopAndRemove, Join, watchVars
  <2> QED
    BY <1>1, <2>1
<1>6. ASSUME NEW s \in Syncs, Apply(s) PROVE LeaseStep
  BY <1>0, <1>6, ApplyLease
<1>7. ASSUME NEW k \in Keys, InTask(k) \/ TaskInTrouble(k) PROVE LeaseStep
  <2>1. UNCHANGED <<rs, obj>>
    BY <1>7 DEF InTask, TaskInTrouble, TaskProgress, TaskTrouble, Start, StartFails, StreamFails,
                Fails, BackoffEnds, Deliver, PauseEnds, Exit, Expire, ErrorEvent, TaskPanics
  <2> QED
    BY <1>1, <2>1
<1>8. CASE InEnvironment
  BY <1>0, <1>8, EnvironmentLease DEF InEnvironment
<1>9. CASE InShutdown \/ Signal \/ UNCHANGED vars
  <2>1. UNCHANGED <<rs, obj>>
    BY <1>9 DEF InShutdown, Shutdown, Drained, StopAllNext, StopAllReturns, Signal, ShutdownSignal,
                watchVars, vars
  <2> QED
    BY <1>1, <2>1
<1>10. CASE Crash \/ Restart \/ \E s \in Syncs : AttemptPanics(s)
  <2>1. UNCHANGED <<rs, obj>>
    BY <1>10 DEF Crash, Restart, AttemptPanics, Boot
  <2> QED
    BY <1>1, <2>1
<1>11. ASSUME NEW s \in Syncs, Attempt(s) \/ Trouble(s) PROVE LeaseStep
  BY <1>2, <1>3, <1>4, <1>6, <1>11 DEF Attempt, Trouble
<1> QED
  BY <1>2, <1>3, <1>5, <1>7, <1>8, <1>9, <1>10, <1>11 DEF Next

LEMMA LeaseInitial == Init => Lease!LeaseInit
<1> SUFFICES ASSUME Init PROVE Lease!LeaseInit
  OBVIOUS
<1>1. StageMap = [s \in Leaseholders |-> "none"]
  BY DEF StageMap, StageOf, Init, Gone, Leaseholders
<1>2. IncarnationMap = [s \in Leaseholders |-> 0]
  BY DEF IncarnationMap, Init, Gone, Leaseholders
<1>3. OwnerMap = [o \in Objects |-> NoOwner]
  BY DEF OwnerMap, OwnerIn, Init, WatchInit, Fresh, Absent
<1> QED
  BY <1>1, <1>2, <1>3 DEF Lease!LeaseInit, Lease!Nobody, NoOwner, StageMap, IncarnationMap, OwnerMap, OwnerIn

\* If the list a new process starts from is not behind, the controller implements the
\* lease: a target is applied only under the finalizer of the incarnation that is
\* stored, the finalizer stays until the deletion, and it is given up only when that
\* incarnation owns nothing; whatever is cached, in flight, lost or restarted.
THEOREM LeaseImplemented ==
  ASSUME Staleness = 0
  PROVE  Spec => LeaseKept
<1>1. ProtectionInv /\ [Next]_vars => [Lease!LeaseNext]_(Lease!leaseVars)
  BY LeaseNextStep DEF LeaseStep
<1> QED
  BY <1>1, LeaseInitial, ProtectionInit, ProtectionNext, PTL DEF Spec, LeaseKept, Lease!LeaseSpec

(***************************************************************************)
(* NothingForgotten: what the runs check as convergence under fairness has *)
(* a safety half, that a sync at rest is where it should be.  An attempt   *)
(* works on what it read; the invariant says that nothing it relied on has *)
(* changed since without there being news of it: an event that is still to *)
(* be delivered, a task that is about to start, or a request.              *)
(***************************************************************************)

\* A task of s is not there yet, is about to start, or has an event to tell.
Untold(k) ==
  \/ k \notin watching
  \/ watcher[k] \in {"starting", "backoff"}
  \/ \E i \in 1..Len(backlog[k]) : backlog[k][i] # "us"

NewsFor(s) == \E role \in Roles : Untold(<<s, role>>)

Leaving(s) == obj[TargetOf[s]].phase = "deleting"

UpToDate(s) ==
  /\ Desired(s) # NoData
  /\ obj[TargetOf[s]].phase = "live"
  /\ obj[TargetOf[s]].data = Desired(s)

\* The tasks in the map are running and nobody has told them to stop.
TasksThere == mode = "up" => \A k \in watching : watcher[k] # "none" /\ k \notin cancelled

\* What a step of others may do to s: it takes no news away, and spoils nothing
\* without there being news of it.
Kept(s) ==
  /\ NewsFor(s) => NewsFor(s)'
  /\ Desired(s)' = Desired(s) \/ NewsFor(s)'
  /\ UpToDate(s) => UpToDate(s)' \/ Leaving(s)' \/ NewsFor(s)'
  /\ Leaving(s) => Leaving(s)' \/ NewsFor(s)'
  /\ \A role \in Roles : <<s, role>> \in watching => <<s, role>> \in watching'

LEMMA RoleObjects ==
  ASSUME NEW s \in Syncs
  PROVE  /\ ObjectOf(<<s, "source">>) = SourceOf[s] /\ ObjectOf(<<s, "target">>) = TargetOf[s]
         /\ SourceOf[s] \in Objects /\ TargetOf[s] \in Objects /\ SourceOf[s] # TargetOf[s]
         /\ \A role \in Roles : <<s, role>> \in Keys
         /\ \A role \in Roles : ObjectOf(<<s, role>>) \in {SourceOf[s], TargetOf[s]}
BY RemoteWatcherAssumption, KeyParts DEF ObjectOf, Roles

\* Nothing that s depends on changes.
LEMMA NothingKept ==
  ASSUME NEW s \in Syncs, UNCHANGED <<obj, backlog, watcher, watching>>
  PROVE  Kept(s)
BY DEF Kept, NewsFor, Untold, Desired, UpToDate, Leaving

\* The objects of s are the same, and so is the news.
LEMMA ObjectsKept ==
  ASSUME NEW s \in Syncs, obj'[SourceOf[s]] = obj[SourceOf[s]], obj'[TargetOf[s]] = obj[TargetOf[s]],
         \A role \in Roles : Untold(<<s, role>>) => Untold(<<s, role>>)',
         \A role \in Roles : <<s, role>> \in watching => <<s, role>> \in watching'
  PROVE  Kept(s)
BY DEF Kept, NewsFor, Desired, UpToDate, Leaving

\* An event is news for those who watch the object, unless it is our own.
LEMMA PublishNews ==
  ASSUME TypeOK, TasksThere, mode = "up", NEW s \in Syncs, NEW o \in Objects, NEW new,
         NEW event \in Events, Publish(o, new, event), UNCHANGED <<watcher, watching>>,
         NEW role \in Roles
  PROVE  /\ Untold(<<s, role>>) => Untold(<<s, role>>)'
         /\ ObjectOf(<<s, role>>) = o /\ event # "us" => Untold(<<s, role>>)'
<1>0. backlog \in [Keys -> Seq(Events)] /\ watcher \in [Keys -> TaskStates]
  BY DEF TypeOK, WatchTypeOK
<1> DEFINE k == <<s, role>>
<1>1. k \in Keys
  BY RoleObjects
<1> HIDE DEF k
<1>2. /\ backlog[k] \in Seq(Events)
      /\ watcher[k] \in TaskStates
      /\ backlog'[k] = IF ObjectOf(k) = o /\ watcher[k] \in {"watching", "paused"}
                       THEN Append(backlog[k], event) ELSE backlog[k]
  BY <1>0, <1>1 DEF Publish
<1>3. Untold(k) => Untold(k)'
  BY <1>2 DEF Untold
<1>4. ASSUME ObjectOf(k) = o, event # "us", k \in watching, watcher[k] \notin {"starting", "backoff"}
      PROVE  \E i \in 1..Len(backlog'[k]) : backlog'[k][i] # "us"
  <2>1. watcher[k] \in {"watching", "paused"}
    BY <1>2, <1>4 DEF TasksThere, TaskStates
  <2>2. backlog'[k] = Append(backlog[k], event)
    BY <1>2, <1>4, <2>1
  <2> QED
    BY <1>2, <1>4, <2>2
<1>5. ObjectOf(k) = o /\ event # "us" => Untold(k)'
  BY <1>4 DEF Untold
<1> QED
  BY <1>3, <1>5 DEF k

\* Others write to an object.
LEMMA PublishKept ==
  ASSUME TypeOK, TasksThere, mode = "up", NEW s \in Syncs, NEW o \in Objects, NEW new,
         NEW event \in Events, Publish(o, new, event), UNCHANGED <<watcher, watching>>,
         \/ event # "us"
         \/ o \notin {SourceOf[s], TargetOf[s]}
         \/ new.phase = "deleting" /\ obj[o].phase # "absent" /\ new.data = obj[o].data
  PROVE  Kept(s)
<1>0. obj \in [Objects -> ObjectStates] /\ obj' = [obj EXCEPT ![o] = new]
  BY DEF TypeOK, WatchTypeOK, Publish
<1>1. \A role \in Roles : /\ Untold(<<s, role>>) => Untold(<<s, role>>)'
                          /\ ObjectOf(<<s, role>>) = o /\ event # "us" => Untold(<<s, role>>)'
  BY PublishNews
<1>2. NewsFor(s) => NewsFor(s)'
  BY <1>1 DEF NewsFor
<1>3. CASE o \notin {SourceOf[s], TargetOf[s]}
  BY <1>0, <1>1, <1>3, ObjectsKept, RoleObjects
<1>4. CASE o \in {SourceOf[s], TargetOf[s]} /\ event # "us"
  <2>1. \E role \in Roles : ObjectOf(<<s, role>>) = o
    BY <1>4, RoleObjects DEF Roles
  <2>2. NewsFor(s)'
    BY <1>1, <1>4, <2>1 DEF NewsFor
  <2> QED
    BY <2>2 DEF Kept
<1>5. CASE /\ o \in {SourceOf[s], TargetOf[s]}
           /\ new.phase = "deleting" /\ obj[o].phase # "absent" /\ new.data = obj[o].data
  <2>1. Desired(s)' = Desired(s)
    BY <1>0, <1>5, RoleObjects DEF Desired
  <2>2. obj'[TargetOf[s]] = obj[TargetOf[s]] \/ Leaving(s)'
    BY <1>0, <1>5, RoleObjects DEF Leaving
  <2>3. obj'[TargetOf[s]] = obj[TargetOf[s]] => (UpToDate(s) => UpToDate(s)') /\ (Leaving(s) => Leaving(s)')
    BY <2>1 DEF UpToDate, Leaving
  <2> QED
    BY <1>2, <2>1, <2>2, <2>3 DEF Kept
<1> QED
  BY <1>3, <1>4, <1>5

\* The steps of the tasks.
LEMMA TaskKept ==
  ASSUME ~WatchExpiry, ~Panics, TypeOK, TaskInv, TasksThere, mode = "up",
         NEW s \in Syncs, NEW k \in Keys, TaskProgress(k) \/ TaskTrouble(k),
         UNCHANGED watching, s \notin pending'
  PROVE  Kept(s)
<1>0. /\ backlog \in [Keys -> Seq(Events)] /\ watcher \in [Keys -> TaskStates]
  BY DEF TypeOK, WatchTypeOK
<1>1. obj' = obj
  BY DEF TaskProgress, TaskTrouble, Start, StartFails, StreamFails, Fails, BackoffEnds, Deliver,
         PauseEnds, Exit, Expire, ErrorEvent, TaskPanics
<1>2. ASSUME NEW j \in Keys, j # k PROVE Untold(j) => Untold(j)'
  <2>1. watcher'[j] = watcher[j] /\ backlog'[j] = backlog[j]
    BY <1>0, <1>2 DEF TaskProgress, TaskTrouble, Start, StartFails, StreamFails, Fails, BackoffEnds,
            Deliver, PauseEnds, Exit, Expire, ErrorEvent, TaskPanics
  <2> QED
    BY <2>1 DEF Untold
<1>3. ASSUME k[1] = s PROVE Untold(k) => Untold(k)'
  <2>0. backlog[k] \in Seq(Events)
    BY <1>0
  <2>1. CASE Start(k) \/ StartFails(k) \/ StreamFails(k) \/ ErrorEvent(k)
    BY <1>3, <2>1 DEF Start, StartFails, StreamFails, Fails, ErrorEvent, SendReconcile
  <2>2. CASE BackoffEnds(k)
    BY <1>0, <2>2 DEF BackoffEnds, Untold
  <2>3. CASE PauseEnds(k)
    BY <1>0, <2>3 DEF PauseEnds, Untold
  <2>4. CASE Exit(k)
    BY <2>4 DEF Exit, TasksThere, Untold
  <2>5. CASE Deliver(k)
    <3>1. Head(backlog[k]) = "us"
      BY <1>3, <2>5 DEF Deliver, SendReconcile, was_last_modified_by_us
    <3>2. /\ backlog[k] # <<>> /\ backlog'[k] = Tail(backlog[k])
          /\ watcher' = watcher
      BY <1>0, <2>5 DEF Deliver
    <3>3. ASSUME NEW i \in 1..Len(backlog[k]), backlog[k][i] # "us"
          PROVE  \E j \in 1..Len(backlog'[k]) : backlog'[k][j] # "us"
      <4>1. i # 1 /\ i - 1 \in 1..Len(Tail(backlog[k])) /\ Tail(backlog[k])[i - 1] = backlog[k][i]
        BY <2>0, <3>1, <3>2, <3>3
      <4> QED
        BY <3>2, <3>3, <4>1
    <3> QED
      BY <3>2, <3>3 DEF Untold
  <2>6. CASE Expire(k) \/ TaskPanics(k)
    BY <2>6 DEF Expire, TaskPanics
  <2> QED
    BY <2>1, <2>2, <2>3, <2>4, <2>5, <2>6 DEF TaskProgress, TaskTrouble
<1>4. ASSUME NEW role \in Roles PROVE Untold(<<s, role>>) => Untold(<<s, role>>)'
  <2> DEFINE j == <<s, role>>
  <2>1. j \in Keys /\ j[1] = s
    BY RoleObjects
  <2> HIDE DEF j
  <2>2. ASSUME j = k PROVE Untold(j) => Untold(j)'
    <3>1. Untold(k) => Untold(k)'
      BY <1>3, <2>1, <2>2
    <3> QED
      BY <2>2, <3>1 DEF Untold
  <2>3. ASSUME j # k PROVE Untold(j) => Untold(j)'
    BY <1>2, <2>1, <2>3
  <2>4. Untold(j) => Untold(j)'
    BY <2>2, <2>3
  <2> QED
    BY <2>4 DEF j
<1>5. \A role \in Roles : <<s, role>> \in watching => <<s, role>> \in watching'
  OBVIOUS
<1> QED
  BY <1>1, <1>4, <1>5, ObjectsKept

\* A delete request is no news, but the object is on its way out.
LEMMA DeleteKept ==
  ASSUME TypeOK, TasksThere, mode = "up", NEW s \in Syncs, NEW o \in Objects,
         obj[o].phase = "live", MarkDeleted(o), UNCHANGED <<watcher, watching>>
  PROVE  Kept(s)
<1> DEFINE new == [obj[o] EXCEPT !.phase = "deleting"]
<1>1. obj[o] \in ObjectStates /\ obj[o].by \in Events
  BY ObjectFacts DEF TypeOK, WatchTypeOK
<1>2. new.phase = "deleting" /\ new.data = obj[o].data
  BY <1>1 DEF ObjectStates, Absent
<1>3. Publish(o, new, obj[o].by)
  BY DEF MarkDeleted
<1> HIDE DEF new
<1> QED
  BY <1>1, <1>2, <1>3, PublishKept

LEMMA EnvironmentKept ==
  ASSUME TypeOK, TasksThere, mode = "up", NEW s \in Syncs, Environment, UNCHANGED watching
  PROVE  Kept(s)
<1>1. ASSUME NEW o \in Objects, ExternalDelete(o) PROVE Kept(s)
  BY <1>1, DeleteKept DEF ExternalDelete
<1>2. ASSUME NEW o \in Objects, DeletionEnds(o) PROVE Kept(s)
  <2>1. "del" \in Events /\ "del" # "us"
    BY DEF Events
  <2> QED
    BY <1>2, <2>1, PublishKept DEF DeletionEnds
<1>3. ASSUME NEW o \in Objects, NEW d \in Data, ExternalWrite(o, d) PROVE Kept(s)
  <2> DEFINE new == [obj[o] EXCEPT !.phase = IF @ = "absent" THEN "live" ELSE @,
                                   !.data = d, !.by = "ext"]
  <2>1. "ext" \in Events /\ "ext" # "us"
    BY DEF Events, Writers
  <2>2. Publish(o, new, "ext") /\ UNCHANGED watcher
    BY <1>3 DEF ExternalWrite
  <2> HIDE DEF new
  <2> QED
    BY <2>1, <2>2, PublishKept
<1>4. ASSUME NEW x \in Syncs, AccessChanges(x) PROVE Kept(s)
  BY <1>4, NothingKept DEF AccessChanges
<1> QED
  BY <1>1, <1>2, <1>3, <1>4 DEF Environment

\* The steps of another sync: it has its own tasks and its own target.
LEMMA OtherSyncKept ==
  ASSUME TypeOK, TasksThere, mode = "up", NEW s \in Syncs, Undisputed(s), NEW x \in Syncs \ {s},
         \/ User(x) \/ Reflect(x) \/ Attempt(x) \/ Trouble(x) \/ InManager(x)
  PROVE  Kept(s) /\ (s \in pending => s \in pending')
<1> USE DEF Outside, managerVars, apiVars, cacheVars, attemptVars
<1>0. TargetOf[x] \in Objects /\ TargetOf[x] \notin {SourceOf[s], TargetOf[s]} /\ x # s
  BY RoleObjects DEF Undisputed
<1>1. CASE User(x) \/ Reflect(x) \/ Begin(x)
  <2>1. UNCHANGED <<obj, backlog, watcher, watching>> /\ (s \in pending => s \in pending')
    BY <1>0, <1>1 DEF User, CreateSync, DeleteSync, Annotate, ForeignClaims, ForeignReleases,
                      UserChange, Reflect, Begin
  <2> QED
    BY <2>1, NothingKept
<1>2. CASE \/ Resolve(x) \/ ResolveFails(x) \/ RequestFails(x) \/ GetTarget(x) \/ GetSource(x)
           \/ GetStatus(x) \/ AddFinalizer(x) \/ RemoveFinalizer(x)
           \/ SkipStatus(x) \/ PatchStatus(x) \/ StatusFails(x)
  <2>1. UNCHANGED <<obj, backlog, watcher, watching>> /\ (s \in pending => s \in pending')
    BY <1>2 DEF Resolve, ResolveFails, RequestFails, GetTarget, GetSource, GetStatus,
                AddFinalizer, RemoveFinalizer, PatchFinalizers, SkipStatus, PatchStatus, StatusFails,
                Finish, Inert, NoTask
  <2> QED
    BY <2>1, NothingKept
<1>3. CASE DeleteTarget(x)
  <2>1. UNCHANGED <<watcher, watching, pending>>
    BY <1>3 DEF DeleteTarget, NoTask, Inert
  <2>2. \/ UNCHANGED <<obj, backlog>>
        \/ obj[TargetOf[x]].phase = "live" /\ MarkDeleted(TargetOf[x])
    BY <1>3 DEF DeleteTarget
  <2> QED
    BY <1>0, <2>1, <2>2, NothingKept, DeleteKept
<1>4. CASE Apply(x)
  <2>1. UNCHANGED <<watcher, watching, pending>>
    BY <1>4 DEF Apply, NoTask, Inert
  <2>2. UNCHANGED <<obj, backlog>> \/ \E new : Publish(TargetOf[x], new, "us")
    BY <1>4 DEF Apply
  <2>3. "us" \in Events
    BY DEF Events, Writers
  <2> QED
    BY <1>0, <2>1, <2>2, <2>3, NothingKept, PublishKept
<1>5. CASE InManager(x)
  <2>1. UNCHANGED <<obj, backlog, pending>>
    BY <1>5 DEF InManager, TakeMutex, JoinAny, AddIfNotExists, StopAndRemove, Join, watchVars
  <2>2. ASSUME NEW role \in Roles
        PROVE  /\ <<s, role>> \in watching' <=> <<s, role>> \in watching
               /\ watcher'[<<s, role>>] = watcher[<<s, role>>]
    <3> DEFINE k == <<s, role>>
    <3>1. \A other \in {"source", "target"} : <<x, other>> # k
      BY <1>0
    <3>2. k \in Keys /\ watcher \in [Keys -> TaskStates]
      BY RoleObjects DEF TypeOK, WatchTypeOK
    <3> HIDE DEF k
    <3>3. (k \in watching' <=> k \in watching) /\ watcher'[k] = watcher[k]
      BY <1>5, <3>1, <3>2 DEF InManager, TakeMutex, JoinAny, AddIfNotExists, StopAndRemove, Join,
                              RemoveAndCancel, watchVars
    <3> QED
      BY <3>3 DEF k
  <2>3. \A role \in Roles : Untold(<<s, role>>) => Untold(<<s, role>>)'
    BY <2>1, <2>2 DEF Untold
  <2> QED
    BY <2>1, <2>2, <2>3, ObjectsKept
<1> QED
  BY <1>1, <1>2, <1>3, <1>4, <1>5 DEF Attempt, Trouble

(***************************************************************************)
(* What has been attained for a sync.                                      *)
(***************************************************************************)

\* Nothing of s is scheduled, and the cache shows the incarnation and the generation
\* that are stored.
Quiet(s) ==
  /\ mode = "up"
  /\ s \notin pending
  /\ rs[s].phase # "absent"
  /\ cache[s].uid = rs[s].uid
  /\ cache[s].phase = rs[s].phase

\* The helper has returned, and nothing will be tried again.
Succeeded(s) == pc[s] \in {"done", "patchStatus"} /\ work[s].result = "ok"

Watched(s) == \A role \in Roles : <<s, role>> \in watching

\* The attempt that is running works on that incarnation and generation.
OnLatest(s) == pc[s] # "idle" => snap[s].uid = rs[s].uid /\ snap[s].phase = rs[s].phase

\* How far a live sync has come: the data read are the source's, the target has them,
\* both are watched, and the condition says so; or there is news of why not.
SyncAttained(s) ==
  /\ pc[s] = "apply" => work[s].data = Desired(s) \/ NewsFor(s)
  /\ pc[s] \in {"idle", "startSource", "startTarget"} \/ Succeeded(s) =>
       /\ FINALIZER \in rs[s].fins
       /\ UpToDate(s) \/ Leaving(s) \/ NewsFor(s)
  /\ pc[s] = "startTarget" => <<s, "source">> \in watching
  /\ pc[s] = "idle" \/ Succeeded(s) => Watched(s)
  /\ pc[s] = "idle" => status[s].value = "False" /\ status[s].generation = 1

\* How far a deleted one has come: the finalizer is removed, or the end of the target
\* is watched and still to come, or there is news of it.
DeletionAttained(s) ==
  /\ pc[s] \in {"startSource", "startTarget"} => Leaving(s) \/ NewsFor(s)
  /\ pc[s] = "startTarget" => <<s, "source">> \in watching
  /\ pc[s] = "idle" \/ Succeeded(s) =>
       FINALIZER \notin rs[s].fins \/ (Watched(s) /\ (Leaving(s) \/ NewsFor(s)))

Attained(s) ==
  Quiet(s) => /\ OnLatest(s)
              /\ rs[s].phase = "live" => SyncAttained(s)
              /\ rs[s].phase = "deleting" => DeletionAttained(s)

\* The steps of others.
LEMMA KeptAttained ==
  ASSUME NEW s \in Syncs, Attained(s), Kept(s), Untouched(s), mode = "up",
         s \in pending => s \in pending'
  PROVE  Attained(s)'
<1> SUFFICES ASSUME Quiet(s)'
             PROVE  /\ OnLatest(s)'
                    /\ rs'[s].phase = "live" => SyncAttained(s)'
                    /\ rs'[s].phase = "deleting" => DeletionAttained(s)'
  BY DEF Attained
<1>1. Quiet(s)
  BY DEF Quiet, Untouched
<1>2. OnLatest(s)'
  BY <1>1 DEF Attained, OnLatest, Untouched
<1>3. /\ pc'[s] = pc[s] /\ work'[s] = work[s] /\ rs'[s] = rs[s] /\ status'[s] = status[s]
      /\ Succeeded(s)' <=> Succeeded(s)
      /\ Watched(s) => Watched(s)'
  BY DEF Untouched, Succeeded, Watched, Kept
<1>4. ASSUME rs'[s].phase = "live" PROVE SyncAttained(s)'
  <2>1. SyncAttained(s)
    BY <1>1, <1>3, <1>4 DEF Attained
  <2> QED
    BY <1>3, <2>1 DEF SyncAttained, Kept, Roles
<1>5. ASSUME rs'[s].phase = "deleting" PROVE DeletionAttained(s)'
  <2>1. DeletionAttained(s)
    BY <1>1, <1>3, <1>5 DEF Attained
  <2> QED
    BY <1>3, <2>1 DEF DeletionAttained, Kept, Roles
<1> QED
  BY <1>2, <1>4, <1>5

\* Users: what they do to the sync that is stored is a new incarnation, a new
\* generation, or leaves the finalizer alone.
LEMMA UserAttained ==
  ASSUME TypeOK, NEW s \in Syncs, HistoryOutlived(s), Attained(s), User(s)
  PROVE  Attained(s)'
<1> SUFFICES ASSUME Quiet(s)'
             PROVE  /\ OnLatest(s)'
                    /\ rs'[s].phase = "live" => SyncAttained(s)'
                    /\ rs'[s].phase = "deleting" => DeletionAttained(s)'
  BY DEF Attained
<1>0. /\ rs \in [Syncs -> Versions] /\ rs[s] \in Versions /\ cache[s] \in Versions
      /\ cache[s].uid <= rs[s].uid
      /\ (cache[s].uid = rs[s].uid /\ cache[s].phase = "deleting") => rs[s].phase # "live"
  BY DEF TypeOK, HistoryOutlived, History, Outlived
<1>1. UNCHANGED <<obj, backlog, watcher, watching, pc, work, snap, cache, mode, pending>>
  BY DEF User, CreateSync, DeleteSync, Annotate, ForeignClaims, ForeignReleases, UserChange, managerVars,
         attemptVars
<1>2. /\ rs'[s].uid = rs[s].uid /\ rs'[s].phase = rs[s].phase
      /\ FINALIZER \in rs'[s].fins <=> FINALIZER \in rs[s].fins
      /\ status' = status
  <2>1. ASSUME NEW force, NEW disable, CreateSync(s, force, disable) PROVE FALSE
    <3> DEFINE v == [phase |-> "live", uid |-> rs[s].uid + 1, fins |-> {},
                     force |-> force, disable |-> disable]
    <3>1. Settled(v) = v
      BY DEF Settled
    <3>2. rs'[s].uid = rs[s].uid + 1
      BY <1>0, <2>1, <3>1 DEF CreateSync, Store
    <3> QED
      BY <1>0, <1>1, <3>2 DEF Quiet, Versions
  <2>2. CASE DeleteSync(s)
    <3> DEFINE v == [rs[s] EXCEPT !.phase = "deleting"]
    <3>1. v.uid = rs[s].uid /\ v.phase = "deleting" /\ rs[s].phase = "live"
      BY <1>0, <2>2 DEF Versions, DeleteSync
    <3> HIDE DEF v
    <3>2. rs'[s] = Settled(v)
      BY <1>0, <2>2 DEF DeleteSync, UserChange, Store, v
    <3>3. rs'[s].uid = rs[s].uid /\ rs'[s].phase # "live"
      BY <3>1, <3>2 DEF Settled, Gone
    <3> QED
      BY <1>0, <1>1, <3>1, <3>3 DEF Quiet, Versions
  <2>3. ASSUME NEW v \in Versions, UserChange(s, v), v.uid = rs[s].uid, v.phase = rs[s].phase,
               FINALIZER \in v.fins <=> FINALIZER \in rs[s].fins
        PROVE  /\ rs'[s].uid = rs[s].uid /\ rs'[s].phase = rs[s].phase
               /\ FINALIZER \in rs'[s].fins <=> FINALIZER \in rs[s].fins
               /\ status' = status
    <3>1. rs'[s] = Settled(v) /\ status' = status
      BY <1>0, <2>3 DEF UserChange, Store
    <3>2. rs'[s] = v
      BY <3>1 DEF Settled, Gone, Quiet
    <3> QED
      BY <2>3, <3>1, <3>2
  <2>4. ASSUME NEW force \in BOOLEAN, NEW disable \in BOOLEAN, Annotate(s, force, disable)
        PROVE  \E v \in Versions : /\ UserChange(s, v) /\ v.uid = rs[s].uid /\ v.phase = rs[s].phase
                                   /\ FINALIZER \in v.fins <=> FINALIZER \in rs[s].fins
    <3> DEFINE v == [rs[s] EXCEPT !.force = force, !.disable = disable]
    <3>1. v \in Versions /\ v.uid = rs[s].uid /\ v.phase = rs[s].phase /\ v.fins = rs[s].fins
      BY <1>0 DEF Versions
    <3>2. UserChange(s, v)
      BY <2>4 DEF Annotate
    <3> HIDE DEF v
    <3> QED
      BY <3>1, <3>2
  <2>5. ASSUME NEW f \in Foreign, ForeignClaims(s, f) \/ ForeignReleases(s, f)
        PROVE  \E v \in Versions : /\ UserChange(s, v) /\ v.uid = rs[s].uid /\ v.phase = rs[s].phase
                                   /\ FINALIZER \in v.fins <=> FINALIZER \in rs[s].fins
    <3>0. f # FINALIZER
      BY ControllerAssumption DEF FINALIZER
    <3>1. PICK F \in {rs[s].fins \cup {f}, rs[s].fins \ {f}} : UserChange(s, [rs[s] EXCEPT !.fins = F])
      BY <2>5 DEF ForeignClaims, ForeignReleases
    <3> DEFINE v == [rs[s] EXCEPT !.fins = F]
    <3>2. v \in Versions /\ v.uid = rs[s].uid /\ v.phase = rs[s].phase /\ v.fins = F
      BY <1>0, <3>1 DEF Versions
    <3>3. FINALIZER \in F <=> FINALIZER \in rs[s].fins
      BY <3>0, <3>1
    <3>4. UserChange(s, v)
      BY <3>1
    <3> HIDE DEF v
    <3> QED
      BY <3>2, <3>3, <3>4
  <2> QED
    BY <2>1, <2>2, <2>3, <2>4, <2>5 DEF User
<1>3. Quiet(s)
  BY <1>1, <1>2 DEF Quiet
<1>4. Kept(s)
  BY <1>1, NothingKept
<1>5. OnLatest(s)'
  BY <1>1, <1>2, <1>3 DEF Attained, OnLatest
<1>6. ASSUME rs'[s].phase = "live" PROVE SyncAttained(s)'
  BY <1>1, <1>2, <1>3, <1>4, <1>6 DEF Attained, SyncAttained, Succeeded, Watched, Kept
<1>7. ASSUME rs'[s].phase = "deleting" PROVE DeletionAttained(s)'
  BY <1>1, <1>2, <1>3, <1>4, <1>7 DEF Attained, DeletionAttained, Succeeded, Watched, Kept
<1> QED
  BY <1>5, <1>6, <1>7

\* The reflector: a version of another incarnation or generation is scheduled.
LEMMA ReflectAttained ==
  ASSUME TypeOK, NEW s \in Syncs, Attained(s), Reflect(s)
  PROVE  Attained(s)'
<1> SUFFICES ASSUME Quiet(s)'
             PROVE  /\ OnLatest(s)'
                    /\ rs'[s].phase = "live" => SyncAttained(s)'
                    /\ rs'[s].phase = "deleting" => DeletionAttained(s)'
  BY DEF Attained
<1>1. UNCHANGED <<obj, backlog, watcher, watching, pc, work, snap, rs, status, mode>>
  BY DEF Reflect, managerVars, apiVars, attemptVars
<1>2. Quiet(s)
  BY <1>1 DEF Quiet, Reflect, TypeOK
<1>3. Kept(s)
  BY <1>1, NothingKept
<1>4. OnLatest(s)'
  BY <1>1, <1>2 DEF Attained, OnLatest
<1>5. ASSUME rs'[s].phase = "live" PROVE SyncAttained(s)'
  BY <1>1, <1>2, <1>3, <1>5 DEF Attained, SyncAttained, Succeeded, Watched, Kept
<1>6. ASSUME rs'[s].phase = "deleting" PROVE DeletionAttained(s)'
  BY <1>1, <1>2, <1>3, <1>6 DEF Attained, DeletionAttained, Succeeded, Watched, Kept
<1> QED
  BY <1>4, <1>5, <1>6

\* An attempt begins on what the cache shows.
LEMMA BeginAttained ==
  ASSUME TypeOK, NEW s \in Syncs, Begin(s)
  PROVE  Attained(s)'
<1> SUFFICES ASSUME Quiet(s)'
             PROVE  /\ OnLatest(s)'
                    /\ rs'[s].phase = "live" => SyncAttained(s)'
                    /\ rs'[s].phase = "deleting" => DeletionAttained(s)'
  BY DEF Attained
<1>1. UNCHANGED <<rs, cache>>
  BY DEF Begin, apiVars, cacheVars
<1>2. pc'[s] = "resolve" /\ snap'[s] = cache[s]
  BY <1>1 DEF Begin, Goto, Quiet, TypeOK
<1> QED
  BY <1>1, <1>2 DEF OnLatest, SyncAttained, DeletionAttained, Succeeded, Quiet

\* A step of a running attempt that schedules nothing and stores nothing.
LEMMA MoveAttained ==
  ASSUME NEW s \in Syncs, Attained(s), pc[s] # "idle", pc'[s] # "idle",
         UNCHANGED <<cache, rs, snap, mode, pending>>,
         Quiet(s) /\ OnLatest(s) /\ snap[s].phase = "live" /\ SyncAttained(s) => SyncAttained(s)',
         Quiet(s) /\ OnLatest(s) /\ snap[s].phase = "deleting" /\ DeletionAttained(s) => DeletionAttained(s)'
  PROVE  Attained(s)'
<1>1. Quiet(s)' <=> Quiet(s)
  BY DEF Quiet
<1>2. OnLatest(s) => OnLatest(s)'
  BY DEF OnLatest
<1>3. Quiet(s) => OnLatest(s) /\ snap[s].phase = rs[s].phase
  BY DEF Attained, OnLatest
<1> QED
  BY <1>1, <1>2, <1>3 DEF Attained

\* An attempt that fails owes nothing yet.
LEMMA ReturnAttained ==
  ASSUME TypeOK, NEW s \in Syncs, Attained(s), NEW result, result # "ok", Return(s, result),
         pc[s] # "idle", UNCHANGED <<cache, rs, snap, mode, pending>>
  PROVE  Attained(s)'
<1>1. pc'[s] = "done" /\ work'[s].result = result
  BY DEF Return, Goto, TypeOK, Works
<1> QED
  BY <1>1, MoveAttained DEF SyncAttained, DeletionAttained, Succeeded

LEMMA ReadAttained ==
  ASSUME TypeOK, NEW s \in Syncs, SyncInv(s), HistoryOutlived(s), Attained(s),
         \/ Resolve(s) \/ ResolveFails(s) \/ RequestFails(s)
         \/ GetTarget(s) \/ GetSource(s) \/ GetStatus(s)
  PROVE  Attained(s)'
<1>0. /\ UNCHANGED <<cache, rs, snap, mode, pending, obj, backlog, watcher, watching, status>>
      /\ pc[s] # "idle" /\ pc \in [Syncs -> Pcs] /\ work \in [Syncs -> Works]
      /\ snap[s] \in Versions
  BY DEF Resolve, ResolveFails, RequestFails, GetTarget, GetSource, GetStatus, Inert, NoTask, TypeOK
<1>1. Kept(s)
  BY <1>0, NothingKept
<1>2. CASE Resolve(s)
  <2>1. pc'[s] = Dispatch(snap[s]) /\ work' = work
    BY <1>0, <1>2 DEF Resolve, Goto
  <2>2. snap[s].phase \in {"live", "deleting"} /\ ~snap[s].disable
    BY <1>0 DEF SyncInv, PcJustified, WellFormed, Known, Seen, Versions
  <2>3. CASE snap[s].phase = "live"
    <3>1. pc'[s] \in {"addFinalizer", "getSource"}
      BY <2>1, <2>3 DEF Dispatch, has_been_deleted, has_target_finalizer
    <3> QED
      BY <1>0, <2>3, <3>1, MoveAttained DEF SyncAttained, Succeeded
  <2>4. CASE snap[s].phase = "deleting"
    <3>1. pc'[s] \in {"done", "getTarget"} /\ (pc'[s] = "done" => FINALIZER \notin snap[s].fins)
      BY <2>1, <2>2, <2>4 DEF Dispatch, has_been_deleted, has_target_finalizer
    <3>2. snap[s].uid = rs[s].uid => rs[s].fins \subseteq snap[s].fins
      BY <2>4 DEF HistoryOutlived, History, Outlived
    <3>3. OnLatest(s) /\ pc'[s] = "done" => FINALIZER \notin rs'[s].fins
      BY <1>0, <3>1, <3>2 DEF OnLatest
    <3> QED
      BY <1>0, <2>4, <3>1, <3>3, MoveAttained DEF DeletionAttained, Succeeded
  <2> QED
    BY <2>2, <2>3, <2>4
<1>3. CASE ResolveFails(s)
  <2>1. \/ pc'[s] = "stopSource"
        \/ Return(s, "err")
    BY <1>0, <1>3 DEF ResolveFails, Goto
  <2>2. CASE pc'[s] = "stopSource"
    BY <1>0, <2>2, MoveAttained DEF SyncAttained, DeletionAttained, Succeeded
  <2> QED
    BY <1>0, <2>1, <2>2, ReturnAttained
<1>4. CASE RequestFails(s)
  BY <1>0, <1>4, ReturnAttained DEF RequestFails
<1>5. CASE GetTarget(s)
  <2>1. snap[s].phase = "deleting"
    BY <1>5 DEF GetTarget, SyncInv, PcJustified
  <2>2. pc'[s] = AfterGet(obj[TargetOf[s]].phase) /\ obj[TargetOf[s]].phase \in {"absent", "live", "deleting"}
    BY <1>0, <1>5, RoleObjects, ObjectFacts DEF GetTarget, Goto, TypeOK, WatchTypeOK
  <2>3. pc'[s] \in {"startSource", "deleteTarget", "stopSource"} /\ (pc'[s] = "startSource" => Leaving(s)')
    BY <1>0, <2>2 DEF AfterGet, Leaving
  <2> QED
    BY <1>0, <2>1, <2>3, MoveAttained DEF DeletionAttained, Succeeded
<1>6. CASE GetSource(s)
  <2>1. snap[s].phase = "live"
    BY <1>6 DEF GetSource, SyncInv, PcJustified
  <2>2. \/ Return(s, "err")
        \/ pc'[s] = "apply" /\ work'[s].data = Desired(s)
    BY <1>0, <1>6 DEF GetSource, Goto, Works
  <2>3. Desired(s)' = Desired(s)
    BY <1>0 DEF Desired
  <2>4. CASE pc'[s] = "apply" /\ work'[s].data = Desired(s)
    BY <1>0, <2>1, <2>3, <2>4, MoveAttained DEF SyncAttained, Succeeded
  <2> QED
    BY <1>0, <2>2, <2>4, ReturnAttained
<1>7. CASE GetStatus(s)
  <2>1. pc[s] = "done" /\ pc'[s] = "patchStatus" /\ work'[s].result = work[s].result
    BY <1>0, <1>7 DEF GetStatus, Goto, Works
  <2>2. (Succeeded(s)' <=> Succeeded(s)) /\ (Watched(s) => Watched(s)')
    BY <1>0, <2>1 DEF Succeeded, Watched
  <2> QED
    BY <1>0, <1>1, <2>1, <2>2, MoveAttained DEF SyncAttained, DeletionAttained, Kept
<1> QED
  BY <1>2, <1>3, <1>4, <1>5, <1>6, <1>7

\* After the delete request the target is on its way out.
LEMMA DeleteTargetAttained ==
  ASSUME TypeOK, NEW s \in Syncs, SyncInv(s), Attained(s), DeleteTarget(s)
  PROVE  Attained(s)'
<1>0. /\ UNCHANGED <<cache, rs, snap, mode, pending>>
      /\ pc[s] = "deleteTarget" /\ snap[s].phase = "deleting"
  BY DEF DeleteTarget, Inert, NoTask, SyncInv, PcJustified
<1>1. \/ MarkDeleted(TargetOf[s]) /\ Answered(s, "startSource", "ok")
      \/ obj[TargetOf[s]].phase = "deleting" /\ obj' = obj /\ Answered(s, "startSource", "ok")
      \/ Return(s, "err")
  BY DEF DeleteTarget
<1>2. CASE /\ Goto(s, "startSource")
           /\ MarkDeleted(TargetOf[s]) \/ (obj[TargetOf[s]].phase = "deleting" /\ obj' = obj)
  <2>1. pc'[s] = "startSource"
    BY <1>2 DEF Goto, TypeOK
  <2>2. obj \in [Objects -> ObjectStates] /\ TargetOf[s] \in Objects /\ obj[TargetOf[s]] \in ObjectStates
    BY RoleObjects DEF TypeOK, WatchTypeOK
  <2>3. [obj[TargetOf[s]] EXCEPT !.phase = "deleting"].phase = "deleting"
    BY <2>2 DEF ObjectStates, Absent
  <2>4. Leaving(s)'
    BY <1>2, <2>2, <2>3 DEF Leaving, MarkDeleted, Publish
  <2> QED
    BY <1>0, <2>1, <2>4, MoveAttained DEF DeletionAttained, Succeeded
<1>3. CASE Return(s, "err")
  BY <1>0, <1>3, ReturnAttained
<1> QED
  BY <1>1, <1>2, <1>3 DEF Answered

\* The target gets what was read from the source.
LEMMA ApplyAttained ==
  ASSUME TypeOK, TasksThere, NEW s \in Syncs, SyncInv(s), Attained(s), Apply(s)
  PROVE  Attained(s)'
<1> DEFINE t == TargetOf[s]
           new == [phase |-> IF obj[t].phase = "absent" THEN "live" ELSE obj[t].phase,
                   data |-> work[s].data, by |-> "us", owner |-> <<s, snap[s].uid>>]
<1>0. /\ UNCHANGED <<cache, rs, snap, mode, pending, watcher, watching>>
      /\ pc[s] = "apply" /\ snap[s].phase = "live"
      /\ work[s].data \in Data /\ NoData \notin Data
  BY ControllerAssumption DEF Apply, Inert, NoTask, SyncInv, PcJustified, TypeOK
<1>1. t \in Objects /\ obj \in [Objects -> ObjectStates] /\ obj[t].phase \in {"absent", "live", "deleting"}
  BY RoleObjects, ObjectFacts DEF TypeOK, WatchTypeOK
<1>2. \/ UNCHANGED <<obj, backlog>> /\ obj[t] = [new EXCEPT !.by = obj[t].by]
      \/ Publish(t, new, "us")
  BY DEF Apply
<1>3. obj'[t].data = work[s].data /\ obj'[t].phase \in {"live", "deleting"}
  BY <1>1, <1>2 DEF Publish
<1>4. \A o \in Objects : o # t => obj'[o] = obj[o]
  BY <1>1, <1>2 DEF Publish
<1> HIDE DEF new
<1>5. Desired(s)' = Desired(s)
  BY <1>4, RoleObjects DEF Desired
<1>6. work[s].data = Desired(s) => UpToDate(s)' \/ Leaving(s)'
  BY <1>0, <1>3, <1>5 DEF UpToDate, Leaving
<1>7. mode = "up" /\ NewsFor(s) => NewsFor(s)'
  <2>1. "us" \in Events
    BY DEF Events, Writers
  <2>2. mode = "up" /\ Publish(t, new, "us") =>
          \A role \in Roles : Untold(<<s, role>>) => Untold(<<s, role>>)'
    BY <1>0, <1>1, <2>1, PublishNews
  <2>3. UNCHANGED <<obj, backlog>> => \A role \in Roles : Untold(<<s, role>>) => Untold(<<s, role>>)'
    BY <1>0 DEF Untold
  <2> QED
    BY <1>2, <2>2, <2>3 DEF NewsFor
<1>8. FINALIZER \in rs'[s].fins
  BY <1>0, AppliedUnderFinalizer
<1>9. CASE Goto(s, "startSource")
  <2>1. pc'[s] = "startSource"
    BY <1>9 DEF Goto, TypeOK
  <2>2. Quiet(s) /\ SyncAttained(s) => SyncAttained(s)'
    BY <1>0, <1>6, <1>7, <1>8, <2>1 DEF SyncAttained, Succeeded, Quiet
  <2> QED
    BY <1>0, <2>1, <2>2, MoveAttained
<1>10. CASE Return(s, "err")
  BY <1>0, <1>10, ReturnAttained
<1> QED
  BY <1>9, <1>10 DEF Apply, Answered

\* The finalizer is added, which is requeued, or removed.
LEMMA PatchAttained ==
  ASSUME TypeOK, NEW s \in Syncs, SyncInv(s), HistoryOutlived(s), Attained(s),
         AddFinalizer(s) \/ RemoveFinalizer(s)
  PROVE  Attained(s)'
<1>0. /\ UNCHANGED <<cache, snap, mode, pending>> /\ pc[s] # "idle" /\ pc'[s] = "done"
      /\ rs \in [Syncs -> Versions] /\ rs[s] \in Versions
  BY DEF AddFinalizer, RemoveFinalizer, PatchFinalizers, Answered, Return, Goto, Inert, NoTask, TypeOK
<1>1. CASE UNCHANGED rs /\ Return(s, "err")
  BY <1>0, <1>1, ReturnAttained
<1>2. ASSUME NEW F, Store(s, [rs[s] EXCEPT !.fins = F]),
             work'[s].result = "ok" => FINALIZER \notin F /\ snap[s].phase = "deleting"
      PROVE  Attained(s)'
  <2> DEFINE v == [rs[s] EXCEPT !.fins = F]
  <2>1. v.uid = rs[s].uid /\ v.phase = rs[s].phase /\ v.fins = F
    BY <1>0 DEF Versions
  <2>2. rs'[s] = Settled(v)
    BY <1>0, <1>2 DEF Store
  <2> HIDE DEF v
  <2>3. Quiet(s)' => rs'[s] = v
    BY <2>2 DEF Settled, Gone, Quiet
  <2>4. Quiet(s)' => Quiet(s)
    BY <1>0, <2>1, <2>3 DEF Quiet
  <2>5. Quiet(s)' => OnLatest(s)' /\ rs'[s].phase = snap[s].phase
    BY <1>0, <2>1, <2>3, <2>4 DEF Attained, OnLatest
  <2>6. Quiet(s)' /\ Succeeded(s)' => snap[s].phase = "deleting" /\ FINALIZER \notin rs'[s].fins
    BY <1>2, <2>1, <2>3 DEF Succeeded
  <2> QED
    BY <1>0, <2>5, <2>6 DEF Attained, SyncAttained, DeletionAttained
<1>3. CASE AddFinalizer(s)
  <2>1. \/ UNCHANGED rs /\ Return(s, "err")
        \/ /\ Store(s, [rs[s] EXCEPT !.fins = snap[s].fins \cup {FINALIZER}])
           /\ work'[s].result # "ok"
    BY <1>3 DEF AddFinalizer, PatchFinalizers, Answered, Return, with_push, TypeOK, Works
  <2> QED
    BY <1>1, <1>2, <2>1
<1>4. CASE RemoveFinalizer(s)
  <2>1. snap[s].phase = "deleting"
    BY <1>4 DEF RemoveFinalizer, SyncInv, PcJustified, RemovalPcs
  <2>2. \/ UNCHANGED rs /\ Return(s, "err")
        \/ Store(s, [rs[s] EXCEPT !.fins = snap[s].fins \ {FINALIZER}])
    BY <1>4 DEF RemoveFinalizer, PatchFinalizers, with_item_removed
  <2>3. FINALIZER \notin snap[s].fins \ {FINALIZER}
    OBVIOUS
  <2> QED
    BY <1>1, <1>2, <2>1, <2>2, <2>3
<1> QED
  BY <1>3, <1>4

\* The attempt ends, and nothing is scheduled: it has succeeded.
LEMMA FinishAttained ==
  ASSUME TypeOK, NEW s \in Syncs, SyncInv(s), Attained(s),
         SkipStatus(s) \/ PatchStatus(s) \/ StatusFails(s)
  PROVE  Attained(s)'
<1> SUFFICES ASSUME Quiet(s)'
             PROVE  /\ OnLatest(s)'
                    /\ rs'[s].phase = "live" => SyncAttained(s)'
                    /\ rs'[s].phase = "deleting" => DeletionAttained(s)'
  BY DEF Attained
<1>1. /\ UNCHANGED <<obj, backlog, watcher, watching, mode, rs, cache>>
      /\ pc'[s] = "idle" /\ pc[s] \in {"done", "patchStatus"}
  BY DEF SkipStatus, PatchStatus, StatusFails, Finish, Goto, TypeOK, cacheVars
<1>2. /\ SkipStatus(s) \/ PatchStatus(s)
      /\ work[s].result = "ok" /\ pending' = pending
  BY DEF SkipStatus, PatchStatus, StatusFails, Finish, Again, Quiet
<1>3. Quiet(s) /\ Succeeded(s)
  BY <1>1, <1>2 DEF Quiet, Succeeded
<1>4. snap[s].phase = rs[s].phase /\ OnLatest(s)'
  BY <1>1, <1>3 DEF Attained, OnLatest
<1>5. Kept(s)
  BY <1>1, NothingKept
<1>6. ASSUME rs'[s].phase = "live" PROVE SyncAttained(s)'
  <2>1. PatchStatus(s)
    BY <1>1, <1>2, <1>4, <1>6 DEF SkipStatus, WritesStatus, has_been_deleted
  <2>2. status'[s].value = "False" /\ status'[s].generation = 1
    BY <1>1, <1>2, <1>4, <1>6, <2>1 DEF PatchStatus, sync_failing_condition, Generation, TypeOK
  <2> QED
    BY <1>1, <1>3, <1>5, <1>6, <2>2 DEF Attained, SyncAttained, Succeeded, Watched, Kept
<1>7. ASSUME rs'[s].phase = "deleting" PROVE DeletionAttained(s)'
  BY <1>1, <1>3, <1>5, <1>7 DEF Attained, DeletionAttained, Succeeded, Watched, Kept
<1> QED
  BY <1>4, <1>6, <1>7

\* The watches are started or stopped.
LEMMA ManagerAttained ==
  ASSUME TypeOK, NEW s \in Syncs, SyncInv(s), Attained(s), InManager(s)
  PROVE  Attained(s)'
<1>0. /\ UNCHANGED <<cache, rs, snap, work, status, obj, backlog, pending, mode>>
      /\ pc \in [Syncs -> Pcs]
  BY DEF InManager, TakeMutex, JoinAny, AddIfNotExists, StopAndRemove, Join, watchVars, Outside,
         apiVars, cacheVars, attemptVars, TypeOK
<1>1. ASSUME NEW role \in Roles, StopAndRemove(s, role) \/ Join(s, role)
      PROVE  Attained(s)'
  <2>1. pc[s] \in RemovalPcs /\ pc'[s] \in RemovalPcs
    BY <1>0, <1>1 DEF StopAndRemove, Join, Goto, StopPc, JoinPc, AfterStop, Roles, RemovalPcs, StopPcs
  <2>2. snap[s].phase = "deleting"
    BY <2>1 DEF SyncInv, PcJustified
  <2>3. DeletionAttained(s)' /\ pc[s] # "idle" /\ pc'[s] # "idle"
    BY <2>1 DEF DeletionAttained, Succeeded, RemovalPcs, StopPcs
  <2> QED
    BY <1>0, <2>2, <2>3, MoveAttained
<1>2. ASSUME NEW role \in Roles, AddIfNotExists(s, role)
      PROVE  Attained(s)'
  <2> DEFINE k == <<s, role>>
  <2>1. /\ pc[s] = StartPc(role) /\ pc'[s] = AfterStart(role)
        /\ watching' = watching \cup {k}
        /\ watcher' = IF k \in watching THEN watcher ELSE [watcher EXCEPT ![k] = "starting"]
    BY <1>0, <1>2 DEF AddIfNotExists, Goto
  <2>2. NewsFor(s) => NewsFor(s)'
    <3>1. CASE k \in watching
      BY <1>0, <2>1, <3>1 DEF NewsFor, Untold
    <3>2. CASE k \notin watching
      <4>1. k \in Keys /\ watcher \in [Keys -> TaskStates]
        BY RoleObjects DEF TypeOK, WatchTypeOK
      <4>2. watcher'[k] = "starting"
        BY <2>1, <3>2, <4>1
      <4>3. Untold(k)'
        BY <4>2 DEF Untold
      <4> QED
        BY <4>3 DEF NewsFor
    <3> QED
      BY <3>1, <3>2
  <2>3. /\ UpToDate(s)' <=> UpToDate(s)
        /\ Leaving(s)' <=> Leaving(s)
    BY <1>0 DEF UpToDate, Leaving, Desired
  <2>4. CASE role = "source"
    <3>1. pc[s] = "startSource" /\ pc'[s] = "startTarget" /\ <<s, "source">> \in watching'
      BY <2>1, <2>4 DEF StartPc, AfterStart
    <3> QED
      BY <1>0, <2>2, <2>3, <3>1, MoveAttained DEF SyncAttained, DeletionAttained, Succeeded
  <2>5. CASE role = "target"
    <3>1. pc[s] = "startTarget" /\ pc'[s] = "done"
      BY <2>1, <2>5 DEF StartPc, AfterStart
    <3>2. <<s, "source">> \in watching => Watched(s)'
      BY <2>1, <2>5 DEF Watched, Roles
    <3> QED
      BY <1>0, <2>2, <2>3, <3>1, <3>2, MoveAttained DEF SyncAttained, DeletionAttained, Succeeded
  <2> QED
    BY <2>4, <2>5 DEF Roles
<1> QED
  BY <1>1, <1>2 DEF InManager, TakeMutex, JoinAny, Roles

\* A new process has to be shown the sync first.
LEMMA BootAttained ==
  ASSUME TypeOK, NEW s \in Syncs, SyncInv(s), Boot
  PROVE  Attained(s)'
<1>1. rs' = rs /\ cache'[s].uid = 0
  BY DEF Boot, apiVars, Gone
<1>2. rs[s].phase # "absent" => rs[s].uid # 0
  BY DEF SyncInv, WellFormed, TypeOK, Versions
<1>3. ~Quiet(s)'
  BY <1>1, <1>2 DEF Quiet
<1> QED
  BY <1>3 DEF Attained

(***************************************************************************)
(* The tasks in the map, and the end of the feed.                          *)
(***************************************************************************)

LEMMA TasksThereStep ==
  ASSUME ~Panics, TypeOK, TaskInv, TasksThere, [Next]_vars
  PROVE  TasksThere'
<1> USE DEF Outside, managerVars, apiVars, cacheVars, attemptVars
<1>0. /\ watcher \in [Keys -> TaskStates] /\ watching \subseteq Keys /\ cancelled \subseteq Keys
      /\ \A k \in cancelled : joining = k
  BY DEF TypeOK, WatchTypeOK, TaskInv, JoinsInOrder
<1>1. CASE UNCHANGED <<watcher, cancelled, watching, mode>>
  BY <1>1 DEF TasksThere
<1>2. ASSUME NEW x \in Syncs,
             User(x) \/ CollectGarbage(x) \/ Reflect(x) \/ Attempt(x) \/ Trouble(x)
      PROVE  UNCHANGED <<watcher, cancelled, watching, mode>>
  BY <1>2, AttemptOutside DEF User, CreateSync, DeleteSync, Annotate, ForeignClaims, ForeignReleases,
                              UserChange, CollectGarbage, Reflect
<1>3. ASSUME NEW x \in Syncs, InManager(x) PROVE TasksThere'
  <2>1. ASSUME NEW role \in Roles, AddIfNotExists(x, role) PROVE TasksThere'
    <3> DEFINE k == <<x, role>>
    <3>1. k \in Keys
      BY RoleObjects
    <3>2. cancelled = {}
      BY <1>0, <2>1, KeyParts DEF AddIfNotExists, MutexFree
    <3> HIDE DEF k
    <3>3. /\ watching' = watching \cup {k}
          /\ watcher' = IF k \in watching THEN watcher ELSE [watcher EXCEPT ![k] = "starting"]
          /\ UNCHANGED <<cancelled, mode>>
      BY <2>1 DEF AddIfNotExists, k
    <3> QED
      BY <1>0, <3>1, <3>2, <3>3 DEF TasksThere
  <2>2. ASSUME NEW role \in Roles, StopAndRemove(x, role) PROVE TasksThere'
    <3> DEFINE k == <<x, role>>
    <3> HIDE DEF k
    <3>1. /\ UNCHANGED <<watcher, mode>>
          /\ \/ watching' = watching \ {k} /\ cancelled' \subseteq cancelled \cup {k}
             \/ UNCHANGED <<watching, cancelled>>
      BY <2>2 DEF StopAndRemove, RemoveAndCancel, k
    <3> QED
      BY <3>1 DEF TasksThere
  <2>3. ASSUME NEW role \in Roles, Join(x, role) PROVE TasksThere'
    BY <2>3 DEF Join, watchVars, TasksThere
  <2> QED
    BY <1>3, <2>1, <2>2, <2>3 DEF InManager, TakeMutex, JoinAny, Roles
<1>4. ASSUME NEW k \in Keys, InTask(k) \/ TaskInTrouble(k) PROVE TasksThere'
  <2>1. UNCHANGED <<watching, mode>> /\ cancelled' \subseteq cancelled
    BY <1>4 DEF InTask, TaskInTrouble, TaskProgress, TaskTrouble, Start, StartFails, StreamFails, Fails,
                BackoffEnds, Deliver, PauseEnds, Exit, Expire, ErrorEvent, TaskPanics
  <2>2. \/ watcher' = watcher
        \/ k \in cancelled /\ watcher' = [watcher EXCEPT ![k] = "none"]
        \/ \E st \in TaskStates \ {"none"} : watcher' = [watcher EXCEPT ![k] = st]
    BY <1>4 DEF InTask, TaskInTrouble, TaskProgress, TaskTrouble, Start, StartFails, StreamFails, Fails,
                BackoffEnds, Deliver, PauseEnds, Exit, Expire, ErrorEvent, TaskPanics, TaskStates
  <2> QED
    BY <1>0, <2>1, <2>2 DEF TasksThere
<1>5. CASE InShutdown \/ Signal
  <2>1. mode' # "up"
    BY <1>5 DEF InShutdown, Shutdown, Drained, StopAllNext, StopAllReturns, Signal, ShutdownSignal
  <2> QED
    BY <2>1 DEF TasksThere
<1>6. CASE Boot
  BY <1>6 DEF Boot, TasksThere
<1>7. CASE InEnvironment
  BY <1>7 DEF InEnvironment, Environment, ExternalDelete, DeletionEnds, ExternalWrite, AccessChanges,
              TasksThere
<1>8. CASE UNCHANGED vars
  BY <1>1, <1>8 DEF vars, watchVars
<1> QED
  BY <1>1, <1>2, <1>3, <1>4, <1>5, <1>6, <1>7, <1>8 DEF Next, Crash, Restart, AttemptPanics

\* The last version the reflector's watch delivers is the stored one.
CaughtUp(s) == IF feed[s] = <<>> THEN cache[s] = rs[s] ELSE feed[s][Len(feed[s])] = rs[s]

\* What is being deleted and still there has a finalizer.
Deferred(s) == rs[s].phase = "deleting" => rs[s].fins # {}

LEMMA StoreCaughtUp ==
  ASSUME TypeOK, NEW s \in Syncs, CaughtUp(s), NEW v, Store(s, v), cache'[s] = cache[s]
  PROVE  CaughtUp(s)' /\ Deferred(s)'
<1> DEFINE nv == Settled(v)
<1> HIDE DEF nv
<1>1. /\ rs'[s] = nv
      /\ nv = rs[s] => feed'[s] = feed[s]
      /\ nv # rs[s] => feed'[s] = Append(feed[s], nv)
      /\ feed[s] \in Seq(Versions)
  BY DEF Store, TypeOK, nv
<1>0. nv.phase = "deleting" => nv.fins # {}
  BY DEF Settled, Gone, nv
<1>2. CASE nv = rs[s]
  BY <1>0, <1>1, <1>2 DEF CaughtUp, Deferred
<1>3. CASE nv # rs[s]
  <2>1. feed'[s] # <<>> /\ feed'[s][Len(feed'[s])] = nv
    BY <1>1, <1>3
  <2> QED
    BY <1>0, <1>1, <2>1 DEF CaughtUp, Deferred
<1> QED
  BY <1>2, <1>3

LEMMA LastOfTail ==
  ASSUME NEW q \in Seq(Versions), q # <<>>
  PROVE  IF Tail(q) = <<>> THEN Head(q) = q[Len(q)] ELSE Tail(q)[Len(Tail(q))] = q[Len(q)]
<1> DEFINE r == Tail(q)
<1>1. Len(q) \in Nat /\ Len(q) # 0 /\ Head(q) = q[1]
  OBVIOUS
<1>2. r \in Seq(Versions) /\ Len(r) = Len(q) - 1
  BY <1>1
<1>3. \A i \in 1..Len(r) : r[i] = q[i + 1]
  OBVIOUS
<1> HIDE DEF r
<1>4. r = <<>> <=> Len(r) = 0
  BY <1>2
<1>5. CASE Len(r) = 0
  BY <1>1, <1>2, <1>4, <1>5 DEF r
<1>6. CASE Len(r) # 0
  <2>1. Len(r) \in 1..Len(r) /\ Len(r) + 1 = Len(q)
    BY <1>1, <1>2, <1>6
  <2>2. r[Len(r)] = q[Len(q)]
    BY <1>3, <2>1
  <2> QED
    BY <1>4, <1>6, <2>2 DEF r
<1> QED
  BY <1>5, <1>6

LEMMA CaughtUpStep ==
  ASSUME Staleness = 0, TypeOK, NEW s \in Syncs, CaughtUp(s), Deferred(s), [Next]_vars
  PROVE  CaughtUp(s)' /\ Deferred(s)'
<1>1. CASE User(s)
  BY <1>1, UserFacts, StoreCaughtUp
<1>2. CASE Reflect(s)
  <2> DEFINE q == feed[s]
  <2>1. /\ q # <<>> /\ q \in Seq(Versions)
        /\ cache'[s] = Head(q) /\ feed'[s] = Tail(q) /\ rs' = rs
        /\ q[Len(q)] = rs[s]
    BY <1>2 DEF Reflect, TypeOK, apiVars, CaughtUp
  <2> HIDE DEF q
  <2>2. IF Tail(q) = <<>> THEN Head(q) = q[Len(q)] ELSE Tail(q)[Len(Tail(q))] = q[Len(q)]
    BY <2>1, LastOfTail
  <2> QED
    BY <2>1, <2>2 DEF CaughtUp, Deferred
<1>3. CASE Attempt(s) \/ Trouble(s)
  <2>1. cache' = cache /\ (UNCHANGED <<rs, feed>> \/ \E v : Store(s, v))
    BY <1>3 DEF Attempt, Trouble, Begin, Resolve, ResolveFails, GetTarget, DeleteTarget, RemoveFinalizer,
                AddFinalizer, PatchFinalizers, GetSource, Apply, GetStatus, SkipStatus, PatchStatus,
                StatusFails, RequestFails, Finish, Inert, apiVars, cacheVars
  <2> QED
    BY <2>1, StoreCaughtUp DEF CaughtUp, Deferred
<1>4. CASE InManager(s)
  BY <1>4 DEF InManager, Outside, apiVars, cacheVars, CaughtUp, Deferred
<1>5. CASE Boot
  <2>1. feed'[s] = <<rs[s]>> /\ rs' = rs
    BY <1>5, BootFeed DEF Boot, apiVars
  <2> QED
    BY <2>1 DEF CaughtUp, Deferred
<1>6. CASE Untouched(s)
  BY <1>6 DEF Untouched, CaughtUp, Deferred
<1> QED
  BY <1>1, <1>2, <1>3, <1>4, <1>5, <1>6, StepsOfOthers

(***************************************************************************)
(* The theorem.                                                            *)
(***************************************************************************)

\* Attained is not inductive by itself: that nothing is missed rests on the tasks that
\* are in the map, on what ProtectionInv says of the finalizer, and on the order of the
\* versions that the cache shows.
RestInv ==
  /\ ProtectionInv
  /\ ForeignInv
  /\ TaskInv
  /\ TasksThere
  /\ \A s \in Syncs \ Overridable : CaughtUp(s) /\ Deferred(s) /\ (Undisputed(s) => Attained(s))

LEMMA AttainedStep ==
  ASSUME ~WatchExpiry, ~Panics, TypeOK, TaskInv, TasksThere, [Next]_vars,
         NEW s \in Syncs, Undisputed(s), SyncInv(s), HistoryOutlived(s), Attained(s)
  PROVE  Attained(s)'
<1>1. CASE User(s) \/ Reflect(s) \/ Attempt(s) \/ Trouble(s) \/ InManager(s)
  BY <1>1, UserAttained, ReflectAttained, BeginAttained, ReadAttained, DeleteTargetAttained,
     ApplyAttained, PatchAttained, FinishAttained, ManagerAttained DEF Attempt, Trouble
<1>2. CASE Boot
  BY <1>2, BootAttained
<1>3. CASE mode' # "up"
  BY <1>3 DEF Attained, Quiet
<1>4. CASE s \in pending'
  BY <1>4 DEF Attained, Quiet
<1>5. ASSUME ~(User(s) \/ Reflect(s) \/ Attempt(s) \/ Trouble(s) \/ InManager(s)), ~Boot,
             mode' = "up", s \notin pending'
      PROVE  Attained(s)'
  <2>1. Untouched(s)
    BY <1>5, StepsOfOthers
  <2>2. CASE UNCHANGED vars
    <3>1. UNCHANGED <<obj, backlog, watcher, watching, mode, pending>>
      BY <2>2 DEF vars, watchVars, managerVars
    <3> QED
      BY <1>5, <2>1, <3>1, NothingKept, KeptAttained
  <2>3. ASSUME NEW x \in Syncs,
               User(x) \/ Reflect(x) \/ Attempt(x) \/ Trouble(x) \/ InManager(x)
        PROVE  Attained(s)'
    <3>1. x \in Syncs \ {s}
      BY <1>5, <2>3
    <3>2. mode = "up"
      <4>1. mode' = mode
        BY <2>3, AttemptOutside DEF User, CreateSync, DeleteSync, Annotate, ForeignClaims,
           ForeignReleases, UserChange, Reflect, InManager, TakeMutex, JoinAny, AddIfNotExists,
           StopAndRemove, Join, managerVars
      <4> QED
        BY <1>5, <4>1
    <3> QED
      BY <2>1, <2>3, <3>1, <3>2, OtherSyncKept, KeptAttained
  <2>4. ASSUME NEW x \in Syncs, CollectGarbage(x) PROVE Attained(s)'
    <3>1. UNCHANGED <<watcher, watching, mode, pending>> /\ obj[TargetOf[x]].phase = "live"
          /\ MarkDeleted(TargetOf[x])
      BY <2>4 DEF CollectGarbage, managerVars
    <3> QED
      BY <1>5, <2>1, <3>1, RoleObjects, DeleteKept, KeptAttained
  <2>5. ASSUME NEW k \in Keys, InTask(k) \/ TaskInTrouble(k) PROVE Attained(s)'
    <3>1. UNCHANGED <<watching, mode>> /\ (TaskProgress(k) \/ TaskTrouble(k))
      BY <2>5 DEF InTask, TaskInTrouble, managerVars
    <3>2. s \in pending => s \in pending'
      BY <3>1 DEF TaskProgress, TaskTrouble, Start, StartFails, StreamFails, Fails, BackoffEnds,
                  Deliver, PauseEnds, Exit, Expire, ErrorEvent, TaskPanics, SendReconcile
    <3> QED
      BY <1>5, <2>1, <3>1, <3>2, TaskKept, KeptAttained
  <2>6. CASE InEnvironment
    <3>1. UNCHANGED <<watching, mode, pending>> /\ Environment
      BY <2>6 DEF InEnvironment, managerVars, Environment, ExternalDelete, DeletionEnds, ExternalWrite,
                  AccessChanges
    <3> QED
      BY <1>5, <2>1, <3>1, EnvironmentKept, KeptAttained
  <2>7. CASE InShutdown \/ Signal
    BY <1>5, <2>7 DEF InShutdown, Shutdown, Drained, StopAllNext, StopAllReturns, Signal, ShutdownSignal
  <2>8. CASE Crash \/ Restart \/ \E x \in Syncs : AttemptPanics(x)
    BY <1>5, <2>8 DEF Crash, Restart, AttemptPanics
  <2> QED
    BY <2>2, <2>3, <2>4, <2>5, <2>6, <2>7, <2>8 DEF Next
<1> QED
  BY <1>1, <1>2, <1>3, <1>4, <1>5

LEMMA RestInitial == Init => RestInv
<1> SUFFICES ASSUME Init PROVE RestInv
  OBVIOUS
<1>1. ProtectionInv /\ ForeignInv /\ TaskInv
  BY ProtectionInit, ForeignInitial, TaskInitial DEF Init
<1>2. TasksThere
  BY DEF Init, ManagerInit, TasksThere
<1>3. ASSUME NEW s \in Syncs PROVE CaughtUp(s) /\ Deferred(s) /\ Attained(s)
  <2>1. rs[s] = Gone(0) /\ cache[s] = Gone(0) /\ feed[s] = <<>>
    BY DEF Init
  <2> QED
    BY <2>1 DEF CaughtUp, Deferred, Attained, Quiet, Gone
<1> QED
  BY <1>1, <1>2, <1>3 DEF RestInv

LEMMA RestNext ==
  ASSUME Staleness = 0, ~WatchExpiry, ~Panics
  PROVE  RestInv /\ [Next]_vars => RestInv'
<1> SUFFICES ASSUME RestInv, [Next]_vars PROVE RestInv'
  OBVIOUS
<1>1. TypeOK /\ TaskInv /\ TasksThere
  BY DEF RestInv, ProtectionInv
<1>2. ProtectionInv' /\ ForeignInv' /\ TaskInv'
  BY <1>1, ProtectionNext, ForeignNext, ControllerStep DEF RestInv, ControllerInv
<1>3. TasksThere'
  BY <1>1, TasksThereStep
<1>4. ASSUME NEW s \in Syncs \ Overridable
      PROVE  CaughtUp(s)' /\ Deferred(s)' /\ (Undisputed(s) => Attained(s)')
  <2>1. /\ s \in Syncs /\ SyncInv(s) /\ HistoryOutlived(s)
        /\ CaughtUp(s) /\ Deferred(s) /\ (Undisputed(s) => Attained(s))
    BY DEF RestInv, ProtectionInv, ForeignInv
  <2> QED
    BY <1>1, <2>1, CaughtUpStep, AttainedStep
<1>5. \A s \in Syncs : Undisputed(s)' <=> Undisputed(s)
  BY DEF Undisputed
<1> QED
  BY <1>2, <1>3, <1>4, <1>5 DEF RestInv

\* What has been attained when the sync is at rest.
LEMMA RestGoal ==
  ASSUME RestInv, NEW s \in Syncs \ Overridable, Undisputed(s), AtRest(s)
  PROVE  InSync(s) /\ Deleted(s)
<1>1. Attained(s) /\ CaughtUp(s) /\ Deferred(s)
  BY DEF RestInv
<1>2. cache[s] = rs[s] /\ ~Leaving(s) /\ pc[s] = "idle"
  BY <1>1 DEF AtRest, CaughtUp, Leaving
<1>3. Watched(s) => ~NewsFor(s)
  BY DEF AtRest, Watched, NewsFor, Untold, Roles, was_last_modified_by_us
<1>4. rs[s].phase # "absent" => Quiet(s)
  BY <1>2 DEF AtRest, Quiet
<1>5. InSync(s)
  <2> SUFFICES ASSUME rs[s].phase = "live"
               PROVE  /\ FINALIZER \in rs[s].fins
                      /\ UpToDate(s)
                      /\ status[s].value = "False" /\ status[s].generation = 1
    BY DEF InSync, UpToDate, Generation
  <2>1. SyncAttained(s)
    BY <1>1, <1>4 DEF Attained
  <2> QED
    BY <1>2, <1>3, <2>1 DEF SyncAttained
<1>6. Deleted(s)
  <2> SUFFICES ASSUME rs[s].phase = "deleting", rs[s].fins \subseteq {FINALIZER} PROVE FALSE
    BY DEF Deleted
  <2>1. DeletionAttained(s)
    BY <1>1, <1>4 DEF Attained
  <2>2. FINALIZER \notin rs[s].fins
    BY <1>2, <1>3, <2>1 DEF DeletionAttained
  <2>3. rs[s].fins = {}
    BY <2>2
  <2> QED
    BY <1>1, <2>3 DEF Deferred
<1> QED
  BY <1>5, <1>6

\* If no watch is told that its version has expired, no task panics and the list of a
\* new process is not behind, a sync that nobody else's target interferes with is
\* where it should be whenever it is at rest: at every length of the feeds and the
\* backlogs, with any number of faults, crashes, incarnations and other syncs.
THEOREM NothingIsForgotten ==
  ASSUME Staleness = 0, ~WatchExpiry, ~Panics
  PROVE  Spec => []NothingForgotten
<1>1. Init => RestInv
  BY RestInitial
<1>2. RestInv /\ [Next]_vars => RestInv'
  BY RestNext
<1>3. RestInv => NothingForgotten
  BY RestGoal DEF NothingForgotten
<1> QED
  BY <1>1, <1>2, <1>3, PTL DEF Spec
=============================================================================
