---------------------------- MODULE TargetLease ----------------------------
(***************************************************************************)
(* What the controller promises about the life of its targets, without     *)
(* caches, attempts, tasks and processes: an incarnation of a sync takes a *)
(* lease (the finalizer), applies its target only under the lease, keeps   *)
(* the lease until it is being deleted and gives it up only when nothing   *)
(* that it applied is left.                                                *)
(***************************************************************************)
EXTENDS Naturals

CONSTANTS Holders, Objects, TargetOf, MaxUid

VARIABLES
  stage,        \* where the present incarnation of a sync is
  incarnation,  \* its uid
  owner         \* the incarnation that applied an object

leaseVars == <<stage, incarnation, owner>>

\* "open" and "held": live, without and with the lease; "closing" and "closed":
\* being deleted, with and without it.
Stages == {"none", "open", "held", "closing", "closed"}
Nobody == <<"nobody", 0>>

LeaseInit ==
  /\ stage = [s \in Holders |-> "none"]
  /\ incarnation = [s \in Holders |-> 0]
  /\ owner = [o \in Objects |-> Nobody]

Becomes(s, next) == stage' = [stage EXCEPT ![s] = next]

\* A new incarnation, which the previous one has left nothing to look after.
Open(s) ==
  /\ stage[s] = "none"
  /\ incarnation[s] < MaxUid
  /\ Becomes(s, "open")
  /\ incarnation' = [incarnation EXCEPT ![s] = @ + 1]
  /\ UNCHANGED owner

Acquire(s) ==
  /\ stage[s] = "open"
  /\ Becomes(s, "held")
  /\ UNCHANGED <<incarnation, owner>>

\* The user deletes the sync.
Close(s) ==
  /\ \/ stage[s] = "held" /\ Becomes(s, "closing")
     \/ stage[s] = "open" /\ \E next \in {"closed", "none"} : Becomes(s, next)
  /\ UNCHANGED <<incarnation, owner>>

Release(s) ==
  /\ stage[s] = "closing"
  /\ owner[TargetOf[s]] # <<s, incarnation[s]>>
  /\ \E next \in {"closed", "none"} : Becomes(s, next)
  /\ UNCHANGED <<incarnation, owner>>

\* Others let go of the sync too.
Remove(s) ==
  /\ stage[s] = "closed"
  /\ Becomes(s, "none")
  /\ UNCHANGED <<incarnation, owner>>

ApplyLeased(s) ==
  /\ stage[s] \in {"held", "closing"}
  /\ owner' = [owner EXCEPT ![TargetOf[s]] = <<s, incarnation[s]>>]
  /\ UNCHANGED <<stage, incarnation>>

\* An object goes away, or is taken over by somebody who is not a holder.
Disown(o) ==
  /\ owner' = [owner EXCEPT ![o] = Nobody]
  /\ UNCHANGED <<stage, incarnation>>

LeaseNext ==
  \/ \E s \in Holders : Open(s) \/ Acquire(s) \/ Close(s) \/ Release(s) \/ Remove(s) \/ ApplyLeased(s)
  \/ \E o \in Objects : Disown(o)

LeaseSpec == LeaseInit /\ [][LeaseNext]_leaseVars
=============================================================================
