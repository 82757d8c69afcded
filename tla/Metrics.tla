------------------------------ MODULE Metrics ------------------------------
(***************************************************************************)
(* The reconciliation metrics (src/src/metrics.rs) under attempts that run *)
(* concurrently, fail, panic and are dropped.  The collectors are atomic   *)
(* and shared; an attempt updates them one after the other.                *)
(***************************************************************************)
EXTENDS Naturals, FiniteSets

CONSTANTS
  Attempts,   \* the instrumented futures
  Delays      \* the delays, in milliseconds, an attempt may ask to be retried after

ASSUME MetricsAssumption == IsFiniteSet(Attempts) /\ Delays \subseteq Nat

VARIABLES
  at,         \* where each attempt is
  result,     \* what its reconciler returned
  aborted,    \* the attempts dropped or unwound after their first poll
  active,     \* controller_runtime_active_workers
  total,      \* controller_runtime_reconcile_total, by result
  observed    \* the count of controller_runtime_reconcile_time_seconds

metricsVars == <<at, result, aborted, active, total, observed>>

RESULTS == {"success", "error", "requeue", "requeue_after"}

\* A reconciler returns an error, or an action: to wait for a change, or to be
\* run again after a delay.
Results == {<<"error">>, <<"await_change">>} \cup {<<"requeue", d>> : d \in Delays}
NoResult == <<"none">>

Places == {"unpolled", "running", "returned", "dropping", "releasing", "gone"}

MetricsTypeOK ==
  /\ at \in [Attempts -> Places]
  /\ result \in [Attempts -> Results \cup {NoResult}]
  /\ aborted \subseteq Attempts
  /\ active \in 0..Cardinality(Attempts)
  /\ total \in [RESULTS -> 0..Cardinality(Attempts)]
  /\ observed \in 0..Cardinality(Attempts)

\* ControllerMetrics::default: every result is exposed at zero.
MetricsInit ==
  /\ at = [a \in Attempts |-> "unpolled"]
  /\ result = [a \in Attempts |-> NoResult]
  /\ aborted = {}
  /\ active = 0
  /\ total = [r \in RESULTS |-> 0]
  /\ observed = 0

Move(a, from, to) == at[a] = from /\ at' = [at EXCEPT ![a] = to]

\* instrument, on its first poll.
FirstPoll(a) ==
  /\ Move(a, "unpolled", "running")
  /\ active' = active + 1
  /\ UNCHANGED <<result, aborted, total, observed>>

\* A future that was never polled is dropped.
DropUnpolled(a) ==
  /\ Move(a, "unpolled", "gone")
  /\ UNCHANGED <<result, aborted, active, total, observed>>

\* The reconciler is ready.
Complete(a) ==
  /\ Move(a, "running", "returned")
  /\ \E r \in Results : result' = [result EXCEPT ![a] = r]
  /\ UNCHANGED <<aborted, active, total, observed>>

\* Mutant: every action to run again counts as timed.
OutcomeWithoutZero(r) ==
  CASE r[1] = "error" -> "error" [] r[1] = "await_change" -> "success" [] r[1] = "requeue" -> "requeue_after"

Outcome(r) ==
  CASE r[1] = "error" -> "error"
    [] r[1] = "await_change" -> "success"
    [] r[1] = "requeue" -> IF r[2] = 0 THEN "requeue" ELSE "requeue_after"

\* The result is classified and counted; then the guard is dropped.
Count(a) ==
  /\ Move(a, "returned", "dropping")
  /\ total' = [total EXCEPT ![Outcome(result[a])] = @ + 1]
  /\ UNCHANGED <<result, aborted, active, observed>>

\* Mutant: without a guard, only what is reached after the await is cleaned up.
AbortWithoutGuard(a) ==
  /\ Move(a, "running", "gone")
  /\ aborted' = aborted \cup {a}
  /\ UNCHANGED <<result, active, total, observed>>

\* The future is dropped at an await, or unwinds: only the guard is dropped.
Abort(a) ==
  /\ Move(a, "running", "dropping")
  /\ aborted' = aborted \cup {a}
  /\ UNCHANGED <<result, active, total, observed>>

\* Mutants: the guard releases the worker first; it is dropped again and again; it
\* forgets dec().
DropReleasingFirst(a) ==
  \/ /\ Move(a, "dropping", "releasing")
     /\ active' = active - 1
     /\ UNCHANGED <<result, aborted, total, observed>>
  \/ /\ Move(a, "releasing", "gone")
     /\ observed' = observed + 1
     /\ UNCHANGED <<result, aborted, active, total>>

DropTwice(a) ==
  \/ /\ Move(a, "dropping", "releasing")
     /\ observed' = observed + 1
     /\ UNCHANGED <<result, aborted, active, total>>
  \/ /\ Move(a, "releasing", "dropping")
     /\ active' = active - 1
     /\ UNCHANGED <<result, aborted, total, observed>>

DropWithoutDec(a) ==
  \/ /\ Move(a, "dropping", "releasing")
     /\ observed' = observed + 1
     /\ UNCHANGED <<result, aborted, active, total>>
  \/ /\ Move(a, "releasing", "gone")
     /\ UNCHANGED <<result, aborted, active, total, observed>>

\* ReconcileAttempt::drop.
DropGuard(a) ==
  \/ /\ Move(a, "dropping", "releasing")
     /\ observed' = observed + 1
     /\ UNCHANGED <<result, aborted, active, total>>
  \/ /\ Move(a, "releasing", "gone")
     /\ active' = active - 1
     /\ UNCHANGED <<result, aborted, total, observed>>

MetricsNext ==
  \E a \in Attempts : \/ FirstPoll(a) \/ DropUnpolled(a) \/ Complete(a) \/ Count(a)
                      \/ Abort(a) \/ DropGuard(a)

\* A future that is being polled goes on; nobody has to poll it or to drop it.
MetricsFairness ==
  \A a \in Attempts : WF_metricsVars(Complete(a) \/ Count(a) \/ DropGuard(a))

MetricsSpec == MetricsInit /\ [][MetricsNext]_metricsVars /\ MetricsFairness

(***************************************************************************)
(* Properties.                                                             *)
(***************************************************************************)

Counted == total["success"] + total["error"] + total["requeue"] + total["requeue_after"]

\* Whenever a scrape may look, a result that has been counted is either observed
\* or still a worker's: the durations never lag behind the results unnoticed.
ResultsCovered == Counted <= observed + active

\* "Observations can exceed their sum because canceled and unwound attempts
\* contribute elapsed time without an outcome": between attempts by exactly those,
\* and no worker is left over.
BalancedAtRest ==
  (\A a \in Attempts : at[a] \in {"unpolled", "gone"}) =>
    active = 0 /\ observed = Counted + Cardinality(aborted)

\* "Each guard balances one worker increment": when no further attempt begins, the
\* gauge of active workers comes back to zero and stays there, however the attempts
\* that began have ended.
WorkersReleased == <>[](active = 0)

(***************************************************************************)
(* The cases of completed_attempt_preserves_result_and_records_one_outcome *)
(* and mixed_outcomes_accumulate..., with delays in nanoseconds.           *)
(***************************************************************************)

completed_attempt ==
  {<<<<"await_change">>, "success">>, <<<<"error">>, "error">>, <<<<"requeue", 0>>, "requeue">>,
   <<<<"requeue", 1>>, "requeue_after">>, <<<<"requeue", 500000000>>, "requeue_after">>}

\* At the start the model classifies as the tests expect of the code.
OutcomesAsTested == observed = 0 => \A c \in completed_attempt : Outcome(c[1]) = c[2]
=============================================================================
