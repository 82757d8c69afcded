--------------------------- MODULE MetricsProofs ---------------------------
(***************************************************************************)
(* What the collectors of Metrics count, for any number of concurrent      *)
(* attempts and any delays.                                                *)
(*                                                                         *)
(* The collectors are numbers; what they promise is about attempts.  The   *)
(* invariant says which attempts each number is the number of, and then    *)
(* the promises are facts about those sets.                                *)
(***************************************************************************)
EXTENDS Metrics, FiniteSetTheorems, TLAPS

USE MetricsAssumption

\* The attempts that are a worker, those whose result is counted, and those whose
\* duration is observed.
Working == {a \in Attempts : at[a] \in {"running", "returned", "dropping", "releasing"}}
CountedOnes == {a \in Attempts : result[a] # NoResult /\ at[a] # "returned"}
ObservedOnes ==
  {a \in Attempts : \/ at[a] = "releasing"
                    \/ at[a] = "gone" /\ (result[a] # NoResult \/ a \in aborted)}

\* An attempt returns a result or is aborted, never both, and one whose guard is
\* being dropped has done one of the two.
OneEnd ==
  \A a \in Attempts :
    /\ at[a] \in {"unpolled", "running"} => result[a] = NoResult /\ a \notin aborted
    /\ at[a] = "returned" => result[a] # NoResult
    /\ at[a] \in {"dropping", "releasing"} => result[a] # NoResult \/ a \in aborted
    /\ a \in aborted => result[a] = NoResult

\* The collectors are numbers of attempts.
Numbers ==
  /\ active = Cardinality(Working)
  /\ total \in [RESULTS -> Nat]
  /\ Counted = Cardinality(CountedOnes)
  /\ observed = Cardinality(ObservedOnes)

PlacesOK ==
  /\ at \in [Attempts -> Places]
  /\ result \in [Attempts -> Results \cup {NoResult}]
  /\ aborted \subseteq Attempts

MetricsInv == PlacesOK /\ OneEnd /\ Numbers

(***************************************************************************)
(* Results and sets.                                                       *)
(***************************************************************************)

\* Every result has its counter, and none of them passes for no result.
LEMMA ResultFacts ==
  ASSUME NEW r \in Results
  PROVE  r # NoResult /\ Outcome(r) \in RESULTS
<1>1. CASE r = <<"error">> \/ r = <<"await_change">>
  BY <1>1 DEF NoResult, Outcome, RESULTS
<1>2. CASE \E d \in Delays : r = <<"requeue", d>>
  BY <1>2 DEF NoResult, Outcome, RESULTS
<1> QED
  BY <1>1, <1>2 DEF Results

\* The sets of attempts are finite.
LEMMA Finite ==
  ASSUME NEW S \in SUBSET Attempts
  PROVE  /\ IsFiniteSet(S)
         /\ Cardinality(S) \in Nat
         /\ Cardinality(S) <= Cardinality(Attempts)
         /\ \A a \in Attempts \ S : Cardinality(S \cup {a}) = Cardinality(S) + 1
         /\ \A a \in S : Cardinality(S \ {a}) = Cardinality(S) - 1
<1>1. IsFiniteSet(S) /\ Cardinality(S) <= Cardinality(Attempts)
  BY FS_Subset
<1>2. \A a \in Attempts \ S : Cardinality(S \cup {a}) = Cardinality(S) + 1
  BY <1>1, FS_AddElement
<1>3. \A a \in S : Cardinality(S \ {a}) = Cardinality(S) - 1
  BY <1>1, FS_RemoveElement
<1> QED
  BY <1>1, <1>2, <1>3, FS_CardinalityType

\* No attempt passes for another collector's: they are sets of attempts.
LEMMA SetTypes == Working \subseteq Attempts /\ CountedOnes \subseteq Attempts /\ ObservedOnes \subseteq Attempts
BY DEF Working, CountedOnes, ObservedOnes

(***************************************************************************)
(* The steps.                                                              *)
(***************************************************************************)

LEMMA MetricsInitial == MetricsInit => MetricsInv
<1> SUFFICES ASSUME MetricsInit PROVE MetricsInv
  OBVIOUS
<1>1. PlacesOK /\ OneEnd
  BY DEF MetricsInit, PlacesOK, OneEnd, Places
<1>2. Working = {} /\ CountedOnes = {} /\ ObservedOnes = {}
  BY DEF MetricsInit, Working, CountedOnes, ObservedOnes
<1>3. total \in [RESULTS -> Nat] /\ Counted = 0
  BY DEF MetricsInit, Counted, RESULTS
<1> QED
  BY <1>1, <1>2, <1>3, FS_EmptySet DEF MetricsInit, MetricsInv, Numbers

\* An attempt is polled for the first time: one more worker.
LEMMA FirstPollStep ==
  ASSUME MetricsInv, NEW a \in Attempts, FirstPoll(a)
  PROVE  MetricsInv'
<1> USE DEF MetricsInv, PlacesOK
<1>1. PlacesOK' /\ OneEnd'
  BY DEF FirstPoll, Move, OneEnd, Places
<1>2. Working' = Working \cup {a} /\ a \notin Working
  BY DEF FirstPoll, Move, Working
<1>3. CountedOnes' = CountedOnes /\ ObservedOnes' = ObservedOnes
  BY DEF FirstPoll, Move, CountedOnes, ObservedOnes, OneEnd
<1>4. Cardinality(Working') = Cardinality(Working) + 1
  BY <1>2, Finite, SetTypes
<1> QED
  BY <1>1, <1>3, <1>4 DEF FirstPoll, Numbers, Counted

\* A future is dropped unpolled, or its reconciler returns: no collector moves.
LEMMA QuietSteps ==
  ASSUME MetricsInv, NEW a \in Attempts, DropUnpolled(a) \/ Complete(a) \/ Abort(a)
  PROVE  MetricsInv'
<1> USE DEF MetricsInv, PlacesOK
<1>1. CASE DropUnpolled(a)
  <2>1. PlacesOK' /\ OneEnd'
    BY <1>1 DEF DropUnpolled, Move, OneEnd, Places
  <2>2. Working' = Working /\ CountedOnes' = CountedOnes /\ ObservedOnes' = ObservedOnes
    BY <1>1 DEF DropUnpolled, Move, Working, CountedOnes, ObservedOnes, OneEnd
  <2> QED
    BY <1>1, <2>1, <2>2 DEF DropUnpolled, Numbers, Counted
<1>2. CASE Complete(a)
  <2>0. PICK r \in Results : result' = [result EXCEPT ![a] = r]
    BY <1>2 DEF Complete
  <2>1. PlacesOK' /\ OneEnd'
    BY <1>2, <2>0, ResultFacts DEF Complete, Move, OneEnd, Places
  <2>2. Working' = Working /\ CountedOnes' = CountedOnes /\ ObservedOnes' = ObservedOnes
    BY <1>2, <2>0 DEF Complete, Move, Working, CountedOnes, ObservedOnes, OneEnd
  <2> QED
    BY <1>2, <2>1, <2>2 DEF Complete, Numbers, Counted
<1>3. CASE Abort(a)
  <2>1. PlacesOK' /\ OneEnd'
    BY <1>3 DEF Abort, Move, OneEnd, Places
  <2>2. Working' = Working /\ CountedOnes' = CountedOnes /\ ObservedOnes' = ObservedOnes
    BY <1>3 DEF Abort, Move, Working, CountedOnes, ObservedOnes, OneEnd
  <2> QED
    BY <1>3, <2>1, <2>2 DEF Abort, Numbers, Counted
<1> QED
  BY <1>1, <1>2, <1>3

\* One counter goes up by one, and so does their sum.
LEMMA CountStep ==
  ASSUME MetricsInv, NEW a \in Attempts, Count(a)
  PROVE  MetricsInv'
<1> USE DEF MetricsInv, PlacesOK
<1>1. at[a] = "returned" /\ result[a] # NoResult /\ Outcome(result[a]) \in RESULTS
  BY ResultFacts DEF Count, Move, OneEnd
<1>2. PlacesOK' /\ OneEnd'
  BY DEF Count, Move, OneEnd, Places
<1>3. CountedOnes' = CountedOnes \cup {a} /\ a \notin CountedOnes
  BY <1>1 DEF Count, Move, CountedOnes
<1>4. Working' = Working /\ ObservedOnes' = ObservedOnes
  BY DEF Count, Move, Working, ObservedOnes
<1>5. total' \in [RESULTS -> Nat] /\ Counted' = Counted + 1
  BY <1>1 DEF Count, Counted, Numbers, RESULTS
<1>6. Cardinality(CountedOnes') = Cardinality(CountedOnes) + 1
  BY <1>3, Finite, SetTypes
<1> QED
  BY <1>2, <1>4, <1>5, <1>6 DEF Count, Numbers

\* The guard: the duration is observed, then the worker is released.
LEMMA DropGuardStep ==
  ASSUME MetricsInv, NEW a \in Attempts, DropGuard(a)
  PROVE  MetricsInv'
<1> USE DEF MetricsInv, PlacesOK
<1>1. PlacesOK' /\ OneEnd'
  BY DEF DropGuard, Move, OneEnd, Places
<1>2. CountedOnes' = CountedOnes /\ Counted' = Counted
  BY DEF DropGuard, Move, CountedOnes, Counted
<1>3. CASE at[a] = "dropping"
  <2>1. ObservedOnes' = ObservedOnes \cup {a} /\ a \notin ObservedOnes /\ Working' = Working
    BY <1>3 DEF DropGuard, Move, ObservedOnes, Working
  <2>2. Cardinality(ObservedOnes') = Cardinality(ObservedOnes) + 1
    BY <2>1, Finite, SetTypes
  <2> QED
    BY <1>1, <1>2, <1>3, <2>1, <2>2 DEF DropGuard, Move, Numbers
<1>4. CASE at[a] = "releasing"
  <2>1. Working' = Working \ {a} /\ a \in Working /\ ObservedOnes' = ObservedOnes
    BY <1>4 DEF DropGuard, Move, ObservedOnes, Working, OneEnd
  <2>2. Cardinality(Working') = Cardinality(Working) - 1
    BY <2>1, Finite, SetTypes
  <2> QED
    BY <1>1, <1>2, <1>4, <2>1, <2>2 DEF DropGuard, Move, Numbers
<1> QED
  BY <1>3, <1>4 DEF DropGuard, Move

LEMMA MetricsStep == MetricsInv /\ [MetricsNext]_metricsVars => MetricsInv'
<1> SUFFICES ASSUME MetricsInv, [MetricsNext]_metricsVars PROVE MetricsInv'
  OBVIOUS
<1>1. CASE UNCHANGED metricsVars
  BY <1>1 DEF metricsVars, MetricsInv, PlacesOK, OneEnd, Numbers, Counted, Working,
              CountedOnes, ObservedOnes
<1>2. CASE MetricsNext
  BY <1>2, FirstPollStep, QuietSteps, CountStep, DropGuardStep DEF MetricsNext
<1> QED
  BY <1>1, <1>2

(***************************************************************************)
(* The theorems.                                                           *)
(***************************************************************************)

\* The gauge, the counters and the histogram stay between zero and the number of
\* attempts: ReconcileAttempt::drop never takes active_workers below zero.
THEOREM MetricsTypeCorrect == MetricsSpec => []MetricsTypeOK
<1>1. ASSUME MetricsInv PROVE MetricsTypeOK
  <2>1. /\ active \in 0..Cardinality(Attempts) /\ observed \in 0..Cardinality(Attempts)
        /\ Counted \in 0..Cardinality(Attempts)
    BY <1>1, Finite, SetTypes DEF MetricsInv, Numbers
  <2>2. total \in [RESULTS -> Nat] /\ Cardinality(Attempts) \in Nat
    BY <1>1, FS_CardinalityType DEF MetricsInv, Numbers
  <2>3. \A r \in RESULTS : total[r] \in 0..Cardinality(Attempts)
    BY <2>1, <2>2 DEF Counted, RESULTS
  <2> QED
    BY <1>1, <2>1, <2>2, <2>3 DEF MetricsInv, PlacesOK, MetricsTypeOK
<1> QED
  BY <1>1, MetricsInitial, MetricsStep, PTL DEF MetricsSpec

\* Whenever a scrape may look, between any two updates of any attempts: results that
\* are counted are observed or still have their worker.
THEOREM NoResultUnnoticed == MetricsSpec => []ResultsCovered
<1>1. ASSUME MetricsInv PROVE ResultsCovered
  <2>1. CountedOnes \subseteq ObservedOnes \cup Working
    BY <1>1 DEF MetricsInv, PlacesOK, OneEnd, Places, CountedOnes, ObservedOnes, Working
  <2>2. /\ IsFiniteSet(ObservedOnes) /\ IsFiniteSet(Working) /\ IsFiniteSet(ObservedOnes \cap Working)
        /\ Cardinality(ObservedOnes) \in Nat /\ Cardinality(Working) \in Nat
        /\ Cardinality(ObservedOnes \cap Working) \in Nat /\ Cardinality(CountedOnes) \in Nat
    BY Finite, SetTypes
  <2>3. /\ IsFiniteSet(ObservedOnes \cup Working)
        /\ Cardinality(ObservedOnes \cup Working) =
             Cardinality(ObservedOnes) + Cardinality(Working) - Cardinality(ObservedOnes \cap Working)
    BY <2>2, FS_Union
  <2>4. Cardinality(CountedOnes) <= Cardinality(ObservedOnes \cup Working)
    BY <2>1, <2>3, FS_Subset
  <2> QED
    BY <1>1, <2>2, <2>3, <2>4 DEF MetricsInv, Numbers, ResultsCovered
<1> QED
  BY <1>1, MetricsInitial, MetricsStep, PTL DEF MetricsSpec

\* When no attempt is under way, no worker is left over, and the observations exceed
\* the results by exactly the attempts that were dropped or unwound.
THEOREM BooksBalance == MetricsSpec => []BalancedAtRest
<1>1. ASSUME MetricsInv PROVE BalancedAtRest
  <2> SUFFICES ASSUME \A a \in Attempts : at[a] \in {"unpolled", "gone"}
               PROVE  active = 0 /\ observed = Counted + Cardinality(aborted)
    BY DEF BalancedAtRest
  <2>1. Working = {}
    BY DEF Working
  <2>2. ObservedOnes = CountedOnes \cup aborted /\ CountedOnes \cap aborted = {} /\ aborted \subseteq Attempts
    BY <1>1 DEF MetricsInv, PlacesOK, OneEnd, ObservedOnes, CountedOnes
  <2>3. /\ IsFiniteSet(CountedOnes) /\ IsFiniteSet(aborted)
        /\ Cardinality(CountedOnes) \in Nat /\ Cardinality(aborted) \in Nat
    BY <2>2, Finite, SetTypes
  <2>4. Cardinality(ObservedOnes) = Cardinality(CountedOnes) + Cardinality(aborted)
    BY <2>2, <2>3, FS_Union, FS_EmptySet
  <2> QED
    BY <1>1, <2>1, <2>4, FS_EmptySet DEF MetricsInv, Numbers
<1> QED
  BY <1>1, MetricsInitial, MetricsStep, PTL DEF MetricsSpec
=============================================================================
