-------------------------- MODULE InstancesProofs ---------------------------
(***************************************************************************)
(* Proofs about Instances, for any number of instances.                    *)
(***************************************************************************)
EXTENDS Instances, FiniteSetTheorems, TLAPS

\* The instances whose thread has not counted itself down.
Uncounted == {i \in Instances : stage[i] # "over"}

\* main() joins the threads in their order.
JoinedAreOver == \A i \in 1 .. joined : stage[i] = "over"

\* The stats thread's end and main()'s way past the joins are tied to the threads
\* by the countdown and by the number joined.
IInv ==
  /\ TypeOK
  /\ countdown = Cardinality(Uncounted)
  /\ stats = "over" => CountZero
  /\ JoinedAreOver
  /\ main # "joining" => joined = N /\ stats \in {"none", "over"}

-----------------------------------------------------------------------------

\* There are finitely many instances, and so are those that have not counted.
LEMMA UncountedFinite == IsFiniteSet(Uncounted) /\ Cardinality(Uncounted) <= N
  <1>1. IsFiniteSet(Instances) /\ Cardinality(Instances) = N
    BY FS_Interval, NAssumption DEF Instances
  <1>2. Uncounted \in SUBSET Instances
    BY DEF Uncounted
  <1> QED BY <1>1, <1>2, FS_Subset

\* A countdown of zero means that every thread is over.
LEMMA ZeroIsAll ==
  ASSUME countdown = Cardinality(Uncounted), CountZero
  PROVE  \A i \in Instances : stage[i] = "over"
  <1>1. Uncounted = {}
    BY UncountedFinite, FS_EmptySet DEF CountZero
  <1> QED BY <1>1 DEF Uncounted

\* All threads have yet to count down when they have been started.
LEMMA InitIInv == Init => IInv
  <1> SUFFICES ASSUME Init PROVE IInv
    OBVIOUS
  <1> USE DEF Init
  <1>1. Uncounted = 1 .. N
    BY DEF Uncounted, Instances
  <1>2. countdown = Cardinality(Uncounted)
    BY <1>1, FS_Interval, NAssumption
  <1>3. TypeOK
    <2>1. joined \in 0 .. N /\ countdown \in 0 .. N /\ signals \in 0 .. MaxSignals
      BY NAssumption, MaxSignalsAssumption
    <2>2. stage \in [Instances -> {"hatching", "starting", "running", "ended", "over"}]
      OBVIOUS
    <2>3. stop \in [Instances -> BOOLEAN]
      OBVIOUS
    <2> QED BY <2>1, <2>2, <2>3 DEF TypeOK
  <1>4. JoinedAreOver
    BY DEF JoinedAreOver
  <1> QED BY <1>2, <1>3, <1>4 DEF IInv

-----------------------------------------------------------------------------
(* Steps of an instance's thread. *)

\* A thread that moves on without counting down leaves every part as it was.
LEMMA MovesIInv ==
  ASSUME IInv, NEW i \in Instances, NEW from \in {"hatching", "starting", "running"},
         NEW to \in {"starting", "running", "ended"}, Moves(i, from, to),
         UNCHANGED <<kind, stop, countdown, stats, serverVars, mainVars, killed, signals>>
  PROVE  IInv'
  <1> USE DEF IInv, Moves, serverVars, mainVars
  <1>1. TypeOK'
    BY DEF TypeOK
  <1>2. Uncounted' = Uncounted
    BY DEF TypeOK, Uncounted
  <1>3. JoinedAreOver'
    BY DEF TypeOK, JoinedAreOver
  <1> QED BY <1>1, <1>2, <1>3 DEF CountZero

\* The end of the thread takes one from the countdown and one instance from those
\* it counts, under stats_mut (main.cpp:313-316).
LEMMA CountsDownIInv ==
  ASSUME IInv, NEW i \in Instances, CountsDown(i)
  PROVE  IInv'
  <1> USE DEF IInv, CountsDown, Moves, serverVars, mainVars
  <1>1. i \in Uncounted /\ Uncounted' = Uncounted \ {i}
    BY DEF TypeOK, Uncounted
  <1>2. Cardinality(Uncounted') = Cardinality(Uncounted) - 1
    BY <1>1, UncountedFinite, FS_RemoveElement
  <1>3. countdown' = Cardinality(Uncounted')
    BY <1>2
  <1>4. ~CountZero
    BY <1>1, UncountedFinite, FS_EmptySet DEF CountZero
  <1>5. TypeOK'
    <2>1. countdown' \in 0 .. N
      BY <1>4, NAssumption DEF TypeOK, CountZero
    <2> QED BY <2>1 DEF TypeOK
  <1>6. JoinedAreOver'
    BY DEF TypeOK, JoinedAreOver
  <1> QED BY <1>3, <1>4, <1>5, <1>6

-----------------------------------------------------------------------------

\* Every step keeps the inductive invariant.
LEMMA NextIInv == IInv /\ [Next]_vars => IInv'
  <1> SUFFICES ASSUME IInv, [Next]_vars PROVE IInv'
    OBVIOUS
  <1> USE DEF IInv
  <1>1. ASSUME NEW i \in Instances, Hatches(i) \/ SetsUp(i) \/ RunReturns(i) PROVE IInv'
    BY <1>1, MovesIInv DEF Hatches, SetsUp, SetUpFails, StartsRunning, RunReturns
  <1>2. ASSUME NEW i \in Instances, RunThrows(i) PROVE IInv'
    BY <1>2 DEF RunThrows, instanceVars, serverVars, mainVars, TypeOK, Uncounted,
                JoinedAreOver, CountZero
  <1>3. ASSUME NEW i \in Instances, CountsDown(i) PROVE IInv'
    BY <1>3, CountsDownIInv
  <1>4. ASSUME StatsWaits \/ StatsWrites PROVE IInv'
    <2> USE <1>4 DEF StatsWaits, StatsWrites, instanceVars, serverVars, mainVars
    <2>1. TypeOK' /\ JoinedAreOver' /\ Uncounted' = Uncounted
      BY DEF TypeOK, JoinedAreOver, Uncounted
    <2>2. stats' = "over" => CountZero'
      BY DEF CountZero
    <2>3. main' # "joining" => stats' \in {"none", "over"}
      OBVIOUS
    <2> QED BY <2>1, <2>2, <2>3
  <1>5. ASSUME HttpServes \/ HttpEnds PROVE IInv'
    BY <1>5 DEF HttpServes, HttpEnds, instanceVars, mainVars, TypeOK, Uncounted,
                JoinedAreOver, CountZero
  <1>6. ASSUME Joins PROVE IInv'
    <2> USE <1>6 DEF Joins, instanceVars, serverVars
    <2>1. TypeOK' /\ Uncounted' = Uncounted
      BY NAssumption DEF TypeOK, Uncounted
    <2>2. JoinedAreOver'
      BY NAssumption DEF TypeOK, JoinedAreOver
    <2> QED BY <2>1, <2>2 DEF CountZero
  <1>7. ASSUME JoinsStats \/ StopsHttp \/ Returns PROVE IInv'
    BY <1>7 DEF JoinsStats, StopsHttp, Returns, instanceVars, serverVars, TypeOK, Uncounted,
                JoinedAreOver, CountZero
  <1>8. ASSUME Signal PROVE IInv'
    <2> USE <1>8 DEF Signal, serverVars, mainVars
    <2>1. TypeOK'
      BY MaxSignalsAssumption DEF TypeOK
    <2> QED BY <2>1 DEF Uncounted, JoinedAreOver, CountZero
  <1>9. ASSUME UNCHANGED vars PROVE IInv'
    BY <1>9 DEF vars, instanceVars, serverVars, mainVars, TypeOK, Uncounted,
                JoinedAreOver, CountZero
  <1> QED BY <1>1, <1>2, <1>3, <1>4, <1>5, <1>6, <1>7, <1>8, <1>9 DEF Next

\* The inductive invariant holds in every reachable state.
THEOREM Inductive == Spec => []IInv
  BY InitIInv, NextIInv, PTL DEF Spec, Safety

-----------------------------------------------------------------------------

\* Every variable has its type; the countdown is never below zero.
THEOREM TypeCorrectness == Spec => []TypeOK
  <1>1. IInv => TypeOK
    BY DEF IInv
  <1> QED BY <1>1, Inductive, PTL

\* The statistics of the last instance are written until its thread has counted down
\* (main.cpp:250-255).
THEOREM StatisticsLast == Spec => []StatsLast
  <1>1. IInv => StatsLast
    BY ZeroIsAll DEF IInv, StatsLast
  <1> QED BY <1>1, Inductive, PTL

\* main() leaves the scope of what its threads refer to when they have ended
\* (main.cpp:319-324).
THEOREM NothingIsLeftBehind == Spec => []NothingLeftBehind
  <1>1. IInv => NothingLeftBehind
    BY DEF IInv, NothingLeftBehind, JoinedAreOver, Instances
  <1> QED BY <1>1, Inductive, PTL
=============================================================================
