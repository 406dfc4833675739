---------------------------- MODULE Daemon_proofs ----------------------------
(***************************************************************************)
(* Proofs about Daemon, for every set of schedules and every bound on the  *)
(* requests.  The invariant is inductive as a whole: that a schedule has a *)
(* single run follows only together with who owns its flag.                *)
(***************************************************************************)
EXTENDS Daemon, TLAPS

IInv == TypeOK /\ SingleRun /\ FlagOwned /\ TeardownAfterDrain

\* Every run of a schedule starts by taking the flag and ends by clearing it,
\* so no step of any task leaves two runs, or a flag without its run.
LEMMA Inductive == Spec => []IInv
<1>1. Init => IInv
  BY MaxRequestsAssumption
     DEF Init, IInv, TypeOK, SingleRun, FlagOwned, TeardownAfterDrain, Phases,
         NextWait
<1>2. IInv /\ [Next]_vars => IInv'
  <2> SUFFICES ASSUME IInv, [Next]_vars PROVE IInv'
    OBVIOUS
  <2> USE MaxRequestsAssumption
      DEF IInv, TypeOK, SingleRun, FlagOwned, TeardownAfterDrain, Phases, tasks
  <2>1. ASSUME NEW s \in Schedules, Wake(s) PROVE IInv'
    BY <2>1 DEF Wake
  <2>2. ASSUME NEW s \in Schedules, Tick(s) PROVE IInv'
    <3>1. CASE Skip(s)
      BY <2>2, <3>1 DEF Tick, Skip, NextWait
    <3>2. CASE Fire(s)
      BY <2>2, <3>2 DEF Tick, Fire, NextWait
    <3> QED
      BY <2>2, <3>1, <3>2 DEF Tick
  <2>3. ASSUME NEW s \in Schedules, RunReturns(s) PROVE IInv'
    BY <2>3 DEF RunReturns
  <2>4. ASSUME NEW s \in Schedules, RunEnds(s) PROVE IInv'
    BY <2>4 DEF RunEnds
  <2>5. CASE Accept \/ Respond
    BY <2>5 DEF Accept, Respond
  <2>6. CASE Bind \/ Signal \/ Drained \/ CloseMcp
    BY <2>6 DEF Bind, Signal, Drained, CloseMcp
  <2>7. CASE BindFails \/ Stop
    <3>1. Exit
      BY <2>7 DEF BindFails, Stop
    <3>2. TypeOK'
      BY <3>1 DEF Exit
    <3>3. \A s \in Schedules :
            ~flag'[s] /\ executing'[s] = 0 /\ returned'[s] = 0
      BY <3>1, Zenon DEF Exit
    <3>4. SingleRun' /\ FlagOwned' /\ TeardownAfterDrain'
      BY <3>1, <3>3 DEF Exit
    <3> QED
      BY <3>2, <3>4
  <2>8. ASSUME NEW s \in Schedules, AbortLoop(s) PROVE IInv'
    BY <2>8 DEF AbortLoop
  <2>9. CASE UNCHANGED vars
    BY <2>9 DEF vars
  <2> QED
    BY <2>1, <2>2, <2>3, <2>4, <2>5, <2>6, <2>7, <2>8, <2>9 DEF Next, Main
<1> QED
  BY <1>1, <1>2, PTL DEF Spec

\* The daemon's state keeps its types (main.rs, scheduler.rs).
THEOREM DaemonTypeCorrect == Spec => []TypeOK
BY Inductive, PTL DEF IInv

\* Skip-on-overlap (scheduler.rs:140-160): a schedule has at most one run in
\* flight, for any number of schedules.
THEOREM NoOverlap == Spec => []SingleRun
BY Inductive, PTL DEF IInv

\* A schedule's flag is taken exactly while its run is in flight.
THEOREM FlagTracksRun == Spec => []FlagOwned
BY Inductive, PTL DEF IInv

\* No request is in flight once the teardown begins (main.rs:75-87).
THEOREM DrainComesFirst == Spec => []TeardownAfterDrain
BY Inductive, PTL DEF IInv
=============================================================================
