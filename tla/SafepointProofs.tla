-------------------------- MODULE SafepointProofs ---------------------------
(***************************************************************************)
(* Inv of Safepoint is inductive, and what follows from it: the safety     *)
(* properties and the refinement of StopTheWorld, for any finite set of    *)
(* threads.                                                                *)
(***************************************************************************)
EXTENDS SafepointThreads, SafepointStopper

USE DEF Goto, barrier, loop, life, Phase, Before, Visited, Held, Free, LoopPc,
    GonePc, Scope, MutatorPc, OwnerPc, StopPc, ResumePc, WakeupPc

\* execute_on_main starts in a state of the invariant.
LEMMA InitInv == Init => Inv
<1> SUFFICES ASSUME Init PROVE Inv
  OBVIOUS
<1>0. TypeOK
  BY ThreadAssumption, Zenon DEF Init, TypeOK, PcLabel, ThreadState
<1>1. LockInv
  BY <1>0, ThreadAssumption DEF Init, TypeOK, LockInv
<1>2. ThreadInv /\ SpawnInv
  BY ThreadAssumption DEF Init, ThreadInv, SpawnInv
<1>3. StopInv /\ CountInv
  BY ThreadAssumption, CountEmpty DEF Init, StopInv, CountInv
<1> QED BY <1>0, <1>1, <1>2, <1>3 DEF Inv

\* The invariant speaks of the variables only.
LEMMA StutterPreserves == Inv /\ UNCHANGED vars => Inv'
<1> SUFFICES ASSUME Inv, UNCHANGED vars PROVE Inv'
  OBVIOUS
<1>1. TypeOK'
  BY SMTT(60) DEF Inv, TypeOK, vars
<1>2. LockInv' /\ ThreadInv' /\ SpawnInv'
  BY ZenonT(30) DEF Inv, LockInv, ThreadInv, SpawnInv, vars
<1>3. StopInv'
  BY Zenon DEF Inv, StopInv, vars
<1>4. CountInv'
  BY Zenon DEF Inv, CountInv, vars
<1> QED BY <1>1, <1>2, <1>3, <1>4 DEF Inv

\* Every step of every thread preserves the invariant.
LEMMA NextPreserves == Inv /\ [Next]_vars => Inv'
<1> SUFFICES ASSUME Inv, [Next]_vars PROVE Inv'
  OBVIOUS
<1>1. ASSUME NEW t \in Thread, Program(t) \/ Poll(t) PROVE Inv'
  BY <1>1, ParkForScopePreserves, SpawnThreadPreserves, JoinThreadPreserves,
     PollPreserves DEF Program
<1>2. ASSUME NEW t \in Thread, Barrier(t) PROVE Inv'
  BY SMTT(60), <1>2, ParkSlowPreserves, NotifyParkPreserves, UnparkPreserves,
     WaitInUnparkPreserves, SafepointSlowPreserves, ArrivePreserves,
     WaitInSafepointPreserves DEF Barrier
<1>3. ASSUME NEW t \in Thread, Lifecycle(t) PROVE Inv'
  BY SMTT(60), <1>3, NativePreserves, AddThreadPreserves, StartThreadPreserves,
     JoinPreserves, RemoveThreadPreserves, StopPreserves, JoinAllPreserves
     DEF Lifecycle
<1>4. ASSUME NEW t \in Thread, Stopper(t) PROVE Inv'
  BY SMTT(60), <1>4, LockThreadsPreserves, ArmPreserves, SetFlagPreserves,
     LoadStatePreserves, CasRetryPreserves, CasStatePreserves,
     WaitUntilThreadsStoppedPreserves, OperationPreserves, ClearFlagPreserves,
     ResumeThreadPreserves, DisarmPreserves, UnlockPreserves DEF Stopper
<1> QED
  BY <1>1, <1>2, <1>3, <1>4, StutterPreserves DEF Next, Halted

\* The inductive invariant holds throughout, for any number of threads.
THEOREM Invariance == Spec => []Inv
  BY InitInv, NextPreserves, PTL DEF Spec

-----------------------------------------------------------------------------
(* What follows from the invariant.                                        *)

\* The state of a thread that stays where it is in managed code changes.
Meddled(t) == pc[t] \in MutatorPc /\ pc'[t] = pc[t] /\ state'[t] # state[t]

\* Every variable keeps its type; in particular the arguments of spawn_thread
\* and the stopper's target are threads whenever they are used.
THEOREM TypeCorrect == Spec => []TypeOK
<1>1. Inv => TypeOK
  BY DEF Inv
<1> QED BY <1>1, Invariance, PTL

\* Under the invariant no thread is in managed code during an operation: with
\* the barrier armed all registered threads are held, without it the operator
\* is the only one.
LEMMA InvStopsWorld == Inv => WorldStopped
<1> SUFFICES ASSUME Inv, NEW s \in Thread, NEW t \in Thread, pc[s] = "operation"
             PROVE  pc[t] \notin MutatorPc
  BY DEF WorldStopped
<1>1. lock = s
  BY SMTT(60) DEF Inv, LockInv
<1>2. CASE armed
  BY <1>1, <1>2, ThreadAssumption, SMTT(60) DEF Inv, TypeOK, ThreadInv, StopInv
<1>3. CASE ~armed
  BY <1>1, <1>3, ThreadAssumption, SMTT(30) DEF Inv, TypeOK, LockInv, ThreadInv
<1> QED BY <1>2, <1>3

\* stop_the_world runs its operation only while no thread is in managed code.
THEOREM StoppedDuringOperation == Spec => []WorldStopped
  BY InvStopsWorld, Invariance, PTL

\* The assertions on thread states and on the barrier never fail.
THEOREM AssertionsHold == Spec => [](NoUnexpectedState /\ BarrierArmed)
<1>1. Inv => NoUnexpectedState
  <2> SUFFICES ASSUME Inv, NEW t \in Thread
               PROVE  /\ pc[t] = "park_slow" => state[t] = "SafepointRequested"
                      /\ pc[t] = "safepoint_slow" => state[t] \in {"Running", "SafepointRequested"}
                      /\ pc[t] = "unpark_slow" => state[t] \in {"Parked", "ParkedSafepoint"}
                      /\ pc[t] = "cas_state" => cur \in {"Running", "Parked", "Safepoint"}
                      /\ pc[t] = "resume" =>
                             \A u \in todo : state[u] \in {"Safepoint", "ParkedSafepoint"}
    BY SMTT(60) DEF NoUnexpectedState
  <2>1. /\ pc[t] = "park_slow" => state[t] = "SafepointRequested"
        /\ pc[t] = "safepoint_slow" => state[t] \in {"Running", "SafepointRequested"}
        /\ pc[t] = "unpark_slow" => state[t] \in {"Parked", "ParkedSafepoint"}
    BY SMTT(60) DEF Inv, TypeOK, ThreadInv, ThreadState
  <2>2. pc[t] = "cas_state" => cur \in {"Running", "Parked", "Safepoint"}
    BY ThreadAssumption, SMTT(30) DEF Inv, TypeOK, LockInv, StopInv
  <2>3. pc[t] = "resume" => \A u \in todo : state[u] \in {"Safepoint", "ParkedSafepoint"}
    BY ThreadAssumption, SMTT(30) DEF Inv, TypeOK, LockInv, StopInv
  <2> QED BY <2>1, <2>2, <2>3
<1>2. Inv => BarrierArmed
  BY ThreadAssumption, SMTT(60) DEF Inv, TypeOK, LockInv, StopInv, BarrierArmed
<1> QED BY <1>1, <1>2, Invariance, PTL

\* wait_until_threads_stopped never sees more arrivals than threads it waits
\* for, and ends with equally many: its assert_eq holds.
THEOREM CountsExact == Spec => []ExactCount
<1>1. Inv => ExactCount
  <2> SUFFICES ASSUME Inv, NEW t \in Thread
               PROVE  /\ pc[t] = "wait_stopped" => stopped <= running
                      /\ pc[t] = "operation" /\ armed => stopped = running
    BY SMTT(60) DEF ExactCount
  <2>1. CASE pc[t] = "wait_stopped"
    <3>1. lock = t
      BY <2>1, SMTT(60) DEF Inv, LockInv
    <3>2. arrived \in SUBSET counted
      BY <2>1, <3>1, ThreadAssumption, SMTT(30) DEF Inv, TypeOK, CountInv
    <3> QED BY <2>1, <3>2, SameCount, SMTT(30) DEF Inv, TypeOK, CountInv
  <2>2. CASE pc[t] = "operation"
    BY <2>2, ThreadAssumption, SMTT(60) DEF Inv, TypeOK, LockInv, CountInv
  <2> QED BY <2>1, <2>2
<1> QED BY <1>1, Invariance, PTL

\* Every thread in managed code is in the list the collector visits.
THEOREM RootsFound == Spec => []RootsVisible
<1>1. Inv => RootsVisible
  BY DEF Inv, TypeOK, ThreadInv, SpawnInv, RootsVisible
<1> QED BY <1>1, Invariance, PTL

\* A compare-exchange on a thread in managed code is from Running.
LEMMA CasRequests ==
    ASSUME Inv, NEW s \in Thread, CasState(s), NEW t \in Thread, Meddled(t)
    PROVE  state[t] = "Running" /\ state'[t] = "SafepointRequested"
<1>1. lock = s
  BY SMTT(60) DEF Inv, LockInv, CasState
<1>2. cur \in {"Running", "Parked", "Safepoint"} /\ cur # "Safepoint"
  BY <1>1, ThreadAssumption, SMTT(60) DEF Inv, StopInv, CasState, Meddled
<1>3. t = target /\ state[t] = cur /\ state'[t] = NextState(cur)
  BY <1>2, SMTT(60) DEF Inv, TypeOK, CasState, Meddled
<1>4. state[t] \in {"Running", "SafepointRequested"}
  BY DEF Inv, ThreadInv, Meddled
<1> QED BY <1>2, <1>3, <1>4, SMTT(60) DEF NextState

\* resume_threads touches no thread in managed code.
LEMMA ResumeSpares ==
    ASSUME Inv, Inv', NEW s \in Thread, NEW u \in Thread, ResumeThread(s, u),
           NEW t \in Thread
    PROVE  ~Meddled(t)
<1>1. state' = [state EXCEPT ![u] = "Parked"]
  BY SMTT(60) DEF ResumeThread
<1>2. pc'[u] \notin MutatorPc
  BY <1>1, SMTT(60) DEF Inv, TypeOK, ThreadInv
<1> QED BY <1>1, <1>2, SMTT(60) DEF Inv, TypeOK, Meddled

\* Apart from the stopper, a thread changes no state but its own, and moves on
\* when it does.
LEMMA OwnState ==
    ASSUME Inv, NEW s \in Thread,
           Program(s) \/ Poll(s) \/ Barrier(s) \/ Lifecycle(s)
    PROVE  \A t \in Thread : ~Meddled(t)
<1>1. CASE Program(s)
  <2>1. /\ pc[s] = "dora" /\ pc'[s] # "dora"
        /\ state' = state \/ state' = [state EXCEPT ![s] = "Parked"]
    BY <1>1, SMTT(60) DEF Inv, TypeOK, Program, ParkForScope, SpawnThread, JoinThread, Park
  <2> QED BY <2>1, SMTT(60) DEF Inv, TypeOK, Meddled
<1>2. CASE Unpark(s)
  <2>1. /\ pc[s] \notin MutatorPc
        /\ state' = state \/ state' = [state EXCEPT ![s] = "Running"]
    BY <1>2 DEF Unpark
  <2> QED BY <2>1 DEF Inv, TypeOK, Meddled
<1>3. CASE ParkSlow(s)
  <2>1. /\ pc[s] = "park_slow" /\ pc'[s] = "notify_park"
        /\ state' = [state EXCEPT ![s] = "ParkedSafepoint"]
    BY <1>3, SMTT(60) DEF Inv, TypeOK, ParkSlow
  <2> QED BY <2>1, SMTT(60) DEF Inv, TypeOK, Meddled
<1>4. CASE SafepointSlow(s)
  <2>1. /\ pc[s] = "safepoint_slow" /\ pc'[s] = "arrive"
        /\ state' = [state EXCEPT ![s] = "Safepoint"]
    BY <1>4 DEF Inv, TypeOK, SafepointSlow
  <2> QED BY <2>1, SMTT(60) DEF Inv, TypeOK, Meddled
<1>5. CASE \/ Poll(s) \/ NotifyPark(s) \/ WaitInUnpark(s) \/ Arrive(s)
           \/ WaitInSafepoint(s) \/ Lifecycle(s)
  <2>1. UNCHANGED state
    BY <1>5, Zenon DEF Poll, NotifyPark, WaitInUnpark, Arrive, WaitInSafepoint,
       WaitWhileArmed, Lifecycle, Native, AddThread, StartThread, Join,
       RemoveThread, Stop, JoinAll
  <2> QED BY <2>1 DEF Meddled
<1> QED BY <1>1, <1>2, <1>3, <1>4, <1>5, SMTT(60) DEF Barrier

\* A thread in managed code keeps its state but for the request to stop.
THEOREM OnlyRequestsSeen == Spec => OnlyRequested
<1> DEFINE Kept(t) ==
      Meddled(t) => state[t] = "Running" /\ state'[t] = "SafepointRequested"
<1>1. ASSUME Inv, Inv', [Next]_vars, NEW t \in Thread
      PROVE  Kept(t)
  <2>1. CASE UNCHANGED vars
    BY <2>1 DEF Meddled, vars
  <2>2. ASSUME NEW s \in Thread,
               Program(s) \/ Poll(s) \/ Barrier(s) \/ Lifecycle(s)
        PROVE  Kept(t)
    BY SMTT(60), <1>1, <2>2, OwnState
  <2>3. ASSUME NEW s \in Thread, Stopper(s)
        PROVE  Kept(t)
    <3>1. CASE UNCHANGED state
      BY <3>1 DEF Meddled
    <3>2. CASE CasState(s)
      BY <1>1, <3>2, CasRequests
    <3>3. ASSUME NEW u \in Thread, ResumeThread(s, u)
          PROVE  Kept(t)
      BY <1>1, <3>3, ResumeSpares
    <3> QED
      BY <2>3, <3>1, <3>2, <3>3, SMTT(60) DEF Stopper, LockThreads, Arm, SetFlag,
         LoadState, CasRetry, WaitUntilThreadsStopped, Operation, ClearFlag,
         Disarm, Unlock
  <2> QED BY <1>1, <2>1, <2>2, <2>3 DEF Next, Halted
<1>2. Inv /\ Inv' /\ [Next]_vars => [\A t \in Thread : Kept(t)]_vars
  BY SMTT(60), <1>1
<1> QED BY <1>2, Invariance, PTL DEF Spec, OnlyRequested, Meddled

-----------------------------------------------------------------------------
(* The protocol implements StopTheWorld.                                   *)

\* Parking and unparking, safepoints, the life of threads and all steps of the
\* stopper but two are invisible in the abstract world.
LEMMA Unseen ==
    ASSUME Inv, NEW t \in Thread
    PROVE  \/ NotifyPark(t)
           \/ WaitInUnpark(t)
           \/ Poll(t)
           \/ Arrive(t)
           \/ WaitInSafepoint(t)
           \/ Native(t)
           \/ AddThread(t)
           \/ StartThread(t)
           \/ Join(t)
           \/ RemoveThread(t)
           \/ Stop(t)
           \/ JoinAll(t)
           \/ Arm(t)
           \/ CasRetry(t)
           \/ CasState(t)
           \/ Disarm(t)
           \/ Unlock(t)
           \/ \E u \in Thread : SetFlag(t, u)
           \/ \E u \in Thread : LoadState(t, u)
           \/ \E u \in Thread : ClearFlag(t, u)
           \/ \E u \in Thread : ResumeThread(t, u)
           => UNCHANGED <<Mutators, Operator>>
<1>1. NotifyPark(t) => UNCHANGED <<Mutators, Operator>>
  BY ThreadAssumption, SMTT(60) DEF Inv, TypeOK, Mutators, Operator,
     NotifyPark, CountStopped, NotifyStopper
<1>2. WaitInUnpark(t) => UNCHANGED <<Mutators, Operator>>
  BY ThreadAssumption, SMTT(60) DEF Inv, TypeOK, Mutators, Operator, WaitInUnpark, WaitWhileArmed
<1>3. Poll(t) => UNCHANGED <<Mutators, Operator>>
  BY ThreadAssumption, SMTT(60) DEF Inv, TypeOK, Mutators, Operator, Poll
<1>4. Arrive(t) => UNCHANGED <<Mutators, Operator>>
  BY ThreadAssumption, SMTT(60) DEF Inv, TypeOK, Mutators, Operator, Arrive
<1>5. WaitInSafepoint(t) => UNCHANGED <<Mutators, Operator>>
  BY ThreadAssumption, SMTT(60) DEF Inv, TypeOK, Mutators, Operator, WaitInSafepoint, WaitWhileArmed
<1>6. Native(t) => UNCHANGED <<Mutators, Operator>>
  BY ThreadAssumption, SMTT(60) DEF Inv, TypeOK, Mutators, Operator, Native
<1>7. AddThread(t) => UNCHANGED <<Mutators, Operator>>
  BY ThreadAssumption, SMTT(30)
     DEF Inv, TypeOK, SpawnInv, ThreadInv, Mutators, Operator, AddThread
<1>8. StartThread(t) => UNCHANGED <<Mutators, Operator>>
  BY ThreadAssumption, SMTT(30)
     DEF Inv, TypeOK, SpawnInv, ThreadInv, Mutators, Operator, StartThread
<1>9. Join(t) => UNCHANGED <<Mutators, Operator>>
  BY ThreadAssumption, SMTT(60) DEF Inv, TypeOK, Mutators, Operator, Join
<1>10. RemoveThread(t) => UNCHANGED <<Mutators, Operator>>
  BY ThreadAssumption, SMTT(60) DEF Inv, TypeOK, Mutators, Operator, RemoveThread
<1>11. Stop(t) => UNCHANGED <<Mutators, Operator>>
  BY ThreadAssumption, SMTT(60) DEF Inv, TypeOK, Mutators, Operator, Stop
<1>12. JoinAll(t) => UNCHANGED <<Mutators, Operator>>
  BY ThreadAssumption, SMTT(60) DEF Inv, TypeOK, Mutators, Operator, JoinAll
<1>13. Arm(t) => UNCHANGED <<Mutators, Operator>>
  BY ThreadAssumption, SMTT(60) DEF Inv, TypeOK, Mutators, Operator, Arm
<1>14. CasRetry(t) => UNCHANGED <<Mutators, Operator>>
  BY ThreadAssumption, SMTT(60) DEF Inv, TypeOK, Mutators, Operator, CasRetry
<1>15. CasState(t) => UNCHANGED <<Mutators, Operator>>
  BY ThreadAssumption, SMTT(60) DEF Inv, TypeOK, Mutators, Operator, CasState
<1>16. Disarm(t) => UNCHANGED <<Mutators, Operator>>
  BY ThreadAssumption, SMTT(60) DEF Inv, TypeOK, Mutators, Operator, Disarm
<1>17. Unlock(t) => UNCHANGED <<Mutators, Operator>>
  BY ThreadAssumption, SMTT(60) DEF Inv, TypeOK, LockInv, Mutators, Operator, Unlock
<1>18. (\E u \in Thread : SetFlag(t, u)) => UNCHANGED <<Mutators, Operator>>
  BY ThreadAssumption, SMTT(60) DEF Inv, TypeOK, Mutators, Operator, SetFlag, LoopStep
<1>19. (\E u \in Thread : LoadState(t, u)) => UNCHANGED <<Mutators, Operator>>
  BY ThreadAssumption, SMTT(60) DEF Inv, TypeOK, Mutators, Operator, LoadState
<1>20. (\E u \in Thread : ClearFlag(t, u)) => UNCHANGED <<Mutators, Operator>>
  BY ThreadAssumption, SMTT(60) DEF Inv, TypeOK, Mutators, Operator, ClearFlag, LoopStep
<1>21. (\E u \in Thread : ResumeThread(t, u)) => UNCHANGED <<Mutators, Operator>>
  BY ThreadAssumption DEF Inv, TypeOK, Mutators, Operator,
     ResumeThread, LoopStep
<1> QED
  BY SMTT(60), <1>1, <1>2, <1>3, <1>4, <1>5, <1>6, <1>7, <1>8, <1>9, <1>10, <1>11,
     <1>12, <1>13, <1>14, <1>15, <1>16, <1>17, <1>18, <1>19, <1>20, <1>21

\* A thread leaves managed code when it parks or reaches its safepoint, ...
LEMMA LeavesWorld ==
    ASSUME Inv, NEW t \in Thread,
           \/ Program(t) \/ ParkSlow(t) \/ SafepointSlow(t)
    PROVE  [World!Next]_<<Mutators, Operator>>
<1>1. CASE Program(t)
  <2>1. /\ pc[t] = "dora" /\ UNCHANGED lock
        /\ \/ pc' = [pc EXCEPT ![t] = "park_slow"]
           \/ \E s \in Scope : pc' = [pc EXCEPT ![t] = s]
    BY <1>1 DEF Program, ParkForScope, SpawnThread, JoinThread, Park
  <2>2. UNCHANGED Operator
    BY <2>1, SMTT(60) DEF Inv, TypeOK, Operator
  <2>3. CASE pc' = [pc EXCEPT ![t] = "park_slow"]
    BY <2>1, <2>2, <2>3, SMTT(60) DEF Inv, TypeOK, Mutators
  <2>4. CASE \E s \in Scope : pc' = [pc EXCEPT ![t] = s]
    <3>1. t \in Mutators /\ Mutators' = Mutators \ {t}
      BY <2>1, <2>4, SMTT(60) DEF Inv, TypeOK, Mutators
    <3> QED BY <2>2, <3>1 DEF World!Next, World!Leave
  <2> QED BY SMTT(60), <2>1, <2>3, <2>4
<1>2. CASE ParkSlow(t) \/ SafepointSlow(t)
  <2>1. UNCHANGED Operator
    BY <1>2, SMTT(60) DEF Inv, TypeOK, Operator, ParkSlow, SafepointSlow
  <2>2. t \in Mutators /\ Mutators' = Mutators \ {t}
    BY <1>2 DEF Inv, TypeOK, Mutators, ParkSlow, SafepointSlow
  <2> QED BY <2>1, <2>2 DEF World!Next, World!Leave
<1> QED BY <1>1, <1>2

\* ... and enters it when unpark succeeds, which no operation allows.
LEMMA EntersWorld ==
    ASSUME Inv, NEW t \in Thread, Unpark(t)
    PROVE  [World!Next]_<<Mutators, Operator>>
<1>1. UNCHANGED Operator
  BY DEF Inv, TypeOK, Operator, Unpark, Unparked
<1>2. CASE state[t] # "Parked"
  BY <1>1, <1>2, SMTT(60) DEF Inv, TypeOK, Mutators, Unpark
<1>3. CASE state[t] = "Parked"
  <2>1. t \notin Mutators /\ Mutators' = Mutators \union {t}
    BY <1>3, SMTT(60) DEF Inv, TypeOK, Mutators, Unpark, Unparked
  <2>2. t \in registered
    BY DEF Inv, TypeOK, ThreadInv, Unpark
  <2>3. ~Phase({"operation"})
    <3>1. CASE armed
      BY <1>3, <2>2, <3>1, SMTT(60) DEF Inv, StopInv
    <3>2. CASE ~armed
      BY <2>2, <3>2, SMTT(60) DEF Inv, LockInv, Unpark
    <3> QED BY SMTT(60), <3>1, <3>2
  <2>4. Operator = None
    BY <2>3 DEF Operator
  <2> QED BY <1>1, <2>1, <2>4, SMTT(60) DEF World!Next, World!Enter
<1> QED BY SMTT(60), <1>2, <1>3

\* The stopper begins its operation in a world without mutators.
LEMMA BeginsOperation ==
    ASSUME Inv, Inv', NEW t \in Thread,
           \/ LockThreads(t) \/ WaitUntilThreadsStopped(t)
    PROVE  [World!Next]_<<Mutators, Operator>>
<1>1. UNCHANGED Mutators
  BY SMTT(60) DEF Inv, TypeOK, Mutators, LockThreads, WaitUntilThreadsStopped
<1>2. Operator = None /\ lock' = t /\ t # None
  BY ThreadAssumption, SMTT(60) DEF Inv, TypeOK, LockInv, Operator, LockThreads,
     WaitUntilThreadsStopped
<1>3. CASE pc'[t] # "operation"
  BY <1>1, <1>2, <1>3 DEF Operator
<1>4. CASE pc'[t] = "operation"
  <2>1. Operator' = t
    BY <1>2, <1>4 DEF Operator
  <2>2. WorldStopped'
    BY InvStopsWorld, PTL
  <2>3. Mutators = {}
    BY <1>1, <1>4, <2>2 DEF WorldStopped, Mutators
  <2> QED BY <1>1, <1>2, <2>1, <2>3, SMTT(60) DEF World!Next, World!Begin
<1> QED BY SMTT(60), <1>3, <1>4

\* It ends it when it goes on to resume the threads or to unlock.
LEMMA EndsOperation ==
    ASSUME Inv, NEW t \in Thread, Operation(t)
    PROVE  [World!Next]_<<Mutators, Operator>>
<1>1. UNCHANGED Mutators
  BY SMTT(60) DEF Inv, TypeOK, Mutators, Operation
<1>2. Operator = t /\ Operator' = None
  BY ThreadAssumption, SMTT(60) DEF Inv, TypeOK, LockInv, Operator, Operation
<1> QED BY <1>1, <1>2, SMTT(60) DEF World!Next, World!End

\* Every step is a step of the abstract world, or none.
LEMMA StepSimulation ==
    Inv /\ Inv' /\ [Next]_vars => [World!Next]_<<Mutators, Operator>>
<1> SUFFICES ASSUME Inv, Inv', [Next]_vars
             PROVE  [World!Next]_<<Mutators, Operator>>
  OBVIOUS
<1>1. CASE UNCHANGED vars
  BY <1>1 DEF vars, Mutators, Operator
<1>2. ASSUME NEW t \in Thread, Program(t) \/ Poll(t) \/ Barrier(t)
      PROVE  [World!Next]_<<Mutators, Operator>>
  BY <1>2, LeavesWorld, EntersWorld, Unseen DEF Barrier
<1>3. ASSUME NEW t \in Thread, Lifecycle(t)
      PROVE  [World!Next]_<<Mutators, Operator>>
  BY <1>3, Unseen DEF Lifecycle
<1>4. ASSUME NEW t \in Thread, Stopper(t)
      PROVE  [World!Next]_<<Mutators, Operator>>
  BY <1>4, BeginsOperation, EndsOperation, Unseen DEF Stopper
<1> QED BY <1>1, <1>2, <1>3, <1>4 DEF Next, Halted

\* The safepoint protocol implements the readers-writer view of the world that
\* collectors rely on.
THEOREM Refinement == Spec => ImplementsStopTheWorld
<1>1. Init => World!Init
  BY ThreadAssumption DEF Init, World!Init, Mutators, Operator
<1>2. Inv /\ Inv' /\ [Next]_vars => [World!Next]_(World!vars)
  BY StepSimulation DEF World!vars
<1> QED BY <1>1, <1>2, Invariance, PTL DEF Spec, World!Spec, ImplementsStopTheWorld
=============================================================================
