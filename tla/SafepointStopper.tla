-------------------------- MODULE SafepointStopper --------------------------
(***************************************************************************)
(* What the thread that stops the others does preserves Inv of Safepoint,  *)
(* for any finite set of threads: one lemma per action.                    *)
(***************************************************************************)
EXTENDS Safepoint, FiniteSetTheorems, TLAPS

USE DEF Goto, barrier, loop, life, Phase, Before, Visited, Held, Free, LoopPc,
    GonePc, Scope, MutatorPc, OwnerPc, StopPc, ResumePc, WakeupPc

-----------------------------------------------------------------------------
(* Facts about the sizes of sets of threads.                               *)

\* Adding a thread that is not yet a member adds one (stopped += 1,
\* running += 1).
LEMMA CountOne ==
    ASSUME NEW S \in SUBSET Thread, NEW t \in Thread, t \notin S
    PROVE  Cardinality(S \union {t}) = Cardinality(S) + 1
  BY ThreadAssumption, FS_Subset, FS_AddElement

\* A fresh count (BarrierData.stopped = 0, running = 0) counts nobody.
LEMMA CountEmpty == Cardinality({}) = 0
  BY FS_EmptySet

\* threads.len() == 1 means that the stopper is alone.
LEMMA SingleThread ==
    ASSUME NEW S \in SUBSET Thread, NEW t \in S, Cardinality(S) = 1
    PROVE  S = {t}
<1>1. IsFiniteSet(S)
  BY ThreadAssumption, FS_Subset
<1>2. Cardinality({t}) = 1
  BY FS_Singleton
<1> QED BY <1>1, <1>2, FS_Subset, SMT

\* A subset of as many threads is the whole set (stopped == running).
LEMMA SameCount ==
    ASSUME NEW S \in SUBSET Thread, NEW T \in SUBSET S
    PROVE  /\ Cardinality(S) \in Nat /\ Cardinality(T) \in Nat
           /\ Cardinality(T) <= Cardinality(S)
           /\ Cardinality(T) = Cardinality(S) => T = S
<1>1. IsFiniteSet(S)
  BY ThreadAssumption, FS_Subset
<1>2. IsFiniteSet(T)
  BY <1>1, FS_Subset
<1> QED BY <1>1, <1>2, FS_Subset, FS_CardinalityType

-----------------------------------------------------------------------------
(* Every action of the stopper preserves the invariant.                    *)

\* When the stopper leaves wait_until_threads_stopped, every thread it counted
\* has arrived, so nobody is in managed code or about to report.
LEMMA AllArrived ==
    ASSUME Inv, NEW t \in Thread, WaitUntilThreadsStopped(t), ~(stopped < running)
    PROVE  /\ stopped = running
           /\ \A u \in registered : state[u] \in {"ParkedSafepoint", "Safepoint"}
           /\ \A u \in Thread :
                 pc[u] \notin {"safepoint_slow", "arrive", "notify_park"}
<1>1. lock = t /\ Phase({"wait_stopped"}) /\ \A u \in Thread : Visited(u)
  BY ThreadAssumption DEF Inv, TypeOK, LockInv, WaitUntilThreadsStopped
<1>2. arrived \in SUBSET counted /\ counted \in SUBSET Thread
  BY <1>1, ThreadAssumption DEF Inv, TypeOK, LockInv, CountInv
<1>3. stopped = running /\ arrived = counted
  BY <1>2, SameCount DEF Inv, TypeOK, CountInv
<1>4. \A u \in registered :
         \/ state[u] \in {"SafepointRequested", "Safepoint"}
         \/ pc[u] = "notify_park"
         => u \in arrived
  BY <1>1, <1>3 DEF Inv, TypeOK, CountInv
<1>5. \A u \in registered :
         /\ state[u] \in {"ParkedSafepoint", "Safepoint"}
         /\ pc[u] \notin {"safepoint_slow", "arrive", "notify_park"}
  BY <1>1, <1>4 DEF Inv, TypeOK, ThreadInv, StopInv, CountInv
<1>6. \A u \in Thread : pc[u] \notin {"safepoint_slow", "arrive", "notify_park"}
  BY <1>5 DEF Inv, TypeOK, ThreadInv
<1> QED BY <1>3, <1>5, <1>6

\* The shortcut for a single thread: the stopper is registered, so it is
\* alone.
LEMMA LockThreadsPreserves ==
    ASSUME Inv, NEW t \in Thread, LockThreads(t)
    PROVE  Inv'
<1>1. TypeOK'
  BY ThreadAssumption DEF Inv, TypeOK, LockThreads, ThreadState, PcLabel
<1>2. LockInv'
  <2>1. t \in registered
    BY DEF Inv, ThreadInv, LockThreads
  <2>2. Cardinality(registered) = 1 => registered = {t}
    BY <2>1, SingleThread, SMTT(60) DEF Inv, TypeOK
  <2> QED
    BY <2>2, ThreadAssumption DEF Inv, TypeOK, LockInv, LockThreads
<1>3. ThreadInv'
  BY ThreadAssumption DEF Inv, TypeOK, ThreadInv, LockThreads
<1>4. SpawnInv'
  BY ThreadAssumption, SMTT(60) DEF Inv, TypeOK, SpawnInv, LockThreads
<1>5. StopInv'
  BY ThreadAssumption DEF Inv, TypeOK, LockInv, StopInv, LockThreads
<1>6. CountInv'
  BY ThreadAssumption, SMTT(60) DEF Inv, TypeOK, LockInv, CountInv, LockThreads
<1> QED BY <1>1, <1>2, <1>3, <1>4, <1>5, <1>6, SMTT(60) DEF Inv

\* arm() starts both counts anew.
LEMMA ArmPreserves ==
    ASSUME Inv, NEW t \in Thread, Arm(t)
    PROVE  Inv'
<1>1. TypeOK'
  BY ThreadAssumption DEF Inv, TypeOK, Arm, ThreadState, PcLabel
<1>2. LockInv'
  BY ThreadAssumption, SMTT(60) DEF Inv, TypeOK, LockInv, Arm
<1>3. ThreadInv'
  BY ThreadAssumption DEF Inv, TypeOK, ThreadInv, Arm
<1>4. SpawnInv'
  BY ThreadAssumption, SMTT(60) DEF Inv, TypeOK, SpawnInv, Arm
<1>5. StopInv'
  BY ThreadAssumption, SMTT(60) DEF Inv, TypeOK, LockInv, StopInv, Arm
<1>6. CountInv'
  <2>1. ~armed /\ lock = t
    BY ThreadAssumption DEF Inv, TypeOK, LockInv, Arm
  <2> QED
    BY <2>1, CountEmpty, ThreadAssumption, SMTT(60) DEF Inv, TypeOK, LockInv, ThreadInv,
       StopInv, CountInv, Arm
<1> QED BY <1>1, <1>2, <1>3, <1>4, <1>5, <1>6 DEF Inv

\* Raising a flag touches no state.
LEMMA SetFlagPreserves ==
    ASSUME Inv, NEW t \in Thread, NEW u \in Thread, SetFlag(t, u)
    PROVE  Inv'
<1>1. TypeOK'
  BY ThreadAssumption, SMTT(60) DEF Inv, TypeOK, SetFlag, LoopStep, ThreadState, PcLabel
<1>2. LockInv'
  BY ThreadAssumption, SMTT(60) DEF Inv, TypeOK, LockInv, SetFlag, LoopStep
<1>3. ThreadInv'
  BY ThreadAssumption DEF Inv, TypeOK, ThreadInv, SetFlag, LoopStep
<1>4. SpawnInv'
  BY ThreadAssumption, SMTT(60) DEF Inv, TypeOK, SpawnInv, SetFlag, LoopStep
<1>5. StopInv'
  BY ThreadAssumption, SMTT(60) DEF Inv, TypeOK, LockInv, StopInv, SetFlag, LoopStep
<1>6. CountInv'
  BY ThreadAssumption, SMTT(60) DEF Inv, TypeOK, LockInv, CountInv, SetFlag, LoopStep
<1> QED BY <1>1, <1>2, <1>3, <1>4, <1>5, <1>6, SMTT(60) DEF Inv

\* The loaded state is one stop_threads expects.
LEMMA LoadStatePreserves ==
    ASSUME Inv, NEW t \in Thread, NEW u \in Thread, LoadState(t, u)
    PROVE  Inv'
<1>1. TypeOK'
  BY ThreadAssumption, SMTT(60) DEF Inv, TypeOK, LoadState, ThreadState, PcLabel
<1>2. LockInv'
  BY ThreadAssumption, SMTT(60) DEF Inv, TypeOK, LockInv, LoadState
<1>3. ThreadInv'
  BY ThreadAssumption DEF Inv, TypeOK, ThreadInv, LoadState
<1>4. SpawnInv'
  BY ThreadAssumption, SMTT(60) DEF Inv, TypeOK, SpawnInv, LoadState
<1>5. StopInv'
  BY ThreadAssumption, SMTT(60) DEF Inv, TypeOK, LockInv, StopInv, LoadState
<1>6. CountInv'
  BY ThreadAssumption, SMTT(60) DEF Inv, TypeOK, CountInv, LoadState
<1> QED BY <1>1, <1>2, <1>3, <1>4, <1>5, <1>6 DEF Inv

\* So is the state a failed compare-exchange returns.
LEMMA CasRetryPreserves ==
    ASSUME Inv, NEW t \in Thread, CasRetry(t)
    PROVE  Inv'
<1>1. TypeOK'
  <2>1. target \in Thread
    BY DEF Inv, TypeOK, LockInv, CasRetry
  <2> QED
    BY <2>1 DEF Inv, TypeOK, CasRetry
<1>2. LockInv'
  BY ThreadAssumption, SMTT(60) DEF Inv, TypeOK, LockInv, CasRetry
<1>3. ThreadInv'
  BY ThreadAssumption DEF Inv, TypeOK, ThreadInv, CasRetry
<1>4. SpawnInv'
  BY ThreadAssumption, SMTT(60) DEF Inv, TypeOK, SpawnInv, CasRetry
<1>5. StopInv'
  BY ThreadAssumption, SMTT(60) DEF Inv, TypeOK, LockInv, StopInv, CasRetry
<1>6. CountInv'
  BY ThreadAssumption, SMTT(60) DEF Inv, TypeOK, CountInv, CasRetry
<1> QED BY <1>1, <1>2, <1>3, <1>4, <1>5, <1>6 DEF Inv

\* A visited thread is counted if and only if it owes its arrival.
LEMMA CasStatePreserves ==
    ASSUME Inv, NEW t \in Thread, CasState(t)
    PROVE  Inv'
<1>1. TypeOK'
  <2>1. target \in Thread
    BY DEF Inv, TypeOK, LockInv, CasState
  <2> QED
    BY <2>1 DEF Inv, TypeOK, CasState, NextState, ThreadState, PcLabel
<1>2. LockInv'
  BY ThreadAssumption, SMTT(60) DEF Inv, TypeOK, LockInv, CasState, NextState
<1>3. ThreadInv'
  BY ThreadAssumption, SMTT(60) DEF Inv, TypeOK, LockInv, ThreadInv, StopInv, CasState,
     NextState
<1>4. SpawnInv'
  BY ThreadAssumption, SMTT(60) DEF Inv, TypeOK, SpawnInv, CasState, NextState
<1>5. StopInv'
  BY ThreadAssumption DEF Inv, TypeOK, LockInv, StopInv, CasState, NextState
<1>6. CountInv'
  <2>1. lock = t
    BY DEF Inv, LockInv, CasState
  <2>2. target \in todo /\ target \in registered /\ target \in Thread
    BY <2>1, ThreadAssumption DEF Inv, TypeOK, LockInv, CasState
  <2>3. target \notin counted
    BY <2>1, <2>2, ThreadAssumption, SMTT(60) DEF Inv, CountInv, CasState
  <2>4. running' = Cardinality(counted')
    BY <2>2, <2>3, CountOne DEF Inv, TypeOK, CountInv, CasState
  <2>5. /\ UNCHANGED <<lock, registered, armed, stopped, arrived>>
        /\ todo' = todo \ {target} /\ pc[t] = "cas_state"
        /\ pc' = [pc EXCEPT ![t] = IF todo = {target} THEN "wait_stopped"
                                                      ELSE "load_state"]
    BY DEF CasState
  <2>6. /\ Phase({"cas_state"}) /\ Phase({"load_state", "wait_stopped"})'
        /\ pc'[t] = "wait_stopped" => todo' = {}
    BY <2>1, <2>5, ThreadAssumption, SMTT(60) DEF Inv, TypeOK
  <2>7. ASSUME NEW u \in Thread, u # target
        PROVE  /\ state'[u] = state[u]
               /\ pc'[u] = "arrive" <=> pc[u] = "arrive"
               /\ pc'[u] = "notify_park" <=> pc[u] = "notify_park"
               /\ u \in counted' <=> u \in counted
               /\ u \in todo' <=> u \in todo
               /\ Before(u)' => Before(u)
               /\ Visited(u)' => Visited(u)
    BY <2>1, <2>5, <2>6, <2>7, ThreadAssumption, SMTT(60) DEF Inv, TypeOK, CasState
  <2>8. ASSUME NEW u \in Thread
        PROVE  /\ u \in counted' \union arrived' => u \in registered'
               /\ Before(u)' => u \notin counted'
               /\ u \in arrived' => /\ pc'[u] \notin {"arrive", "notify_park"}
                                     /\ state'[u] \in {"Safepoint", "ParkedSafepoint"}
               /\ Before(u)' /\ u \in arrived' => state'[u] = "Safepoint"
               /\ Visited(u)' /\ u \in registered' =>
                     /\ \/ u \in arrived' \/ pc'[u] = "notify_park"
                        \/ state'[u] \in {"SafepointRequested", "Safepoint"}
                        => u \in counted'
    <3>1. CASE u # target
      <4>1. Phase(StopPc \ {"arm"})
        BY SMTT(60), <2>6
      <4> QED BY <2>5, <2>7, <3>1, <4>1 DEF Inv, CountInv
    <3>2. CASE u = target
      <4>1. ~Before(u)' /\ Before(u)
        BY SMTT(60), <2>1, <2>2, <2>5, <2>6, <3>2
      <4>2. CASE cur = "Safepoint"
        BY SMTT(60), <2>1, <2>2, <2>5, <2>6, <3>2, <4>1, <4>2
           DEF Inv, TypeOK, StopInv, CountInv, CasState
      <4>3. CASE cur = "Running"
        BY SMTT(60), <2>1, <2>2, <2>5, <2>6, <3>2, <4>1, <4>3
           DEF Inv, TypeOK, ThreadInv, CountInv, CasState, NextState
      <4>4. CASE cur = "Parked"
        <5>1. /\ state[u] = "Parked" /\ state'[u] = "ParkedSafepoint"
              /\ UNCHANGED counted /\ u \in Thread
          BY <2>2, <3>2, <4>4, SMTT(60) DEF Inv, TypeOK, CasState, NextState
        <5>2. u \notin arrived
          BY <2>6, <4>1, <5>1, SMTT(60) DEF Inv, CountInv
        <5>3. pc[u] # "notify_park"
          BY <5>1 DEF Inv, StopInv
        <5>4. pc'[u] # "notify_park"
          BY <2>1, <2>2, <2>5, <3>2, <5>3, SMTT(60) DEF Inv, TypeOK
        <5> QED BY SMTT(60), <2>2, <2>5, <3>2, <4>1, <5>1, <5>2, <5>4
      <4>5. cur \in {"Running", "Parked", "Safepoint"}
        BY <2>6, SMTT(60) DEF Inv, StopInv
      <4> QED BY <4>2, <4>3, <4>4, <4>5
    <3> QED BY SMTT(60), <3>1, <3>2
  <2>9. ~Phase({"operation"})'
    BY SMTT(60), <2>6
  <2> QED
    BY <2>4, <2>5, <2>8, <2>9, Zenon DEF Inv, CountInv
<1> QED BY <1>1, <1>2, <1>3, <1>4, <1>5, <1>6 DEF Inv

\* The operation starts with every registered thread held.
LEMMA WaitUntilThreadsStoppedPreserves ==
    ASSUME Inv, NEW t \in Thread, WaitUntilThreadsStopped(t)
    PROVE  Inv'
<1>1. TypeOK'
  BY ThreadAssumption, SMTT(60) DEF Inv, TypeOK, WaitUntilThreadsStopped, ThreadState,
     PcLabel
<1>2. LockInv'
  BY ThreadAssumption, SMTT(60) DEF Inv, TypeOK, LockInv, WaitUntilThreadsStopped
<1>3. ThreadInv'
  BY ThreadAssumption, SMTT(60) DEF Inv, TypeOK, ThreadInv, WaitUntilThreadsStopped
<1>4. SpawnInv'
  BY ThreadAssumption DEF Inv, TypeOK, SpawnInv, WaitUntilThreadsStopped
<1>5. StopInv'
  <2>1. lock = t
    BY SMTT(60) DEF Inv, LockInv, WaitUntilThreadsStopped
  <2>2. CASE stopped < running
    BY <2>1, <2>2, ThreadAssumption, SMTT(60) DEF Inv, TypeOK, LockInv, StopInv,
       WaitUntilThreadsStopped
  <2>3. CASE ~(stopped < running)
    <3>1. /\ stopped = running
          /\ \A u \in registered : state[u] \in {"ParkedSafepoint", "Safepoint"}
          /\ \A u \in Thread :
                pc[u] \notin {"safepoint_slow", "arrive", "notify_park"}
      BY SMTT(60), <2>3, AllArrived
    <3> QED
      BY <2>1, <2>3, <3>1, ThreadAssumption, SMTT(60) DEF Inv, TypeOK, LockInv, StopInv,
         WaitUntilThreadsStopped
  <2> QED BY <2>2, <2>3
<1>6. CountInv'
  <2>1. lock = t
    BY DEF Inv, LockInv, WaitUntilThreadsStopped
  <2>2. CASE stopped < running
    BY <2>1, <2>2, ThreadAssumption, SMTT(60) DEF Inv, TypeOK, LockInv, CountInv,
       WaitUntilThreadsStopped
  <2>3. CASE ~(stopped < running)
    <3>1. /\ stopped = running
          /\ \A u \in registered : state[u] \in {"ParkedSafepoint", "Safepoint"}
          /\ \A u \in Thread :
                pc[u] \notin {"safepoint_slow", "arrive", "notify_park"}
      BY <2>3, AllArrived
    <3> QED
      BY <2>1, <2>3, <3>1, ThreadAssumption, SMTT(60) DEF Inv, TypeOK, LockInv,
         CountInv, WaitUntilThreadsStopped
  <2> QED BY <2>2, <2>3
<1> QED BY <1>1, <1>2, <1>3, <1>4, <1>5, <1>6 DEF Inv

\* The operation changes no thread.
LEMMA OperationPreserves ==
    ASSUME Inv, NEW t \in Thread, Operation(t)
    PROVE  Inv'
<1>1. TypeOK'
  BY ThreadAssumption, SMTT(60) DEF Inv, TypeOK, Operation, ThreadState, PcLabel
<1>2. LockInv'
  BY ThreadAssumption, SMTT(60) DEF Inv, TypeOK, LockInv, Operation
<1>3. ThreadInv'
  BY ThreadAssumption DEF Inv, TypeOK, ThreadInv, Operation
<1>4. SpawnInv'
  BY ThreadAssumption, SMTT(60) DEF Inv, TypeOK, SpawnInv, Operation
<1>5. StopInv'
  BY ThreadAssumption, SMTT(60) DEF Inv, TypeOK, LockInv, StopInv, Operation
<1>6. CountInv'
  BY ThreadAssumption, SMTT(60) DEF Inv, TypeOK, LockInv, CountInv, Operation
<1> QED BY <1>1, <1>2, <1>3, <1>4, <1>5, <1>6 DEF Inv

\* Clearing a flag touches no state.
LEMMA ClearFlagPreserves ==
    ASSUME Inv, NEW t \in Thread, NEW u \in Thread, ClearFlag(t, u)
    PROVE  Inv'
<1>1. TypeOK'
  BY ThreadAssumption, SMTT(60) DEF Inv, TypeOK, ClearFlag, LoopStep, ThreadState,
     PcLabel
<1>2. LockInv'
  BY ThreadAssumption, SMTT(60) DEF Inv, TypeOK, LockInv, ClearFlag, LoopStep
<1>3. ThreadInv'
  BY ThreadAssumption, SMTT(60) DEF Inv, TypeOK, ThreadInv, ClearFlag, LoopStep
<1>4. SpawnInv'
  BY ThreadAssumption, SMTT(60) DEF Inv, TypeOK, SpawnInv, ClearFlag, LoopStep
<1>5. StopInv'
  <2>1. /\ lock = t /\ todo \subseteq registered /\ armed
        /\ u \in todo /\ todo' = IF todo = {u} THEN registered ELSE todo \ {u}
        /\ pc[t] = "clear_flags"
        /\ pc' = IF todo = {u} THEN [pc EXCEPT ![t] = "resume"] ELSE pc
        /\ flag' = [flag EXCEPT ![u] = FALSE]
        /\ UNCHANGED <<state, lock, registered, armed>>
    BY ThreadAssumption, SMTT(60) DEF Inv, TypeOK, LockInv, ClearFlag, LoopStep
  <2>2. /\ Phase({"clear_flags"}) /\ Phase({"clear_flags", "resume"})'
        /\ todo # {u} => Phase({"clear_flags"})'
    BY <2>1, ThreadAssumption DEF Inv, TypeOK
  <2>3. ASSUME NEW v \in Thread, flag'[v]
        PROVE  v \in registered' /\ Phase({"clear_flags"})' /\ v \in todo'
    <3>1. v # u /\ flag[v]
      BY <2>1, <2>3, SMTT(60) DEF Inv, TypeOK
    <3>2. v \in registered /\ v \in todo
      BY <2>2, <3>1, SMTT(60) DEF Inv, StopInv
    <3> QED BY SMTT(60), <2>1, <2>2, <3>1, <3>2
  <2>4. ASSUME NEW v \in Thread
        PROVE  /\ pc[v] \notin {"safepoint_slow", "arrive", "notify_park"}
               /\ pc'[v] \notin {"safepoint_slow", "arrive", "notify_park"}
    <3>1. pc[v] \notin {"safepoint_slow", "arrive", "notify_park"}
      BY <2>2, SMTT(60) DEF Inv, StopInv
    <3> QED BY <2>1, <3>1, SMTT(60) DEF Inv, TypeOK
  <2>5. ASSUME NEW v \in Thread
        PROVE  /\ ~Before(v)' /\ ~Visited(v)' /\ ~Phase({"cas_state"})'
               /\ v \in registered => ~Free(v)' /\ Held(v)
    BY SMTT(60), <2>1, <2>2, ThreadAssumption
  <2>6. \A v \in Thread : v \notin registered => state[v] \in {"Running", "Parked"}
    BY SMTT(60) DEF Inv, ThreadInv, TypeOK
  <2> QED
    BY <2>1, <2>3, <2>4, <2>5, <2>6, SMTT(60) DEF Inv, StopInv
<1>6. CountInv'
  BY ThreadAssumption, SMTT(60) DEF Inv, TypeOK, LockInv, CountInv, ClearFlag, LoopStep
<1> QED BY <1>1, <1>2, <1>3, <1>4, <1>5, <1>6 DEF Inv

\* A resumed thread is Parked, and it is at a place where it may be.
LEMMA ResumeThreadPreserves ==
    ASSUME Inv, NEW t \in Thread, NEW u \in Thread, ResumeThread(t, u)
    PROVE  Inv'
<1>1. TypeOK'
  BY ThreadAssumption, SMTT(60) DEF Inv, TypeOK, ResumeThread, LoopStep, ThreadState,
     PcLabel
<1>2. LockInv'
  BY ThreadAssumption, SMTT(60) DEF Inv, TypeOK, LockInv, ResumeThread, LoopStep
<1>3. ThreadInv'
  <2>1. lock = t /\ t \in registered /\ Held(u) /\ u \in registered
    BY ThreadAssumption, SMTT(60) DEF Inv, TypeOK, LockInv, ThreadInv, ResumeThread,
       LoopStep
  <2>2. pc[u] \notin MutatorPc \union {"arrive", "park_slow"}
    BY <2>1, ThreadAssumption, SMTT(60) DEF Inv, TypeOK, ThreadInv, StopInv
  <2> QED
    BY <2>1, <2>2, ThreadAssumption, SMTT(60) DEF Inv, TypeOK, ThreadInv, ResumeThread,
       LoopStep
<1>4. SpawnInv'
  BY ThreadAssumption, SMTT(60) DEF Inv, TypeOK, SpawnInv, ResumeThread, LoopStep
<1>5. StopInv'
  BY ThreadAssumption, SMTT(60) DEF Inv, TypeOK, LockInv, StopInv, ResumeThread,
     LoopStep
<1>6. CountInv'
  BY ThreadAssumption, SMTT(60) DEF Inv, TypeOK, LockInv, CountInv, ResumeThread,
     LoopStep
<1> QED BY <1>1, <1>2, <1>3, <1>4, <1>5, <1>6 DEF Inv

\* All threads are Parked or outside when the barrier is disarmed.
LEMMA DisarmPreserves ==
    ASSUME Inv, NEW t \in Thread, Disarm(t)
    PROVE  Inv'
<1>1. TypeOK'
  <2>1. pc' \in [Thread -> PcLabel] /\ asleep' \subseteq Thread
    BY SMTT(60) DEF Inv, TypeOK, Disarm, PcLabel
  <2> QED
    BY <2>1, Zenon DEF Inv, TypeOK, Disarm
<1>2. LockInv'
  BY ThreadAssumption, SMTT(60) DEF Inv, TypeOK, LockInv, Disarm
<1>3. ThreadInv'
  BY ThreadAssumption, SMTT(60) DEF Inv, TypeOK, ThreadInv, Disarm
<1>4. SpawnInv'
  BY ThreadAssumption, SMTT(60) DEF Inv, TypeOK, SpawnInv, Disarm
<1>5. StopInv'
  <2>1. lock = t /\ \A u \in Thread : Free(u)
    BY ThreadAssumption, SMTT(60) DEF Inv, LockInv, Disarm
  <2> QED
    BY <2>1, ThreadAssumption, SMTT(60) DEF Inv, TypeOK, StopInv, Disarm
<1>6. CountInv'
  BY ThreadAssumption, SMTT(60) DEF Inv, TypeOK, CountInv, Disarm
<1> QED BY <1>1, <1>2, <1>3, <1>4, <1>5, <1>6 DEF Inv

\* The threads mutex is released.
LEMMA UnlockPreserves ==
    ASSUME Inv, NEW t \in Thread, Unlock(t)
    PROVE  Inv'
<1>1. TypeOK'
  BY ThreadAssumption, SMTT(60) DEF Inv, TypeOK, Unlock, ThreadState, PcLabel
<1>2. LockInv'
  BY ThreadAssumption, SMTT(60) DEF Inv, TypeOK, LockInv, Unlock
<1>3. ThreadInv'
  BY ThreadAssumption, SMTT(60) DEF Inv, TypeOK, ThreadInv, Unlock
<1>4. SpawnInv'
  BY ThreadAssumption, SMTT(30) DEF Inv, TypeOK, ThreadInv, SpawnInv, Unlock
<1>5. StopInv'
  BY ThreadAssumption, SMTT(60) DEF Inv, TypeOK, LockInv, StopInv, Unlock
<1>6. CountInv'
  BY ThreadAssumption DEF Inv, TypeOK, CountInv, Unlock
<1> QED BY <1>1, <1>2, <1>3, <1>4, <1>5, <1>6 DEF Inv

-----------------------------------------------------------------------------
(* The invariant.                                                          *)
=============================================================================
