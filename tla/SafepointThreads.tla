-------------------------- MODULE SafepointThreads --------------------------
(***************************************************************************)
(* What a thread does on its own preserves Inv of Safepoint, for any finite*)
(* set of threads: one lemma per action.                                   *)
(***************************************************************************)
EXTENDS Safepoint, FiniteSetTheorems, TLAPS

USE DEF Goto, barrier, loop, life, Phase, Before, Visited, Held, Free, LoopPc,
    GonePc, Scope, MutatorPc, OwnerPc, StopPc, ResumePc, WakeupPc

\* A thread that had not arrived is counted once (stopped += 1).
LEMMA ArrivalCounted ==
    ASSUME NEW S \in SUBSET Thread, NEW t \in Thread, t \notin S
    PROVE  Cardinality(S \union {t}) = Cardinality(S) + 1
  BY ThreadAssumption, FS_Subset, FS_AddElement

\* park(): Running becomes Parked, or a requested stop sends it to park_slow.
LEMMA ParkForScopePreserves ==
    ASSUME Inv, NEW t \in Thread, ParkForScope(t)
    PROVE  Inv'
<1>1. TypeOK'
  BY ThreadAssumption DEF Inv, TypeOK, ParkForScope, Park, ThreadState,
     PcLabel
<1>2. LockInv'
  BY ThreadAssumption DEF Inv, TypeOK, LockInv, ParkForScope, Park
<1>3. ThreadInv'
  BY ThreadAssumption DEF Inv, TypeOK, ThreadInv, ParkForScope, Park
<1>4. SpawnInv'
  BY ThreadAssumption, SMTT(60) DEF Inv, TypeOK, SpawnInv, ParkForScope, Park
<1>5. StopInv'
  BY ThreadAssumption DEF Inv, TypeOK, LockInv, StopInv, ParkForScope, Park
<1>6. CountInv'
  BY ThreadAssumption DEF Inv, TypeOK, CountInv, ParkForScope, Park
<1> QED BY <1>1, <1>2, <1>3, <1>4, <1>5, <1>6, SMTT(60) DEF Inv

\* spawn_thread reserves a new thread and parks to add it.
LEMMA SpawnThreadPreserves ==
    ASSUME Inv, NEW t \in Thread, NEW u \in Thread, SpawnThread(t, u)
    PROVE  Inv'
<1>1. TypeOK'
  BY ThreadAssumption DEF Inv, TypeOK, SpawnThread, Park, ThreadState, PcLabel
<1>2. LockInv'
  BY ThreadAssumption, SMTT(60) DEF Inv, TypeOK, LockInv, SpawnThread, Park
<1>3. ThreadInv'
  BY ThreadAssumption DEF Inv, TypeOK, ThreadInv, SpawnThread, Park
<1>4. SpawnInv'
  BY ThreadAssumption, SMTT(60) DEF Inv, TypeOK, SpawnInv, SpawnThread, Park
<1>5. StopInv'
  BY ThreadAssumption, SMTT(60) DEF Inv, TypeOK, LockInv, StopInv, SpawnThread, Park
<1>6. CountInv'
  BY ThreadAssumption, SMTT(60) DEF Inv, TypeOK, CountInv, SpawnThread, Park
<1> QED BY <1>1, <1>2, <1>3, <1>4, <1>5, <1>6, SMTT(60) DEF Inv

\* join_thread parks to wait for a thread.
LEMMA JoinThreadPreserves ==
    ASSUME Inv, NEW t \in Thread, NEW u \in Thread, JoinThread(t, u)
    PROVE  Inv'
<1>1. TypeOK'
  BY ThreadAssumption DEF Inv, TypeOK, JoinThread, Park, ThreadState, PcLabel
<1>2. LockInv'
  BY ThreadAssumption, SMTT(60) DEF Inv, TypeOK, LockInv, JoinThread, Park
<1>3. ThreadInv'
  BY ThreadAssumption DEF Inv, TypeOK, ThreadInv, JoinThread, Park
<1>4. SpawnInv'
  BY ThreadAssumption, SMTT(60) DEF Inv, TypeOK, SpawnInv, JoinThread, Park
<1>5. StopInv'
  BY ThreadAssumption, SMTT(60) DEF Inv, TypeOK, LockInv, StopInv, JoinThread, Park
<1>6. CountInv'
  BY ThreadAssumption, SMTT(60) DEF Inv, TypeOK, CountInv, JoinThread, Park
<1> QED BY <1>1, <1>2, <1>3, <1>4, <1>5, <1>6 DEF Inv

\* park_slow owes the barrier a notification from here on.
LEMMA ParkSlowPreserves ==
    ASSUME Inv, NEW t \in Thread, ParkSlow(t)
    PROVE  Inv'
<1>1. TypeOK'
  BY ThreadAssumption DEF Inv, TypeOK, ParkSlow, ThreadState, PcLabel
<1>2. LockInv'
  BY ThreadAssumption, SMTT(60) DEF Inv, TypeOK, LockInv, ParkSlow
<1>3. ThreadInv'
  BY ThreadAssumption DEF Inv, TypeOK, ThreadInv, ParkSlow
<1>4. SpawnInv'
  BY ThreadAssumption, SMTT(60) DEF Inv, TypeOK, SpawnInv, ParkSlow
<1>5. StopInv'
  BY ThreadAssumption, SMTT(60) DEF Inv, TypeOK, LockInv, ThreadInv, StopInv, ParkSlow
<1>6. CountInv'
  BY ThreadAssumption, SMTT(60) DEF Inv, TypeOK, ThreadInv, CountInv, ParkSlow
<1> QED BY <1>1, <1>2, <1>3, <1>4, <1>5, <1>6 DEF Inv

\* The notification is counted once: the thread was not yet among the arrived.
LEMMA NotifyParkPreserves ==
    ASSUME Inv, NEW t \in Thread, NotifyPark(t)
    PROVE  Inv'
<1>1. TypeOK'
  BY ThreadAssumption, SMTT(60) DEF Inv, TypeOK, NotifyPark, CountStopped,
     NotifyStopper, ThreadState, PcLabel
<1>2. LockInv'
  BY ThreadAssumption, SMTT(60) DEF Inv, TypeOK, LockInv, NotifyPark, CountStopped,
     NotifyStopper
<1>3. ThreadInv'
  BY ThreadAssumption, SMTT(60) DEF Inv, TypeOK, ThreadInv, NotifyPark, CountStopped,
     NotifyStopper
<1>4. SpawnInv'
  BY ThreadAssumption, SMTT(60) DEF Inv, TypeOK, SpawnInv, NotifyPark, CountStopped,
     NotifyStopper
<1>5. StopInv'
  BY ThreadAssumption, SMTT(60) DEF Inv, TypeOK, StopInv, NotifyPark, CountStopped,
     NotifyStopper
<1>6. CountInv'
  <2>1. t \notin arrived /\ arrived \subseteq Thread
    BY DEF Inv, TypeOK, LockInv, StopInv, CountInv, NotifyPark
  <2>2. stopped' = Cardinality(arrived')
    BY <2>1, ArrivalCounted, SMTT(60) DEF Inv, TypeOK, CountInv, NotifyPark, CountStopped
  <2> QED
    BY <2>2, ThreadAssumption, SMTT(60) DEF Inv, TypeOK, LockInv, ThreadInv, StopInv,
       CountInv, NotifyPark, CountStopped
<1> QED BY <1>1, <1>2, <1>3, <1>4, <1>5, <1>6 DEF Inv

\* unpark succeeds only while no stop holds the thread.
LEMMA UnparkPreserves ==
    ASSUME Inv, NEW t \in Thread, Unpark(t)
    PROVE  Inv'
<1>1. TypeOK'
  BY ThreadAssumption, SMTT(60) DEF Inv, TypeOK, Unpark, Unparked, ThreadState, PcLabel
<1>2. LockInv'
  BY ThreadAssumption, SMTT(60) DEF Inv, TypeOK, LockInv, Unpark, Unparked
<1>3. ThreadInv'
  BY ThreadAssumption, SMTT(60) DEF Inv, TypeOK, ThreadInv, Unpark, Unparked
<1>4. SpawnInv'
  BY ThreadAssumption, SMTT(60) DEF Inv, TypeOK, SpawnInv, Unpark, Unparked
<1>5. StopInv'
  BY ThreadAssumption, SMTT(60) DEF Inv, TypeOK, LockInv, StopInv, Unpark, Unparked
<1>6. CountInv'
  BY ThreadAssumption, SMTT(60) DEF Inv, TypeOK, CountInv, Unpark, Unparked
<1> QED BY <1>1, <1>2, <1>3, <1>4, <1>5, <1>6 DEF Inv

\* wait_in_unpark changes nothing but who sleeps.
LEMMA WaitInUnparkPreserves ==
    ASSUME Inv, NEW t \in Thread, WaitInUnpark(t)
    PROVE  Inv'
<1>1. TypeOK'
  BY ThreadAssumption, SMTT(60) DEF Inv, TypeOK, WaitInUnpark, WaitWhileArmed,
     ThreadState, PcLabel
<1>2. LockInv'
  BY ThreadAssumption, SMTT(60) DEF Inv, TypeOK, LockInv, WaitInUnpark, WaitWhileArmed
<1>3. ThreadInv'
  BY ThreadAssumption DEF Inv, TypeOK, ThreadInv, WaitInUnpark, WaitWhileArmed
<1>4. SpawnInv'
  BY ThreadAssumption, SMTT(60) DEF Inv, TypeOK, SpawnInv, WaitInUnpark, WaitWhileArmed
<1>5. StopInv'
  BY ThreadAssumption, SMTT(60) DEF Inv, TypeOK, StopInv, WaitInUnpark, WaitWhileArmed
<1>6. CountInv'
  BY ThreadAssumption, SMTT(60) DEF Inv, TypeOK, CountInv, WaitInUnpark, WaitWhileArmed
<1> QED BY <1>1, <1>2, <1>3, <1>4, <1>5, <1>6 DEF Inv

\* A poll sees the flag only between set_flags and clear_flags.
LEMMA PollPreserves ==
    ASSUME Inv, NEW t \in Thread, Poll(t)
    PROVE  Inv'
<1>1. TypeOK'
  BY ThreadAssumption, SMTT(60) DEF Inv, TypeOK, Poll, ThreadState, PcLabel
<1>2. LockInv'
  BY ThreadAssumption, SMTT(60) DEF Inv, TypeOK, LockInv, Poll
<1>3. ThreadInv'
  BY ThreadAssumption, SMTT(60) DEF Inv, TypeOK, ThreadInv, Poll
<1>4. SpawnInv'
  BY ThreadAssumption, SMTT(60) DEF Inv, TypeOK, SpawnInv, Poll
<1>5. StopInv'
  BY ThreadAssumption, SMTT(60) DEF Inv, TypeOK, LockInv, ThreadInv, StopInv, Poll
<1>6. CountInv'
  BY ThreadAssumption, SMTT(60) DEF Inv, TypeOK, CountInv, Poll
<1> QED BY <1>1, <1>2, <1>3, <1>4, <1>5, <1>6 DEF Inv

\* safepoint_slow owes the barrier an arrival from here on.
LEMMA SafepointSlowPreserves ==
    ASSUME Inv, NEW t \in Thread, SafepointSlow(t)
    PROVE  Inv'
<1>1. TypeOK'
  BY ThreadAssumption, SMTT(60) DEF Inv, TypeOK, SafepointSlow, ThreadState, PcLabel
<1>2. LockInv'
  BY ThreadAssumption, SMTT(60) DEF Inv, TypeOK, LockInv, SafepointSlow
<1>3. ThreadInv'
  BY ThreadAssumption, SMTT(60) DEF Inv, TypeOK, ThreadInv, SafepointSlow
<1>4. SpawnInv'
  BY ThreadAssumption, SMTT(60) DEF Inv, TypeOK, SpawnInv, SafepointSlow
<1>5. StopInv'
  BY ThreadAssumption, SMTT(30) DEF Inv, TypeOK, LockInv, StopInv, SafepointSlow
<1>6. CountInv'
  BY ThreadAssumption, SMTT(60) DEF Inv, TypeOK, LockInv, ThreadInv, StopInv, CountInv,
     SafepointSlow
<1> QED BY <1>1, <1>2, <1>3, <1>4, <1>5, <1>6 DEF Inv

\* The arrival is counted once.
LEMMA ArrivePreserves ==
    ASSUME Inv, NEW t \in Thread, Arrive(t)
    PROVE  Inv'
<1>1. TypeOK'
  BY ThreadAssumption, SMTT(60) DEF Inv, TypeOK, Arrive, CountStopped, ThreadState,
     PcLabel
<1>2. LockInv'
  BY ThreadAssumption, SMTT(60) DEF Inv, TypeOK, LockInv, Arrive, CountStopped
<1>3. ThreadInv'
  BY ThreadAssumption, SMTT(60) DEF Inv, TypeOK, ThreadInv, Arrive, CountStopped
<1>4. SpawnInv'
  BY ThreadAssumption, SMTT(60) DEF Inv, TypeOK, SpawnInv, Arrive, CountStopped
<1>5. StopInv'
  BY ThreadAssumption, SMTT(60) DEF Inv, TypeOK, StopInv, Arrive, CountStopped
<1>6. CountInv'
  <2>1. t \notin arrived /\ t \in registered /\ state[t] = "Safepoint"
    BY SMTT(60) DEF Inv, TypeOK, LockInv, ThreadInv, StopInv, CountInv, Arrive
  <2>2. stopped' = Cardinality(arrived')
    BY <2>1, ArrivalCounted, SMTT(60) DEF Inv, TypeOK, CountInv, Arrive, CountStopped
  <2>3. t # lock /\ Phase(StopPc \ {"arm"}) /\ UNCHANGED Phase(StopPc \ {"arm"})
    BY ThreadAssumption, SMTT(60) DEF Inv, TypeOK, LockInv, StopInv, Arrive
  <2>4. \A u \in Thread : UNCHANGED <<Before(u), Visited(u)>> /\ ~Phase({"operation"})'
    BY <2>3, ThreadAssumption, SMTT(60) DEF Inv, TypeOK, Arrive
  <2>5. \A u \in Thread : u # t => UNCHANGED <<pc[u], state[u], u \in arrived>>
    BY SMTT(60) DEF Inv, TypeOK, Arrive, CountStopped
  <2> QED
    BY <2>1, <2>2, <2>3, <2>4, <2>5, SMTT(30) DEF Inv, TypeOK, CountInv, Arrive,
       CountStopped
<1> QED BY <1>1, <1>2, <1>3, <1>4, <1>5, <1>6 DEF Inv

\* wait_in_safepoint ends in unpark once the barrier is disarmed.
LEMMA WaitInSafepointPreserves ==
    ASSUME Inv, NEW t \in Thread, WaitInSafepoint(t)
    PROVE  Inv'
<1>1. TypeOK'
  BY ThreadAssumption, SMTT(60) DEF Inv, TypeOK, WaitInSafepoint, WaitWhileArmed,
     ThreadState, PcLabel
<1>2. LockInv'
  BY ThreadAssumption, SMTT(30) DEF Inv, TypeOK, LockInv, WaitInSafepoint,
     WaitWhileArmed
<1>3. ThreadInv'
  BY ThreadAssumption, SMTT(60) DEF Inv, TypeOK, LockInv, ThreadInv, StopInv,
     WaitInSafepoint, WaitWhileArmed
<1>4. SpawnInv'
  BY ThreadAssumption, SMTT(60) DEF Inv, TypeOK, ThreadInv, SpawnInv, WaitInSafepoint,
     WaitWhileArmed
<1>5. StopInv'
  BY ThreadAssumption, SMTT(60) DEF Inv, TypeOK, StopInv, WaitInSafepoint,
     WaitWhileArmed
<1>6. CountInv'
  BY ThreadAssumption, SMTT(60) DEF Inv, TypeOK, CountInv, WaitInSafepoint,
     WaitWhileArmed
<1> QED BY <1>1, <1>2, <1>3, <1>4, <1>5, <1>6 DEF Inv

\* A parked thread comes back from native code.
LEMMA NativePreserves ==
    ASSUME Inv, NEW t \in Thread, Native(t)
    PROVE  Inv'
<1>1. TypeOK'
  BY ThreadAssumption, SMTT(60) DEF Inv, TypeOK, Native, ThreadState, PcLabel
<1>2. LockInv'
  BY ThreadAssumption, SMTT(60) DEF Inv, TypeOK, LockInv, Native
<1>3. ThreadInv'
  BY ThreadAssumption, SMTT(60) DEF Inv, TypeOK, ThreadInv, Native
<1>4. SpawnInv'
  BY ThreadAssumption, SMTT(60) DEF Inv, TypeOK, ThreadInv, SpawnInv, Native
<1>5. StopInv'
  BY ThreadAssumption, SMTT(60) DEF Inv, TypeOK, StopInv, Native
<1>6. CountInv'
  BY ThreadAssumption, SMTT(60) DEF Inv, TypeOK, CountInv, Native
<1> QED BY <1>1, <1>2, <1>3, <1>4, <1>5, <1>6 DEF Inv

\* add_thread registers a parked thread, never during a stop.
LEMMA AddThreadPreserves ==
    ASSUME Inv, NEW t \in Thread, AddThread(t)
    PROVE  Inv'
<1>1. TypeOK'
  <2>1. scope[t] = "add"
    BY Zenon DEF Inv, ThreadInv, AddThread
  <2>2. arg[t] \in Thread
    BY <2>1, SMTT(60) DEF Inv, SpawnInv
  <2> QED
    BY <2>2 DEF Inv, TypeOK, AddThread, PcLabel
<1>2. LockInv'
  BY ThreadAssumption, SMTT(60) DEF Inv, TypeOK, LockInv, AddThread
<1>3. ThreadInv'
  BY ThreadAssumption, SMTT(60) DEF Inv, TypeOK, ThreadInv, SpawnInv, AddThread
<1>4. SpawnInv'
  BY ThreadAssumption, SMTT(60) DEF Inv, TypeOK, ThreadInv, SpawnInv, AddThread
<1>5. StopInv'
  BY ThreadAssumption, SMTT(60) DEF Inv, TypeOK, StopInv, AddThread
<1>6. CountInv'
  BY ThreadAssumption, SMTT(60) DEF Inv, TypeOK, CountInv, AddThread
<1> QED BY <1>1, <1>2, <1>3, <1>4, <1>5, <1>6 DEF Inv

\* The new thread starts parked, in unpark.
LEMMA StartThreadPreserves ==
    ASSUME Inv, NEW t \in Thread, StartThread(t)
    PROVE  Inv'
<1>1. TypeOK'
  <2>1. scope[t] = "add"
    BY Zenon DEF Inv, ThreadInv, StartThread
  <2>2. arg[t] \in Thread
    BY <2>1 DEF Inv, SpawnInv
  <2> QED
    BY <2>2 DEF Inv, TypeOK, StartThread, PcLabel
<1>2. LockInv'
  BY ThreadAssumption, SMTT(60) DEF Inv, TypeOK, LockInv, ThreadInv, SpawnInv,
     StartThread
<1>3. ThreadInv'
  BY ThreadAssumption, SMTT(60) DEF Inv, TypeOK, ThreadInv, SpawnInv, StartThread
<1>4. SpawnInv'
  BY ThreadAssumption, SMTT(30) DEF Inv, TypeOK, ThreadInv, SpawnInv, StartThread
<1>5. StopInv'
  BY ThreadAssumption, SMTT(60) DEF Inv, TypeOK, ThreadInv, SpawnInv, StopInv,
     StartThread
<1>6. CountInv'
  BY ThreadAssumption, SMTT(30) DEF Inv, TypeOK, CountInv, StartThread
<1> QED BY <1>1, <1>2, <1>3, <1>4, <1>5, <1>6 DEF Inv

\* join waits for JoinData.running.
LEMMA JoinPreserves ==
    ASSUME Inv, NEW t \in Thread, Join(t)
    PROVE  Inv'
<1>1. TypeOK'
  BY ThreadAssumption, SMTT(60) DEF Inv, TypeOK, Join, ThreadState, PcLabel
<1>2. LockInv'
  BY ThreadAssumption, SMTT(60) DEF Inv, TypeOK, LockInv, Join
<1>3. ThreadInv'
  BY ThreadAssumption, SMTT(60) DEF Inv, TypeOK, ThreadInv, Join
<1>4. SpawnInv'
  BY ThreadAssumption, SMTT(60) DEF Inv, TypeOK, ThreadInv, SpawnInv, Join
<1>5. StopInv'
  BY ThreadAssumption, SMTT(60) DEF Inv, TypeOK, StopInv, Join
<1>6. CountInv'
  BY ThreadAssumption, SMTT(60) DEF Inv, TypeOK, CountInv, Join
<1> QED BY <1>1, <1>2, <1>3, <1>4, <1>5, <1>6 DEF Inv

\* A thread leaves the list parked, never during a stop.
LEMMA RemoveThreadPreserves ==
    ASSUME Inv, NEW t \in Thread, RemoveThread(t)
    PROVE  Inv'
<1>1. TypeOK'
  BY ThreadAssumption, SMTT(60) DEF Inv, TypeOK, RemoveThread, ThreadState, PcLabel
<1>2. LockInv'
  BY ThreadAssumption, SMTT(30) DEF Inv, TypeOK, LockInv, RemoveThread
<1>3. ThreadInv'
  BY ThreadAssumption, SMTT(60) DEF Inv, TypeOK, LockInv, ThreadInv, StopInv,
     RemoveThread
<1>4. SpawnInv'
  BY ThreadAssumption DEF Inv, TypeOK, SpawnInv, RemoveThread
<1>5. StopInv'
  BY ThreadAssumption, SMTT(60) DEF Inv, TypeOK, StopInv, RemoveThread
<1>6. CountInv'
  BY ThreadAssumption, SMTT(60) DEF Inv, TypeOK, CountInv, RemoveThread
<1> QED BY <1>1, <1>2, <1>3, <1>4, <1>5, <1>6 DEF Inv

\* stop() of a thread that is no longer registered.
LEMMA StopPreserves ==
    ASSUME Inv, NEW t \in Thread, Stop(t)
    PROVE  Inv'
<1>1. TypeOK'
  BY ThreadAssumption, SMTT(60) DEF Inv, TypeOK, Stop, ThreadState, PcLabel
<1>2. LockInv'
  BY ThreadAssumption, SMTT(60) DEF Inv, TypeOK, LockInv, Stop
<1>3. ThreadInv'
  BY ThreadAssumption, SMTT(60) DEF Inv, TypeOK, ThreadInv, Stop
<1>4. SpawnInv'
  BY ThreadAssumption, SMTT(60) DEF Inv, TypeOK, SpawnInv, Stop
<1>5. StopInv'
  BY ThreadAssumption, SMTT(60) DEF Inv, TypeOK, StopInv, Stop
<1>6. CountInv'
  BY ThreadAssumption, SMTT(60) DEF Inv, TypeOK, CountInv, Stop
<1> QED BY <1>1, <1>2, <1>3, <1>4, <1>5, <1>6 DEF Inv

\* join_all of the main thread, which is no longer registered.
LEMMA JoinAllPreserves ==
    ASSUME Inv, NEW t \in Thread, JoinAll(t)
    PROVE  Inv'
<1>1. TypeOK'
  BY ThreadAssumption, SMTT(60) DEF Inv, TypeOK, JoinAll, ThreadState, PcLabel
<1>2. LockInv'
  BY ThreadAssumption, SMTT(60) DEF Inv, TypeOK, LockInv, JoinAll
<1>3. ThreadInv'
  BY ThreadAssumption, SMTT(60) DEF Inv, TypeOK, ThreadInv, JoinAll
<1>4. SpawnInv'
  BY ThreadAssumption, SMTT(60) DEF Inv, TypeOK, SpawnInv, JoinAll
<1>5. StopInv'
  BY ThreadAssumption, SMTT(60) DEF Inv, TypeOK, StopInv, JoinAll
<1>6. CountInv'
  BY ThreadAssumption DEF Inv, TypeOK, CountInv, JoinAll
<1> QED BY <1>1, <1>2, <1>3, <1>4, <1>5, <1>6 DEF Inv
=============================================================================
