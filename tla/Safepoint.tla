------------------------------ MODULE Safepoint ------------------------------
(***************************************************************************)
(* Thread states, parking, safepoints and stop-the-world: threads.rs and   *)
(* safepoint.rs, with thread creation and exit from stdlib.rs and vm.rs.   *)
(*                                                                         *)
(* pc[t] names the next step of thread t.  A step is one atomic access to  *)
(* shared state: a compare-exchange or swap of DoraThread.state, a load or *)
(* store of the safepoint_requested flag, or one critical section of a     *)
(* mutex.  A condition variable is the set of threads asleep at the label  *)
(* that waits on it; waking only makes a thread re-check its condition.    *)
(***************************************************************************)
EXTENDS Integers, FiniteSets

CONSTANTS
    Thread,    \* every DoraThread the program will ever create
    Main,      \* the one execute_on_main registers
    None       \* no thread

ASSUME ThreadAssumption ==
    IsFiniteSet(Thread) /\ Main \in Thread /\ None \notin Thread

VARIABLES
    pc,            \* control location of each thread
    scope,         \* what the thread called parked_scope (or park) for
    arg,           \* the thread it spawns or joins there
    state,         \* DoraThread.state
    flag,          \* ThreadLocalData.safepoint_requested
    registered,    \* Threads.threads
    lock,          \* holder of the mutex around Threads.threads, or None
    armed,         \* BarrierData.armed
    stopped,       \* BarrierData.stopped
    asleep,        \* threads blocked in Condvar::wait
    joinRunning,   \* JoinData.running
    spawner,       \* the thread that spawned a thread
    todo,          \* the stopper's loop: threads still to be visited
    target, cur,   \* the stopper's loop: the thread visited, current_state
    running,       \* local `running` of stop_threads
    counted,       \* history: the threads counted in `running`
    arrived        \* history: the threads counted in `stopped`

barrier == <<armed, stopped, arrived>>
loop    == <<todo, target, cur, running, counted>>
life    == <<registered, joinRunning, spawner>>
vars    == <<pc, scope, arg, state, flag, lock, asleep, barrier, loop, life>>

ThreadState ==
    {"Running", "Parked", "SafepointRequested", "ParkedSafepoint", "Safepoint"}

Scope == {"native", "stw", "add", "join", "exit"}

\* Locations at which a thread executes, or may yet return to, managed code.
MutatorPc == {"dora", "spawn", "safepoint_slow", "park_slow"}

\* Locations inside stop_the_world with the threads mutex held.
StopPc   == {"arm", "set_flags", "load_state", "cas_state", "wait_stopped"}
ResumePc == {"clear_flags", "resume", "disarm"}
OwnerPc  == StopPc \union {"operation"} \union ResumePc \union {"unlock"}

WakeupPc == {"wait_in_safepoint", "wait_in_unpark"}   \* Barrier.cv_wakeup

PcLabel ==
    {"unborn", "created", "dead", "stop", "join_all", "halted",
     "notify_park", "arrive", "unpark", "unpark_slow"}
        \union Scope \union MutatorPc \union OwnerPc \union WakeupPc

Goto(t, l) == pc' = [pc EXCEPT ![t] = l]

Init ==
    /\ pc = [t \in Thread |-> IF t = Main THEN "dora" ELSE "unborn"]
    /\ scope = [t \in Thread |-> "native"]
    /\ arg = [t \in Thread |-> None]
    /\ state = [t \in Thread |-> IF t = Main THEN "Running" ELSE "Parked"]
    /\ flag = [t \in Thread |-> FALSE]
    /\ registered = {Main}
    /\ lock = None
    /\ armed = FALSE /\ stopped = 0 /\ arrived = {}
    /\ asleep = {}
    /\ joinRunning = [t \in Thread |-> TRUE]
    /\ spawner = [t \in Thread |-> None]
    /\ todo = {} /\ target = None /\ cur = "Running"
    /\ running = 0 /\ counted = {}

-----------------------------------------------------------------------------
(* DoraThread::park and the operations that start with it.                 *)

\* The compare-exchange Running -> Parked of park(); park_slow if it fails.
Park(t, s) ==
    /\ pc[t] = "dora"
    /\ scope' = [scope EXCEPT ![t] = s]
    /\ IF state[t] = "Running"
       THEN state' = [state EXCEPT ![t] = "Parked"] /\ Goto(t, s)
       ELSE Goto(t, "park_slow") /\ UNCHANGED state
    /\ UNCHANGED <<flag, lock, asleep, barrier, loop, registered, joinRunning>>

\* Native code that does not touch the heap (I/O, sleeping, waiting for a
\* mutex or condition), a stop-the-world request, or the end of the thread.
ParkForScope(t) ==
    /\ \E s \in {"native", "stw", "exit"} : Park(t, s)
    /\ UNCHANGED <<arg, spawner>>

\* spawn_thread: a DoraThread in state Parked, then add_thread parks.
SpawnThread(t, u) ==
    /\ pc[u] = "unborn" /\ spawner[u] = None
    /\ spawner' = [spawner EXCEPT ![u] = t]
    /\ arg' = [arg EXCEPT ![t] = u]
    /\ Park(t, "add")

\* join_thread: here a thread only joins threads it spawned.
JoinThread(t, u) ==
    /\ spawner[u] = t
    /\ arg' = [arg EXCEPT ![t] = u]
    /\ Park(t, "join")
    /\ UNCHANGED spawner

ParkSlow(t) ==
    /\ pc[t] = "park_slow"
    /\ state' = [state EXCEPT ![t] = "ParkedSafepoint"]
    /\ Goto(t, "notify_park")
    /\ UNCHANGED <<scope, arg, flag, lock, asleep, barrier, loop, life>>

\* Mutant: the stopper is not notified.
NotifyNobody == UNCHANGED asleep

\* Barrier.cv_notify.notify_one: only the owner of the threads mutex waits.
NotifyStopper == asleep' = asleep \ {u \in asleep : pc[u] = "wait_stopped"}

\* Mutant: the arrival is subtracted.
CountStoppedDown(t) ==
    stopped' = stopped - 1 /\ arrived' = arrived \union {t} /\ UNCHANGED armed

\* stopped += 1 under the barrier's mutex
CountStopped(t) ==
    /\ stopped' = stopped + 1
    /\ arrived' = arrived \union {t}
    /\ UNCHANGED armed

NotifyPark(t) ==
    /\ pc[t] = "notify_park"
    /\ CountStopped(t)
    /\ NotifyStopper
    /\ Goto(t, scope[t])
    /\ UNCHANGED <<scope, arg, state, flag, lock, loop, life>>

-----------------------------------------------------------------------------
(* DoraThread::unpark.                                                     *)

\* After unpark, spawn_thread goes on to start the new thread.
Unparked(t) == IF scope[t] = "add" THEN "spawn" ELSE "dora"

\* Mutant: Running is stored without looking at the old state.
UnparkBySwap(t) ==
    /\ pc[t] \in {"unpark", "unpark_slow"}
    /\ state' = [state EXCEPT ![t] = "Running"] /\ Goto(t, Unparked(t))
    /\ UNCHANGED <<scope, arg, flag, lock, asleep, barrier, loop, life>>

\* The compare-exchange Parked -> Running, at both its places.
Unpark(t) ==
    /\ pc[t] \in {"unpark", "unpark_slow"}
    /\ IF state[t] = "Parked"
       THEN state' = [state EXCEPT ![t] = "Running"] /\ Goto(t, Unparked(t))
       ELSE /\ Goto(t, IF pc[t] = "unpark" THEN "unpark_slow"
                                           ELSE "wait_in_unpark")
            /\ UNCHANGED state
    /\ UNCHANGED <<scope, arg, flag, lock, asleep, barrier, loop, life>>

\* Condvar::wait while the barrier is armed, else go on at l.
WaitWhileArmed(t, l) ==
    /\ t \notin asleep
    /\ IF armed
       THEN asleep' = asleep \union {t} /\ UNCHANGED pc
       ELSE Goto(t, l) /\ UNCHANGED asleep
    /\ UNCHANGED <<scope, arg, state, flag, lock, barrier, loop, life>>

WaitInUnpark(t) ==
    pc[t] = "wait_in_unpark" /\ WaitWhileArmed(t, "unpark_slow")

-----------------------------------------------------------------------------
(* safepoint_slow.                                                         *)

\* Compiled code finds safepoint_requested set and calls safepoint_slow.
Poll(t) ==
    /\ pc[t] = "dora" /\ flag[t]
    /\ Goto(t, "safepoint_slow")
    /\ scope' = [scope EXCEPT ![t] = "native"]
    /\ UNCHANGED <<arg, state, flag, lock, asleep, barrier, loop, life>>

SafepointSlow(t) ==
    /\ pc[t] = "safepoint_slow"
    /\ state' = [state EXCEPT ![t] = "Safepoint"]
    /\ Goto(t, "arrive")
    /\ UNCHANGED <<scope, arg, flag, lock, asleep, barrier, loop, life>>

\* wait_in_safepoint, up to and including its first Condvar::wait.
Arrive(t) ==
    /\ pc[t] = "arrive"
    /\ CountStopped(t)
    /\ asleep' = (asleep \ {u \in asleep : pc[u] = "wait_stopped"})
                    \union (IF armed THEN {t} ELSE {})
    /\ Goto(t, "wait_in_safepoint")
    /\ UNCHANGED <<scope, arg, state, flag, lock, loop, life>>

WaitInSafepoint(t) ==
    pc[t] = "wait_in_safepoint" /\ WaitWhileArmed(t, "unpark")

-----------------------------------------------------------------------------
(* The callbacks run while parked, and the life of a thread.               *)

Native(t) ==
    /\ pc[t] = "native"
    /\ Goto(t, "unpark")
    /\ UNCHANGED <<scope, arg, state, flag, lock, asleep, barrier, loop, life>>

\* Mutant: the new thread is not pushed to the list.
AddThreadUnlisted(t) ==
    /\ pc[t] = "add" /\ lock = None
    /\ pc' = [pc EXCEPT ![t] = "unpark", ![arg[t]] = "created"]
    /\ UNCHANGED <<scope, arg, state, flag, lock, asleep, barrier, loop, life>>

\* add_thread's critical section
AddThread(t) ==
    /\ pc[t] = "add" /\ lock = None
    /\ registered' = registered \union {arg[t]}
    /\ pc' = [pc EXCEPT ![t] = "unpark", ![arg[t]] = "created"]
    /\ UNCHANGED <<scope, arg, state, flag, lock, asleep, barrier, loop,
                   joinRunning, spawner>>

\* Handles are created in the new thread, then it starts in thread_main with
\* unpark.
StartThread(t) ==
    /\ pc[t] = "spawn"
    /\ pc' = [pc EXCEPT ![t] = "dora", ![arg[t]] = "unpark"]
    /\ scope' = [scope EXCEPT ![t] = "native"]
    /\ UNCHANGED <<arg, state, flag, lock, asleep, barrier, loop, life>>

Join(t) ==
    /\ pc[t] = "join" /\ t \notin asleep
    /\ IF joinRunning[arg[t]]
       THEN asleep' = asleep \union {t} /\ UNCHANGED pc
       ELSE Goto(t, "unpark") /\ UNCHANGED asleep
    /\ UNCHANGED <<scope, arg, state, flag, lock, barrier, loop, life>>

\* remove_current_thread after its park; execute_on_main then runs join_all.
RemoveThread(t) ==
    /\ pc[t] = "exit" /\ lock = None
    /\ registered' = registered \ {t}
    /\ asleep' = asleep \ {u \in asleep : pc[u] = "join_all"}
    /\ Goto(t, IF t = Main THEN "join_all" ELSE "stop")
    /\ UNCHANGED <<scope, arg, state, flag, lock, barrier, loop,
                   joinRunning, spawner>>

\* Mutant: the joining threads are not notified.
StopSilently(t) ==
    /\ pc[t] = "stop"
    /\ joinRunning' = [joinRunning EXCEPT ![t] = FALSE]
    /\ Goto(t, "dead")
    /\ UNCHANGED <<scope, arg, state, flag, lock, asleep, barrier, loop,
                   registered, spawner>>

Stop(t) ==
    /\ pc[t] = "stop"
    /\ joinRunning' = [joinRunning EXCEPT ![t] = FALSE]
    /\ asleep' = asleep \ {u \in asleep : pc[u] = "join" /\ arg[u] = t}
    /\ Goto(t, "dead")
    /\ UNCHANGED <<scope, arg, state, flag, lock, barrier, loop,
                   registered, spawner>>

JoinAll(t) ==
    /\ pc[t] = "join_all" /\ t \notin asleep /\ lock = None
    /\ IF registered # {}
       THEN asleep' = asleep \union {t} /\ UNCHANGED pc
       ELSE Goto(t, "halted") /\ UNCHANGED asleep
    /\ UNCHANGED <<scope, arg, state, flag, lock, barrier, loop, life>>

-----------------------------------------------------------------------------
(* stop_the_world.                                                         *)

\* One round of a `for thread in threads` loop over u; after the last one
\* the stopper goes to l with the loop reset for the next phase.
LoopStep(t, u, l) ==
    /\ u \in todo
    /\ IF todo = {u}
       THEN Goto(t, l) /\ todo' = registered
       ELSE UNCHANGED pc /\ todo' = todo \ {u}

\* Mutant: the threads mutex is not held during the operation.
LockThreadsFree(t) ==
    /\ pc[t] = "stw"
    /\ lock' = t
    /\ Goto(t, IF Cardinality(registered) = 1 THEN "operation" ELSE "arm")
    /\ UNCHANGED <<scope, arg, state, flag, asleep, barrier, loop, life>>

LockThreads(t) ==
    /\ pc[t] = "stw" /\ lock = None
    /\ lock' = t
    /\ Goto(t, IF Cardinality(registered) = 1 THEN "operation" ELSE "arm")
    /\ UNCHANGED <<scope, arg, state, flag, asleep, barrier, loop, life>>

Arm(t) ==
    /\ pc[t] = "arm"
    /\ armed' = TRUE /\ stopped' = 0 /\ arrived' = {}
    /\ todo' = registered /\ running' = 0 /\ counted' = {}
    /\ Goto(t, "set_flags")
    /\ UNCHANGED <<scope, arg, state, flag, lock, asleep, target, cur, life>>

SetFlag(t, u) ==
    /\ pc[t] = "set_flags"
    /\ LoopStep(t, u, "load_state")
    /\ flag' = [flag EXCEPT ![u] = TRUE]
    /\ UNCHANGED <<scope, arg, state, lock, asleep, barrier, target, cur,
                   running, counted, life>>

LoadState(t, u) ==
    /\ pc[t] = "load_state" /\ u \in todo
    /\ target' = u /\ cur' = state[u]
    /\ Goto(t, "cas_state")
    /\ UNCHANGED <<scope, arg, state, flag, lock, asleep, barrier, todo,
                   running, counted, life>>

\* Mutant: a running thread is treated as a parked one.
NextStateParked(s) == "ParkedSafepoint"

\* The states stop_threads puts a thread into; any other state is a panic.
NextState(s) == IF s = "Running" THEN "SafepointRequested" ELSE "ParkedSafepoint"

\* A failed compare-exchange loads the state anew; the loop goes on.
CasRetry(t) ==
    /\ pc[t] = "cas_state"
    /\ cur # "Safepoint" /\ state[target] # cur
    /\ cur' = state[target]
    /\ UNCHANGED <<pc, scope, arg, state, flag, lock, asleep, barrier, todo,
                   target, running, counted, life>>

\* Mutant: a thread already at its safepoint is not counted.
CasStateNoSafepoint(t) ==
    /\ pc[t] = "cas_state"
    /\ cur = "Safepoint" \/ state[target] = cur
    /\ state' = IF cur = "Safepoint" THEN state
                ELSE [state EXCEPT ![target] = NextState(cur)]
    /\ IF cur = "Running"
       THEN running' = running + 1 /\ counted' = counted \union {target}
       ELSE UNCHANGED <<running, counted>>
    /\ Goto(t, IF todo = {target} THEN "wait_stopped" ELSE "load_state")
    /\ todo' = todo \ {target}
    /\ UNCHANGED <<scope, arg, flag, lock, asleep, barrier, target, cur, life>>

\* The state was Safepoint, or the compare-exchange succeeds.
CasState(t) ==
    /\ pc[t] = "cas_state"
    /\ cur = "Safepoint" \/ state[target] = cur
    /\ state' = IF cur = "Safepoint" THEN state
                ELSE [state EXCEPT ![target] = NextState(cur)]
    /\ IF cur \in {"Running", "Safepoint"}
       THEN running' = running + 1 /\ counted' = counted \union {target}
       ELSE UNCHANGED <<running, counted>>
    /\ Goto(t, IF todo = {target} THEN "wait_stopped" ELSE "load_state")
    /\ todo' = todo \ {target}
    /\ UNCHANGED <<scope, arg, flag, lock, asleep, barrier, target, cur, life>>

\* Mutant: the stopper waits for one thread too few.
WaitForAllButOne(t) ==
    /\ pc[t] = "wait_stopped" /\ t \notin asleep
    /\ IF stopped + 1 < running
       THEN asleep' = asleep \union {t} /\ UNCHANGED pc
       ELSE Goto(t, "operation") /\ UNCHANGED asleep
    /\ UNCHANGED <<scope, arg, state, flag, lock, barrier, loop, life>>

WaitUntilThreadsStopped(t) ==
    /\ pc[t] = "wait_stopped" /\ t \notin asleep
    /\ IF stopped < running
       THEN asleep' = asleep \union {t} /\ UNCHANGED pc
       ELSE Goto(t, "operation") /\ UNCHANGED asleep
    /\ UNCHANGED <<scope, arg, state, flag, lock, barrier, loop, life>>

\* The operation itself; with a single thread nothing was armed.
Operation(t) ==
    /\ pc[t] = "operation"
    /\ Goto(t, IF armed THEN "clear_flags" ELSE "unlock")
    /\ todo' = registered
    /\ UNCHANGED <<scope, arg, state, flag, lock, asleep, barrier, target, cur,
                   running, counted, life>>

\* Mutant: the flag of a resumed thread stays set.
ClearNoFlag(t, u) ==
    /\ pc[t] = "clear_flags"
    /\ LoopStep(t, u, "resume")
    /\ UNCHANGED <<scope, arg, state, flag, lock, asleep, barrier, target, cur,
                   running, counted, life>>

ClearFlag(t, u) ==
    /\ pc[t] = "clear_flags"
    /\ LoopStep(t, u, "resume")
    /\ flag' = [flag EXCEPT ![u] = FALSE]
    /\ UNCHANGED <<scope, arg, state, lock, asleep, barrier, target, cur,
                   running, counted, life>>

ResumeThread(t, u) ==
    /\ pc[t] = "resume"
    /\ LoopStep(t, u, "disarm")
    /\ state' = [state EXCEPT ![u] = "Parked"]
    /\ UNCHANGED <<scope, arg, flag, lock, asleep, barrier, target, cur,
                   running, counted, life>>

\* Mutant: the threads waiting at the barrier are not notified.
DisarmSilently(t) ==
    /\ pc[t] = "disarm"
    /\ armed' = FALSE
    /\ Goto(t, "unlock")
    /\ UNCHANGED <<scope, arg, state, flag, lock, asleep, stopped, arrived,
                   loop, life>>

Disarm(t) ==
    /\ pc[t] = "disarm"
    /\ armed' = FALSE
    /\ asleep' = asleep \ {u \in asleep : pc[u] \in WakeupPc}
    /\ Goto(t, "unlock")
    /\ UNCHANGED <<scope, arg, state, flag, lock, stopped, arrived, loop, life>>

\* The mutex guard is dropped at the end of the closure.
Unlock(t) ==
    /\ pc[t] = "unlock"
    /\ lock' = None
    /\ Goto(t, "unpark")
    /\ UNCHANGED <<scope, arg, state, flag, asleep, barrier, loop, life>>

-----------------------------------------------------------------------------
Barrier(t) ==
    ParkSlow(t) \/ NotifyPark(t) \/ Unpark(t) \/ WaitInUnpark(t)
        \/ SafepointSlow(t) \/ Arrive(t) \/ WaitInSafepoint(t)

Lifecycle(t) ==
    \/ Native(t) \/ AddThread(t) \/ StartThread(t) \/ Join(t)
    \/ RemoveThread(t) \/ Stop(t) \/ JoinAll(t)

Stopper(t) ==
    \/ LockThreads(t) \/ Arm(t)
    \/ \E u \in Thread : SetFlag(t, u)
    \/ \E u \in Thread : LoadState(t, u)
    \/ CasRetry(t) \/ CasState(t)
    \/ WaitUntilThreadsStopped(t) \/ Operation(t)
    \/ \E u \in Thread : ClearFlag(t, u)
    \/ \E u \in Thread : ResumeThread(t, u)
    \/ Disarm(t) \/ Unlock(t)

\* What the Dora program does next is its own choice.
Program(t) ==
    \/ ParkForScope(t)
    \/ \E u \in Thread : SpawnThread(t, u)
    \/ \E u \in Thread : JoinThread(t, u)

Halted == pc[Main] = "halted" /\ UNCHANGED vars

Next ==
    \/ \E t \in Thread :
          Program(t) \/ Poll(t) \/ Barrier(t) \/ Lifecycle(t) \/ Stopper(t)
    \/ Halted

Spec == Init /\ [][Next]_vars

\* Native and barrier code makes progress (WF).  The threads mutex is eventually
\* fair (parking_lot hands it over), so who keeps asking gets it (SF).  Compiled
\* code polls at function entry and loop back-edges: a thread that keeps running
\* managed code cannot pass polls forever with the flag set and not see it (SF).
Fairness ==
    \A t \in Thread :
        /\ WF_vars(Barrier(t)) /\ WF_vars(Lifecycle(t)) /\ WF_vars(Stopper(t))
        /\ SF_vars(Poll(t))
        /\ SF_vars(LockThreads(t)) /\ SF_vars(AddThread(t))
        /\ SF_vars(RemoveThread(t)) /\ SF_vars(JoinAll(t))

FairSpec == Spec /\ Fairness

-----------------------------------------------------------------------------
(* Properties.                                                             *)

\* Every variable has the type its Rust declaration gives it.
TypeOK ==
    /\ pc \in [Thread -> PcLabel]
    /\ scope \in [Thread -> Scope]
    /\ arg \in [Thread -> Thread \union {None}]
    /\ state \in [Thread -> ThreadState]
    /\ flag \in [Thread -> BOOLEAN]
    /\ registered \subseteq Thread
    /\ lock \in Thread \union {None}
    /\ armed \in BOOLEAN /\ stopped \in Nat /\ arrived \subseteq Thread
    /\ asleep \subseteq Thread
    /\ joinRunning \in [Thread -> BOOLEAN]
    /\ spawner \in [Thread -> Thread \union {None}]
    /\ todo \subseteq Thread /\ target \in Thread \union {None}
    /\ cur \in ThreadState
    /\ running \in Nat /\ counted \subseteq Thread

\* While a stop-the-world operation runs, no thread is in managed code and no
\* thread can slip back into it, whichever way it was stopped (parked before
\* the request, parked because of it, or at a safepoint).
WorldStopped ==
    \A s, t \in Thread : pc[s] = "operation" => pc[t] \notin MutatorPc

\* The assertions and the panic on thread states in stop_threads,
\* resume_threads, safepoint_slow, park_slow and unpark_slow never fire.
NoUnexpectedState ==
    \A t \in Thread :
        /\ pc[t] = "park_slow" => state[t] = "SafepointRequested"
        /\ pc[t] = "safepoint_slow" => state[t] \in {"Running", "SafepointRequested"}
        /\ pc[t] = "unpark_slow" => state[t] \in {"Parked", "ParkedSafepoint"}
        /\ pc[t] = "cas_state" => cur \in {"Running", "Parked", "Safepoint"}
        /\ pc[t] = "resume" =>
               \A u \in todo : state[u] \in {"Safepoint", "ParkedSafepoint"}

\* The barrier's assertions: it is armed once at a time, and every thread that
\* reports to it does so while it is armed, never for a finished stop.
BarrierArmed ==
    \A t \in Thread :
        /\ pc[t] = "arm" => ~armed
        /\ pc[t] \in {"notify_park", "arrive", "wait_stopped", "disarm"} => armed

\* assert_eq!(data.stopped, threads): no thread is counted as stopped that
\* stop_threads did not count as running, none is counted twice, and the
\* operation starts with the counts equal.
ExactCount ==
    \A t \in Thread :
        /\ pc[t] = "wait_stopped" => stopped <= running
        /\ pc[t] = "operation" /\ armed => stopped = running

\* A thread in managed code is in the list the collector takes its roots from;
\* so is a thread whose first handles its spawner is creating.
RootsVisible ==
    \A t \in Thread :
        /\ pc[t] \in MutatorPc => t \in registered
        /\ pc[t] = "spawn" => arg[t] \in registered

\* Nobody changes the state of a thread in managed code under its feet, except
\* that stop_threads may turn Running into SafepointRequested.
OnlyRequested ==
    [][\A t \in Thread :
          pc[t] \in MutatorPc /\ pc'[t] = pc[t] /\ state'[t] # state[t]
             => state[t] = "Running" /\ state'[t] = "SafepointRequested"]_vars

\* A stop-the-world request is eventually served, whatever the others do.
StopCompletes == \A t \in Thread : pc[t] = "stw" ~> pc[t] = "operation"

\* No wakeup of the barrier is lost: once stops cease, every thread waiting
\* in a safepoint or in unpark gets going again.
AllResume ==
    <>[](lock = None) =>
        \A t \in Thread :
            pc[t] \in {"wait_in_safepoint", "wait_in_unpark", "unpark"}
                ~> pc[t] \in MutatorPc

\* A thread that waits for another's end is woken by it.
JoinWakes ==
    \A t \in Thread :
        pc[t] = "join" /\ ~joinRunning[arg[t]] ~> pc[t] # "join"

\* What the stop-the-world protocol implements: mutators and operations
\* exclude each other, as the readers and the writer of a lock.
Mutators == {t \in Thread : pc[t] \in MutatorPc}
Operator == IF lock # None /\ pc[lock] = "operation" THEN lock ELSE None

World == INSTANCE StopTheWorld WITH mutators <- Mutators, operator <- Operator

\* Every step of the protocol is a step, or no step, of the abstract world.
ImplementsStopTheWorld == World!Spec

-----------------------------------------------------------------------------
(* The inductive invariant behind the safety properties.                   *)

\* Some thread holds the threads mutex at one of the labels P.
Phase(P) == lock # None /\ pc[lock] \in P

\* How far the current stop has come for thread u: not yet visited by
\* stop_threads, visited, held while the operation runs, or none of these.
Before(u) == \/ Phase({"set_flags"})
             \/ Phase({"load_state", "cas_state"}) /\ u \in todo
Visited(u) == \/ Phase({"load_state", "cas_state"}) /\ u \notin todo
              \/ Phase({"wait_stopped"})
Held(u) == \/ Phase({"operation", "clear_flags"}) /\ armed
           \/ Phase({"resume"}) /\ u \in todo
Free(u) == \/ Phase({"resume"}) /\ u \notin todo
           \/ Phase({"disarm"}) \/ ~armed

LoopPc == {"set_flags", "load_state", "cas_state", "clear_flags", "resume"}

GonePc == {"unborn", "stop", "dead", "join_all", "halted"}

\* The mutex is held exactly by a thread inside stop_the_world, which is
\* registered; the barrier is armed from arm to disarm; the single-thread
\* shortcut is taken only by the one registered thread.
LockInv ==
    /\ \A t \in Thread : pc[t] \in OwnerPc <=> lock = t
    /\ Phase((StopPc \ {"arm"}) \union ResumePc) => armed
    /\ armed => Phase((StopPc \ {"arm"}) \union {"operation"} \union ResumePc)
    /\ Phase({"operation"}) /\ ~armed => registered = {lock}
    /\ Phase({"cas_state"}) => target \in todo
    /\ Phase(LoopPc) => todo \subseteq registered

\* Where a thread is and which state it has.
ThreadInv ==
    \A t \in Thread :
        /\ pc[t] \in MutatorPc <=> state[t] \in {"Running", "SafepointRequested"}
        /\ pc[t] \in GonePc <=> t \notin registered
        /\ pc[t] \in GonePc => state[t] = "Parked"
        /\ pc[t] = "arrive" => state[t] = "Safepoint"
        /\ state[t] = "Safepoint" => pc[t] \in {"arrive", "wait_in_safepoint"}
        /\ pc[t] = "park_slow" => state[t] = "SafepointRequested"
        /\ pc[t] \in Scope \union OwnerPc \union {"unborn", "created"}
              => scope[t] = IF pc[t] \in Scope THEN pc[t]
                            ELSE IF pc[t] \in OwnerPc THEN "stw" ELSE "native"
        /\ pc[t] \in {"dora", "safepoint_slow", "arrive", "wait_in_safepoint"}
              => scope[t] # "add"
        /\ pc[t] = "spawn" => scope[t] = "add"

\* A thread that spawns another is the only one to do so, and the new thread
\* has not started.
SpawnInv ==
    \A t \in Thread :
        /\ scope[t] = "add" => arg[t] \in Thread /\ spawner[arg[t]] = t
        /\ scope[t] = "add" /\ pc[t] \in {"park_slow", "notify_park", "add"}
              => pc[arg[t]] = "unborn"
        /\ scope[t] = "add"
              /\ pc[t] \in {"unpark", "unpark_slow", "wait_in_unpark", "spawn"}
              => pc[arg[t]] = "created"

\* What the phases of a stop allow the state of a thread to be.
StopInv ==
    \A u \in Thread :
        /\ u \in registered /\ Before(u)
              => state[u] \in {"Running", "Parked", "Safepoint"}
        /\ u \in registered /\ Visited(u)
              => state[u] \in {"SafepointRequested", "ParkedSafepoint", "Safepoint"}
        /\ u \in registered /\ Held(u)
              => state[u] \in {"ParkedSafepoint", "Safepoint"}
        /\ Free(u) => state[u] \in {"Running", "Parked"}
        /\ pc[u] \in {"safepoint_slow", "arrive", "notify_park"}
              => Phase(StopPc \ {"arm"})
        /\ pc[u] = "notify_park" => state[u] = "ParkedSafepoint"
        /\ flag[u] => /\ u \in registered
                      /\ \/ Phase((StopPc \ {"arm"}) \union {"operation"}) /\ armed
                         \/ Phase({"clear_flags"}) /\ u \in todo
        /\ Phase({"cas_state"}) =>
              /\ cur \in {"Running", "Parked", "Safepoint"}
              /\ cur = "Safepoint" => state[target] = "Safepoint"

\* The two counts are the sizes of two sets; a thread that still owes its
\* arrival is counted by stop_threads as soon as it has been visited.
CountInv ==
    /\ stopped = Cardinality(arrived)
    /\ running = Cardinality(counted)
    /\ Phase(StopPc \ {"arm"}) =>
        \A u \in Thread :
            /\ u \in counted \union arrived => u \in registered
            /\ Before(u) => u \notin counted
            /\ u \in arrived => /\ pc[u] \notin {"arrive", "notify_park"}
                                /\ state[u] \in {"Safepoint", "ParkedSafepoint"}
            /\ Before(u) /\ u \in arrived => state[u] = "Safepoint"
            /\ Visited(u) /\ u \in registered =>
                  /\ \/ u \in arrived \/ pc[u] = "notify_park"
                     \/ state[u] \in {"SafepointRequested", "Safepoint"}
                     => u \in counted
    /\ Phase({"operation"}) /\ armed => stopped = running

Inv == TypeOK /\ LockInv /\ ThreadInv /\ SpawnInv /\ StopInv /\ CountInv
=============================================================================
