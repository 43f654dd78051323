----------------------------- MODULE DoraMonitor -----------------------------
(***************************************************************************)
(* Mutex and Condition of stdlib/thread.dora on top of vm/waitlists.rs and *)
(* the blocking_data of threads.rs.                                        *)
(*                                                                         *)
(* A step is one atomic access of Dora code, or one critical section of    *)
(* the mutex around WaitLists.data.  The hash map from objects to wait     *)
(* lists is a function here (see ObjectHashMap for the table itself); the  *)
(* lists are linked through the threads, as in the code.  A thread holds   *)
(* at most one mutex at a time.                                            *)
(***************************************************************************)
EXTENDS Integers, Sequences, FiniteSets

CONSTANTS
    Thread, Mutex, Condition,
    None        \* the null DoraThreadPtr; owner_thread_id 0

ASSUME SyncAssumption ==
    /\ None \notin Thread
    /\ Mutex \intersect Condition = {}

Object == Mutex \union Condition

UNLOCKED == 0
LOCKED == 1
LOCKED_CONTENDED == 2

VARIABLES
    pc,          \* control location of each thread
    mtx, cond,   \* the mutex and the condition the thread works on
    ret,         \* where unlockOp or a notification returns to
    data,        \* Mutex.data
    owner,       \* Mutex.owner_thread_id
    waiters,     \* Condition.waiters
    entry,       \* WaitLists.data: HeadAndTail of each object, or no entry
    blocking,    \* BlockingData.blocking.0
    next,        \* BlockingData.blocking.1
    asleep,      \* threads in cv_blocking.wait
    walker,      \* the thread inside wakeup_all, or None
    cursor       \* its local `next`

call  == <<mtx, cond, ret>>
lists == <<entry, blocking, next, asleep>>
walk  == <<walker, cursor>>
vars  == <<pc, call, data, owner, waiters, lists, walk>>

NoEntry == [head |-> None, tail |-> None]

Goto(t, l) == pc' = [pc EXCEPT ![t] = l]

Init ==
    /\ pc = [t \in Thread |-> "idle"]
    /\ mtx = [t \in Thread |-> None]
    /\ cond = [t \in Thread |-> None]
    /\ ret = [t \in Thread |-> "idle"]
    /\ data = [m \in Mutex |-> UNLOCKED]
    /\ owner = [m \in Mutex |-> None]
    /\ waiters = [c \in Condition |-> 0]
    /\ entry = [o \in Object |-> NoEntry]
    /\ blocking = [t \in Thread |-> FALSE]
    /\ next = [t \in Thread |-> None]
    /\ asleep = {}
    /\ walker = None /\ cursor = None

-----------------------------------------------------------------------------
(* WaitLists, with its mutex held.                                         *)

\* Mutant: a waiter is put in front of the others.
AppendToFront(t, o) ==
    LET e == entry[o] IN
    /\ entry' = [entry EXCEPT ![o] =
                    [head |-> t, tail |-> IF e = NoEntry THEN t ELSE e.tail]]
    /\ next' = [next EXCEPT ![t] = e.head]
    /\ blocking' = [blocking EXCEPT ![t] = TRUE]
    /\ UNCHANGED asleep

\* append_to_waitlist: prepare_for_waitlist and set_waitlist_successor.
Append_to_waitlist(t, o) ==
    LET e == entry[o] IN
    /\ entry' = [entry EXCEPT ![o] =
                    [head |-> IF e = NoEntry THEN t ELSE e.head, tail |-> t]]
    /\ next' = [u \in Thread |-> IF e # NoEntry /\ u = e.tail THEN t
                                 ELSE IF u = t THEN None ELSE next[u]]
    /\ blocking' = [blocking EXCEPT ![t] = TRUE]
    /\ UNCHANGED asleep

\* Mutant: cv_blocking is not notified.
RemoveSilently(t) ==
    /\ blocking' = [blocking EXCEPT ![t] = FALSE]
    /\ next' = [next EXCEPT ![t] = None]
    /\ UNCHANGED asleep

\* DoraThread::remove_from_waitlist
Remove_from_waitlist(t) ==
    /\ blocking' = [blocking EXCEPT ![t] = FALSE]
    /\ next' = [next EXCEPT ![t] = None]
    /\ asleep' = asleep \ {t}

\* Mutant: the entry is removed although other threads are queued.
WakeupDropsRest(o) ==
    LET e == entry[o] IN
    IF e = NoEntry THEN UNCHANGED lists
    ELSE /\ Remove_from_waitlist(e.head)
         /\ entry' = [entry EXCEPT ![o] = NoEntry]

\* WaitLists::wakeup
Wakeup(o) ==
    LET e == entry[o] IN
    IF e = NoEntry THEN UNCHANGED lists
    ELSE /\ Remove_from_waitlist(e.head)
         /\ entry' = [entry EXCEPT ![o] =
                        IF next[e.head] = None THEN NoEntry
                        ELSE [e EXCEPT !.head = next[e.head]]]

-----------------------------------------------------------------------------
(* Mutex::lockOp and unlockOp.                                             *)

LockOp(t, m) ==
    /\ pc[t] = "idle"
    /\ mtx' = [mtx EXCEPT ![t] = m]
    /\ Goto(t, "lock")
    /\ UNCHANGED <<cond, ret, data, owner, waiters, lists, walk>>

\* compareExchange(UNLOCKED, LOCKED), else lockSlow
LockFast(t) ==
    LET m == mtx[t] IN
    /\ pc[t] = "lock"
    /\ IF data[m] = UNLOCKED
       THEN data' = [data EXCEPT ![m] = LOCKED] /\ Goto(t, "locked")
       ELSE UNCHANGED data /\ Goto(t, "contend")
    /\ UNCHANGED <<call, owner, waiters, lists, walk>>

\* transitionToLockedContended
Contend(t) ==
    LET m == mtx[t] IN
    /\ pc[t] = "contend"
    /\ data' = [data EXCEPT ![m] = IF @ = LOCKED THEN LOCKED_CONTENDED ELSE @]
    /\ Goto(t, IF data[m] # UNLOCKED THEN "wait" ELSE "retry")
    /\ UNCHANGED <<call, owner, waiters, lists, walk>>

\* WaitLists::block: queued only if the mutex is still LOCKED_CONTENDED.
MutexWait(t) ==
    LET m == mtx[t] IN
    /\ pc[t] = "wait" /\ walker = None
    /\ IF data[m] = LOCKED_CONTENDED
       THEN Append_to_waitlist(t, m) /\ Goto(t, "mutex_block")
       ELSE UNCHANGED lists /\ Goto(t, "retry")
    /\ UNCHANGED <<call, data, owner, waiters, walk>>

\* DoraThread::block, for a mutex and for a condition
Block(t) ==
    /\ pc[t] \in {"mutex_block", "cond_block"} /\ t \notin asleep
    /\ IF blocking[t]
       THEN asleep' = asleep \union {t} /\ UNCHANGED pc
       ELSE /\ Goto(t, IF pc[t] = "mutex_block" THEN "retry" ELSE "lock")
            /\ UNCHANGED asleep
    /\ UNCHANGED <<call, data, owner, waiters, entry, blocking, next, walk>>

\* compareExchange(UNLOCKED, LOCKED_CONTENDED): the queue may not be empty.
Retry(t) ==
    LET m == mtx[t] IN
    /\ pc[t] = "retry"
    /\ IF data[m] = UNLOCKED
       THEN data' = [data EXCEPT ![m] = LOCKED_CONTENDED] /\ Goto(t, "locked")
       ELSE UNCHANGED data /\ Goto(t, "contend")
    /\ UNCHANGED <<call, owner, waiters, lists, walk>>

SetOwner(t) ==
    /\ pc[t] = "locked"
    /\ owner' = [owner EXCEPT ![mtx[t]] = t]
    /\ Goto(t, "critical")
    /\ UNCHANGED <<call, data, waiters, lists, walk>>

\* unlockOp from Mutex::lock
UnlockOp(t) ==
    /\ pc[t] = "critical"
    /\ ret' = [ret EXCEPT ![t] = "idle"]
    /\ Goto(t, "unlock")
    /\ UNCHANGED <<mtx, cond, data, owner, waiters, lists, walk>>

\* Mutant: the owner stays set.
KeepOwner(t) ==
    /\ pc[t] = "unlock"
    /\ Goto(t, "release")
    /\ UNCHANGED <<call, data, owner, waiters, lists, walk>>

ClearOwner(t) ==
    /\ pc[t] = "unlock"
    /\ owner' = [owner EXCEPT ![mtx[t]] = None]
    /\ Goto(t, "release")
    /\ UNCHANGED <<call, data, waiters, lists, walk>>

\* exchange(UNLOCKED), unlockSlow unless it was LOCKED
Release(t) ==
    LET m == mtx[t] IN
    /\ pc[t] = "release"
    /\ data' = [data EXCEPT ![m] = UNLOCKED]
    /\ Goto(t, IF data[m] # LOCKED THEN "mutex_notify" ELSE ret[t])
    /\ UNCHANGED <<call, owner, waiters, lists, walk>>

MutexNotify(t) ==
    /\ pc[t] = "mutex_notify" /\ walker = None
    /\ Wakeup(mtx[t])
    /\ Goto(t, ret[t])
    /\ UNCHANGED <<call, data, owner, waiters, walk>>

-----------------------------------------------------------------------------
(* Condition::wait, notifyOne and notifyAll.                               *)

\* Mutant: waiters is not set.
EnqueueUncounted(t, c) ==
    /\ pc[t] = "critical" /\ walker = None
    /\ cond' = [cond EXCEPT ![t] = c]
    /\ Append_to_waitlist(t, c)
    /\ ret' = [ret EXCEPT ![t] = "cond_block"]
    /\ Goto(t, "unlock")
    /\ UNCHANGED <<mtx, data, owner, waiters, walk>>

\* enqueue: waiters := 1 and the thread is queued, then mtx.unlockOp()
Enqueue(t, c) ==
    /\ pc[t] = "critical" /\ walker = None
    /\ cond' = [cond EXCEPT ![t] = c]
    /\ waiters' = [waiters EXCEPT ![c] = 1]
    /\ Append_to_waitlist(t, c)
    /\ ret' = [ret EXCEPT ![t] = "cond_block"]
    /\ Goto(t, "unlock")
    /\ UNCHANGED <<mtx, data, owner, walk>>

\* The first load of notifyOne (l = "wakeup_one") and notifyAll; with no
\* waiters they return at once.
Notify(t, c, l) ==
    /\ pc[t] \in {"idle", "critical"} /\ waiters[c] # 0
    /\ cond' = [cond EXCEPT ![t] = c]
    /\ ret' = [ret EXCEPT ![t] = pc[t]]
    /\ Goto(t, l)
    /\ UNCHANGED <<mtx, data, owner, waiters, lists, walk>>

WakeupOne(t) ==
    /\ pc[t] = "wakeup_one" /\ walker = None
    /\ Wakeup(cond[t])
    /\ Goto(t, ret[t])
    /\ UNCHANGED <<call, data, owner, waiters, walk>>

ResetWaiters(t) ==
    /\ pc[t] = "reset_waiters"
    /\ waiters' = [waiters EXCEPT ![cond[t]] = 0]
    /\ Goto(t, "wakeup_all")
    /\ UNCHANGED <<call, data, owner, lists, walk>>


\* WaitLists::wakeup_all takes the list away, then wakes thread by thread
\* while it keeps the mutex.
WakeupAll(t) ==
    LET c == cond[t] IN
    /\ pc[t] = "wakeup_all" /\ walker = None
    /\ walker' = t /\ cursor' = entry[c].head
    /\ entry' = [entry EXCEPT ![c] = NoEntry]
    /\ UNCHANGED <<pc, call, data, owner, waiters, blocking, next, asleep>>

WakeupAllStep(t) ==
    /\ walker = t
    /\ IF cursor # None
       THEN /\ Remove_from_waitlist(cursor)
            /\ cursor' = next[cursor]
            /\ UNCHANGED <<pc, walker>>
       ELSE /\ walker' = None
            /\ Goto(t, ret[t])
            /\ UNCHANGED <<cursor, blocking, next, asleep>>
    /\ UNCHANGED <<call, data, owner, waiters, entry>>

-----------------------------------------------------------------------------
Step(t) ==
    \/ LockFast(t) \/ Contend(t) \/ MutexWait(t) \/ Block(t) \/ Retry(t)
    \/ SetOwner(t) \/ ClearOwner(t) \/ Release(t) \/ MutexNotify(t)
    \/ WakeupOne(t) \/ ResetWaiters(t) \/ WakeupAll(t) \/ WakeupAllStep(t)

\* What a thread does next, outside or inside its critical section.
Program(t) ==
    \/ \E m \in Mutex : LockOp(t, m)
    \/ \E c \in Condition : Enqueue(t, c)
    \/ \E c \in Condition, l \in {"wakeup_one", "reset_waiters"} : Notify(t, c, l)

Next == \E t \in Thread : Step(t) \/ Program(t) \/ UnlockOp(t)

Spec == Init /\ [][Next]_vars

\* Library code makes progress.  A program that keeps returning to the code of
\* its critical section leaves it some day (SF: the program's side of the deal).
\* The mutex around WaitLists.data is held for boundedly many steps at a time
\* and eventually fair (SF).
Fairness ==
    \A t \in Thread :
        /\ WF_vars(Step(t))
        /\ SF_vars(UnlockOp(t))
        /\ SF_vars(MutexWait(t) \/ MutexNotify(t) \/ WakeupOne(t) \/ WakeupAll(t))

FairSpec == Spec /\ Fairness

-----------------------------------------------------------------------------
(* Properties.                                                             *)

Label == {"idle", "lock", "contend", "wait", "mutex_block", "cond_block", "retry",
          "locked", "critical", "unlock", "release", "mutex_notify",
          "wakeup_one", "reset_waiters", "wakeup_all"}

\* Every variable has its declared type.
TypeOK ==
    /\ pc \in [Thread -> Label]
    /\ mtx \in [Thread -> Mutex \union {None}]
    /\ cond \in [Thread -> Condition \union {None}]
    /\ ret \in [Thread -> {"idle", "critical", "cond_block"}]
    /\ data \in [Mutex -> {UNLOCKED, LOCKED, LOCKED_CONTENDED}]
    /\ owner \in [Mutex -> Thread \union {None}]
    /\ waiters \in [Condition -> {0, 1}]
    /\ entry \in [Object -> [head : Thread \union {None}, tail : Thread \union {None}]]
    /\ blocking \in [Thread -> BOOLEAN]
    /\ next \in [Thread -> Thread \union {None}]
    /\ asleep \subseteq Thread
    /\ walker \in Thread \union {None} /\ cursor \in Thread \union {None}

\* Locations between a successful compare-exchange of lockOp or lockSlow and the
\* exchange of unlockOp; notifications inside the critical section count too.
InCritical(t) ==
    \/ pc[t] \in {"locked", "critical", "unlock", "release"}
    \/ pc[t] \in {"wakeup_one", "reset_waiters", "wakeup_all"} /\ ret[t] = "critical"

\* assert(owner_thread_id == 0) in lockOp, assert(owner_thread_id == current)
\* in unlockOp and assert(previous == LOCKED_CONTENDED) in unlockSlow hold.
OwnerAsserts ==
    \A t \in Thread :
        /\ pc[t] = "locked" => owner[mtx[t]] = None
        /\ pc[t] = "unlock" => owner[mtx[t]] = t
        /\ pc[t] = "release" => data[mtx[t]] # UNLOCKED

\* The first n threads of the list that starts at h.
Prefix(h, n) ==
    LET p[k \in 0 .. n] ==
            IF k = 0 THEN <<>>
            ELSE IF k = 1 THEN IF h = None THEN <<>> ELSE <<h>>
            ELSE LET q == p[k - 1] IN
                 IF q = <<>> \/ next[q[Len(q)]] = None THEN q
                 ELSE Append(q, next[q[Len(q)]])
    IN p[n]

\* The threads on the list of object o (or still to be woken by wakeup_all).
Queue(o) ==
    Prefix(IF walker # None /\ cond[walker] = o THEN cursor ELSE entry[o].head,
           Cardinality(Thread) + 1)

QueueSet(o) == {Queue(o)[i] : i \in 1 .. Len(Queue(o))}

\* Every list is a proper chain from head to tail, no thread is on two lists or
\* twice on one, and the threads on lists are exactly the blocking ones; so the
\* assertions in prepare_for_waitlist, set_waitlist_successor and
\* remove_from_waitlist hold and no thread is forgotten.
WaitlistShape ==
    /\ \A o \in Object :
          /\ Cardinality(QueueSet(o)) = Len(Queue(o))
          /\ entry[o] # NoEntry => Queue(o)[Len(Queue(o))] = entry[o].tail
          /\ \A p \in Object : p # o => QueueSet(o) \intersect QueueSet(p) = {}
    /\ \A t \in Thread :
          /\ blocking[t] <=> \E o \in Object : t \in QueueSet(o)
          /\ ~blocking[t] => next[t] = None
          /\ pc[t] \in {"wait", "critical"} => ~blocking[t]

\* Whoever may still hand a free mutex on, or mark a held one as contended.
Responsible(u, m) ==
    /\ mtx[u] = m
    /\ \/ pc[u] \in {"mutex_notify", "contend", "wait", "retry"}
       \/ pc[u] = "mutex_block" /\ ~blocking[u]

\* No lost wakeup.  While threads are queued on a mutex it is marked
\* LOCKED_CONTENDED, so that unlockOp notifies, or some thread that is awake is
\* about to notify or to mark it; while threads are queued on a condition its
\* waiters is set, or a notifyAll that reset it has yet to take the list.
NoLostWakeup ==
    /\ \A m \in Mutex :
           entry[m] # NoEntry /\ data[m] # LOCKED_CONTENDED
               => \E u \in Thread : Responsible(u, m)
    /\ \A c \in Condition :
           entry[c] # NoEntry /\ waiters[c] = 0
               => \E u \in Thread : pc[u] = "wakeup_all" /\ walker # u /\ cond[u] = c

\* Every thread that sleeps on a mutex is woken eventually, as long as critical
\* sections end.
MutexWakes ==
    \A t \in Thread : pc[t] = "mutex_block" ~> pc[t] # "mutex_block"


\* The abstract monitor: the holder of a mutex and the queue of a condition.
Abstract == INSTANCE Monitor WITH
    holder <- [m \in Mutex |->
                 IF \E t \in Thread : InCritical(t) /\ mtx[t] = m
                 THEN CHOOSE t \in Thread : InCritical(t) /\ mtx[t] = m
                 ELSE None],
    waiting <- [c \in Condition |-> Queue(c)]

\* Mutex and Condition implement the abstract monitor.
ImplementsMonitor == Abstract!Spec
=============================================================================
