------------------------------- MODULE Monitor -------------------------------
(***************************************************************************)
(* What stdlib/thread.dora promises: a Mutex has at most one holder, and   *)
(* the threads waiting on a Condition are woken in the order they came.    *)
(***************************************************************************)
EXTENDS Sequences

CONSTANTS Thread, Mutex, Condition, None

VARIABLES
    holder,     \* the thread holding each mutex, or None
    waiting     \* the threads waiting on each condition, in order

vars == <<holder, waiting>>

Init ==
    /\ holder = [m \in Mutex |-> None]
    /\ waiting = [c \in Condition |-> <<>>]

Acquire(t, m) ==
    /\ holder[m] = None
    /\ holder' = [holder EXCEPT ![m] = t]
    /\ UNCHANGED waiting

Release(t, m) ==
    /\ holder[m] = t
    /\ holder' = [holder EXCEPT ![m] = None]
    /\ UNCHANGED waiting

\* Condition::wait puts its caller, who holds a mutex, at the end.
Wait(t, c) ==
    /\ \E m \in Mutex : holder[m] = t
    /\ waiting' = [waiting EXCEPT ![c] = Append(@, t)]
    /\ UNCHANGED holder

\* notifyOne, and each round of notifyAll, takes the thread at the front.
Wake(c) ==
    /\ waiting[c] # <<>>
    /\ waiting' = [waiting EXCEPT ![c] = Tail(@)]
    /\ UNCHANGED holder

Next ==
    \/ \E t \in Thread :
          \/ \E m \in Mutex : Acquire(t, m) \/ Release(t, m)
          \/ \E c \in Condition : Wait(t, c)
    \/ \E c \in Condition : Wake(c)

Spec == Init /\ [][Next]_vars
=============================================================================
