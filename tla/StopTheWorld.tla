---------------------------- MODULE StopTheWorld ----------------------------
(***************************************************************************)
(* What safepoint.rs promises its callers: a stop-the-world operation      *)
(* (a garbage collection) and the mutators exclude each other.  Any number *)
(* of threads may be in managed code, or one thread may run an operation.  *)
(***************************************************************************)
CONSTANTS Thread, None

VARIABLES
    mutators,    \* the threads that may touch the heap
    operator     \* the thread running a stop-the-world operation, or None

vars == <<mutators, operator>>

Init ==
    /\ mutators \in SUBSET Thread
    /\ operator = None

\* A thread enters managed code: never during an operation.
Enter(t) ==
    /\ operator = None
    /\ t \notin mutators
    /\ mutators' = mutators \union {t}
    /\ UNCHANGED operator

\* A thread leaves managed code (parks or reaches a safepoint).
Leave(t) ==
    /\ t \in mutators
    /\ mutators' = mutators \ {t}
    /\ UNCHANGED operator

\* A thread starts its operation: only in a world without mutators.
Begin(t) ==
    /\ operator = None
    /\ mutators = {}
    /\ operator' = t
    /\ UNCHANGED mutators

End(t) ==
    /\ operator = t
    /\ operator' = None
    /\ UNCHANGED mutators

Next == \E t \in Thread : Enter(t) \/ Leave(t) \/ Begin(t) \/ End(t)

Spec == Init /\ [][Next]_vars
=============================================================================
