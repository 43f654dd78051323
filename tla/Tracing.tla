------------------------------- MODULE Tracing -------------------------------
(***************************************************************************)
(* What a marking phase promises its collector: starting from the roots it *)
(* marks, one by one, only objects some marked object refers to, and it is *)
(* finished only when there are no more.                                   *)
(***************************************************************************)
CONSTANT Object

VARIABLES
    fields,      \* the objects each object refers to
    roots,       \* the objects the roots refer to
    marked,      \* the objects with their mark bit set
    finished     \* some marking task has ended

vars == <<fields, roots, marked, finished>>

Closed(S) == \A o \in S : fields[o] \subseteq S

\* The objects reachable from the roots: the least closed set with the roots.
Reachable ==
    {o \in Object :
        \A S \in SUBSET Object : roots \subseteq S /\ Closed(S) => o \in S}

Init ==
    /\ fields \in [Object -> SUBSET Object]
    /\ roots \in SUBSET Object
    /\ marked = roots
    /\ finished = FALSE

Mark(o) ==
    /\ ~finished
    /\ \E p \in marked : o \in fields[p]
    /\ marked' = marked \union {o}
    /\ UNCHANGED <<fields, roots, finished>>

Finish ==
    /\ Closed(marked)
    /\ finished' = TRUE
    /\ UNCHANGED <<fields, roots, marked>>

Next == (\E o \in Object : Mark(o)) \/ Finish

Spec == Init /\ [][Next]_vars
=============================================================================
