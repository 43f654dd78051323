------------------------------ MODULE MCMarking ------------------------------
(* Marking on heaps of three objects with at most two roots.  Heaps that      *)
(* differ only in the names of objects are taken once: the roots come first.  *)
(* An object that refers to itself is left out: the reference meets a mark    *)
(* bit that is set, as references to other marked objects do.                 *)
EXTENDS Marking

CONSTANTS x, y, z

MCInit ==
    /\ Init
    /\ injector \in {<<>>, <<x>>, <<x, y>>}
    /\ \A o \in Object : o \notin fields[o]

MCSpec == MCInit /\ [][Next]_vars /\ Fairness
=============================================================================
