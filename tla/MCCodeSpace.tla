----------------------------- MODULE MCCodeSpace -----------------------------
(* CodeSpace for a few threads in a small region. *)
EXTENDS CodeSpace, TLC

Threads == Permutations(Thread)
=============================================================================
