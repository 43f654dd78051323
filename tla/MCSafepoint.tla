----------------------------- MODULE MCSafepoint -----------------------------
(* Safepoint on a few threads.  All but the main thread are interchangeable. *)
EXTENDS Safepoint, TLC

Workers == Permutations(Thread \ {Main})
=============================================================================
