---------------------------- MODULE MCDoraMonitor ----------------------------
(* DoraMonitor on a few interchangeable threads. *)
EXTENDS DoraMonitor, TLC

Threads == Permutations(Thread)
=============================================================================
