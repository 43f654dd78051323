---------------------------- MODULE MCCompilation ----------------------------
(* Compilation for a few threads and functions. *)
EXTENDS Compilation
=============================================================================
