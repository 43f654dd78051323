--------------------------- MODULE MCObjectHashMap ---------------------------
(* ObjectHashMap for two conditions and two mutexes. *)
EXTENDS ObjectHashMap, TLC

Symmetry == Permutations(Condition) \union Permutations(Object \ Condition)

\* What happens to a table after keys were left in slots where get does not look
\* for them is not explored.
Placed == ~ displaced
=============================================================================
