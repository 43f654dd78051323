-------------------------- MODULE MCMinorCollector --------------------------
(* MinorCollector for two roots and a heap of a few objects. *)
EXTENDS MinorCollector
=============================================================================
