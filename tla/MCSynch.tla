------------------------------ MODULE MCSynch ------------------------------
(* Instances of Synch with at most one lock: it protects every condition.  *)
EXTENDS Synch

MC_lock_of == [c \in Cond |-> CHOOSE l \in Lock : TRUE]
=============================================================================
