----------------------------- MODULE MCScheduler -----------------------------
(***************************************************************************)
(* The scheduler with two program threads, a of priority 1 and b of        *)
(* priority 2, under init (0) and idle (3).                                *)
(***************************************************************************)
EXTENDS Scheduler

CONSTANTS a, b

MCInitPrio == [t \in Thread |-> CASE t = init -> 0 [] t = a -> 1
                                  [] t = b -> 2 [] t = idle -> 3]
=============================================================================
