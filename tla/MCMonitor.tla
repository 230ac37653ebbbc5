----------------------------- MODULE MCMonitor -----------------------------
(* Small instances of Monitor for TLC. *)
EXTENDS Monitor

CONSTANTS cpu, gpu

(* One waiter's request that the first snapshot can answer, one that needs  *)
(* a second cycle and the CPU category.                                     *)
MCRequests == {[min |-> 1, need |-> {}], [min |-> 2, need |-> {cpu}]}
=============================================================================
