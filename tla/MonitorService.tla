--------------------------- MODULE MonitorService ---------------------------
(***************************************************************************)
(* What the Monitor promises to the program that embeds it, without        *)
(* threads or locks: a service that is down, up or stopping, a counter of  *)
(* the cycles published by the present run, and the resources of its       *)
(* collectors (helper process, pipes), which are acquired and released     *)
(* only while the service is down.                                         *)
(***************************************************************************)
EXTENDS Naturals

VARIABLES
    phase,      \* "down", "up" or "stopping"
    sequence,   \* snapshots published by this run
    held        \* collectors hold resources

vars == <<phase, sequence, held>>

Init == phase = "down" /\ sequence = 0 /\ held = FALSE

(* A run begins with nothing published *)
Boot == /\ phase = "down" /\ sequence = 0
        /\ phase' = "up"
        /\ UNCHANGED <<sequence, held>>

Forget == /\ phase = "down"
          /\ sequence' = 0
          /\ UNCHANGED <<phase, held>>

Acquire == /\ phase = "down" /\ sequence = 0
           /\ held' = TRUE
           /\ UNCHANGED <<phase, sequence>>

Release == /\ phase = "down"
           /\ held' = FALSE
           /\ UNCHANGED <<phase, sequence>>

(* The routine in progress may still publish after the stop was asked for   *)
Publish == /\ phase \in {"up", "stopping"}
           /\ sequence' = sequence + 1
           /\ UNCHANGED <<phase, held>>

AskStop == /\ phase = "up"
           /\ phase' = "stopping"
           /\ UNCHANGED <<sequence, held>>

(* The worker ends, asked to or by an error of its own *)
End == /\ phase \in {"up", "stopping"}
       /\ phase' = "down"
       /\ UNCHANGED <<sequence, held>>

Next == Boot \/ Forget \/ Acquire \/ Release \/ Publish \/ AskStop \/ End

Spec == Init /\ [][Next]_vars
=============================================================================
