----------------------------- MODULE Scheduler -----------------------------
(***************************************************************************)
(* When the worker of monitor.py collects: the loop of _run, on an integer *)
(* clock.  Slots are the instants start, start + Interval, and so on;      *)
(* "deadline" is the slot of the present cycle until the cycle ends, then  *)
(* the slot of the next one.  A cycle may take any time, and a sleeping    *)
(* thread may be resumed late.                                             *)
(***************************************************************************)
EXTENDS Integers

CONSTANTS
    Interval,   \* interval between the starts of collections
    MaxTime     \* bound: the clock stops there

ASSUME SchedulerAssumption == Interval \in Nat \ {0} /\ MaxTime \in Nat

VARIABLES
    clock,      \* time.monotonic(), counted from the start of _run
    stopEvent,  \* _stop_event.is_set()
    mode,       \* "check", "cycle", "sleep" or "done"
    deadline,   \* deadline
    now         \* "now": the instant the last cycle ended

vars == <<clock, stopEvent, mode, deadline, now>>

Init ==
    /\ clock = 0 /\ stopEvent = FALSE
    /\ mode = "check" /\ deadline = 0 /\ now = 0

Tick == /\ clock < MaxTime
        /\ clock' = clock + 1
        /\ UNCHANGED <<stopEvent, mode, deadline, now>>

Stop == /\ ~stopEvent
        /\ stopEvent' = TRUE
        /\ UNCHANGED <<clock, mode, deadline, now>>

(* Fault: the loop is "while True", and a stop only cuts the sleep short *)
Check_Endless ==
    /\ mode = "check"
    /\ mode' = "cycle"
    /\ UNCHANGED <<clock, stopEvent, deadline, now>>

(* "while not self._stop_event.is_set()" *)
Check ==
    /\ mode = "check"
    /\ mode' = IF stopEvent THEN "done" ELSE "cycle"
    /\ UNCHANGED <<clock, stopEvent, deadline, now>>

(* Fault: the next slot is counted from the end of the cycle *)
NextSlot_Drifts(slot, time) ==
    IF slot + Interval < time THEN time + Interval ELSE slot + Interval

(* Fault: the slots to drop are counted from the cycle's own slot *)
NextSlot_Skips(slot, time) ==
    LET next == slot + Interval
    IN IF next < time
         THEN next + ((time - slot) \div Interval + 1) * Interval
         ELSE next

(* The slot after "slot", unless it lies before "time": then the first slot *)
(* later than "time".                                                       *)
NextSlot(slot, time) ==
    LET next == slot + Interval
    IN IF next < time
         THEN next + ((time - next) \div Interval + 1) * Interval
         ELSE next

(* _collect_once returns, and the next deadline is set *)
EndCycle ==
    /\ mode = "cycle"
    /\ now' = clock
    /\ deadline' = NextSlot(deadline, clock)
    /\ mode' = "sleep"
    /\ UNCHANGED <<clock, stopEvent>>

(* _stop_event.wait(max(0, deadline - now)) returns, in time or late *)
Wake ==
    /\ mode = "sleep"
    /\ stopEvent \/ clock >= deadline
    /\ mode' = "check"
    /\ UNCHANGED <<clock, stopEvent, deadline, now>>

(* An exception that _collect_once does not catch ends the thread, and the  *)
(* end of the process does, at any point                                    *)
Die ==
    /\ mode # "done" /\ mode' = "done"
    /\ UNCHANGED <<clock, stopEvent, deadline, now>>

(* The clock is at its bound and the worker has ended *)
Finished ==
    /\ clock = MaxTime /\ stopEvent /\ mode = "done"
    /\ UNCHANGED vars

Next == Tick \/ Stop \/ Check \/ EndCycle \/ Wake \/ Die \/ Finished

Spec == Init /\ [][Next]_vars

-----------------------------------------------------------------------------
(* Properties *)

OnGrid(slot) == \E k \in 0 .. slot : slot = k * Interval

TypeOK ==
    /\ clock \in 0 .. MaxTime
    /\ stopEvent \in BOOLEAN
    /\ mode \in {"check", "cycle", "sleep", "done"}
    /\ deadline \in Nat
    /\ now \in 0 .. MaxTime

(* However late a cycle ends or the thread is resumed, collections keep to  *)
(* the slots counted from the start: lateness is not carried over.          *)
NoDrift == OnGrid(deadline)

(* A cycle that overran leaves nothing to catch up: while the worker        *)
(* sleeps, its slot is not one that had passed when the cycle ended, and    *)
(* it is at most one interval away.                                         *)
NoBacklog ==
    mode = "sleep" => now <= deadline /\ deadline <= now + Interval

(* Together: collections keep to the grid and none is owed.                 *)
OnSchedule == NoDrift /\ NoBacklog

(* Each cycle has a slot of its own, later than the one before, and no slot *)
(* that was still to come is skipped.                                       *)
SlotsInOrder ==
    [][mode = "cycle" /\ mode' = "sleep" =>
         /\ deadline + Interval <= deadline'
         /\ deadline' = deadline + Interval \/ deadline' - Interval <= clock]_vars

(* No collection begins before its slot, although a stop ends the sleep     *)
(* before it.                                                               *)
NeverEarly == mode = "cycle" => deadline <= clock

-----------------------------------------------------------------------------
(* What makes them inductive: until its cycle begins, a worker that was not *)
(* asked to stop has reached its slot; the last cycle ended in the past.    *)
SInv ==
    /\ TypeOK /\ NoDrift /\ NoBacklog /\ NeverEarly
    /\ mode = "check" /\ ~stopEvent => deadline <= clock
    /\ now <= clock
=============================================================================
