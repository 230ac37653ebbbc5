----------------------------- MODULE CpuCounter -----------------------------
(***************************************************************************)
(* The kernel side of the CPU collector, cpu_usage.bpf.c: on each CPU the  *)
(* sched_switch program accounts the time since the last switch to the     *)
(* busy or the idle counter of that CPU.  Each of its reads and writes of  *)
(* the shared struct cpu_counter is a step, because user space copies the  *)
(* struct at any time.                                                     *)
(*                                                                         *)
(* History variables (they are not in the code): boot, the instant of the  *)
(* first switch of a CPU, and ran, the time it has really been busy since. *)
(***************************************************************************)
EXTENDS Integers

CONSTANTS
    NumCPUs,      \* possible CPUs, the slots of the per-CPU map
    MaxTime,      \* bound: the clock stops there
    MaxSwitches   \* bound: context switches of one CPU

ASSUME CounterAssumption ==
    /\ NumCPUs \in Nat \ {0}
    /\ MaxTime \in Nat \ {0} /\ MaxSwitches \in Nat

CPUs == 1 .. NumCPUs

Counters == [sequence : Nat, busy : Nat, idle : Nat, last : Nat, isIdle : BOOLEAN]
Zero == [sequence |-> 0, busy |-> 0, idle |-> 0, last |-> 0, isIdle |-> FALSE]

VARIABLES
    clock,     \* CLOCK_MONOTONIC, the clock of bpf_ktime_get_ns too
    counter,   \* cpu_stats: the struct cpu_counter of each CPU
    wpc,       \* next statement of on_sched_switch; "out" between switches
    wnow,      \* its local "now"
    nextIdle,  \* the task switched to is the idle task (pid 0)
    boot, ran  \* history

kernelVars == <<clock, counter, wpc, wnow, nextIdle, boot, ran>>

KernelInit ==
    /\ clock = 1
    /\ counter = [p \in CPUs |-> Zero]
    /\ wpc = [p \in CPUs |-> "out"]
    /\ wnow = [p \in CPUs |-> 0]
    /\ nextIdle = [p \in CPUs |-> FALSE]
    /\ boot = [p \in CPUs |-> 0]
    /\ ran = [p \in CPUs |-> 0]

(* Time passes for the task that was switched to last *)
Tick ==
    /\ clock < MaxTime
    /\ clock' = clock + 1
    /\ ran' = [p \in CPUs |-> IF boot[p] # 0 /\ ~nextIdle[p] THEN ran[p] + 1
                                                             ELSE ran[p]]
    /\ UNCHANGED <<counter, wpc, wnow, nextIdle, boot>>

(* sched_switch fires: "now" is read before anything is written.  A switch  *)
(* always goes to another task, but not always between idle and busy.       *)
Enter(p) ==
    /\ wpc[p] = "out" /\ counter[p].sequence < 2 * MaxSwitches
    /\ wnow' = [wnow EXCEPT ![p] = clock]
    /\ \E idle \in BOOLEAN : nextIdle' = [nextIdle EXCEPT ![p] = idle]
    /\ boot' = [boot EXCEPT ![p] = IF @ = 0 THEN clock ELSE @]
    /\ wpc' = [wpc EXCEPT ![p] = "open"]
    /\ UNCHANGED <<clock, counter, ran>>

(* First __sync_fetch_and_add: the sequence becomes odd *)
Open(p) ==
    /\ wpc[p] = "open"
    /\ counter' = [counter EXCEPT ![p].sequence = @ + 1]
    /\ wpc' = [wpc EXCEPT ![p] = "account"]
    /\ UNCHANGED <<clock, wnow, nextIdle, boot, ran>>

Elapsed(c, now) == IF c.last # 0 /\ now >= c.last THEN now - c.last ELSE 0

Credit(c, time) == IF c.isIdle THEN [c EXCEPT !.idle = @ + time]
                              ELSE [c EXCEPT !.busy = @ + time]

(* The time since the last switch goes to what has been running *)
Account(p) ==
    /\ wpc[p] = "account"
    /\ counter' = [counter EXCEPT ![p] = Credit(@, Elapsed(@, wnow[p]))]
    /\ wpc' = [wpc EXCEPT ![p] = "stamp"]
    /\ UNCHANGED <<clock, wnow, nextIdle, boot, ran>>

Stamp(p) ==
    /\ wpc[p] = "stamp"
    /\ counter' = [counter EXCEPT ![p].last = wnow[p]]
    /\ wpc' = [wpc EXCEPT ![p] = "flag"]
    /\ UNCHANGED <<clock, wnow, nextIdle, boot, ran>>

Flag(p) ==
    /\ wpc[p] = "flag"
    /\ counter' = [counter EXCEPT ![p].isIdle = nextIdle[p]]
    /\ wpc' = [wpc EXCEPT ![p] = "close"]
    /\ UNCHANGED <<clock, wnow, nextIdle, boot, ran>>

(* Second __sync_fetch_and_add: the sequence is even again *)
Close(p) ==
    /\ wpc[p] = "close"
    /\ counter' = [counter EXCEPT ![p].sequence = @ + 1]
    /\ wpc' = [wpc EXCEPT ![p] = "out"]
    /\ UNCHANGED <<clock, wnow, nextIdle, boot, ran>>

Switch(p) ==
    Enter(p) \/ Open(p) \/ Account(p) \/ Stamp(p) \/ Flag(p) \/ Close(p)

(* The helper cannot delay the kernel *)
KernelNext == Tick \/ \E p \in CPUs : Switch(p)
=============================================================================
