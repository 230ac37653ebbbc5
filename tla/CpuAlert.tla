------------------------------ MODULE CpuAlert ------------------------------
(***************************************************************************)
(* The CPU alert tool: cpu_alert.bpf.c, which adds up the busy and idle    *)
(* time of each CPU at its context switches, and cpu_alert.c, which once   *)
(* per interval reads the totals, resets them and calls the hook above a   *)
(* threshold.                                                              *)
(*                                                                         *)
(* The entries BUSY and IDLE of a CPU are written by both sides, so an     *)
(* access to one of them is a step; LAST_TS and WAS_IDLE belong to the     *)
(* CPU's own program.  The tool is itself a task: it runs only where it is *)
(* scheduled, and waking it up is a context switch.                        *)
(***************************************************************************)
EXTENDS Integers, FiniteSetsExt

CONSTANTS
    NumCPUs,      \* possible CPUs
    Threshold,    \* limit, in percent
    Interval,     \* interval_sec
    MaxTime,      \* bound: the clock stops there
    MaxSwitches,  \* bound: context switches of one CPU
    MaxWindows    \* bound: intervals measured

ASSUME AlertAssumption ==
    /\ NumCPUs \in Nat \ {0} /\ Threshold \in 0 .. 100 /\ Interval \in Nat
    /\ MaxTime \in Nat \ {0} /\ MaxSwitches \in Nat /\ MaxWindows \in Nat

CPUs == 1 .. NumCPUs
Tasks == {"idle", "task", "tool"}

VARIABLES
    clock,         \* bpf_ktime_get_ns
    busy, idle,    \* cpu_stats[IDX_BUSY], cpu_stats[IDX_IDLE] of each CPU
    lastTs,        \* cpu_stats[IDX_LAST_TS]
    wasIdle,       \* cpu_stats[IDX_WAS_IDLE]
    task,          \* what each CPU runs
    switching,     \* a switch of this CPU has read its clock: "now" is set
    now,
    switches,      \* switches so far
    rpc,           \* where main is
    cpu,           \* the CPU whose entry it reads or writes next
    running,       \* running
    busyVals, idleVals,   \* busy_vals, idle_vals
    hook,          \* what the last interval did: "none", "fired" or "silent"
    windows,       \* intervals measured
    boot, ran,     \* history: first switch of a CPU, time it was busy since
    taken,         \* history: [busy, idle] read in all intervals, per CPU
    since,         \* start of the present sleep
    ranAt          \* history: ran at that instant

kernelVars == <<clock, lastTs, wasIdle, task, switching, now, switches, boot, ran>>
toolVars == <<running, busyVals, idleVals, hook, windows, taken, since, ranAt>>
vars == <<kernelVars, busy, idle, rpc, cpu, toolVars>>

Zeros == [p \in CPUs |-> 0]

Init ==
    /\ clock = 1
    /\ busy = Zeros /\ idle = Zeros /\ lastTs = Zeros
    /\ wasIdle = [p \in CPUs |-> FALSE]
    /\ task = [p \in CPUs |-> IF p = 1 THEN "tool" ELSE "task"]
    /\ switching = [p \in CPUs |-> FALSE] /\ now = Zeros /\ switches = Zeros
    /\ rpc = "drowsy" /\ cpu = 1 /\ running = TRUE
    /\ busyVals = Zeros /\ idleVals = Zeros
    /\ hook = "none" /\ windows = 0
    /\ boot = Zeros /\ ran = Zeros
    /\ taken = [p \in CPUs |-> [busy |-> 0, idle |-> 0]]
    /\ since = 1 /\ ranAt = Zeros

-----------------------------------------------------------------------------
(* The kernel *)

Tick ==
    /\ clock < MaxTime
    /\ clock' = clock + 1
    /\ ran' = [p \in CPUs |-> IF boot[p] # 0 /\ task[p] # "idle" THEN ran[p] + 1
                                                                 ELSE ran[p]]
    /\ UNCHANGED <<busy, idle, lastTs, wasIdle, task, switching, now, switches,
                   boot, rpc, cpu, toolVars>>

(* The scheduler's choice on CPU p.  "task" stands for any other task; the  *)
(* tool can run when its sleep is over, in time, late or by a signal.       *)
MayRun(p, next) ==
    /\ next = "idle" => task[p] # "idle"
    /\ next = "tool" => /\ \A q \in CPUs : task[q] # "tool"
                        /\ rpc = "asleep" => clock >= since + Interval \/ ~running

(* The tool leaves CPU p because it sleeps *)
Dozes(p) == task[p] = "tool" /\ rpc = "drowsy"

(* sched_switch fires on CPU p, and "now" is read.  The tool falls asleep   *)
(* by leaving its CPU and wakes up by getting one.                          *)
Enter(p) ==
    /\ ~switching[p] /\ switches[p] < MaxSwitches
    /\ \E next \in Tasks :
          /\ MayRun(p, next)
          /\ task' = [task EXCEPT ![p] = next]
          /\ rpc' = IF Dozes(p) THEN "asleep"
                    ELSE IF next = "tool" /\ rpc = "asleep" THEN "awake" ELSE rpc
    /\ since' = IF Dozes(p) THEN clock ELSE since
    /\ ranAt' = IF Dozes(p) THEN ran ELSE ranAt
    /\ now' = [now EXCEPT ![p] = clock]
    /\ switching' = [switching EXCEPT ![p] = TRUE]
    /\ switches' = [switches EXCEPT ![p] = @ + 1]
    /\ boot' = [boot EXCEPT ![p] = IF @ = 0 THEN clock ELSE @]
    /\ UNCHANGED <<clock, busy, idle, lastTs, wasIdle, ran, cpu, running, busyVals,
                   idleVals, hook, windows, taken>>

(* Fault: the flag is renewed before the time is accounted *)
Account_FlagFirst(p) ==
    /\ switching[p]
    /\ LET delta == IF lastTs[p] # 0 THEN now[p] - lastTs[p] ELSE 0
       IN IF task[p] = "idle"
            THEN idle' = [idle EXCEPT ![p] = @ + delta] /\ UNCHANGED busy
            ELSE busy' = [busy EXCEPT ![p] = @ + delta] /\ UNCHANGED idle
    /\ lastTs' = [lastTs EXCEPT ![p] = now[p]]
    /\ wasIdle' = [wasIdle EXCEPT ![p] = task[p] = "idle"]
    /\ switching' = [switching EXCEPT ![p] = FALSE]
    /\ UNCHANGED <<clock, task, now, switches, boot, ran, rpc, cpu, toolVars>>

(* The atomic addition to the entry of what was running; then LAST_TS and   *)
(* WAS_IDLE, which only this CPU sees.                                      *)
Account(p) ==
    /\ switching[p]
    /\ LET delta == IF lastTs[p] # 0 THEN now[p] - lastTs[p] ELSE 0
       IN IF wasIdle[p]
            THEN idle' = [idle EXCEPT ![p] = @ + delta] /\ UNCHANGED busy
            ELSE busy' = [busy EXCEPT ![p] = @ + delta] /\ UNCHANGED idle
    /\ lastTs' = [lastTs EXCEPT ![p] = now[p]]
    /\ wasIdle' = [wasIdle EXCEPT ![p] = task[p] = "idle"]
    /\ switching' = [switching EXCEPT ![p] = FALSE]
    /\ UNCHANGED <<clock, task, now, switches, boot, ran, rpc, cpu, toolVars>>

-----------------------------------------------------------------------------
(* The tool *)

OnCPU == \E p \in CPUs : task[p] = "tool" /\ ~switching[p]

At(label) == rpc = label /\ OnCPU

(* SIGINT or SIGTERM *)
Signal ==
    /\ running
    /\ running' = FALSE
    /\ UNCHANGED <<kernelVars, busy, idle, rpc, cpu, busyVals, idleVals, hook,
                   windows, taken, since, ranAt>>

(* sleep returns; "if (!running) break" *)
Wake ==
    /\ At("awake")
    /\ windows < MaxWindows \/ ~running
    /\ rpc' = IF running THEN "read_busy" ELSE "end"
    /\ UNCHANGED <<kernelVars, busy, idle, cpu, toolVars>>

(* A map operation goes through the CPUs; after the last one, to "next"     *)
Advance(next) ==
    /\ cpu' = IF cpu = NumCPUs THEN 1 ELSE cpu + 1
    /\ rpc' = IF cpu = NumCPUs THEN next ELSE rpc

ReadBusy ==
    /\ At("read_busy")
    /\ busyVals' = [busyVals EXCEPT ![cpu] = busy[cpu]]
    /\ taken' = [taken EXCEPT ![cpu].busy = @ + busy[cpu]]
    /\ Advance("read_idle")
    /\ UNCHANGED <<kernelVars, busy, idle, running, idleVals, hook, windows,
                   since, ranAt>>

ReadIdle ==
    /\ At("read_idle")
    /\ idleVals' = [idleVals EXCEPT ![cpu] = idle[cpu]]
    /\ taken' = [taken EXCEPT ![cpu].idle = @ + idle[cpu]]
    /\ Advance("zero_busy")
    /\ UNCHANGED <<kernelVars, busy, idle, running, busyVals, hook, windows,
                   since, ranAt>>

ZeroBusy ==
    /\ At("zero_busy")
    /\ busy' = [busy EXCEPT ![cpu] = 0]
    /\ Advance("zero_idle")
    /\ UNCHANGED <<kernelVars, idle, toolVars>>

ZeroIdle ==
    /\ At("zero_idle")
    /\ idle' = [idle EXCEPT ![cpu] = 0]
    /\ Advance("decide")
    /\ UNCHANGED <<kernelVars, busy, toolVars>>

Total(f) == MapThenSumSet(LAMBDA p : f[p], CPUs)

(* usage_percent > threshold, where usage is 0 if nothing was counted *)
Above == 100 * Total(busyVals) > Threshold * (Total(busyVals) + Total(idleVals))

(* The hook is called or not; the next interval begins *)
Decide ==
    /\ At("decide")
    /\ hook' = IF Above THEN "fired" ELSE "silent"
    /\ rpc' = "decided"
    /\ UNCHANGED <<kernelVars, busy, idle, cpu, running, busyVals, idleVals,
                   windows, taken, since, ranAt>>

(* "while (running)", and sleep *)
Again ==
    /\ At("decided")
    /\ windows' = windows + 1
    /\ rpc' = IF running THEN "drowsy" ELSE "end"
    /\ UNCHANGED <<kernelVars, busy, idle, cpu, running, busyVals, idleVals,
                   hook, taken, since, ranAt>>

Tool == \/ Wake \/ ReadBusy \/ ReadIdle \/ ZeroBusy \/ ZeroIdle \/ Decide
        \/ Again

Kernel == Tick \/ \E p \in CPUs : Enter(p) \/ Account(p)

(* The bounds on time and switches are reached *)
Finished ==
    /\ clock = MaxTime /\ ~running
    /\ \A p \in CPUs : switches[p] = MaxSwitches /\ ~switching[p]
    /\ OnCPU => rpc \in {"drowsy", "asleep", "end"}
    /\ UNCHANGED vars

Next == Kernel \/ Signal \/ Tool \/ Finished

Spec == Init /\ [][Next]_vars

-----------------------------------------------------------------------------
(* Properties *)

(* All intervals together never report more busy, nor more idle time of a   *)
(* CPU than it has spent: no time enters two intervals, whatever switches   *)
(* happen between the reading of an entry and its reset.                    *)
CountedOnce ==
    \A p \in CPUs : boot[p] # 0 =>
        /\ taken[p].busy <= ran[p]
        /\ taken[p].idle <= clock - boot[p] - ran[p]

(* cpu_alert.c says it computes the use of all cores and calls the hook     *)
(* when it is above the limit: so it does, once every CPU has an initial    *)
(* timestamp, when the CPUs that were busy ever since the tool fell asleep  *)
(* are already more than the limit.                                         *)
HookAboveThreshold ==
    /\ rpc = "decided" /\ running
    /\ \A p \in CPUs : boot[p] # 0 /\ boot[p] < since
    => LET full == {p \in CPUs : ran[p] - ranAt[p] = clock - since}
       IN 100 * Cardinality(full) > Threshold * NumCPUs => hook = "fired"

-----------------------------------------------------------------------------
(* What makes CountedOnce inductive *)

(* What the proof needs of the types: the entries, the clocks and the place *)
(* that main reads or writes next                                           *)
TypeOK ==
    /\ clock \in Nat \ {0}
    /\ busy \in [CPUs -> Nat] /\ idle \in [CPUs -> Nat]
    /\ lastTs \in [CPUs -> Nat] /\ now \in [CPUs -> Nat]
    /\ wasIdle \in [CPUs -> BOOLEAN] /\ switching \in [CPUs -> BOOLEAN]
    /\ task \in [CPUs -> Tasks]
    /\ boot \in [CPUs -> Nat] /\ ran \in [CPUs -> Nat]
    /\ cpu \in CPUs
    /\ busyVals \in [CPUs -> Nat] /\ idleVals \in [CPUs -> Nat]
    /\ taken \in [CPUs -> [busy : Nat, idle : Nat]]

(* The time of CPU p that its program has still to account, of the task up  *)
(* to a switch under way and of the one after it                            *)
Unaccounted(p, before, after) ==
    LET end == IF switching[p] THEN now[p] ELSE clock IN
    (IF lastTs[p] # 0 /\ before THEN end - lastTs[p] ELSE 0)
    + (IF switching[p] /\ after THEN clock - now[p] ELSE 0)

BusyDue(p) == Unaccounted(p, ~wasIdle[p], task[p] # "idle")
IdleDue(p) == Unaccounted(p, wasIdle[p], task[p] = "idle")

(* Between switches the program knows what runs, and since when it does     *)
ProgramInv(p) ==
    /\ boot[p] = 0 => /\ lastTs[p] = 0 /\ ~switching[p]
                      /\ ran[p] = 0 /\ busy[p] = 0 /\ idle[p] = 0
                      /\ taken[p].busy = 0 /\ taken[p].idle = 0
    /\ boot[p] # 0 /\ ~switching[p] =>
          lastTs[p] # 0 /\ (wasIdle[p] <=> (task[p] = "idle"))
    /\ switching[p] => now[p] # 0 /\ now[p] <= clock /\ lastTs[p] <= now[p]
    /\ lastTs[p] <= clock /\ boot[p] <= clock

(* The entry of p was read in this interval and is not yet reset            *)
BusyRead(p) == \/ rpc = "read_busy" /\ p < cpu
               \/ rpc = "read_idle"
               \/ rpc = "zero_busy" /\ cpu <= p
IdleRead(p) == \/ rpc = "read_idle" /\ p < cpu
               \/ rpc = "zero_busy"
               \/ rpc = "zero_idle" /\ cpu <= p

(* What an entry holds that no interval has reported *)
BusyLeft(p) == busy[p] - (IF BusyRead(p) THEN busyVals[p] ELSE 0)
IdleLeft(p) == idle[p] - (IF IdleRead(p) THEN idleVals[p] ELSE 0)

(* Reported, left and unaccounted time together is at most the time spent   *)
TimeInv(p) ==
    /\ 0 <= BusyLeft(p) /\ 0 <= IdleLeft(p)
    /\ taken[p].busy + BusyLeft(p) + BusyDue(p) <= ran[p]
    /\ boot[p] # 0 => taken[p].idle + IdleLeft(p) + IdleDue(p)
                        <= clock - boot[p] - ran[p]

PlaceInv == rpc \notin {"read_busy", "read_idle", "zero_busy", "zero_idle"} => cpu = 1

AlertInv == TypeOK /\ PlaceInv /\ \A p \in CPUs : ProgramInv(p) /\ TimeInv(p)
=============================================================================
