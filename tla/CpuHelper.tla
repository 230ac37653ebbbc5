------------------------------ MODULE CpuHelper ------------------------------
(***************************************************************************)
(* The user side of the CPU collector, cpu_usage.c, against the writers of *)
(* CpuCounter: rounds of online_cpus, take_snapshot and emit_sample.  The  *)
(* kernel copies the per-CPU map CPU after CPU and word after word         *)
(* (bpf_map_lookup_elem), so each word is a step.                          *)
(*                                                                         *)
(* History: at[p], the instant of the clock of p's sample, the time the    *)
(* CPU had really been busy then, and lag, how long before that instant a  *)
(* switch had read its clock without having opened its write.              *)
(***************************************************************************)
EXTENDS CpuCounter

CONSTANTS
    Attempts,   \* copies take_snapshot tries (8 in the code)
    MaxRounds   \* bound: snapshots taken by the helper

ASSUME HelperAssumption == Attempts \in Nat \ {0} /\ MaxRounds \in Nat

(* What copying word k of a struct cpu_counter, in memory order, makes of a *)
(* copy.                                                                    *)
CopyWord(copy, c, k) ==
    [sequence |-> IF k = 0 THEN c.sequence ELSE copy.sequence,
     busy     |-> IF k = 1 THEN c.busy ELSE copy.busy,
     idle     |-> IF k = 2 THEN c.idle ELSE copy.idle,
     last     |-> IF k = 3 THEN c.last ELSE copy.last,
     isIdle   |-> IF k = 4 THEN c.isIdle ELSE copy.isIdle]
LastWord == 4

NoSample == [valid |-> FALSE, busy |-> 0, idle |-> 0]
NoInstant == [now |-> 0, ran |-> 0, lag |-> 0]

VARIABLES
    rpc,        \* where main and take_snapshot are
    cpu, word,  \* what the copy in progress reads next
    attempt,    \* attempt
    first, second,   \* the two copies
    rnow,       \* "now" of the attempt
    hist,       \* history: what was true of each CPU at that instant
    online,     \* CPUs that were online at the start of the round
    current, previous,   \* samples of this round and of the one before
    rounds,     \* rounds done; the baseline is the first
    emitted,    \* what emit_sample printed: a set of [cpu, busy, total]
    at, before  \* history of current and of previous

helperVars == <<rpc, cpu, word, attempt, first, second, rnow, hist, online,
                current, previous, rounds, emitted, at, before>>
vars == <<kernelVars, helperVars>>

Blank == [p \in CPUs |-> Zero]

Init ==
    /\ KernelInit
    /\ rpc = "sleep" /\ cpu = 1 /\ word = 0 /\ attempt = 0
    /\ first = Blank /\ second = Blank
    /\ rnow = 0 /\ hist = [p \in CPUs |-> NoInstant] /\ online = {}
    /\ current = [p \in CPUs |-> NoSample]
    /\ previous = [p \in CPUs |-> NoSample]
    /\ rounds = 0 /\ emitted = {}
    /\ at = [p \in CPUs |-> NoInstant] /\ before = [p \in CPUs |-> NoInstant]

(* sleep_interval ends; online_cpus reads which CPUs are online *)
BeginRound ==
    /\ rpc = "sleep" /\ rounds < MaxRounds
    /\ online' \in SUBSET CPUs
    /\ current' = [p \in CPUs |-> NoSample]
    /\ at' = [p \in CPUs |-> NoInstant]
    /\ rpc' = "first" /\ cpu' = 1 /\ word' = 0 /\ attempt' = 1
    /\ emitted' = {}
    /\ UNCHANGED <<kernelVars, first, second, rnow, hist, previous, rounds,
                   before>>

(* The next word of the map is due; after the last one, on to "next"    *)
Advance(next) ==
    /\ word' = IF word = LastWord THEN 0 ELSE word + 1
    /\ cpu' = IF word < LastWord THEN cpu ELSE IF cpu = NumCPUs THEN 1 ELSE cpu + 1
    /\ rpc' = IF word = LastWord /\ cpu = NumCPUs THEN next ELSE rpc

CopyFirst ==
    /\ rpc = "first"
    /\ first' = [first EXCEPT ![cpu] = CopyWord(@, counter[cpu], word)]
    /\ Advance("now")
    /\ UNCHANGED <<kernelVars, attempt, second, rnow, hist, online, current,
                   previous, rounds, emitted, at, before>>

(* monotonic_ns between the two copies *)
ReadNow ==
    /\ rpc = "now"
    /\ rnow' = clock
    /\ hist' = [p \in CPUs |->
                 [now |-> clock, ran |-> ran[p],
                  lag |-> IF wpc[p] = "open" THEN clock - wnow[p] ELSE 0]]
    /\ rpc' = "second"
    /\ UNCHANGED <<kernelVars, cpu, word, attempt, first, second, online, current,
                   previous, rounds, emitted, at, before>>

CopySecond ==
    /\ rpc = "second"
    /\ second' = [second EXCEPT ![cpu] = CopyWord(@, counter[cpu], word)]
    /\ Advance("check")
    /\ UNCHANGED <<kernelVars, attempt, first, rnow, hist, online, current,
                   previous, rounds, emitted, at, before>>

(* Fault: the copies are not compared, an even sequence is enough *)
Stable_EvenOnly(p) ==
    /\ first[p].sequence % 2 = 0
    /\ first[p].last # 0
    /\ rnow >= first[p].last

(* Nothing of CPU p was written between its two copies, as far as the       *)
(* copies show, and it has been initialised.                                *)
Stable(p) ==
    /\ first[p].sequence % 2 = 0
    /\ first[p] = second[p]
    /\ first[p].last # 0
    /\ rnow >= first[p].last

(* Fault: the run in progress is left out *)
Measured_ClosedRuns(p) ==
    [valid |-> TRUE, busy |-> first[p].busy, idle |-> first[p].idle]

(* What was counted, and the run in progress up to "now" *)
Measured(p) ==
    LET c == first[p]
        run == rnow - c.last
    IN [valid |-> TRUE,
        busy |-> c.busy + IF c.isIdle THEN 0 ELSE run,
        idle |-> c.idle + IF c.isIdle THEN run ELSE 0]

(* The CPUs of the attempt that become valid; the others of the online ones *)
(* are pending and, while attempts are left, copied again.                  *)
Check ==
    /\ rpc = "check"
    /\ LET todo == {p \in online : ~current[p].valid}
           done == {p \in todo : Stable(p)}
           again == todo # done /\ attempt < Attempts
       IN /\ current' = [p \in CPUs |-> IF p \in done THEN Measured(p)
                                                      ELSE current[p]]
          /\ at' = [p \in CPUs |-> IF p \in done THEN hist[p] ELSE at[p]]
          /\ rpc' = IF again THEN "first" ELSE "emit"
          /\ attempt' = IF again THEN attempt + 1 ELSE 0
    /\ first' = Blank /\ second' = Blank
    /\ UNCHANGED <<kernelVars, cpu, word, rnow, hist, online, previous, rounds,
                   emitted, before>>

(* Fault: a CPU without a previous sample is measured from zero *)
Comparable_NoBaseline(p) ==
    /\ current[p].valid
    /\ current[p].busy >= previous[p].busy
    /\ current[p].idle >= previous[p].idle

Comparable(p) ==
    /\ current[p].valid /\ previous[p].valid
    /\ current[p].busy >= previous[p].busy
    /\ current[p].idle >= previous[p].idle

(* delta_sample: what p did between two samples *)
Delta(p) == LET busy == current[p].busy - previous[p].busy
            IN [cpu |-> p, busy |-> busy,
                total |-> busy + current[p].idle - previous[p].idle]

(* emit_sample, unless this is the baseline; then memcpy of previous.  The  *)
(* line's aggregate is the ratio of the sums of busy and of total.          *)
Emit ==
    /\ rpc = "emit"
    /\ emitted' = IF rounds = 0 THEN {}
                  ELSE {d \in {Delta(p) : p \in {q \in CPUs : Comparable(q)}} :
                          d.total > 0}
    /\ previous' = current /\ before' = at
    /\ rounds' = rounds + 1
    /\ rpc' = "sleep"
    /\ UNCHANGED <<kernelVars, cpu, word, attempt, first, second, rnow, hist, online,
                   current, at>>

HelperNext ==
    BeginRound \/ CopyFirst \/ ReadNow \/ CopySecond \/ Check \/ Emit

(* The bounds on time, switches and rounds are reached *)
Finished ==
    /\ clock = MaxTime /\ rounds = MaxRounds
    /\ \A p \in CPUs : /\ wpc[p] = "out"
                       /\ counter[p].sequence = 2 * MaxSwitches
    /\ UNCHANGED vars

Next == \/ KernelNext /\ UNCHANGED helperVars
        \/ HelperNext
        \/ Finished

Spec == Init /\ [][Next]_vars

-----------------------------------------------------------------------------
(* Properties *)

Samples == [valid : BOOLEAN, busy : Nat, idle : Nat]
Instants == [now : Nat, ran : Nat, lag : Int]

KernelTyped ==
    /\ clock \in 1 .. MaxTime
    /\ counter \in [CPUs -> Counters]
    /\ wpc \in [CPUs -> {"out", "open", "account", "stamp", "flag", "close"}]
    /\ wnow \in [CPUs -> Nat] /\ boot \in [CPUs -> Nat] /\ ran \in [CPUs -> Nat]
    /\ nextIdle \in [CPUs -> BOOLEAN]

CopyTyped ==
    /\ rpc \in {"sleep", "first", "now", "second", "check", "emit"}
    /\ cpu \in CPUs /\ word \in 0 .. LastWord
    /\ attempt \in 0 .. Attempts
    /\ first \in [CPUs -> Counters] /\ second \in [CPUs -> Counters]
    /\ rnow \in Nat /\ hist \in [CPUs -> Instants]
    /\ online \subseteq CPUs

SamplesTyped ==
    /\ current \in [CPUs -> Samples] /\ previous \in [CPUs -> Samples]
    /\ rounds \in Nat
    /\ emitted \subseteq [cpu : CPUs, busy : Nat, total : Nat]
    /\ at \in [CPUs -> Instants] /\ before \in [CPUs -> Instants]

TypeOK == KernelTyped /\ CopyTyped /\ SamplesTyped

(* A sample accounts for every nanosecond since the CPU's first switch, and *)
(* for none twice: a copy torn by a switch is never taken for a sample, and *)
(* the run in progress is counted even when no switch ends it.              *)
SampleIsWhole ==
    \A p \in CPUs : current[p].valid =>
        current[p].busy + current[p].idle = at[p].now - boot[p]

(* Its split between busy and idle is the true one, except for the time     *)
(* that a switch caught between its clock read and its first increment has  *)
(* already given to the next task.                                          *)
SplitWithinLag ==
    \A p \in CPUs : current[p].valid =>
        /\ current[p].busy <= at[p].ran + at[p].lag
        /\ at[p].ran <= current[p].busy + at[p].lag

(* What is printed for a CPU covers exactly the time between its two        *)
(* samples, so no percentage is below 0 or above 100, none is invented from *)
(* an instant at which the CPU was not sampled, and the aggregate neither.  *)
PrintedIsElapsed ==
    [][rounds' # rounds =>
         \A d \in emitted' :
             /\ d.total = at[d.cpu].now - before[d.cpu].now
             /\ before[d.cpu].now # 0
             /\ 0 <= d.busy /\ d.busy <= d.total]_vars

-----------------------------------------------------------------------------
(* What makes SampleIsWhole inductive                                       *)

Even(n) == n % 2 = 0

(* A struct whose counters account for all the time up to its timestamp     *)
Whole(p, c) == c.last # 0 => /\ boot[p] # 0
                             /\ c.busy + c.idle = c.last - boot[p]

(* Of a CPU: between switches, and until "account" and after "stamp" within *)
(* one, the struct is whole; the sequence tells when it may not be.         *)
WriterInv(p) ==
    LET c == counter[p] IN
    /\ Even(c.sequence) <=> wpc[p] \in {"out", "open"}
    /\ wpc[p] \in {"out", "open", "account"} => Whole(p, c)
    /\ c.last = 0 => c.busy = 0 /\ c.idle = 0
    /\ c.last <= wnow[p]
    /\ wpc[p] # "out" => boot[p] # 0 /\ wnow[p] # 0
    /\ wpc[p] \in {"open", "account"} /\ c.last = 0 => boot[p] = wnow[p]
    /\ wpc[p] = "out" /\ c.last = 0 => boot[p] = 0
    /\ wpc[p] = "stamp" => c.busy + c.idle = wnow[p] - boot[p]
    /\ wpc[p] \in {"flag", "close"} => c.last = wnow[p] /\ Whole(p, c)
    /\ wnow[p] <= clock

(* Word k of CPU p is in the first, in the second copy *)
Past(p, k) == p < cpu \/ (p = cpu /\ k < word)
InFirst(p, k) == rpc \in {"now", "second", "check"} \/ (rpc = "first" /\ Past(p, k))
InSecond(p, k) == rpc = "check" \/ (rpc = "second" /\ Past(p, k))

(* Sequences grow from the first copy to the second and to the counter.     *)
(* While an even sequence has not changed since the first copy read it, the *)
(* words read after it are still those of the counter; once the second copy *)
(* has read the same sequence, the first copy is whole for good.            *)
CopyInv(p) ==
    LET f == first[p]
        c == counter[p]
    IN /\ InFirst(p, 0) => f.sequence <= c.sequence
       /\ InFirst(p, 0) /\ Even(f.sequence) /\ f.sequence = c.sequence =>
            /\ InFirst(p, 1) => f.busy = c.busy
            /\ InFirst(p, 2) => f.idle = c.idle
            /\ InFirst(p, 3) => f.last = c.last
            /\ InFirst(p, 4) => f.isIdle = c.isIdle
       /\ InSecond(p, 0) /\ Even(f.sequence) /\ f.sequence = second[p].sequence =>
            Whole(p, f)
       /\ rpc \in {"second", "check"} => hist[p].now = rnow

SampleInv(p) ==
    current[p].valid => /\ boot[p] # 0
                        /\ current[p].busy + current[p].idle = at[p].now - boot[p]

(* A copy begins with the first word of the first CPU *)
PlaceInv == rpc \notin {"first", "second"} => cpu = 1 /\ word = 0

HelperInv ==
    /\ PlaceInv
    /\ \A p \in CPUs : WriterInv(p) /\ CopyInv(p) /\ SampleInv(p)

-----------------------------------------------------------------------------
(* What makes SplitWithinLag and PrintedIsElapsed inductive                 *)

(* The part of a time that a task is busy *)
Busy(idle, time) == IF idle THEN 0 ELSE time

(* The time a CPU has been busy, from its struct: until "account" the task  *)
(* that was switched from is still to be credited, from then on the struct  *)
(* knows all but the task that was switched to.                             *)
RanInv(p) ==
    LET c == counter[p]
        since == Busy(nextIdle[p], clock - wnow[p])
    IN /\ boot[p] = 0 => ran[p] = 0
       /\ wpc[p] = "out" /\ c.last # 0 =>
            c.isIdle = nextIdle[p] /\ ran[p] = c.busy + Busy(c.isIdle, clock - c.last)
       /\ wpc[p] \in {"open", "account"} =>
            ran[p] = c.busy + since
                     + (IF c.last = 0 THEN 0 ELSE Busy(c.isIdle, wnow[p] - c.last))
       /\ wpc[p] \in {"stamp", "flag", "close"} => ran[p] = c.busy + since
       /\ wpc[p] = "close" => c.isIdle = nextIdle[p]

(* The first copy tells how busy CPU p had been at the instant "now"        *)
Fits(p) ==
    first[p].last # 0 =>
        /\ Measured(p).busy <= hist[p].ran + hist[p].lag
        /\ hist[p].ran <= Measured(p).busy + hist[p].lag

(* It does while no switch has been written since, and for good once the    *)
(* second copy has read the same sequence.                                  *)
HistInv(p) ==
    LET even == Even(first[p].sequence) IN
    /\ rpc \in {"second", "check"} /\ even /\ first[p].sequence = counter[p].sequence =>
          Fits(p)
    /\ InSecond(p, 0) /\ even /\ first[p].sequence = second[p].sequence => Fits(p)

SplitInv(p) ==
    current[p].valid => /\ current[p].busy <= at[p].ran + at[p].lag
                        /\ at[p].ran <= current[p].busy + at[p].lag

PreviousInv(p) ==
    previous[p].valid =>
        /\ boot[p] # 0
        /\ previous[p].busy + previous[p].idle = before[p].now - boot[p]

TimeInv == \A p \in CPUs : RanInv(p) /\ HistInv(p) /\ SplitInv(p) /\ PreviousInv(p)
=============================================================================
