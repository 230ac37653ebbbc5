----------------------------- MODULE EbpfProofs -----------------------------
(* The programs that are attached to hooks of the kernel outside the        *)
(* collector: the CPU alert tool counts no time twice, for any number of    *)
(* CPUs, any interval and any switches between its reads and its resets;    *)
(* the hooks of the labs stop what they are for, for any paths and packets, *)
(* and make tells what it has left attached.                                *)
EXTENDS CpuAlert, Labs, TLAPS

-----------------------------------------------------------------------------
(* CpuAlert *)

(* The places where an interval reads and resets the entries                *)
Reading == {"read_busy", "read_idle", "zero_busy", "zero_idle"}

-----------------------------------------------------------------------------
(* Types and the place of main *)

(* A map operation stays within the CPUs and starts with the first          *)
LEMMA AdvanceTyped ==
  ASSUME cpu \in CPUs, NEW next, Advance(next)
  PROVE  /\ cpu' \in CPUs
         /\ rpc' # rpc => rpc' = next /\ cpu' = 1
BY AlertAssumption DEF Advance, CPUs

(* Every step keeps the types                                               *)
LEMMA TypeStep ==
  ASSUME TypeOK, \A p \in CPUs : ProgramInv(p), [Next]_vars
  PROVE  TypeOK'
<1> USE AlertAssumption
<1>1. CASE Tick
  <2>1. ran' \in [CPUs -> Nat] /\ clock' \in Nat \ {0}
    BY <1>1 DEF Tick, TypeOK
  <2>q. QED
    BY <1>1, <2>1 DEF Tick, TypeOK, toolVars
<1>2. ASSUME NEW p \in CPUs, Enter(p) PROVE TypeOK'
  <2>1. /\ task' \in [CPUs -> Tasks] /\ now' \in [CPUs -> Nat]
        /\ switching' \in [CPUs -> BOOLEAN] /\ boot' \in [CPUs -> Nat]
    BY <1>2 DEF Enter, TypeOK
  <2>q. QED
    BY <1>2, <2>1 DEF Enter, TypeOK
<1>3. ASSUME NEW p \in CPUs, Account(p) PROVE TypeOK'
  <2> DEFINE delta == IF lastTs[p] # 0 THEN now[p] - lastTs[p] ELSE 0
  <2>1. delta \in Nat
    BY <1>3 DEF Account, TypeOK, ProgramInv
  <2>2. /\ busy' \in [CPUs -> Nat] /\ idle' \in [CPUs -> Nat]
        /\ lastTs' \in [CPUs -> Nat]
    <3> HIDE DEF delta
    <3>1. /\ busy' \in {busy, [busy EXCEPT ![p] = @ + delta]}
          /\ idle' \in {idle, [idle EXCEPT ![p] = @ + delta]}
          /\ lastTs' = [lastTs EXCEPT ![p] = now[p]]
      BY <1>3 DEF Account, delta
    <3>2. busy \in [CPUs -> Nat] /\ idle \in [CPUs -> Nat]
      BY DEF TypeOK
    <3>3. [busy EXCEPT ![p] = @ + delta] \in [CPUs -> Nat]
      BY <2>1, <3>2
    <3>4. [idle EXCEPT ![p] = @ + delta] \in [CPUs -> Nat]
      BY <2>1, <3>2
    <3>5. [lastTs EXCEPT ![p] = now[p]] \in [CPUs -> Nat]
      BY DEF TypeOK
    <3>q. QED
      BY <3>1, <3>2, <3>3, <3>4, <3>5
  <2>3. wasIdle' \in [CPUs -> BOOLEAN] /\ switching' \in [CPUs -> BOOLEAN]
    BY <1>3 DEF Account, TypeOK
  <2>q. QED
    BY <1>3, <2>2, <2>3 DEF Account, TypeOK, toolVars
<1>4. CASE Signal \/ Wake \/ Decide \/ Again
  BY <1>4 DEF Signal, Wake, Decide, Again, TypeOK, kernelVars, toolVars
<1>5. CASE ReadBusy
  BY <1>5, AdvanceTyped DEF ReadBusy, TypeOK, kernelVars
<1>6. CASE ReadIdle
  BY <1>6, AdvanceTyped DEF ReadIdle, TypeOK, kernelVars
<1>7. CASE ZeroBusy
  BY <1>7, AdvanceTyped DEF ZeroBusy, TypeOK, kernelVars, toolVars
<1>8. CASE ZeroIdle
  BY <1>8, AdvanceTyped DEF ZeroIdle, TypeOK, kernelVars, toolVars
<1>9. CASE UNCHANGED vars
  BY <1>9 DEF vars, TypeOK, kernelVars, toolVars
<1>q. QED
  BY <1>1, <1>2, <1>3, <1>4, <1>5, <1>6, <1>7, <1>8, <1>9
     DEF Next, Kernel, Tool, Finished

(* The kernel leaves main where it is, but for its falling asleep and waking*)
LEMMA EnterPlace ==
  ASSUME NEW p \in CPUs, Enter(p)
  PROVE  /\ cpu' = cpu
         /\ rpc' # rpc => rpc \notin Reading /\ rpc' \notin Reading
BY DEF Enter, Dozes, Reading

(* Outside the reads and the resets main is at the first CPU *)
LEMMA PlaceStep == ASSUME TypeOK, PlaceInv, [Next]_vars PROVE PlaceInv'
<1>1. CASE \E p \in CPUs : Enter(p)
  BY <1>1, EnterPlace DEF PlaceInv, Reading
<1>2. CASE \E p \in CPUs : Account(p)
  BY <1>2 DEF Account, PlaceInv
<1>3. CASE Tick \/ Signal \/ Wake \/ Decide \/ Again
  BY <1>3 DEF Tick, Signal, Wake, Decide, Again, At, PlaceInv
<1>4. CASE ReadBusy \/ ReadIdle \/ ZeroBusy \/ ZeroIdle
  BY <1>4 DEF ReadBusy, ReadIdle, ZeroBusy, ZeroIdle, At, Advance, PlaceInv
<1>5. CASE UNCHANGED vars
  BY <1>5 DEF vars, PlaceInv
<1>q. QED
  BY <1>1, <1>2, <1>3, <1>4, <1>5 DEF Next, Kernel, Tool, Finished

-----------------------------------------------------------------------------
(* The kernel *)

(* The values of CPU p that the proofs compare *)
LEMMA Values ==
  ASSUME TypeOK, NEW p \in CPUs
  PROVE  /\ clock \in Nat /\ clock # 0
         /\ busy[p] \in Nat /\ idle[p] \in Nat /\ lastTs[p] \in Nat /\ now[p] \in Nat
         /\ wasIdle[p] \in BOOLEAN /\ switching[p] \in BOOLEAN
         /\ boot[p] \in Nat /\ ran[p] \in Nat
         /\ busyVals[p] \in Nat /\ idleVals[p] \in Nat
         /\ taken[p].busy \in Nat /\ taken[p].idle \in Nat
BY DEF TypeOK

(* What an entry holds beyond its reports changes by what it is given       *)
LEMMA LeftMoves ==
  ASSUME TypeOK, TypeOK', NEW p \in CPUs, UNCHANGED <<cpu, busyVals, idleVals>>,
         rpc' # rpc => rpc \notin Reading /\ rpc' \notin Reading
  PROVE  /\ BusyLeft(p)' = BusyLeft(p) + (busy'[p] - busy[p])
         /\ IdleLeft(p)' = IdleLeft(p) + (idle'[p] - idle[p])
         /\ BusyLeft(p) \in Int /\ IdleLeft(p) \in Int
<1>1. (BusyRead(p)' <=> BusyRead(p)) /\ (IdleRead(p)' <=> IdleRead(p))
  BY DEF BusyRead, IdleRead, Reading
<1>q. QED
  BY <1>1, Values DEF BusyLeft, IdleLeft, TypeOK

(* Time passes: whatever runs on p, one more unit is spent and unaccounted  *)
LEMMA TickStep ==
  ASSUME TypeOK, TypeOK', NEW p \in CPUs, ProgramInv(p), TimeInv(p), Tick
  PROVE  ProgramInv(p)' /\ TimeInv(p)'
<1>1. /\ clock' = clock + 1
      /\ ran'[p] = IF boot[p] # 0 /\ task[p] # "idle" THEN ran[p] + 1 ELSE ran[p]
      /\ UNCHANGED <<busy, idle, lastTs, wasIdle, task, switching, now, boot, rpc, cpu,
                     busyVals, idleVals, taken>>
  BY DEF Tick, TypeOK, toolVars
<1>2. /\ BusyLeft(p)' = BusyLeft(p) /\ IdleLeft(p)' = IdleLeft(p)
      /\ BusyLeft(p) \in Int /\ IdleLeft(p) \in Int
  BY <1>1, LeftMoves, Values
<1>3. ProgramInv(p)'
  BY <1>1, Values DEF ProgramInv
<1>4. /\ BusyDue(p) \in Int /\ IdleDue(p) \in Int
      /\ BusyDue(p)' = BusyDue(p)
            + (IF boot[p] # 0 /\ task[p] # "idle" THEN 1 ELSE 0)
      /\ IdleDue(p)' = IdleDue(p)
            + (IF boot[p] # 0 /\ task[p] = "idle" THEN 1 ELSE 0)
  <2>1. CASE switching[p]
    BY <1>1, <2>1, Values DEF BusyDue, IdleDue, Unaccounted, ProgramInv
  <2>2. CASE ~switching[p] /\ boot[p] # 0
    BY <1>1, <2>2, Values DEF BusyDue, IdleDue, Unaccounted, ProgramInv
  <2>3. CASE ~switching[p] /\ boot[p] = 0
    BY <1>1, <2>3, Values DEF BusyDue, IdleDue, Unaccounted, ProgramInv
  <2>q. QED
    BY <2>1, <2>2, <2>3, Values
<1>5. TimeInv(p)'
  BY <1>1, <1>2, <1>4, Values DEF TimeInv
<1>q. QED
  BY <1>3, <1>5

(* A switch splits the time at its instant: nothing is spent or accounted   *)
LEMMA EnterStep ==
  ASSUME TypeOK, TypeOK', NEW p \in CPUs, ProgramInv(p), TimeInv(p), Enter(p)
  PROVE  ProgramInv(p)' /\ TimeInv(p)'
<1>1. /\ ~switching[p] /\ switching'[p] /\ now'[p] = clock
      /\ boot'[p] = IF boot[p] = 0 THEN clock ELSE boot[p]
      /\ UNCHANGED <<clock, busy, idle, lastTs, wasIdle, ran, cpu, busyVals, idleVals, taken>>
  BY DEF Enter, TypeOK
<1>2. /\ BusyLeft(p)' = BusyLeft(p) /\ IdleLeft(p)' = IdleLeft(p)
      /\ BusyLeft(p) \in Int /\ IdleLeft(p) \in Int
  BY <1>1, LeftMoves, EnterPlace, Values
<1>3. ProgramInv(p)'
  BY <1>1, Values DEF ProgramInv
<1>4. /\ BusyDue(p) \in Int /\ IdleDue(p) \in Int
      /\ BusyDue(p)' = BusyDue(p)
      /\ IdleDue(p)' = IdleDue(p)
  BY <1>1, Values DEF BusyDue, IdleDue, Unaccounted, ProgramInv
<1>5. boot[p] = 0 => IdleLeft(p)' <= 0 /\ IdleDue(p)' = 0
  BY <1>1, <1>2, <1>4, Values DEF ProgramInv, IdleLeft, IdleDue, Unaccounted
<1>6. TimeInv(p)'
  BY <1>1, <1>2, <1>4, <1>5, Values DEF TimeInv, ProgramInv
<1>q. QED
  BY <1>3, <1>6

(* The program moves the time up to the switch into an entry                *)
LEMMA AccountStep ==
  ASSUME TypeOK, TypeOK', NEW p \in CPUs, ProgramInv(p), TimeInv(p), Account(p)
  PROVE  ProgramInv(p)' /\ TimeInv(p)'
<1> DEFINE delta == IF lastTs[p] # 0 THEN now[p] - lastTs[p] ELSE 0
<1>1. /\ switching[p] /\ ~switching'[p] /\ lastTs'[p] = now[p]
      /\ wasIdle'[p] <=> (task[p] = "idle")
      /\ UNCHANGED <<clock, task, now, boot, ran, rpc, cpu, busyVals, idleVals, taken>>
  BY DEF Account, TypeOK, toolVars
<1>2. /\ busy'[p] = busy[p] + (IF wasIdle[p] THEN 0 ELSE delta)
      /\ idle'[p] = idle[p] + (IF wasIdle[p] THEN delta ELSE 0)
  BY Values DEF Account, TypeOK
<1>3. delta \in Nat
  BY <1>1, Values DEF ProgramInv
<1>4. ProgramInv(p)'
  BY <1>1, <1>2, Values DEF ProgramInv
<1>5. /\ BusyLeft(p)' = BusyLeft(p) + (IF wasIdle[p] THEN 0 ELSE delta)
      /\ IdleLeft(p)' = IdleLeft(p) + (IF wasIdle[p] THEN delta ELSE 0)
      /\ BusyLeft(p) \in Int /\ IdleLeft(p) \in Int
  <2> HIDE DEF delta
  <2>q. QED
    BY <1>1, <1>2, <1>3, LeftMoves, Values
<1>6. /\ BusyDue(p)' \in Int /\ IdleDue(p)' \in Int
      /\ BusyDue(p)
           = BusyDue(p)' + (IF wasIdle[p] THEN 0 ELSE delta)
      /\ IdleDue(p)
           = IdleDue(p)' + (IF wasIdle[p] THEN delta ELSE 0)
  BY <1>1, Values DEF BusyDue, IdleDue, Unaccounted, ProgramInv
<1>7. TimeInv(p)'
  <2> HIDE DEF delta
  <2>q. QED
    BY <1>1, <1>3, <1>5, <1>6, Values DEF TimeInv
<1>q. QED
  BY <1>4, <1>7

(* A switch of another CPU changes nothing of p *)
LEMMA OtherStep ==
  ASSUME TypeOK, TypeOK', NEW p \in CPUs, NEW q \in CPUs, q # p, ProgramInv(p), TimeInv(p),
         Enter(q) \/ Account(q)
  PROVE  ProgramInv(p)' /\ TimeInv(p)'
<1>1. /\ busy'[p] = busy[p] /\ idle'[p] = idle[p] /\ lastTs'[p] = lastTs[p]
      /\ wasIdle'[p] = wasIdle[p] /\ task'[p] = task[p] /\ switching'[p] = switching[p]
      /\ now'[p] = now[p] /\ boot'[p] = boot[p]
      /\ UNCHANGED <<clock, ran, cpu, busyVals, idleVals, taken>>
  <2>1. CASE Enter(q)
    BY <2>1 DEF Enter, TypeOK
  <2>2. CASE Account(q)
    <3>1. /\ lastTs'[p] = lastTs[p] /\ wasIdle'[p] = wasIdle[p]
          /\ switching'[p] = switching[p]
          /\ UNCHANGED <<clock, task, now, boot, ran, cpu, busyVals, idleVals, taken>>
      BY <2>2 DEF Account, TypeOK, toolVars
    <3>2. busy'[p] = busy[p] /\ idle'[p] = idle[p]
      <4>1. CASE wasIdle[q]
        BY <2>2, <4>1 DEF Account, TypeOK
      <4>2. CASE ~wasIdle[q]
        BY <2>2, <4>2 DEF Account, TypeOK
      <4>q. QED
        BY <4>1, <4>2
    <3>q. QED
      BY <3>1, <3>2
  <2>q. QED
    BY <2>1, <2>2
<1>2. rpc' # rpc => rpc \notin Reading /\ rpc' \notin Reading
  BY EnterPlace DEF Account
<1>3. BusyLeft(p)' = BusyLeft(p) /\ IdleLeft(p)' = IdleLeft(p)
  BY <1>1, <1>2, LeftMoves, Values
<1>4. BusyDue(p)' = BusyDue(p) /\ IdleDue(p)' = IdleDue(p)
  BY <1>1 DEF BusyDue, IdleDue, Unaccounted
<1>q. QED
  BY <1>1, <1>3, <1>4 DEF ProgramInv, TimeInv

-----------------------------------------------------------------------------
(* The tool *)

(* What the tool leaves alone *)
LEMMA ToolKeeps ==
  ASSUME NEW p \in CPUs, UNCHANGED kernelVars
  PROVE  BusyDue(p)' = BusyDue(p) /\ IdleDue(p)' = IdleDue(p)
BY DEF kernelVars, BusyDue, IdleDue, Unaccounted

(* A read reports what the entry holds, which is then no longer left        *)
LEMMA ReadStep ==
  ASSUME TypeOK, TypeOK', PlaceInv, NEW p \in CPUs, ProgramInv(p), TimeInv(p),
         ReadBusy \/ ReadIdle
  PROVE  ProgramInv(p)' /\ TimeInv(p)'
<1>0. cpu \in 1 .. NumCPUs /\ p \in 1 .. NumCPUs /\ NumCPUs \in Nat
  BY AlertAssumption DEF TypeOK, CPUs
<1>1. /\ UNCHANGED <<clock, lastTs, wasIdle, task, switching, now, boot, ran, busy, idle>>
      /\ BusyDue(p)' = BusyDue(p) /\ IdleDue(p)' = IdleDue(p)
  BY ToolKeeps DEF ReadBusy, ReadIdle, kernelVars
<1>2. CASE ReadBusy
  <2>1. /\ rpc = "read_busy" /\ Advance("read_idle") /\ UNCHANGED idleVals
        /\ busyVals'[p] = IF p = cpu THEN busy[p] ELSE busyVals[p]
        /\ taken'[p].busy = IF p = cpu THEN taken[p].busy + busy[p] ELSE taken[p].busy
        /\ taken'[p].idle = taken[p].idle
    BY <1>2 DEF ReadBusy, At, TypeOK
  <2>2. /\ ~IdleRead(p) /\ ~IdleRead(p)'
        /\ BusyRead(p) <=> p < cpu
        /\ BusyRead(p)' <=> p <= cpu
    BY <1>0, <2>1 DEF Advance, BusyRead, IdleRead
  <2>3. /\ IdleLeft(p)' = IdleLeft(p)
        /\ BusyLeft(p)' = IF p = cpu THEN 0 ELSE BusyLeft(p)
        /\ p = cpu => BusyLeft(p) = busy[p]
    BY <1>0, <1>1, <2>1, <2>2, Values DEF BusyLeft, IdleLeft
  <2>4. boot[p] = 0 => taken'[p].busy = taken[p].busy
    BY <2>1, Values DEF ProgramInv
  <2>q. QED
    BY <1>1, <2>1, <2>3, <2>4, Values DEF ProgramInv, TimeInv
<1>3. CASE ReadIdle
  <2>1. /\ rpc = "read_idle" /\ Advance("zero_busy") /\ UNCHANGED busyVals
        /\ idleVals'[p] = IF p = cpu THEN idle[p] ELSE idleVals[p]
        /\ taken'[p].idle = IF p = cpu THEN taken[p].idle + idle[p] ELSE taken[p].idle
        /\ taken'[p].busy = taken[p].busy
    BY <1>3 DEF ReadIdle, At, TypeOK
  <2>2. /\ BusyRead(p) /\ BusyRead(p)'
        /\ IdleRead(p) <=> p < cpu
        /\ IdleRead(p)' <=> p <= cpu
    BY <1>0, <2>1 DEF Advance, BusyRead, IdleRead
  <2>3. /\ BusyLeft(p)' = BusyLeft(p)
        /\ IdleLeft(p)' = IF p = cpu THEN 0 ELSE IdleLeft(p)
        /\ p = cpu => IdleLeft(p) = idle[p]
    BY <1>0, <1>1, <2>1, <2>2, Values DEF BusyLeft, IdleLeft
  <2>4. boot[p] = 0 => taken'[p].idle = taken[p].idle
    BY <2>1, Values DEF ProgramInv
  <2>q. QED
    BY <1>1, <2>1, <2>3, <2>4, Values DEF ProgramInv, TimeInv
<1>q. QED
  BY <1>2, <1>3

(* A reset drops what came after the read: it is lost, not reported twice   *)
LEMMA ZeroStep ==
  ASSUME TypeOK, TypeOK', PlaceInv, NEW p \in CPUs, ProgramInv(p), TimeInv(p),
         ZeroBusy \/ ZeroIdle
  PROVE  ProgramInv(p)' /\ TimeInv(p)'
<1>0. cpu \in 1 .. NumCPUs /\ p \in 1 .. NumCPUs /\ NumCPUs \in Nat
  BY AlertAssumption DEF TypeOK, CPUs
<1>1. /\ UNCHANGED <<clock, lastTs, wasIdle, task, switching, now, boot, ran, busyVals,
                     idleVals, taken>>
      /\ BusyDue(p)' = BusyDue(p) /\ IdleDue(p)' = IdleDue(p)
  BY ToolKeeps DEF ZeroBusy, ZeroIdle, kernelVars, toolVars
<1>2. BusyDue(p) \in Int /\ IdleDue(p) \in Int
  BY Values DEF BusyDue, IdleDue, Unaccounted
<1>3. CASE ZeroBusy
  <2>1. /\ rpc = "zero_busy" /\ Advance("zero_idle") /\ UNCHANGED idle
        /\ busy'[p] = IF p = cpu THEN 0 ELSE busy[p]
    BY <1>3 DEF ZeroBusy, At, TypeOK
  <2>2. /\ IdleRead(p) /\ IdleRead(p)'
        /\ BusyRead(p) <=> cpu <= p
        /\ BusyRead(p)' <=> cpu < p
    BY <1>0, <2>1 DEF Advance, BusyRead, IdleRead
  <2>3. /\ IdleLeft(p)' = IdleLeft(p) /\ BusyLeft(p) \in Int
        /\ BusyLeft(p)' = IF p = cpu THEN 0 ELSE BusyLeft(p)
    BY <1>0, <1>1, <2>1, <2>2, Values DEF BusyLeft, IdleLeft
  <2>q. QED
    BY <1>1, <1>2, <2>1, <2>3, Values DEF ProgramInv, TimeInv
<1>4. CASE ZeroIdle
  <2>1. /\ rpc = "zero_idle" /\ Advance("decide") /\ UNCHANGED busy
        /\ idle'[p] = IF p = cpu THEN 0 ELSE idle[p]
    BY <1>4 DEF ZeroIdle, At, TypeOK
  <2>2. /\ ~BusyRead(p) /\ ~BusyRead(p)'
        /\ IdleRead(p) <=> cpu <= p
        /\ IdleRead(p)' <=> cpu < p
    BY <1>0, <2>1 DEF Advance, BusyRead, IdleRead
  <2>3. /\ BusyLeft(p)' = BusyLeft(p) /\ IdleLeft(p) \in Int
        /\ IdleLeft(p)' = IF p = cpu THEN 0 ELSE IdleLeft(p)
    BY <1>0, <1>1, <2>1, <2>2, Values DEF BusyLeft, IdleLeft
  <2>q. QED
    BY <1>1, <1>2, <2>1, <2>3, Values DEF ProgramInv, TimeInv
<1>q. QED
  BY <1>3, <1>4

(* The other steps of main stay outside the reads and the resets            *)
LEMMA MainStep ==
  ASSUME TypeOK, TypeOK', PlaceInv, NEW p \in CPUs, ProgramInv(p), TimeInv(p),
         Signal \/ Wake \/ Decide \/ Again
  PROVE  ProgramInv(p)' /\ TimeInv(p)'
<1>1. /\ UNCHANGED kernelVars
      /\ UNCHANGED <<busy, idle, cpu, busyVals, idleVals, taken>>
  BY DEF Signal, Wake, Decide, Again, toolVars
<1>2. BusyDue(p)' = BusyDue(p) /\ IdleDue(p)' = IdleDue(p)
  BY <1>1, ToolKeeps
<1>3. BusyLeft(p)' = BusyLeft(p) /\ IdleLeft(p)' = IdleLeft(p)
  <2>0. cpu \in 1 .. NumCPUs /\ p \in 1 .. NumCPUs
    BY DEF TypeOK, CPUs
  <2>1. (BusyRead(p)' <=> BusyRead(p)) /\ (IdleRead(p)' <=> IdleRead(p))
    BY <1>1, <2>0 DEF Signal, Wake, Decide, Again, At, BusyRead, IdleRead, PlaceInv
  <2>q. QED
    BY <1>1, <2>1 DEF BusyLeft, IdleLeft
<1>q. QED
  BY <1>1, <1>2, <1>3 DEF kernelVars, ProgramInv, TimeInv

-----------------------------------------------------------------------------
(* The invariant in every reachable state *)
THEOREM Invariance == Spec => []AlertInv
<1>1. Init => AlertInv
  <2> SUFFICES ASSUME Init
               PROVE  AlertInv
    OBVIOUS
  <2>1. TypeOK
    BY AlertAssumption DEF Init, TypeOK, Zeros, Tasks, CPUs
  <2>2. PlaceInv
    BY DEF Init, PlaceInv
  <2>3. ASSUME NEW p \in CPUs PROVE ProgramInv(p) /\ TimeInv(p)
    <3>1. /\ clock = 1 /\ busy[p] = 0 /\ idle[p] = 0 /\ lastTs[p] = 0 /\ ~switching[p]
          /\ boot[p] = 0 /\ ran[p] = 0 /\ taken[p].busy = 0 /\ taken[p].idle = 0
          /\ rpc = "drowsy"
      BY DEF Init, Zeros
    <3>2. BusyLeft(p) = 0 /\ IdleLeft(p) = 0 /\ BusyDue(p) = 0
      BY <3>1 DEF BusyLeft, IdleLeft, BusyRead, IdleRead, BusyDue, Unaccounted
    <3>q. QED
      BY <3>1, <3>2 DEF ProgramInv, TimeInv
  <2>q. QED
    BY <2>1, <2>2, <2>3 DEF AlertInv
<1>2. AlertInv /\ [Next]_vars => AlertInv'
  <2> SUFFICES ASSUME AlertInv, [Next]_vars
               PROVE  AlertInv'
    OBVIOUS
  <2>1. TypeOK /\ TypeOK' /\ PlaceInv /\ PlaceInv'
    BY TypeStep, PlaceStep DEF AlertInv
  <2>2. ASSUME NEW p \in CPUs PROVE ProgramInv(p)' /\ TimeInv(p)'
    <3>1. ProgramInv(p) /\ TimeInv(p)
      BY DEF AlertInv
    <3>2. CASE Tick
      BY <2>1, <3>1, <3>2, TickStep
    <3>3. ASSUME NEW q \in CPUs, Enter(q) \/ Account(q)
          PROVE  ProgramInv(p)' /\ TimeInv(p)'
      <4>1. CASE q = p
        BY <2>1, <3>1, <3>3, <4>1, EnterStep, AccountStep
      <4>2. CASE q # p
        BY <2>1, <3>1, <3>3, <4>2, OtherStep
      <4>q. QED
        BY <4>1, <4>2
    <3>4. CASE ReadBusy \/ ReadIdle
      BY <2>1, <3>1, <3>4, ReadStep
    <3>5. CASE ZeroBusy \/ ZeroIdle
      BY <2>1, <3>1, <3>5, ZeroStep
    <3>6. CASE Signal \/ Wake \/ Decide \/ Again
      BY <2>1, <3>1, <3>6, MainStep
    <3>7. CASE UNCHANGED vars
      BY <3>1, <3>7 DEF vars, kernelVars, toolVars, ProgramInv, TimeInv, BusyLeft,
         IdleLeft, BusyRead, IdleRead, BusyDue, IdleDue, Unaccounted
    <3>q. QED
      BY <3>2, <3>3, <3>4, <3>5, <3>6, <3>7 DEF Next, Kernel, Tool, Finished
  <2>q. QED
    BY <2>1, <2>2 DEF AlertInv
<1>q. QED
  BY <1>1, <1>2, PTL DEF Spec

(* All intervals together report at most the busy and the idle time that a  *)
(* CPU has spent, for any number of CPUs and any interval.                  *)
THEOREM ReportedOnce == Spec => []CountedOnce
<1>1. AlertInv => CountedOnce
  <2> SUFFICES ASSUME AlertInv, NEW p \in CPUs, boot[p] # 0
               PROVE  /\ taken[p].busy <= ran[p]
                      /\ taken[p].idle <= clock - boot[p] - ran[p]
    BY DEF CountedOnce
  <2>1. TypeOK /\ ProgramInv(p) /\ TimeInv(p)
    BY DEF AlertInv
  <2>2. BusyDue(p) \in Nat /\ IdleDue(p) \in Nat
    BY <2>1, Values DEF BusyDue, IdleDue, Unaccounted, ProgramInv
  <2>3. BusyLeft(p) \in Int /\ IdleLeft(p) \in Int
    BY <2>1, Values DEF BusyLeft, IdleLeft
  <2>q. QED
    BY <2>1, <2>2, <2>3, Values DEF TimeInv
<1>q. QED
  BY <1>1, Invariance, PTL

-----------------------------------------------------------------------------
(* Labs *)

-----------------------------------------------------------------------------
(* The filters *)

(* xdp_firewall and tc_egress_filter find the layers they look for, behind  *)
(* any options; a later fragment has 80 where a port would be, or passes.   *)
LEMMA FilterVerdicts ==
  ASSUME NEW p \in PacketLayers
  PROVE  /\ xdp_firewall(p) => IsIcmp(p)
         /\ IsIcmp(p) /\ WithIpv4(p) => xdp_firewall(p)
         /\ tc_egress_filter(p) => IsHttp(p) \/ LooksHttp(p)
         /\ IsHttp(p) /\ WithPorts(p) => tc_egress_filter(p)
<1> USE DEF EthEnd, IpEnd, SeesIpv4, TransportStart
<1>1. p.size \in Nat /\ p.options \in 0 .. 10 /\ p.later \in BOOLEAN
  BY DEF PacketLayers
<1>2. EthEnd + 4 * Ihl(p) = TransportStart(p)
  BY <1>1 DEF Ihl
<1>3. tc_egress_filter(p) <=> /\ SeesIpv4(p) /\ p.protocol = "TCP"
                              /\ TransportStart(p) + 4 <= p.size
                              /\ PortAt(p, TransportStart(p) + 2) = 80
  BY <1>2 DEF tc_egress_filter
<1>4. PortAt(p, TransportStart(p) + 2) = IF p.later THEN p.rest ELSE p.dest
  BY <1>1 DEF PortAt
<1>5. xdp_firewall(p) => IsIcmp(p)
  BY DEF xdp_firewall, IsIcmp
<1>6. IsIcmp(p) /\ WithIpv4(p) => xdp_firewall(p)
  BY <1>1 DEF xdp_firewall, IsIcmp, WithIpv4
<1>7. tc_egress_filter(p) => IsHttp(p) \/ LooksHttp(p)
  BY <1>1, <1>3, <1>4 DEF IsHttp, LooksHttp
<1>8. IsHttp(p) /\ WithPorts(p) => tc_egress_filter(p)
  BY <1>1, <1>3, <1>4 DEF IsHttp, WithPorts
<1>q. QED
  BY <1>5, <1>6, <1>7, <1>8

-----------------------------------------------------------------------------
(* make *)

(* What holds of a command while the hooks change: programs only leave      *)
(* "always" and only join "ever"                                            *)
LEMMA HooksChange ==
  ASSUME LabsInv, UNCHANGED command, always' \subseteq always, ever \subseteq ever'
  PROVE  HooksExplain' /\ OnItsWay'
<1>1. HooksExplain'
  BY DEF LabsInv, HooksExplain, command
<1>2. OnItsWay'
  BY DEF LabsInv, OnItsWay, command
<1>q. QED
  BY <1>1, <1>2

(* What a step of make does to the hooks, it does to all the rest           *)
LEMMA MakeFrame ==
  ASSUME LabsInv, Make
  PROVE  /\ UNCHANGED command /\ lsmActive' = lsmActive
         /\ always' \subseteq always /\ ever \subseteq ever'
         /\ always' \subseteq attached' /\ attached' \subseteq ever'
         /\ attached' \subseteq Lab1 \cup {"xdp", "tc"}
<1> DEFINE Framed == /\ UNCHANGED command /\ lsmActive' = lsmActive
                     /\ always' \subseteq always /\ ever \subseteq ever'
                     /\ always' \subseteq attached' /\ attached' \subseteq ever'
                     /\ attached' \subseteq Lab1 \cup {"xdp", "tc"}
<1>1. always \subseteq attached /\ attached \subseteq ever
      /\ attached \subseteq Lab1 \cup {"xdp", "tc"}
  BY DEF LabsInv, LabsTypeOK
<1>2. ASSUME NEW programs \in SUBSET (Lab1 \cup {"xdp", "tc"}), Attach(programs)
      PROVE  Framed
  BY <1>1, <1>2 DEF Attach
<1>3. CASE Keep
  BY <1>1, <1>3 DEF Keep
<1>4. ASSUME NEW left \in SUBSET (attached \cap Lab1), Remove(left)
      PROVE  Framed
  BY <1>1, <1>2, <1>4 DEF Remove
<1>5. CASE Start \/ AskLsm \/ TryCurl \/ End \/ Fail
  BY <1>3, <1>5 DEF Start, AskLsm, TryCurl, End, Fail
<1>6. ASSUME NEW program \in Lab1 \cup {"xdp", "tc"}, Attach(attached \cup {program})
      PROVE  Framed
  BY <1>1, <1>2, <1>6
<1>7. CASE LoadKprobe \/ LoadLsm
  BY <1>6, <1>7 DEF LoadKprobe, LoadLsm, Lab1
<1>8. CASE Unpin \/ UnpinFails
  BY <1>4, <1>8 DEF Unpin, UnpinFails
<1>9. CASE Hangup
  BY <1>3, <1>4, <1>6, <1>9 DEF Hangup, Lab1
<1>10. CASE Filters
  BY <1>1, <1>2, <1>10 DEF Filters
<1>q. QED
  BY <1>5, <1>7, <1>8, <1>9, <1>10 DEF Make

(* Each step of make attach leaves what the next one expects; the rollback  *)
(* and make detach leave nothing of Lab 1 if they get through, and PIN_ROOT *)
(* if they do not.                                                          *)
LEMMA RecipeKeeps ==
  ASSUME LabsInv, Make
  PROVE  /\ RecipeInv' /\ AttachmentTold'
         /\ pinRoot' \in BOOLEAN
         /\ recipe' \in Trapped \cup {"idle", "rollback"}
         /\ outcome' \in {"none", "both", "kprobe", "failed", "stuck", "killed", "detached"}
<1> USE DEF Lab1, Trapped
<1> DEFINE
      Outcomes == {"none", "both", "kprobe", "failed", "stuck", "killed", "detached"}
      Goal == /\ RecipeInv' /\ AttachmentTold' /\ pinRoot' \in BOOLEAN
              /\ recipe' \in Trapped \cup {"idle", "rollback"} /\ outcome' \in Outcomes
<1>1. /\ RecipeInv /\ AttachmentTold /\ pinRoot \in BOOLEAN /\ lsmActive \in BOOLEAN
      /\ recipe \in Trapped \cup {"idle", "rollback"} /\ outcome \in Outcomes
      /\ lsmActive' = lsmActive
  BY MakeFrame DEF LabsInv, LabsTypeOK
<1>2. CASE Start
  <2>1. /\ recipe = "idle" /\ pinRoot = FALSE /\ outcome' = "none"
        /\ attached' = attached
        /\ \/ recipe' = "kprobe" /\ pinRoot' = TRUE
           \/ recipe' = "rollback" /\ pinRoot' = pinRoot
    BY <1>1, <1>2 DEF Start, Keep
  <2>2. attached \cap Lab1 = {}
    BY <1>1, <2>1 DEF AttachmentTold
  <2>q. QED
    BY <1>1, <2>1, <2>2 DEF RecipeInv, AttachmentTold
<1>3. CASE LoadKprobe
  <2>1. /\ recipe = "kprobe" /\ recipe' = "ask" /\ pinRoot' = pinRoot
        /\ attached' = attached \cup {"kprobe"} /\ outcome' = outcome
    BY <1>3 DEF LoadKprobe, Attach
  <2>2. attached' \cap Lab1 = {"kprobe"} /\ pinRoot
    BY <1>1, <2>1 DEF RecipeInv
  <2>q. QED
    BY <1>1, <2>1, <2>2 DEF RecipeInv, AttachmentTold
<1>4. CASE AskLsm
  <2>1. /\ recipe = "ask" /\ pinRoot' = pinRoot /\ attached' = attached
        /\ \/ lsmActive /\ recipe' = "lsm" /\ outcome' = outcome
           \/ recipe' = "end" /\ outcome' = "kprobe"
    BY <1>4 DEF AskLsm, Keep
  <2>2. attached \cap Lab1 = {"kprobe"} /\ pinRoot
    BY <1>1, <2>1 DEF RecipeInv
  <2>q. QED
    BY <1>1, <2>1, <2>2 DEF RecipeInv, AttachmentTold
<1>5. CASE LoadLsm
  <2>1. /\ recipe = "lsm" /\ recipe' = "curl" /\ pinRoot' = pinRoot
        /\ attached' = attached \cup {"lsm"} /\ outcome' = outcome
    BY <1>5 DEF LoadLsm, Attach
  <2>2. attached' \cap Lab1 = Lab1 /\ pinRoot /\ lsmActive
    BY <1>1, <2>1 DEF RecipeInv
  <2>q. QED
    BY <1>1, <2>1, <2>2 DEF RecipeInv, AttachmentTold
<1>6. CASE TryCurl
  <2>1. /\ recipe = "curl" /\ recipe' = "end" /\ pinRoot' = pinRoot
        /\ attached' = attached /\ outcome' = "both"
    BY <1>6 DEF TryCurl, Keep
  <2>2. attached \cap Lab1 = Lab1 /\ pinRoot /\ lsmActive
    BY <1>1, <2>1 DEF RecipeInv
  <2>q. QED
    BY <1>1, <2>1, <2>2 DEF RecipeInv, AttachmentTold
<1>7. CASE End
  <2>1. /\ recipe = "end" /\ recipe' = "idle"
        /\ UNCHANGED <<pinRoot, outcome, attached>>
    BY <1>7 DEF End, Keep
  <2>2. pinRoot /\ \/ outcome = "both" /\ lsmActive /\ attached \cap Lab1 = Lab1
                   \/ outcome = "kprobe" /\ attached \cap Lab1 = {"kprobe"}
    BY <1>1, <2>1 DEF RecipeInv
  <2>q. QED
    BY <1>1, <2>1, <2>2 DEF RecipeInv, AttachmentTold
<1>8. CASE Fail
  <2>1. /\ recipe' = "rollback" /\ UNCHANGED <<pinRoot, outcome, attached>>
    BY <1>8 DEF Fail, Keep
  <2>q. QED
    BY <1>1, <2>1 DEF RecipeInv, AttachmentTold
<1>9. CASE Unpin
  <2>1. /\ recipe' = "idle" /\ pinRoot' = FALSE /\ outcome' \in {"failed", "detached"}
        /\ attached' = attached \ Lab1
    BY <1>9 DEF Unpin, Remove, Attach
  <2>q. QED
    BY <1>1, <2>1 DEF RecipeInv, AttachmentTold
<1>10. CASE UnpinFails
  <2>1. /\ recipe' = "idle" /\ pinRoot' = pinRoot /\ outcome' = "stuck"
        /\ attached' \cap Lab1 \subseteq attached \cap Lab1
    BY <1>10 DEF UnpinFails, Remove, Attach
  <2>q. QED
    BY <1>1, <2>1 DEF RecipeInv, AttachmentTold
<1>11. CASE Hangup
  <2>1. /\ recipe' = "idle" /\ outcome' = "killed" /\ pinRoot' \in BOOLEAN
        /\ attached' \cap Lab1 # {} => pinRoot'
    <3>1. recipe # "idle" /\ recipe' = "idle" /\ outcome' = "killed"
      BY <1>11 DEF Hangup
    <3>2. CASE recipe \in {"kprobe", "lsm"} /\ UNCHANGED pinRoot
      BY <1>1, <3>1, <3>2 DEF RecipeInv
    <3>3. ASSUME NEW left \in SUBSET (attached \cap Lab1), Remove(left),
                 UNCHANGED pinRoot \/ (left = {} /\ pinRoot' = FALSE)
          PROVE  pinRoot' \in BOOLEAN /\ (attached' \cap Lab1 # {} => pinRoot')
      <4>1. attached' \cap Lab1 = left
        BY <3>3 DEF Remove, Attach
      <4>2. left # {} => pinRoot
        BY <1>1, <3>3 DEF AttachmentTold
      <4>q. QED
        <5>1. CASE pinRoot' = pinRoot
          BY <1>1, <4>1, <4>2, <5>1, Zenon
        <5>2. CASE left = {} /\ pinRoot' = FALSE
          BY <4>1, <5>2, Zenon
        <5>q. QED
          BY <3>3, <5>1, <5>2
    <3>4. CASE UNCHANGED <<pinRoot, attached>>
      <4>1. pinRoot' = pinRoot /\ attached' = attached
        BY <3>4
      <4>2. attached \cap Lab1 # {} => pinRoot
        BY <1>1 DEF AttachmentTold
      <4>q. QED
        BY <1>1, <3>1, <4>1, <4>2, Zenon
    <3>5. \/ recipe \in {"kprobe", "lsm"} /\ UNCHANGED pinRoot
          \/ \E left \in SUBSET (attached \cap Lab1) :
                Remove(left) /\ (UNCHANGED pinRoot \/ (left = {} /\ pinRoot' = FALSE))
          \/ UNCHANGED <<pinRoot, attached>>
      BY <1>11 DEF Hangup, Keep
    <3>q. QED
      BY <3>1, <3>2, <3>3, <3>4, <3>5
  <2>q. QED
    BY <2>1 DEF RecipeInv, AttachmentTold
<1>12. CASE Filters
  <2>1. UNCHANGED <<pinRoot, recipe, outcome>> /\ attached' \cap Lab1 = attached \cap Lab1
    BY <1>12 DEF Filters, Attach
  <2>q. QED
    BY <1>1, <2>1 DEF RecipeInv, AttachmentTold
<1>q. QED
  BY <1>2, <1>3, <1>4, <1>5, <1>6, <1>7, <1>8, <1>9, <1>10, <1>11, <1>12 DEF Make

(* So every step of make keeps the invariant                                *)
LEMMA MakeKeeps ==
  ASSUME LabsInv, Make
  PROVE  LabsInv'
<1>1. HooksExplain' /\ OnItsWay'
  BY MakeFrame, HooksChange
<1>2. LabsTypeOK'
  <2>1. job' \in Jobs
    BY MakeFrame DEF LabsInv, LabsTypeOK, command
  <2>q. QED
    BY <2>1, MakeFrame, RecipeKeeps DEF LabsInv, LabsTypeOK
<1>q. QED
  BY <1>1, <1>2, RecipeKeeps DEF LabsInv

-----------------------------------------------------------------------------
(* A command *)

LEMMA NoPacketTyped == NoPacket \in PacketLayers
BY DEF NoPacket, PacketLayers

(* A command changes no hook; it is told of those attached now or since     *)
(* its last step                                                            *)
LEMMA CommandFrame ==
  ASSUME LabsInv, UNCHANGED lab, UNCHANGED <<always, ever>> \/ Note, job' \in Jobs
  PROVE  LabsTypeOK' /\ RecipeInv' /\ AttachmentTold'
<1>1. UNCHANGED <<attached, lsmActive, pinRoot, recipe, outcome>>
  BY DEF lab
<1>2. always' \subseteq attached' /\ attached' \subseteq ever'
  BY <1>1 DEF LabsInv, LabsTypeOK, Note
<1>3. LabsTypeOK'
  BY <1>1, <1>2 DEF LabsInv, LabsTypeOK
<1>4. RecipeInv' /\ AttachmentTold'
  BY <1>1 DEF LabsInv, RecipeInv, AttachmentTold
<1>q. QED
  BY <1>3, <1>4

(* A step to another place keeps the rest of the command                    *)
LEMMA MoveKeeps ==
  ASSUME LabsInv, NEW step \in Steps, To(step)
  PROVE  /\ job' \in Jobs
         /\ job'.at = step /\ job'.path = job.path /\ job'.host = job.host
         /\ job'.packet = job.packet /\ UNCHANGED lab
<1>1. job \in Jobs
  BY DEF LabsInv, LabsTypeOK
<1>q. QED
  BY <1>1 DEF To, Jobs

(* A packet leaves a host, or tc_egress_filter has taken it off             *)
LEMMA LeaveKeeps ==
  ASSUME LabsInv,
         \/ Leave("request_out", job.host, "request_in")
         \/ Leave("reply_out", Peer(job.host), "reply_in")
  PROVE  LabsInv'
<1> DEFINE caught == "tc" \in attached /\ tc_egress_filter(job.packet)
<1>0. /\ job.host \in Hosts /\ job.packet \in PacketLayers
      /\ always \subseteq attached /\ attached \subseteq ever
      /\ UNCHANGED <<always, ever>>
  BY DEF LabsInv, LabsTypeOK, Jobs, Leave
<1>1. /\ tc_egress_filter(job.packet) => IsHttp(job.packet) \/ LooksHttp(job.packet)
      /\ IsHttp(job.packet) /\ WithPorts(job.packet) => tc_egress_filter(job.packet)
  BY <1>0, FilterVerdicts
<1>2. ASSUME To("lost"), caught, job.host = "h2" \/ ~ IsHttp(job.packet) PROVE LabsInv'
  <2>1. "tc" \in ever /\ ((job.host = "h2" /\ IsHttp(job.packet)) \/ LooksHttp(job.packet))
    BY <1>0, <1>1, <1>2
  <2>2. "lost" \in Steps
    BY DEF Steps
  <2>3. LabsTypeOK' /\ RecipeInv' /\ AttachmentTold'
    BY <1>0, <1>2, <2>2, MoveKeeps, CommandFrame
  <2>4. job'.at = "lost" /\ job'.host = job.host /\ job'.packet = job.packet
    BY <1>2, <2>2, MoveKeeps
  <2>5. HooksExplain'
    BY <1>0, <2>1, <2>4 DEF HooksExplain
  <2>6. OnItsWay'
    BY <2>4 DEF OnItsWay
  <2>q. QED
    BY <2>3, <2>5, <2>6 DEF LabsInv
<1>3. CASE Leave("request_out", job.host, "request_in")
  <2>1. CASE job.host = "h2" /\ caught
    BY <1>2, <1>3, <2>1 DEF Leave
  <2>2. CASE ~ (job.host = "h2" /\ caught)
    <3>1. To("request_in")
      BY <1>3, <2>2 DEF Leave
    <3>2. job.host = "h2" =>
            ~("tc" \in always /\ IsHttp(job.packet) /\ WithPorts(job.packet))
      BY <1>0, <1>1, <2>2
    <3>3. "request_in" \in Steps
      BY DEF Steps
    <3>4. LabsTypeOK' /\ RecipeInv' /\ AttachmentTold'
      BY <1>0, <3>1, <3>3, MoveKeeps, CommandFrame
    <3>5. /\ job'.at = "request_in" /\ job'.host = job.host /\ job'.packet = job.packet
      BY <3>1, <3>3, MoveKeeps
    <3>6. HooksExplain'
      BY <1>0, <3>2, <3>5 DEF HooksExplain
    <3>7. OnItsWay'
      BY <3>5 DEF OnItsWay
    <3>q. QED
      BY <3>4, <3>6, <3>7 DEF LabsInv
  <2>q. QED
    BY <2>1, <2>2
<1>4. CASE Leave("reply_out", Peer(job.host), "reply_in")
  <2>1. job.at = "reply_out" /\ job.packet.dest = 81
    BY <1>4 DEF Leave, LabsInv, OnItsWay
  <2>2. ~ IsHttp(job.packet)
    BY <2>1 DEF IsHttp
  <2>3. CASE Peer(job.host) = "h2" /\ caught
    BY <1>2, <1>4, <2>2, <2>3 DEF Leave
  <2>4. CASE ~ (Peer(job.host) = "h2" /\ caught)
    <3>1. To("reply_in")
      BY <1>4, <2>4 DEF Leave
    <3>2. "reply_in" \in Steps
      BY DEF Steps
    <3>3. LabsTypeOK' /\ RecipeInv' /\ AttachmentTold'
      BY <1>0, <3>1, <3>2, MoveKeeps, CommandFrame
    <3>4. /\ job'.at = "reply_in" /\ job'.host = job.host /\ job'.packet = job.packet
      BY <3>1, <3>2, MoveKeeps
    <3>5. HooksExplain'
      BY <1>0, <3>4 DEF HooksExplain
    <3>6. OnItsWay'
      BY <1>0, <2>1, <3>4 DEF OnItsWay, LabsInv
    <3>q. QED
      BY <3>3, <3>5, <3>6 DEF LabsInv
  <2>q. QED
    BY <2>3, <2>4
<1>q. QED
  BY <1>3, <1>4

(* A packet reaches a host, or xdp_firewall has taken it off                *)
LEMMA ArriveKeeps ==
  ASSUME LabsInv,
         \/ Arrive("request_in", Peer(job.host), "received")
         \/ Arrive("reply_in", job.host, "done")
  PROVE  LabsInv'
<1> DEFINE caught == "xdp" \in attached /\ xdp_firewall(job.packet)
<1> DEFINE passed == ~("xdp" \in always /\ IsIcmp(job.packet) /\ WithIpv4(job.packet))
<1>0. /\ job.host \in {"h1", "h2"} /\ job.packet \in PacketLayers
      /\ always \subseteq attached /\ attached \subseteq ever
      /\ UNCHANGED <<always, ever>>
  BY DEF LabsInv, LabsTypeOK, Jobs, Arrive, Hosts
<1>1. /\ xdp_firewall(job.packet) => IsIcmp(job.packet)
      /\ IsIcmp(job.packet) /\ WithIpv4(job.packet) => xdp_firewall(job.packet)
  BY <1>0, FilterVerdicts
<1>2. ASSUME To("lost"), caught PROVE LabsInv'
  <2>1. "xdp" \in ever /\ IsIcmp(job.packet)
    BY <1>0, <1>1, <1>2
  <2>2. "lost" \in Steps
    BY DEF Steps
  <2>3. LabsTypeOK' /\ RecipeInv' /\ AttachmentTold'
    BY <1>0, <1>2, <2>2, MoveKeeps, CommandFrame
  <2>4. /\ job'.at = "lost" /\ job'.packet = job.packet
    BY <1>2, <2>2, MoveKeeps
  <2>5. HooksExplain'
    BY <1>0, <2>1, <2>4 DEF HooksExplain
  <2>6. OnItsWay'
    BY <2>4 DEF OnItsWay
  <2>q. QED
    BY <2>3, <2>5, <2>6 DEF LabsInv
<1>3. CASE Arrive("request_in", Peer(job.host), "received")
  <2>1. CASE Peer(job.host) = "h1" /\ caught
    BY <1>2, <1>3, <2>1 DEF Arrive
  <2>2. CASE ~ (Peer(job.host) = "h1" /\ caught)
    <3>1. To("received") /\ job.at = "request_in"
      BY <1>3, <2>2 DEF Arrive
    <3>2. job.host = "h2" => passed
      BY <1>0, <1>1, <2>2 DEF Peer
    <3>3. "received" \in Steps
      BY DEF Steps
    <3>4. LabsTypeOK' /\ RecipeInv' /\ AttachmentTold'
      BY <1>0, <3>1, <3>3, MoveKeeps, CommandFrame
    <3>5. /\ job'.at = "received" /\ job'.host = job.host /\ job'.packet = job.packet
      BY <3>1, <3>3, MoveKeeps
    <3>6. HooksExplain'
      BY <1>0, <3>1, <3>5 DEF HooksExplain, LabsInv
    <3>7. OnItsWay'
      BY <1>0, <3>2, <3>5 DEF OnItsWay
    <3>q. QED
      BY <3>4, <3>6, <3>7 DEF LabsInv
  <2>q. QED
    BY <2>1, <2>2
<1>4. CASE Arrive("reply_in", job.host, "done")
  <2>1. CASE job.host = "h1" /\ caught
    BY <1>2, <1>4, <2>1 DEF Arrive
  <2>2. CASE ~ (job.host = "h1" /\ caught)
    <3>1. To("done") /\ job.at = "reply_in"
      BY <1>4, <2>2 DEF Arrive
    <3>2. passed
      BY <1>0, <1>1, <2>2, <3>1 DEF LabsInv, OnItsWay
    <3>3. "done" \in Steps
      BY DEF Steps
    <3>4. LabsTypeOK' /\ RecipeInv' /\ AttachmentTold'
      BY <1>0, <3>1, <3>3, MoveKeeps, CommandFrame
    <3>5. /\ job'.at = "done" /\ job'.packet = job.packet
      BY <3>1, <3>3, MoveKeeps
    <3>6. HooksExplain'
      BY <1>0, <3>2, <3>5 DEF HooksExplain
    <3>7. OnItsWay'
      BY <3>5 DEF OnItsWay
    <3>q. QED
      BY <3>4, <3>6, <3>7 DEF LabsInv
  <2>q. QED
    BY <2>1, <2>2
<1>q. QED
  BY <1>3, <1>4

(* The Kprobe sees the shell enter execve                                   *)
LEMMA ExecveKeeps ==
  ASSUME LabsInv, Execve
  PROVE  LabsInv'
<1>1. To("exec") /\ Note /\ "exec" \in Steps
  BY DEF Execve, Steps
<1>2. lines' = IF "kprobe" \in attached THEN {Line("KPROBE", "bash")} ELSE {}
  BY DEF Execve, LabsInv, OnItsWay, trace_exec
<1>3. job' \in Jobs /\ job'.at = "exec" /\ UNCHANGED lab
  BY <1>1, MoveKeeps
<1>4. LabsTypeOK' /\ RecipeInv' /\ AttachmentTold'
  BY <1>1, <1>3, CommandFrame
<1>5. Line("LSM", "") \notin lines'
  BY <1>2 DEF Line
<1>6. HooksExplain'
  BY <1>1, <1>2, <1>3, <1>5 DEF HooksExplain, Note
<1>7. OnItsWay'
  BY <1>3 DEF OnItsWay
<1>q. QED
  BY <1>4, <1>6, <1>7 DEF LabsInv

(* A path is refused only by the LSM program, which says so, and passes     *)
(* only without it                                                          *)
LEMMA CheckKeeps ==
  ASSUME LabsInv, CheckSecurity
  PROVE  LabsInv'
<1>0. /\ job \in Jobs /\ job.at = "exec"
      /\ always \subseteq attached /\ attached \subseteq ever
      /\ UNCHANGED <<always, ever>>
  BY DEF LabsInv, LabsTypeOK, CheckSecurity
<1>1. /\ "kprobe" \in always => Line("KPROBE", "bash") \in lines
      /\ \A line \in lines : \/ line = Line("KPROBE", "bash") /\ "kprobe" \in ever
                             \/ line.by = "LSM"
      /\ Line("LSM", "") \notin lines
  BY <1>0 DEF LabsInv, HooksExplain
<1>2. CASE "lsm" \in attached /\ restrict_execution(job.path)
  <2>1. To("refused") /\ "refused" \in Steps /\ lines' = lines \cup {Line("LSM", "")}
    BY <1>2 DEF CheckSecurity, Steps
  <2>2. "lsm" \in ever /\ job.path.start = "/usr/bin/curl"
    BY <1>0, <1>2 DEF restrict_execution
  <2>3. LabsTypeOK' /\ RecipeInv' /\ AttachmentTold'
    BY <1>0, <2>1, MoveKeeps, CommandFrame
  <2>4. /\ job'.at = "refused" /\ job'.path = job.path
    BY <2>1, MoveKeeps
  <2>5. Line("LSM", "").by = "LSM"
    BY DEF Line
  <2>6. HooksExplain'
    BY <1>0, <1>1, <2>1, <2>2, <2>4, <2>5 DEF HooksExplain
  <2>7. OnItsWay'
    BY <2>4 DEF OnItsWay
  <2>q. QED
    BY <2>3, <2>6, <2>7 DEF LabsInv
<1>3. CASE ~ ("lsm" \in attached /\ restrict_execution(job.path))
  <2>1. /\ job' = [job EXCEPT !.at = "run", !.comm = job.path.start]
        /\ UNCHANGED <<lab, lines>>
    BY <1>3 DEF CheckSecurity
  <2>2. "lsm" \notin always \/ job.path.start # "/usr/bin/curl"
    BY <1>0, <1>3 DEF restrict_execution
  <2>3. job' \in Jobs /\ job'.at = "run" /\ job'.path = job.path
    <3>1. "run" \in Steps /\ job.path.start \in {path.start : path \in Paths}
      BY <1>0 DEF Steps, Jobs
    <3>q. QED
      BY <1>0, <2>1, <3>1 DEF Jobs
  <2>4. LabsTypeOK' /\ RecipeInv' /\ AttachmentTold'
    BY <1>0, <2>1, <2>3, CommandFrame
  <2>5. HooksExplain'
    BY <1>0, <1>1, <2>1, <2>2, <2>3 DEF HooksExplain
  <2>6. OnItsWay'
    BY <2>3 DEF OnItsWay
  <2>q. QED
    BY <2>4, <2>5, <2>6 DEF LabsInv
<1>q. QED
  BY <1>2, <1>3

(* The host answers with the same kind of packet, to another port           *)
LEMMA AnswerKeeps ==
  ASSUME LabsInv, Answer
  PROVE  LabsInv'
<1>1. job \in Jobs /\ job.at = "received" /\ UNCHANGED <<lab, always, ever>>
  BY DEF LabsInv, LabsTypeOK, Answer
<1>2. PICK later \in BOOLEAN :
        job' = [job EXCEPT !.at = "reply_out", !.packet.dest = 81, !.packet.later = later]
  BY DEF Answer
<1> DEFINE answer == [job.packet EXCEPT !.dest = 81, !.later = later]
<1>3. /\ job.packet \in PacketLayers
      /\ job' = [job EXCEPT !.at = "reply_out", !.packet = answer]
  BY <1>1, <1>2 DEF Jobs, PacketLayers
<1>4. /\ answer \in PacketLayers /\ answer.dest = 81
      /\ IsIcmp(answer) <=> IsIcmp(job.packet)
      /\ WithIpv4(answer) <=> WithIpv4(job.packet)
  <2>1. answer \in PacketLayers
    BY <1>3 DEF PacketLayers
  <2>2. /\ answer.dest = 81
        /\ answer.type = job.packet.type /\ answer.protocol = job.packet.protocol
        /\ answer.size = job.packet.size /\ answer.options = job.packet.options
    BY <1>3 DEF PacketLayers
  <2> HIDE DEF answer
  <2>q. QED
    BY <2>1, <2>2 DEF IsIcmp, WithIpv4, TransportStart
<1>5. /\ job'.at = "reply_out" /\ job'.host = job.host /\ job'.packet = answer
      /\ job' \in Jobs
  <2> HIDE DEF answer
  <2>q. QED
    BY <1>1, <1>3, <1>4 DEF Steps, Jobs
<1>6. LabsTypeOK' /\ RecipeInv' /\ AttachmentTold'
  BY <1>1, <1>5, CommandFrame
<1>7. HooksExplain'
  BY <1>5 DEF HooksExplain
<1>8. OnItsWay'
  <2> HIDE DEF answer
  <2>q. QED
    BY <1>1, <1>4, <1>5 DEF OnItsWay, LabsInv
<1>q. QED
  BY <1>6, <1>7, <1>8 DEF LabsInv

(* A command begins or sends something                                      *)
LEMMA BeginKeeps ==
  ASSUME LabsInv, Send \/ NextCommand
  PROVE  LabsInv'
<1>1. /\ job' \in Jobs /\ job'.at \in {"shell", "request_out"}
      /\ job'.at = "shell" => job'.comm = "bash"
  <2>0. job \in Jobs
    BY DEF LabsInv, LabsTypeOK
  <2>1. CASE Send
    BY <2>0, <2>1, LabsAssumption DEF Send, Steps, Jobs
  <2>2. CASE NextCommand
    BY <2>2, NoPacketTyped DEF NextCommand, Steps, Jobs
  <2>q. QED
    BY <2>1, <2>2
<1>2. UNCHANGED lab /\ Note
  BY DEF Send, NextCommand
<1>3. LabsTypeOK' /\ RecipeInv' /\ AttachmentTold'
  BY <1>1, <1>2, CommandFrame
<1>4. HooksExplain' /\ OnItsWay'
  BY <1>1 DEF HooksExplain, OnItsWay
<1>q. QED
  BY <1>3, <1>4 DEF LabsInv

(* The invariant holds of every experiment                                  *)
LEMMA LabsInvariant == LabsSpec => []LabsInv
<1>1. LabsInit => LabsInv
  <2> SUFFICES ASSUME LabsInit PROVE LabsInv
    OBVIOUS
  <2>1. job \in Jobs /\ job.at = "shell" /\ job.comm = "bash"
    BY NoPacketTyped DEF LabsInit, Steps, Jobs
  <2>2. LabsTypeOK /\ RecipeInv /\ AttachmentTold
    BY <2>1 DEF LabsInit, LabsTypeOK, RecipeInv, AttachmentTold, Trapped
  <2>3. HooksExplain /\ OnItsWay
    BY <2>1 DEF HooksExplain, OnItsWay
  <2>q. QED
    BY <2>2, <2>3 DEF LabsInv
<1>2. LabsInv /\ [LabsNext]_labsVars => LabsInv'
  <2> SUFFICES ASSUME LabsInv, [LabsNext]_labsVars PROVE LabsInv'
    OBVIOUS
  <2>1. CASE Make
    BY <2>1, MakeKeeps
  <2>2. CASE Command
    BY <2>2, BeginKeeps, ExecveKeeps, CheckKeeps, LeaveKeeps, ArriveKeeps, AnswerKeeps
       DEF Command
  <2>3. CASE UNCHANGED labsVars
    <3>1. UNCHANGED <<lab, command, always, ever>>
      BY <2>3 DEF labsVars
    <3>2. job' \in Jobs
      BY <3>1 DEF LabsInv, LabsTypeOK, command
    <3>3. HooksExplain' /\ OnItsWay'
      BY <3>1, HooksChange
    <3>q. QED
      BY <3>1, <3>2, <3>3, CommandFrame DEF LabsInv
  <2>q. QED
    BY <2>1, <2>2, <2>3 DEF LabsNext
<1>q. QED
  BY <1>1, <1>2, PTL DEF LabsSpec

(* The hooks of both labs explain what gets through and what does not, for  *)
(* any paths, packets, options and ports, and any order of attaching and    *)
(* taking off.                                                              *)
THEOREM HooksAlwaysExplain == LabsSpec => []HooksExplain
<1>1. LabsInv => HooksExplain
  BY DEF LabsInv
<1>q. QED
  BY <1>1, LabsInvariant, PTL

(* make attach and make detach tell what they have left attached, whichever *)
(* step fails, is interrupted or killed, however often they are tried.      *)
THEOREM AttachmentAlwaysTold == LabsSpec => []AttachmentTold
<1>1. LabsInv => AttachmentTold
  BY DEF LabsInv
<1>q. QED
  BY <1>1, LabsInvariant, PTL
=============================================================================
