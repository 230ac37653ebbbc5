-------------------------- MODULE CpuHelperProofs --------------------------
(* Proofs about the programs that read the maps.  CpuHelper, what the        *)
(* helper prints: for any number of CPUs, switches, attempts and rounds.     *)
(* ToolLife, how cpu_usage and cpu_alert begin and end: for any number of    *)
(* possible CPUs and any lines of /sys.                                      *)
EXTENDS CpuHelper, ToolLife, FiniteSetTheorems, WellFoundedInduction, TLAPS

-----------------------------------------------------------------------------
(* Types *)

(* The initial counters, copies and samples have their types                *)
LEMMA InitType == Init => TypeOK
<1> SUFFICES ASSUME Init PROVE TypeOK
  OBVIOUS
<1> USE CounterAssumption, HelperAssumption
<1>1. KernelTyped
  BY DEF Init, KernelInit, KernelTyped, Counters, Zero
<1>2. CopyTyped
  BY DEF Init, CopyTyped, Counters, Zero, Blank, CPUs, Instants, NoInstant,
     LastWord
<1>3. SamplesTyped
  BY DEF Init, SamplesTyped, Samples, Instants, NoSample, NoInstant
<1>q. QED
  BY <1>1, <1>2, <1>3 DEF TypeOK

(* A step of a context switch keeps the types of the kernel's state         *)
LEMMA SwitchTyped == ASSUME KernelTyped, NEW p \in CPUs, Switch(p)
                     PROVE  KernelTyped'
<1>1. CASE Enter(p)
  BY <1>1 DEF Enter, KernelTyped
<1>2. CASE Open(p)
  BY <1>2 DEF Open, KernelTyped, Counters
<1>3. CASE Account(p)
  <2>1. counter[p] \in Counters /\ Elapsed(counter[p], wnow[p]) \in Nat
    BY DEF KernelTyped, Counters, Elapsed
  <2>2. Credit(counter[p], Elapsed(counter[p], wnow[p])) \in Counters
    BY <2>1 DEF Counters, Credit
  <2>q. QED
    BY <1>3, <2>2 DEF Account, KernelTyped
<1>4. CASE Stamp(p)
  BY <1>4 DEF Stamp, KernelTyped, Counters
<1>5. CASE Flag(p)
  BY <1>5 DEF Flag, KernelTyped, Counters
<1>6. CASE Close(p)
  BY <1>6 DEF Close, KernelTyped, Counters
<1>q. QED
  BY <1>1, <1>2, <1>3, <1>4, <1>5, <1>6 DEF Switch

(* The place that a copy reads next stays within the map                    *)
LEMMA AdvanceTyped == ASSUME CopyTyped, NEW next, Advance(next)
                      PROVE  cpu' \in CPUs /\ word' \in 0 .. LastWord
BY CounterAssumption DEF CopyTyped, Advance, CPUs, LastWord

(* Copying one word into a copy leaves a counter                            *)
LEMMA CopyWordTyped == ASSUME NEW copy \in Counters, NEW c \in Counters, NEW k
                       PROVE  CopyWord(copy, c, k) \in Counters
BY DEF CopyWord, Counters

(* Every step of the kernel and of the helper keeps the types               *)
LEMMA TypeStep == TypeOK /\ [Next]_vars => TypeOK'
<1> SUFFICES ASSUME TypeOK, [Next]_vars PROVE TypeOK'
  OBVIOUS
<1> USE CounterAssumption, HelperAssumption
<1>0. KernelTyped /\ CopyTyped /\ SamplesTyped
  BY DEF TypeOK
<1>1. ASSUME UNCHANGED kernelVars PROVE KernelTyped'
  BY <1>0, <1>1 DEF KernelTyped, kernelVars
<1>2. ASSUME UNCHANGED helperVars PROVE CopyTyped' /\ SamplesTyped'
  BY <1>0, <1>2 DEF CopyTyped, SamplesTyped, helperVars
<1>3. ASSUME Tick, UNCHANGED helperVars PROVE TypeOK'
  <2>1. KernelTyped'
    BY <1>0, <1>3 DEF Tick, KernelTyped
  <2>q. QED
    BY <1>2, <1>3, <2>1 DEF TypeOK
<1>4. ASSUME NEW p \in CPUs, Switch(p), UNCHANGED helperVars PROVE TypeOK'
  BY <1>0, <1>2, <1>4, SwitchTyped DEF TypeOK
<1>5. CASE BeginRound
  <2>1. CopyTyped'
    BY <1>0, <1>5 DEF CopyTyped, BeginRound, CPUs, LastWord
  <2>2. SamplesTyped'
    BY <1>0, <1>5 DEF SamplesTyped, BeginRound, Samples, Instants, NoSample,
       NoInstant
  <2>q. QED
    BY <1>1, <1>5, <2>1, <2>2 DEF BeginRound, TypeOK
<1>6. CASE CopyFirst
  <2>1. first' \in [CPUs -> Counters]
    <3>1. CopyWord(first[cpu], counter[cpu], word) \in Counters
      BY <1>0, CopyWordTyped DEF KernelTyped, CopyTyped
    <3>q. QED
      BY <1>0, <1>6, <3>1 DEF CopyFirst, CopyTyped
  <2>2. cpu' \in CPUs /\ word' \in 0 .. LastWord /\ rpc' \in {rpc, "now"}
    BY <1>0, <1>6, AdvanceTyped DEF CopyFirst, Advance
  <2>3. CopyTyped' /\ SamplesTyped'
    BY <1>0, <1>6, <2>1, <2>2 DEF CopyTyped, SamplesTyped, CopyFirst
  <2>q. QED
    BY <1>1, <1>6, <2>3 DEF CopyFirst, TypeOK
<1>7. CASE ReadNow
  <2>1. rnow' \in Nat /\ hist' \in [CPUs -> Instants]
    BY <1>0, <1>7 DEF ReadNow, KernelTyped, Instants
  <2>2. CopyTyped' /\ SamplesTyped'
    BY <1>0, <1>7, <2>1 DEF CopyTyped, SamplesTyped, ReadNow
  <2>q. QED
    BY <1>1, <1>7, <2>2 DEF ReadNow, TypeOK
<1>8. CASE CopySecond
  <2>1. second' \in [CPUs -> Counters]
    <3>1. CopyWord(second[cpu], counter[cpu], word) \in Counters
      BY <1>0, CopyWordTyped DEF KernelTyped, CopyTyped
    <3>q. QED
      BY <1>0, <1>8, <3>1 DEF CopySecond, CopyTyped
  <2>2. cpu' \in CPUs /\ word' \in 0 .. LastWord /\ rpc' \in {rpc, "check"}
    BY <1>0, <1>8, AdvanceTyped DEF CopySecond, Advance
  <2>3. CopyTyped' /\ SamplesTyped'
    BY <1>0, <1>8, <2>1, <2>2 DEF CopyTyped, SamplesTyped, CopySecond
  <2>q. QED
    BY <1>1, <1>8, <2>3 DEF CopySecond, TypeOK
<1>9. CASE Check
  <2>1. CopyTyped'
    BY <1>0, <1>9 DEF CopyTyped, Check, Blank, Zero, Counters
  <2>2. SamplesTyped'
    BY <1>0, <1>9 DEF SamplesTyped, Check, Samples, Measured, Stable,
       CopyTyped, Counters
  <2>q. QED
    BY <1>1, <1>9, <2>1, <2>2 DEF Check, TypeOK
<1>10. CASE Emit
  <2>1. CopyTyped'
    BY <1>0, <1>10 DEF CopyTyped, Emit
  <2>2. ASSUME NEW p \in CPUs, Comparable(p)
        PROVE  Delta(p) \in [cpu : CPUs, busy : Nat, total : Nat]
    BY <1>0, <2>2 DEF SamplesTyped, Samples, Comparable, Delta
  <2>3. emitted' \subseteq [cpu : CPUs, busy : Nat, total : Nat]
    BY <1>10, <2>2 DEF Emit
  <2>4. rounds' \in Nat
    BY <1>0, <1>10 DEF Emit, SamplesTyped
  <2>5. SamplesTyped'
    BY <1>0, <1>10, <2>3, <2>4 DEF SamplesTyped, Emit
  <2>q. QED
    BY <1>1, <1>10, <2>1, <2>5 DEF Emit, TypeOK
<1>11. CASE UNCHANGED vars
  BY <1>1, <1>2, <1>11 DEF vars, TypeOK
<1>q. QED
  BY <1>3, <1>4, <1>5, <1>6, <1>7, <1>8, <1>9, <1>10, <1>11
     DEF Next, KernelNext, HelperNext, Finished

-----------------------------------------------------------------------------
(* The writers *)

(* Consecutive sequences have opposite parities                             *)
LEMMA Parity == \A n \in Nat : Even(n + 1) <=> ~Even(n)
BY DEF Even

(* Accounting a time adds it to one of busy and idle and leaves the sequence*)
(* and the timestamp alone.                                                 *)
LEMMA CreditFields ==
  ASSUME NEW c \in Counters, NEW time \in Nat
  PROVE  LET d == Credit(c, time)
         IN /\ d.sequence = c.sequence /\ d.last = c.last
            /\ d.busy + d.idle = c.busy + c.idle + time
            /\ time = 0 => d.busy = c.busy /\ d.idle = c.idle
BY DEF Counters, Credit

(* The writer of p itself moves *)
LEMMA OwnSwitch ==
  ASSUME KernelTyped, NEW p \in CPUs, WriterInv(p), Switch(p)
  PROVE  WriterInv(p)'
<1>0. /\ counter[p] \in Counters /\ counter[p].sequence \in Nat
      /\ counter[p].busy \in Nat /\ counter[p].idle \in Nat
      /\ counter[p].last \in Nat /\ wnow[p] \in Nat /\ boot[p] \in Nat
      /\ clock \in Nat /\ clock # 0
  BY CounterAssumption DEF KernelTyped, Counters
<1>1. CASE Enter(p)
  <2>1. /\ wpc[p] = "out" /\ wpc'[p] = "open" /\ wnow'[p] = clock
        /\ boot'[p] = IF boot[p] = 0 THEN clock ELSE boot[p]
        /\ counter' = counter /\ clock' = clock
    BY <1>1 DEF Enter, KernelTyped
  <2>q. QED
    BY <1>0, <2>1 DEF WriterInv, Whole
<1>2. CASE Open(p)
  <2>1. /\ wpc[p] = "open" /\ wpc'[p] = "account"
        /\ UNCHANGED <<clock, wnow, boot>>
        /\ counter'[p] = [counter[p] EXCEPT !.sequence = @ + 1]
    BY <1>2 DEF Open, KernelTyped
  <2>2. /\ counter'[p].sequence = counter[p].sequence + 1
        /\ counter'[p].busy = counter[p].busy /\ counter'[p].idle = counter[p].idle
        /\ counter'[p].last = counter[p].last
    BY <1>0, <2>1 DEF Counters
  <2>q. QED
    BY <1>0, <2>1, <2>2, Parity DEF WriterInv, Whole
<1>3. CASE Account(p)
  <2> DEFINE e == Elapsed(counter[p], wnow[p])
  <2>1. /\ wpc[p] = "account" /\ wpc'[p] = "stamp"
        /\ UNCHANGED <<clock, wnow, boot>>
        /\ counter'[p] = Credit(counter[p], e)
    BY <1>3 DEF Account, KernelTyped
  <2>2. e \in Nat /\ e = IF counter[p].last # 0 THEN wnow[p] - counter[p].last ELSE 0
    BY <1>0 DEF Elapsed, WriterInv
  <2>3. /\ counter'[p].sequence = counter[p].sequence
        /\ counter'[p].last = counter[p].last
        /\ counter'[p].busy + counter'[p].idle = counter[p].busy + counter[p].idle + e
        /\ e = 0 => /\ counter'[p].busy = counter[p].busy
                    /\ counter'[p].idle = counter[p].idle
    BY <1>0, <2>1, <2>2, CreditFields
  <2>q. QED
    BY <1>0, <2>1, <2>2, <2>3 DEF WriterInv, Whole
<1>4. CASE Stamp(p)
  <2>1. /\ wpc[p] = "stamp" /\ wpc'[p] = "flag"
        /\ UNCHANGED <<clock, wnow, boot>>
        /\ counter'[p] = [counter[p] EXCEPT !.last = wnow[p]]
    BY <1>4 DEF Stamp, KernelTyped
  <2>2. /\ counter'[p].sequence = counter[p].sequence
        /\ counter'[p].busy = counter[p].busy /\ counter'[p].idle = counter[p].idle
        /\ counter'[p].last = wnow[p]
    BY <1>0, <2>1 DEF Counters
  <2>q. QED
    BY <1>0, <2>1, <2>2 DEF WriterInv, Whole
<1>5. CASE Flag(p)
  <2>1. /\ wpc[p] = "flag" /\ wpc'[p] = "close"
        /\ UNCHANGED <<clock, wnow, boot>>
        /\ counter'[p] = [counter[p] EXCEPT !.isIdle = nextIdle[p]]
    BY <1>5 DEF Flag, KernelTyped
  <2>2. /\ counter'[p].sequence = counter[p].sequence
        /\ counter'[p].busy = counter[p].busy /\ counter'[p].idle = counter[p].idle
        /\ counter'[p].last = counter[p].last
    BY <1>0, <2>1 DEF Counters
  <2>q. QED
    BY <1>0, <2>1, <2>2 DEF WriterInv, Whole
<1>6. CASE Close(p)
  <2>1. /\ wpc[p] = "close" /\ wpc'[p] = "out"
        /\ UNCHANGED <<clock, wnow, boot>>
        /\ counter'[p] = [counter[p] EXCEPT !.sequence = @ + 1]
    BY <1>6 DEF Close, KernelTyped
  <2>2. /\ counter'[p].sequence = counter[p].sequence + 1
        /\ counter'[p].busy = counter[p].busy /\ counter'[p].idle = counter[p].idle
        /\ counter'[p].last = counter[p].last
    BY <1>0, <2>1 DEF Counters
  <2>q. QED
    BY <1>0, <2>1, <2>2, Parity DEF WriterInv, Whole
<1>q. QED
  BY <1>1, <1>2, <1>3, <1>4, <1>5, <1>6 DEF Switch

(* The writer of another CPU touches nothing of p *)
LEMMA OtherSwitch ==
  ASSUME KernelTyped, NEW p \in CPUs, NEW q \in CPUs, q # p, Switch(q)
  PROVE  /\ counter'[p] = counter[p] /\ wpc'[p] = wpc[p] /\ wnow'[p] = wnow[p]
         /\ boot'[p] = boot[p] /\ clock' = clock
BY DEF KernelTyped, Switch, Enter, Open, Account, Stamp, Flag, Close

(* Every step keeps the struct of a CPU whole wherever its sequence is even *)
LEMMA WriterStep ==
  ASSUME TypeOK, NEW p \in CPUs, WriterInv(p), [Next]_vars
  PROVE  WriterInv(p)'
<1>0. KernelTyped /\ clock \in Nat /\ wnow[p] \in Nat
  BY CounterAssumption DEF TypeOK, KernelTyped
<1>1. CASE Tick
  BY <1>0, <1>1 DEF Tick, WriterInv, Whole
<1>2. ASSUME NEW q \in CPUs, Switch(q) PROVE WriterInv(p)'
  <2>1. CASE q = p
    BY <1>0, <1>2, <2>1, OwnSwitch
  <2>2. CASE q # p
    BY <1>0, <1>2, <2>2, OtherSwitch DEF WriterInv, Whole
  <2>q. QED
    BY <2>1, <2>2
<1>3. CASE UNCHANGED kernelVars
  BY <1>3 DEF kernelVars, WriterInv, Whole
<1>q. QED
  BY <1>1, <1>2, <1>3
     DEF Next, KernelNext, HelperNext, Finished, vars, BeginRound, CopyFirst,
         ReadNow, CopySecond, Check, Emit

-----------------------------------------------------------------------------
(* The copies *)

(* What a kernel step may do to p: nothing to its counter, or grow the      *)
(* sequence, or write under an odd sequence.                                *)
LEMMA KernelEffect ==
  ASSUME KernelTyped, NEW p \in CPUs, WriterInv(p), KernelNext
  PROVE  /\ \/ counter'[p] = counter[p]
            \/ counter'[p].sequence = counter[p].sequence + 1
            \/ /\ counter'[p].sequence = counter[p].sequence
               /\ ~Even(counter[p].sequence)
         /\ boot[p] # 0 => boot'[p] = boot[p]
<1>0. /\ counter[p] \in Counters /\ wnow[p] \in Nat
      /\ Elapsed(counter[p], wnow[p]) \in Nat
  BY DEF KernelTyped, Counters, Elapsed
<1>1. CASE Tick
  BY <1>1 DEF Tick
<1>2. ASSUME NEW q \in CPUs, q # p, Switch(q)
      PROVE  counter'[p] = counter[p] /\ boot'[p] = boot[p]
  BY <1>2, OtherSwitch
<1>3. CASE Enter(p)
  BY <1>3 DEF Enter, KernelTyped
<1>4. CASE Open(p) \/ Close(p)
  BY <1>0, <1>4 DEF Open, Close, KernelTyped, Counters
<1>5. CASE Account(p)
  BY <1>0, <1>5, CreditFields DEF Account, KernelTyped, WriterInv
<1>6. CASE Stamp(p) \/ Flag(p)
  BY <1>0, <1>6 DEF Stamp, Flag, KernelTyped, Counters, WriterInv
<1>q. QED
  BY <1>1, <1>2, <1>3, <1>4, <1>5, <1>6 DEF KernelNext, Switch

(* What the copies are known to agree with the counter about survives a     *)
(* switch that writes the counter meanwhile.                                *)
LEMMA CopyUnderKernel ==
  ASSUME TypeOK, NEW p \in CPUs, WriterInv(p), CopyInv(p), KernelNext,
         UNCHANGED helperVars
  PROVE  CopyInv(p)'
<1>1. /\ counter[p].sequence \in Nat /\ first[p].sequence \in Nat
  BY DEF TypeOK, KernelTyped, CopyTyped, Counters
<1>2. /\ \/ counter'[p] = counter[p]
         \/ counter'[p].sequence = counter[p].sequence + 1
         \/ /\ counter'[p].sequence = counter[p].sequence
            /\ ~Even(counter[p].sequence)
      /\ boot[p] # 0 => boot'[p] = boot[p]
  BY KernelEffect DEF TypeOK
<1>3. /\ UNCHANGED <<first, second, hist, rnow, rpc>>
      /\ \A k : InFirst(p, k)' <=> InFirst(p, k)
      /\ \A k : InSecond(p, k)' <=> InSecond(p, k)
  BY DEF helperVars, InFirst, InSecond, Past
<1>4. Whole(p, first[p]) => Whole(p, first[p])'
  BY <1>2, <1>3 DEF Whole
<1>q. QED
  BY <1>1, <1>2, <1>3, <1>4 DEF CopyInv

(* Where the copy stands after one more word *)
LEMMA AdvancePast ==
  ASSUME CopyTyped, NEW next, Advance(next), NEW p \in CPUs, NEW k \in 0 .. 4
  PROVE  /\ rpc' = rpc => (Past(p, k)' <=> Past(p, k) \/ (p = cpu /\ k = word))
                            \/ (word = 4 /\ cpu = NumCPUs /\ rpc = next)
         /\ rpc' # rpc => rpc' = next /\ (Past(p, k) \/ (p = cpu /\ k = word))
         /\ rpc' # rpc => cpu' = 1 /\ word' = 0
<1>1. cpu \in 1 .. NumCPUs /\ p \in 1 .. NumCPUs /\ word \in 0 .. 4 /\ NumCPUs \in Nat
  BY CounterAssumption DEF CopyTyped, CPUs, LastWord
<1>q. QED
  BY <1>1 DEF Advance, Past, LastWord

(* The same when the first copy reads a word                                *)
LEMMA CopyFirstStep ==
  ASSUME TypeOK, NEW p \in CPUs, CopyInv(p), CopyFirst
  PROVE  CopyInv(p)'
<1> DEFINE read(k) == Past(p, k) \/ (p = cpu /\ k = word)
<1>1. /\ rpc = "first" /\ rpc' \in {"first", "now"} /\ Advance("now")
      /\ UNCHANGED <<counter, boot, second>>
  BY DEF CopyFirst, Advance, kernelVars
<1>2. \A k \in 0 .. 4 : InFirst(p, k)' <=> read(k)
  BY <1>1, AdvancePast DEF InFirst, TypeOK
<1>3. \A k \in 0 .. 4 : ~InSecond(p, k)'
  BY <1>1 DEF InSecond
<1>4. \A k \in 0 .. 4 : InFirst(p, k) <=> Past(p, k)
  BY <1>1 DEF InFirst
<1>5. CASE p # cpu
  <2>1. first'[p] = first[p]
    BY <1>5 DEF CopyFirst, TypeOK, CopyTyped
  <2>q. QED
    BY <1>1, <1>2, <1>3, <1>4, <1>5, <2>1 DEF CopyInv
<1>6. CASE p = cpu
  <2>1. first'[p] = CopyWord(first[p], counter[p], word)
    BY <1>6 DEF CopyFirst, TypeOK, CopyTyped
  <2>2. word \in 0 .. 4 /\ \A k \in 0 .. 4 : Past(p, k) <=> k < word
    BY <1>6, CounterAssumption DEF TypeOK, CopyTyped, LastWord, Past, CPUs
  <2>3. counter[p].sequence \in Nat
    BY DEF TypeOK, KernelTyped, Counters
  <2>q. QED
    BY <1>1, <1>2, <1>3, <1>4, <1>6, <2>1, <2>2, <2>3 DEF CopyInv, CopyWord
<1>q. QED
  BY <1>5, <1>6

(* The same when the second copy reads a word: reading an unchanged even    *)
(* sequence again makes the first copy whole.                               *)
LEMMA CopySecondStep ==
  ASSUME TypeOK, NEW p \in CPUs, WriterInv(p), CopyInv(p), CopySecond
  PROVE  CopyInv(p)'
<1> DEFINE read(k) == Past(p, k) \/ (p = cpu /\ k = word)
<1>1. /\ rpc = "second" /\ rpc' \in {"second", "check"} /\ Advance("check")
      /\ UNCHANGED <<counter, boot, first, hist, rnow>>
  BY DEF CopySecond, Advance, kernelVars
<1>2. InSecond(p, 0)' <=> read(0)
  BY <1>1, AdvancePast DEF InSecond, TypeOK
<1>3. \A k \in 0 .. 4 : InFirst(p, k) /\ InFirst(p, k)'
  BY <1>1 DEF InFirst
<1>4. InSecond(p, 0) <=> Past(p, 0)
  BY <1>1 DEF InSecond
<1>5. CASE p = cpu /\ word = 0
  <2>1. second'[p].sequence = counter[p].sequence
    BY <1>5 DEF CopySecond, CopyWord, TypeOK, CopyTyped
  <2>2. Even(counter[p].sequence) => Whole(p, counter[p])
    BY DEF WriterInv
  <2>3. Even(first[p].sequence) /\ first[p].sequence = counter[p].sequence =>
          Whole(p, first[p])
    BY <1>3, <2>2 DEF CopyInv, Whole
  <2>q. QED
    BY <1>1, <1>3, <2>1, <2>3 DEF CopyInv, Whole
<1>6. CASE ~(p = cpu /\ word = 0)
  <2>1. second'[p].sequence = second[p].sequence
    BY <1>6 DEF CopySecond, CopyWord, TypeOK, CopyTyped
  <2>q. QED
    BY <1>1, <1>2, <1>3, <1>4, <1>6, <2>1 DEF CopyInv, Whole
<1>q. QED
  BY <1>5, <1>6

(* So every step keeps the relation of the copies to the counter            *)
LEMMA CopyStep ==
  ASSUME TypeOK, PlaceInv, NEW p \in CPUs, WriterInv(p), CopyInv(p), [Next]_vars
  PROVE  CopyInv(p)'
<1>1. CASE KernelNext /\ UNCHANGED helperVars
  BY <1>1, CopyUnderKernel
<1>2. CASE CopyFirst
  BY <1>2, CopyFirstStep
<1>3. CASE CopySecond
  BY <1>3, CopySecondStep
<1>4. CASE ReadNow
  <2>1. /\ rpc = "now" /\ rpc' = "second" /\ cpu = 1 /\ word = 0
        /\ UNCHANGED <<counter, first, second, cpu, word>>
        /\ rnow' = clock /\ hist'[p].now = clock
    BY <1>4 DEF ReadNow, PlaceInv, kernelVars
  <2>2. \A k \in 0 .. 4 : InFirst(p, k) /\ InFirst(p, k)' /\ ~InSecond(p, k)'
    BY <2>1, CounterAssumption DEF InFirst, InSecond, Past, CPUs
  <2>q. QED
    BY <2>1, <2>2 DEF CopyInv
<1>5. CASE BeginRound \/ Check \/ Emit
  <2>1. /\ rpc' \in {"first", "emit", "sleep"}
        /\ cpu' = 1 /\ word' = 0
    BY <1>5 DEF BeginRound, Check, Emit, PlaceInv
  <2>2. \A k \in 0 .. 4 : ~InFirst(p, k)' /\ ~InSecond(p, k)'
    BY <2>1, CounterAssumption DEF InFirst, InSecond, Past, CPUs
  <2>q. QED
    BY <2>1, <2>2 DEF CopyInv
<1>6. CASE UNCHANGED vars
  BY <1>6 DEF vars, kernelVars, helperVars, CopyInv, InFirst, InSecond, Past, Whole
<1>q. QED
  BY <1>1, <1>2, <1>3, <1>4, <1>5, <1>6 DEF Next, HelperNext, Finished

-----------------------------------------------------------------------------
(* The samples *)

(* The instant of a CPU's first switch is never set twice                   *)
LEMMA BootKept == ASSUME KernelTyped, NEW p \in CPUs, WriterInv(p), [Next]_vars,
                         boot[p] # 0
                  PROVE  boot'[p] = boot[p]
BY KernelEffect
   DEF Next, HelperNext, Finished, BeginRound, CopyFirst, ReadNow, CopySecond,
       Check, Emit, kernelVars, vars

(* A copy that take_snapshot accepts is whole *)
LEMMA StableIsWhole ==
  ASSUME TypeOK, NEW p \in CPUs, CopyInv(p), rpc = "check", Stable(p)
  PROVE  /\ boot[p] # 0 /\ hist[p].now = rnow
         /\ Measured(p).busy + Measured(p).idle = rnow - boot[p]
<1>1. first[p] \in Counters /\ rnow \in Nat /\ boot[p] \in Nat
  BY DEF TypeOK, CopyTyped, KernelTyped
<1>2. Whole(p, first[p]) /\ hist[p].now = rnow
  BY DEF Stable, CopyInv, InSecond, Even
<1>3. boot[p] # 0 /\ first[p].busy + first[p].idle = first[p].last - boot[p]
  BY <1>2 DEF Whole, Stable
<1>q. QED
  BY <1>1, <1>2, <1>3 DEF Measured, Counters

(* Only Check makes a sample, from a first copy that is whole               *)
LEMMA SampleStep ==
  ASSUME TypeOK, NEW p \in CPUs, WriterInv(p), CopyInv(p), SampleInv(p), [Next]_vars
  PROVE  SampleInv(p)'
<1>1. CASE BeginRound
  BY <1>1 DEF BeginRound, SampleInv, NoSample
<1>2. CASE Check
  <2>1. rpc = "check" /\ UNCHANGED boot
    BY <1>2 DEF Check, kernelVars
  <2>2. CASE current'[p] = current[p] /\ at'[p] = at[p]
    BY <2>1, <2>2 DEF SampleInv
  <2>3. CASE Stable(p) /\ current'[p] = Measured(p) /\ at'[p] = hist[p]
    BY <2>1, <2>3, StableIsWhole DEF SampleInv
  <2>q. QED
    BY <1>2, <2>2, <2>3 DEF Check
<1>3. CASE UNCHANGED <<current, at>>
  BY <1>3, BootKept DEF SampleInv, TypeOK
<1>q. QED
  BY <1>1, <1>2, <1>3
     DEF Next, HelperNext, Finished, CopyFirst, ReadNow, CopySecond, Emit,
         helperVars, vars

(* Every copy begins with the first word of the first CPU                   *)
LEMMA PlaceStep == ASSUME CopyTyped, PlaceInv, [Next]_vars PROVE PlaceInv'
BY DEF CopyTyped, PlaceInv, Next, HelperNext, Finished, BeginRound, CopyFirst,
       ReadNow, CopySecond, Check, Emit, Advance, helperVars, vars

(* The inductive invariant: types, the writers' discipline, the relation of *)
(* the two copies to the counters, and the samples taken from them.         *)
THEOREM Invariance == Spec => [](TypeOK /\ HelperInv)
<1>1. Init => TypeOK /\ HelperInv
  <2> SUFFICES ASSUME Init PROVE TypeOK /\ HelperInv
    OBVIOUS
  <2>1. PlaceInv
    BY DEF Init, PlaceInv
  <2>2. ASSUME NEW p \in CPUs PROVE WriterInv(p) /\ CopyInv(p) /\ SampleInv(p)
    BY DEF Init, KernelInit, Zero, NoSample, WriterInv, Whole, Even, CopyInv,
       SampleInv, InFirst, InSecond
  <2>q. QED
    BY InitType, <2>1, <2>2 DEF HelperInv
<1>2. TypeOK /\ HelperInv /\ [Next]_vars => TypeOK' /\ HelperInv'
  <2> SUFFICES ASSUME TypeOK, HelperInv, [Next]_vars PROVE TypeOK' /\ HelperInv'
    OBVIOUS
  <2>1. TypeOK' /\ PlaceInv'
    BY TypeStep, PlaceStep DEF HelperInv, TypeOK
  <2>2. ASSUME NEW p \in CPUs
        PROVE  WriterInv(p)' /\ CopyInv(p)' /\ SampleInv(p)'
    BY WriterStep, CopyStep, SampleStep DEF HelperInv
  <2>q. QED
    BY <2>1, <2>2 DEF HelperInv
<1>q. QED
  BY <1>1, <1>2, PTL DEF Spec

(* The counters, copies, samples and printed values keep their types        *)
THEOREM TypeCorrect == Spec => []TypeOK
BY Invariance, PTL

(* Whatever copies a switch tears, and on any number of CPUs, what is taken *)
(* for a sample accounts exactly for the time since the CPU's first switch. *)
THEOREM WholeSamples == Spec => []SampleIsWhole
<1>1. HelperInv => SampleIsWhole
  BY DEF HelperInv, SampleInv, SampleIsWhole
<1>q. QED
  BY <1>1, Invariance, PTL

-----------------------------------------------------------------------------
(* The split between busy and idle *)

(* Only the share of a task that is not the idle one is busy time           *)
LEMMA BusyShare ==
  ASSUME NEW idle \in BOOLEAN, NEW time \in Nat
  PROVE  Busy(idle, time) \in Nat /\ Busy(idle, time) <= time
BY DEF Busy

(* Accounting adds the busy share *)
LEMMA CreditBusy ==
  ASSUME NEW c \in Counters, NEW time \in Nat
  PROVE  /\ Credit(c, time).busy = c.busy + Busy(c.isIdle, time)
         /\ Credit(c, time).last = c.last /\ Credit(c, time).isIdle = c.isIdle
BY DEF Counters, Credit, Busy

(* What a CPU's own switch does to the time it accounts for *)
LEMMA OwnRan ==
  ASSUME KernelTyped, NEW p \in CPUs, WriterInv(p), RanInv(p), Switch(p)
  PROVE  RanInv(p)'
<1>0. /\ counter[p] \in Counters /\ counter[p].sequence \in Nat
      /\ counter[p].busy \in Nat /\ counter[p].last \in Nat
      /\ counter[p].isIdle \in BOOLEAN /\ nextIdle[p] \in BOOLEAN
      /\ wnow[p] \in Nat /\ boot[p] \in Nat /\ ran[p] \in Nat
      /\ clock \in Nat /\ clock # 0
  BY CounterAssumption DEF KernelTyped, Counters
<1>1. CASE Enter(p)
  <2>1. /\ wpc[p] = "out" /\ wpc'[p] = "open" /\ wnow'[p] = clock
        /\ boot'[p] = IF boot[p] = 0 THEN clock ELSE boot[p]
        /\ nextIdle'[p] \in BOOLEAN
        /\ UNCHANGED <<counter, clock, ran>>
    BY <1>1 DEF Enter, KernelTyped
  <2>2. Busy(nextIdle'[p], clock - clock) = 0
    BY <1>0, <2>1 DEF Busy
  <2>3. /\ counter[p].last = 0 => ran[p] = 0 /\ counter[p].busy = 0
        /\ counter[p].last # 0 =>
             ran[p] = counter[p].busy + Busy(counter[p].isIdle, clock - counter[p].last)
    BY <1>0, <2>1 DEF WriterInv, RanInv
  <2>4. counter[p].last <= clock
    BY <1>0 DEF WriterInv
  <2>5. counter[p].last # 0 => Busy(counter[p].isIdle, clock - counter[p].last) \in Nat
    BY <1>0, <2>4, BusyShare
  <2>q. QED
    BY <1>0, <2>1, <2>2, <2>3, <2>5 DEF RanInv
<1>2. CASE Open(p)
  <2>1. /\ wpc[p] = "open" /\ wpc'[p] = "account"
        /\ UNCHANGED <<clock, wnow, boot, ran, nextIdle>>
        /\ counter'[p] = [counter[p] EXCEPT !.sequence = @ + 1]
    BY <1>2 DEF Open, KernelTyped
  <2>2. /\ counter'[p].busy = counter[p].busy /\ counter'[p].last = counter[p].last
        /\ counter'[p].isIdle = counter[p].isIdle
    BY <1>0, <2>1 DEF Counters
  <2>q. QED
    BY <2>1, <2>2 DEF RanInv
<1>3. CASE Account(p)
  <2> DEFINE e == Elapsed(counter[p], wnow[p])
  <2>1. /\ wpc[p] = "account" /\ wpc'[p] = "stamp"
        /\ UNCHANGED <<clock, wnow, boot, ran, nextIdle>>
        /\ counter'[p] = Credit(counter[p], e)
    BY <1>3 DEF Account, KernelTyped
  <2>2. e \in Nat /\ e = IF counter[p].last # 0 THEN wnow[p] - counter[p].last ELSE 0
    BY <1>0 DEF Elapsed, WriterInv
  <2>3. counter'[p].busy = counter[p].busy + Busy(counter[p].isIdle, e)
    BY <1>0, <2>1, <2>2, CreditBusy
  <2>4. Busy(counter[p].isIdle, e)
          = IF counter[p].last = 0 THEN 0 ELSE Busy(counter[p].isIdle, wnow[p] - counter[p].last)
    BY <1>0, <2>2 DEF Busy
  <2>5. Busy(nextIdle[p], clock - wnow[p]) \in Nat /\ Busy(counter[p].isIdle, e) \in Nat
    BY <1>0, <2>2, BusyShare DEF WriterInv
  <2>6. ran[p] = counter'[p].busy + Busy(nextIdle[p], clock - wnow[p])
    <3> HIDE DEF e
    <3>1. ran[p] = counter[p].busy + Busy(nextIdle[p], clock - wnow[p])
                   + Busy(counter[p].isIdle, e)
      BY <2>1, <2>4 DEF RanInv
    <3>q. QED
      BY <1>0, <2>3, <2>5, <3>1
  <2>7. boot[p] # 0
    BY <2>1 DEF WriterInv
  <2>q. QED
    BY <2>1, <2>6, <2>7 DEF RanInv
<1>4. CASE Stamp(p)
  <2>1. /\ wpc[p] = "stamp" /\ wpc'[p] = "flag"
        /\ UNCHANGED <<clock, wnow, boot, ran, nextIdle>>
        /\ counter'[p] = [counter[p] EXCEPT !.last = wnow[p]]
    BY <1>4 DEF Stamp, KernelTyped
  <2>2. counter'[p].busy = counter[p].busy
    BY <1>0, <2>1 DEF Counters
  <2>q. QED
    BY <2>1, <2>2 DEF RanInv
<1>5. CASE Flag(p)
  <2>1. /\ wpc[p] = "flag" /\ wpc'[p] = "close"
        /\ UNCHANGED <<clock, wnow, boot, ran, nextIdle>>
        /\ counter'[p] = [counter[p] EXCEPT !.isIdle = nextIdle[p]]
    BY <1>5 DEF Flag, KernelTyped
  <2>2. counter'[p].busy = counter[p].busy /\ counter'[p].isIdle = nextIdle[p]
    BY <1>0, <2>1 DEF Counters
  <2>q. QED
    BY <2>1, <2>2 DEF RanInv
<1>6. CASE Close(p)
  <2>1. /\ wpc[p] = "close" /\ wpc'[p] = "out"
        /\ UNCHANGED <<clock, wnow, boot, ran, nextIdle>>
        /\ counter'[p] = [counter[p] EXCEPT !.sequence = @ + 1]
    BY <1>6 DEF Close, KernelTyped
  <2>2. /\ counter'[p].busy = counter[p].busy /\ counter'[p].last = counter[p].last
        /\ counter'[p].isIdle = counter[p].isIdle
    BY <1>0, <2>1 DEF Counters
  <2>3. counter[p].last = wnow[p] /\ counter[p].isIdle = nextIdle[p]
    BY <2>1 DEF WriterInv, RanInv
  <2>q. QED
    BY <2>1, <2>2, <2>3 DEF RanInv
<1>q. QED
  BY <1>1, <1>2, <1>3, <1>4, <1>5, <1>6 DEF Switch

(* A nanosecond of a busy task is a busy nanosecond *)
LEMMA TickRan ==
  ASSUME KernelTyped, NEW p \in CPUs, WriterInv(p), RanInv(p), Tick
  PROVE  RanInv(p)'
<1>0. /\ counter[p].busy \in Nat /\ counter[p].last \in Nat
      /\ counter[p].isIdle \in BOOLEAN /\ nextIdle[p] \in BOOLEAN
      /\ wnow[p] \in Nat /\ boot[p] \in Nat /\ ran[p] \in Nat /\ clock \in Nat
      /\ wpc[p] \in {"out", "open", "account", "stamp", "flag", "close"}
  BY CounterAssumption DEF KernelTyped, Counters
<1>1. /\ clock' = clock + 1 /\ UNCHANGED <<counter, wpc, wnow, nextIdle, boot>>
      /\ ran'[p] = IF boot[p] # 0 /\ ~nextIdle[p] THEN ran[p] + 1 ELSE ran[p]
  BY DEF Tick, KernelTyped
<1>2. CASE boot[p] = 0
  <2>1. wpc[p] = "out" /\ counter[p].last = 0
    BY <1>0, <1>2 DEF WriterInv, Whole
  <2>q. QED
    BY <1>1, <1>2, <2>1 DEF RanInv
<1>3. CASE boot[p] # 0 /\ wpc[p] = "out"
  BY <1>0, <1>1, <1>3 DEF RanInv, Busy, WriterInv
<1>4. CASE boot[p] # 0 /\ wpc[p] # "out"
  <2>1. /\ Busy(nextIdle[p], clock - wnow[p]) \in Nat
        /\ Busy(nextIdle[p], clock' - wnow[p])
             = Busy(nextIdle[p], clock - wnow[p]) + (IF nextIdle[p] THEN 0 ELSE 1)
    BY <1>0, <1>1 DEF Busy, WriterInv
  <2>2. counter[p].last # 0 => Busy(counter[p].isIdle, wnow[p] - counter[p].last) \in Nat
    BY <1>0 DEF Busy, WriterInv
  <2>q. QED
    BY <1>0, <1>1, <1>4, <2>1, <2>2 DEF RanInv
<1>q. QED
  BY <1>2, <1>3, <1>4

(* So every step keeps what the struct knows of the busy time               *)
LEMMA RanStep ==
  ASSUME TypeOK, NEW p \in CPUs, WriterInv(p), RanInv(p), [Next]_vars
  PROVE  RanInv(p)'
<1>0. KernelTyped
  BY DEF TypeOK
<1>1. CASE Tick
  BY <1>0, <1>1, TickRan
<1>2. ASSUME NEW q \in CPUs, Switch(q) PROVE RanInv(p)'
  <2>1. CASE q = p
    BY <1>0, <1>2, <2>1, OwnRan
  <2>2. CASE q # p
    <3>1. ran'[p] = ran[p] /\ nextIdle'[p] = nextIdle[p]
      BY <1>0, <1>2, <2>2
         DEF KernelTyped, Switch, Enter, Open, Account, Stamp, Flag, Close
    <3>q. QED
      BY <1>0, <1>2, <2>2, <3>1, OtherSwitch DEF RanInv
  <2>q. QED
    BY <2>1, <2>2
<1>3. CASE UNCHANGED kernelVars
  BY <1>3 DEF kernelVars, RanInv
<1>q. QED
  BY <1>1, <1>2, <1>3
     DEF Next, KernelNext, HelperNext, Finished, vars, BeginRound, CopyFirst,
         ReadNow, CopySecond, Check, Emit

(* At the instant between the two copies a first copy that is still that of *)
(* the struct tells how busy the CPU has been, up to the lag of a switch.   *)
LEMMA FitsNow ==
  ASSUME TypeOK, PlaceInv, NEW p \in CPUs, WriterInv(p), CopyInv(p), RanInv(p), ReadNow,
         Even(first[p].sequence), first[p].sequence = counter[p].sequence
  PROVE  Fits(p)'
<1> DEFINE c == counter[p]
<1>1. /\ rpc = "now" /\ UNCHANGED first /\ rnow' = clock
      /\ hist'[p].ran = ran[p]
      /\ hist'[p].lag = IF wpc[p] = "open" THEN clock - wnow[p] ELSE 0
  BY DEF ReadNow
<1>2. /\ first[p].busy = c.busy /\ first[p].last = c.last /\ first[p].isIdle = c.isIdle
  BY <1>1 DEF CopyInv, InFirst
<1>3. /\ c.busy \in Nat /\ c.last \in Nat /\ c.isIdle \in BOOLEAN
      /\ nextIdle[p] \in BOOLEAN /\ wnow[p] \in Nat /\ ran[p] \in Nat /\ clock \in Nat
  BY CounterAssumption DEF TypeOK, KernelTyped, Counters
<1>4. c.last <= wnow[p] /\ wnow[p] <= clock /\ wpc[p] \in {"out", "open"}
  BY DEF WriterInv
<1>5. Measured(p)'.busy = c.busy + Busy(c.isIdle, clock - c.last)
  BY <1>1, <1>2 DEF Measured, Busy
<1>6. SUFFICES ASSUME c.last # 0
               PROVE  /\ Measured(p)'.busy <= hist'[p].ran + hist'[p].lag
                      /\ hist'[p].ran <= Measured(p)'.busy + hist'[p].lag
  BY <1>1, <1>2 DEF Fits
<1>7. CASE wpc[p] = "out"
  <2>1. ran[p] = c.busy + Busy(c.isIdle, clock - c.last)
    BY <1>6, <1>7 DEF RanInv
  <2>q. QED
    BY <1>1, <1>3, <1>5, <1>7, <2>1
<1>8. CASE wpc[p] = "open"
  <2>1. ran[p] = c.busy + Busy(nextIdle[p], clock - wnow[p])
                        + Busy(c.isIdle, wnow[p] - c.last)
    BY <1>6, <1>8 DEF RanInv
  <2>2. /\ Busy(nextIdle[p], clock - wnow[p]) \in 0 .. clock - wnow[p]
        /\ Busy(c.isIdle, wnow[p] - c.last) \in Nat
        /\ \/ Busy(c.isIdle, clock - c.last) = Busy(c.isIdle, wnow[p] - c.last)
           \/ Busy(c.isIdle, clock - c.last)
                = Busy(c.isIdle, wnow[p] - c.last) + (clock - wnow[p])
    BY <1>3, <1>4 DEF Busy
  <2> HIDE DEF c
  <2>q. QED
    BY <1>1, <1>3, <1>4, <1>5, <1>8, <2>1, <2>2
<1>q. QED
  BY <1>4, <1>7, <1>8

(* Every step keeps what the copies say of the busy time                    *)
LEMMA HistStep ==
  ASSUME TypeOK, PlaceInv, NEW p \in CPUs, WriterInv(p), CopyInv(p), RanInv(p),
         HistInv(p), [Next]_vars
  PROVE  HistInv(p)'
<1>1. CASE KernelNext /\ UNCHANGED helperVars
  <2>1. counter[p].sequence \in Nat /\ first[p].sequence \in Nat
    BY DEF TypeOK, KernelTyped, CopyTyped, Counters
  <2>2. \/ counter'[p] = counter[p]
        \/ counter'[p].sequence = counter[p].sequence + 1
        \/ /\ counter'[p].sequence = counter[p].sequence
           /\ ~Even(counter[p].sequence)
    BY <1>1, KernelEffect DEF TypeOK
  <2>3. /\ UNCHANGED <<first, second, rpc>> /\ (InSecond(p, 0)' <=> InSecond(p, 0))
        /\ Fits(p)' <=> Fits(p)
    BY <1>1 DEF helperVars, InSecond, Past, Fits, Measured
  <2>4. rpc \in {"second", "check"} => first[p].sequence <= counter[p].sequence
    BY DEF CopyInv, InFirst
  <2>q. QED
    BY <2>1, <2>2, <2>3, <2>4 DEF HistInv
<1>2. CASE CopyFirst
  <2>1. rpc' \in {"first", "now"}
    BY <1>2 DEF CopyFirst, Advance
  <2>q. QED
    BY <2>1 DEF HistInv, InSecond
<1>3. CASE CopySecond
  <2>1. /\ rpc = "second" /\ rpc' \in {"second", "check"} /\ Advance("check")
        /\ UNCHANGED <<counter, first, hist, rnow>>
    BY <1>3 DEF CopySecond, Advance, kernelVars
  <2>2. Fits(p)' <=> Fits(p)
    BY <2>1 DEF Fits, Measured
  <2>3. InSecond(p, 0)' <=> Past(p, 0) \/ (p = cpu /\ 0 = word)
    BY <2>1, AdvancePast DEF InSecond, TypeOK
  <2>4. CASE p = cpu /\ word = 0
    <3>1. second'[p].sequence = counter[p].sequence
      BY <1>3, <2>4 DEF CopySecond, CopyWord, TypeOK, CopyTyped
    <3>q. QED
      BY <2>1, <2>2, <3>1 DEF HistInv
  <2>5. CASE ~(p = cpu /\ word = 0)
    <3>1. second'[p].sequence = second[p].sequence
      BY <1>3, <2>5 DEF CopySecond, CopyWord, TypeOK, CopyTyped
    <3>q. QED
      BY <2>1, <2>2, <2>3, <2>5, <3>1 DEF HistInv, InSecond
  <2>q. QED
    BY <2>4, <2>5
<1>4. CASE ReadNow
  <2>1. /\ rpc' = "second" /\ cpu = 1 /\ word = 0 /\ UNCHANGED <<first, counter, cpu, word>>
    BY <1>4 DEF ReadNow, PlaceInv, kernelVars
  <2>2. ~InSecond(p, 0)'
    BY <2>1, CounterAssumption DEF InSecond, Past, CPUs
  <2>q. QED
    BY <1>4, <2>1, <2>2, FitsNow DEF HistInv
<1>5. CASE BeginRound \/ Check \/ Emit
  <2>1. rpc' \in {"first", "emit", "sleep"}
    BY <1>5 DEF BeginRound, Check, Emit
  <2>q. QED
    BY <2>1 DEF HistInv, InSecond
<1>6. CASE UNCHANGED vars
  BY <1>6 DEF vars, kernelVars, helperVars, HistInv, InSecond, Past, Fits, Measured
<1>q. QED
  BY <1>1, <1>2, <1>3, <1>4, <1>5, <1>6 DEF Next, HelperNext, Finished

(* An accepted copy makes a sample with the true split *)
LEMMA SplitStep ==
  ASSUME TypeOK, NEW p \in CPUs, HistInv(p), SplitInv(p), [Next]_vars
  PROVE  SplitInv(p)'
<1>1. CASE BeginRound
  BY <1>1 DEF BeginRound, SplitInv, NoSample
<1>2. CASE Check
  <2>1. CASE current'[p] = current[p] /\ at'[p] = at[p]
    BY <2>1 DEF SplitInv
  <2>2. CASE Stable(p) /\ current'[p] = Measured(p) /\ at'[p] = hist[p]
    <3>1. Fits(p)
      BY <1>2, <2>2 DEF Check, HistInv, InSecond, Stable, Even
    <3>q. QED
      BY <2>2, <3>1 DEF SplitInv, Fits, Stable
  <2>q. QED
    BY <1>2, <2>1, <2>2 DEF Check
<1>3. CASE UNCHANGED <<current, at>>
  BY <1>3 DEF SplitInv
<1>q. QED
  BY <1>1, <1>2, <1>3
     DEF Next, HelperNext, Finished, CopyFirst, ReadNow, CopySecond, Emit,
         helperVars, vars

(* The samples of the round before remain whole *)
LEMMA PreviousStep ==
  ASSUME TypeOK, NEW p \in CPUs, WriterInv(p), SampleInv(p), PreviousInv(p), [Next]_vars
  PROVE  PreviousInv(p)'
<1>1. boot[p] # 0 => boot'[p] = boot[p]
  BY BootKept DEF TypeOK
<1>2. CASE Emit
  <2>1. previous' = current /\ before' = at
    BY <1>2 DEF Emit
  <2>q. QED
    BY <1>1, <2>1 DEF SampleInv, PreviousInv
<1>3. CASE UNCHANGED <<previous, before>>
  BY <1>1, <1>3 DEF PreviousInv
<1>q. QED
  BY <1>2, <1>3
     DEF Next, HelperNext, Finished, BeginRound, CopyFirst, ReadNow, CopySecond, Check,
         helperVars, vars

(* What the counters, the copies and the samples say of the busy time       *)
LEMMA TimeInvariance == Spec => []TimeInv
<1>1. Init => TimeInv
  <2> SUFFICES ASSUME Init, NEW p \in CPUs
               PROVE  RanInv(p) /\ HistInv(p) /\ SplitInv(p) /\ PreviousInv(p)
    BY DEF TimeInv
  <2>1. RanInv(p)
    BY DEF Init, KernelInit, Zero, RanInv
  <2>2. HistInv(p) /\ SplitInv(p) /\ PreviousInv(p)
    BY DEF Init, NoSample, HistInv, InSecond, SplitInv, PreviousInv
  <2>q. QED
    BY <2>1, <2>2
<1>2. (TypeOK /\ HelperInv) /\ TimeInv /\ [Next]_vars => TimeInv'
  <2> SUFFICES ASSUME TypeOK, HelperInv, TimeInv, [Next]_vars, NEW p \in CPUs
               PROVE  (RanInv(p) /\ HistInv(p) /\ SplitInv(p) /\ PreviousInv(p))'
    BY DEF TimeInv
  <2>1. PlaceInv /\ WriterInv(p) /\ CopyInv(p) /\ SampleInv(p)
    BY DEF HelperInv
  <2>2. RanInv(p) /\ HistInv(p) /\ SplitInv(p) /\ PreviousInv(p)
    BY DEF TimeInv
  <2>q. QED
    BY <2>1, <2>2, RanStep, HistStep, SplitStep, PreviousStep
<1>q. QED
  BY <1>1, <1>2, Invariance, PTL DEF Spec

(* A sample's split between busy and idle is the true one within the time a *)
(* switch has read its clock but not opened its write, for any number of    *)
(* CPUs, switches, attempts and rounds.                                     *)
THEOREM SplitsTrue == Spec => []SplitWithinLag
<1>1. TimeInv => SplitWithinLag
  BY DEF TimeInv, SplitInv, SplitWithinLag
<1>q. QED
  BY <1>1, TimeInvariance, PTL

(* What the helper prints for a CPU covers exactly the time between its two *)
(* samples, and the busy part is a part of it.                              *)
THEOREM PrintedTrue == Spec => PrintedIsElapsed
<1> DEFINE Elapses(d) == /\ d.total = at[d.cpu].now - before[d.cpu].now
                         /\ before[d.cpu].now # 0
                         /\ 0 <= d.busy /\ d.busy <= d.total
           Exact == rounds' # rounds => \A d \in emitted' : Elapses(d)
<1>1. (TypeOK /\ HelperInv) /\ TimeInv /\ [Next]_vars => [Exact]_vars
  <2> SUFFICES ASSUME TypeOK, HelperInv, TimeInv, Next, rounds' # rounds,
                      NEW d \in emitted'
               PROVE  Elapses(d)
    OBVIOUS
  <2>1. Emit
    BY DEF Next, HelperNext, Finished, BeginRound, CopyFirst, ReadNow, CopySecond, Check,
       helperVars, vars
  <2>2. PICK p \in CPUs : Comparable(p) /\ d = Delta(p)
    BY <2>1 DEF Emit
  <2>3. /\ d.cpu = p /\ d.busy = current[p].busy - previous[p].busy
        /\ d.total = d.busy + current[p].idle - previous[p].idle
    BY <2>2 DEF Delta
  <2>4. /\ current[p].busy + current[p].idle = at[p].now - boot[p]
        /\ previous[p].busy + previous[p].idle = before[p].now - boot[p]
        /\ boot[p] # 0
    BY <2>2 DEF Comparable, HelperInv, SampleInv, TimeInv, PreviousInv
  <2>5. /\ boot[p] \in Nat /\ at[p].now \in Nat /\ before[p].now \in Nat
        /\ current[p].busy \in Nat /\ current[p].idle \in Nat
        /\ previous[p].busy \in Nat /\ previous[p].idle \in Nat
    BY DEF TypeOK, KernelTyped, SamplesTyped, Samples, Instants
  <2>6. current[p].busy >= previous[p].busy /\ current[p].idle >= previous[p].idle
    BY <2>2 DEF Comparable
  <2>q. QED
    BY <2>3, <2>4, <2>5, <2>6
<1>q. QED
  BY <1>1, Invariance, TimeInvariance, PTL DEF Spec, PrintedIsElapsed

-----------------------------------------------------------------------------
(* The lists of releases *)

(* Releasing the first takes it off the list                                *)
LEMMA TailReleases ==
  ASSUME NEW S, NEW s \in Seq(S), s # <<>>, IsInjective(s)
  PROVE  /\ Head(s) \in ToSet(s) /\ ToSet(s) \subseteq S
         /\ Tail(s) \in Seq(S) /\ IsInjective(Tail(s))
         /\ ToSet(Tail(s)) = ToSet(s) \ {Head(s)}
<1>1. /\ Len(s) \in Nat \ {0} /\ DOMAIN s = 1 .. Len(s)
      /\ \A i \in 1 .. Len(s) : s[i] \in S
  OBVIOUS
<1>2. /\ Tail(s) \in Seq(S) /\ Len(Tail(s)) = Len(s) - 1
      /\ DOMAIN Tail(s) = 1 .. Len(s) - 1
      /\ \A i \in 1 .. Len(s) - 1 : Tail(s)[i] = s[i + 1]
      /\ Head(s) = s[1]
  BY <1>1
<1>3. \A i, j \in 1 .. Len(s) : s[i] = s[j] => i = j
  BY <1>1 DEF IsInjective
<1>4. IsInjective(Tail(s))
  <2> SUFFICES ASSUME NEW i \in 1 .. Len(s) - 1, NEW j \in 1 .. Len(s) - 1,
                      Tail(s)[i] = Tail(s)[j]
               PROVE  i = j
    BY <1>2 DEF IsInjective
  <2>1. i + 1 \in 1 .. Len(s) /\ j + 1 \in 1 .. Len(s) /\ s[i + 1] = s[j + 1]
    BY <1>1, <1>2
  <2>2. i + 1 = j + 1
    BY <1>3, <2>1
  <2>q. QED
    BY <2>2
<1>5. ASSUME NEW i \in 1 .. Len(s) - 1
      PROVE  Tail(s)[i] \in ToSet(s) /\ Tail(s)[i] # Head(s)
  <2>1. i + 1 \in 1 .. Len(s) /\ 1 \in 1 .. Len(s) /\ i + 1 # 1
        /\ Tail(s)[i] = s[i + 1] /\ Head(s) = s[1]
    BY <1>1, <1>2
  <2>q. QED
    BY <1>1, <1>3, <2>1 DEF ToSet
<1>6. ASSUME NEW x \in ToSet(s), x # Head(s) PROVE x \in ToSet(Tail(s))
  <2>1. PICK i \in 1 .. Len(s) : x = s[i]
    BY <1>1 DEF ToSet
  <2>2. i # 1
    BY <1>2, <1>6, <2>1
  <2>3. i - 1 \in 1 .. Len(s) - 1 /\ Tail(s)[i - 1] = s[(i - 1) + 1]
    BY <1>1, <1>2, <2>1, <2>2
  <2>4. (i - 1) + 1 = i
    BY <1>1
  <2>q. QED
    BY <1>2, <2>1, <2>3, <2>4 DEF ToSet
<1>7. ToSet(Tail(s)) = ToSet(s) \ {Head(s)}
  BY <1>2, <1>5, <1>6 DEF ToSet
<1>8. Head(s) \in ToSet(s) /\ ToSet(s) \subseteq S
  BY <1>1, <1>2 DEF ToSet
<1>q. QED
  BY <1>2, <1>4, <1>7, <1>8

(* The cleanup of cpu_usage names all it ever holds, once                   *)
LEMMA CleanupUsage ==
  LET s == <<"ids", "online", "first", "second", "current", "previous", "link",
             "object">>
  IN /\ s \in Seq(Resources) /\ IsInjective(s)
     /\ ToSet(s) = {"object", "link"} \cup Buffers.cpu_usage
<1> DEFINE s == <<"ids", "online", "first", "second", "current", "previous", "link",
                  "object">>
<1>1. s \in Seq(Resources)
  BY DEF Resources, Buffers
<1>2. DOMAIN s = 1 .. 8 /\ Len(s) = 8
  OBVIOUS
<1>3. IsInjective(s)
  BY DEF IsInjective
<1>4. ToSet(s) = {"object", "link"} \cup Buffers.cpu_usage
  BY DEF ToSet, Buffers
<1>q. QED
  BY <1>1, <1>3, <1>4

(* So does that of cpu_alert                                                *)
LEMMA CleanupAlert ==
  LET s == <<"busy_vals", "idle_vals", "zeros", "link", "object">>
  IN /\ s \in Seq(Resources) /\ IsInjective(s)
     /\ ToSet(s) = {"object", "link"} \cup Buffers.cpu_alert
<1> DEFINE s == <<"busy_vals", "idle_vals", "zeros", "link", "object">>
<1>1. s \in Seq(Resources)
  BY DEF Resources, Buffers
<1>2. DOMAIN s = 1 .. 5 /\ Len(s) = 5
  OBVIOUS
<1>3. IsInjective(s)
  BY DEF IsInjective
<1>4. ToSet(s) = {"object", "link"} \cup Buffers.cpu_alert
  BY DEF ToSet, Buffers
<1>q. QED
  BY <1>1, <1>3, <1>4

(* Either program's                                                         *)
LEMMA CleanupLists ==
  ASSUME tool \in {"cpu_usage", "cpu_alert"}
  PROVE  /\ Cleanup[tool] \in Seq(Resources) /\ IsInjective(Cleanup[tool])
         /\ ToSet(Cleanup[tool]) = {"object", "link"} \cup Buffers[tool]
<1>1. CASE tool = "cpu_usage"
  <2>1. Cleanup[tool] = <<"ids", "online", "first", "second", "current", "previous",
                          "link", "object">>
        /\ Buffers[tool] = Buffers.cpu_usage
    BY <1>1 DEF Cleanup
  <2>q. QED
    BY <2>1, CleanupUsage
<1>2. CASE tool = "cpu_alert"
  <2>1. Cleanup[tool] = <<"busy_vals", "idle_vals", "zeros", "link", "object">>
        /\ Buffers[tool] = Buffers.cpu_alert
    BY <1>2 DEF Cleanup
  <2>q. QED
    BY <2>1, CleanupAlert
<1>q. QED
  BY <1>1, <1>2

(* Wherever a call may be refused, what is released then is all that may be *)
(* held, each once.                                                         *)
LEMMA UndoCovers ==
  ASSUME LifeInv, pc \in Working,
         tool = "cpu_usage" \/ pc \in {"open", "load", "find", "attach", "map"}
  PROVE  /\ Undo(pc) \in Seq(Resources) /\ IsInjective(Undo(pc))
         /\ MayHold \subseteq ToSet(Undo(pc))
         /\ tool = "cpu_usage" =>
               ToSet(Undo(pc)) = {"object", "link"} \cup Buffers[tool]
<1>0. tool \in {"cpu_usage", "cpu_alert"}
  BY DEF LifeInv, LifeTypeOK
<1>1. CASE tool = "cpu_usage"
  <2>1. Undo(pc) = Cleanup[tool]
    BY <1>1 DEF Undo, Cleanup
  <2>2. MayHold \subseteq {"object", "link"} \cup Buffers[tool]
    BY DEF MayHold
  <2>q. QED
    BY <1>0, <2>1, <2>2, CleanupLists
<1>2. CASE tool = "cpu_alert" /\ pc = "open"
  <2>1. Undo(pc) = <<>> /\ MayHold = {}
    BY <1>2 DEF Undo, MayHold
  <2>2. <<>> \in Seq(Resources) /\ IsInjective(<<>>)
    BY DEF IsInjective
  <2>q. QED
    BY <1>2, <2>1, <2>2
<1>3. CASE tool = "cpu_alert" /\ pc \in {"load", "find", "attach"}
  <2>1. Undo(pc) = <<"object">> /\ MayHold = {"object"}
    BY <1>3 DEF Undo, MayHold
  <2>2. <<"object">> \in Seq(Resources) /\ IsInjective(<<"object">>)
        /\ ToSet(<<"object">>) = {"object"}
    BY DEF IsInjective, ToSet, Resources
  <2>q. QED
    BY <1>3, <2>1, <2>2
<1>4. CASE tool = "cpu_alert" /\ pc = "map"
  <2>1. Undo(pc) = <<"link", "object">> /\ MayHold = {"object", "link"}
    BY <1>4 DEF Undo, MayHold
  <2>2. /\ <<"link", "object">> \in Seq(Resources) /\ IsInjective(<<"link", "object">>)
        /\ ToSet(<<"link", "object">>) = {"object", "link"}
    BY DEF IsInjective, ToSet, Resources
  <2>q. QED
    BY <1>4, <2>1, <2>2
<1>q. QED
  BY <1>0, <1>1, <1>2, <1>3, <1>4

-----------------------------------------------------------------------------
(* Going on and giving up *)

(* A refusal leaves by the releases of what is held                         *)
LEMMA Refused ==
  ASSUME LifeInv, pc \in Working, Refuse,
         tool = "cpu_usage" \/ pc \in {"open", "load", "find", "attach", "map"},
         UNCHANGED <<tool, running, misused>>,
         ptr' \in [Resources -> {"null", "held", "short", "freed"}],
         \A r \in Resources : /\ ptr'[r] # "freed"
                              /\ r \notin ToSet(Undo(pc)) => ptr'[r] = "null",
         late' \in {0, 1}, late' = 1 => ~running
  PROVE  LifeInv'
<1>1. /\ pc' = "release" /\ todo' = Undo(pc) /\ failed' = TRUE /\ result' = 1
  BY DEF Refuse, LifeInv, HoldInv
<1>2. Undo(pc) \in Seq(Resources) /\ IsInjective(Undo(pc))
  BY UndoCovers
<1>3. LifeTypeOK'
  BY <1>1, <1>2 DEF LifeInv, LifeTypeOK
<1>4. ReleaseInv'
  BY <1>1, <1>2 DEF ReleaseInv
<1>5. OwnPlaces' /\ HoldInv' /\ LateInv'
  BY <1>1 DEF OwnPlaces, HoldInv, LateInv, Working
<1>q. QED
  BY <1>3, <1>4, <1>5 DEF LifeInv

(* What is held is among what is released then                              *)
LEMMA HeldUndone ==
  ASSUME LifeInv, pc \in Working,
         tool = "cpu_usage" \/ pc \in {"open", "load", "find", "attach", "map"}
  PROVE  \A r \in Resources : /\ ptr[r] # "freed"
                              /\ r \notin ToSet(Undo(pc)) => ptr[r] = "null"
BY UndoCovers DEF LifeInv, HoldInv

(* Going on with what may be held at the next place                         *)
LEMMA GoesOn ==
  ASSUME LifeInv, pc \in Working, NEW step \in Working, Go(step),
         UNCHANGED <<tool, misused>>, running' \in BOOLEAN,
         ptr' \in [Resources -> {"null", "held", "short", "freed"}],
         \A r \in Resources : /\ ptr'[r] # "freed"
                              /\ r \notin MayHold' => ptr'[r] = "null",
         OwnPlaces', LateInv'
  PROVE  LifeInv'
<1>1. /\ pc' = step /\ UNCHANGED <<todo, result, failed>>
  BY DEF Go, ending
<1>2. LifeTypeOK' /\ HoldInv'
  BY <1>1 DEF LifeInv, LifeTypeOK, HoldInv
<1>3. ReleaseInv'
  BY <1>1 DEF ReleaseInv, Working
<1>q. QED
  BY <1>2, <1>3 DEF LifeInv

(* In the loop main holds the same everywhere                               *)
Looping == {"possible", "possible_read", "loop", "online", "online_read", "read",
            "emit", "test", "sleep", "asleep", "woken"}

LEMMA LoopsOn ==
  ASSUME LifeInv, pc \in Looping, NEW step \in Looping, Go(step),
         UNCHANGED <<tool, misused, ptr>>, running' \in BOOLEAN, OwnPlaces', LateInv'
  PROVE  LifeInv'
<1>1. pc \in Working /\ step \in Working
  BY DEF Looping, Working
<1>2. pc' = step /\ MayHold' = MayHold
  BY DEF Go, MayHold, Looping
<1>3. /\ ptr' \in [Resources -> {"null", "held", "short", "freed"}]
      /\ \A r \in Resources : /\ ptr'[r] # "freed"
                              /\ r \notin MayHold' => ptr'[r] = "null"
  BY <1>1, <1>2 DEF LifeInv, LifeTypeOK, HoldInv
<1>q. QED
  BY <1>1, <1>3, GoesOn

-----------------------------------------------------------------------------
(* The steps of main *)

(* Getting ready, until the buffers are allocated                           *)
LEMMA ReadyKeeps ==
  ASSUME LifeInv,
         \/ Install \/ Acquire("open", "object", "load") \/ Prepare("load", "find")
         \/ Prepare("find", "attach") \/ Acquire("attach", "link", "map") \/ FindMap
  PROVE  LifeInv'
<1>0. /\ pc \in {"int", "term", "open", "load", "find", "attach", "map"}
      /\ UNCHANGED <<tool, running, late, misused>>
  BY DEF Install, Acquire, Prepare, FindMap, life
<1>1. /\ pc \in Working /\ late = 0 /\ running \in BOOLEAN
      /\ ptr \in [Resources -> {"null", "held", "short", "freed"}]
      /\ \A r \in Resources : ptr[r] # "freed" /\ (r \notin MayHold => ptr[r] = "null")
  BY <1>0 DEF LifeInv, LifeTypeOK, LateInv, HoldInv, Working
<1>2. ASSUME NEW step \in {"int", "term", "open", "load", "find", "attach", "map", "alloc"},
             Go(step), ptr' = ptr, MayHold \subseteq MayHold'
      PROVE  LifeInv'
  <2>1. OwnPlaces' /\ LateInv' /\ step \in Working
    BY <1>0, <1>1, <1>2 DEF Go, OwnPlaces, LateInv, Working
  <2>q. QED
    BY <1>0, <1>1, <1>2, <2>1, GoesOn
<1>3. CASE Refuse /\ ptr' = ptr /\ pc \in {"open", "load", "find", "attach", "map"}
  BY <1>0, <1>1, <1>3, HeldUndone, Refused
<1>4. CASE Install
  <2>1. CASE pc = "int"
    <3>1. Go("term") /\ ptr' = ptr
      BY <1>4, <2>1 DEF Install
    <3>2. MayHold = {}
      BY <2>1 DEF MayHold
    <3>q. QED
      BY <1>2, <3>1, <3>2
  <2>2. CASE pc = "term"
    <3>1. Go("open") /\ ptr' = ptr
      BY <1>4, <2>2 DEF Install
    <3>2. MayHold = {}
      BY <2>2 DEF MayHold
    <3>q. QED
      BY <1>2, <3>1, <3>2
  <2>q. QED
    BY <1>4, <2>1, <2>2 DEF Install
<1>5. CASE Acquire("open", "object", "load")
  <2>1. CASE ptr' = [ptr EXCEPT !["object"] = "held"] /\ Go("load")
    <3>1. pc = "open" /\ pc' = "load" /\ "load" \in Working
      BY <1>5, <2>1 DEF Acquire, Go, Working
    <3>2. MayHold = {} /\ MayHold' = {"object"}
      BY <3>1 DEF MayHold
    <3>3. /\ ptr' \in [Resources -> {"null", "held", "short", "freed"}]
          /\ \A r \in Resources : /\ ptr'[r] # "freed"
                                  /\ r \notin MayHold' => ptr'[r] = "null"
      BY <1>1, <2>1, <3>2
    <3>4. OwnPlaces' /\ LateInv'
      BY <1>0, <1>1, <3>1 DEF OwnPlaces, LateInv
    <3>q. QED
      BY <1>0, <1>1, <2>1, <3>1, <3>3, <3>4, GoesOn
  <2>2. CASE UNCHANGED ptr /\ Refuse
    BY <1>3, <1>5, <2>2 DEF Acquire
  <2>q. QED
    BY <1>5, <2>1, <2>2 DEF Acquire
<1>6. CASE Prepare("load", "find")
  <2>1. CASE Go("find")
    <3>1. ptr' = ptr /\ MayHold = {"object"} /\ MayHold' = {"object"}
      BY <1>6, <2>1 DEF Prepare, Go, MayHold
    <3>q. QED
      BY <1>2, <2>1, <3>1
  <2>2. CASE Refuse
    BY <1>3, <1>6, <2>2 DEF Prepare
  <2>q. QED
    BY <1>6, <2>1, <2>2 DEF Prepare
<1>7. CASE Prepare("find", "attach")
  <2>1. CASE Go("attach")
    <3>1. ptr' = ptr /\ MayHold = {"object"} /\ MayHold' = {"object"}
      BY <1>7, <2>1 DEF Prepare, Go, MayHold
    <3>q. QED
      BY <1>2, <2>1, <3>1
  <2>2. CASE Refuse
    BY <1>3, <1>7, <2>2 DEF Prepare
  <2>q. QED
    BY <1>7, <2>1, <2>2 DEF Prepare
<1>8. CASE Acquire("attach", "link", "map")
  <2>1. CASE ptr' = [ptr EXCEPT !["link"] = "held"] /\ Go("map")
    <3>1. pc = "attach" /\ pc' = "map" /\ "map" \in Working
      BY <1>8, <2>1 DEF Acquire, Go, Working
    <3>2. MayHold = {"object"} /\ MayHold' = {"object", "link"}
      BY <3>1 DEF MayHold
    <3>3. /\ ptr' \in [Resources -> {"null", "held", "short", "freed"}]
          /\ \A r \in Resources : /\ ptr'[r] # "freed"
                                  /\ r \notin MayHold' => ptr'[r] = "null"
      BY <1>1, <2>1, <3>2
    <3>4. OwnPlaces' /\ LateInv'
      BY <1>0, <1>1, <3>1 DEF OwnPlaces, LateInv
    <3>q. QED
      BY <1>0, <1>1, <2>1, <3>1, <3>3, <3>4, GoesOn
  <2>2. CASE UNCHANGED ptr /\ Refuse
    BY <1>3, <1>8, <2>2 DEF Acquire
  <2>q. QED
    BY <1>8, <2>1, <2>2 DEF Acquire
<1>9. CASE FindMap
  <2>1. CASE Go("alloc")
    <3>1. ptr' = ptr /\ MayHold = {"object", "link"} /\ MayHold' = {"object", "link"}
      BY <1>9, <2>1 DEF FindMap, Go, MayHold
    <3>q. QED
      BY <1>2, <2>1, <3>1
  <2>2. CASE Refuse
    BY <1>3, <1>9, <2>2 DEF FindMap
  <2>q. QED
    BY <1>9, <2>1, <2>2 DEF FindMap
<1>q. QED
  BY <1>4, <1>5, <1>6, <1>7, <1>8, <1>9

(* Any of the buffers may be missing                                        *)
LEMMA AllocateKeeps ==
  ASSUME LifeInv, Allocate
  PROVE  LifeInv'
<1>0. /\ pc = "alloc" /\ pc \in Working /\ late = 0 /\ running \in BOOLEAN
      /\ UNCHANGED <<tool, running, late, misused>>
      /\ tool \in {"cpu_usage", "cpu_alert"}
      /\ ptr \in [Resources -> {"null", "held", "short", "freed"}]
      /\ MayHold = {"object", "link"}
  BY DEF Allocate, LifeInv, LifeTypeOK, LateInv, Working, MayHold, life
<1>1. PICK got \in SUBSET Buffers[tool] :
        /\ ptr' = [r \in Resources |->
                     IF r \in got THEN IF count = 0 THEN "short" ELSE "held" ELSE ptr[r]]
        /\ IF tool = "cpu_alert" THEN Go("loop")
           ELSE IF got = Buffers[tool] THEN Go("possible") ELSE Refuse
  BY DEF Allocate
<1>2. /\ ptr' \in [Resources -> {"null", "held", "short", "freed"}]
      /\ \A r \in Resources : /\ ptr'[r] # "freed"
                              /\ r \notin {"object", "link"} \cup Buffers[tool] =>
                                    ptr'[r] = "null"
  BY <1>0, <1>1 DEF LifeInv, HoldInv
<1>3. ASSUME NEW step \in {"loop", "possible"}, Go(step),
             step = "possible" => tool = "cpu_usage"
      PROVE  LifeInv'
  <2>1. pc' = step /\ step \in Working
    BY <1>3 DEF Go, Working
  <2>2. MayHold' = {"object", "link"} \cup Buffers[tool]
    BY <1>0, <2>1 DEF MayHold
  <2>3. OwnPlaces' /\ LateInv'
    BY <1>0, <1>3, <2>1 DEF OwnPlaces, LateInv
  <2>q. QED
    BY <1>0, <1>2, <1>3, <2>1, <2>2, <2>3, GoesOn
<1>4. CASE Refuse /\ tool = "cpu_usage"
  <2>1. ToSet(Undo(pc)) = {"object", "link"} \cup Buffers[tool]
    BY <1>0, <1>4, UndoCovers
  <2>q. QED
    BY <1>0, <1>2, <1>4, <2>1, Refused
<1>q. QED
  BY <1>0, <1>1, <1>3, <1>4

(* The lists of CPUs, the readings and the sleeps                           *)
LEMMA LoopKeeps ==
  ASSUME LifeInv,
         \/ ReadPossible \/ TestList("possible", "possible_read", "loop")
         \/ ReadOnline \/ TestList("online", "online_read", "read")
         \/ Output \/ TestSleep \/ Timer \/ Woken
  PROVE  LifeInv'
<1>0. /\ pc \in Looping /\ pc \in Working /\ pc # "loop"
      /\ UNCHANGED <<tool, running, late, ptr, misused>>
  BY DEF ReadPossible, TestList, ReadOnline, Output, TestSleep, Timer, Woken,
         life, Looping, Working
<1>1. /\ running \in BOOLEAN /\ LateInv /\ OwnPlaces
      /\ tool \in {"cpu_usage", "cpu_alert"}
      /\ ptr \in [Resources -> {"null", "held", "short", "freed"}]
  BY DEF LifeInv, LifeTypeOK
<1>2. CASE Refuse /\ tool = "cpu_usage"
  <2>1. /\ ptr' \in [Resources -> {"null", "held", "short", "freed"}]
        /\ \A r \in Resources : /\ ptr'[r] # "freed"
                                /\ r \notin ToSet(Undo(pc)) => ptr'[r] = "null"
    BY <1>0, <1>1, <1>2, HeldUndone
  <2>2. late' \in {0, 1} /\ (late' = 1 => ~running)
    BY <1>0, <1>1 DEF LateInv
  <2>q. QED
    BY <1>0, <1>2, <2>1, <2>2, Refused
<1>3. ASSUME NEW step \in Looping, Go(step), OwnPlaces', LateInv' PROVE LifeInv'
  BY <1>0, <1>1, <1>3, LoopsOn
<1>4. CASE ReadPossible
  <2>1. Go("possible_read") /\ pc = "possible" /\ pc' = "possible_read"
    BY <1>4 DEF ReadPossible, Go
  <2>2. OwnPlaces' /\ LateInv'
    BY <1>0, <1>1, <2>1 DEF OwnPlaces, LateInv
  <2>q. QED
    BY <1>3, <2>1, <2>2 DEF Looping
<1>5. CASE TestList("possible", "possible_read", "loop")
  <2>0. pc \in {"possible", "possible_read"} /\ tool = "cpu_usage"
    BY <1>1, <1>5 DEF TestList, OwnPlaces
  <2>1. CASE Go("loop")
    <3>1. OwnPlaces' /\ LateInv'
      BY <1>0, <1>1, <2>0, <2>1 DEF OwnPlaces, LateInv, Go
    <3>q. QED
      BY <1>3, <2>1, <3>1 DEF Looping
  <2>q. QED
    BY <1>2, <1>5, <2>0, <2>1 DEF TestList
<1>6. CASE ReadOnline
  <2>1. Go("online_read") /\ pc = "online" /\ pc' = "online_read"
    BY <1>6 DEF ReadOnline, Go
  <2>2. OwnPlaces' /\ LateInv'
    BY <1>0, <1>1, <2>1 DEF OwnPlaces, LateInv
  <2>q. QED
    BY <1>3, <2>1, <2>2 DEF Looping
<1>7. CASE TestList("online", "online_read", "read")
  <2>0. pc \in {"online", "online_read"} /\ tool = "cpu_usage"
    BY <1>1, <1>7 DEF TestList, OwnPlaces
  <2>1. CASE Go("read")
    <3>1. OwnPlaces' /\ LateInv'
      BY <1>0, <1>1, <2>0, <2>1 DEF OwnPlaces, LateInv, Go
    <3>q. QED
      BY <1>3, <2>1, <3>1 DEF Looping
  <2>q. QED
    BY <1>2, <1>7, <2>0, <2>1 DEF TestList
<1>8. CASE Output
  <2>1. /\ pc = "emit" /\ Go(IF tool = "cpu_usage" THEN "test" ELSE "loop")
        /\ pc' = IF tool = "cpu_usage" THEN "test" ELSE "loop"
    BY <1>8 DEF Output, Go
  <2>2. OwnPlaces' /\ LateInv'
    BY <1>0, <1>1, <2>1 DEF OwnPlaces, LateInv
  <2>3. (IF tool = "cpu_usage" THEN "test" ELSE "loop") \in Looping
    BY DEF Looping
  <2>q. QED
    BY <1>3, <2>1, <2>2, <2>3
<1>9. CASE TestSleep
  <2>1. /\ pc = "test" /\ Go(IF running THEN "sleep" ELSE "loop")
        /\ pc' = IF running THEN "sleep" ELSE "loop"
    BY <1>9 DEF TestSleep, Go
  <2>2. OwnPlaces' /\ LateInv'
    BY <1>0, <1>1, <2>1 DEF OwnPlaces, LateInv
  <2>3. (IF running THEN "sleep" ELSE "loop") \in Looping
    BY DEF Looping
  <2>q. QED
    BY <1>3, <2>1, <2>2, <2>3
<1>10. CASE Timer
  <2>0. pc = "asleep"
    BY <1>10 DEF Timer
  <2>1. CASE Go(IF tool = "cpu_usage" THEN "loop" ELSE "woken")
    <3>1. pc' = IF tool = "cpu_usage" THEN "loop" ELSE "woken"
      BY <2>1 DEF Go
    <3>2. OwnPlaces' /\ LateInv'
      BY <1>0, <1>1, <2>0, <3>1 DEF OwnPlaces, LateInv
    <3>3. (IF tool = "cpu_usage" THEN "loop" ELSE "woken") \in Looping
      BY DEF Looping
    <3>q. QED
      BY <1>3, <2>1, <3>2, <3>3
  <2>q. QED
    BY <1>2, <1>10, <2>1 DEF Timer
<1>11. CASE Woken
  <2>1. /\ pc = "woken" /\ Go(IF running THEN "read" ELSE "loop")
        /\ pc' = IF running THEN "read" ELSE "loop"
    BY <1>11 DEF Woken, Go
  <2>2. OwnPlaces' /\ LateInv'
    BY <1>0, <1>1, <2>1 DEF OwnPlaces, LateInv
  <2>3. (IF running THEN "read" ELSE "loop") \in Looping
    BY DEF Looping
  <2>q. QED
    BY <1>3, <2>1, <2>2, <2>3
<1>q. QED
  BY <1>4, <1>5, <1>6, <1>7, <1>8, <1>9, <1>10, <1>11

(* Out of the loop main comes only by a signal, and with everything held    *)
LEMMA LoopTestKeeps ==
  ASSUME LifeInv, Loop
  PROVE  LifeInv'
<1>0. /\ pc = "loop" /\ pc \in Looping /\ pc \in Working
      /\ UNCHANGED <<tool, running, late, ptr, misused>>
      /\ running \in BOOLEAN /\ LateInv /\ OwnPlaces
      /\ tool \in {"cpu_usage", "cpu_alert"}
      /\ ptr \in [Resources -> {"null", "held", "short", "freed"}]
  BY DEF Loop, life, Looping, Working, LifeInv, LifeTypeOK
<1>1. CASE running /\ Go(IF tool = "cpu_usage" THEN "online" ELSE "sleep")
  <2>1. pc' = IF tool = "cpu_usage" THEN "online" ELSE "sleep"
    BY <1>1 DEF Go
  <2>2. OwnPlaces' /\ LateInv'
    BY <1>0, <1>1, <2>1 DEF OwnPlaces, LateInv
  <2>3. (IF tool = "cpu_usage" THEN "online" ELSE "sleep") \in Looping
    BY DEF Looping
  <2>q. QED
    BY <1>0, <1>1, <2>2, <2>3, LoopsOn
<1>2. CASE /\ ~running /\ pc' = "release" /\ todo' = Cleanup[tool]
           /\ result' = 0 /\ UNCHANGED failed
  <2>1. /\ todo' \in Seq(Resources) /\ IsInjective(todo')
        /\ ToSet(todo') = {"object", "link"} \cup Buffers[tool]
    BY <1>0, <1>2, CleanupLists
  <2>2. /\ ~failed /\ MayHold = {"object", "link"} \cup Buffers[tool]
        /\ \A r \in Resources : ptr[r] # "freed" /\ (r \notin MayHold => ptr[r] = "null")
    BY <1>0 DEF LifeInv, HoldInv, MayHold
  <2>3. ReleaseInv'
    BY <1>0, <1>2, <2>1, <2>2 DEF ReleaseInv
  <2>4. LifeTypeOK'
    BY <1>0, <1>2, <2>1 DEF LifeTypeOK
  <2>5. OwnPlaces' /\ HoldInv' /\ LateInv'
    BY <1>0, <1>2 DEF OwnPlaces, HoldInv, LateInv, Working
  <2>q. QED
    BY <1>0, <2>3, <2>4, <2>5 DEF LifeInv
<1>q. QED
  BY <1>1, <1>2 DEF Loop

(* A reading or a sleep is never the second after a signal                  *)
LEMMA BeginOnce ==
  ASSUME LifeInv, pc \in {"read", "sleep"}, Begin
  PROVE  late' \in {0, 1} /\ (late' = 1 => ~running)
BY DEF LifeInv, LateInv, Begin

(* A reading may be refused, and may crash where nobody checks the buffers  *)
LEMMA ReadKeeps ==
  ASSUME LifeInv, Read \/ Sleep
  PROVE  LifeInv'
<1>0. /\ pc \in {"read", "sleep"} /\ Begin
      /\ UNCHANGED <<tool, running, ptr, misused>>
      /\ running \in BOOLEAN
      /\ tool \in {"cpu_usage", "cpu_alert"}
      /\ ptr \in [Resources -> {"null", "held", "short", "freed"}]
  BY DEF Read, Sleep, life, LifeInv, LifeTypeOK
<1>1. late' \in {0, 1} /\ (late' = 1 => ~running)
  BY <1>0, BeginOnce
<1>2. pc \in Looping /\ pc \in Working
  BY <1>0 DEF Looping, Working
<1>3. CASE Go("emit") \/ Go("asleep")
  <2>1. PICK step \in {"emit", "asleep"} : Go(step)
    BY <1>3
  <2>2. step \in Looping /\ pc' = step
    BY <2>1 DEF Looping, Go
  <2>3. OwnPlaces' /\ LateInv'
    BY <1>0, <1>1, <2>1, <2>2 DEF OwnPlaces, LateInv
  <2>q. QED
    BY <1>0, <1>2, <2>1, <2>2, <2>3, LoopsOn
<1>4. CASE tool = "cpu_usage" /\ Refuse
  <2>1. /\ ptr' \in [Resources -> {"null", "held", "short", "freed"}]
        /\ \A r \in Resources : /\ ptr'[r] # "freed"
                                /\ r \notin ToSet(Undo(pc)) => ptr'[r] = "null"
    BY <1>0, <1>2, <1>4, HeldUndone
  <2>q. QED
    BY <1>0, <1>1, <1>2, <1>4, <2>1, Refused
<1>5. CASE Go("crashed")
  <2>1. pc' = "crashed" /\ todo' = todo
    BY <1>5 DEF Go, ending
  <2>2. LifeTypeOK' /\ ~misused'
    BY <1>0, <2>1 DEF LifeInv, LifeTypeOK
  <2>3. OwnPlaces' /\ HoldInv' /\ ReleaseInv' /\ LateInv'
    BY <1>0, <1>1, <2>1 DEF OwnPlaces, HoldInv, ReleaseInv, LateInv, Working
  <2>q. QED
    BY <2>2, <2>3 DEF LifeInv
<1>q. QED
  BY <1>3, <1>4, <1>5 DEF Read, Sleep

(* A release takes what was not released, and leaves it released            *)
LEMMA ReleaseKeeps ==
  ASSUME LifeInv, Release \/ Return
  PROVE  LifeInv'
<1>0. /\ pc = "release" /\ UNCHANGED <<tool, running, late, result, failed>>
      /\ running \in BOOLEAN /\ LateInv /\ ReleaseInv /\ ~misused
      /\ tool \in {"cpu_usage", "cpu_alert"}
      /\ ptr \in [Resources -> {"null", "held", "short", "freed"}]
      /\ todo \in Seq(Resources) /\ IsInjective(todo)
  BY DEF Release, Return, life, Go, ending, LifeInv, LifeTypeOK, ReleaseInv
<1>1. CASE Release
  <2>0. /\ pc' = "release" /\ todo # <<>> /\ todo' = Tail(todo)
        /\ misused' = (misused \/ ptr[Head(todo)] = "freed")
        /\ ptr' = [ptr EXCEPT ![Head(todo)] = IF @ = "null" THEN @ ELSE "freed"]
    BY <1>0, <1>1 DEF Release
  <2>1. /\ Head(todo) \in ToSet(todo) /\ Head(todo) \in Resources
        /\ todo' \in Seq(Resources) /\ IsInjective(todo')
        /\ ToSet(todo') = ToSet(todo) \ {Head(todo)}
    BY <1>0, <2>0, TailReleases
  <2>2. ptr[Head(todo)] # "freed"
    BY <1>0, <2>1 DEF ReleaseInv
  <2>3. LifeTypeOK' /\ ~misused'
    BY <1>0, <2>0, <2>1, <2>2 DEF LifeTypeOK
  <2>4. \A r \in Resources : IF r \in ToSet(todo') THEN ptr'[r] # "freed"
                             ELSE ptr'[r] \in {"null", "freed"}
    BY <1>0, <2>0, <2>1 DEF ReleaseInv
  <2>5. ReleaseInv'
    BY <1>0, <2>0, <2>1, <2>4 DEF ReleaseInv
  <2>6. OwnPlaces' /\ HoldInv' /\ LateInv'
    BY <1>0, <2>0 DEF OwnPlaces, HoldInv, LateInv, Working
  <2>q. QED
    BY <2>3, <2>5, <2>6 DEF LifeInv
<1>2. CASE Return
  <2>1. /\ pc' = "end" /\ todo = <<>> /\ UNCHANGED <<todo, ptr, misused>>
    BY <1>2 DEF Return, Go, ending
  <2>2. LifeTypeOK' /\ ~misused'
    BY <1>0, <2>1 DEF LifeTypeOK
  <2>3. ReleaseInv'
    BY <1>0, <2>1 DEF ReleaseInv
  <2>4. OwnPlaces' /\ HoldInv' /\ LateInv'
    BY <1>0, <2>1 DEF OwnPlaces, HoldInv, LateInv, Working
  <2>q. QED
    BY <2>2, <2>3, <2>4 DEF LifeInv
<1>q. QED
  BY <1>1, <1>2

(* A signal ends the program, or a sleep, or nothing                        *)
LEMMA SignalKeeps ==
  ASSUME LifeInv, NEW s \in Signals, Signal(s)
  PROVE  LifeInv'
<1>0. /\ pc \in Working \cup {"release"}
      /\ UNCHANGED <<tool, ptr, todo, result, failed, late, misused>>
      /\ running \in BOOLEAN /\ LateInv /\ ReleaseInv /\ OwnPlaces /\ HoldInv
      /\ ~misused /\ tool \in {"cpu_usage", "cpu_alert"}
  BY DEF Signal, Over, ending, LifeInv, LifeTypeOK
<1>1. CASE pc' = "killed" /\ UNCHANGED running
  <2>1. LifeTypeOK'
    BY <1>0, <1>1 DEF LifeInv, LifeTypeOK
  <2>2. OwnPlaces' /\ HoldInv' /\ ReleaseInv' /\ LateInv'
    BY <1>0, <1>1 DEF OwnPlaces, HoldInv, ReleaseInv, LateInv, Working
  <2>q. QED
    BY <1>0, <2>1, <2>2 DEF LifeInv
<1>2. CASE running' = FALSE /\ pc # "asleep" /\ pc' = pc
  <2>1. LifeTypeOK' /\ OwnPlaces'
    BY <1>0, <1>2 DEF LifeInv, LifeTypeOK, OwnPlaces
  <2>2. HoldInv'
    BY <1>0, <1>2 DEF HoldInv, MayHold
  <2>3. ReleaseInv'
    BY <1>0, <1>2 DEF ReleaseInv, Working
  <2>4. LateInv'
    BY <1>0, <1>2 DEF LateInv
  <2>q. QED
    BY <1>0, <2>1, <2>2, <2>3, <2>4 DEF LifeInv
<1>3. CASE /\ running' = FALSE /\ pc = "asleep"
           /\ pc' = IF tool = "cpu_usage" THEN "test" ELSE "woken"
  <2>1. LifeTypeOK' /\ OwnPlaces'
    BY <1>0, <1>3 DEF LifeInv, LifeTypeOK, OwnPlaces, Working
  <2>2. MayHold = {"object", "link"} \cup Buffers[tool] /\ MayHold' = MayHold
    BY <1>0, <1>3 DEF MayHold
  <2>3. pc \in Working
    BY <1>3 DEF Working
  <2>4. HoldInv'
    BY <1>0, <2>2, <2>3 DEF HoldInv
  <2>5. ReleaseInv' /\ LateInv'
    BY <1>0, <1>3 DEF ReleaseInv, LateInv
  <2>q. QED
    BY <1>0, <2>1, <2>4, <2>5 DEF LifeInv
<1>q. QED
  BY <1>1, <1>2, <1>3 DEF Signal

-----------------------------------------------------------------------------
(* Any number of CPUs, any lines, any refusals, any signals                 *)

(* Nothing is held when main is entered                                     *)
LEMMA LifeStarts == LifeInit => LifeInv
<1> SUFFICES ASSUME LifeInit PROVE LifeInv
  OBVIOUS
<1>1. LifeTypeOK
  BY DEF LifeInit, LifeTypeOK, Working
<1>2. OwnPlaces /\ HoldInv /\ ReleaseInv /\ LateInv /\ ~misused
  BY DEF LifeInit, OwnPlaces, HoldInv, ReleaseInv, LateInv, Working
<1>q. QED
  BY <1>1, <1>2 DEF LifeInv

(* No step breaks the invariant                                             *)
LEMMA LifeSteps == LifeInv /\ [LifeNext]_lifeVars => LifeInv'
<1> SUFFICES ASSUME LifeInv, [LifeNext]_lifeVars PROVE LifeInv'
  OBVIOUS
<1>1. CASE Main
  <2>1. CASE \/ Install \/ Acquire("open", "object", "load") \/ Prepare("load", "find")
             \/ Prepare("find", "attach") \/ Acquire("attach", "link", "map") \/ FindMap
    BY <2>1, ReadyKeeps
  <2>2. CASE Allocate
    BY <2>2, AllocateKeeps
  <2>3. CASE \/ ReadPossible \/ TestList("possible", "possible_read", "loop")
             \/ ReadOnline \/ TestList("online", "online_read", "read")
             \/ Output \/ TestSleep \/ Timer \/ Woken
    BY <2>3, LoopKeeps
  <2>4. CASE Loop
    BY <2>4, LoopTestKeeps
  <2>5. CASE Read \/ Sleep
    BY <2>5, ReadKeeps
  <2>6. CASE Release \/ Return
    BY <2>6, ReleaseKeeps
  <2>q. QED
    BY <1>1, <2>1, <2>2, <2>3, <2>4, <2>5, <2>6 DEF Main
<1>2. ASSUME NEW s \in Signals, Signal(s) PROVE LifeInv'
  BY <1>2, SignalKeeps
<1>3. CASE UNCHANGED lifeVars
  <2>1. UNCHANGED <<tool, running, pc, ptr, todo, result, failed, late, misused>>
    BY <1>3 DEF lifeVars, life, ending
  <2>2. LifeTypeOK' /\ OwnPlaces' /\ ~misused'
    BY <2>1 DEF LifeInv, LifeTypeOK, OwnPlaces
  <2>3. HoldInv' /\ ReleaseInv' /\ LateInv'
    BY <2>1 DEF LifeInv, HoldInv, MayHold, ReleaseInv, LateInv
  <2>q. QED
    BY <2>2, <2>3 DEF LifeInv
<1>q. QED
  BY <1>1, <1>2, <1>3 DEF LifeNext, LifeFinished

(* The invariant holds of every behaviour                                   *)
LEMMA LifeInvariant == LifeSpec => []LifeInv
<1>q. QED
  BY LifeStarts, LifeSteps, PTL DEF LifeSpec

(* Both programs: whichever call is refused and whenever a signal comes, a  *)
(* program that returns has released all it held, nothing twice, and it     *)
(* returns 0 only if it was stopped and nothing was refused.                *)
THEOREM EndsClean == LifeSpec => []EndIsClean
<1>1. LifeInv => EndIsClean
  <2> SUFFICES ASSUME LifeInv PROVE EndIsClean
    OBVIOUS
  <2>1. ~misused /\ ReleaseInv
    BY DEF LifeInv
  <2>2. ASSUME pc = "end"
        PROVE  /\ \A r \in Resources : ptr[r] \in {"null", "freed"}
               /\ (result = 0) = (~running /\ ~failed)
    <3>1. ToSet(todo) = {}
      BY <2>1, <2>2 DEF ReleaseInv, ToSet
    <3>q. QED
      BY <2>1, <2>2, <3>1 DEF ReleaseInv
  <2>3. "object" \in Resources /\ "link" \in Resources
    BY DEF Resources
  <2>q. QED
    BY <2>1, <2>2, <2>3 DEF EndIsClean
<1>q. QED
  BY <1>1, LifeInvariant, PTL

(* Both programs: after a signal, one reading or one sleep is begun at      *)
(* most.                                                                    *)
THEOREM OneLateStepOnly == LifeSpec => []OneLateStep
<1>1. LifeInv => OneLateStep
  BY DEF LifeInv, LateInv, OneLateStep
<1>q. QED
  BY <1>1, LifeInvariant, PTL

-----------------------------------------------------------------------------
(* Induction over the naturals, for a set of them                           *)

(* A set with zero, and with the successor of each of its naturals, holds   *)
(* all of them.                                                             *)
LEMMA AllNaturals ==
  ASSUME NEW S, 0 \in S, \A n \in Nat : n \in S => n + 1 \in S
  PROVE  \A n \in Nat : n \in S
<1> DEFINE R == {pair \in Nat \X Nat : pair[1] < pair[2]}
           T == Nat \ S
<1>1. IsWellFoundedOn(R, Nat)
  BY NatLessThanWellFounded DEF OpToRel
<1> SUFFICES ASSUME T # {} PROVE FALSE
  OBVIOUS
<1>2. \A a, b \in Nat : a < b => <<a, b>> \in R
  OBVIOUS
<1>3. PICK x \in T : \A y \in T : ~(<<y, x>> \in R)
  <2> HIDE DEF R
  <2>q. QED
    BY <1>1, WFMin
<1>4. x \in Nat /\ x # 0
  BY <1>3
<1>5. x - 1 \in Nat /\ x - 1 < x /\ x - 1 + 1 = x
  BY <1>4
<1>6. x - 1 \in S
  BY <1>2, <1>3, <1>4, <1>5
<1>q. QED
  BY <1>3, <1>4, <1>5, <1>6

(* The loops of n turns, each of which makes a state of the one before      *)
Loops(A, a, F, n) ==
  {g \in [0 .. n -> A] : g[0] = a /\ \A k \in 1 .. n : g[k] = F[<<k, g[k - 1]>>]}

(* There is one                                                             *)
LEMMA LoopExists ==
  ASSUME NEW A, NEW a \in A, NEW F \in [Nat \X A -> A], NEW m \in Nat
  PROVE  Loops(A, a, F, m) # {}
<1> DEFINE S == {n \in Nat : Loops(A, a, F, n) # {}}
<1>1. 0 \in S
  <2> DEFINE g == [k \in 0 .. 0 |-> a]
  <2>1. g \in Loops(A, a, F, 0)
    BY DEF Loops
  <2>q. QED
    BY <2>1
<1>2. ASSUME NEW n \in Nat, n \in S PROVE n + 1 \in S
  <2>1. PICK g \in [0 .. n -> A] :
           g[0] = a /\ \A k \in 1 .. n : g[k] = F[<<k, g[k - 1]>>]
    BY <1>2 DEF Loops
  <2> DEFINE h == [k \in 0 .. n + 1 |-> IF k <= n THEN g[k] ELSE F[<<n + 1, g[n]>>]]
  <2>2. F[<<n + 1, g[n]>>] \in A
    BY <2>1
  <2>3. h \in [0 .. n + 1 -> A]
    BY <2>1, <2>2
  <2>4. h[0] = a
    BY <2>1
  <2>5. ASSUME NEW k \in 1 .. n + 1 PROVE h[k] = F[<<k, h[k - 1]>>]
    <3>1. CASE k <= n
      <4>1. k \in 1 .. n /\ k - 1 \in 0 .. n
        BY <3>1
      <4>2. h[k] = g[k] /\ h[k - 1] = g[k - 1]
        BY <4>1
      <4>q. QED
        BY <2>1, <4>1, <4>2
    <3>2. CASE k = n + 1
      BY <3>2
    <3>q. QED
      BY <3>1, <3>2
  <2>6. h \in Loops(A, a, F, n + 1)
    <3> HIDE DEF h
    <3>q. QED
      BY <2>3, <2>4, <2>5 DEF Loops
  <2>q. QED
    BY <2>6
<1>3. \A n \in Nat : n \in S
  <2> HIDE DEF S
  <2>q. QED
    BY <1>1, <1>2, AllNaturals
<1>q. QED
  BY <1>3

-----------------------------------------------------------------------------
(* The ranges of a line                                                     *)

Spans == {r \in [first : Nat, last : Nat] :
            r = Invalid \/ (r.first <= r.last /\ r.last <= IntMax)}

Found == [at : Nat \ {0}, ranges : Seq(Spans)]

(* From one number to another that is not below it                          *)
LEMMA SpanOf ==
  ASSUME NEW a \in Ids, NEW b \in Ids, a <= b
  PROVE  [first |-> a, last |-> b] \in Spans
<1>1. a \in Nat /\ b \in Nat /\ b <= IntMax
  BY CpuListAssumption DEF Ids
<1>2. [first |-> a, last |-> b] \in [first : Nat, last : Nat]
  BY <1>1
<1>q. QED
  BY <1>1, <1>2 DEF Spans

(* What is read at a position, and where what follows it is                 *)
LEMMA RangeRead ==
  ASSUME NEW l \in Seq(Tokens), NEW i \in 1 .. Len(l), RangeAt(l, i) # Invalid
  PROVE  /\ RangeAt(l, i) \in Spans /\ RangeAt(l, i).first = l[i] /\ l[i] \in Ids
         /\ RangeAt(l, i).first <= RangeAt(l, i).last
         /\ \/ /\ After(l, i) = i + 1 /\ RangeAt(l, i).last = l[i]
               /\ i + 1 <= Len(l) => l[i + 1] # Dash
            \/ /\ After(l, i) = i + 3 /\ i + 2 <= Len(l)
               /\ l[i + 1] = Dash /\ l[i + 2] \in Ids
               /\ RangeAt(l, i).last = l[i + 2]
<1> USE CpuListAssumption
<1>1. l[i] \in Ids /\ l[i] \in Nat /\ l[i] <= l[i]
  BY DEF RangeAt, IdAt, Ids
<1>2. CASE i + 1 > Len(l) \/ l[i + 1] # Dash
  <2>1. RangeAt(l, i) = [first |-> l[i], last |-> l[i]] /\ After(l, i) = i + 1
    BY <1>1, <1>2 DEF RangeAt, IdAt, After
  <2>2. RangeAt(l, i).first = l[i] /\ RangeAt(l, i).last = l[i]
    BY <2>1
  <2>3. RangeAt(l, i) \in Spans
    BY <1>1, <2>1, SpanOf
  <2>4. i + 1 <= Len(l) => l[i + 1] # Dash
    BY <1>2
  <2>q. QED
    BY <1>1, <2>1, <2>2, <2>3, <2>4
<1>3. CASE i + 1 <= Len(l) /\ l[i + 1] = Dash
  <2>1. /\ IdAt(l, i + 2) /\ l[i] <= l[i + 2] /\ After(l, i) = i + 3
        /\ RangeAt(l, i) = [first |-> l[i], last |-> l[i + 2]]
    BY <1>1, <1>3 DEF RangeAt, After
  <2>2. RangeAt(l, i).first = l[i] /\ RangeAt(l, i).last = l[i + 2]
    BY <2>1
  <2>3. l[i + 2] \in Ids /\ i + 2 <= Len(l)
    BY <2>1 DEF IdAt
  <2>4. RangeAt(l, i) \in Spans
    BY <1>1, <2>1, <2>3, SpanOf
  <2>q. QED
    BY <1>1, <1>3, <2>1, <2>2, <2>3, <2>4
<1>q. QED
  BY <1>2, <1>3

(* A turn of the loop finds something of the same kind, further on          *)
LEMMA ReadRangeTyped ==
  ASSUME NEW l \in Seq(Tokens), NEW f \in Found
  PROVE  ReadRange(l, f) \in Found
         /\ (ReadRange(l, f).at > f.at \/ (f.at > Len(l) /\ ReadRange(l, f) = f))
<1>0. /\ Len(l) \in Nat /\ f.at \in Nat \ {0} /\ f.ranges \in Seq(Spans)
      /\ Invalid \in Spans
  BY DEF Found, Spans, Invalid
<1>1. CASE f.at > Len(l)
  BY <1>0, <1>1 DEF ReadRange
<1> DEFINE range == RangeAt(l, f.at)
           next == After(l, f.at)
<1>2. CASE f.at <= Len(l) /\ range = Invalid
  <2>1. ReadRange(l, f) = [at |-> Len(l) + 1, ranges |-> Append(f.ranges, Invalid)]
    BY <1>0, <1>2 DEF ReadRange
  <2>q. QED
    BY <1>0, <1>2, <2>1 DEF Found
<1>3. CASE f.at <= Len(l) /\ range # Invalid
  <2>1. range \in Spans /\ next \in Nat /\ next > f.at
    BY <1>0, <1>3, RangeRead
  <2> HIDE DEF range, next
  <2>2. CASE next <= Len(l) /\ l[next] # Comma
    <3>1. ReadRange(l, f) = [at |-> Len(l) + 1,
                             ranges |-> Append(Append(f.ranges, range), Invalid)]
      BY <1>0, <1>3, <2>2 DEF ReadRange, range, next
    <3>2. Append(Append(f.ranges, range), Invalid) \in Seq(Spans)
      BY <1>0, <2>1
    <3>q. QED
      BY <1>0, <1>3, <3>1, <3>2 DEF Found
  <2>3. CASE ~(next <= Len(l) /\ l[next] # Comma)
    <3>1. ReadRange(l, f) = [at |-> next + 1, ranges |-> Append(f.ranges, range)]
      BY <1>0, <1>3, <2>3 DEF ReadRange, range, next
    <3>q. QED
      BY <1>0, <2>1, <3>1 DEF Found
  <2>q. QED
    BY <2>2, <2>3
<1>q. QED
  BY <1>0, <1>1, <1>2, <1>3

(* The loop over a line: the states of its turns                            *)
LEMMA RangesLoop ==
  ASSUME NEW l \in Seq(Tokens)
  PROVE  \E read \in [0 .. Len(l) -> Found] :
            /\ read[0] = [at |-> 1, ranges |-> <<>>]
            /\ \A k \in 1 .. Len(l) : read[k] = ReadRange(l, read[k - 1])
            /\ Ranges(l) = read[Len(l)].ranges
<1> DEFINE a == [at |-> 1, ranges |-> <<>>]
           F == [x \in Nat \X Found |-> ReadRange(l, x[2])]
           Body(h) == [k \in 0 .. Len(l) |-> IF k = 0 THEN a ELSE ReadRange(l, h[k - 1])]
           read == CHOOSE h : h = Body(h)
<1>0. Len(l) \in Nat /\ a \in Found
  BY DEF Found
<1>1. F \in [Nat \X Found -> Found]
  BY ReadRangeTyped
<1>2. PICK g \in [0 .. Len(l) -> Found] :
         g[0] = a /\ \A k \in 1 .. Len(l) : g[k] = F[<<k, g[k - 1]>>]
  <2> HIDE DEF F, a
  <2>1. Loops(Found, a, F, Len(l)) # {}
    BY <1>0, <1>1, LoopExists
  <2>q. QED
    BY <2>1 DEF Loops
<1>3. ASSUME NEW k \in 1 .. Len(l) PROVE g[k] = ReadRange(l, g[k - 1])
  <2>1. k \in Nat /\ g[k - 1] \in Found
    BY <1>0, <1>2
  <2>q. QED
    BY <1>2, <2>1
<1>4. g = Body(g)
  <2> HIDE DEF a
  <2>1. \A k \in 0 .. Len(l) : g[k] = IF k = 0 THEN a ELSE ReadRange(l, g[k - 1])
    BY <1>0, <1>2, <1>3
  <2>q. QED
    BY <1>2, <2>1
<1>5. read = Body(read)
  <2> HIDE DEF Body
  <2>q. QED
    BY <1>4
<1>6. Ranges(l) = read[Len(l)].ranges
  BY DEF Ranges
<1> HIDE DEF read
<1>7. /\ DOMAIN read = 0 .. Len(l)
      /\ read[0] = a
      /\ \A k \in 1 .. Len(l) : read[k] = ReadRange(l, read[k - 1])
  BY <1>0, <1>5
<1> DEFINE S == {n \in Nat : n <= Len(l) => read[n] \in Found}
<1>8. 0 \in S
  BY <1>0, <1>7
<1>9. ASSUME NEW n \in Nat, n \in S PROVE n + 1 \in S
  <2>1. ASSUME n + 1 <= Len(l) PROVE read[n + 1] \in Found
    <3>1. n <= Len(l) /\ n + 1 \in 1 .. Len(l) /\ n + 1 - 1 = n
      BY <1>0, <2>1
    <3>2. read[n + 1] = ReadRange(l, read[n]) /\ read[n] \in Found
      BY <1>7, <1>9, <3>1
    <3>q. QED
      BY <3>2, ReadRangeTyped
  <2>q. QED
    BY <2>1
<1>10. \A n \in Nat : n \in S
  <2> HIDE DEF S
  <2>q. QED
    BY <1>8, <1>9, AllNaturals
<1>11. read \in [0 .. Len(l) -> Found]
  <2>1. \A k \in 0 .. Len(l) : read[k] \in Found
    BY <1>0, <1>10
  <2>q. QED
    BY <1>5, <2>1
<1>q. QED
  BY <1>6, <1>7, <1>11

(* The CPUs covered by the first e tokens of a line, and by ranges          *)
CoveredTo(l, e) ==
  {n \in Ids : \/ \E i \in 1 .. Len(l) : i <= e /\ l[i] = n
               \/ \E i \in 2 .. Len(l) - 1 :
                     i + 1 <= e /\ l[i] = Dash /\ l[i - 1] < n /\ n < l[i + 1]}

InRanges(R) == {n \in Ids : \E k \in 1 .. Len(R) : R[k].first <= n /\ n <= R[k].last}

(* The next number or range covers what its tokens cover                    *)
LEMMA CoversNext ==
  ASSUME NEW l \in Seq(Tokens), NEW i \in 1 .. Len(l), RangeAt(l, i) # Invalid,
         i > 1 => l[i - 1] = Comma,
         After(l, i) <= Len(l) => l[After(l, i)] = Comma
  PROVE  \A n \in Ids : n \in CoveredTo(l, After(l, i)) <=>
            \/ n \in CoveredTo(l, i - 1)
            \/ RangeAt(l, i).first <= n /\ n <= RangeAt(l, i).last
<1>0. /\ Comma \notin Ids /\ Dash \notin Ids /\ Comma # Dash
      /\ Len(l) \in Nat /\ \A x \in Ids : x \in Nat
  BY CpuListAssumption DEF Comma, Dash, Ids
<1>1. /\ RangeAt(l, i).first = l[i] /\ l[i] \in Ids
      /\ \/ /\ After(l, i) = i + 1 /\ RangeAt(l, i).last = l[i]
            /\ i + 1 <= Len(l) => l[i + 1] # Dash
         \/ /\ After(l, i) = i + 3 /\ i + 2 <= Len(l)
            /\ l[i + 1] = Dash /\ l[i + 2] \in Ids
            /\ RangeAt(l, i).last = l[i + 2]
  BY RangeRead
<1> DEFINE next == After(l, i)
           range == RangeAt(l, i)
<1> SUFFICES ASSUME NEW n \in Ids
             PROVE  n \in CoveredTo(l, next) <=>
                       n \in CoveredTo(l, i - 1) \/ (range.first <= n /\ n <= range.last)
  OBVIOUS
<1>2. next \in Nat /\ next > i /\ n \in Nat
  BY <1>0, <1>1
<1> HIDE DEF next, range
<1>3. n \in CoveredTo(l, i - 1) => n \in CoveredTo(l, next)
  BY <1>0, <1>2 DEF CoveredTo
<1>4. ASSUME range.first <= n, n <= range.last PROVE n \in CoveredTo(l, next)
  <2>1. CASE n = l[i]
    BY <1>0, <1>2, <2>1 DEF CoveredTo
  <2>2. CASE n # l[i]
    <3>5. l[i] \in Nat /\ range.first = l[i]
      BY <1>0, <1>1 DEF range
    <3>0. l[i] \in Nat /\ l[i] <= n /\ l[i] < n
      BY <1>2, <1>4, <2>2, <3>5
    <3>4. range.last # l[i]
      BY <1>2, <1>4, <3>0
    <3>1. next = i + 3 /\ i + 2 <= Len(l) /\ l[i + 1] = Dash /\ range.last = l[i + 2]
          /\ l[i + 2] \in Nat /\ l[i] \in Nat /\ l[i] < n
      BY <1>0, <1>1, <3>0, <3>4 DEF next, range
    <3>2. CASE n = l[i + 2]
      BY <1>0, <1>2, <3>1, <3>2 DEF CoveredTo
    <3>3. CASE n < l[i + 2]
      <4>1. i + 1 \in 2 .. Len(l) - 1 /\ i + 1 + 1 <= next
            /\ l[i + 1 - 1] < n /\ n < l[i + 1 + 1]
        BY <1>0, <3>1, <3>3
      <4>q. QED
        BY <3>1, <4>1 DEF CoveredTo
    <3>q. QED
      BY <1>2, <1>4, <3>1, <3>2, <3>3
  <2>q. QED
    BY <2>1, <2>2
<1>5. ASSUME NEW j \in 1 .. Len(l), j <= next, l[j] = n
      PROVE  n \in CoveredTo(l, i - 1) \/ (range.first <= n /\ n <= range.last)
  <2>1. CASE j <= i - 1
    BY <1>0, <1>5, <2>1 DEF CoveredTo
  <2>2. CASE j > i - 1 /\ next = i + 1
    BY <1>0, <1>1, <1>2, <1>5, <2>2 DEF next, range
  <2>3. CASE j > i - 1 /\ next = i + 3
    <3>1. j = i \/ j = i + 1 \/ j = i + 2 \/ j = i + 3
      BY <1>0, <1>5, <2>3
    <3>2. range.first = l[i] /\ range.last = l[i + 2] /\ l[i] <= l[i + 2]
      BY <1>1, <2>3, RangeRead DEF next, range
    <3>3. j # i + 1 /\ j # i + 3
      BY <1>0, <1>1, <1>5, <2>3 DEF next
    <3>q. QED
      BY <1>0, <1>1, <1>2, <1>5, <3>1, <3>2, <3>3
  <2>q. QED
    BY <1>0, <1>1, <1>5, <2>1, <2>2, <2>3 DEF next
<1>6. ASSUME NEW j \in 2 .. Len(l) - 1, j + 1 <= next, l[j] = Dash,
             l[j - 1] < n, n < l[j + 1]
      PROVE  n \in CoveredTo(l, i - 1) \/ (range.first <= n /\ n <= range.last)
  <2>1. CASE j + 1 <= i - 1
    BY <1>0, <1>6, <2>1 DEF CoveredTo
  <2>2. j # i - 1 /\ j # i
    BY <1>0, <1>1, <1>6
  <2>3. CASE j = i + 1
    <3>1. next = i + 3 /\ range.first = l[i] /\ range.last = l[i + 2]
      BY <1>0, <1>1, <1>6, <2>3 DEF next, range
    <3>2. /\ j - 1 = i /\ j + 1 = i + 2 /\ l[i] \in Nat
          /\ l[i + 2] \in Ids /\ l[i + 2] \in Nat
      BY <1>0, <1>1, <2>3, <3>1 DEF next
    <3>q. QED
      BY <1>2, <1>6, <3>1, <3>2
  <2>4. j # i + 2
    BY <1>0, <1>1, <1>6 DEF next
  <2>5. j \in Int /\ i \in Int /\ j <= i + 2
    BY <1>0, <1>1, <1>6 DEF next
  <2>q. QED
    BY <2>1, <2>2, <2>3, <2>4, <2>5
<1>7. n \in CoveredTo(l, next) =>
         n \in CoveredTo(l, i - 1) \/ (range.first <= n /\ n <= range.last)
  BY <1>5, <1>6 DEF CoveredTo
<1>q. QED
  BY <1>3, <1>4, <1>7

(* A range at the end of others                                             *)
LEMMA AppendRange ==
  ASSUME NEW R \in Seq(Spans), NEW r \in Spans
  PROVE  /\ Append(R, r) \in Seq(Spans) /\ Len(Append(R, r)) = Len(R) + 1
         /\ \A k \in 1 .. Len(R) : Append(R, r)[k] = R[k]
         /\ Append(R, r)[Len(R) + 1] = r
         /\ Contains(Append(R, r), Invalid) <=> Contains(R, Invalid) \/ r = Invalid
         /\ \A n \in Ids : n \in InRanges(Append(R, r)) <=>
               n \in InRanges(R) \/ (r.first <= n /\ n <= r.last)
<1> DEFINE A == Append(R, r)
<1>1. /\ A \in Seq(Spans) /\ Len(R) \in Nat /\ Len(A) = Len(R) + 1
      /\ \A k \in 1 .. Len(R) : A[k] = R[k]
      /\ A[Len(R) + 1] = r
  OBVIOUS
<1> HIDE DEF A
<1>2. 1 .. Len(A) = (1 .. Len(R)) \cup {Len(R) + 1}
  BY <1>1
<1>3. Contains(A, Invalid) <=> Contains(R, Invalid) \/ r = Invalid
  BY <1>1, <1>2 DEF Contains
<1>4. ASSUME NEW n \in Ids
      PROVE  n \in InRanges(A) <=> n \in InRanges(R) \/ (r.first <= n /\ n <= r.last)
  BY <1>1, <1>2 DEF InRanges
<1>q. QED
  BY <1>1, <1>3, <1>4 DEF A

(* What has been found up to a position is what was covered up to it        *)
ReadInv(l, f) ==
  /\ Contains(f.ranges, Invalid) => f.at > Len(l)
  /\ ~Contains(f.ranges, Invalid) =>
        /\ InRanges(f.ranges) = CoveredTo(l, f.at - 1)
        /\ f.at > 1 /\ f.at <= Len(l) => l[f.at - 1] = Comma

(* A turn keeps to that                                                     *)
LEMMA TurnReads ==
  ASSUME NEW l \in Seq(Tokens), NEW f \in Found, ReadInv(l, f)
  PROVE  ReadInv(l, ReadRange(l, f))
<1>0. Len(l) \in Nat /\ f.at \in Nat \ {0} /\ f.ranges \in Seq(Spans) /\ Invalid \in Spans
  BY DEF Found, Spans, Invalid
<1>1. CASE f.at > Len(l)
  BY <1>1 DEF ReadRange
<1> DEFINE range == RangeAt(l, f.at)
           next == After(l, f.at)
<1>2. CASE f.at <= Len(l) /\ range = Invalid
  <2>1. ReadRange(l, f) = [at |-> Len(l) + 1, ranges |-> Append(f.ranges, Invalid)]
    BY <1>0, <1>2 DEF ReadRange
  <2>2. Contains(Append(f.ranges, Invalid), Invalid)
    BY <1>0, AppendRange
  <2>q. QED
    BY <1>0, <2>1, <2>2 DEF ReadInv
<1>3. CASE f.at <= Len(l) /\ range # Invalid
  <2>1. range \in Spans /\ next \in Nat /\ next > f.at
    BY <1>0, <1>3, RangeRead
  <2> HIDE DEF range, next
  <2>2. CASE next <= Len(l) /\ l[next] # Comma
    <3>1. ReadRange(l, f) = [at |-> Len(l) + 1,
                             ranges |-> Append(Append(f.ranges, range), Invalid)]
      BY <1>0, <1>3, <2>2 DEF ReadRange, range, next
    <3>2. Append(f.ranges, range) \in Seq(Spans)
      BY <1>0, <2>1
    <3>3. Contains(Append(Append(f.ranges, range), Invalid), Invalid)
      BY <1>0, <3>2, AppendRange
    <3>q. QED
      BY <1>0, <3>1, <3>3 DEF ReadInv
  <2>3. CASE ~(next <= Len(l) /\ l[next] # Comma)
    <3>1. ReadRange(l, f) = [at |-> next + 1, ranges |-> Append(f.ranges, range)]
      BY <1>0, <1>3, <2>3 DEF ReadRange, range, next
    <3>2. /\ ~Contains(f.ranges, Invalid) /\ ~Contains(Append(f.ranges, range), Invalid)
          /\ InRanges(f.ranges) = CoveredTo(l, f.at - 1)
          /\ f.at > 1 => l[f.at - 1] = Comma
      BY <1>0, <1>3, <2>1, AppendRange DEF ReadInv
    <3>3. \A n \in Ids : n \in CoveredTo(l, next) <=>
             n \in CoveredTo(l, f.at - 1) \/ (range.first <= n /\ n <= range.last)
      BY <1>0, <1>3, <2>3, <3>2, CoversNext DEF range, next
    <3>4. \A n \in Ids : n \in InRanges(Append(f.ranges, range)) <=>
             n \in InRanges(f.ranges) \/ (range.first <= n /\ n <= range.last)
      BY <1>0, <2>1, AppendRange
    <3>5. InRanges(Append(f.ranges, range)) = CoveredTo(l, next)
      <4>1. /\ InRanges(Append(f.ranges, range)) \subseteq Ids
            /\ CoveredTo(l, next) \subseteq Ids
        BY DEF InRanges, CoveredTo
      <4>q. QED
        BY <3>2, <3>3, <3>4, <4>1
    <3> DEFINE g == ReadRange(l, f)
    <3>6. g.at - 1 = next /\ g.ranges = Append(f.ranges, range)
      BY <2>1, <3>1
    <3>7. g.at <= Len(l) => l[g.at - 1] = Comma
      BY <1>0, <2>1, <2>3, <3>1, <3>6
    <3> HIDE DEF g
    <3>8. ReadInv(l, g)
      BY <3>2, <3>5, <3>6, <3>7 DEF ReadInv
    <3>q. QED
      BY <3>8 DEF g
  <2>q. QED
    BY <2>2, <2>3
<1>q. QED
  BY <1>0, <1>1, <1>2, <1>3

-----------------------------------------------------------------------------
(* The lines the kernel prints                                              *)

Ascending(R) == \A j, k \in 1 .. Len(R) : j < k => R[j].last < R[k].first

(* Positions after one that is not the last                                 *)
LEMMA Further ==
  ASSUME NEW i \in Nat \ {0}, NEW n \in Nat, i + 1 <= n
  PROVE  /\ i \in 1 .. n /\ i + 1 \in 1 .. n /\ i + 2 > 1 /\ i + 2 - 2 = i
         /\ i + 1 # n => i + 2 \in 1 .. n /\ i + 2 <= n
OBVIOUS

(* At a number the kernel printed there is a range, and a number beyond it  *)
(* follows its comma.                                                       *)
LEMMA KernelRange ==
  ASSUME NEW l \in Seq(Tokens), KernelLine(l), NEW i \in 1 .. Len(l), i % 2 = 1
  PROVE  /\ RangeAt(l, i) # Invalid
         /\ After(l, i) <= Len(l) =>
               /\ l[After(l, i)] = Comma /\ After(l, i) + 1 <= Len(l)
               /\ (After(l, i) + 1) % 2 = 1
               /\ RangeAt(l, i).last < l[After(l, i) + 1]
<1>0. /\ Comma # Dash /\ Len(l) \in Nat /\ \A x \in Ids : x \in Nat
      /\ DOMAIN l = 1 .. Len(l)
  BY CpuListAssumption DEF Comma, Dash, Ids
<1>1. /\ (i + 1) % 2 # 1 /\ (i + 2) % 2 = 1 /\ (i + 3) % 2 # 1 /\ (i + 4) % 2 = 1
  OBVIOUS
<1>7. i \in Nat \ {0} /\ i + 2 \in Nat \ {0} /\ i + 2 + 1 = i + 3
      /\ i + 2 + 2 = i + 4
  OBVIOUS
<1>2. /\ Len(l) % 2 = 1
      /\ \A j \in 1 .. Len(l) :
            /\ IF j % 2 = 1 THEN l[j] \in Ids ELSE l[j] \in {Dash, Comma}
            /\ j % 2 = 1 /\ j > 1 => l[j - 2] < l[j]
            /\ j > 2 /\ l[j] = Dash => l[j - 2] = Comma
  BY <1>0 DEF KernelLine
<1>3. l[i] \in Ids
  BY <1>2
<1>4. i + 1 <= Len(l) => i + 2 <= Len(l) /\ l[i + 1] \in {Dash, Comma}
                         /\ l[i + 2] \in Ids /\ l[i] < l[i + 2]
  <2> SUFFICES ASSUME i + 1 <= Len(l)
               PROVE  i + 2 <= Len(l) /\ l[i + 1] \in {Dash, Comma}
                         /\ l[i + 2] \in Ids /\ l[i] < l[i + 2]
    OBVIOUS
  <2>1. i + 1 # Len(l)
    BY <1>1, <1>2
  <2>2. i + 2 \in 1 .. Len(l) /\ i + 1 \in 1 .. Len(l) /\ i + 2 > 1 /\ i + 2 - 2 = i
    BY <1>0, <1>7, <2>1, Further
  <2>q. QED
    BY <1>0, <1>1, <1>2, <2>2
<1>5. CASE i + 1 <= Len(l) /\ l[i + 1] = Dash
  <2>1. /\ RangeAt(l, i) = [first |-> l[i], last |-> l[i + 2]] /\ After(l, i) = i + 3
        /\ l[i] \in Nat /\ l[i + 2] \in Nat
    BY <1>0, <1>1, <1>3, <1>4, <1>5 DEF RangeAt, IdAt, After
  <2>2. RangeAt(l, i) # Invalid /\ RangeAt(l, i).last = l[i + 2]
    BY <1>4, <1>5, <2>1 DEF Invalid
  <2>3. ASSUME i + 3 <= Len(l)
        PROVE  l[i + 3] = Comma /\ i + 4 <= Len(l) /\ l[i + 2] < l[i + 4]
    <3>0. i + 3 # Len(l)
      BY <1>1, <1>2
    <3>1. i + 3 # Len(l) /\ i + 3 \in 1 .. Len(l)
      BY <1>0, <1>7, <2>3, <3>0, Further
    <3>5. i + 3 > 2 /\ i + 3 - 2 = i + 1
      OBVIOUS
    <3>2. i + 4 \in 1 .. Len(l) /\ i + 4 > 1 /\ i + 4 - 2 = i + 2
      <4>1. i + 2 + 1 <= Len(l) /\ i + 2 + 1 # Len(l)
        BY <1>7, <2>3, <3>0
      <4>2. i + 2 + 2 \in 1 .. Len(l) /\ i + 2 + 2 > 1 /\ i + 2 + 2 - 2 = i + 2
        <5> DEFINE j == i + 2
        <5> HIDE DEF j
        <5>1. j + 2 \in 1 .. Len(l) /\ j + 2 > 1 /\ j + 2 - 2 = j
          <6>1. j \in Nat \ {0} /\ Len(l) \in Nat /\ j + 1 <= Len(l) /\ j + 1 # Len(l)
            BY <1>0, <1>7, <4>1 DEF j
          <6>q. QED
            BY <6>1, Further
        <5>q. QED
          BY <5>1 DEF j
      <4>q. QED
        BY <1>7, <4>2
    <3>3. l[i + 3] \in {Dash, Comma} /\ (l[i + 3] = Dash => l[i + 1] = Comma)
      BY <1>1, <1>2, <3>1, <3>5
    <3>4. l[i + 2] < l[i + 4]
      BY <1>1, <1>2, <3>2
    <3>q. QED
      BY <1>0, <1>5, <3>2, <3>3, <3>4
  <2>q. QED
    BY <1>1, <2>1, <2>2, <2>3
<1>6. CASE ~(i + 1 <= Len(l) /\ l[i + 1] = Dash)
  <2>1. /\ RangeAt(l, i) = [first |-> l[i], last |-> l[i]] /\ After(l, i) = i + 1
        /\ l[i] \in Nat
    BY <1>0, <1>1, <1>3, <1>6 DEF RangeAt, IdAt, After
  <2>2. RangeAt(l, i) # Invalid /\ RangeAt(l, i).last = l[i]
    BY <2>1 DEF Invalid
  <2>q. QED
    BY <1>0, <1>1, <1>4, <1>6, <2>1, <2>2
<1>q. QED
  BY <1>5, <1>6

(* Up to a position there was a range at each number, and they ascend       *)
KernelInv(l, f) ==
  /\ ~Contains(f.ranges, Invalid) /\ Ascending(f.ranges)
  /\ f.at <= Len(l) => /\ f.at % 2 = 1
                       /\ \A k \in 1 .. Len(f.ranges) : f.ranges[k].last < l[f.at]

(* A turn keeps to that                                                     *)
LEMMA TurnAscends ==
  ASSUME NEW l \in Seq(Tokens), KernelLine(l), NEW f \in Found, KernelInv(l, f)
  PROVE  KernelInv(l, ReadRange(l, f))
<1>0. Len(l) \in Nat /\ f.at \in Nat \ {0} /\ f.ranges \in Seq(Spans)
  BY DEF Found
<1>1. CASE f.at > Len(l)
  BY <1>1 DEF ReadRange
<1>2. CASE f.at <= Len(l)
  <2> DEFINE range == RangeAt(l, f.at)
             next == After(l, f.at)
             R == f.ranges
             A == Append(R, range)
             g == ReadRange(l, f)
  <2>1. f.at \in 1 .. Len(l) /\ f.at % 2 = 1 /\ \A k \in 1 .. Len(R) : R[k].last < l[f.at]
    BY <1>0, <1>2 DEF KernelInv
  <2>2. /\ range # Invalid
        /\ next <= Len(l) => /\ l[next] = Comma /\ next + 1 <= Len(l)
                             /\ (next + 1) % 2 = 1 /\ range.last < l[next + 1]
    BY <2>1, KernelRange
  <2>3. /\ range \in Spans /\ range.first = l[f.at] /\ l[f.at] \in Nat
        /\ range.first <= range.last /\ next \in Nat /\ next > f.at
    BY <1>0, <2>1, <2>2, RangeRead, CpuListAssumption DEF Ids
  <2>4. g = [at |-> next + 1, ranges |-> A]
    BY <1>0, <1>2, <2>2, <2>3 DEF ReadRange
  <2>5. /\ A \in Seq(Spans) /\ Len(A) = Len(R) + 1
        /\ \A k \in 1 .. Len(R) : A[k] = R[k]
        /\ A[Len(R) + 1] = range
        /\ Contains(A, Invalid) <=> Contains(R, Invalid) \/ range = Invalid
    BY <1>0, <2>3, AppendRange
  <2> HIDE DEF range, next, A, g
  <2>6. Len(R) \in Nat /\ 1 .. Len(A) = (1 .. Len(R)) \cup {Len(R) + 1}
    BY <1>0, <2>5
  <2>7. ~Contains(A, Invalid) /\ Ascending(R)
    BY <2>2, <2>5 DEF KernelInv
  <2>8. \A k \in 1 .. Len(R) : R[k].last < range.first
    BY <2>1, <2>3
  <2>9. Ascending(A)
    <3> SUFFICES ASSUME NEW j \in 1 .. Len(A), NEW k \in 1 .. Len(A), j < k
                 PROVE  A[j].last < A[k].first
      BY DEF Ascending
    <3>1. j \in 1 .. Len(R)
      BY <2>5, <2>6
    <3>2. CASE k \in 1 .. Len(R)
      BY <2>5, <2>7, <3>1, <3>2 DEF Ascending
    <3>3. CASE k = Len(R) + 1
      BY <2>5, <2>8, <3>1, <3>3
    <3>q. QED
      BY <2>6, <3>2, <3>3
  <2>10. ASSUME next + 1 <= Len(l)
         PROVE  \A k \in 1 .. Len(A) : A[k].last < l[next + 1]
    <3>1. next <= Len(l) /\ range.last < l[next + 1]
      BY <1>0, <2>2, <2>3, <2>10
    <3>2. next + 1 \in 1 .. Len(l) /\ (next + 1) % 2 = 1
      BY <1>0, <2>2, <2>3, <2>10, <3>1
    <3>3. l[next + 1] \in Nat
      BY <3>2, KernelRange, RangeRead, CpuListAssumption DEF Ids
    <3>4. ASSUME NEW k \in 1 .. Len(R) PROVE A[k].last < l[next + 1]
      <4>1. /\ R[k].last < range.first /\ range.first <= range.last
            /\ R[k].last \in Nat /\ range.first \in Nat /\ range.last \in Nat
        BY <1>0, <2>3, <2>8 DEF Spans
      <4>q. QED
        BY <2>5, <3>1, <3>3, <4>1
    <3>q. QED
      BY <2>5, <2>6, <3>1, <3>4
  <2>11. next + 1 <= Len(l) => (next + 1) % 2 = 1
    BY <1>0, <2>2, <2>3
  <2>12. g.at = next + 1 /\ g.ranges = A
    BY <2>4
  <2>13. KernelInv(l, g)
    BY <2>7, <2>9, <2>10, <2>11, <2>12 DEF KernelInv
  <2>q. QED
    BY <2>13 DEF g
<1>q. QED
  BY <1>0, <1>1, <1>2

(* The ranges of any line that has no other thing in it cover what the line *)
(* covers, and a line that the kernel prints has only ranges, in order.     *)
LEMMA RangesExact ==
  ASSUME NEW l \in Seq(Tokens)
  PROVE  /\ Ranges(l) \in Seq(Spans)
         /\ ~Contains(Ranges(l), Invalid) => InRanges(Ranges(l)) = Covered(l)
         /\ KernelLine(l) => ~Contains(Ranges(l), Invalid) /\ Ascending(Ranges(l))
<1>0. Len(l) \in Nat
  OBVIOUS
<1>1. PICK read \in [0 .. Len(l) -> Found] :
         /\ read[0] = [at |-> 1, ranges |-> <<>>]
         /\ \A k \in 1 .. Len(l) : read[k] = ReadRange(l, read[k - 1])
         /\ Ranges(l) = read[Len(l)].ranges
  BY RangesLoop
<1> DEFINE Good(f) == ReadInv(l, f) /\ (KernelLine(l) => KernelInv(l, f))
           S == {n \in Nat : n <= Len(l) => Good(read[n]) /\ read[n].at > n}
<1>2. 0 \in S
  <2>1. read[0].at = 1 /\ read[0].ranges = <<>>
    BY <1>1
  <2>2. Len(<<>>) = 0 /\ 1 .. 0 = {}
    OBVIOUS
  <2>3. ~Contains(<<>>, Invalid) /\ InRanges(<<>>) = {} /\ Ascending(<<>>)
    BY <2>2 DEF Contains, InRanges, Ascending
  <2>4. CoveredTo(l, 1 - 1) = {}
    BY <1>0 DEF CoveredTo
  <2>5. ReadInv(l, read[0])
    BY <2>1, <2>3, <2>4 DEF ReadInv
  <2>6. KernelInv(l, read[0])
    BY <2>1, <2>2, <2>3 DEF KernelInv
  <2>q. QED
    BY <2>1, <2>5, <2>6
<1>3. ASSUME NEW n \in Nat, n \in S PROVE n + 1 \in S
  <2>1. ASSUME n + 1 <= Len(l) PROVE Good(read[n + 1]) /\ read[n + 1].at > n + 1
    <3>1. /\ n <= Len(l) /\ n + 1 \in 1 .. Len(l) /\ n + 1 - 1 = n
          /\ n \in 0 .. Len(l)
      BY <1>0, <2>1
    <3>2. /\ read[n + 1] = ReadRange(l, read[n]) /\ read[n] \in Found
          /\ Good(read[n]) /\ read[n].at > n
      BY <1>1, <1>3, <3>1
    <3>3. Good(read[n + 1])
      BY <3>2, TurnReads, TurnAscends
    <3>4. read[n + 1] \in Found /\ read[n].at \in Nat /\ read[n + 1].at \in Nat
      BY <3>2, ReadRangeTyped DEF Found
    <3>5. \/ read[n + 1].at > read[n].at
          \/ read[n].at > Len(l) /\ read[n + 1] = read[n]
      BY <3>2, ReadRangeTyped
    <3>6. read[n + 1].at > n + 1
      BY <1>0, <2>1, <3>2, <3>4, <3>5
    <3>q. QED
      BY <3>3, <3>6
  <2>q. QED
    BY <2>1
<1>4. \A n \in Nat : n \in S
  <2> HIDE DEF S
  <2>q. QED
    BY <1>2, <1>3, AllNaturals
<1> DEFINE f == read[Len(l)]
<1>5. Good(f) /\ f.at > Len(l) /\ f \in Found /\ Ranges(l) = f.ranges
  BY <1>0, <1>1, <1>4
<1> HIDE DEF f
<1>6. f.at \in Nat /\ f.ranges \in Seq(Spans)
  BY <1>5 DEF Found
<1>7. CoveredTo(l, f.at - 1) = Covered(l)
  <2>1. f.at - 1 \in Nat /\ Len(l) <= f.at - 1
    BY <1>0, <1>5, <1>6
  <2>2. \A i \in 1 .. Len(l) : i <= f.at - 1
    BY <1>0, <2>1
  <2>3. \A i \in 2 .. Len(l) - 1 : i + 1 <= f.at - 1
    BY <1>0, <2>1
  <2>q. QED
    BY <2>2, <2>3 DEF CoveredTo, Covered, Contains
<1>q. QED
  BY <1>5, <1>6, <1>7 DEF ReadInv, KernelInv

-----------------------------------------------------------------------------
(* The ids of the possible CPUs                                             *)

Placed == [ok : BOOLEAN, ids : Seq(Ids)]

Increasing(s) == \A i, j \in 1 .. Len(s) : i < j => s[i] < s[j]

(* The numbers of a range, one after the other                              *)
LEMMA NumbersOf ==
  ASSUME NEW r \in Spans, r # Invalid
  PROVE  /\ r.first \in Nat /\ r.last \in Nat /\ r.first <= r.last
         /\ Numbers(r) \in Seq(Ids) /\ Len(Numbers(r)) = r.last - r.first + 1
         /\ Increasing(Numbers(r))
         /\ \A n \in Ids : n \in ToSet(Numbers(r)) <=> r.first <= n /\ n <= r.last
<1> USE CpuListAssumption
<1>1. r.first \in Nat /\ r.last \in Nat /\ r.first <= r.last /\ r.last <= IntMax
  BY DEF Spans
<1> DEFINE m == r.last - r.first + 1
           s == Numbers(r)
<1>2. m \in Nat /\ s = [k \in 1 .. m |-> r.first + k - 1]
  BY <1>1 DEF Numbers
<1>3. \A k \in 1 .. m : r.first + k - 1 \in Ids
  BY <1>1 DEF Ids
<1> HIDE DEF s
<1>4. s \in Seq(Ids) /\ Len(s) = m /\ DOMAIN s = 1 .. m
      /\ \A k \in 1 .. m : s[k] = r.first + k - 1
  BY <1>2, <1>3
<1>5. Increasing(s)
  BY <1>1, <1>2, <1>4 DEF Increasing
<1>6. ASSUME NEW n \in Ids PROVE n \in ToSet(s) <=> r.first <= n /\ n <= r.last
  <2>0. n \in Nat
    BY DEF Ids
  <2>1. ASSUME r.first <= n, n <= r.last PROVE n \in ToSet(s)
    <3>1. n - r.first + 1 \in 1 .. m /\ r.first + (n - r.first + 1) - 1 = n
      BY <1>1, <2>0, <2>1
    <3>2. s[n - r.first + 1] = n
      BY <1>4, <3>1
    <3>q. QED
      BY <1>4, <3>1, <3>2 DEF ToSet
  <2>2. ASSUME n \in ToSet(s) PROVE r.first <= n /\ n <= r.last
    <3>1. PICK k \in 1 .. m : n = s[k]
      BY <1>4, <2>2 DEF ToSet
    <3>q. QED
      BY <1>1, <1>2, <1>4, <3>1
  <2>q. QED
    BY <2>1, <2>2
<1>q. QED
  BY <1>1, <1>4, <1>5, <1>6 DEF s

(* Ascending ids in a set are no more than it has, and as many if they are  *)
(* all of it.                                                               *)
LEMMA CountIncreasing ==
  ASSUME NEW s \in Seq(Ids), Increasing(s), NEW T, IsFiniteSet(T), ToSet(s) \subseteq T
  PROVE  Len(s) <= Cardinality(T) /\ (ToSet(s) = T => Len(s) = Cardinality(T))
<1>0. /\ Len(s) \in Nat /\ DOMAIN s = 1 .. Len(s)
      /\ \A i \in 1 .. Len(s) : s[i] \in Ids /\ s[i] \in Nat
  BY CpuListAssumption DEF Ids
<1>1. \A i \in 1 .. Len(s) : s[i] \in T
  BY <1>0 DEF ToSet
<1>2. s \in [1 .. Len(s) -> T]
  BY <1>0, <1>1
<1>3. \A i, j \in 1 .. Len(s) : s[i] = s[j] => i = j
  BY <1>0 DEF Increasing
<1>4. s \in Injection(1 .. Len(s), T)
  BY <1>2, <1>3 DEF Injection, IsInjective
<1>5. Cardinality(1 .. Len(s)) = Len(s)
  <2>1. 1 \in Int /\ Len(s) \in Int
    BY <1>0
  <2>2. Cardinality(1 .. Len(s)) = IF 1 > Len(s) THEN 0 ELSE Len(s) - 1 + 1
    BY <2>1, FS_Interval
  <2>q. QED
    BY <1>0, <2>2
<1>6. /\ Cardinality(1 .. Len(s)) <= Cardinality(T)
      /\ Cardinality(1 .. Len(s)) = Cardinality(T) <=> s \in Surjection(1 .. Len(s), T)
  BY <1>4, FS_Injection
<1>7. ToSet(s) = T => s \in Surjection(1 .. Len(s), T)
  BY <1>0, <1>2 DEF ToSet, Surjection
<1>q. QED
  BY <1>5, <1>6, <1>7

(* A range that has no room, or is none, ends what is placed                *)
LEMMA PlaceCases ==
  ASSUME NEW f \in Placed, NEW r \in Spans, NEW m \in Nat
  PROVE  \/ /\ f.ok /\ r # Invalid /\ Len(f.ids) + Len(Numbers(r)) <= m
            /\ Place(f, r, m) = [ok |-> TRUE, ids |-> f.ids \o Numbers(r)]
         \/ /\ ~f.ok \/ r = Invalid \/ Len(f.ids) + Len(Numbers(r)) > m
            /\ Place(f, r, m) = [ok |-> FALSE, ids |-> f.ids]
<1>1. f.ok \in BOOLEAN /\ f.ids \in Seq(Ids) /\ Len(f.ids) \in Nat
      /\ f = [ok |-> f.ok, ids |-> f.ids]
  BY DEF Placed
<1>2. CASE f.ok /\ r # Invalid /\ r.last - r.first < m - Len(f.ids)
  <2>1. Place(f, r, m) = [f EXCEPT !.ids = f.ids \o Numbers(r)]
    BY <1>1, <1>2, NumbersOf DEF Place
  <2>2. Place(f, r, m) = [ok |-> TRUE, ids |-> f.ids \o Numbers(r)]
    BY <1>1, <1>2, <2>1 DEF Placed
  <2>3. Len(f.ids) + Len(Numbers(r)) <= m
    BY <1>1, <1>2, NumbersOf
  <2>q. QED
    BY <1>2, <2>2, <2>3
<1>3. CASE ~(f.ok /\ r # Invalid /\ r.last - r.first < m - Len(f.ids))
  <2>1. ~f.ok \/ r = Invalid \/ r.last - r.first >= m - Len(f.ids)
    BY <1>1, <1>3, NumbersOf
  <2>2. Place(f, r, m) = [f EXCEPT !.ok = FALSE]
    BY <2>1 DEF Place
  <2>3. Place(f, r, m) = [ok |-> FALSE, ids |-> f.ids]
    BY <1>1, <2>2 DEF Placed
  <2>4. ~f.ok \/ r = Invalid \/ Len(f.ids) + Len(Numbers(r)) > m
    BY <1>1, <2>1, NumbersOf
  <2>q. QED
    BY <2>3, <2>4
<1>q. QED
  BY <1>2, <1>3

(* Numbers after others                                                     *)
LEMMA AddNumbers ==
  ASSUME NEW s \in Seq(Ids), NEW r \in Spans, r # Invalid
  PROVE  /\ s \o Numbers(r) \in Seq(Ids)
         /\ Len(s \o Numbers(r)) = Len(s) + Len(Numbers(r))
         /\ \A n \in Ids : n \in ToSet(s \o Numbers(r)) <=>
               n \in ToSet(s) \/ (r.first <= n /\ n <= r.last)
         /\ Increasing(s) /\ (\A n \in ToSet(s) : n < r.first) =>
               Increasing(s \o Numbers(r))
<1> DEFINE w == Numbers(r)
           t == s \o w
<1>1. /\ r.first \in Nat /\ w \in Seq(Ids) /\ Increasing(w)
      /\ \A n \in Ids : n \in ToSet(w) <=> r.first <= n /\ n <= r.last
  BY NumbersOf
<1> HIDE DEF w
<1>2. /\ Len(s) \in Nat /\ Len(w) \in Nat /\ t \in Seq(Ids)
      /\ Len(t) = Len(s) + Len(w)
      /\ \A i \in 1 .. Len(t) : t[i] = IF i <= Len(s) THEN s[i] ELSE w[i - Len(s)]
  BY <1>1
<1> HIDE DEF t
<1>3. DOMAIN s = 1 .. Len(s) /\ DOMAIN w = 1 .. Len(w) /\ DOMAIN t = 1 .. Len(t)
  BY <1>1, <1>2
<1>4. \A i \in 1 .. Len(s) : i \in 1 .. Len(t) /\ t[i] = s[i]
  BY <1>2
<1>5. ASSUME NEW i \in 1 .. Len(w)
      PROVE  Len(s) + i \in 1 .. Len(t) /\ t[Len(s) + i] = w[i]
  <2>1. Len(s) + i \in 1 .. Len(t) /\ ~(Len(s) + i <= Len(s)) /\ Len(s) + i - Len(s) = i
    BY <1>2
  <2>q. QED
    BY <1>2, <2>1
<1>6. \A i \in 1 .. Len(t) :
         i \in 1 .. Len(s) \/ (i - Len(s) \in 1 .. Len(w) /\ t[i] = w[i - Len(s)])
  BY <1>2
<1>7. ASSUME NEW n \in Ids PROVE n \in ToSet(t) <=> n \in ToSet(s) \/ n \in ToSet(w)
  <2>1. ASSUME n \in ToSet(t) PROVE n \in ToSet(s) \/ n \in ToSet(w)
    <3>1. PICK i \in 1 .. Len(t) : n = t[i]
      BY <1>3, <2>1 DEF ToSet
    <3>2. CASE i \in 1 .. Len(s)
      BY <1>3, <1>4, <3>1, <3>2 DEF ToSet
    <3>3. CASE i - Len(s) \in 1 .. Len(w) /\ t[i] = w[i - Len(s)]
      BY <1>3, <3>1, <3>3 DEF ToSet
    <3>q. QED
      BY <1>6, <3>2, <3>3
  <2>2. n \in ToSet(s) => n \in ToSet(t)
    BY <1>3, <1>4 DEF ToSet
  <2>3. ASSUME n \in ToSet(w) PROVE n \in ToSet(t)
    <3>1. PICK i \in 1 .. Len(w) : n = w[i]
      BY <1>3, <2>3 DEF ToSet
    <3>q. QED
      BY <1>3, <1>5, <3>1 DEF ToSet
  <2>q. QED
    BY <2>1, <2>2, <2>3
<1>8. ASSUME Increasing(s), \A n \in ToSet(s) : n < r.first PROVE Increasing(t)
  <2> SUFFICES ASSUME NEW i \in 1 .. Len(t), NEW j \in 1 .. Len(t), i < j
               PROVE  t[i] < t[j]
    BY DEF Increasing
  <2>1. CASE j \in 1 .. Len(s)
    BY <1>2, <1>4, <1>8, <2>1 DEF Increasing
  <2>2. CASE i \in 1 .. Len(s) /\ j \notin 1 .. Len(s)
    <3>1. j - Len(s) \in 1 .. Len(w) /\ t[j] = w[j - Len(s)]
      BY <1>6, <2>2
    <3>2. w[j - Len(s)] \in ToSet(w) /\ w[j - Len(s)] \in Ids
      BY <1>1, <1>3, <3>1 DEF ToSet
    <3>3. s[i] \in ToSet(s) /\ s[i] \in Ids /\ t[i] = s[i]
      BY <1>3, <1>4, <2>2 DEF ToSet
    <3>4. s[i] < r.first /\ r.first <= w[j - Len(s)]
      BY <1>1, <1>8, <3>2, <3>3
    <3>5. \A n \in Ids : n \in Nat
      BY CpuListAssumption DEF Ids
    <3>q. QED
      BY <1>1, <3>1, <3>2, <3>3, <3>4, <3>5
  <2>3. CASE i \notin 1 .. Len(s) /\ j \notin 1 .. Len(s)
    <3>1. /\ i - Len(s) \in 1 .. Len(w) /\ t[i] = w[i - Len(s)]
          /\ j - Len(s) \in 1 .. Len(w) /\ t[j] = w[j - Len(s)]
      BY <1>6, <2>3
    <3>2. i - Len(s) < j - Len(s)
      BY <1>2
    <3>q. QED
      BY <1>1, <3>1, <3>2 DEF Increasing
  <2>4. i \notin 1 .. Len(s) => j \notin 1 .. Len(s)
    BY <1>2
  <2>q. QED
    BY <2>1, <2>2, <2>3, <2>4
<1>9. \A n \in Ids : n \in ToSet(t) <=> n \in ToSet(s) \/ (r.first <= n /\ n <= r.last)
  BY <1>1, <1>7
<1>q. QED
  BY <1>2, <1>8, <1>9 DEF t, w

(* What is placed keeps its kind                                            *)
LEMMA PlaceTyped ==
  ASSUME NEW f \in Placed, NEW r \in Spans, NEW m \in Nat
  PROVE  Place(f, r, m) \in Placed
<1>1. f.ids \in Seq(Ids)
  BY DEF Placed
<1>2. ASSUME NEW b \in BOOLEAN, NEW s \in Seq(Ids) PROVE [ok |-> b, ids |-> s] \in Placed
  BY DEF Placed
<1>3. CASE r # Invalid /\ Place(f, r, m) = [ok |-> TRUE, ids |-> f.ids \o Numbers(r)]
  <2>1. f.ids \o Numbers(r) \in Seq(Ids)
    BY <1>1, <1>3, AddNumbers
  <2>q. QED
    BY <1>2, <1>3, <2>1
<1>4. CASE Place(f, r, m) = [ok |-> FALSE, ids |-> f.ids]
  BY <1>1, <1>2, <1>4
<1>q. QED
  BY <1>3, <1>4, PlaceCases

(* The loop over the ranges: the states of its turns                        *)
LEMMA PlacesLoop ==
  ASSUME NEW l \in Seq(Tokens), NEW m \in Nat
  PROVE  \E found \in [0 .. Len(Ranges(l)) -> Placed] :
            /\ found[0] = [ok |-> TRUE, ids |-> <<>>]
            /\ \A k \in 1 .. Len(Ranges(l)) :
                  found[k] = Place(found[k - 1], Ranges(l)[k], m)
            /\ PossibleIds(l, m) =
                  [ok |-> found[Len(Ranges(l))].ok
                          /\ Len(found[Len(Ranges(l))].ids) = m,
                   ids |-> found[Len(Ranges(l))].ids]
<1> DEFINE R == Ranges(l)
           a == [ok |-> TRUE, ids |-> <<>>]
           Turn(k, f) == Place(f, R[k], m)
           F == [x \in Nat \X Placed |->
                   IF x[1] \in 1 .. Len(R) THEN Turn(x[1], x[2]) ELSE x[2]]
           Body(h) == [k \in 0 .. Len(R) |-> IF k = 0 THEN a ELSE Turn(k, h[k - 1])]
           found == CHOOSE h : h = Body(h)
           all == found[Len(R)]
<1>0. R \in Seq(Spans) /\ Len(R) \in Nat /\ a \in Placed
  BY RangesExact DEF Placed
<1>1. PossibleIds(l, m) = [all EXCEPT !.ok = all.ok /\ Len(all.ids) = m]
  BY DEF PossibleIds
<1> HIDE DEF R
<1>2. ASSUME NEW k \in 1 .. Len(R), NEW f \in Placed PROVE Turn(k, f) \in Placed
  <2>1. R[k] \in Spans
    BY <1>0
  <2>q. QED
    BY <2>1, PlaceTyped
<1> HIDE DEF Turn
<1>3. F \in [Nat \X Placed -> Placed]
  BY <1>2
<1>4. PICK g \in [0 .. Len(R) -> Placed] :
         g[0] = a /\ \A k \in 1 .. Len(R) : g[k] = F[<<k, g[k - 1]>>]
  <2> HIDE DEF F, a
  <2>1. Loops(Placed, a, F, Len(R)) # {}
    BY <1>0, <1>3, LoopExists
  <2>q. QED
    BY <2>1 DEF Loops
<1>5. ASSUME NEW k \in 1 .. Len(R) PROVE g[k] = Turn(k, g[k - 1])
  <2>1. k \in Nat /\ g[k - 1] \in Placed
    BY <1>0, <1>4
  <2>q. QED
    BY <1>4, <2>1
<1>6. g = Body(g)
  <2> HIDE DEF a
  <2>1. \A k \in 0 .. Len(R) : g[k] = IF k = 0 THEN a ELSE Turn(k, g[k - 1])
    BY <1>0, <1>4, <1>5
  <2>q. QED
    BY <1>4, <2>1
<1>7. found = Body(found)
  <2> HIDE DEF Body
  <2>q. QED
    BY <1>6
<1> HIDE DEF found
<1>8. /\ DOMAIN found = 0 .. Len(R)
      /\ found[0] = a
      /\ \A k \in 1 .. Len(R) : found[k] = Turn(k, found[k - 1])
  <2> HIDE DEF a
  <2>1. DOMAIN found = 0 .. Len(R)
    BY <1>7
  <2>2. \A k \in 0 .. Len(R) : found[k] = IF k = 0 THEN a ELSE Turn(k, found[k - 1])
    BY <1>7
  <2>q. QED
    BY <1>0, <2>1, <2>2
<1> DEFINE S == {n \in Nat : n <= Len(R) => found[n] \in Placed}
<1>9. 0 \in S
  BY <1>0, <1>8
<1>10. ASSUME NEW n \in Nat, n \in S PROVE n + 1 \in S
  <2>1. ASSUME n + 1 <= Len(R) PROVE found[n + 1] \in Placed
    <3>1. n <= Len(R) /\ n + 1 \in 1 .. Len(R) /\ n + 1 - 1 = n
      BY <1>0, <2>1
    <3>2. found[n + 1] = Turn(n + 1, found[n]) /\ found[n] \in Placed
      BY <1>8, <1>10, <3>1
    <3>q. QED
      BY <1>2, <3>1, <3>2
  <2>q. QED
    BY <2>1
<1>11. \A n \in Nat : n \in S
  <2> HIDE DEF S
  <2>q. QED
    BY <1>9, <1>10, AllNaturals
<1>12. found \in [0 .. Len(R) -> Placed]
  <2>1. \A k \in 0 .. Len(R) : found[k] \in Placed
    BY <1>0, <1>11
  <2>q. QED
    BY <1>7, <2>1
<1>13. PossibleIds(l, m) = [ok |-> all.ok /\ Len(all.ids) = m, ids |-> all.ids]
  <2>1. all \in Placed
    BY <1>0, <1>12
  <2>q. QED
    BY <1>1, <2>1 DEF Placed
<1>q. QED
  BY <1>8, <1>12, <1>13 DEF R, Turn

(* The ids placed are the numbers of the ranges read, until one has no room *)
PlacedInv(R, m, k, f) ==
  /\ Len(f.ids) <= m
  /\ f.ok => \A j \in 1 .. k : R[j] # Invalid
  /\ f.ok => \A n \in Ids : n \in ToSet(f.ids) <=>
                \E j \in 1 .. k : R[j].first <= n /\ n <= R[j].last
  /\ Ascending(R) /\ ~Contains(R, Invalid) =>
        /\ Increasing(f.ids)
        /\ \A n \in ToSet(f.ids) : \E j \in 1 .. k : R[j].first <= n /\ n <= R[j].last
        /\ ~f.ok => Cardinality(InRanges(R)) > m

(* A turn keeps to that                                                     *)
LEMMA PlaceKeeps ==
  ASSUME NEW R \in Seq(Spans), NEW m \in Nat, NEW k \in Nat, k + 1 <= Len(R),
         NEW f \in Placed, PlacedInv(R, m, k, f)
  PROVE  PlacedInv(R, m, k + 1, Place(f, R[k + 1], m))
<1> DEFINE r == R[k + 1]
           t == f.ids \o Numbers(r)
           g == Place(f, r, m)
<1>0. /\ Len(R) \in Nat /\ k + 1 \in 1 .. Len(R) /\ r \in Spans
      /\ 1 .. k + 1 = (1 .. k) \cup {k + 1} /\ \A j \in 1 .. k : j \in 1 .. Len(R)
      /\ f.ids \in Seq(Ids) /\ f.ok \in BOOLEAN
  BY DEF Placed
<1>1. \A n \in Ids : n \in Nat
  BY CpuListAssumption DEF Ids
<1>2. \A n \in ToSet(f.ids) : n \in Ids
  BY <1>0 DEF ToSet
<1>3. \A n \in Ids :
         (\E j \in 1 .. k + 1 : R[j].first <= n /\ n <= R[j].last) <=>
            \/ \E j \in 1 .. k : R[j].first <= n /\ n <= R[j].last
            \/ r.first <= n /\ n <= r.last
  BY <1>0
<1>4. ASSUME Ascending(R), ~Contains(R, Invalid)
      PROVE  /\ r # Invalid /\ t \in Seq(Ids) /\ Increasing(t)
             /\ \A n \in ToSet(t) : n \in Ids
             /\ \A n \in ToSet(t) : \E j \in 1 .. k + 1 : R[j].first <= n /\ n <= R[j].last
  <2>1. DOMAIN R = 1 .. Len(R)
    BY <1>0
  <2>2. r # Invalid
    BY <1>0, <1>4, <2>1 DEF Contains
  <2>3. ASSUME NEW n \in ToSet(f.ids) PROVE n < r.first
    <3>1. PICK j \in 1 .. k : R[j].first <= n /\ n <= R[j].last
      BY <1>4, <2>3 DEF PlacedInv
    <3>2. R[j].last < R[k + 1].first
      BY <1>0, <1>4 DEF Ascending
    <3>3. R[j].last \in Nat /\ r.first \in Nat /\ n \in Nat
      <4>1. R[j] \in Spans /\ r \in Spans /\ n \in Nat
        BY <1>0, <1>1, <1>2, <2>3
      <4>2. \A x \in Spans : x.first \in Nat /\ x.last \in Nat
        BY DEF Spans
      <4>q. QED
        BY <4>1, <4>2
    <3>q. QED
      BY <3>1, <3>2, <3>3
  <2>4. Increasing(f.ids)
    BY <1>4 DEF PlacedInv
  <2>5. /\ t \in Seq(Ids) /\ Increasing(t)
        /\ \A n \in Ids : n \in ToSet(t) <=>
              n \in ToSet(f.ids) \/ (r.first <= n /\ n <= r.last)
    BY <1>0, <2>2, <2>3, <2>4, AddNumbers
  <2>6. \A n \in ToSet(t) : n \in Ids
    <3> HIDE DEF t
    <3>q. QED
      BY <2>5 DEF ToSet
  <2>7. ASSUME NEW n \in ToSet(t)
        PROVE  \E j \in 1 .. k + 1 : R[j].first <= n /\ n <= R[j].last
    <3> HIDE DEF t, r
    <3>1. n \in Ids
      BY <2>6
    <3>2. n \in ToSet(f.ids) => \E j \in 1 .. k : R[j].first <= n /\ n <= R[j].last
      BY <1>4 DEF PlacedInv
    <3>q. QED
      BY <1>3, <2>5, <3>1, <3>2
  <2>q. QED
    BY <2>2, <2>5, <2>6, <2>7
<1>5. CASE /\ f.ok /\ r # Invalid /\ Len(f.ids) + Len(Numbers(r)) <= m
           /\ g = [ok |-> TRUE, ids |-> t]
  <2>1. /\ t \in Seq(Ids) /\ Len(t) = Len(f.ids) + Len(Numbers(r))
        /\ \A n \in Ids : n \in ToSet(t) <=>
              n \in ToSet(f.ids) \/ (r.first <= n /\ n <= r.last)
    BY <1>0, <1>5, AddNumbers
  <2>2. g.ok = TRUE /\ g.ids = t
    <3> HIDE DEF g, t
    <3>q. QED
      BY <1>5
  <2>3. \A j \in 1 .. k + 1 : R[j] # Invalid
    BY <1>0, <1>5 DEF PlacedInv
  <2>4. \A n \in Ids : n \in ToSet(f.ids) <=>
           \E j \in 1 .. k : R[j].first <= n /\ n <= R[j].last
    BY <1>5 DEF PlacedInv
  <2>5. Len(t) <= m
    BY <1>5, <2>1
  <2> HIDE DEF g, t, r
  <2>6. \A n \in Ids : n \in ToSet(t) <=>
           \E j \in 1 .. k + 1 : R[j].first <= n /\ n <= R[j].last
    BY <1>3, <2>1, <2>4
  <2>7. PlacedInv(R, m, k + 1, g)
    BY <1>4, <2>2, <2>3, <2>5, <2>6 DEF PlacedInv
  <2>q. QED
    BY <2>7 DEF g, r
<1>6. CASE /\ ~f.ok \/ r = Invalid \/ Len(f.ids) + Len(Numbers(r)) > m
           /\ g = [ok |-> FALSE, ids |-> f.ids]
  <2>1. g.ok = FALSE /\ g.ids = f.ids
    BY <1>6
  <2>2. ASSUME Ascending(R), ~Contains(R, Invalid)
        PROVE  /\ Increasing(f.ids)
               /\ \A n \in ToSet(f.ids) :
                     \E j \in 1 .. k + 1 : R[j].first <= n /\ n <= R[j].last
               /\ Cardinality(InRanges(R)) > m
    <3>1. /\ Increasing(f.ids) /\ (~f.ok => Cardinality(InRanges(R)) > m)
          /\ \A n \in ToSet(f.ids) :
                \E j \in 1 .. k : R[j].first <= n /\ n <= R[j].last
      BY <2>2 DEF PlacedInv
    <3>2. ASSUME f.ok PROVE Cardinality(InRanges(R)) > m
      <4>1. r # Invalid /\ Len(f.ids) + Len(Numbers(r)) > m
        BY <1>4, <1>6, <2>2, <3>2
      <4>2. Len(t) = Len(f.ids) + Len(Numbers(r)) /\ t \in Seq(Ids)
        BY <1>0, <4>1, AddNumbers
      <4>3. /\ Increasing(t) /\ \A n \in ToSet(t) : n \in Ids
            /\ \A n \in ToSet(t) : \E j \in 1 .. k + 1 : R[j].first <= n /\ n <= R[j].last
        BY <1>4, <2>2
      <4> HIDE DEF t, r
      <4>4. ToSet(t) \subseteq InRanges(R)
        BY <1>0, <4>3 DEF InRanges
      <4>5. IsFiniteSet(InRanges(R))
        <5>1. IsFiniteSet(0 .. IntMax)
          BY CpuListAssumption, FS_Interval
        <5>2. InRanges(R) \subseteq 0 .. IntMax
          BY DEF InRanges, Ids
        <5>q. QED
          BY <5>1, <5>2, FS_Subset
      <4>6. Len(t) <= Cardinality(InRanges(R))
        BY <4>2, <4>3, <4>4, <4>5, CountIncreasing
      <4>7. Cardinality(InRanges(R)) \in Nat /\ Len(t) \in Nat
        BY <4>2, <4>5, FS_CardinalityType
      <4>q. QED
        BY <4>1, <4>2, <4>6, <4>7
    <3>q. QED
      BY <1>0, <3>1, <3>2
  <2>3. Len(f.ids) <= m
    BY DEF PlacedInv
  <2> HIDE DEF g
  <2>4. PlacedInv(R, m, k + 1, g)
    BY <2>1, <2>2, <2>3 DEF PlacedInv
  <2>q. QED
    BY <2>4 DEF g
<1>q. QED
  BY <1>0, <1>5, <1>6, PlaceCases

(* possible_cpu_ids: what it writes fits, what it accepts is what the line  *)
(* covers, and it accepts what the kernel prints for as many CPUs.          *)
LEMMA PossibleExact ==
  ASSUME NEW l \in Seq(Tokens), NEW m \in Nat
  PROVE  LET p == PossibleIds(l, m) IN
         /\ p.ids \in Seq(Ids) /\ Len(p.ids) <= m
         /\ p.ok => ToSet(p.ids) = Covered(l) /\ Len(p.ids) = m
         /\ KernelLine(l) =>
               p.ok = (Cardinality(Covered(l)) = m) /\ Increasing(p.ids)
<1> DEFINE R == Ranges(l)
           p == PossibleIds(l, m)
<1>0. /\ R \in Seq(Spans) /\ Len(R) \in Nat
      /\ ~Contains(R, Invalid) => InRanges(R) = Covered(l)
      /\ KernelLine(l) => ~Contains(R, Invalid) /\ Ascending(R)
  BY RangesExact
<1>1. PICK found \in [0 .. Len(R) -> Placed] :
         /\ found[0] = [ok |-> TRUE, ids |-> <<>>]
         /\ \A k \in 1 .. Len(R) : found[k] = Place(found[k - 1], R[k], m)
         /\ p = [ok |-> found[Len(R)].ok /\ Len(found[Len(R)].ids) = m,
                 ids |-> found[Len(R)].ids]
  BY PlacesLoop
<1> HIDE DEF R, p
<1> DEFINE S == {n \in Nat : n <= Len(R) => PlacedInv(R, m, n, found[n])}
<1>2. 0 \in S
  <2>1. found[0].ok = TRUE /\ found[0].ids = <<>> /\ Len(<<>>) = 0 /\ 1 .. 0 = {}
    BY <1>1
  <2>2. ToSet(<<>>) = {} /\ Increasing(<<>>)
    BY <2>1 DEF ToSet, Increasing
  <2>3. PlacedInv(R, m, 0, found[0])
    BY <2>1, <2>2 DEF PlacedInv
  <2>q. QED
    BY <2>3
<1>3. ASSUME NEW n \in Nat, n \in S PROVE n + 1 \in S
  <2>1. ASSUME n + 1 <= Len(R) PROVE PlacedInv(R, m, n + 1, found[n + 1])
    <3>1. /\ n <= Len(R) /\ n + 1 \in 1 .. Len(R) /\ n + 1 - 1 = n
          /\ n \in 0 .. Len(R)
      BY <1>0, <2>1
    <3>2. /\ found[n + 1] = Place(found[n], R[n + 1], m) /\ found[n] \in Placed
          /\ PlacedInv(R, m, n, found[n])
      BY <1>1, <1>3, <3>1
    <3>q. QED
      BY <1>0, <2>1, <3>2, PlaceKeeps
  <2>q. QED
    BY <2>1
<1>4. \A n \in Nat : n \in S
  <2> HIDE DEF S
  <2>q. QED
    BY <1>2, <1>3, AllNaturals
<1> DEFINE f == found[Len(R)]
<1>5. PlacedInv(R, m, Len(R), f) /\ f \in Placed
  BY <1>0, <1>1, <1>4
<1>6. p = [ok |-> f.ok /\ Len(f.ids) = m, ids |-> f.ids]
  BY <1>1
<1> HIDE DEF f
<1>7. f.ids \in Seq(Ids) /\ p.ids = f.ids /\ p.ok = (f.ok /\ Len(f.ids) = m)
      /\ p.ok \in BOOLEAN /\ f.ok \in BOOLEAN /\ Len(f.ids) \in Nat
  BY <1>5, <1>6 DEF Placed
<1>8. Len(f.ids) <= m
  BY <1>5 DEF PlacedInv
<1>9. ASSUME f.ok PROVE ToSet(f.ids) = Covered(l) /\ InRanges(R) = Covered(l)
  <2>1. ~Contains(R, Invalid)
    <3>1. DOMAIN R = 1 .. Len(R)
      BY <1>0
    <3>q. QED
      BY <1>5, <1>9, <3>1 DEF PlacedInv, Contains
  <2>2. \A n \in Ids : n \in ToSet(f.ids) <=>
           \E j \in 1 .. Len(R) : R[j].first <= n /\ n <= R[j].last
    BY <1>5, <1>9 DEF PlacedInv
  <2>3. ToSet(f.ids) \subseteq Ids
    BY <1>7 DEF ToSet
  <2>4. ToSet(f.ids) = InRanges(R)
    BY <2>2, <2>3 DEF InRanges
  <2>q. QED
    BY <1>0, <2>1, <2>4
<1>10. ASSUME KernelLine(l)
       PROVE  p.ok = (Cardinality(Covered(l)) = m) /\ Increasing(f.ids)
  <2>1. /\ Increasing(f.ids) /\ InRanges(R) = Covered(l)
        /\ ~f.ok => Cardinality(Covered(l)) > m
    BY <1>0, <1>5, <1>10 DEF PlacedInv
  <2>2. IsFiniteSet(Covered(l))
    <3>1. IsFiniteSet(0 .. IntMax)
      BY CpuListAssumption, FS_Interval
    <3>2. Covered(l) \subseteq 0 .. IntMax
      BY DEF Covered, Ids
    <3>q. QED
      BY <3>1, <3>2, FS_Subset
  <2>3. Cardinality(Covered(l)) \in Nat
    BY <2>2, FS_CardinalityType
  <2>4. f.ok => Len(f.ids) = Cardinality(Covered(l))
    BY <1>7, <1>9, <2>1, <2>2, CountIncreasing
  <2>q. QED
    BY <1>7, <2>1, <2>3, <2>4
<1>q. QED
  BY <1>7, <1>8, <1>9, <1>10 DEF p

(* online_cpus: the slots of an accepted line are those of the CPUs that it *)
(* covers, and what the kernel prints is accepted.                          *)
LEMMA OnlineExact ==
  ASSUME NEW l \in Seq(Tokens), NEW given \in Seq(Ids)
  PROVE  /\ OnlineSlots(l, given).ok =>
               OnlineSlots(l, given).slots = {k \in DOMAIN given : given[k] \in Covered(l)}
         /\ KernelLine(l) => OnlineSlots(l, given).ok
<1> DEFINE R == Ranges(l)
<1>1. /\ R \in Seq(Spans)
      /\ ~Contains(R, Invalid) => InRanges(R) = Covered(l)
      /\ KernelLine(l) => ~Contains(R, Invalid)
  BY RangesExact
<1>2. /\ OnlineSlots(l, given).ok = ~Contains(R, Invalid)
      /\ OnlineSlots(l, given).slots =
            {k \in DOMAIN given : \E j \in DOMAIN R : given[k] \in R[j].first .. R[j].last}
  BY DEF OnlineSlots
<1> HIDE DEF R
<1>3. ASSUME NEW k \in DOMAIN given
      PROVE  (\E j \in DOMAIN R : given[k] \in R[j].first .. R[j].last)
                <=> given[k] \in InRanges(R)
  <2>1. given[k] \in Ids /\ given[k] \in Nat /\ DOMAIN R = 1 .. Len(R)
    BY <1>1, CpuListAssumption DEF Ids
  <2>2. \A j \in 1 .. Len(R) : R[j].first \in Nat /\ R[j].last \in Nat
    <3>1. \A j \in 1 .. Len(R) : R[j] \in Spans
      BY <1>1
    <3>q. QED
      BY <3>1 DEF Spans
  <2>3. \A j \in 1 .. Len(R) : given[k] \in R[j].first .. R[j].last <=>
           R[j].first <= given[k] /\ given[k] <= R[j].last
    BY <2>1, <2>2
  <2>q. QED
    BY <2>1, <2>3 DEF InRanges
<1>q. QED
  BY <1>1, <1>2, <1>3

-----------------------------------------------------------------------------
(* The lists that main reads                                                *)

(* At the start nothing has been read                                       *)
LEMMA ListsStart == LifeInit => ListsInv
<1>1. <<>> \in Seq(Ids) /\ Len(<<>>) = 0
  OBVIOUS
<1>q. QED
  BY <1>1 DEF LifeInit, ListsInv, ListsExact

(* Where main has gone on from a reading, or has not come to one            *)
LEMMA ListsElsewhere ==
  ASSUME ListsInv, UNCHANGED <<count, ids>>,
         pc' \notin {"possible_read", "online_read"},
         pc' \in {"int", "term", "open", "load", "find", "attach", "map"} =>
            pc \in {"int", "term", "open", "load", "find", "attach", "map"}
  PROVE  ListsInv'
BY DEF ListsInv, ListsExact

(* A step of either program keeps what was read exact                       *)
LEMMA ListsStep == ListsInv /\ [LifeNext]_lifeVars => ListsInv'
<1> SUFFICES ASSUME ListsInv, [LifeNext]_lifeVars PROVE ListsInv'
  OBVIOUS
<1>1. CASE FindMap
  <2>1. /\ ids = <<>> /\ ids' = ids /\ count \in Nat /\ pc = "map"
        /\ pc' \in {"alloc", "release"}
        /\ count' = count \/ count' \in 0 .. MaxCount
    BY <1>1 DEF FindMap, Refuse, Go, ListsInv
  <2>2. count' \in Nat /\ Len(ids') = 0 /\ ids' \in Seq(Ids)
    BY <2>1, ToolAssumption
  <2>q. QED
    BY <2>1, <2>2 DEF ListsInv, ListsExact
<1>2. CASE ReadPossible
  <2>1. PICK l \in Lines : /\ line' = l
                           /\ ids' = PossibleIds(l, count).ids
                           /\ accepted' = PossibleIds(l, count).ok
    BY <1>2 DEF ReadPossible
  <2>2. /\ count' = count /\ count \in Nat /\ pc' = "possible_read"
        /\ l \in Seq(Tokens)
    BY <1>2, ToolAssumption DEF ReadPossible, Go, ListsInv
  <2>3. /\ ids' \in Seq(Ids) /\ Len(ids') <= count'
        /\ accepted' => ToSet(ids') = Covered(line') /\ Len(ids') = count'
        /\ KernelLine(line') =>
              accepted' = (Cardinality(Covered(line')) = count') /\ Increasing(ids')
    BY <2>1, <2>2, PossibleExact
  <2>4. DOMAIN ids' = 1 .. Len(ids')
    BY <2>3
  <2>q. QED
    BY <2>2, <2>3, <2>4 DEF ListsInv, ListsExact, Increasing
<1>3. CASE ReadOnline
  <2>1. PICK l \in Lines : /\ line' = l
                           /\ slots' = OnlineSlots(l, ids).slots
                           /\ accepted' = OnlineSlots(l, ids).ok
    BY <1>3 DEF ReadOnline
  <2>2. /\ UNCHANGED <<count, ids>> /\ ids \in Seq(Ids) /\ pc' = "online_read"
        /\ l \in Seq(Tokens)
    BY <1>3, ToolAssumption DEF ReadOnline, Go, ListsInv
  <2>3. /\ accepted' => slots' = {k \in DOMAIN ids' : ids'[k] \in Covered(line')}
        /\ KernelLine(line') => accepted'
    BY <2>1, <2>2, OnlineExact
  <2>q. QED
    BY <2>2, <2>3 DEF ListsInv, ListsExact
<1>4. CASE \/ Install \/ Acquire("open", "object", "load") \/ Prepare("load", "find")
           \/ Prepare("find", "attach") \/ Acquire("attach", "link", "map")
  <2>1. UNCHANGED <<count, ids>>
    BY <1>4 DEF Install, Acquire, Prepare, cpus
  <2>2. /\ pc \in {"int", "term", "open", "load", "find", "attach", "map"}
        /\ pc' \in {"term", "open", "load", "find", "attach", "map", "release"}
    BY <1>4 DEF Install, Acquire, Prepare, Go, Refuse
  <2>q. QED
    BY <2>1, <2>2, ListsElsewhere
<1>5. CASE \/ Allocate \/ TestList("possible", "possible_read", "loop") \/ Loop
           \/ TestList("online", "online_read", "read") \/ Read \/ Output \/ TestSleep
           \/ Sleep \/ Timer \/ Woken \/ Release \/ Return
  <2>1. UNCHANGED <<count, ids>>
    BY <1>5 DEF Allocate, TestList, Loop, Read, Output, TestSleep, Sleep, Timer,
       Woken, Release, Return, cpus
  <2>2. pc' \in {"loop", "possible", "online", "sleep", "read", "emit", "crashed",
                 "test", "asleep", "woken", "release", "end"}
    BY <1>5 DEF Allocate, TestList, Loop, Read, Output, TestSleep, Sleep, Timer,
       Woken, Release, Return, Go, Refuse
  <2>q. QED
    BY <2>1, <2>2, ListsElsewhere
<1>6. CASE (\E s \in Signals : Signal(s)) \/ UNCHANGED lifeVars
  <2>1. UNCHANGED <<count, ids, slots, line, accepted>>
    BY <1>6 DEF Signal, lifeVars, cpus, list
  <2>2. pc' = pc \/ pc' \in {"test", "woken", "killed"}
    BY <1>6 DEF Signal, lifeVars
  <2>3. CASE pc' = pc
    BY <2>1, <2>3 DEF ListsInv, ListsExact
  <2>q. QED
    BY <2>1, <2>2, <2>3, ListsElsewhere
<1>q. QED
  BY <1>1, <1>2, <1>3, <1>4, <1>5, <1>6 DEF LifeNext, Main, LifeFinished

(* Both programs: what is taken from a line of /sys is what the line        *)
(* covers, within the buffer; what the kernel prints is accepted, and gives *)
(* the slots of the map in the order of the CPUs.                           *)
THEOREM ListsRead == LifeSpec => []ListsExact
<1>1. ListsInv => ListsExact
  BY DEF ListsInv
<1>q. QED
  BY <1>1, ListsStart, ListsStep, PTL DEF LifeSpec
=============================================================================
