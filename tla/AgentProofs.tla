---------------------------- MODULE AgentProofs ----------------------------
(***************************************************************************)
(* The schedule of _run, and the process of agent.py around it: its worker *)
(* is that of Scheduler, and its exit status and its retries are right,    *)
(* for every interval, length of cycle, timeout and delay.                 *)
(***************************************************************************)
EXTENDS Agent, TLAPS

-----------------------------------------------------------------------------
(* The schedule *)

(* How many whole intervals a delay holds *)
LEMMA WholeIntervals ==
    ASSUME NEW delay \in Nat
    PROVE  /\ delay \div Interval \in Nat
           /\ (delay \div Interval) * Interval <= delay
           /\ delay < (delay \div Interval) * Interval + Interval
BY SchedulerAssumption, SMTT(30)

(* One more interval                                                        *)
LEMMA OneMore ==
    ASSUME NEW k \in Nat
    PROVE  /\ (k + 1) * Interval = k * Interval + Interval
           /\ k * Interval \in Nat
BY SchedulerAssumption

(* Slots counted from another slot                                          *)
LEMMA SumOfSlots ==
    ASSUME NEW k \in Nat, NEW m \in Nat
    PROVE  (k + m) * Interval = k * Interval + m * Interval
BY SchedulerAssumption

(* A number is at most any multiple of it *)
LEMMA AtMostMultiple ==
    ASSUME NEW k \in Nat
    PROVE  k <= k * Interval
BY SchedulerAssumption

(* The next slot for every slot already used and every end of a cycle: it   *)
(* is on the grid, it is not passed, it is the following one or one that is *)
(* at most an interval later than the end of the cycle.                     *)
THEOREM NextSlotIsNext ==
    ASSUME NEW slot \in Nat, NEW time \in Nat, OnGrid(slot), slot <= time
    PROVE  /\ NextSlot(slot, time) \in Nat
           /\ OnGrid(NextSlot(slot, time))
           /\ time <= NextSlot(slot, time)
           /\ NextSlot(slot, time) <= time + Interval
           /\ slot + Interval <= NextSlot(slot, time)
           /\ \/ NextSlot(slot, time) = slot + Interval
              \/ NextSlot(slot, time) - Interval <= time
<1> DEFINE next == slot + Interval
           m == (time - next) \div Interval
<1>1. PICK k \in 0 .. slot : slot = k * Interval
  BY DEF OnGrid
<1>2. Interval \in Nat \ {0} /\ next \in Nat /\ next = (k + 1) * Interval
  BY <1>1, OneMore, SchedulerAssumption
<1>3. CASE ~(next < time)
  <2>1. NextSlot(slot, time) = next
    BY <1>3 DEF NextSlot
  <2>2. OnGrid(next)
    BY <1>1, <1>2, AtMostMultiple DEF OnGrid
  <2> QED BY <1>2, <1>3, <2>1, <2>2
<1>4. CASE next < time
  <2>1. NextSlot(slot, time) = next + (m + 1) * Interval
    BY <1>4 DEF NextSlot
  <2>2. /\ m \in Nat /\ m * Interval \in Nat
        /\ m * Interval <= time - next
        /\ time - next < m * Interval + Interval
    <3>1. time - next \in Nat
      BY <1>2, <1>4
    <3>2. m \in Nat /\ m * Interval <= time - next
          /\ time - next < m * Interval + Interval
      BY <3>1, WholeIntervals
    <3> QED BY <3>2, OneMore
  <2>3. (m + 1) * Interval = m * Interval + Interval
    BY <2>2, OneMore
  <2> DEFINE far == next + (m + 1) * Interval
  <2>4. far = next + m * Interval + Interval
    BY <1>2, <2>2, <2>3
  <2>5. far \in Nat /\ time <= far /\ far - Interval <= time /\ next <= far
    <3> HIDE DEF far, next, m
    <3> QED BY <1>2, <1>4, <2>2, <2>4
  <2>6. OnGrid(far)
    <3>1. (k + 1 + (m + 1)) * Interval = far
      BY <1>1, <1>2, <2>2, SumOfSlots
    <3>2. k + 1 + (m + 1) \in 0 .. far
      BY <1>1, <2>2, <3>1, AtMostMultiple
    <3> HIDE DEF far, m
    <3> QED BY <3>1, <3>2, Zenon DEF OnGrid
  <2>7. NextSlot(slot, time) = far
    BY <2>1
  <2> HIDE DEF far
  <2> QED BY <1>2, <2>5, <2>6, <2>7
<1> QED BY <1>3, <1>4

(* The worker's slots, whatever the lengths of the cycles and the delays    *)
THEOREM ScheduleInvariant == Spec => []SInv
<1>1. Init => SInv
  <2>1. 0 * Interval = 0 /\ 0 \in 0 .. 0
    BY SchedulerAssumption
  <2>2. OnGrid(0)
    BY <2>1, Zenon DEF OnGrid
  <2>3. Init => NoDrift
    BY <2>2, Zenon DEF Init, NoDrift
  <2>4. Init => TypeOK
    <3>1. 0 \in 0 .. MaxTime /\ 0 \in Nat
      BY SchedulerAssumption
    <3> QED BY <3>1, Zenon DEF Init, TypeOK
  <2> QED BY <2>3, <2>4 DEF Init, SInv, NoBacklog, NeverEarly
<1>2. SInv /\ [Next]_vars => SInv'
  <2> SUFFICES ASSUME SInv, [Next]_vars
               PROVE  SInv'
    OBVIOUS
  <2> USE SchedulerAssumption
  <2>1. CASE Tick
    BY <2>1 DEF Tick, SInv, TypeOK, NoDrift, OnGrid, NoBacklog, NeverEarly
  <2>2. CASE Stop
    BY <2>2 DEF Stop, SInv, TypeOK, NoDrift, OnGrid, NoBacklog, NeverEarly
  <2>3. CASE Check
    BY <2>3 DEF Check, SInv, TypeOK, NoDrift, OnGrid, NoBacklog, NeverEarly
  <2>4. CASE EndCycle
    <3>1. deadline \in Nat /\ clock \in Nat /\ OnGrid(deadline) /\ deadline <= clock
      BY <2>4 DEF EndCycle, SInv, TypeOK, NoDrift, NeverEarly
    <3>2. /\ deadline' \in Nat /\ OnGrid(deadline')
          /\ clock <= deadline' /\ deadline' <= clock + Interval
      BY <2>4, <3>1, NextSlotIsNext DEF EndCycle
    <3> QED BY <2>4, <3>2 DEF EndCycle, SInv, TypeOK, NoDrift, NoBacklog, NeverEarly
  <2>5. CASE Wake
    BY <2>5 DEF Wake, SInv, TypeOK, NoDrift, OnGrid, NoBacklog, NeverEarly
  <2>6. CASE UNCHANGED vars
    BY <2>6 DEF vars, SInv, TypeOK, NoDrift, OnGrid, NoBacklog, NeverEarly
  <2>7. CASE Die
    BY <2>7 DEF Die, SInv, TypeOK, NoDrift, OnGrid, NoBacklog, NeverEarly
  <2> QED BY <2>1, <2>2, <2>3, <2>4, <2>5, <2>6, <2>7 DEF Next, Finished
<1> QED BY <1>1, <1>2, PTL DEF Spec

(* The variables of the schedule keep their types, the deadline never       *)
(* going below 0                                                            *)
THEOREM ScheduleTyped == Spec => []TypeOK
<1>1. SInv => TypeOK
  BY DEF SInv
<1> QED BY <1>1, ScheduleInvariant, PTL

(* No drift and no backlog: collections keep to the grid and none is owed   *)
THEOREM SlotsKept == Spec => []OnSchedule
<1>1. SInv => OnSchedule
  BY DEF SInv, OnSchedule
<1> QED BY <1>1, ScheduleInvariant, PTL

(* No collection begins before its slot, not even when a stop cuts the      *)
(* sleep short                                                              *)
THEOREM NoneEarly == Spec => []NeverEarly
<1>1. SInv => NeverEarly
  BY DEF SInv
<1> QED BY <1>1, ScheduleInvariant, PTL

(* Every cycle gets a slot of its own, and none that was to come is skipped *)
THEOREM SlotsAdvance == Spec => SlotsInOrder
<1> DEFINE Advances == mode = "cycle" /\ mode' = "sleep" =>
                         /\ deadline + Interval <= deadline'
                         /\ \/ deadline' = deadline + Interval
                            \/ deadline' - Interval <= clock
<1>1. SInv /\ [Next]_vars => [Advances]_vars
  <2> SUFFICES ASSUME SInv, Next, mode = "cycle", mode' = "sleep"
               PROVE  /\ deadline + Interval <= deadline'
                      /\ \/ deadline' = deadline + Interval
                         \/ deadline' - Interval <= clock
    OBVIOUS
  <2>1. EndCycle
    BY DEF Next, Tick, Stop, Check, Wake, Die, Finished, vars
  <2>2. deadline \in Nat /\ clock \in Nat /\ OnGrid(deadline) /\ deadline <= clock
    BY DEF SInv, TypeOK, NoDrift, NeverEarly
  <2> QED BY <2>1, <2>2, NextSlotIsNext DEF EndCycle
<1> QED BY <1>1, ScheduleInvariant, PTL DEF Spec, SlotsInOrder

-----------------------------------------------------------------------------
(* The process *)

(* The process adds the end of its worker to the steps of Scheduler, and    *)
(* stops it once: each of its steps is a step of the worker or none.        *)
LEMMA StepOfWorker ==
    ASSUME stopEvent \in BOOLEAN, [AgentNext]_agentVars
    PROVE  [Next]_vars
<1>1. CASE Publish
  BY <1>1 DEF Publish, Worker, Next
<1>2. CASE CycleRaises
  BY <1>2 DEF CycleRaises, Worker, Next
<1>3. CASE RunStep
  BY <1>3 DEF RunStep, Worker, Next
<1>4. CASE Pass
  BY <1>4 DEF Pass, Worker, Next
<1>5. CASE Main
  <2>1. CASE StopMonitor
    BY <2>1 DEF StopMonitor, Step, Next, Stop, vars
  <2>2. CASE ~StopMonitor
    BY <1>5, <2>2 DEF Main, Create, CreateServer, Start, StartFails, Error, Handle, Serve, Limit,
       Call, Return, Examine, Judge, Restore, Joined, JoinExpires, Step, vars
  <2> QED BY <2>1, <2>2
<1>6. CASE \E s \in Signals : Handled(s)
  BY <1>6 DEF Handled, vars
<1>7. CASE Interrupted
  BY <1>7 DEF Interrupted, vars
<1>8. CASE Killed
  BY <1>8 DEF Killed, Next, Die, vars
<1>9. CASE AgentFinished \/ UNCHANGED agentVars
  BY <1>9 DEF AgentFinished, agentVars, vars
<1> QED BY <1>1, <1>2, <1>3, <1>4, <1>5, <1>6, <1>7, <1>8, <1>9 DEF AgentNext

(* The worker of the process is the worker of Scheduler: what is proved     *)
(* there of _run holds in the process, whatever signals and errors come.    *)
THEOREM Implements == AgentSpec => Spec
<1>1. AgentInit => Init /\ stopEvent \in BOOLEAN
  BY DEF AgentInit, Init
<1>2. stopEvent \in BOOLEAN /\ [AgentNext]_agentVars => [Next]_vars
  BY StepOfWorker
<1>3. stopEvent \in BOOLEAN /\ [Next]_vars => (stopEvent \in BOOLEAN)'
  BY DEF Next, Tick, Stop, Check, EndCycle, Wake, Die, Finished, vars
<1> QED BY <1>1, <1>2, <1>3, PTL DEF AgentSpec, Spec

(* In the process too collections keep to the grid of slots and none is     *)
(* owed, for every interval and every length of cycle.                      *)
THEOREM AgentOnSchedule == AgentSpec => []OnSchedule
BY Implements, SlotsKept, PTL

(* In the process too each cycle has a slot of its own and none is skipped  *)
THEOREM AgentSlots == AgentSpec => SlotsInOrder
BY Implements, SlotsAdvance, PTL

(* No snapshot holds no data                                                *)
LEMMA NoneIsEmpty ==
    /\ None \in Snapshots
    /\ ~None.ready /\ ~None.usage /\ ~None.attached /\ None.sequence = 0
BY DEF None, Snapshots

(* Each step of the process keeps the invariant                             *)
LEMMA AgentStep ==
    ASSUME TypeOK, TypeOK', AInv, [AgentNext]_agentVars
    PROVE  AInv'
<1> USE AgentAssumption, NoneIsEmpty DEF AInv, AgentTypeOK, SnapshotInv, WaitInv, ExitInv,
       Well, Valid, Status, OncePC, ServerPC, ServingPC, EarlyPC, Signals, Snapshots,
       config, signal, wait, times, main
<1>0. clock \in Nat /\ clock' \in Nat
  BY SchedulerAssumption DEF TypeOK
<1>1. CASE Publish
  BY <1>0, <1>1 DEF Publish, Worker, EndCycle
<1>2. CASE CycleRaises
  BY <1>0, <1>2 DEF CycleRaises, Worker, Die
<1>3. CASE RunStep
  BY <1>0, <1>3 DEF RunStep, Worker, Check, Wake
<1>4. CASE Pass
  BY <1>0, <1>4 DEF Pass, Worker, Tick
<1>5. CASE Main
  <2>1. CASE Create
    BY <1>0, <2>1 DEF Create, Step
  <2>2. CASE CreateServer
    BY <1>0, <2>2 DEF CreateServer, Step
  <2>3. CASE Start
    BY <1>0, <2>3 DEF Start, Step
  <2>4. CASE \E f \in {"create", "server"} : Error(f)
    BY <1>0, <2>4 DEF Error, Step
  <2>17. CASE StartFails
    <3>1. collectors' \in {"closed", "outlived"} /\ pc' = "restore" /\ result' = 1
      BY <2>17 DEF StartFails, CloseCollectors, Step
    <3>2. UNCHANGED <<clock, mode, once, cpu, required, started, handlers, stopped,
                      interrupt, state, snapshot, limit, readAt, minSequence,
                      remaining, waitEnd>> /\ pc = "start"
      BY <2>17 DEF StartFails, Step
    <3>3. AgentTypeOK'
      BY <3>1, <3>2
    <3>4. SnapshotInv' /\ WaitInv'
      BY <3>1, <3>2
    <3>5. ExitInv'
      BY <3>1, <3>2
    <3> QED BY <3>3, <3>4, <3>5
  <2>5. CASE Handle("handle_int", "SIGINT", "handle_term")
    BY <1>0, <2>5 DEF Handle, Step
  <2>6. CASE Handle("handle_term", "SIGTERM", "serve")
    BY <1>0, <2>6 DEF Handle, Step
  <2>7. CASE Serve
    BY <1>0, <2>7 DEF Serve, Step
  <2>8. CASE Limit
    BY <1>0, <2>8 DEF Limit, Step
  <2>9. CASE Call
    BY <1>0, <2>9 DEF Call, Step
  <2>10. CASE Return
    <3>1. CASE pc' = "examine"
      <4>1. /\ Satisfied /\ snapshot' = state /\ Step("waiting", "examine")
            /\ readAt' = clock /\ minSequence' = 1 /\ remaining' = 0 /\ waitEnd' = 0
            /\ UNCHANGED <<limit, stopEvent, handlers, stopped, interrupt, started, collectors, result>>
        BY <2>10, <3>1 DEF Return, Step
      <4>2. AgentTypeOK'
        BY <1>0, <4>1 DEF Step
      <4>3. snapshot'.ready /\ snapshot'.sequence >= minSequence
        BY <4>1 DEF Satisfied
      <4>4. SnapshotInv' /\ WaitInv'
        BY <1>0, <4>1, <4>3 DEF Step
      <4>5. ExitInv'
        BY <4>1 DEF Step
      <4> QED BY <4>2, <4>4, <4>5
    <3>2. CASE pc' = "judge"
      BY <1>0, <2>10, <3>2 DEF Return, Step, Forget
    <3> QED BY <2>10, <3>1, <3>2 DEF Return, Step
  <2>11. CASE Examine
    <3>1. CASE Valid(snapshot)
      <4>1. /\ Step("examine", "judge") /\ Forget
            /\ UNCHANGED <<snapshot, stopEvent, handlers, stopped, interrupt, started, collectors, result>>
        BY <2>11, <3>1 DEF Examine, Step
      <4>2. AgentTypeOK'
        BY <1>0, <4>1 DEF Step, Forget
      <4>3. snapshot # None /\ Well
        BY <3>1, <4>1 DEF Step
      <4>4. SnapshotInv' /\ WaitInv'
        BY <1>0, <4>1 DEF Step, Forget
      <4>5. ExitInv'
        BY <4>1, <4>3 DEF Step
      <4> QED BY <4>2, <4>4, <4>5
    <3>2. CASE ~Valid(snapshot) /\ clock >= limit
      BY <1>0, <2>11, <3>2 DEF Examine, Step, Forget
    <3>3. CASE ~Valid(snapshot) /\ clock < limit
      BY <1>0, <2>11, <3>3 DEF Examine, Step
    <3> QED BY <1>0, <3>1, <3>2, <3>3
  <2>12. CASE Judge
    BY <1>0, <2>12 DEF Judge, Step
  <2>13. CASE Restore
    BY <1>0, <2>13 DEF Restore, Step
  <2>14. CASE StopMonitor
    BY <1>0, <2>14 DEF StopMonitor, Step
  <2>15. CASE Joined
    <3>1. AgentTypeOK'
      <4>1. pc' = "exited" /\ collectors' \in {"closed", "outlived"}
        BY <2>15 DEF Joined, CloseCollectors, Step
      <4>2. UNCHANGED <<once, cpu, required, started, handlers, stopped, interrupt,
                        result, state, snapshot, limit, readAt, minSequence,
                        remaining, waitEnd>>
        BY <2>15 DEF Joined, Step
      <4> QED BY <4>1, <4>2
    <3>2. SnapshotInv' /\ WaitInv'
      BY <2>15 DEF Joined, Step
    <3>3. ExitInv'
      BY <2>15 DEF Joined, CloseCollectors, Step
    <3> QED BY <3>1, <3>2, <3>3
  <2>16. CASE JoinExpires
    BY <1>0, <2>16 DEF JoinExpires, Step
  <2> QED BY <1>5, <2>1, <2>2, <2>3, <2>4, <2>5, <2>6, <2>7, <2>8, <2>9, <2>10, <2>11,
             <2>12, <2>13, <2>14, <2>15, <2>16, <2>17 DEF Main
<1>6. CASE \E s \in Signals : Handled(s)
  BY <1>0, <1>6 DEF Handled, Over, vars
<1>7. CASE Interrupted
  BY <1>0, <1>7 DEF Interrupted, Forget, Over, vars
<1>8. CASE Killed
  BY <1>0, <1>8 DEF Killed, Forget, Over
<1>9. CASE AgentFinished \/ UNCHANGED agentVars
  <2>1. UNCHANGED <<clock, mode, once, cpu, required, pc, started, collectors, handlers,
                    stopped, interrupt, result, state, snapshot, limit, readAt,
                    minSequence, remaining, waitEnd>>
    BY <1>9 DEF AgentFinished, agentVars, vars
  <2> QED BY <2>1
<1> QED BY <1>1, <1>2, <1>3, <1>4, <1>5, <1>6, <1>7, <1>8, <1>9 DEF AgentNext

(* The process is always in a state of the invariant, for every interval,   *)
(* timeout and delay                                                        *)
LEMMA AgentInvariant == AgentSpec => []AInv
<1>1. AgentInit => AInv
  <2> SUFFICES ASSUME AgentInit
               PROVE  AInv
    OBVIOUS
  <2>1. clock = 0 /\ state = None /\ snapshot = None /\ pc = "create"
    BY DEF AgentInit, Init
  <2>2. AgentTypeOK
    <3>1. /\ once \in BOOLEAN /\ cpu \in BOOLEAN /\ required \in BOOLEAN
          /\ started \in BOOLEAN
          /\ stopped \in BOOLEAN /\ interrupt \in BOOLEAN
      BY Zenon DEF AgentInit
    <3>2. /\ handlers = {} /\ state = None /\ snapshot = None
          /\ limit = 0 /\ readAt = 0 /\ minSequence = 1
          /\ remaining = 0 /\ waitEnd = 0 /\ result = 0 /\ pc = "create"
          /\ collectors = "none"
      BY DEF AgentInit
    <3> QED BY <3>1, <3>2, NoneIsEmpty DEF AgentTypeOK, EarlyPC
  <2>3. SnapshotInv /\ WaitInv
    BY <2>1, NoneIsEmpty DEF AgentInit, SnapshotInv, WaitInv
  <2>4. ExitInv
    BY <2>1 DEF ExitInv, OncePC, ServerPC, ServingPC
  <2> QED BY <2>2, <2>3, <2>4 DEF AInv
<1>2. TypeOK /\ TypeOK' /\ AInv /\ [AgentNext]_agentVars => AInv'
  BY AgentStep
<1>3. AgentSpec => []TypeOK
  BY Implements, ScheduleTyped, PTL
<1> QED BY <1>1, <1>2, <1>3, PTL DEF AgentSpec

(* The exit status 0 means that the worker has ended and every collector    *)
(* was asked to close, that --once had a snapshot, not the first one, that  *)
(* answers for what was asked, and that a signal stopped the server.        *)
THEOREM ZeroIsClean == AgentSpec => []ZeroMeansClean
<1>1. AInv => ZeroMeansClean
  BY DEF AInv, ExitInv, Well, ZeroMeansClean
<1> QED BY <1>1, AgentInvariant, PTL

(* The retries of --once ask for later snapshots, keep to one deadline and  *)
(* are not given up before it, for every timeout and delay.                 *)
THEOREM RetriesSound == AgentSpec => Retries
<1> DEFINE Sound ==
      /\ pc = "call" /\ pc' = "waiting" => waitEnd' <= limit + (clock - readAt)
      /\ pc = "waiting" /\ pc' = "examine" => snapshot'.sequence > snapshot.sequence
      /\ pc # "judge" /\ pc' = "judge" /\ snapshot' = None =>
            clock >= limit \/ mode = "done"
<1>1. TypeOK /\ AInv /\ [AgentNext]_agentVars => [Sound]_agentVars
  <2> SUFFICES ASSUME TypeOK, AInv, AgentNext
               PROVE  Sound
    OBVIOUS
  <2>0. /\ clock \in Nat /\ limit \in Nat /\ readAt \in Nat /\ remaining \in Nat
        /\ waitEnd \in Nat /\ state.sequence \in Nat /\ snapshot.sequence \in Nat
        /\ minSequence \in Nat
    BY SchedulerAssumption DEF TypeOK, AInv, AgentTypeOK, Snapshots
  <2>1. ASSUME pc = "call", pc' = "waiting"
        PROVE  waitEnd' <= limit + (clock - readAt)
    <3>1. Call
      BY <2>1 DEF AgentNext, Publish, CycleRaises, RunStep, Pass, Worker, main, Main,
         Create, CreateServer, Start, StartFails, Error, Handle, Serve, Limit, Return, Examine,
         Judge, Restore, StopMonitor, Joined, JoinExpires, Step, Handled, Interrupted,
         Killed, AgentFinished, agentVars
    <3> QED BY <2>0, <2>1, <3>1 DEF Call, AInv, WaitInv
  <2>2. ASSUME pc = "waiting", pc' = "examine"
        PROVE  snapshot'.sequence > snapshot.sequence
    <3>1. Return
      BY <2>2 DEF AgentNext, Publish, CycleRaises, RunStep, Pass, Worker, main, Main,
         Create, CreateServer, Start, StartFails, Error, Handle, Serve, Limit, Call, Examine,
         Judge, Restore, StopMonitor, Joined, JoinExpires, Step, Handled, Interrupted,
         Killed, AgentFinished, agentVars
    <3>2. snapshot' = state /\ state.sequence >= minSequence
      BY <2>2, <3>1 DEF Return, Step, Satisfied
    <3> QED BY <2>0, <2>2, <3>2 DEF AInv, WaitInv
  <2>3. ASSUME pc # "judge", pc' = "judge", snapshot' = None
        PROVE  clock >= limit \/ mode = "done"
    <3>1. Return \/ Examine
      BY <2>3 DEF AgentNext, Publish, CycleRaises, RunStep, Pass, Worker, main, Main,
         Create, CreateServer, Start, StartFails, Error, Handle, Serve, Limit, Call,
         Judge, Restore, StopMonitor, Joined, JoinExpires, Step, Handled, Interrupted,
         Killed, AgentFinished, agentVars
    <3>2. CASE Return
      <4>1. pc = "waiting" /\ (clock >= waitEnd \/ mode = "done")
        BY <2>3, <3>2 DEF Return, Step
      <4> QED BY <2>0, <4>1 DEF AInv, WaitInv
    <3>3. CASE Examine
      <4>1. pc = "examine" /\ snapshot # None
        BY <3>3, NoneIsEmpty DEF Examine, Step, AInv, SnapshotInv
      <4> QED BY <2>3, <3>3, <4>1 DEF Examine, Step
    <3> QED BY <3>1, <3>2, <3>3
  <2> QED BY <2>1, <2>2, <2>3
<1>2. AgentSpec => []TypeOK
  BY Implements, ScheduleTyped, PTL
<1> QED BY <1>1, <1>2, AgentInvariant, PTL DEF AgentSpec, Retries
=============================================================================
