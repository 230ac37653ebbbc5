--------------------------- MODULE MonitorProofs ---------------------------
(* Proofs about Monitor, for any number of threads, collectors, starts,     *)
(* cycles and calls.                                                        *)
EXTENDS Monitor, TLAPS

USE DEF None

(* No client is a worker, and no thread is None                             *)
LEMMA Disjoint ==
    /\ Clients \cap Workers = {} /\ None \notin Threads
    /\ Workers \subseteq Nat
BY ConstantsAssumption DEF Workers, Threads

(* The initial state of a Monitor has its types                             *)
LEMMA InitType == Init => TypeOK
<1> SUFFICES ASSUME Init PROVE TypeOK
  OBVIOUS
<1>1. PcTyped(pc)
  BY Disjoint DEF Init, PcTyped, Threads, ClientPC, WorkerPC
<1>2. want \in [Clients -> SUBSET Requests]
  BY DEF Init
<1>3. state \in Snapshots /\ seen \in [Clients -> Snapshots]
  BY DEF Init, Snapshots, NoState
<1>4. thread \in 0 .. MaxStarts /\ starts \in 0 .. MaxStarts
      /\ calls \in 0 .. MaxCalls
  BY ConstantsAssumption DEF Init
<1>5. todo \in [Workers -> SUBSET Names] /\ using \in [Workers -> SUBSET Objects]
  BY DEF Init
<1>q. QED
  BY <1>1, <1>2, <1>3, <1>4, <1>5 DEF Init, TypeOK

(* A client that is about to create a worker can: the number is one of a    *)
(* worker, which no client has.                                             *)
LEMMA NewWorker ==
  ASSUME TypeOK, LockInv, NEW c \in Clients, pc[c] = "start_thread"
  PROVE  /\ starts + 1 \in Workers /\ starts + 1 \in 0 .. MaxStarts
         /\ starts + 1 # c
<1>1. starts < MaxStarts
  BY DEF LockInv, StartPC
<1>2. starts \in Nat /\ MaxStarts \in Nat
  BY ConstantsAssumption DEF TypeOK
<1>3. starts + 1 \in Workers /\ starts + 1 \in 0 .. MaxStarts
  BY <1>1, <1>2 DEF Workers
<1>q. QED
  BY <1>3, Disjoint

(* Every step keeps the types; where a start creates a worker, the lock says*)
(* that a worker is left to create.                                         *)
LEMMA TypeStep == TypeOK /\ LockInv /\ [Next]_vars => TypeOK'
<1> SUFFICES ASSUME TypeOK, LockInv, [Next]_vars PROVE TypeOK'
  OBVIOUS
<1> USE ConstantsAssumption, Disjoint
<1> USE DEF TypeOK, PcTyped, vars, lifeVars, collVars, readVars, Threads, ClientPC,
    WorkerPC, StartPC, StopPC, Goto, Call, NotifyAnd, Notified, Snapshots, NoState, Objects
<1>1. ASSUME NEW c \in Clients, StartCall(c) PROVE TypeOK'
  BY <1>1 DEF StartCall
<1>2. ASSUME NEW c \in Clients, StartAlive(c) PROVE TypeOK'
  BY <1>2 DEF StartAlive
<1>3. ASSUME NEW c \in Clients, StartProceed(c) PROVE TypeOK'
  BY <1>3 DEF StartProceed
<1>4. ASSUME NEW c \in Clients, CloseOne(c) PROVE TypeOK'
  BY <1>4 DEF CloseOne
<1>5. ASSUME NEW c \in Clients, CloseDone(c) PROVE TypeOK'
  BY <1>5 DEF CloseDone
<1>6. ASSUME NEW c \in Clients, StartClear(c) PROVE TypeOK'
  BY <1>6 DEF StartClear
<1>7. ASSUME NEW c \in Clients, StartReset(c) PROVE TypeOK'
  BY <1>7 DEF StartReset
<1>8. ASSUME NEW c \in Clients, StartInit(c) PROVE TypeOK'
  BY <1>8 DEF StartInit, LockInv, Workers
<1>9. ASSUME NEW c \in Clients, StartThread(c) PROVE TypeOK'
  <2>1. pc[c] = "start_thread"
    BY <1>9 DEF StartThread
  <2>2. /\ starts + 1 \in Workers /\ starts + 1 \in 0 .. MaxStarts
        /\ starts + 1 # c
    BY <2>1, NewWorker
  <2>. QED
    BY <1>9, <2>2 DEF StartThread
<1>10. ASSUME NEW c \in Clients, StartThreadFails(c) PROVE TypeOK'
  <2>1. pc[c] = "start_thread"
    BY <1>10 DEF StartThreadFails
  <2>2. /\ starts + 1 \in Workers /\ starts + 1 \in 0 .. MaxStarts
        /\ starts + 1 # c
    BY <2>1, NewWorker
  <2>3. PcTyped(pc')
    BY <1>10, <2>2 DEF StartThreadFails
  <2>4. /\ open' \subseteq Objects /\ collectors' \subseteq Objects
        /\ thread' \in 0 .. MaxStarts /\ starts' \in 0 .. MaxStarts
        /\ lifecycle' \in Threads \cup {None}
    BY <1>10, <2>2 DEF StartThreadFails
  <2>5. /\ running' \in BOOLEAN
        /\ UNCHANGED <<stopEvent, condition, todo, using, state, fresh, readVars>>
    BY <1>10 DEF StartThreadFails
  <2>. QED
    BY <2>3, <2>4, <2>5
<1>11. ASSUME NEW c \in Clients, StopCall(c) PROVE TypeOK'
  BY <1>11 DEF StopCall
<1>12. ASSUME NEW c \in Clients, StopSet(c) PROVE TypeOK'
  BY <1>12 DEF StopSet
<1>13. ASSUME NEW c \in Clients, StopNotify(c) PROVE TypeOK'
  BY <1>13 DEF StopNotify
<1>14. ASSUME NEW c \in Clients, StopJoined(c) PROVE TypeOK'
  BY <1>14 DEF StopJoined
<1>15. ASSUME NEW c \in Clients, StopTimeout(c) PROVE TypeOK'
  BY <1>15 DEF StopTimeout
<1>16. ASSUME NEW c \in Clients, StopEnd(c) PROVE TypeOK'
  BY <1>16 DEF StopEnd
<1>17. ASSUME NEW c \in Clients, ScrapeSnapshot(c) PROVE TypeOK'
  BY <1>17 DEF ScrapeSnapshot
<1>18. ASSUME NEW c \in Clients, ScrapeSamples(c) PROVE TypeOK'
  BY <1>18 DEF ScrapeSamples
<1>19. ASSUME NEW c \in Clients, WaitCall(c) PROVE TypeOK'
  BY <1>19 DEF WaitCall
<1>20. ASSUME NEW c \in Clients, WaitReturn(c) PROVE TypeOK'
  BY <1>20 DEF WaitReturn
<1>21. ASSUME NEW c \in Clients, WaitSleep(c) PROVE TypeOK'
  BY <1>21 DEF WaitSleep
<1>22. ASSUME NEW c \in Clients, WaitTimeout(c) PROVE TypeOK'
  BY <1>22 DEF WaitTimeout
<1>23. ASSUME NEW w \in Workers, SelfStopCall(w) PROVE TypeOK'
  BY <1>23 DEF SelfStopCall
<1>24. ASSUME NEW w \in Workers, SelfStopEnter(w) PROVE TypeOK'
  BY <1>24 DEF SelfStopEnter
<1>25. ASSUME NEW w \in Workers, StopSet(w) PROVE TypeOK'
  BY <1>25 DEF StopSet
<1>26. ASSUME NEW w \in Workers, StopNotify(w) PROVE TypeOK'
  BY <1>26 DEF StopNotify
<1>27. ASSUME NEW w \in Workers, StopSelf(w) PROVE TypeOK'
  BY <1>27 DEF StopSelf
<1>28. ASSUME NEW w \in Workers, Check(w) PROVE TypeOK'
  BY <1>28 DEF Check
<1>29. ASSUME NEW w \in Workers, BeginCollect(w) PROVE TypeOK'
  BY <1>29 DEF BeginCollect
<1>30. ASSUME NEW w \in Workers, EndCollect(w) PROVE TypeOK'
  BY <1>30 DEF EndCollect
<1>31. ASSUME NEW w \in Workers, CollectDone(w) PROVE TypeOK'
  BY <1>31 DEF CollectDone
<1>32. ASSUME NEW w \in Workers, CycleRaises(w) PROVE TypeOK'
  BY <1>32 DEF CycleRaises
<1>33. ASSUME NEW w \in Workers, Publish(w) PROVE TypeOK'
  BY <1>33 DEF Publish
<1>34. ASSUME NEW w \in Workers, Wake(w) PROVE TypeOK'
  BY <1>34 DEF Wake
<1>35. ASSUME NEW w \in Workers, Finally(w) PROVE TypeOK'
  BY <1>35 DEF Finally
<1>36. ASSUME NEW w \in Workers, Exit(w) PROVE TypeOK'
  BY <1>36 DEF Exit
<1>q. QED
  BY <1>1, <1>2, <1>3, <1>4, <1>5, <1>6, <1>7, <1>8, <1>9, <1>10, <1>11, <1>12, <1>13, <1>14, <1>15, <1>16, <1>17, <1>18, <1>19, <1>20, <1>21, <1>22, <1>23, <1>24, <1>25, <1>26, <1>27, <1>28, <1>29, <1>30, <1>31, <1>32, <1>33, <1>34, <1>35, <1>36 DEF Next, ClientStep, WorkerStep, Expire, Quiescent

(* Every step keeps the owners of _lifecycle and _condition: who is inside a*)
(* start or a stop holds the one, who is inside a scrape the other.         *)
LEMMA LockStep == TypeOK /\ LockInv /\ [Next]_vars => LockInv'
<1> SUFFICES ASSUME TypeOK, LockInv, [Next]_vars PROVE LockInv'
  OBVIOUS
<1> USE ConstantsAssumption, Disjoint
<1> USE DEF TypeOK, PcTyped, LockInv, vars, lifeVars, collVars, readVars, Threads, ClientPC,
    WorkerPC, StartPC, StopPC, Goto, Call, NotifyAnd, Notified
<1>1. ASSUME NEW c \in Clients, StartCall(c) PROVE LockInv'
  BY <1>1 DEF StartCall
<1>2. ASSUME NEW c \in Clients, StartAlive(c) PROVE LockInv'
  BY <1>2 DEF StartAlive
<1>3. ASSUME NEW c \in Clients, StartProceed(c) PROVE LockInv'
  BY <1>3 DEF StartProceed
<1>4. ASSUME NEW c \in Clients, CloseOne(c) PROVE LockInv'
  BY <1>4 DEF CloseOne
<1>5. ASSUME NEW c \in Clients, CloseDone(c) PROVE LockInv'
  BY <1>5 DEF CloseDone
<1>6. ASSUME NEW c \in Clients, StartClear(c) PROVE LockInv'
  BY <1>6 DEF StartClear
<1>7. ASSUME NEW c \in Clients, StartReset(c) PROVE LockInv'
  BY <1>7 DEF StartReset
<1>8. ASSUME NEW c \in Clients, StartInit(c) PROVE LockInv'
  BY <1>8 DEF StartInit
<1>9. ASSUME NEW c \in Clients, StartThread(c) PROVE LockInv'
  BY <1>9 DEF StartThread
<1>10. ASSUME NEW c \in Clients, StartThreadFails(c) PROVE LockInv'
  BY <1>10 DEF StartThreadFails
<1>11. ASSUME NEW c \in Clients, StopCall(c) PROVE LockInv'
  BY <1>11 DEF StopCall
<1>12. ASSUME NEW c \in Clients, StopSet(c) PROVE LockInv'
  BY <1>12 DEF StopSet
<1>13. ASSUME NEW c \in Clients, StopNotify(c) PROVE LockInv'
  BY <1>13 DEF StopNotify
<1>14. ASSUME NEW c \in Clients, StopJoined(c) PROVE LockInv'
  BY <1>14 DEF StopJoined
<1>15. ASSUME NEW c \in Clients, StopTimeout(c) PROVE LockInv'
  BY <1>15 DEF StopTimeout
<1>16. ASSUME NEW c \in Clients, StopEnd(c) PROVE LockInv'
  BY <1>16 DEF StopEnd
<1>17. ASSUME NEW c \in Clients, ScrapeSnapshot(c) PROVE LockInv'
  BY <1>17 DEF ScrapeSnapshot
<1>18. ASSUME NEW c \in Clients, ScrapeSamples(c) PROVE LockInv'
  BY <1>18 DEF ScrapeSamples
<1>19. ASSUME NEW c \in Clients, WaitCall(c) PROVE LockInv'
  BY <1>19 DEF WaitCall
<1>20. ASSUME NEW c \in Clients, WaitReturn(c) PROVE LockInv'
  BY <1>20 DEF WaitReturn
<1>21. ASSUME NEW c \in Clients, WaitSleep(c) PROVE LockInv'
  BY <1>21 DEF WaitSleep
<1>22. ASSUME NEW c \in Clients, WaitTimeout(c) PROVE LockInv'
  BY <1>22 DEF WaitTimeout
<1>23. ASSUME NEW w \in Workers, SelfStopCall(w) PROVE LockInv'
  BY <1>23 DEF SelfStopCall
<1>24. ASSUME NEW w \in Workers, SelfStopEnter(w) PROVE LockInv'
  BY <1>24 DEF SelfStopEnter
<1>25. ASSUME NEW w \in Workers, StopSet(w) PROVE LockInv'
  BY <1>25 DEF StopSet
<1>26. ASSUME NEW w \in Workers, StopNotify(w) PROVE LockInv'
  BY <1>26 DEF StopNotify
<1>27. ASSUME NEW w \in Workers, StopSelf(w) PROVE LockInv'
  BY <1>27 DEF StopSelf
<1>28. ASSUME NEW w \in Workers, Check(w) PROVE LockInv'
  BY <1>28 DEF Check
<1>29. ASSUME NEW w \in Workers, BeginCollect(w) PROVE LockInv'
  BY <1>29 DEF BeginCollect
<1>30. ASSUME NEW w \in Workers, EndCollect(w) PROVE LockInv'
  BY <1>30 DEF EndCollect
<1>31. ASSUME NEW w \in Workers, CollectDone(w) PROVE LockInv'
  BY <1>31 DEF CollectDone
<1>32. ASSUME NEW w \in Workers, CycleRaises(w) PROVE LockInv'
  BY <1>32 DEF CycleRaises
<1>33. ASSUME NEW w \in Workers, Publish(w) PROVE LockInv'
  BY <1>33 DEF Publish
<1>34. ASSUME NEW w \in Workers, Wake(w) PROVE LockInv'
  BY <1>34 DEF Wake
<1>35. ASSUME NEW w \in Workers, Finally(w) PROVE LockInv'
  BY <1>35 DEF Finally
<1>36. ASSUME NEW w \in Workers, Exit(w) PROVE LockInv'
  BY <1>36 DEF Exit
<1>37. CASE Expire \/ Quiescent \/ UNCHANGED vars
  BY <1>37 DEF Expire, Quiescent
<1>q. QED
  BY <1>1, <1>2, <1>3, <1>4, <1>5, <1>6, <1>7, <1>8, <1>9, <1>10, <1>11, <1>12,
     <1>13, <1>14, <1>15, <1>16, <1>17, <1>18, <1>19, <1>20, <1>21, <1>22, <1>23, <1>24,
     <1>25, <1>26, <1>27, <1>28, <1>29, <1>30, <1>31, <1>32, <1>33, <1>34, <1>35, <1>36,
     <1>37
     DEF Next, ClientStep, WorkerStep

(* Every step keeps one worker, named by _thread, and none once a start or a*)
(* stop has passed its test.                                                *)
LEMMA WorkerInvStep == TypeOK /\ LockInv /\ WorkerInv /\ [Next]_vars => WorkerInv'
<1> SUFFICES ASSUME TypeOK, LockInv, WorkerInv, [Next]_vars PROVE WorkerInv'
  OBVIOUS
<1> USE ConstantsAssumption, Disjoint
<1> USE DEF TypeOK, PcTyped, LockInv, vars, lifeVars, collVars, readVars, Threads, ClientPC,
    WorkerPC, StartPC, StopPC, Goto, Call, NotifyAnd, Notified,
    WorkerInv, OneWorker, ThreadAlive, Alive, BeyondWorkerPC
<1>1. ASSUME NEW c \in Clients, StartCall(c) PROVE WorkerInv'
  BY <1>1 DEF StartCall
<1>2. ASSUME NEW c \in Clients, StartAlive(c) PROVE WorkerInv'
  BY <1>2 DEF StartAlive
<1>3. ASSUME NEW c \in Clients, StartProceed(c) PROVE WorkerInv'
  BY <1>3 DEF StartProceed
<1>4. ASSUME NEW c \in Clients, CloseOne(c) PROVE WorkerInv'
  BY <1>4 DEF CloseOne
<1>5. ASSUME NEW c \in Clients, CloseDone(c) PROVE WorkerInv'
  BY <1>5 DEF CloseDone
<1>6. ASSUME NEW c \in Clients, StartClear(c) PROVE WorkerInv'
  BY <1>6 DEF StartClear
<1>7. ASSUME NEW c \in Clients, StartReset(c) PROVE WorkerInv'
  BY <1>7 DEF StartReset
<1>8. ASSUME NEW c \in Clients, StartInit(c) PROVE WorkerInv'
  BY <1>8 DEF StartInit
<1>9. ASSUME NEW c \in Clients, StartThread(c) PROVE WorkerInv'
  BY <1>9 DEF StartThread
<1>10. ASSUME NEW c \in Clients, StartThreadFails(c) PROVE WorkerInv'
  BY <1>10 DEF StartThreadFails
<1>11. ASSUME NEW c \in Clients, StopCall(c) PROVE WorkerInv'
  BY <1>11 DEF StopCall
<1>12. ASSUME NEW c \in Clients, StopSet(c) PROVE WorkerInv'
  BY <1>12 DEF StopSet
<1>13. ASSUME NEW c \in Clients, StopNotify(c) PROVE WorkerInv'
  BY <1>13 DEF StopNotify
<1>14. ASSUME NEW c \in Clients, StopJoined(c) PROVE WorkerInv'
  BY <1>14 DEF StopJoined
<1>15. ASSUME NEW c \in Clients, StopTimeout(c) PROVE WorkerInv'
  BY <1>15 DEF StopTimeout
<1>16. ASSUME NEW c \in Clients, StopEnd(c) PROVE WorkerInv'
  BY <1>16 DEF StopEnd
<1>17. ASSUME NEW c \in Clients, ScrapeSnapshot(c) PROVE WorkerInv'
  BY <1>17 DEF ScrapeSnapshot
<1>18. ASSUME NEW c \in Clients, ScrapeSamples(c) PROVE WorkerInv'
  BY <1>18 DEF ScrapeSamples
<1>19. ASSUME NEW c \in Clients, WaitCall(c) PROVE WorkerInv'
  BY <1>19 DEF WaitCall
<1>20. ASSUME NEW c \in Clients, WaitReturn(c) PROVE WorkerInv'
  BY <1>20 DEF WaitReturn
<1>21. ASSUME NEW c \in Clients, WaitSleep(c) PROVE WorkerInv'
  BY <1>21 DEF WaitSleep
<1>22. ASSUME NEW c \in Clients, WaitTimeout(c) PROVE WorkerInv'
  BY <1>22 DEF WaitTimeout
<1>23. ASSUME NEW w \in Workers, SelfStopCall(w) PROVE WorkerInv'
  BY <1>23 DEF SelfStopCall
<1>24. ASSUME NEW w \in Workers, SelfStopEnter(w) PROVE WorkerInv'
  BY <1>24 DEF SelfStopEnter
<1>25. ASSUME NEW w \in Workers, StopSet(w) PROVE WorkerInv'
  BY <1>25 DEF StopSet
<1>26. ASSUME NEW w \in Workers, StopNotify(w) PROVE WorkerInv'
  BY <1>26 DEF StopNotify
<1>27. ASSUME NEW w \in Workers, StopSelf(w) PROVE WorkerInv'
  BY <1>27 DEF StopSelf
<1>28. ASSUME NEW w \in Workers, Check(w) PROVE WorkerInv'
  BY <1>28 DEF Check
<1>29. ASSUME NEW w \in Workers, BeginCollect(w) PROVE WorkerInv'
  BY <1>29 DEF BeginCollect
<1>30. ASSUME NEW w \in Workers, EndCollect(w) PROVE WorkerInv'
  BY <1>30 DEF EndCollect
<1>31. ASSUME NEW w \in Workers, CollectDone(w) PROVE WorkerInv'
  BY <1>31 DEF CollectDone
<1>32. ASSUME NEW w \in Workers, CycleRaises(w) PROVE WorkerInv'
  BY <1>32 DEF CycleRaises
<1>33. ASSUME NEW w \in Workers, Publish(w) PROVE WorkerInv'
  BY <1>33 DEF Publish
<1>34. ASSUME NEW w \in Workers, Wake(w) PROVE WorkerInv'
  BY <1>34 DEF Wake
<1>35. ASSUME NEW w \in Workers, Finally(w) PROVE WorkerInv'
  BY <1>35 DEF Finally
<1>36. ASSUME NEW w \in Workers, Exit(w) PROVE WorkerInv'
  BY <1>36 DEF Exit
<1>37. CASE Expire \/ Quiescent \/ UNCHANGED vars
  BY <1>37 DEF Expire, Quiescent
<1>q. QED
  BY <1>1, <1>2, <1>3, <1>4, <1>5, <1>6, <1>7, <1>8, <1>9, <1>10, <1>11, <1>12,
     <1>13, <1>14, <1>15, <1>16, <1>17, <1>18, <1>19, <1>20, <1>21, <1>22, <1>23, <1>24,
     <1>25, <1>26, <1>27, <1>28, <1>29, <1>30, <1>31, <1>32, <1>33, <1>34, <1>35, <1>36,
     <1>37
     DEF Next, ClientStep, WorkerStep

(* A notification by a client wakes sleepers and disturbs no worker. *)
LEMMA ClientNotifies ==
  ASSUME TypeOK, NEW c \in Clients, NEW label, label # "waiting",
         NotifyAnd(c, label)
  PROVE  /\ \A t \in Threads : pc'[t] = IF t = c THEN label ELSE
                   IF pc[t] = "waiting" THEN "wait_check" ELSE pc[t]
         /\ \A w \in Workers : pc'[w] = pc[w]
<1>1. c \in Threads /\ c \notin Workers /\ Workers \subseteq Threads
  BY Disjoint DEF Threads
<1>2. pc \in [Threads -> ClientPC \cup WorkerPC]
  BY DEF TypeOK, PcTyped
<1>3. \A w \in Workers : pc[w] # "waiting"
  BY DEF TypeOK, PcTyped, WorkerPC
<1>4. \A t \in Threads : pc'[t] = IF t = c THEN label ELSE
                   IF pc[t] = "waiting" THEN "wait_check" ELSE pc[t]
  BY <1>1, <1>2 DEF NotifyAnd, Notified
<1>q. QED
  BY <1>1, <1>3, <1>4

(* Every step keeps open collectors in _collectors, and open those in use   *)
LEMMA CollectorInvStep == TypeOK /\ LockInv /\ WorkerInv /\ CollectorInv /\ [Next]_vars => CollectorInv'
<1> SUFFICES ASSUME TypeOK, LockInv, WorkerInv, CollectorInv, [Next]_vars PROVE CollectorInv'
  OBVIOUS
<1> USE ConstantsAssumption, Disjoint
<1> USE DEF TypeOK, PcTyped, LockInv, vars, lifeVars, collVars, readVars, Threads, ClientPC,
    WorkerPC, StartPC, StopPC, Goto, Call, NotifyAnd, Notified,
    WorkerInv, OneWorker, ThreadAlive, Alive, BeyondWorkerPC,
    CollectorInv, CollectPC, NoLeakedCollector, NoCloseWhileCollecting
<1>1. ASSUME NEW c \in Clients, StartCall(c) PROVE CollectorInv'
  BY <1>1 DEF StartCall
<1>2. ASSUME NEW c \in Clients, StartAlive(c) PROVE CollectorInv'
  BY <1>2 DEF StartAlive
<1>3. ASSUME NEW c \in Clients, StartProceed(c) PROVE CollectorInv'
  BY <1>3 DEF StartProceed
<1>4. ASSUME NEW c \in Clients, CloseOne(c) PROVE CollectorInv'
  BY <1>4 DEF CloseOne
<1>5. ASSUME NEW c \in Clients, CloseDone(c) PROVE CollectorInv'
  BY <1>5 DEF CloseDone
<1>6. ASSUME NEW c \in Clients, StartClear(c) PROVE CollectorInv'
  BY <1>6 DEF StartClear
<1>7. ASSUME NEW c \in Clients, StartReset(c) PROVE CollectorInv'
  BY <1>7 DEF StartReset
<1>8. ASSUME NEW c \in Clients, StartInit(c) PROVE CollectorInv'
  BY <1>8 DEF StartInit
<1>9. ASSUME NEW c \in Clients, StartThread(c) PROVE CollectorInv'
  BY <1>9 DEF StartThread
<1>10. ASSUME NEW c \in Clients, StartThreadFails(c) PROVE CollectorInv'
  BY <1>10 DEF StartThreadFails
<1>11. ASSUME NEW c \in Clients, StopCall(c) PROVE CollectorInv'
  BY <1>11 DEF StopCall
<1>12. ASSUME NEW c \in Clients, StopSet(c) PROVE CollectorInv'
  BY <1>12 DEF StopSet
<1>13. ASSUME NEW c \in Clients, StopNotify(c) PROVE CollectorInv'
  <2>0. NotifyAnd(c, "stop_join")
    BY <1>13 DEF StopNotify
  <2>1. \A t \in Threads : pc'[t] = IF t = c THEN "stop_join" ELSE
                   IF pc[t] = "waiting" THEN "wait_check" ELSE pc[t]
    BY <2>0, ClientNotifies
  <2>2. \A w \in Workers : pc'[w] = pc[w]
    BY <2>0, ClientNotifies
  <2>3. ThreadAlive' <=> ThreadAlive
    BY <1>13, <2>2 DEF StopNotify, Workers
  <2>4. \A d \in Clients :
          pc'[d] \in StartPC \cup {"stop_end"} => pc'[d] = pc[d]
    BY <2>1
  <2>5. UNCHANGED <<collVars, thread>>
    BY <1>13 DEF StopNotify
  <2>. QED
    BY <2>2, <2>3, <2>4, <2>5
<1>14. ASSUME NEW c \in Clients, StopJoined(c) PROVE CollectorInv'
  BY <1>14 DEF StopJoined
<1>15. ASSUME NEW c \in Clients, StopTimeout(c) PROVE CollectorInv'
  BY <1>15 DEF StopTimeout
<1>16. ASSUME NEW c \in Clients, StopEnd(c) PROVE CollectorInv'
  <2>0. NotifyAnd(c, "idle")
    BY <1>16 DEF StopEnd
  <2>1. \A t \in Threads : pc'[t] = IF t = c THEN "idle" ELSE
                   IF pc[t] = "waiting" THEN "wait_check" ELSE pc[t]
    BY <2>0, ClientNotifies
  <2>2. \A w \in Workers : pc'[w] = pc[w]
    BY <2>0, ClientNotifies
  <2>3. ThreadAlive' <=> ThreadAlive
    BY <1>16, <2>2 DEF StopEnd, Workers
  <2>4. \A d \in Clients :
          pc'[d] \in StartPC \cup {"stop_end"} => pc'[d] = pc[d]
    BY <2>1
  <2>5. UNCHANGED <<collVars, thread>>
    BY <1>16 DEF StopEnd
  <2>. QED
    BY <2>2, <2>3, <2>4, <2>5
<1>17. ASSUME NEW c \in Clients, ScrapeSnapshot(c) PROVE CollectorInv'
  BY <1>17 DEF ScrapeSnapshot
<1>18. ASSUME NEW c \in Clients, ScrapeSamples(c) PROVE CollectorInv'
  BY <1>18 DEF ScrapeSamples
<1>19. ASSUME NEW c \in Clients, WaitCall(c) PROVE CollectorInv'
  BY <1>19 DEF WaitCall
<1>20. ASSUME NEW c \in Clients, WaitReturn(c) PROVE CollectorInv'
  BY <1>20 DEF WaitReturn
<1>21. ASSUME NEW c \in Clients, WaitSleep(c) PROVE CollectorInv'
  BY <1>21 DEF WaitSleep
<1>22. ASSUME NEW c \in Clients, WaitTimeout(c) PROVE CollectorInv'
  BY <1>22 DEF WaitTimeout
<1>23. ASSUME NEW w \in Workers, SelfStopCall(w) PROVE CollectorInv'
  BY <1>23 DEF SelfStopCall
<1>24. ASSUME NEW w \in Workers, SelfStopEnter(w) PROVE CollectorInv'
  BY <1>24 DEF SelfStopEnter
<1>25. ASSUME NEW w \in Workers, StopSet(w) PROVE CollectorInv'
  BY <1>25 DEF StopSet
<1>26. ASSUME NEW w \in Workers, StopNotify(w) PROVE CollectorInv'
  BY <1>26 DEF StopNotify
<1>27. ASSUME NEW w \in Workers, StopSelf(w) PROVE CollectorInv'
  BY <1>27 DEF StopSelf
<1>28. ASSUME NEW w \in Workers, Check(w) PROVE CollectorInv'
  BY <1>28 DEF Check
<1>29. ASSUME NEW w \in Workers, BeginCollect(w) PROVE CollectorInv'
  BY <1>29 DEF BeginCollect
<1>30. ASSUME NEW w \in Workers, EndCollect(w) PROVE CollectorInv'
  BY <1>30 DEF EndCollect
<1>31. ASSUME NEW w \in Workers, CollectDone(w) PROVE CollectorInv'
  BY <1>31 DEF CollectDone
<1>32. ASSUME NEW w \in Workers, CycleRaises(w) PROVE CollectorInv'
  BY <1>32 DEF CycleRaises
<1>33. ASSUME NEW w \in Workers, Publish(w) PROVE CollectorInv'
  BY <1>33 DEF Publish
<1>34. ASSUME NEW w \in Workers, Wake(w) PROVE CollectorInv'
  BY <1>34 DEF Wake
<1>35. ASSUME NEW w \in Workers, Finally(w) PROVE CollectorInv'
  BY <1>35 DEF Finally
<1>36. ASSUME NEW w \in Workers, Exit(w) PROVE CollectorInv'
  BY <1>36 DEF Exit
<1>37. CASE Expire \/ Quiescent \/ UNCHANGED vars
  BY <1>37 DEF Expire, Quiescent
<1>q. QED
  BY <1>1, <1>2, <1>3, <1>4, <1>5, <1>6, <1>7, <1>8, <1>9, <1>10, <1>11, <1>12,
     <1>13, <1>14, <1>15, <1>16, <1>17, <1>18, <1>19, <1>20, <1>21, <1>22, <1>23, <1>24,
     <1>25, <1>26, <1>27, <1>28, <1>29, <1>30, <1>31, <1>32, <1>33, <1>34, <1>35, <1>36,
     <1>37
     DEF Next, ClientStep, WorkerStep

(* Every step keeps the sleepers notified and _running with a worker        *)
LEMMA WaitInvStep == TypeOK /\ LockInv /\ WorkerInv /\ WaitInv /\ [Next]_vars => WaitInv'
<1> SUFFICES ASSUME TypeOK, LockInv, WorkerInv, WaitInv, [Next]_vars PROVE WaitInv'
  OBVIOUS
<1> USE ConstantsAssumption, Disjoint
<1> USE DEF TypeOK, PcTyped, LockInv, vars, lifeVars, collVars, readVars, Threads, ClientPC,
    WorkerPC, StartPC, StopPC, Goto, Call, NotifyAnd, Notified, Satisfied,
    WorkerInv, OneWorker, ThreadAlive, Alive, BeyondWorkerPC, NoState,
    WaitInv, RunningHasWorker, NoSleeperLeftBehind, NoMissedSnapshot, ScrapeOfOneCycle
<1>1. ASSUME NEW c \in Clients, StartCall(c) PROVE WaitInv'
  BY <1>1 DEF StartCall
<1>2. ASSUME NEW c \in Clients, StartAlive(c) PROVE WaitInv'
  BY <1>2 DEF StartAlive
<1>3. ASSUME NEW c \in Clients, StartProceed(c) PROVE WaitInv'
  BY <1>3 DEF StartProceed
<1>4. ASSUME NEW c \in Clients, CloseOne(c) PROVE WaitInv'
  BY <1>4 DEF CloseOne
<1>5. ASSUME NEW c \in Clients, CloseDone(c) PROVE WaitInv'
  BY <1>5 DEF CloseDone
<1>6. ASSUME NEW c \in Clients, StartClear(c) PROVE WaitInv'
  BY <1>6 DEF StartClear
<1>7. ASSUME NEW c \in Clients, StartReset(c) PROVE WaitInv'
  BY <1>7 DEF StartReset
<1>8. ASSUME NEW c \in Clients, StartInit(c) PROVE WaitInv'
  BY <1>8 DEF StartInit
<1>9. ASSUME NEW c \in Clients, StartThread(c) PROVE WaitInv'
  <2>1. starts + 1 \in Workers /\ starts + 1 # c
    BY <1>9 DEF StartThread, Workers
  <2>2. \A d \in Clients : pc'[d] = IF d = c THEN "idle" ELSE pc[d]
    BY <1>9, <2>1 DEF StartThread
  <2>3. pc'[starts + 1] = "check"
    BY <1>9, <2>1 DEF StartThread
  <2>4. \A d \in Clients : pc'[d] # "waiting"
    BY <1>9, <2>2 DEF StartThread
  <2>. QED
    BY <1>9, <2>1, <2>2, <2>3, <2>4 DEF StartThread
<1>10. ASSUME NEW c \in Clients, StartThreadFails(c) PROVE WaitInv'
  BY <1>10 DEF StartThreadFails
<1>11. ASSUME NEW c \in Clients, StopCall(c) PROVE WaitInv'
  BY <1>11 DEF StopCall
<1>12. ASSUME NEW c \in Clients, StopSet(c) PROVE WaitInv'
  BY <1>12 DEF StopSet
<1>13. ASSUME NEW c \in Clients, StopNotify(c) PROVE WaitInv'
  <2>0. NotifyAnd(c, "stop_join")
    BY <1>13 DEF StopNotify
  <2>1. \A t \in Threads : pc'[t] = IF t = c THEN "stop_join" ELSE
                   IF pc[t] = "waiting" THEN "wait_check" ELSE pc[t]
    BY <2>0, ClientNotifies
  <2>2. \A w \in Workers : pc'[w] = pc[w]
    BY <2>0, ClientNotifies
  <2>3. ThreadAlive' <=> ThreadAlive
    BY <1>13, <2>2 DEF StopNotify, Workers
  <2>4. /\ running => thread \in Workers
        /\ UNCHANGED <<running, thread, state, seen>>
    BY <1>13 DEF StopNotify, Workers
  <2>5. \A d \in Clients : /\ pc'[d] # "waiting"
                           /\ pc'[d] = "scrape" => pc[d] = "scrape"
    BY <2>1
  <2>. QED
    BY <2>2, <2>3, <2>4, <2>5
<1>14. ASSUME NEW c \in Clients, StopJoined(c) PROVE WaitInv'
  BY <1>14 DEF StopJoined
<1>15. ASSUME NEW c \in Clients, StopTimeout(c) PROVE WaitInv'
  BY <1>15 DEF StopTimeout
<1>16. ASSUME NEW c \in Clients, StopEnd(c) PROVE WaitInv'
  BY <1>16 DEF StopEnd
<1>17. ASSUME NEW c \in Clients, ScrapeSnapshot(c) PROVE WaitInv'
  BY <1>17 DEF ScrapeSnapshot
<1>18. ASSUME NEW c \in Clients, ScrapeSamples(c) PROVE WaitInv'
  BY <1>18 DEF ScrapeSamples
<1>19. ASSUME NEW c \in Clients, WaitCall(c) PROVE WaitInv'
  BY <1>19 DEF WaitCall
<1>20. ASSUME NEW c \in Clients, WaitReturn(c) PROVE WaitInv'
  BY <1>20 DEF WaitReturn
<1>21. ASSUME NEW c \in Clients, WaitSleep(c) PROVE WaitInv'
  BY <1>21 DEF WaitSleep
<1>22. ASSUME NEW c \in Clients, WaitTimeout(c) PROVE WaitInv'
  BY <1>22 DEF WaitTimeout
<1>23. ASSUME NEW w \in Workers, SelfStopCall(w) PROVE WaitInv'
  BY <1>23 DEF SelfStopCall
<1>24. ASSUME NEW w \in Workers, SelfStopEnter(w) PROVE WaitInv'
  BY <1>24 DEF SelfStopEnter
<1>25. ASSUME NEW w \in Workers, StopSet(w) PROVE WaitInv'
  BY <1>25 DEF StopSet
<1>26. ASSUME NEW w \in Workers, StopNotify(w) PROVE WaitInv'
  BY <1>26 DEF StopNotify
<1>27. ASSUME NEW w \in Workers, StopSelf(w) PROVE WaitInv'
  BY <1>27 DEF StopSelf
<1>28. ASSUME NEW w \in Workers, Check(w) PROVE WaitInv'
  BY <1>28 DEF Check
<1>29. ASSUME NEW w \in Workers, BeginCollect(w) PROVE WaitInv'
  BY <1>29 DEF BeginCollect
<1>30. ASSUME NEW w \in Workers, EndCollect(w) PROVE WaitInv'
  BY <1>30 DEF EndCollect
<1>31. ASSUME NEW w \in Workers, CollectDone(w) PROVE WaitInv'
  BY <1>31 DEF CollectDone
<1>32. ASSUME NEW w \in Workers, CycleRaises(w) PROVE WaitInv'
  BY <1>32 DEF CycleRaises
<1>33. ASSUME NEW w \in Workers, Publish(w) PROVE WaitInv'
  BY <1>33 DEF Publish
<1>34. ASSUME NEW w \in Workers, Wake(w) PROVE WaitInv'
  BY <1>34 DEF Wake
<1>35. ASSUME NEW w \in Workers, Finally(w) PROVE WaitInv'
  BY <1>35 DEF Finally
<1>36. ASSUME NEW w \in Workers, Exit(w) PROVE WaitInv'
  BY <1>36 DEF Exit
<1>37. CASE Expire \/ Quiescent \/ UNCHANGED vars
  BY <1>37 DEF Expire, Quiescent
<1>q. QED
  BY <1>1, <1>2, <1>3, <1>4, <1>5, <1>6, <1>7, <1>8, <1>9, <1>10, <1>11, <1>12,
     <1>13, <1>14, <1>15, <1>16, <1>17, <1>18, <1>19, <1>20, <1>21, <1>22, <1>23, <1>24,
     <1>25, <1>26, <1>27, <1>28, <1>29, <1>30, <1>31, <1>32, <1>33, <1>34, <1>35, <1>36,
     <1>37
     DEF Next, ClientStep, WorkerStep

(* The invariants together hold in every reachable state. *)
THEOREM Invariance == Spec => []IInv
<1>1. Init => IInv
  <2> SUFFICES ASSUME Init PROVE IInv
    OBVIOUS
  <2>1. TypeOK
    BY InitType
  <2>2. \A w \in Workers : pc[w] = "unborn"
    BY DEF Init, Threads
  <2>3. \A c \in Clients : pc[c] = "idle"
    BY Disjoint DEF Init, Threads
  <2>4. LockInv
    BY <2>2, <2>3, Disjoint DEF Init, LockInv, Threads, StartPC, StopPC
  <2>5. WorkerInv
    BY <2>2, <2>3 DEF Init, WorkerInv, OneWorker, Alive, BeyondWorkerPC,
       StartPC, ThreadAlive
  <2>6. CollectorInv /\ WaitInv
    BY <2>2, <2>3 DEF Init, CollectorInv, WaitInv, NoLeakedCollector,
       NoCloseWhileCollecting, ThreadAlive, RunningHasWorker,
       NoSleeperLeftBehind, NoMissedSnapshot, ScrapeOfOneCycle
  <2>q. QED
    BY <2>1, <2>4, <2>5, <2>6 DEF IInv
<1>2. IInv /\ [Next]_vars => IInv'
  BY TypeStep, LockStep, WorkerInvStep, CollectorInvStep, WaitInvStep DEF IInv
<1>q. QED
  BY <1>1, <1>2, PTL DEF Spec

(* Every variable has its type: in particular no client call is ever left   *)
(* in a state of the worker's loop, nor a worker in one of the calls it     *)
(* cannot make.                                                             *)
THEOREM TypeCorrect == Spec => []TypeOK
BY Invariance, PTL DEF IInv

(* At most one worker lives, and it is _thread, whatever overlaps or fails. *)
THEOREM SingleWorker == Spec => []OneWorker
<1>1. IInv => OneWorker
  BY DEF IInv, WorkerInv
<1>q. QED
  BY <1>1, Invariance, PTL

(* stop and start close a collector only when no worker is inside it.       *)
THEOREM CollectorsSafe == Spec => []NoCloseWhileCollecting
<1>1. IInv => NoCloseWhileCollecting
  BY DEF IInv, CollectorInv
<1>q. QED
  BY <1>1, Invariance, PTL

(* No failure of a factory, a thread, a cycle or a join makes the monitor   *)
(* lose sight of an open collector.                                         *)
THEOREM CollectorsKept == Spec => []NoLeakedCollector
<1>1. IInv => NoLeakedCollector
  BY DEF IInv, CollectorInv
<1>q. QED
  BY <1>1, Invariance, PTL

(* A thread asleep in wait_for_snapshot after a stop will be notified.      *)
THEOREM SleepersWoken == Spec => []NoSleeperLeftBehind
<1>1. IInv => NoSleeperLeftBehind
  BY DEF IInv, WaitInv
<1>q. QED
  BY <1>1, Invariance, PTL

(* No thread sleeps past a snapshot that answers its request.               *)
THEOREM SnapshotsSeen == Spec => []NoMissedSnapshot
<1>1. IInv => NoMissedSnapshot
  BY DEF IInv, WaitInv
<1>q. QED
  BY <1>1, Invariance, PTL

(* A scrape reads the snapshot and the samples of one cycle.                *)
THEOREM ScrapesWhole == Spec => []ScrapeOfOneCycle
<1>1. IInv => ScrapeOfOneCycle
  BY DEF IInv, WaitInv
<1>q. QED
  BY <1>1, Invariance, PTL

(* _running is never left set without a worker, not even by an exception    *)
(* that ends it.                                                            *)
THEOREM RunningSound == Spec => []RunningHasWorker
<1>1. IInv => RunningHasWorker
  BY DEF IInv, WaitInv
<1>q. QED
  BY <1>1, Invariance, PTL

-----------------------------------------------------------------------------
(* The monitor implements MonitorService                                    *)

USE DEF None

(* The phase seen from the worker that _thread names *)
ThreadPhase == IF ~ThreadAlive THEN "down"
               ELSE IF stopEvent THEN "stopping" ELSE "up"

(* The phase of the service is that of the worker that _thread names        *)
LEMMA PhaseOfThread == IInv => Phase = ThreadPhase
<1> SUFFICES ASSUME IInv PROVE Phase = ThreadPhase
  OBVIOUS
<1>1. ThreadAlive => thread \in Workers
  BY ConstantsAssumption DEF IInv, TypeOK, ThreadAlive, Workers
<1>2. ThreadAlive <=> \E w \in Workers : Alive(w)
  <2>1. ASSUME NEW w \in Workers, Alive(w) PROVE ThreadAlive
    BY <2>1, Disjoint DEF IInv, WorkerInv, OneWorker, ThreadAlive, Threads
  <2>q. QED
    BY <1>1, <2>1 DEF ThreadAlive
<1>q. QED
  BY <1>2 DEF Phase, ThreadPhase

(* The same after a step                                                    *)
LEMMA PhaseOfThreadNext == IInv' => Phase' = ThreadPhase'
<1>1. (IInv => Phase = ThreadPhase)'
  BY PhaseOfThread, PTL
<1>q. QED
  BY <1>1

(* A step that neither wakes nor ends a worker, nor sets the event under    *)
(* it, nor touches what the service shows, is a stutter of the service.     *)
LEMMA Stutters ==
  ASSUME IInv, IInv',
         ThreadAlive' <=> ThreadAlive,
         ThreadAlive => stopEvent' = stopEvent,
         UNCHANGED <<state, open>>
  PROVE  UNCHANGED Service!vars
<1>1. Phase' = Phase
  BY PhaseOfThread, PhaseOfThreadNext DEF ThreadPhase
<1>q. QED
  BY <1>1 DEF Service!vars

(* Every step of the monitor is a step of the service or leaves what the    *)
(* service shows alone.                                                     *)
LEMMA ServiceStep == IInv /\ IInv' /\ [Next]_vars => [Service!Next]_(Service!vars)
<1> SUFFICES ASSUME IInv, IInv', [Next]_vars
             PROVE  Service!Next \/ UNCHANGED Service!vars
  OBVIOUS
<1> DEFINE Goal == Service!Next \/ UNCHANGED Service!vars
<1> USE ConstantsAssumption, Disjoint
<1>1. ASSUME NEW c \in Clients, StartCall(c) PROVE Goal
  <2>1. ThreadAlive' <=> ThreadAlive
    BY <1>1 DEF StartCall, ThreadAlive, Alive, IInv, WorkerInv, LockInv,
       TypeOK, PcTyped, Threads, StartPC, StopPC, ClientPC, WorkerPC, Goto,
       NotifyAnd, Notified, lifeVars
  <2>. QED
    BY <1>1, <2>1, Stutters DEF StartCall, lifeVars, collVars
<1>2. ASSUME NEW c \in Clients, StartAlive(c) PROVE Goal
  <2>1. ThreadAlive' <=> ThreadAlive
    BY <1>2 DEF StartAlive, ThreadAlive, Alive, IInv, WorkerInv, LockInv,
       TypeOK, PcTyped, Threads, StartPC, StopPC, ClientPC, WorkerPC, Goto,
       NotifyAnd, Notified, lifeVars
  <2>. QED
    BY <1>2, <2>1, Stutters DEF StartAlive, lifeVars, collVars
<1>3. ASSUME NEW c \in Clients, StartProceed(c) PROVE Goal
  <2>1. ThreadAlive' <=> ThreadAlive
    BY <1>3 DEF StartProceed, ThreadAlive, Alive, IInv, WorkerInv, LockInv,
       TypeOK, PcTyped, Threads, StartPC, StopPC, ClientPC, WorkerPC, Goto,
       NotifyAnd, Notified, lifeVars
  <2>. QED
    BY <1>3, <2>1, Stutters DEF StartProceed, lifeVars, collVars
<1>4. ASSUME NEW c \in Clients, CloseOne(c) PROVE Goal
  <2>1. ~ThreadAlive /\ ~ThreadAlive'
    BY <1>4 DEF CloseOne, IInv, WorkerInv, BeyondWorkerPC, StartPC, ThreadAlive,
       Alive, lifeVars
  <2>2. Phase = "down" /\ Phase' = "down"
    BY <2>1, PhaseOfThread, PhaseOfThreadNext DEF ThreadPhase
  <2>3. open # {} /\ UNCHANGED state
    BY <1>4 DEF CloseOne
  <2>. QED
    BY <2>2, <2>3 DEF Service!Next, Service!Release, Service!vars
<1>5. ASSUME NEW c \in Clients, CloseDone(c) PROVE Goal
  <2>1. ThreadAlive' <=> ThreadAlive
    BY <1>5 DEF CloseDone, ThreadAlive, Alive, IInv, WorkerInv, LockInv,
       TypeOK, PcTyped, Threads, StartPC, StopPC, ClientPC, WorkerPC, Goto,
       NotifyAnd, Notified, lifeVars
  <2>. QED
    BY <1>5, <2>1, Stutters DEF CloseDone, lifeVars, collVars
<1>6. ASSUME NEW c \in Clients, StartClear(c) PROVE Goal
  <2>1. ~ThreadAlive
    BY <1>6 DEF StartClear, IInv, WorkerInv, BeyondWorkerPC, StartPC
  <2>2. ~ThreadAlive'
    BY <1>6, <2>1 DEF StartClear, ThreadAlive, Alive, Goto, IInv, TypeOK,
       PcTyped, Threads, Workers
  <2>. QED
    BY <1>6, <2>1, <2>2, Stutters DEF StartClear
<1>7. ASSUME NEW c \in Clients, StartReset(c) PROVE Goal
  <2>1. ~ThreadAlive
    BY <1>7 DEF StartReset, IInv, WorkerInv, BeyondWorkerPC, StartPC
  <2>2. ~ThreadAlive'
    BY <1>7, <2>1 DEF StartReset, ThreadAlive, Alive, Goto, IInv, TypeOK,
       PcTyped, Threads, Workers, lifeVars
  <2>3. Phase = "down" /\ Phase' = "down"
    BY <2>1, <2>2, PhaseOfThread, PhaseOfThreadNext DEF ThreadPhase
  <2>4. state'.sequence = 0 /\ UNCHANGED open
    BY <1>7 DEF StartReset, NoState, collVars
  <2>. QED
    BY <2>3, <2>4 DEF Service!Next, Service!Forget
<1>8. ASSUME NEW c \in Clients, StartInit(c) PROVE Goal
  <2>1. ~ThreadAlive
    BY <1>8 DEF StartInit, IInv, WorkerInv, BeyondWorkerPC, StartPC
  <2>2. ~ThreadAlive'
    BY <1>8, <2>1 DEF StartInit, ThreadAlive, Alive, Goto, IInv, TypeOK,
       PcTyped, Threads, Workers, lifeVars
  <2>3. Phase = "down" /\ Phase' = "down"
    BY <2>1, <2>2, PhaseOfThread, PhaseOfThreadNext DEF ThreadPhase
  <2>4. state.sequence = 0 /\ UNCHANGED state /\ open = {}
    BY <1>8 DEF StartInit, NoState, IInv, WorkerInv, CollectorInv
  <2>. QED
    BY <2>3, <2>4 DEF Service!Next, Service!Acquire, Service!vars
<1>9. ASSUME NEW c \in Clients, StartThread(c) PROVE Goal
  <2>1. ~ThreadAlive /\ state.sequence = 0
    BY <1>9 DEF StartThread, IInv, WorkerInv, BeyondWorkerPC, StartPC, NoState
  <2>2. starts + 1 \in Workers
    BY <1>9 DEF StartThread, IInv, LockInv, TypeOK, StartPC, Workers
  <2>3. pc'[starts + 1] = "check" /\ thread' = starts + 1 /\ thread' # None
    BY <1>9, <2>2 DEF StartThread, IInv, TypeOK, PcTyped, Threads, Workers
  <2>4. ThreadAlive'
    BY <2>3 DEF ThreadAlive, Alive
  <2>5. ~stopEvent
    BY <1>9 DEF StartThread, IInv, WorkerInv
  <2>6. Phase = "down" /\ Phase' = "up"
    BY <1>9, <2>1, <2>4, <2>5, PhaseOfThread, PhaseOfThreadNext
       DEF ThreadPhase, StartThread
  <2>. QED
    BY <1>9, <2>1, <2>6 DEF Service!Next, Service!Boot, StartThread, collVars
<1>10. ASSUME NEW c \in Clients, StartThreadFails(c) PROVE Goal
  <2>1. ~ThreadAlive /\ ~ThreadAlive'
    BY <1>10 DEF StartThreadFails, IInv, WorkerInv, BeyondWorkerPC, StartPC,
       ThreadAlive
  <2>2. Phase = "down" /\ Phase' = "down"
    BY <2>1, PhaseOfThread, PhaseOfThreadNext DEF ThreadPhase
  <2>3. open' = {} /\ UNCHANGED state
    BY <1>10 DEF StartThreadFails, IInv, CollectorInv, NoLeakedCollector
  <2>. QED
    BY <2>2, <2>3 DEF Service!Next, Service!Release
<1>11. ASSUME NEW c \in Clients, StopCall(c) PROVE Goal
  <2>1. ThreadAlive' <=> ThreadAlive
    BY <1>11 DEF StopCall, ThreadAlive, Alive, IInv, WorkerInv, LockInv,
       TypeOK, PcTyped, Threads, StartPC, StopPC, ClientPC, WorkerPC, Goto,
       NotifyAnd, Notified, lifeVars
  <2>. QED
    BY <1>11, <2>1, Stutters DEF StopCall, lifeVars, collVars
<1>12. ASSUME NEW c \in Clients, StopSet(c) PROVE Goal
  <2>1. stopEvent' /\ UNCHANGED <<state, open>>
    BY <1>12 DEF StopSet, collVars
  <2>2. ThreadAlive' <=> ThreadAlive
    BY <1>12 DEF StopSet, ThreadAlive, Alive, Goto, IInv, TypeOK, PcTyped,
       Threads, Workers
  <2>3. CASE stopEvent \/ ~ThreadAlive
    BY <2>1, <2>2, <2>3, Stutters
  <2>4. CASE ~stopEvent /\ ThreadAlive
    <3>1. Phase = "up" /\ Phase' = "stopping"
      BY <2>1, <2>2, <2>4, PhaseOfThread, PhaseOfThreadNext DEF ThreadPhase
    <3>q. QED
      BY <2>1, <3>1 DEF Service!Next, Service!AskStop
  <2>. QED
    BY <2>3, <2>4
<1>13. ASSUME NEW c \in Clients, StopNotify(c) PROVE Goal
  <2>1. NotifyAnd(c, "stop_join") /\ UNCHANGED thread
    BY <1>13 DEF StopNotify, lifeVars
  <2>2. ThreadAlive' <=> ThreadAlive
    <3>1. \A w \in Workers : pc'[w] = pc[w]
      BY <2>1, ClientNotifies DEF IInv
    <3>2. thread # None => thread \in Workers
      BY DEF IInv, TypeOK, Workers
    <3>q. QED
      BY <2>1, <3>1, <3>2 DEF ThreadAlive, Alive
  <2>. QED
    BY <1>13, <2>2, Stutters DEF StopNotify, lifeVars, collVars
<1>14. ASSUME NEW c \in Clients, StopJoined(c) PROVE Goal
  <2>1. ThreadAlive' <=> ThreadAlive
    BY <1>14 DEF StopJoined, ThreadAlive, Alive, IInv, WorkerInv, LockInv,
       TypeOK, PcTyped, Threads, StartPC, StopPC, ClientPC, WorkerPC, Goto,
       NotifyAnd, Notified, lifeVars
  <2>. QED
    BY <1>14, <2>1, Stutters DEF StopJoined, lifeVars, collVars
<1>15. ASSUME NEW c \in Clients, StopTimeout(c) PROVE Goal
  <2>1. ThreadAlive' <=> ThreadAlive
    BY <1>15 DEF StopTimeout, ThreadAlive, Alive, IInv, WorkerInv, LockInv,
       TypeOK, PcTyped, Threads, StartPC, StopPC, ClientPC, WorkerPC, Goto,
       NotifyAnd, Notified, lifeVars
  <2>. QED
    BY <1>15, <2>1, Stutters DEF StopTimeout, lifeVars, collVars
<1>16. ASSUME NEW c \in Clients, StopEnd(c) PROVE Goal
  <2>1. NotifyAnd(c, "idle") /\ UNCHANGED thread
    BY <1>16 DEF StopEnd, lifeVars
  <2>2. ThreadAlive' <=> ThreadAlive
    <3>1. \A w \in Workers : pc'[w] = pc[w]
      BY <2>1, ClientNotifies DEF IInv
    <3>2. thread # None => thread \in Workers
      BY DEF IInv, TypeOK, Workers
    <3>q. QED
      BY <2>1, <3>1, <3>2 DEF ThreadAlive, Alive
  <2>. QED
    BY <1>16, <2>2, Stutters DEF StopEnd, lifeVars, collVars
<1>17. ASSUME NEW c \in Clients, ScrapeSnapshot(c) PROVE Goal
  <2>1. ThreadAlive' <=> ThreadAlive
    BY <1>17 DEF ScrapeSnapshot, ThreadAlive, Alive, IInv, WorkerInv, LockInv,
       TypeOK, PcTyped, Threads, StartPC, StopPC, ClientPC, WorkerPC, Goto,
       NotifyAnd, Notified, lifeVars
  <2>. QED
    BY <1>17, <2>1, Stutters DEF ScrapeSnapshot, lifeVars, collVars
<1>18. ASSUME NEW c \in Clients, ScrapeSamples(c) PROVE Goal
  <2>1. ThreadAlive' <=> ThreadAlive
    BY <1>18 DEF ScrapeSamples, ThreadAlive, Alive, IInv, WorkerInv, LockInv,
       TypeOK, PcTyped, Threads, StartPC, StopPC, ClientPC, WorkerPC, Goto,
       NotifyAnd, Notified, lifeVars
  <2>. QED
    BY <1>18, <2>1, Stutters DEF ScrapeSamples, lifeVars, collVars
<1>19. ASSUME NEW c \in Clients, WaitCall(c) PROVE Goal
  <2>1. ThreadAlive' <=> ThreadAlive
    BY <1>19 DEF WaitCall, ThreadAlive, Alive, IInv, WorkerInv, LockInv,
       TypeOK, PcTyped, Threads, StartPC, StopPC, ClientPC, WorkerPC, Goto,
       NotifyAnd, Notified, lifeVars
  <2>. QED
    BY <1>19, <2>1, Stutters DEF WaitCall, lifeVars, collVars
<1>20. ASSUME NEW c \in Clients, WaitReturn(c) PROVE Goal
  <2>1. ThreadAlive' <=> ThreadAlive
    BY <1>20 DEF WaitReturn, ThreadAlive, Alive, IInv, WorkerInv, LockInv,
       TypeOK, PcTyped, Threads, StartPC, StopPC, ClientPC, WorkerPC, Goto,
       NotifyAnd, Notified, lifeVars
  <2>. QED
    BY <1>20, <2>1, Stutters DEF WaitReturn, lifeVars, collVars
<1>21. ASSUME NEW c \in Clients, WaitSleep(c) PROVE Goal
  <2>1. ThreadAlive' <=> ThreadAlive
    BY <1>21 DEF WaitSleep, ThreadAlive, Alive, IInv, WorkerInv, LockInv,
       TypeOK, PcTyped, Threads, StartPC, StopPC, ClientPC, WorkerPC, Goto,
       NotifyAnd, Notified, lifeVars
  <2>. QED
    BY <1>21, <2>1, Stutters DEF WaitSleep, lifeVars, collVars
<1>22. ASSUME NEW c \in Clients, WaitTimeout(c) PROVE Goal
  <2>1. ThreadAlive' <=> ThreadAlive
    BY <1>22 DEF WaitTimeout, ThreadAlive, Alive, IInv, WorkerInv, LockInv,
       TypeOK, PcTyped, Threads, StartPC, StopPC, ClientPC, WorkerPC, Goto,
       NotifyAnd, Notified, lifeVars
  <2>. QED
    BY <1>22, <2>1, Stutters DEF WaitTimeout, lifeVars, collVars
<1>23. ASSUME NEW w \in Workers, SelfStopCall(w) PROVE Goal
  <2>1. ThreadAlive' <=> ThreadAlive
    BY <1>23 DEF SelfStopCall, ThreadAlive, Alive, IInv, WorkerInv, LockInv,
       TypeOK, PcTyped, Threads, StartPC, StopPC, ClientPC, WorkerPC, Goto,
       NotifyAnd, Notified, lifeVars
  <2>. QED
    BY <1>23, <2>1, Stutters DEF SelfStopCall, lifeVars, collVars
<1>24. ASSUME NEW w \in Workers, SelfStopEnter(w) PROVE Goal
  <2>1. ThreadAlive' <=> ThreadAlive
    BY <1>24 DEF SelfStopEnter, ThreadAlive, Alive, IInv, WorkerInv, LockInv,
       TypeOK, PcTyped, Threads, StartPC, StopPC, ClientPC, WorkerPC, Goto,
       NotifyAnd, Notified, lifeVars
  <2>. QED
    BY <1>24, <2>1, Stutters DEF SelfStopEnter, lifeVars, collVars
<1>25. ASSUME NEW w \in Workers, StopSet(w) PROVE Goal
  <2>1. stopEvent' /\ UNCHANGED <<state, open>>
    BY <1>25 DEF StopSet, collVars
  <2>2. ThreadAlive' <=> ThreadAlive
    BY <1>25 DEF StopSet, ThreadAlive, Alive, Goto, IInv, TypeOK, PcTyped,
       Threads, Workers
  <2>3. CASE stopEvent \/ ~ThreadAlive
    BY <2>1, <2>2, <2>3, Stutters
  <2>4. CASE ~stopEvent /\ ThreadAlive
    <3>1. Phase = "up" /\ Phase' = "stopping"
      BY <2>1, <2>2, <2>4, PhaseOfThread, PhaseOfThreadNext DEF ThreadPhase
    <3>q. QED
      BY <2>1, <3>1 DEF Service!Next, Service!AskStop
  <2>. QED
    BY <2>3, <2>4
<1>26. ASSUME NEW w \in Workers, StopNotify(w) PROVE Goal
  <2>1. NotifyAnd(w, "stop_join") /\ Alive(w) /\ UNCHANGED thread
    BY <1>26 DEF StopNotify, lifeVars, Alive
  <2>2. w = thread /\ thread # None
    BY <2>1 DEF IInv, WorkerInv, OneWorker, Workers
  <2>3. pc'[w] = "stop_join"
    BY <2>1 DEF NotifyAnd, Notified, IInv, TypeOK, PcTyped, Threads
  <2>4. ThreadAlive' /\ ThreadAlive
    BY <2>1, <2>2, <2>3 DEF ThreadAlive, Alive
  <2>. QED
    BY <1>26, <2>4, Stutters DEF StopNotify, lifeVars, collVars
<1>27. ASSUME NEW w \in Workers, StopSelf(w) PROVE Goal
  <2>1. ThreadAlive' <=> ThreadAlive
    BY <1>27 DEF StopSelf, ThreadAlive, Alive, IInv, WorkerInv, LockInv,
       TypeOK, PcTyped, Threads, StartPC, StopPC, ClientPC, WorkerPC, Goto,
       NotifyAnd, Notified, lifeVars
  <2>. QED
    BY <1>27, <2>1, Stutters DEF StopSelf, lifeVars, collVars
<1>28. ASSUME NEW w \in Workers, Check(w) PROVE Goal
  <2>1. Alive(w) /\ UNCHANGED thread
    BY <1>28 DEF Check, lifeVars, Alive
  <2>2. w = thread /\ thread # None
    BY <2>1 DEF IInv, WorkerInv, OneWorker, Workers
  <2>3. pc'[w] \in {"finally", "gather"}
    BY <1>28 DEF Check, Goto, IInv, TypeOK, PcTyped, Threads
  <2>4. ThreadAlive' /\ ThreadAlive
    BY <2>1, <2>2, <2>3 DEF ThreadAlive, Alive
  <2>. QED
    BY <1>28, <2>4, Stutters DEF Check, lifeVars
<1>29. ASSUME NEW w \in Workers, BeginCollect(w) PROVE Goal
  <2>1. ThreadAlive' <=> ThreadAlive
    BY <1>29 DEF BeginCollect, ThreadAlive, Alive, IInv, WorkerInv, LockInv,
       TypeOK, PcTyped, Threads, StartPC, StopPC, ClientPC, WorkerPC, Goto,
       NotifyAnd, Notified, lifeVars
  <2>. QED
    BY <1>29, <2>1, Stutters DEF BeginCollect, lifeVars, collVars
<1>30. ASSUME NEW w \in Workers, EndCollect(w) PROVE Goal
  <2>1. ThreadAlive' <=> ThreadAlive
    BY <1>30 DEF EndCollect, ThreadAlive, Alive, IInv, WorkerInv, LockInv,
       TypeOK, PcTyped, Threads, StartPC, StopPC, ClientPC, WorkerPC, Goto,
       NotifyAnd, Notified, lifeVars
  <2>. QED
    BY <1>30, <2>1, Stutters DEF EndCollect, lifeVars, collVars
<1>31. ASSUME NEW w \in Workers, CollectDone(w) PROVE Goal
  <2>1. ThreadAlive' <=> ThreadAlive
    BY <1>31 DEF CollectDone, ThreadAlive, Alive, IInv, WorkerInv, LockInv,
       TypeOK, PcTyped, Threads, StartPC, StopPC, ClientPC, WorkerPC, Goto,
       NotifyAnd, Notified, lifeVars
  <2>. QED
    BY <1>31, <2>1, Stutters DEF CollectDone, lifeVars, collVars
<1>32. ASSUME NEW w \in Workers, CycleRaises(w) PROVE Goal
  <2>1. ThreadAlive' <=> ThreadAlive
    BY <1>32 DEF CycleRaises, ThreadAlive, Alive, IInv, WorkerInv, LockInv,
       TypeOK, PcTyped, Threads, StartPC, StopPC, ClientPC, WorkerPC, Goto,
       NotifyAnd, Notified, lifeVars
  <2>. QED
    BY <1>32, <2>1, Stutters DEF CycleRaises, lifeVars, collVars
<1>33. ASSUME NEW w \in Workers, Publish(w) PROVE Goal
  <2>1. NotifyAnd(w, "sleep") /\ Alive(w) /\ UNCHANGED <<thread, stopEvent>>
    BY <1>33 DEF Publish, lifeVars, Alive
  <2>2. w = thread /\ thread # None
    BY <2>1 DEF IInv, WorkerInv, OneWorker, Workers
  <2>3. pc'[w] = "sleep"
    BY <2>1 DEF NotifyAnd, Notified, IInv, TypeOK, PcTyped, Threads
  <2>4. ThreadAlive' /\ ThreadAlive
    BY <2>1, <2>2, <2>3 DEF ThreadAlive, Alive
  <2>5. Phase' = Phase /\ Phase \in {"up", "stopping"}
    BY <2>1, <2>4, PhaseOfThread, PhaseOfThreadNext DEF ThreadPhase
  <2>6. state'.sequence = state.sequence + 1 /\ UNCHANGED open
    BY <1>33 DEF Publish, collVars
  <2>. QED
    BY <2>5, <2>6 DEF Service!Next, Service!Publish
<1>34. ASSUME NEW w \in Workers, Wake(w) PROVE Goal
  <2>1. ThreadAlive' <=> ThreadAlive
    BY <1>34 DEF Wake, ThreadAlive, Alive, IInv, WorkerInv, LockInv,
       TypeOK, PcTyped, Threads, StartPC, StopPC, ClientPC, WorkerPC, Goto,
       NotifyAnd, Notified, lifeVars
  <2>. QED
    BY <1>34, <2>1, Stutters DEF Wake, lifeVars, collVars
<1>35. ASSUME NEW w \in Workers, Finally(w) PROVE Goal
  <2>1. NotifyAnd(w, "exiting") /\ Alive(w) /\ UNCHANGED thread
    BY <1>35 DEF Finally, lifeVars, Alive
  <2>2. w = thread /\ thread # None
    BY <2>1 DEF IInv, WorkerInv, OneWorker, Workers
  <2>3. pc'[w] = "exiting"
    BY <2>1 DEF NotifyAnd, Notified, IInv, TypeOK, PcTyped, Threads
  <2>4. ThreadAlive' /\ ThreadAlive
    BY <2>1, <2>2, <2>3 DEF ThreadAlive, Alive
  <2>. QED
    BY <1>35, <2>4, Stutters DEF Finally, lifeVars, collVars
<1>36. ASSUME NEW w \in Workers, Exit(w) PROVE Goal
  <2>1. Alive(w) /\ UNCHANGED <<thread, state, open>>
    BY <1>36 DEF Exit, lifeVars, collVars, Alive
  <2>2. w = thread /\ thread # None
    BY <2>1 DEF IInv, WorkerInv, OneWorker, Workers
  <2>3. pc'[w] = "dead"
    BY <1>36 DEF Exit, Goto, IInv, TypeOK, PcTyped, Threads
  <2>4. ~ThreadAlive' /\ ThreadAlive
    BY <2>1, <2>2, <2>3 DEF ThreadAlive, Alive
  <2>5. Phase' = "down" /\ Phase \in {"up", "stopping"}
    BY <2>4, PhaseOfThread, PhaseOfThreadNext DEF ThreadPhase
  <2>. QED
    BY <2>1, <2>5 DEF Service!Next, Service!End
<1>37. CASE Expire \/ Quiescent \/ UNCHANGED vars
  BY <1>37, Stutters DEF Expire, Quiescent, vars, lifeVars, collVars, ThreadAlive, Alive
<1>q. QED
  BY <1>1, <1>2, <1>3, <1>4, <1>5, <1>6, <1>7, <1>8, <1>9, <1>10, <1>11, <1>12,
     <1>13, <1>14, <1>15, <1>16, <1>17, <1>18, <1>19, <1>20, <1>21, <1>22, <1>23, <1>24,
     <1>25, <1>26, <1>27, <1>28, <1>29, <1>30, <1>31, <1>32, <1>33, <1>34, <1>35, <1>36,
     <1>37
     DEF Next, ClientStep, WorkerStep

(* The threads, locks and events implement the plain service: resources     *)
(* change hands only while it is down, each run starts from sequence 0 and  *)
(* counts one by one, and a stop is not taken back under a live worker.     *)
THEOREM Refinement == Spec => ImplementsService
<1>1. Init => Service!Init
  <2> SUFFICES ASSUME Init PROVE Service!Init
    OBVIOUS
  <2>1. \A w \in Workers : ~Alive(w)
    BY DEF Init, Threads, Alive
  <2>q. QED
    BY <2>1 DEF Init, Service!Init, Phase, NoState
<1>2. IInv /\ IInv' /\ [Next]_vars => [Service!Next]_(Service!vars)
  BY ServiceStep
<1>q. QED
  BY <1>1, <1>2, Invariance, PTL DEF Spec, Service!Spec, ImplementsService
=============================================================================
