------------------------------ MODULE Monitor ------------------------------
(***************************************************************************)
(* The Monitor object of monitor.py: its lifecycle (start, stop), the      *)
(* worker thread that collects and publishes, and the threads that read    *)
(* what was published (prometheus_snapshot) or wait for it                 *)
(* (wait_for_snapshot).                                                    *)
(*                                                                         *)
(* Every thread has a program counter; a step is what the code does        *)
(* between two points where another thread can be seen or see it: taking a *)
(* lock, an access to _stop_event or _collectors outside _condition, a     *)
(* section under _condition, a join, the call of a collector.  A section   *)
(* under _condition is one step, except prometheus_snapshot's, which reads *)
(* _state twice and whose two reads are two steps under the lock.          *)
(*                                                                         *)
(* A worker is named by the number of the start that created it, and a     *)
(* collector object by that number and the collector's name: the factories *)
(* of _initialize_collectors make new objects at each start.               *)
(***************************************************************************)
EXTENDS Naturals, FiniteSets

CONSTANTS
    Clients,      \* threads that call start, stop and the readers
    Names,        \* names of the collectors that are selected
    Categories,   \* categories of a snapshot that can be available
    Requests,     \* [min, need]: arguments of wait_for_snapshot
    MaxStarts,    \* bound: starts that get as far as creating a worker
    MaxSeq,       \* bound: cycles published by one worker
    MaxCalls      \* bound: calls the clients make altogether

Workers == 1 .. MaxStarts
None == 0                          \* no thread: a free lock, _thread = None

ASSUME ConstantsAssumption ==
    /\ MaxStarts \in Nat /\ MaxSeq \in Nat /\ MaxCalls \in Nat
    /\ Clients \cap (0 .. MaxStarts) = {}
    /\ \A r \in Requests : r.min \in Nat \ {0} /\ r.need \subseteq Categories

Threads == Clients \cup Workers
Objects == Workers \X Names        \* <<start, name>>: one collector object

Snapshots == [sequence : Nat, available : SUBSET Categories]
NoState == [sequence |-> 0, available |-> {}]

VARIABLES
    pc,           \* where each thread is
    lifecycle,    \* holder of _lifecycle
    condition,    \* holder of _condition between two steps
    stopEvent,    \* _stop_event.is_set()
    running,      \* _running
    thread,       \* _thread
    starts,       \* workers created so far
    collectors,   \* _collectors: objects it holds
    open,         \* objects created and not yet closed
    todo,         \* worker: names its cycle has still to visit
    using,        \* worker: the objects inside whose collect() it is
    state,        \* _state: the published snapshot
    fresh,        \* its age is below stale_after_seconds
    seen,         \* reader: the snapshot it has read
    want,         \* waiter: its request
    calls         \* calls made so far

lifeVars == <<lifecycle, stopEvent, running, thread, starts>>
collVars == <<collectors, open, todo, using>>
readVars == <<seen, want, calls>>
vars == <<pc, lifeVars, condition, collVars, state, fresh, readVars>>

StartPC == {"start_check", "start_close", "start_clear", "start_reset",
            "start_init", "start_thread"}
StopPC == {"stop_set", "stop_notify", "stop_join", "stop_close", "stop_end"}
ClientPC == {"idle", "wait_check", "waiting", "scrape"} \cup StartPC \cup StopPC
WorkerPC == {"unborn", "check", "gather", "collecting", "self_stop", "publish",
             "sleep", "finally", "exiting", "dead",
             "stop_set", "stop_notify", "stop_join"}

Init ==
    /\ pc = [t \in Threads |-> IF t \in Workers THEN "unborn" ELSE "idle"]
    /\ lifecycle = None /\ condition = None
    /\ stopEvent = FALSE /\ running = FALSE
    /\ thread = None /\ starts = 0
    /\ collectors = {} /\ open = {}
    /\ todo = [w \in Workers |-> {}] /\ using = [w \in Workers |-> {}]
    /\ state = NoState /\ fresh = FALSE
    /\ seen = [c \in Clients |-> NoState]
    /\ want \in [Clients -> {{}}]
    /\ calls = 0

(* is_alive() of a worker *)
Alive(w) == pc[w] \notin {"unborn", "dead"}
ThreadAlive == thread # None /\ Alive(thread)

Goto(t, label) == pc' = [pc EXCEPT ![t] = label]

(* A new call of client c: one of the MaxCalls of the run *)
Call(c) == pc[c] = "idle" /\ calls < MaxCalls /\ calls' = calls + 1

(* notify_all: every sleeper leaves the wait set and queues for _condition *)
Notified(f) ==
    [t \in Threads |-> IF f[t] = "waiting" THEN "wait_check" ELSE f[t]]
NotifyAnd(t, label) == pc' = Notified([pc EXCEPT ![t] = label])

-----------------------------------------------------------------------------
(* start *)

(* The caller enters "with self._lifecycle" *)
StartCall(c) ==
    /\ Call(c)
    /\ lifecycle = None /\ starts < MaxStarts
    /\ lifecycle' = c
    /\ Goto(c, "start_check")
    /\ UNCHANGED <<stopEvent, running, thread, starts, condition, collVars,
                   state, fresh, seen, want>>

(* The worker lives: start returns the monitor, or raises when a stop is    *)
(* under way.  Neither touches the monitor.                                 *)
StartAlive(c) ==
    /\ pc[c] = "start_check" /\ ThreadAlive
    /\ lifecycle' = None
    /\ Goto(c, "idle")
    /\ UNCHANGED <<stopEvent, running, thread, starts, condition, collVars,
                   state, fresh, readVars>>

(* Fault: a worker that was asked to stop counts as gone *)
StartProceed_EndingIsGone(c) ==
    /\ pc[c] = "start_check" /\ (~ThreadAlive \/ stopEvent)
    /\ Goto(c, "start_close")
    /\ UNCHANGED <<lifeVars, condition, collVars, state, fresh, readVars>>

StartProceed(c) ==
    /\ pc[c] = "start_check" /\ ~ThreadAlive
    /\ Goto(c, "start_close")
    /\ UNCHANGED <<lifeVars, condition, collVars, state, fresh, readVars>>

(* _close_collectors: close() of one object, then _collectors = {} *)
CloseOne(t) ==
    /\ pc[t] \in {"start_close", "stop_close"}
    /\ \E o \in collectors \cap open : open' = open \ {o}
    /\ UNCHANGED <<pc, lifeVars, condition, collectors, todo, using, state,
                   fresh, readVars>>

CloseDone(t) ==
    /\ pc[t] \in {"start_close", "stop_close"}
    /\ collectors \cap open = {}
    /\ collectors' = {}
    /\ Goto(t, IF pc[t] = "start_close" THEN "start_clear" ELSE "stop_end")
    /\ UNCHANGED <<lifeVars, condition, open, todo, using, state, fresh,
                   readVars>>

StartClear(c) ==
    /\ pc[c] = "start_clear"
    /\ stopEvent' = FALSE /\ collectors' = {}
    /\ Goto(c, "start_reset")
    /\ UNCHANGED <<lifecycle, running, thread, starts, condition, open, todo,
                   using, state, fresh, readVars>>

(* Fault: a new run keeps the snapshot of the previous one *)
StartReset_KeepsState(c) ==
    /\ pc[c] = "start_reset" /\ condition = None
    /\ Goto(c, "start_init")
    /\ UNCHANGED <<lifeVars, condition, collVars, state, fresh, readVars>>

StartReset(c) ==
    /\ pc[c] = "start_reset" /\ condition = None
    /\ state' = NoState /\ fresh' = FALSE
    /\ Goto(c, "start_init")
    /\ UNCHANGED <<lifeVars, condition, collVars, readVars>>

(* _initialize_collectors: some factories may fail; the others' objects     *)
(* hold resources (the CPU collector's helper process) from here on.        *)
StartInit(c) ==
    /\ pc[c] = "start_init"
    /\ \E made \in SUBSET Names :
          /\ collectors' = {starts + 1} \X made
          /\ open' = open \cup ({starts + 1} \X made)
    /\ Goto(c, "start_thread")
    /\ UNCHANGED <<lifeVars, condition, todo, using, state, fresh, readVars>>

StartThread(c) ==
    /\ pc[c] = "start_thread" /\ condition = None
    /\ running' = TRUE
    /\ starts' = starts + 1 /\ thread' = starts + 1
    /\ lifecycle' = None
    /\ pc' = [pc EXCEPT ![c] = "idle", ![starts + 1] = "check"]
    /\ UNCHANGED <<stopEvent, condition, collVars, state, fresh, readVars>>

(* Fault: the collectors of a run that could not begin are only dropped *)
StartThreadFails_DropsCollectors(c) ==
    /\ pc[c] = "start_thread" /\ condition = None
    /\ running' = FALSE
    /\ starts' = starts + 1 /\ thread' = None
    /\ collectors' = {}
    /\ lifecycle' = None
    /\ pc' = [pc EXCEPT ![c] = "idle", ![starts + 1] = "dead"]
    /\ UNCHANGED <<stopEvent, condition, open, todo, using, state, fresh,
                   readVars>>

(* Thread.start() raises: _thread is dropped and the collectors are closed  *)
StartThreadFails(c) ==
    /\ pc[c] = "start_thread" /\ condition = None
    /\ running' = FALSE
    /\ starts' = starts + 1 /\ thread' = None
    /\ open' = open \ collectors /\ collectors' = {}
    /\ lifecycle' = None
    /\ pc' = [pc EXCEPT ![c] = "idle", ![starts + 1] = "dead"]
    /\ UNCHANGED <<stopEvent, condition, todo, using, state, fresh, readVars>>

-----------------------------------------------------------------------------
(* stop, called by a client or by a collector on the worker's own thread    *)

StopCall(c) ==
    /\ Call(c)
    /\ lifecycle = None
    /\ lifecycle' = c
    /\ Goto(c, "stop_set")
    /\ UNCHANGED <<stopEvent, running, thread, starts, condition, collVars,
                   state, fresh, seen, want>>

(* A collector calls stop: its thread now waits for _lifecycle *)
SelfStopCall(w) ==
    /\ pc[w] = "collecting"
    /\ Goto(w, "self_stop")
    /\ UNCHANGED <<lifeVars, condition, collVars, state, fresh, readVars>>

SelfStopEnter(w) ==
    /\ pc[w] = "self_stop" /\ lifecycle = None
    /\ lifecycle' = w
    /\ Goto(w, "stop_set")
    /\ UNCHANGED <<stopEvent, running, thread, starts, condition, collVars,
                   state, fresh, readVars>>

StopSet(t) ==
    /\ pc[t] = "stop_set"
    /\ stopEvent' = TRUE
    /\ Goto(t, "stop_notify")
    /\ UNCHANGED <<lifecycle, running, thread, starts, condition, collVars,
                   state, fresh, readVars>>

StopNotify(t) ==
    /\ pc[t] = "stop_notify" /\ condition = None
    /\ NotifyAnd(t, "stop_join")
    /\ UNCHANGED <<lifeVars, condition, collVars, state, fresh, readVars>>

(* The worker cannot join itself: stop raises inside the collector, whose    *)
(* collect() ends with that failure, and the event stays set.               *)
StopSelf(w) ==
    /\ pc[w] = "stop_join" /\ thread = w
    /\ lifecycle' = None
    /\ using' = [using EXCEPT ![w] = {}]
    /\ Goto(w, "gather")
    /\ UNCHANGED <<stopEvent, running, thread, starts, condition, collectors,
                   open, todo, state, fresh, readVars>>

(* Fault: is_alive is not tested after join(timeout) *)
StopJoined_Unchecked(c) ==
    /\ pc[c] = "stop_join"
    /\ Goto(c, "stop_close")
    /\ UNCHANGED <<lifeVars, condition, collVars, state, fresh, readVars>>

StopJoined(c) ==
    /\ pc[c] = "stop_join" /\ ~ThreadAlive
    /\ Goto(c, "stop_close")
    /\ UNCHANGED <<lifeVars, condition, collVars, state, fresh, readVars>>

(* join(timeout) expires and the worker is alive: stop raises, the          *)
(* collectors stay open.                                                    *)
StopTimeout(c) ==
    /\ pc[c] = "stop_join" /\ ThreadAlive
    /\ lifecycle' = None
    /\ Goto(c, "idle")
    /\ UNCHANGED <<stopEvent, running, thread, starts, condition, collVars,
                   state, fresh, readVars>>

StopEnd(c) ==
    /\ pc[c] = "stop_end" /\ condition = None
    /\ running' = FALSE
    /\ lifecycle' = None
    /\ NotifyAnd(c, "idle")
    /\ UNCHANGED <<stopEvent, thread, starts, condition, collVars, state,
                   fresh, readVars>>

-----------------------------------------------------------------------------
(* The worker: _run and _collect_once *)

(* Fault: the event skips a cycle and does not end the loop *)
Check_SkipsCycle(w) ==
    /\ pc[w] = "check"
    /\ IF stopEvent
         THEN Goto(w, "sleep") /\ UNCHANGED todo
         ELSE /\ Goto(w, "gather")
              /\ todo' = [todo EXCEPT ![w] = {o[2] : o \in collectors}]
    /\ UNCHANGED <<lifeVars, condition, collectors, open, using, state, fresh,
                   readVars>>

(* "while not self._stop_event.is_set()", and the names of the cycle *)
Check(w) ==
    /\ pc[w] = "check"
    /\ IF stopEvent
         THEN Goto(w, "finally") /\ UNCHANGED todo
         ELSE /\ Goto(w, "gather")
              /\ todo' = [todo EXCEPT ![w] = {o[2] : o \in collectors}]
    /\ UNCHANGED <<lifeVars, condition, collectors, open, using, state, fresh,
                   readVars>>

(* self._collectors[name].collect(): the object is looked up at each turn   *)
BeginCollect(w) ==
    /\ pc[w] = "gather"
    /\ \E n \in todo[w] :
          /\ todo' = [todo EXCEPT ![w] = @ \ {n}]
          /\ using' = [using EXCEPT ![w] = {o \in collectors : o[2] = n}]
    /\ Goto(w, "collecting")
    /\ UNCHANGED <<lifeVars, condition, collectors, open, state, fresh,
                   readVars>>

(* collect() returns or raises; the failure stays in the diagnostics *)
EndCollect(w) ==
    /\ pc[w] = "collecting"
    /\ using' = [using EXCEPT ![w] = {}]
    /\ Goto(w, "gather")
    /\ UNCHANGED <<lifeVars, condition, collectors, open, todo, state, fresh,
                   readVars>>

CollectDone(w) ==
    /\ pc[w] = "gather" /\ todo[w] = {}
    /\ Goto(w, "publish")
    /\ UNCHANGED <<lifeVars, condition, collVars, state, fresh, readVars>>

(* An exception that _collect_once does not catch ends the loop *)
CycleRaises(w) ==
    /\ pc[w] = "publish"
    /\ Goto(w, "finally")
    /\ UNCHANGED <<lifeVars, condition, collVars, state, fresh, readVars>>

(* Fault: the waiters are not notified *)
Publish_Silent(w) ==
    /\ pc[w] = "publish" /\ condition = None
    /\ \E available \in SUBSET Categories :
          state' = [sequence |-> state.sequence + 1, available |-> available]
    /\ fresh' = TRUE
    /\ Goto(w, "sleep")
    /\ UNCHANGED <<lifeVars, condition, collVars, readVars>>

(* Snapshot, samples and instant are replaced together; sequence grows by 1 *)
Publish(w) ==
    /\ pc[w] = "publish" /\ condition = None
    /\ \E available \in SUBSET Categories :
          state' = [sequence |-> state.sequence + 1, available |-> available]
    /\ fresh' = TRUE
    /\ NotifyAnd(w, "sleep")
    /\ UNCHANGED <<lifeVars, condition, collVars, readVars>>

(* _stop_event.wait returns: the event is set or the next slot has come.    *)
(* Bound: no slot after MaxSeq cycles.                                      *)
Wake(w) ==
    /\ pc[w] = "sleep"
    /\ stopEvent \/ state.sequence < MaxSeq
    /\ Goto(w, "check")
    /\ UNCHANGED <<lifeVars, condition, collVars, state, fresh, readVars>>

Finally(w) ==
    /\ pc[w] = "finally" /\ condition = None
    /\ running' = FALSE
    /\ NotifyAnd(w, "exiting")
    /\ UNCHANGED <<lifecycle, stopEvent, thread, starts, condition, collVars,
                   state, fresh, readVars>>

Exit(w) ==
    /\ pc[w] = "exiting"
    /\ Goto(w, "dead")
    /\ UNCHANGED <<lifeVars, condition, collVars, state, fresh, readVars>>

-----------------------------------------------------------------------------
(* The readers *)

(* The age of the snapshot reaches stale_after_seconds *)
Expire ==
    /\ fresh
    /\ fresh' = FALSE
    /\ UNCHANGED <<pc, lifeVars, condition, collVars, state, readVars>>

(* Fault: _condition is released between the two reads *)
ScrapeSnapshot_Unlocked(c) ==
    /\ Call(c)
    /\ condition = None
    /\ seen' = [seen EXCEPT ![c] = state]
    /\ Goto(c, "scrape")
    /\ UNCHANGED <<lifeVars, condition, collVars, state, fresh, want>>

(* prometheus_snapshot: the JSON, then the samples, under one lock *)
ScrapeSnapshot(c) ==
    /\ Call(c)
    /\ condition = None
    /\ condition' = c
    /\ seen' = [seen EXCEPT ![c] = state]
    /\ Goto(c, "scrape")
    /\ UNCHANGED <<lifeVars, collVars, state, fresh, want>>

ScrapeSamples(c) ==
    /\ pc[c] = "scrape"
    /\ condition' = None
    /\ seen' = [seen EXCEPT ![c] = NoState]
    /\ Goto(c, "idle")
    /\ UNCHANGED <<lifeVars, collVars, state, fresh, want, calls>>

WaitCall(c) ==
    /\ Call(c)
    /\ \E r \in Requests : want' = [want EXCEPT ![c] = {r}]
    /\ Goto(c, "wait_check")
    /\ UNCHANGED <<lifeVars, condition, collVars, state, fresh, seen>>

(* The test of wait_for_snapshot: ready, not stale, recent enough, complete *)
Satisfied(r) ==
    /\ state.available # {} /\ fresh
    /\ state.sequence >= r.min
    /\ r.need \subseteq state.available

(* The snapshot is returned, or None: the deadline has passed (at any time) *)
(* or the monitor does not run.                                             *)
WaitReturn(c) ==
    /\ pc[c] = "wait_check" /\ condition = None
    /\ want' = [want EXCEPT ![c] = {}]
    /\ Goto(c, "idle")
    /\ UNCHANGED <<lifeVars, condition, collVars, state, fresh, seen, calls>>

(* Fault: the stop event is not looked at before sleeping *)
WaitSleep_IgnoresStop(c) ==
    /\ pc[c] = "wait_check" /\ condition = None
    /\ \A r \in want[c] : ~Satisfied(r)
    /\ running
    /\ Goto(c, "waiting")
    /\ UNCHANGED <<lifeVars, condition, collVars, state, fresh, readVars>>

(* Fault: the wait depends on its deadline alone *)
WaitSleep_DeadlineOnly(c) ==
    /\ pc[c] = "wait_check" /\ condition = None
    /\ \A r \in want[c] : ~Satisfied(r)
    /\ Goto(c, "waiting")
    /\ UNCHANGED <<lifeVars, condition, collVars, state, fresh, readVars>>

WaitSleep(c) ==
    /\ pc[c] = "wait_check" /\ condition = None
    /\ \A r \in want[c] : ~Satisfied(r)
    /\ running /\ ~stopEvent
    /\ Goto(c, "waiting")
    /\ UNCHANGED <<lifeVars, condition, collVars, state, fresh, readVars>>

(* condition.wait(remaining) times out *)
WaitTimeout(c) ==
    /\ pc[c] = "waiting"
    /\ Goto(c, "wait_check")
    /\ UNCHANGED <<lifeVars, condition, collVars, state, fresh, readVars>>

-----------------------------------------------------------------------------

(* What client c does once it is in a call; only its sleep ends otherwise *)
ClientStep(c) ==
    \/ StartAlive(c) \/ StartProceed(c) \/ StartClear(c) \/ StartReset(c)
    \/ StartInit(c) \/ StartThread(c) \/ StartThreadFails(c)
    \/ CloseOne(c) \/ CloseDone(c)
    \/ StopSet(c) \/ StopNotify(c) \/ StopJoined(c) \/ StopTimeout(c)
    \/ StopEnd(c)
    \/ ScrapeSamples(c) \/ WaitReturn(c) \/ WaitSleep(c)

WorkerStep(w) ==
    \/ Check(w) \/ BeginCollect(w) \/ EndCollect(w) \/ CollectDone(w)
    \/ Publish(w) \/ Wake(w) \/ Finally(w) \/ Exit(w)
    \/ SelfStopEnter(w) \/ StopSet(w) \/ StopNotify(w) \/ StopSelf(w)

(* Every call of the bound is made and has returned, the worker is gone or  *)
(* sleeps until a slot past the bound.                                      *)
Quiescent ==
    /\ calls = MaxCalls /\ \A c \in Clients : pc[c] = "idle"
    /\ \A w \in Workers : \/ ~Alive(w)
                           \/ (pc[w] = "sleep" /\ ~stopEvent)
    /\ UNCHANGED vars

Next ==
    \/ \E c \in Clients : \/ StartCall(c) \/ StopCall(c)
                           \/ ScrapeSnapshot(c) \/ WaitCall(c)
                           \/ ClientStep(c) \/ WaitTimeout(c)
    \/ \E w \in Workers : \/ WorkerStep(w)
                           \/ SelfStopCall(w) \/ CycleRaises(w)
    \/ Expire
    \/ Quiescent

Spec == Init /\ [][Next]_vars

(* A thread inside the monitor keeps running: the locks are held for a few  *)
(* statements, a collector returns, join has a timeout.  Nothing is assumed *)
(* of new calls, of the timeout of a wait, of a self-stop or of a failure.  *)
Fairness ==
    /\ \A c \in Clients : WF_vars(ClientStep(c))
    /\ \A w \in Workers : WF_vars(WorkerStep(w))

FairSpec == Spec /\ Fairness

-----------------------------------------------------------------------------
(* Properties *)

PcTyped(f) ==
    /\ f \in [Threads -> ClientPC \cup WorkerPC]
    /\ \A c \in Clients : f[c] \in ClientPC
    /\ \A w \in Workers : f[w] \in WorkerPC

TypeOK ==
    /\ PcTyped(pc)
    /\ lifecycle \in Threads \cup {None}
    /\ condition \in Clients \cup {None}
    /\ stopEvent \in BOOLEAN /\ running \in BOOLEAN /\ fresh \in BOOLEAN
    /\ thread \in 0 .. MaxStarts /\ starts \in 0 .. MaxStarts
    /\ collectors \subseteq Objects /\ open \subseteq Objects
    /\ todo \in [Workers -> SUBSET Names]
    /\ using \in [Workers -> SUBSET Objects]
    /\ state \in Snapshots
    /\ seen \in [Clients -> Snapshots]
    /\ want \in [Clients -> SUBSET Requests]
    /\ calls \in 0 .. MaxCalls

(* start never runs two workers at once, whatever calls of start and stop   *)
(* overlap, time out or fail: the one that lives is _thread.                *)
OneWorker == \A w \in Workers : Alive(w) => w = thread

(* A collector is never closed, and never replaced in _collectors, while    *)
(* the worker is inside its collect(): stop waits for the routine in        *)
(* progress, and start refuses to proceed while an old worker is ending.    *)
NoCloseWhileCollecting ==
    \A w \in Workers : using[w] \subseteq collectors \cap open

(* Whatever fails (a factory, the creation of the thread, a cycle, a join   *)
(* that times out), each open collector is still in _collectors, where the  *)
(* next stop or start finds it and closes it.                               *)
NoLeakedCollector == open \subseteq collectors

(* _running is not left TRUE without a worker that will reset it            *)
RunningHasWorker ==
    running => ThreadAlive /\ pc[thread] # "exiting"

(* No thread sleeps in wait_for_snapshot on a monitor that will not wake it *)
(* up: when the worker is gone or a stop was asked for, the notification    *)
(* has been or is about to be sent.                                         *)
NoSleeperLeftBehind ==
    \A c \in Clients : pc[c] = "waiting" =>
        /\ running
        /\ stopEvent => \E t \in Threads : pc[t] = "stop_notify"

(* No thread sleeps in wait_for_snapshot past a snapshot it asked for       *)
NoMissedSnapshot ==
    \A c \in Clients : pc[c] = "waiting" =>
        \A r \in want[c] : ~Satisfied(r)

(* /metrics renders samples of the cycle whose readiness it reports, even   *)
(* when the worker publishes or a start resets meanwhile.                   *)
ScrapeOfOneCycle ==
    \A c \in Clients : pc[c] = "scrape" => seen[c] = state

(* Once asked to stop, the worker ends, even when a collector calls stop    *)
(* itself while another thread is joining the worker.                       *)
StopSettles == stopEvent ~> ~ThreadAlive

(* A stop ends a wait without the help of its timeout, unless the monitor   *)
(* is started again first.                                                  *)
StopWakesWaiters ==
    \A c \in Clients :
        (pc[c] = "waiting" /\ stopEvent) ~> (pc[c] = "idle" \/ ~stopEvent)

-----------------------------------------------------------------------------
(* What makes the properties inductive: who holds which lock, and what is   *)
(* true of the worker and of the collectors while start and stop proceed.   *)

LockInv ==
    /\ \A t \in Threads : pc[t] \in StartPC \cup StopPC <=> lifecycle = t
    /\ \A c \in Clients : pc[c] = "scrape" <=> condition = c
    /\ \A c \in Clients : pc[c] \in StartPC => starts < MaxStarts

(* Past the test of start and the join of stop, until the lock is released *)
BeyondWorkerPC == (StartPC \ {"start_check"}) \cup {"stop_close", "stop_end"}

WorkerInv ==
    /\ OneWorker
    /\ thread <= starts
    /\ \A w \in Workers : w > starts => pc[w] = "unborn"
    /\ \A c \in Clients :
          /\ pc[c] \in BeyondWorkerPC => ~ThreadAlive
          /\ pc[c] \in {"start_init", "start_thread"} => state = NoState
          /\ pc[c] \in {"start_reset", "start_init", "start_thread"} => ~stopEvent

(* Inside a collector, which may be calling stop *)
CollectPC == {"collecting", "self_stop", "stop_set", "stop_notify", "stop_join"}

CollectorInv ==
    /\ NoLeakedCollector
    /\ NoCloseWhileCollecting
    /\ ThreadAlive => collectors = open
    /\ \A w \in Workers : pc[w] \notin CollectPC => using[w] = {}
    /\ \A c \in Clients :
          /\ pc[c] \in {"start_clear", "start_reset", "start_init", "stop_end"}
                => open = {}
          /\ pc[c] = "start_thread" => collectors = open

WaitInv ==
    /\ RunningHasWorker
    /\ NoSleeperLeftBehind
    /\ NoMissedSnapshot
    /\ ScrapeOfOneCycle

IInv == TypeOK /\ LockInv /\ WorkerInv /\ CollectorInv /\ WaitInv

-----------------------------------------------------------------------------
(* The service this monitor implements *)

Phase == IF \A w \in Workers : ~Alive(w) THEN "down"
         ELSE IF stopEvent THEN "stopping" ELSE "up"

Service == INSTANCE MonitorService
             WITH phase <- Phase, sequence <- state.sequence, held <- open # {}

(* Resources change hands only while no worker lives, a run starts from an  *)
(* empty snapshot and counts its cycles one by one, nothing is published    *)
(* without a worker, and a stop that was asked for is not taken back while  *)
(* the worker lives.                                                        *)
ImplementsService == Service!Spec
=============================================================================
