-------------------------------- MODULE Agent --------------------------------
(***************************************************************************)
(* The process of agent.py: main, from the creation of the monitor to the  *)
(* exit status, with the worker of Scheduler as the monitor's thread.      *)
(* With --once it waits for one valid snapshot (_wait_once, over           *)
(* monitor.wait_for_snapshot), otherwise it serves until a signal.  The    *)
(* clock counts from the start of the worker.                              *)
(***************************************************************************)
EXTENDS Scheduler

CONSTANTS
    Timeout,     \* how long --once waits: 3 intervals, and some more
    StaleAfter,  \* stale_after_seconds: 3 intervals or more
    MaxLag       \* bound: time main may lose between two of its steps

ASSUME AgentAssumption ==
    /\ Timeout \in Nat /\ 3 * Interval < Timeout
    /\ StaleAfter \in Nat /\ 3 * Interval <= StaleAfter
    /\ MaxLag \in Nat

Signals == {"SIGINT", "SIGTERM"}
None == [sequence |-> 0, at |-> 0, ready |-> FALSE, usage |-> FALSE, attached |-> FALSE]

VARIABLES
    once, cpu, required,  \* --once, the CPU is collected, ebpf is "required"
    pc,         \* where main is: "exited" and "killed" are the end
    started,    \* the worker thread was started
    collectors, \* "none", "open", "closed", or "outlived": all were asked to
                \* close, but a CPU helper survived SIGKILL
    handlers,   \* signals whose handler is "stopped.set()"
    stopped,    \* stopped.is_set()
    interrupt,  \* a KeyboardInterrupt is on its way up
    result,     \* result
    state,      \* the monitor's published snapshot
    snapshot,   \* "snapshot" of _wait_once
    limit,      \* its "deadline"
    readAt,     \* when it last read the clock
    minSequence, remaining,  \* arguments of the wait_for_snapshot it calls
    waitEnd     \* "deadline" of that call

config == <<once, cpu, required>>
signal == <<handlers, stopped, interrupt>>
times == <<limit, readAt, minSequence, remaining, waitEnd>>
wait == <<snapshot, times>>
main == <<pc, started, collectors, result>>
agentVars == <<vars, config, signal, wait, main, state>>

AgentInit ==
    /\ Init
    /\ once \in BOOLEAN /\ cpu \in BOOLEAN /\ required \in BOOLEAN
    /\ required => cpu
    /\ pc = "create" /\ started = FALSE /\ collectors = "none"
    /\ handlers = {} /\ stopped = FALSE /\ interrupt = FALSE /\ result = 0
    /\ state = None /\ snapshot = None
    /\ limit = 0 /\ readAt = 0 /\ minSequence = 1 /\ remaining = 0 /\ waitEnd = 0

Over == pc \in {"exited", "killed"}

-----------------------------------------------------------------------------
(* The worker *)

Worker(step) == started /\ ~Over /\ step /\ UNCHANGED <<config, signal, wait, main>>

(* A cycle publishes.  What the server's readers find there is left to      *)
(* Monitor, and ebpf_attached to those who look at it.                      *)
Publish ==
    /\ Worker(EndCycle)
    /\ \E ready, usage, attached \in BOOLEAN :
          /\ usage => ready /\ cpu
          /\ attached => required /\ usage
          /\ state' =
                IF ~once THEN None
                ELSE [sequence |-> state.sequence + 1, at |-> clock,
                      ready |-> ready, usage |-> usage, attached |-> attached]

(* An exception _collect_once does not catch: the thread ends *)
CycleRaises ==
    /\ Worker(mode = "cycle" /\ Die)
    /\ UNCHANGED state

RunStep == Worker(Check \/ Wake) /\ UNCHANGED state

(* Time passes.  Bound: MaxLag while main is between two of its waits.      *)
Pass ==
    /\ Worker(Tick) /\ UNCHANGED state
    /\ pc \in {"limit", "call", "examine"} => clock < readAt + MaxLag

-----------------------------------------------------------------------------
(* main *)

Step(from, to) ==
    /\ pc = from /\ pc' = to
    /\ UNCHANGED <<clock, mode, deadline, now, config, state>>

(* An OSError, RuntimeError or ValueError of the "try" part *)
Error(from) ==
    /\ Step(from, "restore")
    /\ result' = 1
    /\ UNCHANGED <<stopEvent, signal, wait, started, collectors>>

(* _close_collectors: an exception of a close is only logged *)
CloseCollectors == collectors' = "closed" \/ (cpu /\ collectors' = "outlived")

Create ==
    /\ Step("create", IF once THEN "start" ELSE "server")
    /\ UNCHANGED <<stopEvent, signal, wait, started, collectors, result>>

CreateServer ==
    /\ Step("server", "start")
    /\ UNCHANGED <<stopEvent, signal, wait, started, collectors, result>>

(* monitor.start(): where the thread cannot be started it closes what it    *)
(* has created, and raises.                                                 *)
StartFails ==
    /\ Step("start", "restore")
    /\ result' = 1 /\ CloseCollectors
    /\ UNCHANGED <<stopEvent, signal, wait, started>>

Start ==
    /\ Step("start", IF once THEN "limit" ELSE "handle_int")
    /\ started' = TRUE /\ collectors' = "open"
    /\ UNCHANGED <<stopEvent, signal, wait, result>>

(* signal.signal for SIGINT, then SIGTERM *)
Handle(from, s, to) ==
    /\ Step(from, to)
    /\ handlers' = handlers \cup {s}
    /\ UNCHANGED <<stopEvent, stopped, interrupt, wait, started, collectors, result>>

(* "while not stopped.is_set()": a request or half a second goes by *)
Serve ==
    /\ stopped
    /\ Step("serve", "restore")
    /\ UNCHANGED <<stopEvent, signal, wait, started, collectors, result>>

(* _wait_once reads the clock, and its first call is made *)
Limit ==
    /\ Step("limit", "call")
    /\ limit' = clock + Timeout /\ readAt' = clock
    /\ remaining' = Timeout /\ minSequence' = IF cpu THEN 2 ELSE 1
    /\ UNCHANGED <<stopEvent, signal, snapshot, waitEnd, started, collectors, result>>

(* wait_for_snapshot reads it again *)
Call ==
    /\ Step("call", "waiting")
    /\ waitEnd' = clock + remaining
    /\ UNCHANGED <<stopEvent, signal, snapshot, limit, readAt, minSequence,
                   remaining, started, collectors, result>>

(* The variables of _wait_once are gone, as are later those of the process *)
Forget == limit' = 0 /\ readAt' = 0 /\ minSequence' = 1 /\ remaining' = 0 /\ waitEnd' = 0

Satisfied == /\ state.ready /\ clock < state.at + StaleAfter
             /\ state.sequence >= minSequence

(* It returns a snapshot, or None when its time is over or the worker ended *)
Return ==
    /\ \/ /\ Satisfied
          /\ snapshot' = state
          /\ Step("waiting", "examine")
          /\ readAt' = clock /\ minSequence' = 1 /\ remaining' = 0 /\ waitEnd' = 0
          /\ UNCHANGED limit
       \/ /\ ~Satisfied /\ (clock >= waitEnd \/ mode = "done")
          /\ snapshot' = None
          /\ Step("waiting", "judge") /\ Forget
    /\ UNCHANGED <<stopEvent, signal, started, collectors, result>>

Valid(s) == cpu => s.usage /\ (required => s.attached)

(* Fault: each call gets the whole time again *)
Examine_Restarts ==
    /\ IF Valid(snapshot) THEN Step("examine", "judge") /\ Forget
       ELSE /\ Step("examine", "call")
            /\ readAt' = clock /\ remaining' = Timeout
            /\ minSequence' = snapshot.sequence + 1
            /\ UNCHANGED <<limit, waitEnd>>
    /\ UNCHANGED <<snapshot, stopEvent, signal, started, collectors, result>>

(* The snapshot will do, or the rest of the time is given to a later one *)
Examine ==
    /\ \/ Valid(snapshot) /\ Step("examine", "judge") /\ Forget /\ UNCHANGED snapshot
       \/ /\ ~Valid(snapshot) /\ clock >= limit
          /\ Step("examine", "judge") /\ Forget
          /\ snapshot' = None
       \/ /\ ~Valid(snapshot) /\ clock < limit
          /\ Step("examine", "call")
          /\ readAt' = clock /\ remaining' = limit - clock
          /\ minSequence' = snapshot.sequence + 1
          /\ UNCHANGED <<limit, waitEnd, snapshot>>
    /\ UNCHANGED <<stopEvent, signal, started, collectors, result>>

(* No snapshot, or one with an availability in error: the status is 1 *)
Judge ==
    /\ Step("judge", "restore")
    /\ result' \in IF snapshot = None THEN {1} ELSE {0, 1}
    /\ UNCHANGED <<stopEvent, signal, wait, started, collectors>>

(* "finally": the previous handlers return, one by one, then monitor.stop *)
Restore ==
    /\ Step("restore", IF handlers = {} THEN "stop" ELSE "restore")
    /\ handlers' = IF "SIGINT" \in handlers THEN handlers \ {"SIGINT"} ELSE {}
    /\ UNCHANGED <<stopEvent, stopped, interrupt, wait, started, collectors, result>>

(* monitor.stop; without a worker to join it is over at once *)
StopMonitor ==
    /\ Step("stop", IF started THEN "join" ELSE "exited")
    /\ stopEvent' = TRUE
    /\ UNCHANGED <<signal, wait, started, collectors, result>>

(* The worker has ended: stop returns, whatever the closes did *)
Joined ==
    /\ mode = "done"
    /\ Step("join", "exited")
    /\ CloseCollectors
    /\ UNCHANGED <<stopEvent, signal, wait, started, result>>

(* Fault: the error of stop is only logged *)
JoinExpires_Logged ==
    /\ mode # "done"
    /\ Step("join", "exited")
    /\ UNCHANGED <<stopEvent, signal, wait, started, collectors, result>>

(* Fault: join has no timeout *)
JoinExpires_Never ==
    /\ mode # "done" /\ pc = "join"
    /\ UNCHANGED agentVars

(* The worker is still in a cycle after five seconds: stop raises *)
JoinExpires ==
    /\ mode # "done"
    /\ Step("join", "exited")
    /\ result' = 1
    /\ UNCHANGED <<stopEvent, signal, wait, started, collectors>>

Main ==
    \/ Create \/ CreateServer \/ Start \/ StartFails
    \/ \E f \in {"create", "server"} : Error(f)
    \/ Handle("handle_int", "SIGINT", "handle_term")
    \/ Handle("handle_term", "SIGTERM", "serve") \/ Serve
    \/ Limit \/ Call \/ Return \/ Examine \/ Judge
    \/ Restore \/ StopMonitor \/ Joined \/ JoinExpires

Handled(s) ==
    /\ ~Over /\ s \in handlers
    /\ stopped' = TRUE
    /\ UNCHANGED <<vars, config, handlers, interrupt, wait, main, state>>

(* SIGINT without that handler raises KeyboardInterrupt: the finally part   *)
(* runs, unless it is running already.                                      *)
Interrupted ==
    /\ ~Over /\ "SIGINT" \notin handlers
    /\ interrupt' = TRUE
    /\ pc' = IF pc \in {"restore", "stop", "join"} THEN "exited" ELSE "restore"
    /\ Forget /\ snapshot' = None
    /\ UNCHANGED <<vars, config, handlers, stopped, started, collectors, result, state>>

(* SIGTERM without a handler ends the process as it is; the collectors'     *)
(* resources that are not its own, a CPU helper, are left behind.           *)
Killed ==
    /\ ~Over /\ "SIGTERM" \notin handlers
    /\ pc' = "killed"
    /\ mode' = "done" /\ state' = None /\ snapshot' = None /\ Forget
    /\ UNCHANGED <<clock, stopEvent, deadline, now, config, signal, started, collectors,
                   result>>

AgentFinished == Over /\ UNCHANGED agentVars

AgentNext ==
    \/ Publish \/ CycleRaises \/ RunStep \/ Pass \/ Main
    \/ \E s \in Signals : Handled(s)
    \/ Interrupted \/ Killed
    \/ AgentFinished

(* main is scheduled and time passes; nothing is assumed of the worker,     *)
(* whose cycle may never end.                                               *)
AgentSpec == AgentInit /\ [][AgentNext]_agentVars
                       /\ WF_agentVars(Main) /\ WF_agentVars(Pass)

-----------------------------------------------------------------------------
(* Properties *)

Status == IF interrupt THEN 130 ELSE result

(* The exit status 0 means that the worker has ended and all collectors     *)
(* were asked to close, which is not to say that a CPU helper did not       *)
(* outlive its close; that --once had a snapshot with what was asked for,   *)
(* of a cycle that had a baseline for the CPU; and that the server was      *)
(* stopped by a signal.                                                     *)
ZeroMeansClean ==
    pc = "exited" /\ Status = 0 =>
        /\ collectors \in {"closed", "outlived"} /\ mode = "done"
        /\ ~once => stopped
        /\ once => snapshot # None /\ Valid(snapshot)
        /\ once /\ cpu => snapshot.sequence >= 2

(* However often --once waits again, it is for a later snapshot, all waits  *)
(* keep to one deadline but for the time lost in the call under way, and    *)
(* none is given up before that deadline while the worker lives.            *)
Retries ==
    [][/\ pc = "call" /\ pc' = "waiting" => waitEnd' <= limit + (clock - readAt)
       /\ pc = "waiting" /\ pc' = "examine" => snapshot'.sequence > snapshot.sequence
       /\ pc # "judge" /\ pc' = "judge" /\ snapshot' = None =>
             clock >= limit \/ mode = "done"]_agentVars

(* The process ends after a signal it handles, and by itself with --once,   *)
(* even if a collector never returns.                                       *)
Ends == (once \/ stopped) ~> Over

-----------------------------------------------------------------------------
(* What makes them inductive *)

OncePC == {"limit", "call", "waiting", "examine", "judge"}
ServingPC == {"handle_int", "handle_term", "serve"}
ServerPC == {"server"} \cup ServingPC
EarlyPC == {"create", "server", "start", "handle_int", "handle_term", "serve", "limit"}
Snapshots == [sequence : Nat, at : Nat, ready : BOOLEAN, usage : BOOLEAN,
              attached : BOOLEAN]

(* The constants of the run, the variables of main and of _wait_once *)
AgentTypeOK ==
    /\ once \in BOOLEAN /\ cpu \in BOOLEAN /\ required \in BOOLEAN
    /\ pc \in OncePC \cup EarlyPC \cup {"restore", "stop", "join", "exited", "killed"}
    /\ started \in BOOLEAN
    /\ collectors \in {"none", "open", "closed", "outlived"}
    /\ handlers \subseteq Signals /\ stopped \in BOOLEAN /\ interrupt \in BOOLEAN
    /\ result \in {0, 1}
    /\ state \in Snapshots /\ snapshot \in Snapshots
    /\ limit \in Nat /\ readAt \in Nat /\ remaining \in Nat /\ waitEnd \in Nat
    /\ minSequence \in Nat \ {0}

(* What --once looks at has data, and with the CPU it is not the first      *)
SnapshotInv ==
    /\ pc \in EarlyPC => snapshot = None
    /\ pc = "examine" => snapshot.ready /\ (cpu => snapshot.sequence >= 2)

(* The remaining time is that up to the deadline, the wait is for a later   *)
(* snapshot                                                                 *)
WaitInv ==
    /\ readAt <= clock
    /\ pc = "call" => remaining = limit - readAt
    /\ pc \in {"call", "waiting"} =>
         snapshot.sequence < minSequence /\ (cpu => minSequence >= 2)
    /\ pc = "waiting" => limit <= waitEnd

(* What "all went well" means on the way out, before the status is known *)
Well ==
    /\ started /\ (~once => stopped)
    /\ once => snapshot # None /\ Valid(snapshot) /\ (cpu => snapshot.sequence >= 2)

ExitInv ==
    /\ pc \in OncePC => once
    /\ pc \in ServerPC => ~once
    /\ pc \in OncePC \cup ServingPC => started
    /\ pc = "judge" => snapshot = None \/ Well
    /\ pc \in {"restore", "stop", "join", "exited"} /\ Status = 0 => Well
    /\ pc = "exited" /\ Status = 0 =>
         collectors \in {"closed", "outlived"} /\ mode = "done"

AInv == AgentTypeOK /\ SnapshotInv /\ WaitInv /\ ExitInv
=============================================================================
