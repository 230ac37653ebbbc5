---------------------------- MODULE CpuCollector ----------------------------
(***************************************************************************)
(* The CpuCollector object of collectors/cpu/collector.py: the helper      *)
(* process it starts, the thread that reads the helper's stdout, and the   *)
(* caller that collects and at last closes.  Collecting and closing do not *)
(* overlap (Monitor's NoCloseWhileCollecting), so the caller is one        *)
(* process; helper and reader run beside it.                               *)
(*                                                                         *)
(* A line of the pipe is what the reader makes of it.  The thread that     *)
(* logs stderr and the messages are left out.                              *)
(***************************************************************************)
EXTENDS Naturals, Sequences

CONSTANTS
    Timeout,    \* max(1.0, interval * 3)
    PipeSize,   \* lines the pipe holds
    MaxTime     \* bound: the clock stops there

ASSUME CollectorAssumption ==
    Timeout \in Nat \ {0} /\ PipeSize \in Nat /\ MaxTime \in Nat \ {0}

Never == 0                              \* no instant
Started == 1                            \* _started
Modes == {"auto", "required", "disabled"}
(* An undecodable line raises as it is read, an invalid one in _decode      *)
Lines == {"sample", "invalid", "undecodable"}

VARIABLES
    mode,        \* mode
    clock,       \* time.monotonic()
    helper,      \* "none", "running" or "exited"
    stdout,      \* the helper's end of the pipe is open
    pipe,        \* lines printed and not yet read
    rpc, line,   \* where _read_stdout is, and its line
    pc,          \* where the caller is, in collect or in close
    closed,      \* _closed
    latest,      \* instant of _latest, or Never
    failure,     \* _failure is set
    baseline,    \* instant of _previous_proc, or Never if it is empty
    proc,        \* proc_samples: {} if proc_error, or {the instant they count from}
    sawLatest, sawFailure,   \* "latest, failure" of collect
    answer,      \* what the last collect returned
    broken,      \* history: the helper's output ended before close was called
    gone,        \* history: the helper had exited when collect was called
    calledAt, calledBefore   \* history: this call of collect, the one before

helperVars == <<helper, stdout>>
readerVars == <<rpc, line>>
sawVars == <<sawLatest, sawFailure>>
callVars == <<baseline, proc, gone, calledAt, calledBefore>>
vars == <<mode, clock, helperVars, pipe, readerVars, pc, closed, latest,
          failure, callVars, sawVars, answer, broken>>

(* __init__: in "auto" the helper may not start, which is a failure; then   *)
(* "required" raises, and there is no object.                               *)
Init ==
    /\ mode \in Modes
    /\ helper \in CASE mode = "auto" -> {"none", "running"}
                    [] mode = "required" -> {"running"}
                    [] mode = "disabled" -> {"none"}
    /\ failure = (mode = "auto" /\ helper = "none")
    /\ stdout = (helper = "running")
    /\ rpc = IF helper = "running" THEN "reading" ELSE "done"
    /\ clock = Started /\ pipe = <<>> /\ line = "invalid"
    /\ pc = "idle" /\ closed = FALSE /\ latest = Never
    /\ baseline = Never /\ proc = {}
    /\ sawLatest = Never /\ sawFailure = FALSE /\ answer = "none"
    /\ broken = failure /\ gone = FALSE
    /\ calledAt = Never /\ calledBefore = Never

Tick == /\ clock < MaxTime
        /\ clock' = clock + 1
        /\ UNCHANGED <<mode, helperVars, pipe, readerVars, pc, closed, latest,
                       failure, callVars, sawVars, answer, broken>>

-----------------------------------------------------------------------------
(* The helper: it prints, and it may give up its output or exit at any time *)

PrintLine ==
    /\ stdout /\ Len(pipe) < PipeSize
    /\ \E l \in Lines : /\ pipe' = Append(pipe, l)
                        /\ broken' = (broken \/ (l = "undecodable" /\ ~closed))
    /\ UNCHANGED <<mode, clock, helperVars, readerVars, pc, closed, latest,
                   failure, callVars, sawVars, answer>>

EndOutput ==
    /\ stdout
    /\ stdout' = FALSE
    /\ broken' = (broken \/ ~closed)
    /\ UNCHANGED <<mode, clock, helper, pipe, readerVars, pc, closed, latest,
                   failure, callVars, sawVars, answer>>

Exit ==
    /\ helper = "running"
    /\ helper' = "exited" /\ stdout' = FALSE
    /\ broken' = (broken \/ ~closed)
    /\ UNCHANGED <<mode, clock, pipe, readerVars, pc, closed, latest, failure,
                   callVars, sawVars, answer>>

-----------------------------------------------------------------------------
(* _read_stdout *)

ReadLine ==
    /\ rpc = "reading" /\ pipe # <<>> /\ pc # "closed"
    /\ line' = Head(pipe) /\ pipe' = Tail(pipe)
    /\ rpc' = IF line' = "undecodable" THEN "ended" ELSE "line"
    /\ UNCHANGED <<mode, clock, helperVars, pc, closed, latest, failure,
                   callVars, sawVars, answer, broken>>

(* Fault: a line that cannot be decoded as a sample ends the thread *)
TakeLine_GivesUp ==
    /\ rpc = "line"
    /\ rpc' = IF closed \/ line # "sample" THEN "done" ELSE "store"
    /\ line' = "invalid"
    /\ UNCHANGED <<mode, clock, helperVars, pipe, pc, closed, latest,
                   failure, callVars, sawVars, answer, broken>>

(* "if self._closed: return".  The ValueError or TypeError of an invalid    *)
(* line is logged and the line skipped; OverflowError (float() of an        *)
(* integer too large for it) and RecursionError leave _read_stdout, and the *)
(* thread is dead.                                                          *)
TakeLine ==
    /\ rpc = "line"
    /\ IF closed THEN rpc' = "done"
       ELSE IF line = "sample" THEN rpc' = "store"
       ELSE rpc' \in {"reading", "dead"}
    /\ line' = "invalid"
    /\ UNCHANGED <<mode, clock, helperVars, pipe, pc, closed, latest,
                   failure, callVars, sawVars, answer, broken>>

(* Fault: a sample clears the failure *)
Store_Recovers ==
    /\ rpc = "store"
    /\ latest' = clock /\ failure' = FALSE
    /\ rpc' = "reading"
    /\ UNCHANGED <<mode, clock, helperVars, pipe, line, pc, closed, callVars,
                   sawVars, answer, broken>>

Store ==
    /\ rpc = "store"
    /\ latest' = clock
    /\ rpc' = "reading"
    /\ UNCHANGED <<mode, clock, helperVars, pipe, line, pc, closed, failure,
                   callVars, sawVars, answer, broken>>

ReadEnd ==
    /\ rpc = "reading" /\ pipe = <<>> /\ ~stdout
    /\ rpc' = "ended"
    /\ UNCHANGED <<mode, clock, helperVars, pipe, line, pc, closed, latest,
                   failure, callVars, sawVars, answer, broken>>

(* close has closed the file under the reader: ValueError *)
ReadClosed ==
    /\ rpc = "reading" /\ pc = "closed"
    /\ rpc' = "done"
    /\ UNCHANGED <<mode, clock, helperVars, pipe, line, pc, closed, latest,
                   failure, callVars, sawVars, answer, broken>>

(* Fault: the end of the output is a failure, closed or not *)
TestClosed_Never ==
    /\ rpc = "ended"
    /\ rpc' = "failing"
    /\ UNCHANGED <<mode, clock, helperVars, pipe, line, pc, closed, latest,
                   failure, callVars, sawVars, answer, broken>>

(* "if not self._closed", at the end of the output and at a reading error   *)
TestClosed ==
    /\ rpc = "ended"
    /\ rpc' = IF closed THEN "done" ELSE "failing"
    /\ UNCHANGED <<mode, clock, helperVars, pipe, line, pc, closed, latest,
                   failure, callVars, sawVars, answer, broken>>

(* _fail *)
Fail ==
    /\ rpc = "failing"
    /\ failure' = TRUE
    /\ rpc' = "done"
    /\ UNCHANGED <<mode, clock, helperVars, pipe, line, pc, closed, latest,
                   callVars, sawVars, answer, broken>>

-----------------------------------------------------------------------------
(* collect *)

Free == pc \in {"idle", "answered"} /\ ~closed

(* The locals of collect and what is remembered of its calls, without a call *)
NoCall ==
    /\ proc' = {} /\ sawLatest' = Never /\ sawFailure' = FALSE
    /\ gone' = FALSE /\ calledAt' = Never /\ calledBefore' = Never

(* Fault: the baseline is not renewed while the helper gives samples *)
CollectCall_OnDemand ==
    /\ Free
    /\ \E readable \in BOOLEAN :
          /\ proc' = IF readable THEN {baseline} ELSE {}
          /\ baseline' = IF latest # Never /\ ~failure THEN baseline
                         ELSE IF readable THEN clock ELSE Never
    /\ gone' = (helper = "exited")
    /\ calledAt' = clock /\ calledBefore' = calledAt
    /\ sawLatest' = Never /\ sawFailure' = FALSE /\ answer' = "none"
    /\ pc' = IF mode = "disabled" THEN "answer"
             ELSE IF helper = "none" THEN "read" ELSE "poll"
    /\ UNCHANGED <<mode, clock, helperVars, pipe, readerVars, closed, latest,
                   failure, broken>>

(* _proc_samples: each call renews the baseline, or drops it when           *)
(* /proc/stat holds no counters.                                            *)
CollectCall ==
    /\ Free
    /\ \E readable \in BOOLEAN :
          /\ proc' = IF readable THEN {baseline} ELSE {}
          /\ baseline' = IF readable THEN clock ELSE Never
    /\ gone' = (helper = "exited")
    /\ calledAt' = clock /\ calledBefore' = calledAt
    /\ sawLatest' = Never /\ sawFailure' = FALSE /\ answer' = "none"
    /\ pc' = IF mode = "disabled" THEN "answer"
             ELSE IF helper = "none" THEN "read" ELSE "poll"
    /\ UNCHANGED <<mode, clock, helperVars, pipe, readerVars, closed, latest,
                   failure, broken>>

(* "if process.poll() is not None", _fail *)
Poll ==
    /\ pc = "poll"
    /\ failure' = (failure \/ helper = "exited")
    /\ pc' = "read"
    /\ UNCHANGED <<mode, clock, helperVars, pipe, readerVars, closed, latest,
                   callVars, sawVars, answer, broken>>

Read ==
    /\ pc = "read"
    /\ sawLatest' = latest /\ sawFailure' = failure
    /\ pc' = "answer"
    /\ UNCHANGED <<mode, clock, helperVars, pipe, readerVars, closed, latest,
                   failure, callVars, answer, broken>>

Fresh == sawLatest # Never /\ clock - sawLatest <= Timeout
Attached == mode # "disabled" /\ Fresh /\ ~sawFailure
TimedOut == clock - Started > Timeout

(* Fault: only a failure makes "required" raise *)
Hopeless_OnFailure == sawFailure

Hopeless == sawFailure \/ TimedOut

(* "now" is read after the lock was left *)
Answer ==
    /\ pc = "answer"
    /\ answer' = IF Attached THEN "ebpf"
                 ELSE IF mode = "required"
                        THEN IF Hopeless THEN "raised" ELSE "pending"
                 ELSE IF proc = {} THEN "raised" ELSE "proc"
    /\ pc' = "answered"
    /\ UNCHANGED <<mode, clock, helperVars, pipe, readerVars, closed, latest,
                   failure, callVars, sawVars, broken>>

-----------------------------------------------------------------------------
(* close; a second call returns at once *)

CloseCall ==
    /\ Free
    /\ closed' = TRUE
    /\ pc' = IF helper = "none" THEN "closed" ELSE "close_poll"
    /\ NoCall /\ answer' = "none"
    /\ UNCHANGED <<mode, clock, helperVars, pipe, readerVars, latest, failure,
                   baseline, broken>>

(* A live helper is sent SIGTERM and given three seconds *)
ClosePoll ==
    /\ pc = "close_poll"
    /\ pc' = IF helper = "exited" THEN "join" ELSE "wait"
    /\ UNCHANGED <<mode, clock, helperVars, pipe, readerVars, closed, latest,
                   failure, callVars, sawVars, answer, broken>>

Waited ==
    /\ pc \in {"wait", "killed"} /\ helper = "exited"
    /\ pc' = "join"
    /\ UNCHANGED <<mode, clock, helperVars, pipe, readerVars, closed, latest,
                   failure, callVars, sawVars, answer, broken>>

(* Fault: close goes on without the helper's end *)
WaitExpires_GoesOn ==
    /\ pc \in {"wait", "killed"} /\ helper = "running"
    /\ pc' = "join"
    /\ UNCHANGED <<mode, clock, helperVars, pipe, readerVars, closed, latest,
                   failure, callVars, sawVars, answer, broken>>

(* Fault: close waits for the helper without a limit *)
WaitExpires_Never == pc \in {"wait", "killed"} /\ UNCHANGED vars

(* The helper is killed and given three seconds more; after that            *)
(* TimeoutExpired leaves close.                                             *)
WaitExpires ==
    /\ pc \in {"wait", "killed"} /\ helper = "running"
    /\ pc' = IF pc = "wait" THEN "killed" ELSE "raised"
    /\ UNCHANGED <<mode, clock, helperVars, pipe, readerVars, closed, latest,
                   failure, callVars, sawVars, answer, broken>>

(* join(timeout=1) returns, the reader ended or not; the pipes are closed *)
Join ==
    /\ pc = "join"
    /\ pc' = "closed"
    /\ UNCHANGED <<mode, clock, helperVars, pipe, readerVars, closed, latest,
                   failure, callVars, sawVars, answer, broken>>

-----------------------------------------------------------------------------

Helper == PrintLine \/ EndOutput \/ Exit

Reader == \/ ReadLine \/ TakeLine \/ Store \/ ReadEnd \/ ReadClosed
          \/ TestClosed \/ Fail

Collect == CollectCall \/ Poll \/ Read \/ Answer

Close == ClosePoll \/ Waited \/ WaitExpires \/ Join

(* The collector is closed, and its threads have ended *)
Finished == closed /\ rpc \in {"done", "dead"} /\ UNCHANGED vars

Next == Tick \/ Helper \/ Reader \/ Collect \/ CloseCall \/ Close \/ Finished

Spec == Init /\ [][Next]_vars

(* The reader reads what there is and close proceeds: a line is decoded in  *)
(* a bounded time and each wait has a limit.  Nothing is assumed of the     *)
(* helper, which may ignore SIGTERM, nor of calls of collect and close.     *)
FairSpec == Spec /\ WF_vars(Reader) /\ WF_vars(Close)

-----------------------------------------------------------------------------
(* Properties *)

Instants == Nat

(* What collect can return in each mode *)
Answers == [auto     |-> {"none", "ebpf", "proc", "raised"},
            required |-> {"none", "ebpf", "pending", "raised"},
            disabled |-> {"none", "proc", "raised"}]

TypeOK ==
    /\ mode \in Modes /\ clock \in Started .. MaxTime
    /\ helper \in {"none", "running", "exited"} /\ stdout \in BOOLEAN
    /\ pipe \in Seq(Lines) /\ Len(pipe) <= PipeSize
    /\ rpc \in {"reading", "line", "store", "ended", "failing", "done", "dead"}
    /\ line \in Lines
    /\ pc \in {"idle", "poll", "read", "answer", "answered", "close_poll",
               "wait", "killed", "join", "closed", "raised"}
    /\ closed \in BOOLEAN /\ failure \in BOOLEAN /\ sawFailure \in BOOLEAN
    /\ broken \in BOOLEAN /\ gone \in BOOLEAN
    /\ {latest, sawLatest, baseline, calledAt, calledBefore} \subseteq Instants
    /\ proc \subseteq Instants
    /\ answer \in Answers[mode]

(* The failure of the helper, which is never taken back, is a real one: an  *)
(* orderly close, which ends the output under the reader, records none.     *)
FailureIsReal == failure => broken

(* A collect that begins after the helper's end does not report an attached *)
(* helper, however fresh its last sample and whatever the reader still      *)
(* finds in the pipe.                                                       *)
NoGhostHelper == pc = "answered" /\ answer = "ebpf" => ~gone

(* The empty answer of "required" only means that no sample has come yet: a *)
(* helper that died or went silent raises.                                  *)
RequiredIsLoud ==
    pc = "answered" /\ answer = "pending" => sawLatest = Never /\ ~gone

(* Whenever the collector falls back to /proc/stat, its usage covers the    *)
(* time since the last collect, even if that one had used the helper.       *)
FallbackIsRecent ==
    pc = "answered" /\ answer = "proc" => proc \subseteq {Never, calledBefore}

(* A close that returns has seen the end of the helper                      *)
CloseReaps == pc = "closed" => helper # "running"

(* The end of the helper is noticed without a collect to poll it, unless a  *)
(* line that _decode does not survive had ended the reader: then no failure *)
(* is recorded and only the poll of a later collect finds the helper gone.  *)
EndIsNoticed == helper = "exited" ~> (failure \/ closed \/ rpc = "dead")

(* close ends, even if the helper ignores SIGTERM or cannot be killed       *)
CloseEnds == closed ~> pc \in {"closed", "raised"}

-----------------------------------------------------------------------------
(* What makes the invariants inductive                                      *)

CollectPC == {"poll", "read", "answer", "answered"}

(* An end of the output came from the helper or from close, and the reader  *)
(* comes to it only then.                                                   *)
OutputInv ==
    /\ FailureIsReal
    /\ rpc = "failing" => broken
    /\ rpc = "ended" => broken \/ closed
    /\ helper # "none" /\ ~stdout => broken \/ closed
    /\ \A i \in 1 .. Len(pipe) : pipe[i] = "undecodable" => broken \/ closed
    /\ helper = "none" => rpc = "done"
    /\ helper = "exited" => ~stdout

CallInv ==
    /\ NoGhostHelper /\ RequiredIsLoud /\ FallbackIsRecent
    /\ pc \in CollectPC => ~closed /\ proc \subseteq {Never, calledBefore}
    /\ pc = "poll" => helper # "none"
    /\ gone => helper = "exited"
    /\ gone /\ pc = "read" => failure
    /\ gone /\ pc \in {"answer", "answered"} => sawFailure \/ mode = "disabled"
    /\ ~closed => baseline \in {Never, calledAt}

CloseInv == pc \in {"join", "closed"} => helper # "running"

CInv == OutputInv /\ CallInv /\ CloseInv
=============================================================================
