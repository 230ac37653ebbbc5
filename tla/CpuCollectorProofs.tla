------------------------- MODULE CpuCollectorProofs -------------------------
(***************************************************************************)
(* Proofs about CpuCollector for every timeout, pipe and length of run.    *)
(***************************************************************************)
EXTENDS CpuCollector, SequenceTheorems, TLAPS

USE DEF Never, Started

(* A collector is created with the types, and the discipline, of its state  *)
LEMMA InitHolds == Init => TypeOK /\ CInv
<1> SUFFICES ASSUME Init PROVE TypeOK /\ CInv
  OBVIOUS
<1>1. pipe \in Seq(Lines) /\ Len(pipe) = 0
  BY DEF Init
<1>2. /\ mode \in Modes /\ helper \in {"none", "running"}
      /\ mode = "required" => helper = "running"
      /\ answer \in Answers[mode]
  BY DEF Init, Modes, Answers
<1>0. /\ helper # "none" => stdout
      /\ helper = "none" => rpc = "done"
      /\ helper # "exited" /\ rpc \in {"reading", "done"}
      /\ broken = failure
  BY <1>2 DEF Init
<1>3. TypeOK
  <2>1. stdout \in BOOLEAN /\ failure \in BOOLEAN /\ broken \in BOOLEAN
    BY DEF Init
  <2>2. sawFailure \in BOOLEAN /\ gone \in BOOLEAN /\ closed \in BOOLEAN
    BY DEF Init
  <2>3. /\ {latest, sawLatest, baseline, calledAt, calledBefore} \subseteq Instants
        /\ proc \subseteq Instants
        /\ clock \in Started .. MaxTime /\ pc = "idle" /\ line \in Lines
    BY CollectorAssumption DEF Init, Instants, Lines
  <2>q. QED
    BY <1>0, <1>1, <1>2, <2>1, <2>2, <2>3, CollectorAssumption DEF TypeOK
<1>4. OutputInv
  <2>1. FailureIsReal
    BY <1>0 DEF FailureIsReal
  <2>q. QED
    BY <1>0, <1>1, <2>1 DEF OutputInv
<1>5. CallInv /\ CloseInv
  BY <1>2 DEF Init, CallInv, CloseInv, CollectPC, NoGhostHelper, RequiredIsLoud,
       FallbackIsRecent
<1>q. QED
  BY <1>3, <1>4, <1>5 DEF CInv

(* What a line printed or read leaves in the pipe *)
LEMMA PipeTyped ==
  ASSUME TypeOK, PrintLine \/ ReadLine
  PROVE  pipe' \in Seq(Lines) /\ Len(pipe') <= PipeSize
<1>0. pipe \in Seq(Lines) /\ Len(pipe) <= PipeSize /\ PipeSize \in Nat
  BY CollectorAssumption DEF TypeOK
<1>1. CASE PrintLine
  <2>1. PICK l \in Lines : pipe' = Append(pipe, l)
    BY <1>1 DEF PrintLine
  <2>q. QED
    BY <1>0, <1>1, <2>1, AppendProperties DEF PrintLine
<1>2. CASE ReadLine
  BY <1>0, <1>2, HeadTailProperties DEF ReadLine
<1>q. QED
  BY <1>1, <1>2

(* Every step of the helper, of the reader and of the caller keeps the      *)
(* types; in particular each mode returns only answers of its own.          *)
LEMMA TypeStep == TypeOK /\ [Next]_vars => TypeOK'
<1> SUFFICES ASSUME TypeOK, [Next]_vars PROVE TypeOK'
  OBVIOUS
<1> USE DEF TypeOK
<1>1. CASE Tick
  BY <1>1, CollectorAssumption DEF Tick, helperVars, readerVars, callVars, sawVars
<1>2. CASE PrintLine
  <2>1. broken' \in BOOLEAN
    BY <1>2 DEF PrintLine
  <2>q. QED
    BY <1>2, <2>1, PipeTyped DEF PrintLine, helperVars, readerVars, callVars, sawVars
<1>3. CASE EndOutput \/ Exit
  <2>1. broken' \in BOOLEAN /\ stdout' \in BOOLEAN
    BY <1>3 DEF EndOutput, Exit
  <2>2. /\ helper' \in {"none", "running", "exited"}
        /\ UNCHANGED <<mode, clock, pipe, readerVars, pc, closed, latest, failure,
                       callVars, sawVars, answer>>
    BY <1>3 DEF EndOutput, Exit
  <2>q. QED
    BY <2>1, <2>2 DEF readerVars, callVars, sawVars
<1>4. CASE ReadLine
  <2>1. line' \in Lines
    BY <1>4, HeadTailProperties DEF ReadLine
  <2>q. QED
    BY <1>4, <2>1, PipeTyped DEF ReadLine, helperVars, callVars, sawVars
<1>5. CASE TakeLine \/ Store \/ ReadEnd \/ ReadClosed \/ TestClosed \/ Fail
  <2>1. failure' \in BOOLEAN
    BY <1>5 DEF TakeLine, Store, ReadEnd, ReadClosed, TestClosed, Fail
  <2>2. /\ rpc' \in {"reading", "line", "store", "ended", "failing", "done",
                   "dead"}
        /\ line' \in Lines /\ latest' \in Instants
        /\ UNCHANGED <<mode, clock, helperVars, pipe, pc, closed, callVars,
                       sawVars, answer, broken>>
    BY <1>5 DEF TakeLine, Store, ReadEnd, ReadClosed, TestClosed, Fail, Lines,
         Instants
  <2>q. QED
    BY <2>1, <2>2 DEF helperVars, callVars, sawVars
<1>6. CASE CollectCall
  <2>1. proc' \subseteq Instants /\ baseline' \in Instants
    BY <1>6 DEF CollectCall, Instants
  <2>2. answer' \in Answers[mode]
    BY <1>6 DEF CollectCall, Answers, Modes
  <2>3. gone' \in BOOLEAN /\ sawFailure' \in BOOLEAN
    BY <1>6 DEF CollectCall
  <2>4. /\ {sawLatest', calledAt', calledBefore'} \subseteq Instants
        /\ pc' \in {"poll", "read", "answer"}
        /\ UNCHANGED <<mode, clock, helperVars, pipe, readerVars, closed, latest,
                       failure, broken>>
    BY <1>6 DEF CollectCall, Instants
  <2>q. QED
    BY <2>1, <2>2, <2>3, <2>4 DEF helperVars, readerVars
<1>7. CASE Poll \/ Read
  BY <1>7 DEF Poll, Read, Instants, helperVars, readerVars, callVars, sawVars
<1>8. CASE Answer
  <2>1. Attached => mode # "disabled"
    BY DEF Attached
  <2>2. answer' \in Answers[mode]
    BY <1>8, <2>1 DEF Answer, Answers, Modes
  <2>q. QED
    BY <1>8, <2>2 DEF Answer, helperVars, readerVars, callVars, sawVars
<1>9. CASE CloseCall
  <2>1. answer' \in Answers[mode]
    BY <1>9 DEF CloseCall, Answers, Modes
  <2>2. closed' \in BOOLEAN /\ gone' \in BOOLEAN /\ sawFailure' \in BOOLEAN
    BY <1>9 DEF CloseCall, NoCall
  <2>3. /\ {sawLatest', calledAt', calledBefore'} \subseteq Instants
        /\ proc' \subseteq Instants /\ pc' \in {"closed", "close_poll"}
        /\ UNCHANGED <<mode, clock, helperVars, pipe, readerVars, latest, failure,
                       baseline, broken>>
    BY <1>9 DEF CloseCall, NoCall, Instants
  <2>q. QED
    BY <2>1, <2>2, <2>3 DEF helperVars, readerVars
<1>10. CASE Close
  BY <1>10 DEF Close, ClosePoll, Waited, WaitExpires, Join, helperVars, readerVars,
       callVars, sawVars
<1>11. CASE UNCHANGED vars
  BY <1>11 DEF vars, helperVars, readerVars, callVars, sawVars
<1>q. QED
  BY <1>1, <1>2, <1>3, <1>4, <1>5, <1>6, <1>7, <1>8, <1>9, <1>10, <1>11
     DEF Next, Helper, Reader, Collect, Finished

(* The end of the output is told from a close of the collector              *)
LEMMA OutputStep == TypeOK /\ OutputInv /\ CallInv /\ [Next]_vars => OutputInv'
<1> SUFFICES ASSUME TypeOK, OutputInv, CallInv, [Next]_vars PROVE OutputInv'
  OBVIOUS
<1> USE DEF OutputInv, FailureIsReal
<1>1. CASE Tick
  BY <1>1 DEF Tick, helperVars, readerVars
<1>2. CASE PrintLine
  <2>1. PICK l \in Lines : /\ pipe' = Append(pipe, l)
                           /\ broken' = (broken \/ (l = "undecodable" /\ ~closed))
    BY <1>2 DEF PrintLine
  <2>2. ASSUME NEW i \in 1 .. Len(pipe'), pipe'[i] = "undecodable"
        PROVE  broken' \/ closed
    <3>1. /\ Len(pipe') = Len(pipe) + 1 /\ Len(pipe) \in Nat
          /\ pipe'[i] = IF i = Len(pipe) + 1 THEN l ELSE pipe[i]
      BY <2>1, AppendProperties, LenProperties DEF TypeOK
    <3>2. CASE i = Len(pipe) + 1
      BY <2>1, <2>2, <3>1, <3>2
    <3>3. CASE i # Len(pipe) + 1
      <4>1. i \in 1 .. Len(pipe) /\ pipe[i] = "undecodable"
        BY <2>2, <3>1, <3>3
      <4>q. QED
        BY <2>1, <4>1
    <3>q. QED
      BY <3>2, <3>3
  <2>3. broken => broken'
    BY <2>1
  <2>4. UNCHANGED <<helper, stdout, rpc, closed, failure>>
    BY <1>2 DEF PrintLine, helperVars, readerVars
  <2>q. QED
    BY <2>2, <2>3, <2>4
<1>3. CASE EndOutput \/ Exit
  <2>1. broken' \/ closed'
    BY <1>3 DEF EndOutput, Exit
  <2>2. /\ broken => broken'
        /\ helper' = "none" <=> helper = "none"
        /\ ~stdout'
    BY <1>3 DEF EndOutput, Exit, OutputInv
  <2>3. UNCHANGED <<pipe, rpc, failure>>
    BY <1>3 DEF EndOutput, Exit, readerVars
  <2>q. QED
    BY <2>1, <2>2, <2>3
<1>4. CASE ReadLine
  <2>1. Len(pipe) \in Nat /\ Len(pipe) >= 1 /\ Head(pipe) = pipe[1]
    BY <1>4, HeadTailProperties, LenProperties, EmptySeq DEF TypeOK, ReadLine
  <2>2. rpc' = "ended" => broken \/ closed
    BY <1>4, <2>1 DEF ReadLine
  <2>3. /\ pipe' = Tail(pipe) /\ Len(pipe') = Len(pipe) - 1
        /\ \A i \in 1 .. Len(pipe') : pipe'[i] = pipe[i + 1]
    BY <1>4, HeadTailProperties DEF TypeOK, ReadLine
  <2>4. \A i \in 1 .. Len(pipe') : pipe'[i] = "undecodable" => broken \/ closed
    BY <2>1, <2>3
  <2>5. rpc' \in {"ended", "line"} /\ rpc = "reading"
        /\ UNCHANGED <<helper, stdout, closed, failure, broken>>
    BY <1>4 DEF ReadLine, helperVars
  <2>q. QED
    BY <2>2, <2>4, <2>5
<1>5. CASE TakeLine \/ Store \/ ReadClosed
  BY <1>5 DEF TakeLine, Store, ReadClosed, helperVars
<1>6. CASE ReadEnd \/ TestClosed \/ Fail
  BY <1>6 DEF ReadEnd, TestClosed, Fail, helperVars
<1>7. CASE CollectCall \/ Read \/ Answer \/ Close
  BY <1>7 DEF CollectCall, Read, Answer, Close, ClosePoll, Waited, WaitExpires, Join,
       helperVars, readerVars
<1>8. CASE Poll
  <2>1. helper = "exited" => broken
    BY <1>8 DEF Poll, CallInv, CollectPC
  <2>q. QED
    BY <1>8, <2>1 DEF Poll, helperVars, readerVars
<1>9. CASE CloseCall
  BY <1>9 DEF CloseCall, helperVars, readerVars
<1>10. CASE UNCHANGED vars
  BY <1>10 DEF vars, helperVars, readerVars
<1>q. QED
  BY <1>1, <1>2, <1>3, <1>4, <1>5, <1>6, <1>7, <1>8, <1>9, <1>10
     DEF Next, Helper, Reader, Collect, Finished

(* An empty answer of "required" was given before any sample had come       *)
LEMMA PendingIsEarly ==
  ASSUME TypeOK, Answer, answer' = "pending"
  PROVE  sawLatest = Never /\ ~sawFailure
<1>1. mode = "required" /\ ~Attached /\ ~Hopeless
  BY DEF Answer
<1>2. ~sawFailure /\ ~TimedOut /\ ~Fresh
  BY <1>1 DEF Attached, Hopeless
<1>3. clock \in Nat /\ clock >= 1 /\ sawLatest \in Nat /\ Timeout \in Nat
  BY CollectorAssumption DEF TypeOK, Instants
<1>4. sawLatest # Never => clock - sawLatest <= Timeout
  BY <1>2, <1>3 DEF TimedOut
<1>q. QED
  BY <1>2, <1>4 DEF Fresh

(* What collect has seen of the helper, and the baseline of /proc/stat,     *)
(* stay those of the present call.                                          *)
LEMMA CallStep == TypeOK /\ OutputInv /\ CallInv /\ [Next]_vars => CallInv'
<1> SUFFICES ASSUME TypeOK, OutputInv, CallInv, [Next]_vars PROVE CallInv'
  OBVIOUS
<1> USE DEF CallInv, NoGhostHelper, RequiredIsLoud, FallbackIsRecent, CollectPC
<1>1. CASE Tick \/ PrintLine \/ EndOutput \/ Exit
  BY <1>1 DEF Tick, PrintLine, EndOutput, Exit, helperVars, readerVars, callVars, sawVars
<1>2. CASE Reader
  <2>1. failure => failure'
    BY <1>2 DEF Reader, ReadLine, TakeLine, Store, ReadEnd, ReadClosed, TestClosed, Fail
  <2>2. UNCHANGED <<mode, helper, pc, closed, callVars, sawVars, answer>>
    BY <1>2 DEF Reader, ReadLine, TakeLine, Store, ReadEnd, ReadClosed, TestClosed,
         Fail, helperVars
  <2>q. QED
    BY <2>1, <2>2 DEF callVars, sawVars
<1>3. CASE CollectCall
  <2>1. proc' \subseteq {baseline} /\ baseline' \in {clock, Never}
        /\ calledAt' = clock /\ calledBefore' = calledAt
    BY <1>3 DEF CollectCall
  <2>2. baseline \in {Never, calledAt} /\ ~closed'
    BY <1>3 DEF CollectCall, Free
  <2>3. gone' <=> helper' = "exited"
    BY <1>3 DEF CollectCall, helperVars
  <2>4. /\ pc' = "answer" => mode' = "disabled"
        /\ pc' = "read" => helper' = "none"
        /\ pc' = "poll" => helper' # "none"
        /\ pc' \in {"answer", "read", "poll"}
    BY <1>3 DEF CollectCall, helperVars
  <2>q. QED
    BY <2>1, <2>2, <2>3, <2>4
<1>4. CASE Poll
  BY <1>4 DEF Poll, helperVars, callVars, sawVars
<1>5. CASE Read
  BY <1>5 DEF Read, helperVars, callVars
<1>6. CASE Answer
  <2>1. answer' = "pending" => sawLatest = Never /\ ~sawFailure
    BY <1>6, PendingIsEarly
  <2>2. answer' = "ebpf" => mode # "disabled" /\ ~sawFailure
    BY <1>6 DEF Answer, Attached
  <2>3. answer' = "pending" => mode # "disabled"
    BY <1>6 DEF Answer
  <2>4. pc = "answer" /\ pc' = "answered"
        /\ UNCHANGED <<mode, helper, closed, failure, callVars, sawVars>>
    BY <1>6 DEF Answer, helperVars
  <2>q. QED
    BY <2>1, <2>2, <2>3, <2>4 DEF callVars, sawVars
<1>7. CASE CloseCall
  BY <1>7 DEF CloseCall, NoCall
<1>8. CASE Close
  BY <1>8 DEF Close, ClosePoll, Waited, WaitExpires, Join, helperVars, callVars, sawVars
<1>9. CASE UNCHANGED vars
  BY <1>9 DEF vars, helperVars, callVars, sawVars
<1>q. QED
  BY <1>1, <1>2, <1>3, <1>4, <1>5, <1>6, <1>7, <1>8, <1>9
     DEF Next, Helper, Collect, Finished

(* Once close has seen the helper's end, the helper stays ended             *)
LEMMA CloseStep == TypeOK /\ CloseInv /\ [Next]_vars => CloseInv'
<1> SUFFICES ASSUME TypeOK, CloseInv, [Next]_vars PROVE CloseInv'
  OBVIOUS
<1>1. helper' = "running" => helper = "running"
  BY DEF Next, Tick, Helper, PrintLine, EndOutput, Exit, Reader, ReadLine, TakeLine, Store,
       ReadEnd, ReadClosed, TestClosed, Fail, Collect, CollectCall, Poll, Read, Answer,
       CloseCall, Close, ClosePoll, Waited, WaitExpires, Join, Finished, vars, helperVars
<1>2. pc' \in {"join", "closed"} => pc \in {"join", "closed"} \/ helper # "running"
  BY DEF Next, Tick, Helper, PrintLine, EndOutput, Exit, Reader, ReadLine, TakeLine, Store,
       ReadEnd, ReadClosed, TestClosed, Fail, Collect, CollectCall, Poll, Read, Answer,
       CloseCall, Close, ClosePoll, Waited, WaitExpires, Join, Finished, vars
<1>q. QED
  BY <1>1, <1>2 DEF CloseInv

(* The invariants together hold in every reachable state                    *)
THEOREM Invariance == Spec => [](TypeOK /\ CInv)
<1>1. TypeOK /\ CInv /\ [Next]_vars => (TypeOK /\ CInv)'
  BY TypeStep, OutputStep, CallStep, CloseStep DEF CInv
<1>q. QED
  BY <1>1, InitHolds, PTL DEF Spec

(* Every variable has its type; in particular "required" never answers from *)
(* /proc/stat and "disabled" never from the helper.                         *)
THEOREM TypeCorrect == Spec => []TypeOK
BY Invariance, PTL

(* The only failures recorded are those of a helper that failed before the  *)
(* collector was closed, whatever the reader finds while close proceeds.    *)
THEOREM FailuresReal == Spec => []FailureIsReal
<1>1. CInv => FailureIsReal
  BY DEF CInv, OutputInv
<1>q. QED
  BY <1>1, Invariance, PTL

(* collect never answers that it is attached to a helper that had ended     *)
(* when it was called.                                                      *)
THEOREM NoGhosts == Spec => []NoGhostHelper
<1>1. CInv => NoGhostHelper
  BY DEF CInv, CallInv
<1>q. QED
  BY <1>1, Invariance, PTL

(* In "required" collect is never silent once something was wrong.          *)
THEOREM RequiredRaises == Spec => []RequiredIsLoud
<1>1. CInv => RequiredIsLoud
  BY DEF CInv, CallInv
<1>q. QED
  BY <1>1, Invariance, PTL

(* The fallback never measures from a baseline older than the call before.  *)
THEOREM FallbackFresh == Spec => []FallbackIsRecent
<1>1. CInv => FallbackIsRecent
  BY DEF CInv, CallInv
<1>q. QED
  BY <1>1, Invariance, PTL

(* A close that returns leaves no helper running                            *)
THEOREM ClosedIsReaped == Spec => []CloseReaps
<1>1. CInv => CloseReaps
  BY DEF CInv, CloseInv, CloseReaps
<1>q. QED
  BY <1>1, Invariance, PTL
=============================================================================
