------------------------------ MODULE ToolLife ------------------------------
(***************************************************************************)
(* The life of the two C programs that carry an eBPF program: main of      *)
(* cpu_usage.c (the collector's helper) and of cpu_alert.c.  Each acquires *)
(* resources one after the other, any of which may be refused, then reads  *)
(* its map at intervals until a signal, and releases what it holds.        *)
(* What the map says is the matter of CpuHelper and CpuAlert.              *)
(***************************************************************************)
EXTENDS CpuList

CONSTANTS
    MaxCount,   \* bound: possible CPUs
    Lines       \* the lines /sys/devices/system/cpu may hold

ASSUME ToolAssumption == MaxCount \in Nat \ {0} /\ Lines \subseteq Seq(Tokens)

Buffers == [cpu_usage |-> {"ids", "online", "first", "second", "current", "previous"},
            cpu_alert |-> {"busy_vals", "idle_vals", "zeros"}]

Resources == {"object", "link"} \cup Buffers.cpu_usage \cup Buffers.cpu_alert

Signals == {"SIGINT", "SIGTERM", "SIGPIPE", "SIGKILL"}

VARIABLES
    tool,       \* the program: "cpu_usage" or "cpu_alert"
    pc,         \* what main does next; "end", "killed" and "crashed" are over
    handled,    \* the signals with a handler
    running,    \* running
    ptr,        \* each pointer: "null", "held", "short" or "freed"
    todo,       \* the releases still to be made, in order
    result,     \* what main returns
    count,      \* count
    ids,        \* ids
    slots,      \* the slots set in online
    line,       \* the line of /sys just read, if any
    accepted,   \* its reader returned 0
    baseline,   \* baseline
    failed,     \* history: some call was refused
    late,       \* history: readings and sleeps begun after a handled signal
    misused     \* history: something was released twice

life == <<tool, handled, running>>
list == <<line, accepted>>
cpus == <<count, ids, slots, list>>
ending == <<todo, result, failed>>
lifeVars == <<life, pc, ptr, ending, cpus, baseline, late, misused>>

LifeInit ==
    /\ tool \in {"cpu_usage", "cpu_alert"}
    /\ pc = "int" /\ handled = {} /\ running = TRUE
    /\ ptr = [r \in Resources |-> "null"] /\ todo = <<>> /\ result = 1
    /\ count = 0 /\ ids = <<>> /\ slots = {} /\ line = <<>> /\ accepted = FALSE
    /\ baseline = TRUE /\ failed = FALSE /\ late = 0 /\ misused = FALSE

-----------------------------------------------------------------------------
(* Leaving *)

Cleanup == [cpu_usage |-> <<"ids", "online", "first", "second", "current",
                            "previous", "link", "object">>,
            cpu_alert |-> <<"busy_vals", "idle_vals", "zeros", "link", "object">>]

(* Fault: the branch for a missing map closes the object only *)
Undo_ForgetsLink(step) ==
    CASE tool = "cpu_usage" -> Cleanup.cpu_usage
      [] tool = "cpu_alert" /\ step = "open" -> <<>>
      [] OTHER -> <<"object">>

(* What main releases when a step is refused: cpu_usage has one cleanup for *)
(* all of them, each branch of cpu_alert has its own.                       *)
Undo(step) ==
    CASE tool = "cpu_usage" -> Cleanup.cpu_usage
      [] tool = "cpu_alert" /\ step = "open" -> <<>>
      [] tool = "cpu_alert" /\ step \in {"load", "find", "attach"} -> <<"object">>
      [] OTHER -> <<"link", "object">>

Refuse == /\ pc' = "release" /\ todo' = Undo(pc)
          /\ failed' = TRUE /\ UNCHANGED result

Go(step) == pc' = step /\ UNCHANGED ending

(* Releasing NULL does nothing; the last release is followed by the return *)
Release ==
    /\ pc = "release" /\ todo # <<>>
    /\ misused' = (misused \/ ptr[Head(todo)] = "freed")
    /\ ptr' = [ptr EXCEPT ![Head(todo)] = IF @ = "null" THEN @ ELSE "freed"]
    /\ todo' = Tail(todo)
    /\ UNCHANGED <<life, pc, result, failed, cpus, baseline, late>>

Return ==
    /\ pc = "release" /\ todo = <<>>
    /\ Go("end")
    /\ UNCHANGED <<life, ptr, cpus, baseline, late, misused>>

-----------------------------------------------------------------------------
(* Getting ready *)

Install ==
    /\ pc \in {"int", "term"}
    /\ handled' = handled \cup {IF pc = "int" THEN "SIGINT" ELSE "SIGTERM"}
    /\ Go(IF pc = "int" THEN "term" ELSE "open")
    /\ UNCHANGED <<tool, running, ptr, cpus, baseline, late, misused>>

(* bpf_object__open_file, bpf_program__attach: a pointer, or NULL *)
Acquire(step, r, next) ==
    /\ pc = step
    /\ \/ ptr' = [ptr EXCEPT ![r] = "held"] /\ Go(next)
       \/ UNCHANGED ptr /\ Refuse
    /\ UNCHANGED <<life, cpus, baseline, late, misused>>

(* bpf_object__load, bpf_object__find_program_by_name *)
Prepare(step, next) ==
    /\ pc = step
    /\ Go(next) \/ Refuse
    /\ UNCHANGED <<life, ptr, cpus, baseline, late, misused>>

(* The map's descriptor and the number of possible CPUs.  Without a number  *)
(* cpu_usage gives up and cpu_alert goes on with one CPU (count = 0 here).  *)
FindMap ==
    /\ pc = "map"
    /\ \/ \E n \in 0 .. MaxCount : /\ tool = "cpu_usage" => n > 0
                                   /\ count' = n
          /\ Go("alloc")
       \/ UNCHANGED count /\ Refuse
    /\ UNCHANGED <<life, ptr, ids, slots, list, baseline, late, misused>>

(* cpu_usage checks its buffers.  cpu_alert does not, and allocates too     *)
(* little for the map if it has no number of CPUs.                          *)
Allocate ==
    /\ pc = "alloc"
    /\ \E got \in SUBSET Buffers[tool] :
          /\ ptr' = [r \in Resources |->
                       IF r \in got THEN IF count = 0 THEN "short" ELSE "held"
                       ELSE ptr[r]]
          /\ IF tool = "cpu_alert" THEN Go("loop")
             ELSE IF got = Buffers[tool] THEN Go("possible") ELSE Refuse
    /\ UNCHANGED <<life, cpus, baseline, late, misused>>

(* possible_cpu_ids *)
ReadPossible ==
    /\ pc = "possible"
    /\ \E l \in Lines : /\ line' = l
                       /\ ids' = PossibleIds(l, count).ids
                       /\ accepted' = PossibleIds(l, count).ok
    /\ Go("possible_read")
    /\ UNCHANGED <<life, ptr, count, slots, baseline, late, misused>>

(* Its result, or that of online_cpus; the file may be unreadable *)
TestList(step, read, next) ==
    /\ \/ pc = read /\ IF accepted THEN Go(next) ELSE Refuse
       \/ pc = step /\ Refuse
    /\ line' = <<>> /\ accepted' = FALSE
    /\ UNCHANGED <<life, ptr, count, ids, slots, baseline, late, misused>>

-----------------------------------------------------------------------------
(* The loop *)

(* A reading or a sleep begins *)
Begin == late' = IF ~running /\ late < 2 THEN late + 1 ELSE late

(* Fault: the loop has no end *)
Loop_Forever ==
    /\ pc = "loop"
    /\ Go(IF tool = "cpu_usage" THEN "online" ELSE "sleep")
    /\ UNCHANGED <<life, ptr, cpus, baseline, late, misused>>

(* "while (running)" *)
Loop ==
    /\ pc = "loop"
    /\ IF running THEN Go(IF tool = "cpu_usage" THEN "online" ELSE "sleep")
       ELSE /\ pc' = "release" /\ todo' = Cleanup[tool]
            /\ result' = 0 /\ UNCHANGED failed
    /\ UNCHANGED <<life, ptr, cpus, baseline, late, misused>>

(* online_cpus, every time: CPUs come and go *)
ReadOnline ==
    /\ pc = "online"
    /\ \E l \in Lines : /\ line' = l
                       /\ slots' = OnlineSlots(l, ids).slots
                       /\ accepted' = OnlineSlots(l, ids).ok
    /\ Go("online_read")
    /\ UNCHANGED <<life, ptr, count, ids, baseline, late, misused>>

(* take_snapshot, which may fail; the lookups of cpu_alert, whose failure   *)
(* nobody sees.  What cpu_alert then adds up is missing or too short.       *)
Read ==
    /\ pc = "read"
    /\ Begin
    /\ \/ tool = "cpu_usage" /\ (Go("emit") \/ Refuse)
       \/ /\ tool = "cpu_alert"
          /\ {ptr.busy_vals, ptr.idle_vals} \subseteq {"held", "short"}
          /\ Go("emit")
       \/ /\ tool = "cpu_alert"
          /\ {ptr.busy_vals, ptr.idle_vals, ptr.zeros} \cap {"null", "short"} # {}
          /\ {ptr.busy_vals, ptr.idle_vals} # {"held"}
          /\ Go("crashed")
    /\ UNCHANGED <<life, ptr, cpus, baseline, misused>>

(* Nothing is printed for the baseline; cpu_alert prints each time *)
Output ==
    /\ pc = "emit"
    /\ baseline' = FALSE
    /\ Go(IF tool = "cpu_usage" THEN "test" ELSE "loop")
    /\ UNCHANGED <<life, ptr, cpus, late, misused>>

(* Fault: running is not looked at before the sleep *)
TestSleep_Unasked ==
    /\ pc = "test"
    /\ Go("sleep")
    /\ UNCHANGED <<life, ptr, cpus, baseline, late, misused>>

(* sleep_interval: "while (running && nanosleep(...))" *)
TestSleep ==
    /\ pc = "test"
    /\ Go(IF running THEN "sleep" ELSE "loop")
    /\ UNCHANGED <<life, ptr, cpus, baseline, late, misused>>

(* nanosleep or sleep is entered *)
Sleep ==
    /\ pc = "sleep"
    /\ Begin
    /\ Go("asleep")
    /\ UNCHANGED <<life, ptr, cpus, baseline, misused>>

(* It ends, or nanosleep fails for some other reason than a signal *)
Timer ==
    /\ pc = "asleep"
    /\ \/ Go(IF tool = "cpu_usage" THEN "loop" ELSE "woken")
       \/ tool = "cpu_usage" /\ Refuse
    /\ UNCHANGED <<life, ptr, cpus, baseline, late, misused>>

(* "if (!running) break" *)
Woken ==
    /\ pc = "woken"
    /\ Go(IF running THEN "read" ELSE "loop")
    /\ UNCHANGED <<life, ptr, cpus, baseline, late, misused>>

-----------------------------------------------------------------------------
Over == pc \in {"end", "killed", "crashed"}

(* SIGPIPE comes of printing to a pipe without a reader.  A handled signal  *)
(* interrupts a sleep, and no other call main makes.                        *)
Signal(s) ==
    /\ ~Over
    /\ s = "SIGPIPE" => pc = "emit" /\ (tool = "cpu_usage" => ~baseline)
    /\ IF s \in handled
         THEN /\ running' = FALSE
              /\ pc' = IF pc # "asleep" THEN pc
                       ELSE IF tool = "cpu_usage" THEN "test" ELSE "woken"
         ELSE pc' = "killed" /\ UNCHANGED running
    /\ UNCHANGED <<tool, handled, ptr, ending, cpus, baseline, late, misused>>

Main ==
    \/ Install \/ Acquire("open", "object", "load") \/ Prepare("load", "find")
    \/ Prepare("find", "attach") \/ Acquire("attach", "link", "map") \/ FindMap
    \/ Allocate \/ ReadPossible \/ TestList("possible", "possible_read", "loop") \/ Loop
    \/ ReadOnline \/ TestList("online", "online_read", "read") \/ Read \/ Output \/ TestSleep
    \/ Sleep \/ Timer \/ Woken \/ Release \/ Return

LifeFinished == Over /\ UNCHANGED lifeVars

LifeNext == Main \/ (\E s \in Signals : Signal(s)) \/ LifeFinished

(* The program is scheduled, and a sleep ends *)
LifeSpec == LifeInit /\ [][LifeNext]_lifeVars /\ WF_lifeVars(Main)

-----------------------------------------------------------------------------
(* Properties *)

(* What the helper takes from a line of /sys is what the line covers, and   *)
(* never more ids than its buffer has room for; every line the kernel       *)
(* prints is accepted, if it has as many possible CPUs as libbpf counts,    *)
(* and gives the slots of the map in the order of the CPUs.                 *)
ListsExact ==
    /\ Len(ids) <= count
    /\ pc = "possible_read" =>
          /\ accepted => ToSet(ids) = Covered(line) /\ Len(ids) = count
          /\ KernelLine(line) =>
                /\ accepted = (Cardinality(Covered(line)) = count)
                /\ \A i, j \in DOMAIN ids : i < j => ids[i] < ids[j]
    /\ pc = "online_read" =>
          /\ accepted => slots = {k \in DOMAIN ids : ids[k] \in Covered(line)}
          /\ KernelLine(line) => accepted

(* Whichever call is refused and whenever a signal comes, a program that    *)
(* returns has released all it held, nothing twice, and it returns 0 only   *)
(* if it was stopped and nothing was refused.                               *)
EndIsClean ==
    /\ ~misused
    /\ pc = "end" => /\ ptr["object"] # "held" /\ ptr["link"] # "held"
                     /\ \A r \in Resources : ptr[r] \in {"null", "freed"}
                     /\ (result = 0) = (~running /\ ~failed)

(* A signal that comes between the test of running and the sleep costs one  *)
(* sleep, one that comes before a reading costs that reading; never both.   *)
OneLateStep == late <= 1

(* A program that has handled a signal ends. *)
StopEnds == ~running ~> Over

-----------------------------------------------------------------------------
(* What makes EndIsClean and OneLateStep inductive *)

Working == {"int", "term", "open", "load", "find", "attach", "map", "alloc",
            "possible", "possible_read", "loop", "online", "online_read", "read",
            "emit", "test", "sleep", "asleep", "woken"}

LifeTypeOK ==
    /\ tool \in {"cpu_usage", "cpu_alert"}
    /\ pc \in Working \cup {"release", "end", "killed", "crashed"}
    /\ ptr \in [Resources -> {"null", "held", "short", "freed"}]
    /\ todo \in Seq(Resources) /\ running \in BOOLEAN

(* The places that only one of the programs has *)
OwnPlaces ==
    /\ pc \in {"possible", "possible_read", "online", "online_read", "test"} =>
          tool = "cpu_usage"
    /\ pc = "woken" => tool = "cpu_alert"

(* What main may hold, by the place it has come to *)
MayHold ==
    CASE pc \in {"int", "term", "open"} -> {}
      [] pc \in {"load", "find", "attach"} -> {"object"}
      [] pc \in {"map", "alloc"} -> {"object", "link"}
      [] OTHER -> {"object", "link"} \cup Buffers[tool]

HoldInv ==
    pc \in Working =>
        /\ result = 1 /\ ~failed
        /\ \A r \in Resources : /\ ptr[r] # "freed"
                                /\ r \notin MayHold => ptr[r] = "null"

(* What is still to be released was not, and nothing else is held *)
ReleaseInv ==
    pc \in {"release", "end"} =>
        /\ IsInjective(todo) /\ (pc = "end" => todo = <<>>)
        /\ \A r \in Resources : IF r \in ToSet(todo) THEN ptr[r] # "freed"
                                ELSE ptr[r] \in {"null", "freed"}
        /\ IF failed THEN result = 1 ELSE result = 0 /\ ~running

(* After the late step there is no way to another *)
LateInv ==
    /\ late \in {0, 1}
    /\ late = 1 =>
          /\ ~running
          /\ pc \in {"emit", "test", "asleep", "woken", "loop",
                    "release", "end", "killed", "crashed"}

LifeInv == LifeTypeOK /\ OwnPlaces /\ HoldInv /\ ReleaseInv /\ LateInv /\ ~misused

(* What makes ListsExact inductive: nothing is in ids until count is known *)
ListsInv ==
    /\ ListsExact
    /\ count \in Nat /\ ids \in Seq(Ids)
    /\ pc \in {"int", "term", "open", "load", "find", "attach", "map"} => ids = <<>>
=============================================================================
