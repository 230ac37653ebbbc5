-------------------------------- MODULE Labs --------------------------------
(***************************************************************************)
(* The experiments of both labs on one kernel: commands are executed, pass *)
(* the hooks of Lab 1 and talk from host to host through the hooks of      *)
(* Lab 2, while make attaches programs and takes them off.  A recipe of    *)
(* Lab 1 may fail, be interrupted or killed at any step, and what removes  *)
(* its pins may fail too; make detach is run when nothing of a make attach *)
(* is running.  The network itself loses nothing.                          *)
(***************************************************************************)
EXTENDS LabPrograms, FiniteSets

CONSTANTS
    Paths,      \* paths of executables, [start, end]
    Packets     \* what a command may send, as the filters see it

ASSUME LabsAssumption ==
    /\ Paths \subseteq [start : STRING, end : STRING]
    /\ Packets \subseteq PacketLayers

Hosts == {"h1", "h2"}
Peer(h) == IF h = "h1" THEN "h2" ELSE "h1"
Lab1 == {"kprobe", "lsm"}

VARIABLES
    attached,   \* programs attached to their hooks
    lsmActive,  \* the kernel lists "bpf" among its LSMs
    pinRoot,    \* PIN_ROOT exists
    recipe,     \* the step of make attach that is next, or "idle"
    outcome,    \* what make attach or make detach has said
    job,        \* the command: [at, comm, path, host, packet]
    lines,      \* what the programs of Lab 1 printed since its step began
    always,     \* history: programs attached all the time since its step began
    ever        \* history: programs attached at some time since then

lab == <<attached, lsmActive, pinRoot, recipe, outcome>>
command == <<job, lines>>
labsVars == <<lab, command, always, ever>>

NoPacket == [size |-> 0, type |-> "other", options |-> 0, protocol |-> "other",
             later |-> FALSE, dest |-> 0, rest |-> 0]

Line(by, comm) == [by |-> by, comm |-> comm]

LabsInit ==
    /\ attached = {} /\ lsmActive \in BOOLEAN /\ pinRoot = FALSE
    /\ recipe = "idle" /\ outcome = "detached"
    /\ \E path \in Paths, host \in Hosts :
          job = [at |-> "shell", comm |-> "bash", path |-> path, host |-> host,
                 packet |-> NoPacket]
    /\ lines = {} /\ always = {} /\ ever = {}

-----------------------------------------------------------------------------
(* make *)

Attach(programs) ==
    /\ attached' = programs
    /\ always' = always \cap programs
    /\ ever' = ever \cup programs
    /\ UNCHANGED <<lsmActive, command>>

Keep == UNCHANGED <<attached, lsmActive, command, always, ever>>

(* "test -e PIN_ROOT" and the mkdir, which may fail *)
Start ==
    /\ recipe = "idle" /\ ~pinRoot
    /\ \/ recipe' = "kprobe" /\ pinRoot' = TRUE
       \/ recipe' = "rollback" /\ UNCHANGED pinRoot
    /\ outcome' = "none" /\ Keep

(* bpftool prog loadall ... autoattach *)
LoadKprobe ==
    /\ recipe = "kprobe"
    /\ recipe' = "ask"
    /\ Attach(attached \cup {"kprobe"})
    /\ UNCHANGED <<pinRoot, outcome>>

(* Is BPF LSM active?  If not, or if the question itself fails, which as a  *)
(* condition of "if" fires no trap, the recipe ends with a warning.         *)
AskLsm ==
    /\ recipe = "ask"
    /\ \/ lsmActive /\ recipe' = "lsm" /\ UNCHANGED outcome
       \/ recipe' = "end" /\ outcome' = "kprobe"
    /\ UNCHANGED pinRoot /\ Keep

LoadLsm ==
    /\ recipe = "lsm"
    /\ recipe' = "curl"
    /\ Attach(attached \cup {"lsm"})
    /\ UNCHANGED <<pinRoot, outcome>>

(* curl --version must not be executed *)
TryCurl ==
    /\ recipe = "curl" /\ "lsm" \in attached
    /\ recipe' = "end" /\ outcome' = "both"
    /\ UNCHANGED pinRoot /\ Keep

(* The traps are taken off *)
End ==
    /\ recipe = "end"
    /\ recipe' = "idle"
    /\ UNCHANGED <<pinRoot, outcome>> /\ Keep

Trapped == {"kprobe", "ask", "lsm", "curl", "end"}

(* Fault: what follows the load of the LSM program is not rolled back *)
Fail_LateTrap ==
    /\ recipe \in Trapped
    /\ recipe' = IF recipe = "curl" THEN "idle" ELSE "rollback"
    /\ outcome' = IF recipe = "curl" THEN "failed" ELSE outcome
    /\ UNCHANGED pinRoot /\ Keep

(* A step fails, or SIGINT or SIGTERM arrives: both traps roll back *)
Fail ==
    /\ recipe \in Trapped
    /\ recipe' = "rollback"
    /\ UNCHANGED <<pinRoot, outcome>> /\ Keep

(* Without their pins the programs are detached *)
Remove(left) == Attach((attached \ Lab1) \cup left)

(* rm -rf PIN_ROOT, of the rollback and of make detach *)
Unpin ==
    /\ \/ recipe = "rollback" /\ outcome' = "failed"
       \/ recipe = "idle" /\ outcome' = "detached"
    /\ recipe' = "idle" /\ pinRoot' = FALSE
    /\ Remove({})

(* It is refused, or does not get through: the rollback goes on as if it    *)
(* had, make detach ends in an error.                                       *)
UnpinFails ==
    /\ recipe \in {"rollback", "idle"}
    /\ recipe' = "idle" /\ outcome' = "stuck"
    /\ \E left \in SUBSET (attached \cap Lab1) : Remove(left)
    /\ UNCHANGED pinRoot

(* SIGHUP or SIGKILL ends the recipe, and there is no trap for them.  What  *)
(* it was at has been done or not, the removal of the pins even in part.    *)
Hangup ==
    /\ recipe # "idle"
    /\ recipe' = "idle" /\ outcome' = "killed"
    /\ \/ recipe = "kprobe" /\ Attach(attached \cup {"kprobe"}) /\ UNCHANGED pinRoot
       \/ recipe = "lsm" /\ Attach(attached \cup {"lsm"}) /\ UNCHANGED pinRoot
       \/ /\ recipe = "rollback"
          /\ \E left \in SUBSET (attached \cap Lab1) :
                /\ Remove(left)
                /\ UNCHANGED pinRoot \/ (left = {} /\ pinRoot' = FALSE)
       \/ UNCHANGED pinRoot /\ Keep

(* test-xdp-filter, test-tc-filter; test-xdp-baseline, test-tc-baseline,    *)
(* detach-xdp, detach-tc: a filter is attached to its hook or taken off it. *)
Filters ==
    /\ \E f \in {"xdp", "tc"} : \/ Attach(attached \cup {f})
                                \/ Attach(attached \ {f})
    /\ UNCHANGED <<pinRoot, recipe, outcome>>

Make == \/ Start \/ LoadKprobe \/ AskLsm \/ LoadLsm \/ TryCurl \/ End
        \/ Fail \/ Unpin \/ UnpinFails \/ Hangup \/ Filters

-----------------------------------------------------------------------------
(* A command *)

To(step) == job' = [job EXCEPT !.at = step] /\ UNCHANGED lab

(* A step of its life begins: what is attached is noted *)
Note == always' = attached /\ ever' = attached

(* The shell's child calls execve, where the Kprobe is *)
Execve ==
    /\ job.at = "shell"
    /\ To("exec") /\ Note
    /\ lines' = IF "kprobe" \in attached
                  THEN {Line("KPROBE", trace_exec(job))} ELSE {}

(* bprm_check_security, then the new program takes over *)
CheckSecurity ==
    /\ job.at = "exec"
    /\ IF "lsm" \in attached /\ restrict_execution(job.path)
         THEN To("refused") /\ lines' = lines \cup {Line("LSM", "")}
         ELSE /\ job' = [job EXCEPT !.at = "run", !.comm = job.path.start]
              /\ UNCHANGED <<lab, lines>>
    /\ UNCHANGED <<always, ever>>

(* It sends a packet to the other host *)
Send ==
    /\ job.at = "run"
    /\ \E p \in Packets : job' = [job EXCEPT !.at = "request_out", !.packet = p]
    /\ lines' = {} /\ Note
    /\ UNCHANGED lab

(* Fault: the filter is on the way out of both hosts *)
Leave_AnyHost(step, host, next) ==
    /\ job.at = step
    /\ To(IF "tc" \in attached /\ tc_egress_filter(job.packet)
            THEN "lost" ELSE next)
    /\ UNCHANGED <<lines, always, ever>>

(* A packet leaves a host; tc_egress_filter is on the way out of h2 *)
Leave(step, host, next) ==
    /\ job.at = step
    /\ To(IF host = "h2" /\ "tc" \in attached /\ tc_egress_filter(job.packet)
            THEN "lost" ELSE next)
    /\ UNCHANGED <<lines, always, ever>>

(* A packet reaches a host; xdp_firewall is on the way into h1 *)
Arrive(step, host, next) ==
    /\ job.at = step
    /\ To(IF host = "h1" /\ "xdp" \in attached /\ xdp_firewall(job.packet)
            THEN "lost" ELSE next)
    /\ UNCHANGED <<lines, always, ever>>

(* The answer is of the same kind, in a fragment or not, and goes to a port *)
(* the client chose.                                                        *)
Answer ==
    /\ job.at = "received"
    /\ \E later \in BOOLEAN :
          job' = [job EXCEPT !.at = "reply_out", !.packet.dest = 81,
                             !.packet.later = later]
    /\ UNCHANGED <<lab, lines, always, ever>>

(* The shell gets the next command *)
NextCommand ==
    /\ job.at \in {"refused", "lost", "done"}
    /\ \E path \in Paths, host \in Hosts :
          job' = [at |-> "shell", comm |-> "bash", path |-> path, host |-> host,
                  packet |-> NoPacket]
    /\ lines' = {} /\ Note
    /\ UNCHANGED lab

Command ==
    \/ Execve \/ CheckSecurity \/ Send
    \/ Leave("request_out", job.host, "request_in")
    \/ Arrive("request_in", Peer(job.host), "received")
    \/ Answer
    \/ Leave("reply_out", Peer(job.host), "reply_in")
    \/ Arrive("reply_in", job.host, "done")
    \/ NextCommand

LabsNext == Make \/ Command

LabsSpec == LabsInit /\ [][LabsNext]_labsVars

-----------------------------------------------------------------------------
(* Properties *)

(* What a packet is, by its layers: a ping or its answer, a message for an  *)
(* HTTP server, and how much of it the filters have to see to know.  A      *)
(* fragment without ports is no message for a port, but may look like one.  *)
IsIcmp(p) == p.type = "IPv4" /\ p.protocol = "ICMP"
IsHttp(p) == p.type = "IPv4" /\ p.protocol = "TCP" /\ ~p.later /\ p.dest = 80
LooksHttp(p) == p.type = "IPv4" /\ p.protocol = "TCP" /\ p.later /\ p.rest = 80
WithIpv4(p) == p.size >= TransportStart(p)
WithPorts(p) == p.size >= TransportStart(p) + 4

(* While a hook is attached, what it is there to stop does not get through: *)
(* nothing whose path begins with /usr/bin/curl starts, no ping is answered *)
(* in either direction, and h2 reaches no HTTP server, whatever options are *)
(* in front of the ports.  What does not get through was stopped by a hook  *)
(* attached in the meantime: h1 reaches HTTP servers, and of the rest tc    *)
(* takes off only fragments with 80 where others have their port.  And each *)
(* hook of Lab 1 leaves its line, the Kprobe with the name of the shell.    *)
HooksExplain ==
    /\ job.at = "run" => "lsm" \notin always \/ job.path.start # "/usr/bin/curl"
    /\ job.at = "refused" => "lsm" \in ever /\ job.path.start = "/usr/bin/curl"
    /\ job.at \in {"exec", "run", "refused"} =>
          /\ "kprobe" \in always => Line("KPROBE", "bash") \in lines
          /\ \A line \in lines : \/ line = Line("KPROBE", "bash") /\ "kprobe" \in ever
                                 \/ line.by = "LSM"
          /\ job.at = "refused" <=> Line("LSM", "") \in lines
    /\ job.at = "done" =>
          ~("xdp" \in always /\ IsIcmp(job.packet) /\ WithIpv4(job.packet))
    /\ job.at \in {"request_in", "received"} /\ job.host = "h2" =>
          ~("tc" \in always /\ IsHttp(job.packet) /\ WithPorts(job.packet))
    /\ job.at = "lost" =>
          \/ "xdp" \in ever /\ IsIcmp(job.packet)
          \/ "tc" \in ever /\ job.host = "h2" /\ IsHttp(job.packet)
          \/ "tc" \in ever /\ LooksHttp(job.packet)

(* What the last make attach or make detach said is what is attached: both  *)
(* programs, or only the Kprobe, or nothing after a rollback or a detach.   *)
(* Where it said nothing of the kind (it was killed, or the pins could not  *)
(* be removed), PIN_ROOT still tells that there is something to detach.     *)
AttachmentTold ==
    /\ attached \cap Lab1 # {} => pinRoot
    /\ recipe = "idle" =>
          /\ outcome = "both" => lsmActive /\ Lab1 \subseteq attached
          /\ outcome = "kprobe" => attached \cap Lab1 = {"kprobe"}
          /\ outcome \in {"failed", "detached"} => ~pinRoot

-----------------------------------------------------------------------------
(* What makes them inductive *)

Steps == {"shell", "exec", "refused", "run", "request_out", "request_in",
          "received", "reply_out", "reply_in", "lost", "done"}

Jobs == [at : Steps, comm : {"bash"} \cup {path.start : path \in Paths},
         path : Paths, host : Hosts, packet : PacketLayers]

LabsTypeOK ==
    /\ attached \subseteq Lab1 \cup {"xdp", "tc"}
    /\ always \subseteq attached /\ attached \subseteq ever
    /\ lsmActive \in BOOLEAN /\ pinRoot \in BOOLEAN
    /\ recipe \in Trapped \cup {"idle", "rollback"}
    /\ outcome \in {"none", "both", "kprobe", "failed", "stuck", "killed", "detached"}
    /\ job \in Jobs

(* What each step of make attach finds *)
RecipeInv ==
    /\ recipe \in Trapped => pinRoot
    /\ recipe = "kprobe" => attached \cap Lab1 = {}
    /\ recipe \in {"ask", "lsm"} => attached \cap Lab1 = {"kprobe"}
    /\ recipe = "curl" => attached \cap Lab1 = Lab1
    /\ recipe \in {"lsm", "curl"} => lsmActive
    /\ recipe = "end" =>
          \/ outcome = "both" /\ lsmActive /\ attached \cap Lab1 = Lab1
          \/ outcome = "kprobe" /\ attached \cap Lab1 = {"kprobe"}

(* A shell is what calls execve; a ping that went from h2 to h1 has passed  *)
(* xdp_firewall; an answer goes to no HTTP server.                          *)
OnItsWay ==
    /\ job.at = "shell" => job.comm = "bash"
    /\ job.at \in {"received", "reply_out", "reply_in"} /\ job.host = "h2" =>
          ~("xdp" \in always /\ IsIcmp(job.packet) /\ WithIpv4(job.packet))
    /\ job.at = "reply_out" => job.packet.dest = 81

LabsInv == /\ LabsTypeOK /\ RecipeInv /\ OnItsWay
           /\ HooksExplain /\ AttachmentTold
=============================================================================
