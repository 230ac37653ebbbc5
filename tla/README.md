# A verification of monix

monix is a machine monitor for NixOS: a Python package (`src/generated`) whose
`Monitor` collects CPU, GPU, memory, storage and thermal metrics in a worker
thread and publishes them to an HTTP API and to Prometheus, a C helper with an
eBPF program that measures CPU usage at context switches
(`src/generated/collectors/cpu`), a stand-alone alert tool with an eBPF
program of its own (`src/ebpf`), and two labs that teach the kinds of eBPF
hooks (`Lab1-Tipos_eBPF`, `Lab2-XDP_vs_TC`). This directory holds TLA+ models of the parts
whose correctness depends on interleavings, failures and time, the TLC
configurations that check small instances, and TLAPS proofs for every value of
the constants.

`PROJECT.json` maps each definition to the lines it models, names the mutant of
each property (a plausible bug under which TLC finds it violated) and lists the
hazards. In the modules, a definition whose comment begins with "Fault:" is
such a bug; no specification uses it.

    tlc -workers 2 -config MCMonitor.cfg MCMonitor
    tlapm MonitorProofs.tla

## Inventory

Paths are relative to the repository's `src/generated` unless they begin
otherwise. "Hard" says what a test would hardly reach.

**Monitor** (`monitor.py`). State: `_lifecycle` (lock of start and stop),
`_condition` (lock and wait set of the published state), `_stop_event`,
`_thread`, `_running`, `_collectors`, `_state` (snapshot, samples, instant),
`_last_success`, `_last_errors`. Operations: `start`, `stop`, the worker's
`_run`/`_collect_once`, `get_snapshot`, `get_health`, `prometheus_snapshot`,
`wait_for_snapshot`. Callers are any threads; collectors run on the worker and
may call `stop`. Hard: overlapping start and stop, a join that times out, an
event set outside the lock of the waiters, two reads that must be of one
cycle, failures of factories, threads and cycles. Correct when: at most one
worker lives; no collector is closed in use or lost; no waiter is left asleep;
a new run starts from nothing; a stop settles; collections keep to their slots.

**A collection cycle** (`_collect_once`, `_availability`). Each collector's
samples are added if they do not clash with the others'; diagnostics, last
success and availability are derived. Hard: one collector failing among
several, normalisation failing. Correct when a failure costs only its own data
and is reported where a reader looks.

**CPU counter** (`collectors/cpu/cpu_usage.bpf.c`). Per CPU a struct with
sequence, busy, idle, last timestamp and an idle flag, written at each
`sched_switch`. **CPU helper** (`cpu_usage.c`) copies all structs twice with
`bpf_map_lookup_elem`, compares, retries up to eight times, and prints the
difference of two rounds. They share only the map. Hard: a switch between any
two words of a copy, a CPU that never switches, CPUs that come and go, counters
that seem to shrink; lists of CPUs with gaps; a call refused half way through
the preparations; a signal just before a sleep. Correct when what is printed is
exactly the time between two samples of the CPU named, and when the program ends
soon after a signal with nothing left attached.

**CPU collector** (`collectors/cpu/collector.py`). Owns the helper process, a
thread for its stdout and one for its stderr; `_latest`, `_failure`, `_closed`
and the `/proc/stat` baseline. `collect` is called by the worker, `close` by
start or stop. Hard: the helper dies, falls silent, ends its output or ignores
signals at any point of collect, of close, or of the reader thread. Correct
when a failure is a real one, a dead helper is never reported attached,
`required` is never silent about a trouble, the fallback measures the last
interval and a close that returns leaves no helper behind.

**CPU alert tool** (`src/ebpf/collectors/cpu/cpu_alert.bpf.c`, `cpu_alert.c`).
Per CPU busy and idle totals, added to at context switches, read and reset once
per interval by a task that is itself scheduled. Hard: switches between the
reading of an entry and its reset. Correct when no time is counted twice and the
hook is called above the threshold.

**Storage collector** (`collectors/storage/collector.py`): a walk over block
devices and their slaves, deduplication and attribution of file systems. Pure
per call, but the walk shares a visited set between siblings. Hard: diamonds and
cycles of devices, names that are not listed, file systems on more devices than
`mountinfo` names. Correct when every disk below a device is found, and a doubt
about one is not forgotten; what is attributed to a disk lies on it, each file
system once.

**Agent, exporter** (`agent.py`, `exporter.py`): one process, which creates the
monitor, serves or waits for one snapshot (`--once`), and shuts down. State: the
event `stopped`, the previous signal handlers, the result; in `_wait_once` the
deadline and the last snapshot. Hard: signals before, during and after the time
in which they are handled, several waits under one deadline, a stop that fails.
Correct when a zero status is honest, the waits keep to the deadline and the
process ends.

**Labs** (`Lab1-Tipos_eBPF`, `Lab2-XDP_vs_TC`). Programs without state of their
own, on four hooks: execve, the security check of an execution, the way into h1
and the way out of h2. `make attach` of Lab 1 loads two programs under one pin
root. Hard: short packets, headers with options and fragments, which direction a
filter on one host stops, programs that come and go while a packet travels, a
recipe that fails or is killed half way, or whose question for BPF LSM fails.
Correct when a filter drops what it is for, and when what make says is attached.

**GPU, memory, thermal collectors**: sequential readers of sysfs and procfs.
**Normalisation** (`normalization.py`), **samples and rendering**
(`common/metrics.py`): pure functions. **HTTP API** (`api.py`): stateless
handlers that call the monitor's readers. **Configuration**
(`configuration.py`): validation. **Examples, stack script, containers,
dashboards**: see the end.

How they interact: agent -> Monitor (calls, signals become `stop`); API threads
-> Monitor's readers (shared `_state` under `_condition`); Monitor's worker ->
collectors (calls that may raise); CPU collector -> helper (process, pipe,
signals); helper -> kernel program (per-CPU map). The alert tool stands alone, and
so do the labs.

## Modules

| module | models |
|---|---|
| `MonitorService` | abstract: what a monitor promises its embedder |
| `Monitor` | `monitor.py`: lifecycle, worker, readers |
| `MCMonitor` | small instances of it |
| `MonitorProofs` | proofs: invariants, refinement |
| `Scheduler` | `_run`: when the worker collects |
| `Agent`, `AgentProofs` | `agent.py`: the process, composed with `Scheduler`; the proofs are about both |
| `CpuCounter` | `cpu_usage.bpf.c` |
| `CpuHelper`, `CpuHelperProofs` | `cpu_usage.c` composed with `CpuCounter`; the proofs are about it and `ToolLife` |
| `CpuCollector`, `CpuCollectorProofs` | `collector.py` of the CPU with its helper process |
| `CpuAlert` | the alert tool, both sides |
| `CpuList` | `possible_cpu_ids`, `online_cpus` of `cpu_usage.c` |
| `ToolLife`, `MCToolLife` | `main` of `cpu_usage.c` and `cpu_alert.c`, from the signal handlers to the return |
| `LabPrograms`, `Labs`, `MCLabs` | the programs of the labs; their hooks, a command and its packets, `make` |
| `EbpfProofs` | proofs about `CpuAlert` and `Labs` |
| `Backing`, `BackingProofs` | `_physical_backing` of the storage collector |
| `Storage`, `MCStorage`, `StorageProofs` | the loop over the mounts of the storage collector |
| `Collection`, `MCCollection`, `CollectionProofs` | what a cycle publishes: `_collect_once`, `_availability`, `get_health` |

### Monitor

Each thread has a program counter. A step is what the code does between two
points where another thread can see it: taking a lock, an access to
`_stop_event` or `_collectors` outside `_condition`, a section under
`_condition`, a join, the call of a collector. A section under `_condition` is
one step, except that of `prometheus_snapshot`, whose two reads of `_state` are
two steps with the lock held. Waiting threads stand at "waiting" (in the wait
set) and `notify_all` moves them to "wait_check" (queueing for the lock).
Collector objects are pairs of the start that made them and a name, because the
factories make new objects at each start.

Abstracted: the contents of a snapshot are its sequence and the set of
categories that are available; the age of a snapshot is one bit that may drop at
any time (`Expire`); a deadline may pass at any time. `close()` of a collector
is assumed to release it even when it raises, because `_close_collectors`
forgets the object either way; `CpuCollector` shows the one case in which the
helper survives (below). Left out: collectors injected by the tests, which would
be reused by the next start; `get_snapshot` and `get_health`, each of which
reads under one lock what `ScrapeSnapshot` reads.

`MonitorService` says it without threads: phase down, up or stopping; resources
change hands only when down; a run counts its snapshots from one; a stop that
was asked for is not taken back. `ImplementsService` is the refinement, with the
phase computed from the workers' program counters and the event.

### Scheduler

The arithmetic of `_run` on an integer clock, with cycles of any length and
late wake-ups. The code's clock is a float: rounding is not modelled. It is a
module of its own because `Monitor`'s properties hold whatever the timing, and
this one's whatever the other threads do. `Die` is the end of the thread by an
exception or with the process.

### Agent

`main` from the creation of the monitor to the exit status, and a worker that
takes the steps of `Scheduler`: `Implements` says that nothing else happens to
it. `wait_for_snapshot` is one step where it returns, by what `Monitor` shows of
it (`NoMissedSnapshot`, `StopWakesWaiters`); its own `timeout` is computed from a
clock read later than the caller's, which is the lag `Retries` allows for.
Snapshots are reduced to sequence, instant and what `_wait_once` looks at.
SIGINT without a handler raises KeyboardInterrupt, after which the finally part
runs; SIGTERM without one kills the process as it is, also during `--once`, and
a CPU helper is then left to end by itself at its next print. The five seconds
of join are not counted: `JoinExpires` may happen at any time.
`collectors` says what became of them: `_close_collectors` only logs what a close
raises (`monitor.py:334-337`), so after `CloseCollectors` they are "closed", or
"outlived" by a CPU helper that SIGKILL did not end in three seconds. The status
is 0 in both cases: `ZeroMeansClean` says that they were asked to close. That a
snapshot with CPU usage is of the second cycle or a later one follows from the
`min_sequence` of `_wait_once`, not from what a cycle may publish.
Left out: a main that runs on another thread than the main one, which installs
no handlers.

### CpuCounter and CpuHelper

Every write to the shared struct and every word copied is a step. The model
takes the accesses of one side in program order, as the compiled BPF program
and an x86-like memory order give them: the atomic additions at both ends, and
word by word copies in address order. Reordered stores would be another model.
History variables record the first switch of a CPU and its true busy time.
The helper's exits on a failing system call are in `ToolLife`; here and in
`CpuCollector` (`Exit`) they end the process.

### CpuCollector

The helper is an environment that may print a sample or rubbish, end its output
or exit at any time, and may ignore signals. Rubbish is skipped, or ends the
reader: `float` of a huge integer raises OverflowError and `json.loads` of deep
nesting RecursionError, which `_read_stdout` does not catch (`TakeLine` to
"dead"). Then no failure is ever recorded, which `EndIsNoticed` says; what
remains is the age of the last sample and the exit that `collect` sees, and with
them `NoGhostHelper` and `RequiredIsLoud` hold all the same. `cpu_usage` prints
no such line. The reader thread and the caller
interleave with it and with time. `collect` and `close` do not overlap: that is
what `NoCloseWhileCollecting` of `Monitor` says (proved there), and the reason
why one caller is enough. The thread that logs stderr and all messages are left
out. In "required" a helper that cannot be started raises in the constructor,
so that state does not exist.

### CpuAlert

Both sides, on several CPUs, with the tool as a task of the scheduler: its sleep
is a context switch, which is what makes the CPU it sleeps on accounted.

### CpuList and ToolLife

A line of `/sys/devices/system/cpu` is a sequence of numbers, dashes, commas and
others; spaces and signs, which `strtol` would accept, are "others", since the
kernel prints neither. The two functions read a line by the same loop, whose turn
is `ReadRange`; `Ranges` is what they find, with `Invalid` where they give up, and
`Place` and `OnlineSlots` what each does with it. `ToolLife` runs both programs through the same steps where
they have them, each with its own way out (`Undo`). A pointer is null, held,
"short" (allocated for one CPU because their number is unknown) or freed. The
contents of the map are those of `CpuHelper` and `CpuAlert`. A signal is handled
between any two steps; it interrupts a sleep and nothing else. `late` counts what
begins after the signal.

### LabPrograms and Labs

A packet is what its sender put together: an Ethernet type, an IPv4 header with
its protocol and options, and, but in a later fragment, a transport header with a
port (`TransportStart`); what stands anywhere else is one value (`rest`). A filter
may read the first `size` bytes and finds a port by where it looks (`PortAt`), so
that one which assumes a header of 20 bytes takes options for ports. The
properties speak of the layers (`IsHttp`, `IsIcmp`), never of offsets. A path is
its first 13 characters and the rest, because that is what is compared.
`Labs` runs one command at a time: it is executed, passes the two hooks of Lab 1,
sends a packet and gets an answer, with the filters of Lab 2 on each way. `make`
attaches and takes off at any point. Histories note what was attached during the
whole of a step and at some time in it: the properties are about both. Where
`tc_egress_filter` stops what is no HTTP, a later fragment with 80 in the place of
a port, `HooksExplain` says so: the filter does not look at `frag_off`.

The recipe of `make attach` is a program of its own (`recipe` is the step that is
next). A command that fails, SIGINT or SIGTERM roll back; the question for BPF LSM
is the condition of an `if` (`Makefile:188`), where a failure, of `sudo` or because
securityfs is not mounted, fires no trap: the recipe goes on with the Kprobe
alone, and says that BPF LSM is not active (`AskLsm`). SIGHUP is not trapped
(`Makefile:179`) and SIGKILL cannot be: `Hangup` leaves what there is. A removal of
the pins may fail, which the rollback ignores (`|| true`). `AttachmentTold` is what
is left to rely on: what make said last, or else PIN_ROOT.
Left out: `make detach` during `make attach`, which includes what a killed one may
still have running; packets no stack would send (a header length below five),
reassembly, VLAN tags; scripts with an interpreter.

### Backing

The recursion of `_physical_backing` as a walk: a stack of the calls still to
make, the shared set `visited`, and the union of the results. Depth first on a
stack is the order in which the recursion makes its calls, and the union does
not depend on when a caller takes it. The picture of sysfs is any that `World`
allows, chosen at the start and fixed for the walk: the classification of a name
(disk, partition) is data, and so is what the search for a partition's disk
finds. The reference, `Backings`, says with reachability what the result means.

### Storage

The loop over `mountinfo`, in any order, with what `Backing` returns as an
operator (`Traced`): `BackingExact` is what allows that. File systems, their
disks, the mounts and what sysfs shows of them are chosen at the start. That a
btrfs may show a device number and a source of its own for each mount is what
the repository's tests assume. `shows` is what `statvfs` meets at a mount's path:
a later mount on the same path hides an earlier one. Sizes are replaced by whose
sizes they are, which is what the totals are about.

Of a btrfs the collector knows that it may lie on several devices. So may an f2fs,
a bcachefs or an xfs with a realtime part, which are on its list of local file
systems (`collector.py:23-26`) and of which `mountinfo` names one device: these are
`Spanning`. The code takes them for file systems on that device alone, so they
are reported as exclusive to its disk and count in its total (185-187, 222-230),
although the module's docstring (3-6) promises that only file systems on exactly
one disk do. `ExclusiveIsOwned`, `AttributionExact` and `TotalsOwned` name this
exception (`Spread`) and show that it is the only one; a member of `Spanning` may
also lie on its device alone, so what the runs show covers every type.

### Collection

A step is the turn of one collector; a sample is its series. What `normalize`
makes of the samples is reduced to which series give a category data (`Main`)
and which it lacks if it is partial (`Whole`). That no other collector returns
what makes a category whole is an assumption on the constants: `owners` and
`normalize` name the same collectors, and without it `StatusHonest` would not
hold. The collectors of `MCCollection`
also clash and use a reserved name, which the built-in ones do not, but those
that the constructor's `collectors` injects may. Readers and restarts in the
middle of a cycle are `Monitor`'s; `Collection` has restarts between cycles.

## What the runs show

| run | instance | shows |
|---|---|---|
| `monitor` | 2 clients, 2 collectors, 3 starts, 5 calls, 2 cycles | lifecycle, resources and waiters are safe, the service is implemented, a stop settles and wakes the waiters |
| `agent` | interval 2, 9 instants, deadline 7, lag 1, both modes | slots are kept and none is early, a zero status is honest, retries keep to one deadline, the process ends |
| `cpu_helper` | 1 CPU, 2 switches, 2 rounds, 2 attempts, 4 instants | samples are whole, the split is right within one switch, what is printed is elapsed time |
| `cpu_collector` | all modes, timeout 1, pipe of 2, 3 instants | failures are real, no ghost helper, `required` is loud, recent fallback, close reaps and ends, the helper's end is noticed unless the reader died |
| `tool_life` | both programs, up to 3 possible CPUs, lines of up to 5 tokens | lists are read as meant, every way out is clean, at most one late step, a signal ends the program |
| `backing` | every sysfs of 3 names | the walk ends and finds exactly what is below the device |
| `storage` | 1 btrfs, 1 other on one device or more, 3 mounts, 2 disks | attribution, exclusivity and totals are right but for what spreads unseen, no file system is lost |
| `storage_totals` | the same, the other on one device | expected to fail: see the findings |
| `collection` | 3 collectors, 2 cycles in each run | failures are contained and told, scrapes can be rendered |
| `cpu_alert` | 2 CPUs, 3 switches each, 2 intervals, 4 instants | no time is counted twice |
| `cpu_alert_hook` | the same | expected to fail: see the finding |
| `labs` | 3 paths, packets around the end of each header, all hooks | hooks stop what they are for and leave their lines, what make said is attached |

Why the bounds are enough. *Monitor*: two clients conflict on a lock, and the
worker, which may call stop, is the third; three generations of workers give a
start after a timed-out stop after a failed start; a second cycle gives a waiter
for a later sequence. Symmetry is not used, because the run also checks
liveness. *Agent*: cycles shorter than, equal to and several times longer than
the interval occur; the deadline of `--once` leaves room for three retries and
is passed with and without a snapshot. *CpuHelper*: the CPUs do not interact,
and the helper compares a CPU's copies with that CPU's only; two CPUs are out of
TLC's reach, and the proof covers any number. Two switches tear both copies of
an attempt in every way, two attempts give a retry that succeeds or fails, and
two rounds give a difference. *CpuCollector*: the clock passes the timeout with
and without a sample, and the pipe holds a line behind the one being read.
*ToolLife*: three tokens give every kind of defect, five a list of three
entries; a range may ask for one id more than there is room for. *Labs*: sizes
on both sides of the end of each header, with and without options, with 80 as the
port, elsewhere and in a fragment; a second command is a first one in every state
of the hooks, and so is a second `make`. *Backing*: two slaves that
share one or each other, a cycle and a missing name need three names; the proof
covers any number. *Storage*: three mounts give two of one file system, by
different sources, and one of another that may hide them; two disks tell
exclusive from shared. *Collection*: three collectors give a category with two
owners, a clash and one that is unrelated; the second cycle follows every kind
of first, and restarts are unbounded. *CpuAlert*: every order of the switches of
two CPUs and of the reads and resets of two intervals.

Every bound (`Max...`) is a constant in a guard. `CHECK_DEADLOCK FALSE` appears
only in the runs that are expected to fail. Where a bound or the program's end
stops the system, a stuttering action says which states are meant (`Quiescent`,
`Finished`), so that any other deadlock is reported.

### Fairness

`Monitor`: weak fairness of each client's and each worker's steps inside a call.
The locks are held for a few statements, collectors return, and join has a
timeout, so a thread inside keeps running. Nothing is assumed of new calls, of
the timeout of a wait, of a self-stop, of failing factories or cycles; so
`StopWakesWaiters` shows that it is the stop and not the timeout that ends a
wait. `Agent`: weak fairness of main, whose waits all have limits, and of time;
none of the worker, whose cycle may never end. `CpuCollector`: weak fairness of
the reader thread and of the steps of close, whose waits have limits; none of the
helper, of time or of collect. `ToolLife`: weak fairness of main, whose calls
return and whose sleeps end; none of signals. `Backing`: weak fairness of the
walk, a call that runs until it returns. The other runs check safety only and
assume none.

### Findings

`cpu_alert_hook`: the header of `cpu_alert.c` says that the tool computes the
use of all cores and calls the hook when it exceeds the limit. The code sums
what context switches accounted in the interval and never adds the run in
progress, so a CPU that runs one task without a switch through the interval
counts as nothing: with one CPU busy and one idle the usage is 0% and the hook
stays silent. The CPU collector's helper adds the run in progress
(`cpu_usage.c:173-181`) and is not affected.

`storage_totals`: the help text of the totals of a disk says that they are the
sum of the unique mounted file systems that lie on this disk alone. `mountinfo`
also lists a mount that a later one hides, and `statvfs` of its path answers for
the later one: the sizes of a file system of another disk are added, or those of
one that is counted already. `TotalsOwned` says that there is one other way, a
file system that spreads from its device unseen (see *Storage*): that disagrees
with the module's docstring, which this run leaves aside by having none (`Spanning`
is empty there).

Also seen, and not a contradiction of any text: when the helper cannot be killed
within three seconds, `close` raises with `_closed` already set, so a later
close does nothing and the pipes stay open (`WaitExpires` to "raised").
`CloseReaps` is therefore about a close that returns. The legacy output of
`--once` prints what `prometheus_snapshot` finds afterwards, which may be a later
cycle than the one examined, and prints it even if none was valid. `cpu_alert.c`
does not look at the results of its three `calloc` and its lookups: with a buffer
missing it crashes in the first window ("crashed" in `ToolLife`), and without a
number of CPUs its buffers are those of one while the map fills all. `make attach`
of Lab 1 calls the blocking of curl a success when curl is merely not installed,
and says that BPF LSM is not active when it could not be asked.

## What is proved

From the `ASSUME`s of the modules only (numbers are naturals, clients are not
worker numbers, intervals and CPUs are at least one, the deadline of `--once` is
longer than three intervals), for every value of the constants:

* `MonitorProofs`: `TypeOK`; `OneWorker`; `NoCloseWhileCollecting`;
  `NoLeakedCollector`; the waiters' invariants; `RunningHasWorker`;
  `ScrapeOfOneCycle`. The inductive invariant `IInv` adds to them who holds which
  lock (`LockInv`: without it two threads could be in start at once), that no
  worker lives once a start has passed its test or a stop its join (`WorkerInv`,
  which is what makes clearing the event and replacing the collectors safe), and
  which collectors exist between two steps of start and stop (`CollectorInv`).
  `Refinement` is `Spec => ImplementsService`, one step per action: the phase is
  that of the worker `_thread` names, by `OneWorker`.
* `AgentProofs`: of `Scheduler`, `TypeOK`, `OnSchedule`, `NeverEarly` and
  `SlotsInOrder`, from `NextSlotIsNext`, which says what the division in the code
  computes for every slot and instant. Of `Agent`, `AgentSpec => Spec` of
  `Scheduler`, and with it the properties
  of the schedule; `ZeroMeansClean` and `Retries`. `AInv` adds that the rest of
  the time a call is given is what is left of the deadline (`WaitInv`), that a
  snapshot looked at for the CPU is the second or later (`SnapshotInv`), and what a result of zero already
  means at each point of the way out (`ExitInv`).
* `CpuHelperProofs`: `TypeOK`, `SampleIsWhole`, `SplitWithinLag` and
  `PrintedIsElapsed`. `HelperInv` is the argument for the double copy: while an
  even sequence read by the first copy is still the counter's, the words read
  after it are the counter's; once the second copy has read the same sequence, the
  first copy is whole for good. `RanInv` ties the counter to the true busy time,
  `HistInv` and `SplitInv` the copies to the history of both, and `PreviousInv`
  the last sample to the instant it was taken. Of `ToolLife`, for any number of
  CPUs and any lines, `EndIsClean` and `OneLateStep`: `HoldInv` bounds what is held
  by the place main has come to (`MayHold`), `UndoCovers` says that each way out
  releases all of it, `ReleaseInv` that what is still to be released was not, and
  `LateInv` that after the late step no place leads to another. And `ListsExact`,
  for any lines of /sys, which is an induction over the line: `AllNaturals` is the
  induction, for a set of naturals, since a theorem with an operator parameter
  cannot be used, and `LoopExists` that a loop has its states; `RangesLoop` and
  `PlacesLoop` apply them to the two loops of the code. `ReadInv` says that the
  ranges found up to a comma cover what the tokens up to it cover (`CoversNext`),
  `KernelInv` that a line the kernel prints has a range at each number, each after
  the one before, and `PlacedInv` that the ids are the numbers of the ranges read
  until one had no room: `CountIncreasing` turns the lack of room into more CPUs
  than libbpf counts.
* `CpuCollectorProofs`: `TypeOK`, `FailureIsReal`, `NoGhostHelper`,
  `RequiredIsLoud`, `FallbackIsRecent`, `CloseReaps`. `CInv` adds that an end of
  the output is known to come from the helper or from close at each point of the
  reader, and what collect has already learnt at each of its steps.
* `EbpfProofs`: of `CpuAlert`, `CountedOnce` for any number of CPUs. `Unaccounted` is the
  time a CPU has spent and no counter holds yet: what was taken, what the counter
  holds (unless it was read and waits for its reset) and what is unaccounted
  never exceed what was spent, of busy time (`BusyLeft`) as of idle (`IdleLeft`).
  Of `Labs`, for any paths and packets, `HooksExplain` and `AttachmentTold`:
  `FilterVerdicts` says that the filters find the layers behind any options,
  `OnItsWay` which filters a packet on its way has passed already, `RecipeInv` what
  each step of `make attach` finds attached.
* `CollectionProofs`: `TypeOK`, `FailureContained`, `RenderSafe`, `StatusHonest`,
  for any collectors, lists of series and categories. `TurnInv` says that between
  two turns the samples are what those asked so far returned but for the failed
  ones, without a series twice and without a reserved name: the diagnostics that
  are added at the end are new.
* `BackingProofs`: `TypeOK` and `BackingExact`. `WalkInv` says that everything
  below a visited name is visited, waits, or has ended its branch with
  "unknown": when nothing waits, what was visited is closed, so that everything
  reachable is in it. `CalledWalk` is the step all kinds of call share.
* `StorageProofs`: `TypeOK`, `ExclusiveIsOwned`, `AttributionExact` and
  `TotalsOwned`. `ExclusiveMount` is the heart: whatever is hidden, an exclusive
  mount is of a file system on that one disk, or that spreads unseen from it, and all
  exclusive mounts of it share one identity. `LoopInv` says that `seen` holds the identities of the reports,
  one report each.

Type invariants are proved and are in no run. Only model-checked: the liveness
properties (`StopSettles`, `StopWakesWaiters`, `EndIsNoticed`, `CloseEnds`,
`WalkEnds`, `Ends`, `StopEnds`), since fairness and ENABLED are out of the
prover's reach.

## Plan

Done, in this order: `Monitor` with its service, `Scheduler`, `CpuCounter` and
`CpuHelper`, `CpuAlert`, `CpuCollector`, `Backing`, `Storage`, `Collection`,
`Agent`, `CpuList` and `ToolLife`, `LabPrograms` and `Labs`.
What could follow:

1. `ProcStat`: the arithmetic of `_proc_samples` against the true usage, and that
   it stays within 0 and 100.
2. Composition of `CpuCollector` with the lines `CpuHelper` prints.

## Not modelled, and why

GPU, memory and thermal collectors, normalisation, rendering and configuration
are sequential parsing and formatting without state between calls, covered by
fixtures in the repository's tests; what the rest of the system sees of them (a
collector raises, two series clash, `normalize` raises) is in `Collection`. The
API is stateless: one reader of `Monitor` per request. The kernel's types in
`vmlinux.h` are generated. The stack script, containers, topology, dashboards and
the set-up of the labs deploy third-party services or build files. Of the C
programs only the parsing of the arguments is left out, which precedes all state;
of the CPU collector, the arithmetic over `/proc/stat`, the thread that logs
stderr and a constructor whose thread cannot be started.
