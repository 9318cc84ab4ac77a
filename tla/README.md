# A TLA+ verification of Gasha (LEMAS)

Gasha, whose code calls itself LEMAS, is a malware-analysis sandbox written in
Go. A file is submitted through a command, an HTTP service or a C library; an
orchestrator queues it, runs it as an isolated process under a telemetry
monitor, scans what is observed with Sigma and YARA rules, and writes a JSON and
an HTML report. This directory models the parts of it that are concurrent or
stateful, checks them with TLC and proves theorems about the core with TLAPS.
Paths below are relative to the repository root; `PROJECT.json` maps every
definition to the lines it stands for.

## 1. Inventory

Legend: **S** state, **O** operations, **I** interactions, **H** hard
behaviours, **C** what makes it correct.

### Orchestrator (`pkg/orchestrator/orchestrator.go`) — modelled
- **S** the queue, the store, the rule engine, the daemon's context; per job a
  `storage.Job` in memory, a run context, `doneChan`, `exitCode`, `allHits`.
- **O** `SubmitJob` (hash, save row, push), `GetJobStatus`, `Start` (the worker
  loop), `executeJob` (launch, monitor, wait or kill, tear down, scan, report),
  `failJob`, `Close`.
- **I** callers on any goroutine submit; one worker runs jobs one after the
  other; each job adds a wait goroutine, a forwarder, a consumer, a dispatcher, a
  monitor goroutine and a context watcher; the store is shared with every reader.
- **H** all errors of the store are ignored but one; two `select` cases can be
  ready together; the sample's exit, its deadline and a shutdown race; nothing
  is recovered after a crash; no goroutine but the wait goroutine is joined.
- **C** jobs run once, in order; rows only move forward; a row says that a sample
  ended only when it was waited for; a report means a scored job unless the store failed or was closed;
  every accepted job ends.

### Job queue (`pkg/orchestrator/queue.go`) — modelled
- **S** a slice, a mutex, a condition variable. **O** `Push`, `Pop`, `Length`.
- **H** lost wake-ups, a woken `Pop` that finds nothing, several poppers.
- **C** FIFO, no job lost or doubled, no sleeper forgotten.

### Telemetry pipeline (`pkg/monitor/monitor.go`, `executeJob`) — modelled
- **S** `publishChan` (5000), `bus.stream` (5000), `consumerChan` (1000), the
  events table, `allHits` with `ruleHitsMu`.
- **O** `Publish`, `StartPipeline`, `StopPipeline`, the forwarder and consumer
  goroutines, closing the channel, memory inspection and scan, report input.
- **H** a full channel at each hop drops; some sends block; the channel is closed
  on the hope that 300 ms are enough; the report is made while the consumer works.
- **C** no reordering and no duplication; nothing vanishes except by a drop at a
  known place; the monitor is never stuck; a reported hit has its event in the
  reported timeline.

### Standalone command (`cmd/lemas/main.go`) — modelled
- **S** the status read last, the poll deadline. **O** submit, poll, stat and read
  the report, every `log.Fatal`, and the end of `main`, which ends the worker too.
- **H** each poll interleaves with the worker. **C** a summary only of a whole,
  scored report; no sample outlives the command (Windows Job Object).

### Job store (`pkg/storage/sqlite.go`) — partly
- **S** tables `jobs`, `events`, `iocs`, `ttp_mappings`, `hmac_key`; per opener the key. **O** `NewStore`
  (schema, upgrade, key), `SaveJob` (full row replace), `GetJob`, `SaveEvent`, `GetJobEvents`,
  `SaveIOC`, `SaveTTP` (called by the report generator), `VerifyEventIntegrity`, `Close`.
- **H** any call may fail with a busy or closed database; the key is read, and
  inserted when missing, in two statements, while another process does the same. **C** rows changed
  since are found, rows any opener saved are not taken for such.

### Report generator (`pkg/report/report.go`) — partly
- Reads row, then events; derives IOCs and TTPs; scores the hits; saves the row as
  "completed" with a threat level; saves the IOCs and TTPs one by one; writes HTML, then JSON.
- **H** errors of the reads and of the files return early after some effects, those of the saves are
  not looked at; the store may be closed between any two calls; readers see each effect. **C** over a
  report there is a scored row and its findings, unless a save failed or the store was closed meanwhile.

### Isolation (`pkg/isolation`) — Windows modelled, Linux partly
- Linux: `CreateProcess` with new namespaces, `Kill` of the process group, `Wait`.
  Windows: seven calls make a suspended process in a Job Object with limits and two pipes, each call
  may fail; `Wait` closes the handles while a goroutine that watches the run context still has them.
- **H** a failure half-way; a process that runs before it is contained; `Kill` racing `Wait` and the
  watcher; values of handles used again by the next run; stdout and stderr pipes nobody reads.
- **C** nothing of a sample runs outside a Job Object that ends with the daemon; a failed launch leaves
  nothing; a run is ended only for its own sake.

### Monitors (`monitor_linux.go`, `monitor_windows.go`, `bpf/monitoring.bpf.c`) — modelled in their control
- **S** `monitoredPIDs`, `processCache`, `known` processes, file and connection
  sets; the kernel's `target_pids` and ring buffer; the monitor's context.
- **O** Linux: `Start` (eBPF or, failing that, a `/proc` poller), `procPollLoop`,
  `handleBPFEvent`, the exec, exit, openat, write, connect and ptrace programs;
  Windows: `handleETWEvent` for twelve providers. `Stop`.
- **I** each feeds the correlation engine and sends to `publishChan`; what they look
  at is the host's process table, which changes between two looks.
- **H** PID reuse; children of tracked processes, orphans; events lost by the ring;
  kernel and user side with a filter each; threads that exit; spoofed parents; a
  failed eBPF start-up that cancels the context the fallback then runs under; programs that run
  beside each other in the threads of one process; a sample that runs before it is observed.
- **C** the whole tree of the sample is heard and, while IDs are not reused, nobody
  else; a process is introduced before its deeds; what is kept under an ID belongs to
  the process that has it.

### Correlation engine (`pkg/monitor/correlation.go`) — modelled
- **S** the process graph (two maps), connections, persistence writes, injection state
  per (source, target) with the time it was first seen. **O** `ProcessEvent` and its checks.
- **H** order of preparation, execution and expiry in two windows; PID reuse;
  persistence before or after network contact.
- **C** the graph is the living processes; an alert that joins two deeds joins those of
  one process, in either order; an injection chain has the preparation it claims.

### REST API (`pkg/integration/api.go`) — `handleSubmit` modelled
- **S** `temp_uploads`, one file per base name; per request where it is. **O** create, copy, submit,
  answer, remove after five seconds; status and report reads.
- **I** requests on goroutines of their own; the worker launches whatever lies at the path by then.
- **H** two requests with one name; removal while the job waits; failures that leave a file.
- **C** a job runs the upload it was submitted with, unless a namesake wrote in between.

### C API (`cmd/lemas-c/main.go`) — modelled
- **S** the global orchestrator, its context, a mutex. **O** `LemasInit`, `LemasSubmit`, `LemasClose`.
- **H** any thread calls; a closed life's worker lives on beside the next one. **C** closing is final.

### Sigma rules (`sigma_loader.go`) — external rules modelled
- **S** compiled rules, the index by event ID. **O** load a directory, compile a file (selectors,
  modifiers, log source), parse the condition, build the index, evaluate an event.
- **H** precedence and quantifiers by hand-written descent; bad files among good ones; an index and a
  second look. **C** a rule hits exactly the events its author meant.

### YARA rules (`yara_loader.go`) — external rules modelled
- **S** compiled rules. **O** a line parser of rule blocks, strings and conditions; matching of a buffer.
- **H** block ends, several layouts, condition forms found by text, names shared by patterns.
- **C** a rule fires exactly on the buffers its author meant.

### Not modelled
See section 6.

## 2. Modules

| Module | What it is |
|---|---|
| `JobLedger` | abstract: accepted jobs stand in line, one at a time is active, only the active one is published, none comes back |
| `Orchestrator` | submission, worker, sample, shutdown, crash and restart; implements `JobLedger` |
| `OrchestratorProofs` | the theorems about `Orchestrator` |
| `Fifo` / `JobQueue` | abstract FIFO / the mutex and condition variable that implement it |
| `LossyLog` / `Pipeline` | abstract log that may miss events / the goroutines and channels that implement it |
| `Standalone` | extends `Orchestrator` with the main goroutine of `lemas -file` in the same process |
| `Correlation` | the engine as a value: what an event does to it and which alerts it raises; no variables |
| `Behaviour` | feeds `Correlation` a truthful stream of events about processes whose IDs are reused |
| `BehaviourProofs` | the theorems about `Behaviour`, hence about the engine |
| `Processes` | the host's process table as the monitors see it: birth, parent, tree of the sample, end, reuse of IDs |
| `ProcMonitor` | the Linux monitor's start and its `/proc` poller, over `Processes` |
| `EbpfMonitor` | the kernel programs, ring buffer and `handleBPFEvent`, over `Processes` and with a `Correlation` engine |
| `EtwMonitor` | the Windows handler, over `Processes` and with a `Correlation` engine |
| `Daemon` | extends `Orchestrator` with the requests of `lemas -daemon` and the directory of uploads |
| `Command` | `cmd/lemas`: `Standalone` or `Daemon`, by the mode |
| `Isolation` | Windows: creating, killing and waiting for a process in a Job Object, over a table of handles |
| `Storage` | opening one database from several places at once, event rows and their keys |
| `Library` | the C library's calls from several threads, and the workers of its lives |
| `SigmaRules` / `YaraRules` | loader, parser and evaluator of external rules, with a reference meaning |
| `RuleSamples` | the rule files, events and buffers of their runs |
| `Parts` | names the instances of `Isolation` (`Iso`), `Storage` (`Db`) and `Library` (`Lib`) beside `Command`, with what they assume of their constants |
| `MCParts`, `MCQueue` | parts that share no state side by side, one part per behaviour |
| `PartsProofs` | the theorems about `JobQueue`, `Storage`, `Library`, `Isolation`, `Standalone` and `Daemon` |
| `PipelineProofs` | the theorems about `Pipeline` |
| `ProcessesProofs` | lemmas about the process table, for any number of IDs and births |
| `ProcMonitorProofs`, `EbpfMonitorProofs`, `EtwMonitorProofs` | the theorems about the monitors |
| `MC*` | instances for TLC, one `.cfg` per run |

### How the models correspond to the code

**Orchestrator.** The worker is a program counter `pc` over the points of `Start`
and `executeJob` at which another actor can act: each call of the store, each
system call on the process, each blocking operation. `cur` is the job it holds,
`mem` that job's in-memory `Status`. `row` and `verdict` are the columns `status`
and `threat_level` of the jobs table. `html` and `json` are report files, which
are "partial" between creation and completion. `findings` says that all IOC and TTP rows of
the job are saved. `proc` is the sample, which is "alive", a "zombie" until the wait goroutine
returns, then "reaped". `Wait` may also fail, at any time: its goroutine discards the error and closes
`doneChan` all the same, and leaves the sample "adrift" while it runs and "lost" after. A `select`
with neither case ready parks; the event that comes first wakes it, so that the
code's choice between two ready cases exists only when both are ready on arrival.
`SaveJob` succeeds or errs, and its error is looked at by `SubmitJob` only; of
`GenerateReport` the code looks at the errors of the two reads (`ReadJob`), and not at those of the saves
(`ScoreJob`, `SaveFindings`). These are steps of their own, so that a `Close` may come between any two: the report
is then written over a row that was never scored, and `cutOff` names that job.
The second copy of the row, which
`GenerateReport` reads back and saves, is why a "timeout" row becomes "completed".
A `Crash` throws away all that is in memory; `NewOrchestrator` starts again with an
empty queue and reads no row. Program text that only computes (static scan, tear-down)
is one step without an effect on this state.

**JobQueue.** One action per statement of `Push` and `Pop`; `sync.Cond` is a set of
sleepers; `Wait` joins that set before it releases the mutex, as the runtime does.

**Pipeline.** One action per channel operation of each of the five goroutines; an
event being carried by a goroutine is in its `...Hand`. A blocking send is a state
("blocked") and not a disabled action. A send on the closed channel sets `panicked`,
after which there is no action, as in Go. Events are numbered in the order of
emission, which is all the properties tell apart. `GetJobEvents` returns an error, and no report is made, or the
rows read before an error that ended the iteration, which it does not look for; `cutOff` says so.

**Standalone.** `CliNext` interleaves the main goroutine with the `Worker`,
`Deadline`, `WaitReturns`, `WaitFails`, `WatcherKills` and `SampleExits` of `Orchestrator`; every
exit is `Orchestrator!ProcessEnds`.

**Correlation.** The engine is called by one goroutine, so its state is a record and
`ProcessEvent` a function from engine and event to engine; `Alerts` is what the same
call puts on the channel. Of each event only what a check compares is kept: a path is
"lasting" (both persistence checks know it), "early" (only one does) or "other"; an API
name is "prepare", "execute" or "other". Maps that are appended to and never read are left out.

**Behaviour.** One action per type of event; `own` records what the living process with
an ID really did, and the alerts are judged against it. The clock is the event's time stamp.

**Processes.** Each process has a birth number, so that a property can tell it from a
later owner of its ID, and knows whether it descends from the sample. On the end of a
parent its children go to `Outside` or, in a PID namespace, to the sample.

**ProcMonitor.** `Start` as the code has it: eBPF fails early, or late with `cleanup`, or the
poller is started. A turn of `procPollLoop` is split where it looks at `/proc` again: the list of
the directory, the status of one process, the check for its exit, the reads of its descriptors
and connections. The world moves between any two of these steps.

**EbpfMonitor.** A kernel program is two steps on a CPU: up to its look into `target_pids`, and from there to the
event in the ring. Programs of different threads run beside each other on different CPUs; `cpu` says which program a CPU
is in the middle of. An exec, and the exit of a last thread, run alone in their process, as the kernel has it, and the
first process of a PID namespace ends after the others. `raced` records an event that came too late: a call of a
process whose ID another thread's exit has taken off the map ("exit"), or a creation after the end of the parent it
was let in for, or before that parent's own creation ("exec"). `ring` holds at most `RingSize` events and loses the next;
`handleBPFEvent` is one action, with its discards: of IDs it does not track, and of opens that neither write nor
are of a suspicious path (`Discards`). The path of a write is whatever `/proc` may say by then.

**EtwMonitor.** The sample runs, and starts children, before the session does: `session` is "pending" until
`EnableProvider` of the process provider succeeds, or fails, which `Start` reports and goes on from. Until then, or
for good, nothing is heard; `missed` names the living processes that were started unheard, or by one of these. ETW delivers in order and the
handler looks at the event only, so that an
event and its handling are one action. An event the engine hears twice is `HandledTwice`.

**Daemon.** A file is named after the request that made it, `dir` says which file lies at a base name
and `content` what was written to it, so that emptying a file that exists, mixing two writers and
removing a path are what they are on disk. `Submit` is `Orchestrator`'s submission in its three steps;
`Launch` is its `CreateProcess` of whatever lies at the path. `disturbed` records that a namesake wrote
between the upload and the launch.

**Isolation.** One action per system call of `CreateProcess`, each with the clean-up of its failure.
A handle is a value that is free again once closed, and an operation on a value acts on whatever it
refers to at that time, or on nothing. A `Wait` that fails leaves its handles open and
the sample as it is ("abandoned"), for the watcher to end.

**Storage.** One action per SQL statement, each of which may fail; a key is a number, a row carries the
opener and the key it was signed with. Databases start new, of an older version, or of this one.

**Library.** `orchMutex` is explicit; a life is one orchestrator with its context, store, queue and worker.

**SigmaRules, YaraRules.** Words are sequences of pieces, so that prefix, suffix and substring are those of
`SequencesExt`; case is left out but where a rule speaks of it. A file holds the condition as the tree its
author meant; `Text` writes it down with the parentheses precedence requires, the model of the loader parses
that text, and the property compares what is found with the meaning of the tree (`Holds`, `Meant`),
which knows neither tokens nor index. "them" means all selectors of the rule in the one, as
`sigma_loader.go:864` says, and the blocks named `selection*` in the other, as the code has it. Regular expressions are the literals they stand for.

**MCParts, MCQueue.** `part` is chosen at the start and says which module moves; the others keep their initial
values. Every property is checked in every state, and is about the part that moves.

## 3. Runs

| Run | Instance | What it shows |
|---|---|---|
| `orch_safety` | 2 interchangeable jobs, all faults (a failing `Wait` among them), Job Object | rows, queue, processes and files agree in every interleaving; rows only move forward; nothing runs twice |
| `queue` | 2 jobs, a store that fails only by being closed, failing `Wait`, no Job Object; 3 pushers, 2 poppers | a report implies a verdict and the findings, unless the store was closed meanwhile; `Orchestrator` implements `JobLedger`; every job the living daemon holds ends. The queue implements `Fifo`; no error return; a job in the slice has a popper that is awake or woken for it (`NoLostWakeup`), and every job pushed is popped |
| `pipeline` | capacities 1, 4 events, all faults | `Accounted`; evidence behind hits is in the timeline, if that was read to its end; `Pipeline` implements `LossyLog`; blocking sends get through; the dispatcher ends |
| `parts`: command | 2 jobs, 2 base names, file errors, shutdown | a summary is of a whole scored report of a sample that has ended; a job runs its own upload unless a namesake wrote in between |
| `parts`: rules | conditions of up to two operators over selections, filter, keywords and quantifiers ("them" where it has one meaning); 3 layouts of YARA rules with bad neighbours | Sigma and YARA rules hit what their authors meant |
| `parts`: isolation | 2 runs, 4 handle values | nothing of a sample runs uncontained; a failed launch leaves nothing; nothing outlives a `Wait` that succeeds, or the watcher |
| `parts`: store | 3 openers, 3 rows, databases of 3 kinds | every open store verifies every row any store saved |
| `parts`: library | 2 threads, 2 lives, 3 jobs each | a closed life takes at most one more job and is never submitted to |
| `cli_noreport` | 1 job | *violated*: "no report generated" is said while the report is being generated |
| `behaviour` | 2 IDs, windows 1 and 2, clock to 4, all events | the graph is the living processes; joined alerts and chains lean on deeds of the process they name |
| `proc` | 3 processes in 3 IDs, PID namespace, late failures | the poller's sets never part; only announced IDs exit; no stranger without reuse; lasting descendants are tracked, orphans too |
| `proc_late` | 2 IDs | *violated*: after a late failure of eBPF the fallback ends at once |
| `ebpf` | 3 processes in 2 IDs, 2 CPUs, ring of 2, 5 events, threads in one process | both filters agree, clean slate, creation first |
| `ebpf_thread` | 2 IDs, threads | *violated*: the exit of a thread is reported as the exit of its process |
| `etw` | 3 processes in 3 IDs, reuse, spoofed parents, all providers, a session that goes live late or never | descendants started with the session live are tracked; clean slate; escalation is reported |
| `isolation_watcher` | 2 runs, 3 handle values | *violated*: the watcher of an earlier run kills the next one's sample by a handle value that was used again |

Several properties are conditional on a history variable and not on a constant, so that one
instance has both sides: `NoneReused` (no ID used twice so far), `lost` (the ring has dropped an event),
`raced` (a kernel program's event came too late), `spoofed` (a process was started under another parent's name),
`missed` (the process, or an ancestor, was started before the session was live), `cutOff` (the store was closed
during the report, or the read of the timeline ended early). The states in which the condition
fails are reached in the same run; what fails there is listed in section 5.

`TypeOK` is a run's invariant in `Orchestrator`, the base of `queue`, `parts` and the proofs; in the other modules it
documents the variables, and in `Behaviour` it is proved.

### Bounds
Two jobs give one that runs beside one that is submitted or waits, and one that follows another: jobs interact only
through the queue and the worker, which looks at one at a time; a third one would wait behind the second. Channels of
capacity one are full or empty at any time, so each drop and each wait happens; four
events fill all three channels and one hand behind them. Three pushers and two
poppers include the case in which a woken popper finds the slice empty. Three births in three
process IDs, one of them the sample's, include a grandchild whose parent ends, a stranger, and an ID that is
used again; one ID opens files and another connects. The eBPF run has two IDs and five kernel events,
enough for a process that connects and exits and a second one in its ID that writes. Two CPUs run the program of one
thread beside the exit of another, or of a child beside that of its parent; they are interchangeable. Windows of one and two
ticks with a clock of four put a call inside the first, between the two and beyond both. A ring of
two is full while the reader is behind by one. Two requests with two base names meet at one name or not, which
is all that can happen between requests; one more waits behind neither. A third opener of a database opens what two
left behind. Four handle values are one run's three and one more, so that the next run gets values of the
last in any order. Rule conditions of two operators contain each pair of operators in either nesting, and
`MaxExprDepth` of 4 is one more than they reach: the guard for chains longer than 64 is observed below, not
reached. `ScanCap` of 5 is shorter than the longest buffer. One evaluation per loaded rule set is enough, since
it changes nothing that another one reads.
`CHECK_DEADLOCK FALSE` is set because each system may stop: a worker exits after
`cancel`, a finite number of events or pushes is used up, a command ends.

### Fairness
`FairSpec` of each module asks weak fairness of goroutines that can run, which
the Go scheduler gives (it is preemptive), and of the timer of the run context. It asks
nothing of a sample, which may never end, nor that a shutdown, crash or fault
happens, nor that a monitor emits anything. In `ProcMonitor` the poller's goroutine runs
and its ticker ticks; no process owes a step. `JobQueue` asks strong
fairness of taking the mutex, because `sync.Mutex` hands itself over to a waiter
after one millisecond.

## 4. Proofs

`OrchestratorProofs` proves, for every set of jobs, any choice of faults and both
values of `KillOnClose`, each safety property of `orch_safety` and of the orchestrator in `queue`, that the
queue is first-in first-out (`FifoOrder`), that accepted jobs have rows (`AcceptedHasRow`), and that
`Orchestrator` implements `JobLedger`. The assumption used is
`OrchestratorAssumption`: `NoJob` is not a job, faults are among `FaultKinds`, and
`KillOnClose` is a Boolean. The set of jobs need not be finite.

None of the properties is inductive alone. `VerdictAfterExit`, for instance, needs to
know that a worker at "teardown" or later holds a sample that `Wait` has returned for, which needs that
`doneChan` is closed only by the wait goroutine of the current job, and that no other
job's row can be in a terminal status with a sample still waited for. `IInv` has these parts:

- `TypeOK`;
- `PWorker`: at each program point, what the worker holds, and how `runCtx`, `waiting`,
  `done`, `mem` and the current sample agree with it;
- `PQueue`: `pushed` is `started` followed by `queue`, without repetition, and how
  `submit` tells whether a job has been pushed;
- `PUnseen`: a job that has not been started has no sample, no files, no verdict, and the
  row its submission gave it;
- `PCurrent`: what row, verdict and files of the current job may be at each point, and, as `Scored`, that
  saves do not fail between the reading of the job and its findings unless the store was closed, which `cutOff` records;
- `PResult`: what is left by a job that is over.

`Inductive` shows that `IInv` holds initially and is preserved by every action, one
lemma per action and one step per part the action can disturb; small lemmas
(`SaveJobEffect`, `OthersFrame`) say what a save changes and that other jobs keep
their state. The other theorems follow from `IInv`, and the action properties from
`IInv` at a step. `ImplementsLedger` maps each step to a step of the ledger or a
stutter, with `past` defined as the accepted jobs that are neither waiting nor active.
Three theorems state what no run does:

- `WorkerIsWoken`: the `select` and the `<-doneChan` of `executeJob` never wait for a wakeup that was missed or that nobody
  is left to give. `PContext` adds to `IInv` when the run context exists, and that a worker parks only while
  both cases can still become ready. It is the safety half of `AcceptedFinishes`; fairness has only to make it happen.
- `LeftIsFinal`: when a job has left the queue and the worker, its row, verdict and files never change, through shutdowns,
  crashes and restarts. A job lost in a crash keeps "queued", "running" or "timeout".
- `CancelledTakesOne`: a cancelled daemon takes at most one more job, and that one only if its worker was in `Pop` already.

`BehaviourProofs` proves every property of the run `behaviour`, for any set of IDs, any clock, and
any two windows with `PrimaryWindow <= MaxWindow`. The assumptions are `CorrelationAssumption` and
`BehaviourAssumption` (`NoPid` is not an ID, the windows and `MaxTime` are natural numbers, `Kinds` are
among the kinds of event). `Inv` joins to the properties the facts that tie the engine's maps to the
history `own` of the process that has an ID now:

- `DeadIsEmpty`: an ID without a process has no history, so what its next process finds is its own;
- `Contacts`, `Writes`: `contacted` and `written` of the engine say exactly what that history says;
  `EvidenceIsOwn` and `EitherOrderIsReported` rest on them;
- `Preparations`: a preparation lies in the past and is of another process;
- `Backed`: an injection state is the time of a preparation that was made, by the process that has
  the ID; it is why a "confirmed" or "late" chain has a preparation of the age it claims;
- `Remembered`: where there is a preparation and no state, some preparation has outlived the maximum
  window; it is why "unprepared" is said only of a target without a preparation or with one too old.

One lemma per event says what it does to engine, history and alerts (`CreateEffect` ... `CallEffect`),
and one that this preserves `Inv`; `ChainsFounded` is an action property and follows from `Inv` at the step.

`PipelineProofs` is for channels of any capacity, any number of events and any selection of faults
(`PipelineAssumption`). The stages an event passes, from the hand of the monitor to the events table, are one
sequence, `Relay`. `PInv` says that along it the events lie in the order of emission and that with the dropped
ones they are all that was emitted (`PFlow`); how the monitor's program counter and its hand agree (`PMonitor`);
and that hits stand on events that were saved, or lost in the attempt, all the way into the report unless the read of the
timeline was cut off (`PHits`). A step emits
at one end, moves one event one stage on, drops what a stage holds, or leaves the relay alone: one lemma for each. `Accounted`,
`HitsBackedByTimeline` and the refinement of `LossyLog` follow; the lemmas on contents and order of concatenations
are the only ones about data. `NobodyBlocksForEver` is the safety half of `MonitorNotStuck`: a blocked send has room, meets a
closed channel, or waits for a forwarder that waits for nobody, and `ruleHitsMu` is free or with a goroutine whose next
step releases it. `PHolders` says who holds what.

`PartsProofs` has one section for each small part, each with an inductive invariant of its own:

- `QInv`, for any pushers and poppers. Who is between `Lock` and `Unlock` holds the mutex, and what `Pop` saw
  before it takes the job still holds then. `PopNeverFails`, `NoLostWakeup` (the safety half of `PushedIsPopped`)
  and the refinement of `Fifo` rest on it. Assumed: `NobodyAssumption` (nobody is not a goroutine) and
  `PopperAssumption` (there is a popper; without one a job in the slice waits for nobody).
- `DbInv`, for any stores: an open store has the key in the table, a signed row has that key, an unsigned one is of the older
  version. Assumed: `StoreAssumption` (the older version is none of the openers).
- `LibInv`, for any threads and lives: who holds `orchMutex`, that the current life has its store, and how far the
  worker of a closed life can be that has taken its late job. Assumed: `ThreadAssumption`.
- `IsoInv`, for any runs and handle values: at each stage of a run, which handles are its own, whether its Job
  Object kills on close, whether the sample is in it, and what of the sample may be alive, a `Wait` that failed included;
  `GoneInv` adds that nothing of a sample lives once its watcher has gone. `Aside` says that a
  run is not disturbed by the calls of another one, which is where the reuse of handle values could have
  broken it. Assumed: `ClosedAssumption` (a closed handle refers to nothing). `OnlyReusedHandlesKill` proves what
  run `isolation_watcher` violates for as long as no two runs have had the same handle value (`NotReused`); `KillInv`
  needs that a Job Object is under the value its run keeps, and under no other.
- `CliInv` joins to `IInv` of the orchestrator that `report.json` is made last, when the HTML is whole and `Wait` has
  returned (`ReportsLast`), that the command's store is never closed under a report (`cutOff = {}`: a `log.Fatal` runs no
  deferred `Close`, and `main` returns only after a whole report), and that a command which has ended has no daemon. Assumed: `StandaloneAssumption`.
  `MessageIsPremature` explains what run `cli_noreport` finds. That run has no faults, and without failing saves and files the
  message is said only while the worker is at the report of that very job (`ToReport`): it never is about a
  job whose report would not have come. `Reporting` says that a row that is over and has no `report.json` is at its report.
- `DaemonInv` joins to `IInv` which file lies at which name and who has it open (`Names`), and that until an
  undisturbed job is launched nothing but its own upload lies at its path, if anything does (`Owned`). Assumed: `DaemonAssumption` (no file is named after nothing).

`ProcessesProofs` shows `WorldInv`: birth numbers are unique among the living and IDs in use are counted (`Numbered`),
parents are alive and in the tree with their children (`Related`). Over it:

- `ProcMonitorProofs`: `Sets` relates the poller's sets and the point it is at, and suffices for `PassedOverIsTracked`
  and `ExitOfAnnounced`; `KinInv` adds that, while no ID was used twice, whoever has a tracked ID is of the sample's tree.
  `StrangersUnheard` is proved from it for a sample with namespaces, or a host where nobody connects: without
  a network namespace the table of connections is everybody's, and the property is false (section 5).
  `EndsOnlyIfStopped` proves under `~LateFailures` what run `proc_late` violates: the late failure is its only cause.
- `EtwMonitorProofs`: `EtwInv` says that nothing is kept before the session is live, and, with it live, that what the
  engine keeps under an ID is of a tracked process and was done by it
  (`Slate`); and, unless a parent was spoofed, that its graph has the node of every process of the tree that was not
  missed, but the sample, with the integrity it has (`Charted`, stated as `TreeIsCharted`). `EtwMonitorAssumption` says that there are no PID
  namespaces, as on Windows.
- `EbpfMonitorProofs`, for any number of CPUs: the ring sits between the kernel's filter and the reader's, so that
  `EbpfInv` looks at each slot. `Running` says what the program on a CPU knows of its process, and which programs run alone in it.
  `Agreed`: whatever is in the ring, tracked by the kernel or on a CPU is tracked by the reader, or will be when it comes
  to a creation before it; this needs that no creation came too late. `Owned` and `Clean`: up to the next exit under way, the
  events of an ID and what the engine has
  under it are of one process; this needs that no call came after an exit. Both need that nothing was lost; `Named`, which
  gives `CreateFirst`, needs that no ID was used twice and allows any loss and any race. `FiltersAgree` is the action property
  `NoneDiscarded`. `CleanWithoutThreads` proves with `Threads = {}` that only a lost event can spoil the slate.
  `ExitsWithoutThreads` proves with `Threads = {}` the property that run `ebpf_thread` violates with threads: the
  thread's exit is the only cause of that finding.

### Model-checked only
- Liveness (`AcceptedFinishes`, `PushedIsPopped`, `MonitorNotStuck`, `DispatcherStops`, and `DescendantsTracked` of
  `ProcMonitor`): the proof system has no rule for fairness. Safety halves are proved where there
  is one: `NoLostWakeup` of `PushedIsPopped`, `WorkerIsWoken` of `AcceptedFinishes`, `NobodyBlocksForEver` of `MonitorNotStuck`.
- `SigmaAgrees`, `YaraAgrees`: parser and evaluator are recursive operators over the text of a rule; that they
  compute the meaning of every rule is an induction over data, which the provers have no means for.
- The four properties of the runs that expect a violation: they are false. `ExitMeansGone` is proved without threads,
  `PollsUntilStopped` without late failures, `OwnContextKills` without reuse of handle values; for `NoReportMeansNone`
  `MessageIsPremature` says how far it fails.

Every other property of a passing run is a theorem. The proofs are about the models: that an action is what its
lines of code do rests on reading them, and on the mutants.

## 5. Findings

With a run each:

- "analysis timed out with no report generated" (`cmd/lemas/main.go:161`) is said in the
  window between the save of "timeout" and the report (`cli_noreport`).
- `cleanup` on a late eBPF failure cancels the context of the fallback that
  `monitor_linux.go:70` promises (`proc_late`).
- "process exit + cleanup" (`monitoring.bpf.c:5`) runs for each thread that exits (`ebpf_thread`).
- The goroutine for "Honour context cancellation" (`isolation_windows.go:345`) keeps the value of a handle after `Wait`
  has closed it, and terminates whatever Job Object has that value when the run's context ends (`isolation_watcher`).

Further observations made while modelling. The models have the behaviour, and the properties above
are conditional or weaker because of it; no run is spent on them:

- `LemasClose` "terminates ... background queue workers" (`cmd/lemas-c/main.go:72`), but
  `Pop` is not woken by the cancellation (`orchestrator.go:100`); `AcceptedFinishes` excepts a cancelled daemon.
- `Stop` "terminates the telemetry gathering" (`monitor.go:13`), but only cancels a context that is looked
  at between turns (`monitor_linux.go:323`); hence the send on a closed channel in `Pipeline`.
- `allHits` has a mutex (`orchestrator.go:161`) that the last reads do not take (`:288`, `:292`); `EndReadHits`.
- A second preparation does not refresh `firstSeen` (`correlation.go:345`), so that after the maximum window
  "no prior memory write observed" (`:369`) may be said of a write a moment ago; hence the last clause of
  `ChainHasPreparation`.
- The poller adopts a process only while its parent is tracked (`monitor_linux.go:347`): without namespaces
  an orphan is never tracked. Hence `Namespaces` in `DescendantsTracked`.
- An ID used again between two looks stays tracked (`monitor_linux.go:363`); `handleBPFEvent` puts an ID back into the
  kernel's map after its exit (`:580`); on Windows `monitoredPIDs` keeps an ended ID (`monitor_windows.go:329`). Hence
  `NoneReused` in `StrangersUnheard`.
- The poller sends exits but does not feed them to the engine (`monitor_linux.go:369`), whose test expects a
  "clean slate" (`correlation_enrichment_test.go:126`).
- `/proc/<pid>/net/tcp` lists the connections of the network namespace, and each is reported of every tracked
  process (`monitor_linux.go:490`).
- No program traces fork, although `monitoring.bpf.c:12` lists it; the exec of a grandchild whose parent never
  called exec is missed.
- The event of a ptrace call is named "ptrace" (`monitor_linux.go:682`), which the injection check does not know.
- `fd_path_map` is looked up (`monitoring.bpf.c:211`) and never filled.
- A handle to a process becomes an event the engine's check for lsass does not take (`monitor_windows.go:652`).
- Any value set below a service's key counts as an installation (`monitor_windows.go:399`, against the comment at `:397`).
- A remote thread goes through the injection check twice (`monitor_windows.go:527`, `:860`).
- A child is adopted by the parent its creator names (`monitor_windows.go:200`). Hence `spoofed`.
- The injection state of a pair outlives its target (`correlation.go:326`): the engine is not told which process
  a call was about.
- The path of a write is read from `/proc` when the event is handled (`monitor_linux.go:911`), when the descriptor may
  be another's.
- Every job leaves the consumer goroutine behind, since `consumerChan` is never closed (`orchestrator.go:164`); and
  on Linux nothing reads the sample's pipes (`isolation_linux.go:67`).
- The profile's timeout is never zero (`policy.go:18`), so that the configured default is never used and the configured
  maximum caps nothing, against `config.yaml:14` and `README.md:344`; the command's poll timeout is that maximum plus 30
  seconds and may be shorter than the profile's.
- Sigma: "them" is the blocks named `selection*` in the code (`sigma_loader.go:905`), while its comment (`:864`) says all
  selectors; "all of them" over a filter thus holds where the author meant it not to. A number before "them" is not looked at; a list of values is looked for in a field no event has (`:958`); a missing condition becomes "<nil>" and
  never holds, the default being for a blank one; a `cidr` field is dropped, which widens the rule; plain values match
  as substrings; a chain of more than 64 operands loses the first (`:383`), which inside "not" makes it true; "all of"
  anywhere makes every keyword required (`:632`); `logsource.service` is not looked at. The reference meaning of "them" is the comment's,
  and the samples contain it only in rules where both agree; it follows the code for plain values; the samples do
  not contain the other cases.
- YARA: "not" (`yara_loader.go:265`) is taken for the name of a pattern; parentheses are ignored; a single `$s1` means any;
  jumps in hexadecimal strings are skipped; two patterns of one name break "all"; an unclosed rule takes the
  next one's closing brace. The samples contain unclosed rules only where no other follows.
- Errors of both loaders are discarded by their callers (`sigma.go:20`, `yara.go:21`).
- An upload that waits for more than five seconds is gone when the worker comes to it, and its job fails (`api.go:120`);
  a failed copy leaves its file behind (`:95`); the upload is still open for writing until the answer is sent, while the
  worker may already start it.
- A monitor that fails to start gets the sample killed, but nothing waits for it, so that its handles stay open
  (`orchestrator.go:231`); a crash between the creation and the assignment leaves a suspended process.
- The error of `proc.Wait` is discarded (`orchestrator.go:240`): a job may be "completed", and reported, while its sample
  runs; the Windows `Wait` that fails leaves its handles open (`isolation_windows.go:167`). Hence `AfterWait` in
  `VerdictAfterExit` and "adrift" in `SampleSupervised`.
- Nobody waits for the report at `Close`: the save of the verdict may fail unseen (`report.go:148`), and the files are
  written over a row without a verdict. Hence `cutOff` in `ReportImpliesVerdict`.
- `rows.Err()` is not looked at (`sqlite.go:217`): an iteration that fails gives a shorter timeline and no error. Hence
  `cutOff` in `HitsBackedByTimeline`.
- On Windows the sample is resumed (`orchestrator.go:220`) before the monitor starts (`:229`) and the session is live
  (`monitor_windows.go:95`): children started before are never adopted, nor are theirs. Hence `missed`.
- A kernel program may pass its look into the map (`monitoring.bpf.c:253`) and submit after another thread's exit has
  taken the ID off it and submitted (`:154-165`): the event lands under the ID's next owner. The same holds of an exec and the
  end, or the own creation, of its parent. Hence `raced`.
- The kernel submits every open of a tracked process, of which the reader drops those that only read and are not of a
  suspicious path (`monitor_linux.go:632-638`). Hence `Discards`.
- The key of the events is rotated "by deleting the row" (`sqlite.go:24`), after which rows saved before do not verify.
  `Storage` has no such step.
- An upload overwrites that of a namesake which still waits to be run (`api.go:89`); hence `disturbed`.
- An error of `ALTER TABLE` is ignored whatever it is (`sqlite.go:144`): without the column each `SaveEvent` fails, silently.
- The worker of a closed library life that waits in `Pop` stays for ever; workers of two lives may run at the same time.

Package `monitor` compiles on Linux and on Windows from different files, but
`memory_inspector.go`, which calls the Windows API, has no build constraint; the
Linux monitor is modelled as written.

## 6. Not modelled

Pure functions of one call, without state that another step could meet: the built-in Sigma rules (`sigma.go`), the built-in
YARA byte patterns and the script normaliser, the DGA score (real arithmetic), the threat score and the contents of reports,
the PE parser, the configuration extractors. Fixed tables: execution profiles and configuration. One lock around
everything: the PCAP writer. Kernel and Windows internals: namespaces, limits,
ETW sessions beyond whether the process provider is enabled, memory regions. Deletion of the database's key.
An error of `Kill` itself. Enrichment of
events (hashes, users, command lines), AMSI and PowerShell events, formatting and logging.

## 7. Plan

1. Core, engine and monitors, the parts around the core (done).
2. Proofs: `Orchestrator` and `Behaviour`; the queue, the pipeline and the parts; the three monitors (done). Every
   safety property of a passing run that is not about recursive operators has its theorem.
3. Left: what the rule evaluators do for one given tree could be proved if the parsers were written as functions over
   positions; `ExitsWithoutThreads` for processes whose threads end
   before them.
