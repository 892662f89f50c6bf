# Verification of Wallee

Wallee lets a language model run a 3D printer. The repository holds two generations of the program, and in
both the model only proposes: deterministic code decides, drives the machine and keeps durable records of what
it did. This directory specifies that deterministic code in TLA+, checks it with TLC on small instances and
proves its central promises with TLAPS.

Paths are relative to the repository; `v6/` stands for `wallee_v6/wallee_v6/`, `prusa/` for
`v6/packs/prusa_core_one_plus/`, `v1/` for `wallee/`.

## 1. Inventory

### Second generation (v6)

| Part | State | Operations | Talks to | What is hard | What makes it correct |
|---|---|---|---|---|---|
| control lease, `v6/runtime_control.py` | a descriptor per process, the lock file's inode | acquire, release | other processes through the file system | open and flock are two steps; start-up unlinks the file (`v6/main.py:256`) | one holder |
| runtime database, `v6/runtime_db.py` | plans, action_runs, approvals, exec_journal, events | store_plan, create/transition_action_run, start/finish_exec_journal, approvals | every process on the data directory | each write is its own commit; a start-up flush empties the tables one by one under live processes | only legal transitions; journal ahead of the machine |
| engine, `v6/engine.py` | the plan in hand, in-process locks | execute_plan, execute_operator_action | database, lease, packs, human gateway, safety kernel | crash between any two commits, exceptions on every path, stale frontier | one writer, at most one effect per key, evidence kept, stop at the first failure |
| pack barrier, `v6/packs/base.py` | the journal row of the key | execute | database, machine | a movement that raises after it began | write-ahead log |
| world compiler, `v6/planning_context.py` | none (derived) | compile, frontier, active locks | whiteboard, database | derived from rows that outlive their process | two dispatched actions never share a lock |
| human gateway, `v6/human.py`, `v6/operator_cli.py` | approvals | request, approve, reject | database | decisions arrive at any time, for other arguments, late | no dispatch without a matching approval |
| runtime loop, `v6/main.py` | plan, counters, clocks | the cycle, plan_with_retry | everything | a cycle ends in four ways; variables outlive cycles | fresh plans only, the run ends |
| safety kernel, `v6/safety.py` | heartbeat, interlock | beat, poll, trip | engine, loop | polled only by the loop it watches | a stale heartbeat trips |
| driver and adapters, `prusa/driver.py`, `prusa/adapters.py` | serial session | start, pause, resume, cancel, tuning methods | printer over HTTP and serial | answers that time out although the request is carried out, jobs replaced between read and request, stale status | a success was seen on the printer; a request acts on the job it read; every call ends |
| Prusa pack, `prusa/pack.py`, `prusa/types.py` | last good state, vision cache and worker, cooldowns, part on the bed | publish_raw_state, normalize, candidate_actions, _realize | driver, camera, whiteboard, engine | reused state during outages, answers of the worker for another job, memory across jobs and restarts | nothing is planned on what was not seen |
| job notebook, `prusa/job_notebook.py` and the notebook half of `pack.py` | file list, binding, cache, persisted notebooks and notes | resolve, build, merge notes, persist; sections, facts, note selection | printer's storage, disk | replaced files, torn writes, late uploads; cutting and carrying state over sections | a job sees the notebook of its text; the map equals its definition |
| vision, `prusa/vision.py` | snapshot cache | capture, analyse | camera, model API | asynchronous answers | see Pack |
| serial recovery, `prusa/serial_ready.py` | the port | ensure_serial_ready | kernel, USB, other processes | checked once, then several destructive steps | ends |
| hardware tools, `prusa/hardware_smoke.py` | locals of a command | direct, experiment, session, multi-session, managed proof, isolation, validation, audit | engine, pack, driver | the print changes between any two requests; failing half-way | what passed was restored; whose job; no foreign print cancelled |
| planner, models, observability | prompt views | plan, parse | model API | arbitrary answers | (arbitrary in the models) |

### First generation (v1)

| Part | State | Operations | Talks to | What is hard | What makes it correct |
|---|---|---|---|---|---|
| engine, `v1/engine/` | a snapshot of the ledger, the proposal in hand | poll_once, process_proposal, reconcile | ledger, diaries, whiteboard, tools | gates read shared state one by one; crash recovery | one effect per row, records agree, chains in order, every proposal settles |
| ledger and diary, `v1/ledger/` | actions, approvals, idempotency_exec | propose, set_status, record_approval, write_inflight/success/failed | agent, engine, operators | two databases written in sequence | keys distinct, diary first |
| agent loop, `v1/agent/` | cooldowns, recent decisions, stale counter, last message | run_once, wake, _route_decision | model API, ledger, whiteboard | wake against a running model call, answers to an old world, keys deleted by name | messages are answered, stale answers are rare, queued files kept |
| safety process, `v1/safety/` | alert latches, grace period | run_kernel | redis, printer | one stop request per activation, flags with a time to live | every alarm is answered once |
| human interfaces, buses, device packs, dashboard | | | | | I/O around the parts above |

`PROJECT.json` lists the parts with their status, and under "hazards" the places where this code is hard to
test, each with the properties aimed at it.

## 2. Modules

* **ControlLease** — the lease at the granularity of system calls. `lockPath` is the inode the path names,
  `opened[p]` a descriptor that is open and not locked, `fd[p]` the locked one. `Open`, `FlockTaken` and
  `FlockRefused` are `acquire`; `Release` is `release` and the kernel closing a dead process's descriptors;
  `UnlinkLock` is the end of `reset_runtime_start_state`.
* **RuntimeDB** — the tables as operators: `AllowedTransitions` is `_ALLOWED_TRANSITIONS`, and each operator
  that yields a new table is one SQLite transaction. No variables of its own.
* **Engine** — several processes on one data directory (the runtime loop and the managed procedures of
  `hardware_smoke.py`). A step ends at a commit, a hardware effect or a return, so `Stop` (crash, power loss,
  exit) falls between any two of them. `pc[p]` is the place in `_execute_actions`; `Request` is
  `transition_action_run` with its exception, `Leave` the way out with the `finally` block. The world is
  abstracted to `facts[p]`, the set of actions whose preconditions hold in p's whiteboard, chosen arbitrarily
  wherever the code publishes raw state. A run is identified by plan and action, since a plan names an action
  at most once. `effects` is history: how often the hardware moved for a key. The start-up flush is one action per
  table (`FlushApprovals`, `FlushJournal`, `FlushRuns`, `FlushPlans`), since `executescript` commits each DELETE by
  itself; the foreign keys cascade from plans to runs to approvals. The events table decides nothing and is left out.
* **EffectLog** — the abstract specification of the barrier: an entry is opened before the effect, the effect
  happens at most once under an open entry, an entry is closed as a success only after it. `Engine` is shown
  to implement it (`WriteAhead`), with the journal as the log and `effects` as the machine.
* **Runtime** — the cycle loop of `main.py` with `plan_with_retry`, the bypass and cadence rules, the
  pre-execution guard, the failure counters and `SafetyKernel.poll`. `execute_plan` is one step here. Time is
  a `Tick` between any two steps.
* **Driver** — `PrusaDriver` over its adapters. A step is one exchange with the printer: a status read, a control
  request that is accepted, refused or times out (`late` holds a timed-out request the printer may still carry
  out), a serial query or command (`queued` is a set command the firmware has not run yet). `Watch` and `GoalNow`
  are the state a call polls for. Beside it jobs end by themselves, a cancelled job lingers in the status
  (`stale`), and a person at the panel starts, pauses and tunes. `seen` is history: the goal held on the printer
  since the call began.
* **Pack** — one runtime cycle over the pack: `Publish`/`PublishFault`, `Compile` (normalize and candidate_actions),
  `Realized`/`RealizeRaises`/`RunBuiltin`, `VerifyHolds`/`CloseAction`. Of `Driver` it uses the contract that
  `SuccessWasSeen` establishes: a call that returns reached its goal, one that raises may or may not have. Windows
  of time (grace of the last good state, settling, cooldown) end by actions of their own at any moment.
* **Notebook** — which file a publish takes for the job and where its notebook comes from: binding, memory cache,
  persisted file with external notes, or a build in three steps (`Resolve`, `Generate`, `Persist`) between which
  files are replaced, jobs end and the runtime dies, also half-way through the write (`Torn`).
* **Sections** — `_build_sections` and `_annotate_sections_with_gcode_facts` line by line over every file of up to
  `MaxLines` lines of eight kinds, and the queries of `JobNotebook` over the result. The reference definitions
  (`InForceAt`, `InForceAtMarker`, tiling, `Sums` of counts) read the whole file and know nothing of the passes.
  Progress is counted in whole parts of a file, of which a line has `Unit` and a rounding step `Total` (the number of
  lines); `From` and `To` are the limits of a section rounded to the nearest step, as `round(..., 2)` does with
  `Unit` = 10000. A progress between two of these parts compares with the limits as one inside a step does. Exactly
  halfway between two steps the code's floating product decides which one it is; nothing below depends on it.
* **Sessions** — the trim procedures of the hardware tool: direct commands, planner-driven experiments and
  sessions, the multi-family session and the managed proof, as clients of an engine that may fail or refuse.
  `start` is history: the values before the tool began, as long as nobody else touched the printer. One look at the
  printer is one step: value, lifecycle and job of `_command_status` come from the one answer of `/api/v1/status`
  (`driver.py:742-814`), the second request only adds progress and file name. Any of these answers may come without
  a job id (`JobIds`); a baseline without one is compared with no job (`hardware_smoke.py:2600`).
* **Bench** — isolation, validation, audit and `ensure_serial_ready`, beside people who start and stop prints.
* **Dispatch** — the first-generation engine with ledger, diary and reconcile. `rows` holds what never changes
  of a row, `status` what does; `process_proposal` is one action per gate, because agent, operators and the
  clock run between them. `RecordRaises` and `PollRaises` are the exceptions inside and outside its `try`.
  `clock` is true time and `bootAt` the origin of `time.monotonic()`.
* **Agent** — `run_once` from reading the whiteboard to consuming the message. A step ends where another thread
  can come between (`ReadBoard`, `ReadIntent`, `PopQueue`, `ClearCancel`, the model call, `StaleCheck`, `Guarded`,
  `Route`, `Consume`); operators, sensors, engine, expiries, restarts and exceptions do. `a` is the agent's
  memory, `board` the shared keys, `h` history; `h.expired` holds the files that were queued when `print.queue`
  reached its time to live. Callouts are told apart by their text, the vision status by whether it shows a defect.
* **Safety** — `run_kernel`, one action per check; `CheckFails` is the exception that restarts the loop body.
* **MCEngine, MCRuntime, MCDispatch, MCDriver, MCPack, MCNotebook, MCProcedures, MCV1** — the instances for TLC.
  MCNotebook, MCProcedures and MCV1 hold two components that share no state the properties tell apart (the store
  and the map of one file; two families of commands, of which the tool runs one; the agent and the kernel): in
  each behaviour one of them moves while the other is in an initial state.
* **Engine_proofs, Runtime_proofs, Driver_proofs, Pack_proofs, Notebook_proofs, Dispatch_proofs, V1_proofs,
  Tools_proofs** — the theorems, section 4. Engine begins with the control lease and the types of the engine; V1 is
  about Agent and Safety, Tools about Sessions and Bench, Notebook about Notebook and Sections; the others are about the module they are named after.

A property that names several others (`LedgerInv`, `RequestInv`, `SectionsRight`, ...) is the conjunction of the
named parts above it, each with its own comment. An operator whose comment begins "Mutant" is a plausible bug
in the definition after it. No specification uses it; substituting it shows that a property can fail. A
conjunction has several mutants, aimed at its different parts.

## 3. Runs

| Run | Instance | Shows |
|---|---|---|
| engine_procs | two processes, two plans of up to two actions, planner and operator path, crashes and restarts everywhere; symmetry in processes and inodes | one writer, both barriers, evidence kept, the plan stops at the first failure, no two dispatched planner actions share a lock, abandoned rows are never touched, `EffectLog` is implemented |
| engine_actions | one process, a plan of three actions: one with a human approval, one approved automatically, one builtin wait; two approval records per run | no dispatch without a matching approval, both tables agree, locks never leak |
| engine_flush | two processes, two plans of one action, one of the processes empties the tables one by one and unlinks the lock file whenever it starts; fairness | what survives: at most one effect per key and tables that agree up to what was deleted (`SurvivesFlush`), the ambiguity that is never noticed, and that every call ends, a refused lease and deleted rows included |
| runtime | four cycles or `--forever`, monitoring or not, three planner attempts, two failures to degrade, two ticks of interval and heartbeat | only fresh plans are executed, `--cycles` ends, a run without monitoring ends when the print has ended, and only then |
| driver | two calls, two jobs, a start file and another, values 0 and 1 with a floor and a ceiling at 1, two polls to a deadline, one action at the panel; one parameter per way of reading and verifying; fairness | `SuccessWasSeen`, `RequestInv`, `CallEnds` |
| pack | two jobs, one rate and one family around a baseline, one of them tuned at a time, an envelope of one small step, a big step beyond it, one fault | `VisionOfThisJob`, `StartOnlyOnEmptyBed`, `TuningInv` |
| notebook | two paths, two sizes, two uploads, two jobs, one note, two faults; every file of up to five lines, progress limits rounded to halves | `StoreInv`, `NotebookArrives`, `SectionsRight` |
| procedures | three families of three values, two jobs, one turn of a knob; three prints, all deadlines reached; fairness | `ProofsRestore`, `CreditsOneJob`, `PrintsJudged`, `ToolsEnd` |
| v1 | seven scenarios of conversation, one and two callouts, external pause, flip-flops, chains and the print queue; three troubles of the safety process; fairness | `StaleActsAreRare`, `QueueConserved`, `DecisionsFit`, `MessageIsAnswered`, `AlarmsAnswered` |
| dispatch | two rows, chains of two, one decision per row, two faults anywhere, deadline and approval timeout passed by the first tick; fairness | `AtMostOnce`, `LedgerInv`, `ChainOrder`, `GatesHold`, `Settles` |
| v_writers, v_restore | the smallest instances that show it | section 6 |

The largest runs reach 1.8 million states (engine_actions) and 1.5 million (pack); a run ends within about two minutes.
Checking liveness costs several times what the states cost, so the runs that do have the smallest bounds that still
meet every hazard; the theorems are about all of them.

`AmbiguityNeverNoticed` states a fact a reader of `packs/base.py` would not expect: the answer "already in
flight", and with it UNKNOWN and the interlock, cannot occur, because plan ids are fresh and the journal is
looked up only under the plan in hand. `Settles` states an exception in the same spirit: a chain step behind
an UNKNOWN step waits for ever. `JobSeesItsText` names the two cases in which a job is shown another text's
notebook: a file replaced by one of the same size, and one replaced between listing and download.

**Bounds.** Each is named `Max...` or is a constant of a cfg. Two plans are enough for the hazards between plans:
a crash in one and an attempt of the other, in the same process, in another or after a restart. Two actions are
enough for "the next action of the plan" and for two that share a lock. Two faults are enough for an exception in
the handler of an exception, and for a crash after one. In Dispatch two rows give one predecessor, one competitor
for the device group and one retry; one tick passes both limits, at the scan of the waiting rows and at the gate. Two jobs, in
Driver, Pack, Notebook and Sessions, are the job a value was read in and the one it is used in. In Driver two calls
are a call that leaves something behind (an open port, a late request) and one that meets it, two polls the look
before and at the deadline. In Pack the envelope is narrower than the big step, so clamping happens, and the constraint
`OneFamilyTuned` keeps apart what two families would do independently. Two uploads
in Notebook are a file and its replacement of the same or another size, or a second path; two faults there are a
notebook torn by a stop and a download or listing that fails after it. Five lines in Sections
give two markers with a value before, between and after them, and a retraction carried over a marker; limits rounded
to halves of the file are there coarser than a line, as two decimals are in a file of more than 10000 lines. Sessions
has three families so that one is done, one in hand and one untouched. Bench has a deadline, a stall and a hard
deadline at 1, 2 and 3 ticks. In MCV1 the scenarios keep apart what one behaviour need not mix; `MaxStale` is 1
in place of 3, so that the forced acceptance is reached. The theorems use none of these bounds: `MaxPlans` and
`Horizon` are arbitrary there.

**Symmetry** is used in engine_procs only, where all properties are safety properties and the processes and
inodes are treated alike.

**Fairness.** Engine: weak fairness of each process's own steps inside a call; `_execute_actions` contains no
unbounded wait (flock does not block, WAIT_UNTIL is sliced under a deadline, driver calls have timeouts).
Nothing makes a process start, plan or crash. Runtime: weak fairness of the loop, for the same reason;
exceptions and `KeyboardInterrupt` are not fair. Driver: weak fairness of the call's own steps: HTTP and serial
exchanges have timeouts, and every polling loop a deadline, which the model counts in polls. Nothing makes the
printer serve a request. Notebook: the runtime publishes again and again, a build goes on or its download fails,
and the 20 seconds of the file list pass. Procedures: the tool's own steps. V1: the agent's and the kernel's own
steps, a model call that ends (its client has a timeout) included; nobody makes operators, sensors or the engine
act. Dispatch: weak fairness of the engine thread, of an agent that has begun to propose a chain, and of time;
strong fairness of the periodic reconcile, which `run` performs in the first poll that ends 60 seconds after the
last. No fairness for operators, crashes or restarts.

**Deadlock** is checked except where the bounded system really stops: the runtime loop that has ended, a driver
after its last call, a notebook whose file has been read, a tool that has exited.

## 4. Theorems

All hold for every value of the constants: any sets of processes, inodes, actions, locks, commands, files and
families, any envelope and steps, and every bound. The assumptions are the named ones of the modules
(`LeaseAssumption`, `EngineAssumption`, `RuntimeAssumption`, `DriverAssumption`, `PackAssumption`,
`NotebookAssumption`, `DispatchAssumption`, `AgentConstants`, `SafetyConstants`), which say what kind of thing a constant
is: bounds are numbers, limits are ordered, None is neither a Boolean nor the name of a size, a monitor's key is not
the name of a heartbeat. A theorem that needs more says so: `FlushOnStart = {}`, no process unlinks
the lock file and deletes the tables when it starts, is a hypothesis of those marked (*), and v_writers shows that it
is needed.

**Control lease.** `LeaseIsExclusive` (*): one process holds the lease. Mutual exclusion alone is not inductive, since a
process may hold an open descriptor of another inode; `LeaseInv` adds that every descriptor, open or locked, is on the
inode the path names. `LeaseOnePerInode`: with flushing, one holder per inode.

**Engine.** Every safety property the runs check of Engine is proved.

* `TypeCorrect`. `TypeInv` adds `Shape`, that a process inside a call has a plan and, with an action in hand, an
  action; without it `Key(p)` need not be a key.
* `OneWriter` (*): `SingleWriter`, from `LeaseInv` and `ControlHeld` (past the lease means holding it).
* `EffectsAtMostOnce`: `EffectInv` adds that processes work on different plans below `nextPlan` (`PlansApart`) and that
  the keys a process has still to perform have not moved (`NotYetMoved`).
* `EvidenceIsKept`, `BarriersHold`, `ImplementsEffectLog` (*): from `LogInv`, which adds that journal rows of future
  plans do not exist and that the journal says IN_FLIGHT around the movement.
* `TablesNeverDisagree`, `ApprovalsPrecedeDispatch` (*), `PlansStop`, `AmbiguityStaysUnnoticed`, `LocksAreReleased`: from
  `RowsInv`, the unmarked ones flushing or not. Between the deletions of a flush, and after a crash there, DONE rows
  stand without a journal row and dispatched ones without an approval. `TablesNeverDisagree` says so (`Flushed`): where
  nobody flushes a DONE row rests on a SUCCESS, where somebody does it may also rest on a row that was deleted, and it
  never rests on a failed or open one. `FlushIsSurvived` puts this and `EffectsAtMostOnce` together.
  `ApprovalsPrecedeDispatch` does not hold then. The properties speak of rows only, the code relates a row to where
  its process is:
  `HandRow` says for each label which status the row in hand has if it was not deleted meanwhile, `HandJournal` what
  the journal says of it, and the rows of the plan that are not in hand are absent or DONE.
* `AbandonedStaysFrozen` (*): an action property, from `RowsInv`: a step writes only rows its process has in hand.
* `LocksClaimedOnce` (*): `DispatchedLocksDisjoint`, from `LocksInv`. The frontier is computed some steps before the
  dispatch; `StillFree` says that no planner's row dispatched meanwhile took a lock of the action in hand, which
  rests on `OneWriter`.

`Engine_proofs` first classifies each of the engine's actions as one of ten moves by what it does to the variables
the invariants of the effects mention (lemma `Moves`), later as one of fifteen turns of the tables (`Turns`); the
invariants are then proved move by move and turn by turn.

**Runtime.** `RuntimeTypes`, `FreshPlansOnly`, and `FlagNeverOutlivesItsCycle`, the safety part of `RunStops`.
`RunInv` says what is known of the plan and of the stop flag at each label between the decision and the execution
(`OnTheWay`, `FlagIsFresh`); `CyclesLeft` bounds the counter.

**Driver.** `SuccessIsReal` and `RequestsAreRight`. The last read of a call need not show the whole goal: speed and
flow are taken from an earlier read, a start is confirmed by the file of a job that was printing one read before, a
resumed print may hide behind the stale surface of a cancelled one. `SeenBefore` says that the goal has been seen by
then; it needs what a stale surface is (`StaleIsCancelled`), which call can be at which label (`CallShape`), what was
sent so far (`SentOnce`) and that a late request names the job its call read (`LateNamesItsJob`).

**Pack.** `VisionFitsItsState`, `StartsOnEmptyBeds`, `TuningIsBounded`. `PackInv` adds what links the whiteboard to the
printer and to the object's memory: the part of a job this process knows of is on the whiteboard (`PartIsKnown`), the
families of BIG steps that returned are on the cooldown list (`BigIsCooling`), what counts as tunable was read
(`OkWasRead`), and the plan in hand is a plan, with a target within the envelope (`PlanInHand`). Lemmas say what
`SnapshotNow`, `Drains`, `VisionOf`, `TargetOf`, `LiveTuning` and `CandidateActions` return.

**Dispatch.** `LedgerCorrect`, `MovesAtMostOnce`, `ChainsInOrder`, `OperatorGates`: every safety property the run checks.
What a gate has found out must still hold when the row is dispatched several steps later, so `DispatchInv` says for
each label of `process_proposal` what the gates before it established (`HandInv`), for every status what diary and
hardware have recorded (`RecordsInv`), and that retry suffixes stay below the number of attempts and chain ids are
used in order (`RowsInv`).

**Notebook.** `JobsSeeTheirText` (`StoreInv`) and `NotesAreBrought`, the safety part of `NotebookArrives`. A job is
shown what is bound, which was loaded or built some restarts ago under a hash of path and size: `NbInv` says of every
place a notebook can be, in memory (`CacheOfItsText`), on the disk (`DiskOfItsText`) or in the hands of a build
(`BuildOfItsText`), that it is of a text uploaded there, unless the file was replaced between listing and download;
that what is bound is what memory holds; and that a build goes on only where nothing usable was kept, so that what it
replaces was not usable (`BuildOfMissing`).

**Agent and Safety.** `StaleAnswersAreRare`: `StaleInv` bounds the retry counter by the answers thrown away since the
last decision; a restart or an exception resets both. `DecisionsAreFitting`: `ShownInv` says that a message still to
be answered was in the prompt, from the read of it to its consumption; `KeysInv` says what the guard remembers, which
after it has struck is less than what was decided: the forgotten decisions end in the WAIT that replaced one, so no
flip-flop escapes it. `QueueIsConserved`: `QueueInv`, with lemmas on the elements of a list to which a file is added,
from which the first is taken, and which expires as a whole. `OneStopPerActivation`: `KernelInv` equates the stops requested for a flag with its
being alerted on; it is the safety part of `AlarmsAnswered`. `WellTyped` (`Types`), for answers with chains of at most two
tools: `TypeInv` types what a step reads before it adds a row, and `Room` counts. A decision other than WAIT was only
accepted, a file only taken, where the ledger is short; the question after a print needs no such guard, so a print's
end that is still to be archived (`Pending`) is counted beside the rows and against the events, and the archiving turns
one into the other. The newest rejection, which the scan picks, exists because inclusion among finite sets is well
founded (`NewestExists`). MCV1 lets the two specifications move one at a time, so its behaviours are behaviours of both.

**Sections.** `MapIsRight` (`SectionsRight`), for every file of any length, any size of a short section, lookahead,
limit of notes and number of rounding steps. The section found for a progress holds that place, or begins or ends no
further from it than half a step (`ActiveSectionFits`): the rounded limits still cover the whole without gaps, from 0
to the end (`RoundedEnds`), and are no further than half a step from what was rounded (`RoundedIsNearest`). The definitions it is measured against read a whole file: the last setting before a line, the first
marker of a stretch, the sum of the counts so far. `SecInv` says what each pass knows on its way: the sections so far
tile the lines up to the open one (`Tiled`), the value at the last line read and the baseline of the open section are
those of the definition (`Baselined`), the values carried over sections are those at the cursor (`Carried`), and a
retraction still open is counted but not answered (`Answered`, without which the count of restarts is not inductive).
What has to hold for each prefix needs induction; the library's induction theorems take operators, so
`LeastExists` (a set of numbers has a least one) is proved from the well-foundedness of inclusion among finite sets,
and `SetInduction` from it. With them the recursive sums are shown to exist and to grow by one from a place on
(`SumsExist`, `SumsStep`). That the notes shown are the first ones is `FirstOnes`: in a strict total order the number
of predecessors is a bijection with an interval. MCNotebook lets the store or the map of one file move.

**Sessions and Bench.** `ProofsPutBack` (`ProofsRestore`), `ResetsCreditOneJob` (`CreditsOneJob`, an action property)
and `PrintsAreJudged` (`PrintsJudged`), for any families, envelope, steps, reads, jobs, prints and deadlines, and for
every order in which prints end and begin and people act. What a procedure owes the printer lies in its locals and on
its reset stack. `SessionInv` therefore says that, while nobody else touches the printer, every family that is not
where it began is on the stack or under work (`Away`), that each stack entry holds the value the family began with and,
if it has a job, one no later than any command for it (`StackKept`, and `BaseKept` for the family under work), that the families left
to do have had no command yet (`TodoFresh`), and which procedure can be at which step with which locals (`Locals`). The
trim pushes and the reset pops, so these parts support each other: an entry popped becomes the baseline of the reset,
and a verified reset with an empty stack and nothing left to do has put everything back (`AllRestored`). Credit goes to
one job because the commands went to the baseline's job or later ones, and the last read still shows that job. `BenchInv`
says what each tool knows of its own print at each step (`ToolAtStep`): its print is younger than any that was running
when it began (`OwnIsYounger`), from the stress test on neither runs (`IdleFromStress`), and an audit saw its end
(`AuditSawTheEnd`). MCProcedures lets the two move one at a time.

**Only model-checked.** Liveness (`ExecutionEnds`, `RunStops`, `CallEnds`, `NotebookArrives`, `ToolsEnd`,
`MessageIsAnswered`, `AlarmsAnswered`, `Settles`), because fairness and ENABLED are outside what the proof system
handles. Every invariant that a passing run checks is stated by a theorem.

## 5. What is not modelled

Prompts, parsing of model answers, message texts, artifacts, logging, the dashboard, evaluation tools and
simulators are left out: the planner's answer, the world and the outcome of a tool are arbitrary in the models.
The event log, the history queries and the summaries the pack shows to the planner (experiment history, feedback,
timelines) are read-only or append-only and decide nothing. Also left out are the framing of the serial protocol
and HTTP authentication, camera capture and the parsing of findings, the wording of notes and thumbnails, the
single managed-* commands of the hardware tool (each is one engine call) and its camera tuning, and the set-point
tools and buses of v1, whose outcome is arbitrary in Dispatch.

## 6. Where code and documentation part

Two are runs whose counterexample is the schedule:

* **v_writers** — `runtime_control.py:12` says the lock is "used to prevent multi-writer control"; start-up
  (`main.py:256`) unlinks the lock file of a live holder, the starting process locks a new inode, and two
  processes drive the machine.
* **v_restore** — `prusa/TESTING.md:186` promises an "operator-only reverse reset at the end" of a multi-family
  session; the reset runs in a second engine of the same process (`hardware_smoke.py:1260`), flock refuses it the
  lease the first one holds, the session raises and the printer stays trimmed.

Met while reading, without a run of their own.

*v6 core.*
- `packs/base.py:96` promises that after a power loss "the official record still says the hardware may already have
  started moving"; the default start-up flush (`main.py:243-257`) deletes it unread, `-wal` and `-shm` files of a
  database another process may have open included. The flush itself is no transaction (`runtime_db.py:183`, although
  its docstring speaks of "a clean process restart"): a process that dies in the middle leaves runs without their
  journal rows and approvals, which the next start deletes, or, if it is configured not to, keeps.
- A failed precondition at dispatch asks for AUTHORIZED → REPLAN_REQUIRED (`engine.py:297`), which the database
  refuses with an exception (`runtime_db.py:41`): the "safe refusal" of `engine.py:95` is not recorded. The planner's
  path checks the frontier just before, so it is met on the operator's. `engine.py:274` asks for the same from
  PROPOSED, but a lock conflict inside one process does not occur.
- The heartbeat (`safety.py:22`) is polled only by the loop that would have to be stuck (`main.py:1151`); the
  interlock is consulted by nobody and never cleared.
- `planning_context.py:192` speaks of "currently held lock keys", but those of a DISPATCHED row left by a crash count
  as held for ever. `wallee_v6/README.md:182` says schema errors are retried once, `plan_with_retry` makes three
  attempts (`main.py:28`). `--cycles 0` runs one cycle.

*Driver and pack.*
- `adapters.py` says verification "always comes back through HTTP-observable post-state"; flow, pressure advance and
  acceleration are verified by serial queries. `int(round(target))` compared within 0.5 can never verify a
  half-integer acceleration.
- A request that timed out may be carried out after its call has failed. An answered start is confirmed by any
  printing surface.
- The publish that collects a vision refresh shows the older payload once (`pack.py:866-870`). A cooldown after a BIG
  step, which `prusa/README.md:118` promises "always", is not set when the driver raises after sending, and does not
  survive a restart. `_big_escalation_allowed` (565) and the planning values of relative families (582, 625) do not
  ask which job their evidence is from. Nobody can mark the bed as cleared. A vision worker that hangs ends all
  refreshes; a bounded serial read that times out leaves its thread behind (873-895). A plan made for one job may
  tune the next one.

*Notebook.*
- `prusa/README.md:171-175` says notes written to the notes file are merged "on the next cycle"; a bound or cached
  notebook is not loaded again (`pack.py:717-721, 2466-2469`), so those written during a job are not seen by it.
- `generation_failed` is not among the statuses that are retried (97); the file list is not refreshed while a bound
  job is active (698); the hash holds neither content nor time; a malformed notes file raises out of publish; the
  "Whole-job section" branch and `generated_without_download` are unreachable.
- The limits of a section are rounded to 0.01 % (`job_notebook.py:556-557`), so `active_section` (`types.py:388`) may
  name a section up to 0.005 % of the file after its end or before its beginning: more than a line in files of more
  than 20000 lines, a dozen or so in one of 300000. A section shorter than a step may have equal limits.

*Hardware tools.*
- The opposite SMALL step does not restore a clamped or BIG trim. Any failed check leaves the printer trimmed. The
  audit has no deadline and passes without a single probe. A reset whose baseline status named no job is credited
  whichever job it went to (`hardware_smoke.py:2600`). A start whose answer is lost leaves its print running
  (3345), and the cancel at the end (3374) hits whatever job is active. `ensure_serial_ready` looks once whether the
  printer is idle, then kills holders of the port, rebinds and resets (`serial_ready.py:156`).

*v1 engine.*
- A dropped duplicate leaves a hole in an ACTION_CHAIN and the next step does not wait for it (`README.md:207` against
  `loop.py:582`, `db.py:78`). Ages of proposals compare monotonic times across reboots (`README.md:210` against
  `dispatch.py:139`, 207).
- The comment at `dispatch.py:87` says gate-bypass tools do not skip the emergency stop, but its check comes later;
  `reconcile.py:12` says it runs every 500 ms, the engine runs it every 60 s; after a crash a gate-bypass row is
  recorded as never dispatched although its tool may have run.

*v1 agent and safety.*
- The cooldown after a rejection (`loop.py:391`, `tests/test_cooldown.py:3`) is for the human's: "not approved by
  operator", which the engine writes for it (`dispatch.py:159, 219`), is not recognised (`loop.py:367-376`), while
  "External pause active" and "blocked by safety.estop" are. There is one cooldown at a time, and a rejection may
  leave the episode before it is looked at.
- `loop.py:832` consumes a message "after the agent has seen it": one that arrives after the last read of the cycle is
  deleted unseen. Identical text is ignored; a rating stays on the board and may rate the next job; the block of an
  external pause is lifted by a message older than the pause.
- The print queue lives for a day from its last change (`telegram.py:462`, `callbacks.py:40`): files queued behind a
  print of more than a day are gone when it ends, without a word to anyone.
- The queue is popped before the start is proposed, and `/queue` is a read-modify-write beside it. Cancelled cycles do
  not count as stale retries. The parser that "Never raises" (`parser.py:118`) raises on a null number or type.
- A stop request that fails is not repeated; if the pause fails, the fallback deletes the job; a flag that goes off
  and on between two looks is one alarm; `safety.*_stale` is read by nobody; the kernel itself is not supervised, and
  the heartbeat threads go on when their loop hangs.

## 7. Plan

1. *Done:* ControlLease, RuntimeDB, EffectLog, Engine (composing them), Runtime, Dispatch; Driver, Pack, Notebook,
   Sections, Sessions, Bench; Agent, Safety; with their runs; proofs of the safety properties of ControlLease, Engine,
   Runtime, Driver, Pack, Notebook, Sections, Dispatch, Agent, Safety, Sessions and Bench.
2. *Left:* chains of more than two tools in Agent.
