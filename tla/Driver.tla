---- MODULE Driver ----
(***************************************************************************)
(* PrusaDriver (driver.py) over its two adapters (adapters.py): PrusaLink  *)
(* over HTTP, which answers, refuses or times out, and the serial port,    *)
(* which takes the tuning commands.  The printer goes on by itself: its    *)
(* firmware ends jobs, a person at its panel starts, pauses and tunes, and *)
(* a request whose answer timed out may be carried out later.              *)
(*                                                                         *)
(* A step is one exchange with the printer.  A value of a tuned parameter  *)
(* is a number of steps; a job id is a number, 0 is no job.                *)
(***************************************************************************)
EXTENDS Integers

CONSTANTS
    Families,           \* tuned parameters
    SerialOnly,         \* read and verified by serial queries: M572, M204
    SerialFirst,        \* verified by a serial query, then by HTTP: M221
    Rates,              \* speed and flow: compared by order, not by distance
    Files,
    StartNames,         \* files whose path contains "start"
    Floor, Ceiling,     \* clamp_min of the methods that trim down, clamp_max of those that trim up
    MaxVal,             \* bound: values 0 .. MaxVal
    MaxJobs,            \* bound: job ids 1 .. MaxJobs
    MaxPolls,           \* status reads before a deadline passes
    MaxCalls,           \* bound: calls of the driver
    MaxPanel            \* bound: actions at the panel

ASSUME DriverAssumption ==
    /\ SerialOnly \subseteq Families /\ SerialFirst \subseteq Families /\ Rates \subseteq Families
    /\ SerialOnly \cap (SerialFirst \cup Rates) = {}
    /\ StartNames \subseteq Files
    /\ MaxVal \in Nat /\ Floor \in 0 .. MaxVal /\ Ceiling \in 0 .. MaxVal
    /\ MaxJobs \in Nat \ {0} /\ MaxPolls \in Nat \ {0}
    /\ MaxCalls \in Nat /\ MaxPanel \in Nat

VARIABLES
    \* the printer
    job, file, life,
    family,             \* the parameter tuned in this behaviour; they do not interact
    val,                \* its value
    lastJob,            \* the id given last
    stale,              \* status still shows the cancelled job, printing and cold
    late,               \* the request that timed out and is still under way
    queued,             \* the set command in the printer's queue
    \* the driver
    pc, call,           \* the call in hand: [op, dir, target, file]
    jobRead,            \* _job_id(status) read first in this call
    cur,                \* the value read before the command
    polls,              \* reads left before the deadline
    sawStatus,          \* last_snapshot is not None
    result,
    \* the serial writer
    port, session,      \* _port, _session_key: 0 is None, else 1 + job id
    \* history
    writes,             \* control requests and set commands of this call
    seen,               \* the goal of the call was reached since the request
    wrongJob,           \* a request was carried out on a job that was not meant
    openedFor,          \* the session the port was opened in
    calls, panel        \* calls of the driver, actions at the panel so far

printerVars == <<job, lastJob, file, life, val, stale, late, queued>>
callVars    == <<call, jobRead, cur, polls, sawStatus, result>>
portVars    == <<port, session, openedFor>>
vars == <<family, printerVars, pc, callVars, portVars, writes, seen, wrongJob, calls, panel>>

Lives == {"IDLE", "PRINTING", "PAUSED", "ATTENTION"}
Ops   == {"pause", "resume", "cancel", "start", "tune"}
Dirs  == {"down", "up", "default"}
NoFile == "none"

Calls == [op : Ops, dir : Dirs, target : 0 .. MaxVal, file : Files \cup {NoFile}]
NoCall == [op |-> "none", dir |-> "default", target |-> 0, file |-> NoFile]
NoLate == [op |-> "none", job |-> 0, read |-> 0, file |-> NoFile]
Requests == [op : {"pause", "resume", "cancel", "start"}, job : 0 .. MaxJobs, read : 0 .. MaxJobs,
             file : Files \cup {NoFile}] \cup {NoLate}

NotQueued == -1

PcLabels == {"idle", "status", "request", "wait", "recover", "reread", "rejob",
             "read", "query", "decide", "send", "verify", "fallback", "report", "diagnose"}

(* The printer, the port and the call are well typed. *)
TypeOK ==
    /\ job \in 0 .. MaxJobs /\ lastJob \in 0 .. MaxJobs /\ file \in Files \cup {NoFile}
    /\ life \in Lives /\ family \in Families /\ val \in 0 .. MaxVal
    /\ stale \in BOOLEAN /\ late \in Requests
    /\ queued \in -1 .. MaxVal
    /\ pc \in PcLabels /\ call \in Calls \cup {NoCall}
    /\ jobRead \in 0 .. MaxJobs /\ cur \in 0 .. MaxVal
    /\ polls \in 0 .. MaxPolls /\ sawStatus \in BOOLEAN
    /\ result \in {"none", "ok", "noop", "recovered", "error"}
    /\ port \in {"closed", "open"} /\ session \in 0 .. MaxJobs + 1
    /\ openedFor \in 0 .. MaxJobs + 1
    /\ writes \in Nat /\ seen \in BOOLEAN /\ wrongJob \in BOOLEAN
    /\ calls \in 0 .. MaxCalls /\ panel \in 0 .. MaxPanel

Init ==
    /\ \/ job = 0 /\ lastJob = 0 /\ file = NoFile /\ life = "IDLE"
       \/ job = 1 /\ lastJob = 1 /\ file \in Files /\ life = "PRINTING"
    /\ family \in Families /\ val = Ceiling
    /\ stale = FALSE /\ late = NoLate /\ queued = NotQueued
    /\ pc = "idle"
    /\ call = NoCall
    /\ jobRead = 0 /\ cur = 0 /\ polls = MaxPolls /\ sawStatus = FALSE /\ result = "none"
    /\ port = "closed" /\ session = 0 /\ openedFor = 0
    /\ writes = 0 /\ seen = FALSE /\ wrongJob = FALSE
    /\ calls = 0 /\ panel = 0

-----------------------------------------------------------------------------
(* What the status surface shows *)

ShownLife == IF stale THEN "PRINTING" ELSE life
(* _job_active: a stale surface still has the job's state.                  *)
ShownActive == stale \/ job # 0
(* _is_stale_cancel_surface: printing with both targets at zero.            *)
StaleCancelSurface == stale
(* _cancel_timeout_recovered                                                *)
Cancelled == ~ShownActive /\ ShownLife = "IDLE"

(* The clamped target of the tuning methods.                                *)
Target(c) ==
    CASE c.dir = "down" /\ c.target < Floor -> Floor
      [] c.dir = "up" /\ c.target > Ceiling -> Ceiling
      [] OTHER -> c.target

(* What a call wants of the printer.  After an answered start_print the     *)
(* driver takes whatever the status shows printing, so nothing is asked of  *)
(* the printer there; after one that timed out the file's job must print.   *)
GoalNow(c, j, l, v, f) ==
    CASE c.op = "pause"  -> l = "PAUSED"
      [] c.op = "resume" -> l = "PRINTING"
      [] c.op = "cancel" -> j = 0 /\ l = "IDLE"
      [] c.op = "start"  -> pc = "wait" \/ (j # 0 /\ l = "PRINTING" /\ f = c.file)
      [] c.op = "tune"   -> v = Target(c)
Watch == seen' = (seen \/ (pc # "idle" /\ writes' > 0 /\ GoalNow(call, job', life', val', file')))

(* The predicate _wait_for is called with.                                  *)
Confirmed ==
    CASE call.op = "pause"  -> ShownLife = "PAUSED"
      [] call.op = "resume" -> ShownLife = "PRINTING"
      [] call.op = "cancel" -> Cancelled
      [] call.op = "start"  -> ShownActive /\ ShownLife = "PRINTING"
      [] call.op = "tune"   -> val = Target(call)

-----------------------------------------------------------------------------
(* The printer carries out a control request *)

(* Job ids are never used twice.                                            *)
NewJob(f) ==
    /\ life = "IDLE" /\ lastJob < MaxJobs
    /\ lastJob' = lastJob + 1 /\ job' = lastJob' /\ file' = f
    /\ life' = "PRINTING" /\ stale' = FALSE

(* What it answers with success: it has the job, in a state to act on.      *)
Acceptable(r) ==
    CASE r.op = "pause"  -> job # 0 /\ life = "PRINTING" /\ r.job \in {0, job}
      [] r.op = "resume" -> job # 0 /\ life = "PAUSED" /\ r.job \in {0, job}
      [] r.op = "cancel" -> job # 0 /\ r.job \in {0, job}
      [] r.op = "start"  -> life = "IDLE" /\ lastJob < MaxJobs

Perform(r) ==
    /\ Acceptable(r)
    /\ \/ /\ r.op \in {"pause", "resume"}
          /\ life' = (IF r.op = "pause" THEN "PAUSED" ELSE "PRINTING")
          /\ UNCHANGED <<job, lastJob, file, stale>>
       \/ /\ r.op = "cancel"
          /\ job' = 0 /\ life' = "IDLE" /\ file' = NoFile /\ stale' \in BOOLEAN
          /\ UNCHANGED lastJob
       \/ r.op = "start" /\ NewJob(r.file)
Hits(r) == wrongJob' = (wrongJob \/ (r.op # "start" /\ r.read # 0 /\ job # r.read))

(* It comes to a request whose sender has given up waiting, or never will.  *)
LateRequest ==
    /\ late # NoLate
    /\ late' = NoLate
    /\ \/ Perform(late) /\ Hits(late)
       \/ UNCHANGED <<job, lastJob, file, life, stale, wrongJob>>
    /\ UNCHANGED <<val, queued, pc, callVars, portVars, writes, calls, panel>>

(* Firmware and panel *)
ByThemselves == UNCHANGED <<late, pc, callVars, portVars, writes, wrongJob, calls>>
JobEnds ==
    /\ job # 0 /\ life \in {"PRINTING", "PAUSED"}
    /\ life' = "IDLE" /\ job' \in {0, job}
    /\ file' = IF job' = 0 THEN NoFile ELSE file
    /\ ByThemselves /\ UNCHANGED <<lastJob, val, stale, queued, panel>>
SurfaceCatchesUp ==
    /\ stale /\ stale' = FALSE
    /\ ByThemselves /\ UNCHANGED <<job, lastJob, file, life, val, queued, panel>>
PanelJob ==
    /\ panel < MaxPanel /\ panel' = panel + 1
    /\ \E f \in Files : NewJob(f)
    /\ ByThemselves /\ UNCHANGED <<val, queued>>
PanelLife ==
    /\ panel < MaxPanel /\ panel' = panel + 1
    /\ job # 0 /\ life # "IDLE"
    /\ life' \in Lives \ {"IDLE", life}
    /\ ByThemselves /\ UNCHANGED <<job, lastJob, file, val, stale, queued>>
PanelTune ==
    /\ panel < MaxPanel /\ panel' = panel + 1
    /\ val' \in 0 .. MaxVal
    /\ ByThemselves /\ UNCHANGED <<job, lastJob, file, life, stale, queued>>
(* A set command reaches the head of the queue, or was garbled on the wire. *)
GcodeRuns ==
    /\ queued # NotQueued /\ queued' = NotQueued
    /\ \/ val' = queued
       \/ UNCHANGED val
    /\ ByThemselves /\ UNCHANGED <<job, lastJob, file, life, stale, panel>>

-----------------------------------------------------------------------------
(* The driver: what all its steps leave alone *)

Printer  == UNCHANGED <<printerVars, wrongJob>>
Outside  == UNCHANGED <<calls, panel>>
Unbound  == UNCHANGED portVars
Serve(next) == pc' = next /\ UNCHANGED <<call, jobRead, cur, polls, sawStatus, result>>
Deadline(next) ==
    /\ pc' = next /\ polls' = MaxPolls /\ sawStatus' = FALSE
    /\ UNCHANGED <<call, jobRead, cur, result>>
Return(r) ==
    /\ result' = r /\ pc' = "idle"
    /\ polls' = MaxPolls /\ sawStatus' = FALSE /\ cur' = 0 /\ call' = NoCall /\ jobRead' = 0

(* pause, resume, cancel, start_print and the tuning methods are called.    *)
Begin ==
    /\ pc = "idle" /\ calls < MaxCalls /\ calls' = calls + 1
    /\ call' \in {c \in Calls :
            /\ (c.op = "start") = (c.file # NoFile)
            /\ c.op # "tune" => c.target = 0 /\ c.dir = "default"}
    /\ pc' = IF call'.op = "tune" THEN "read" ELSE IF call'.op = "start" THEN "request" ELSE "status"
    /\ result' = "none" /\ writes' = 0 /\ seen' = FALSE /\ jobRead' = 0
    /\ Printer /\ Unbound /\ UNCHANGED <<cur, polls, sawStatus, panel>>

(* A read that raises out of the call.                                      *)
ReadRaises ==
    /\ pc \in {"status", "reread", "rejob", "read", "query", "report"}
    /\ Return("error")
    /\ Printer /\ Unbound /\ Outside /\ UNCHANGED writes

(* self.http.get_status(), for the job id                                   *)
GetStatus ==
    /\ pc = "status"
    /\ jobRead' = IF stale THEN lastJob ELSE job
    /\ pc' = "request"
    /\ UNCHANGED <<call, cur, polls, sawStatus, result>>
    /\ Printer /\ Unbound /\ Outside /\ UNCHANGED writes

(* Mutant of TheRequest: the endpoint without the job id is used.           *)
RequestAnyJob == [op |-> call.op, job |-> 0, read |-> jobRead, file |-> call.file]

(* With the id of the job that was read, if one was.                        *)
TheRequest == [op |-> call.op, job |-> jobRead, read |-> jobRead, file |-> call.file]

(* pause_job, resume_job, cancel_job or start_print is answered with        *)
(* success, and carried out at once or later.                               *)
RequestAccepted ==
    /\ pc = "request"
    /\ \/ Perform(TheRequest) /\ Hits(TheRequest) /\ UNCHANGED late
       \/ /\ Acceptable(TheRequest) /\ late = NoLate /\ late' = TheRequest
          /\ UNCHANGED <<job, lastJob, file, life, stale, wrongJob>>
    /\ writes' = writes + 1
    /\ Deadline("wait")
    /\ Unbound /\ Outside /\ UNCHANGED <<val, queued>>

(* Any answer but 200, 201 and 204.                                         *)
RequestRefused ==
    /\ pc = "request"
    /\ writes' = writes + 1
    /\ Return("error")
    /\ Printer /\ Unbound /\ Outside

(* _is_recoverable_start_timeout, _is_recoverable_control_timeout: a        *)
(* connection that is never made raises a message with the path in it, an   *)
(* answer that does not come a TimeoutError.                                *)
Recoverable(connected) == call.op = "start" => connected \/ call.file \notin StartNames

(* The way on after a timeout: only start_print and cancel look again.      *)
AfterTimeout(connected) ==
    IF call.op = "start" /\ Recoverable(connected) THEN Serve("reread")
    ELSE IF call.op = "cancel" THEN Deadline("recover")
    ELSE Return("error")

RequestTimesOut ==
    /\ pc = "request"
    /\ writes' = writes + 1
    /\ \E connected \in BOOLEAN :
        /\ late' = IF connected /\ late = NoLate THEN TheRequest ELSE late
        /\ AfterTimeout(connected)
    /\ Unbound /\ Outside
    /\ UNCHANGED <<job, lastJob, file, life, val, stale, queued, wrongJob>>

-----------------------------------------------------------------------------
(* _wait_for: a loop of status reads under a deadline *)

Polled == polls' = polls - 1 /\ UNCHANGED <<call, jobRead, cur, result>>

WaitConfirmed ==
    /\ pc = "wait" /\ polls > 0 /\ Confirmed
    /\ Return("ok")
    /\ Printer /\ Unbound /\ Outside /\ UNCHANGED writes
(* Mutant of WaitPolls: one read after the deadline.                        *)
WaitPollsLate ==
    /\ pc = "wait" /\ polls >= 0
    /\ sawStatus' = sawStatus /\ pc' = pc /\ Polled
    /\ Printer /\ Unbound /\ Outside /\ UNCHANGED writes

(* Not there yet, or a transient read error, which is slept over.           *)
WaitPolls ==
    /\ pc = "wait" /\ polls > 0
    /\ sawStatus' \in {sawStatus} \cup (IF Confirmed THEN {} ELSE {TRUE})
    /\ pc' = pc /\ Polled
    /\ Printer /\ Unbound /\ Outside /\ UNCHANGED writes
(* The deadline, or an error that is not transient.  Only cancel catches    *)
(* it, and only the message of a wait without any snapshot contains the     *)
(* transient error it then recovers from.                                   *)
WaitFails ==
    /\ pc = "wait"
    /\ \/ Return("error")
       \/ call.op = "cancel" /\ ~sawStatus /\ polls < MaxPolls /\ Deadline("recover")
    /\ Printer /\ Unbound /\ Outside /\ UNCHANGED writes

(* _wait_for_cancel_recovery: goes on only while the surface looks stale.   *)
RecoverPolls ==
    /\ pc = "recover" /\ polls > 0
    /\ \/ /\ Cancelled /\ Return("recovered")
       \/ /\ ~Cancelled /\ ~StaleCancelSurface /\ Return("error")
       \/ /\ ~Cancelled /\ StaleCancelSurface
          /\ pc' = pc /\ sawStatus' = TRUE /\ Polled
       \/ /\ pc' = pc /\ UNCHANGED sawStatus /\ Polled     \* a transient read error
    /\ Printer /\ Unbound /\ Outside /\ UNCHANGED writes
RecoverFails ==
    /\ pc = "recover"
    /\ Return("error")
    /\ Printer /\ Unbound /\ Outside /\ UNCHANGED writes

(* start_print after a timeout: read_status is two requests, and only the   *)
(* second one names the file.                                               *)
Reread ==
    /\ pc = "reread"
    /\ IF ShownActive /\ ShownLife = "PRINTING" THEN Serve("rejob") ELSE Return("error")
    /\ Printer /\ Unbound /\ Outside /\ UNCHANGED writes

(* Mutant of StartTimeoutRecovered: any running job will do.                *)
SomeJobRuns == file # NoFile

(* _start_timeout_recovered *)
StartTimeoutRecovered == file = call.file
RereadJob ==
    /\ pc = "rejob"
    /\ Return(IF StartTimeoutRecovered THEN "recovered" ELSE "error")
    /\ Printer /\ Unbound /\ Outside /\ UNCHANGED writes

-----------------------------------------------------------------------------
(* The serial writer *)

Key == 1 + (IF stale THEN lastJob ELSE job)

(* Mutant of BindSession: the port stays open.                              *)
BindKeepsPort(key) == session' = key /\ UNCHANGED <<port, openedFor>>

(* bind_session: a port that was opened for another session is closed.      *)
BindSession(key) ==
    /\ port' = IF key # session THEN "closed" ELSE port
    /\ session' = key
    /\ openedFor' = IF key # session THEN 0 ELSE openedFor

(* _exchange up to the write, for a port in state p bound to key: it is     *)
(* open already, or opened; a port whose input cannot be reset is closed    *)
(* and opened again, which forgets the session.                             *)
Opened(p, key) ==
    /\ port' = "open"
    /\ \/ session' = key /\ openedFor' = (IF p = "open" THEN openedFor ELSE key)
       \/ session' = 0 /\ openedFor' = key
(* ... or it cannot be opened, or not be reset a second time.               *)
NotOpened(p, key) ==
    \/ p = "closed" /\ port' = "closed" /\ session' = key /\ openedFor' = 0
    \/ port' \in {"closed", "open"} /\ session' = 0
       /\ openedFor' = IF port' = "open" THEN key ELSE 0

-----------------------------------------------------------------------------
(* The tuning methods: _set_speed_factor, _set_flow_factor, ...             *)

(* status = self.read_status(); self._bind_serial_session(status)           *)
ReadAndBind ==
    /\ pc = "read"
    /\ BindSession(Key)
    /\ cur' = val
    /\ pc' = IF family \in SerialOnly THEN "query" ELSE "decide"
    /\ UNCHANGED <<call, jobRead, polls, sawStatus, result>>
    /\ Printer /\ Outside /\ UNCHANGED writes

AfterBind == IF Key # session THEN "closed" ELSE port

(* read_pressure_advance, read_print_accel_mm_s2: status, bind, query.  An  *)
(* answer without a value raises, like a port that does not open.           *)
Query ==
    /\ pc = "query"
    /\ \/ Opened(AfterBind, Key) /\ cur' = val /\ pc' = "decide"
          /\ UNCHANGED <<call, jobRead, polls, sawStatus, result>>
       \/ (Opened(AfterBind, Key) \/ NotOpened(AfterBind, Key))
          /\ Return("error")
    /\ Printer /\ Outside /\ UNCHANGED writes

(* Mutant of AlreadyThere: the rates are compared like temperatures.        *)
AlreadyEqual == cur = Target(call)

(* The noop_ effects.                                                       *)
AlreadyThere ==
    IF family \in Rates
    THEN \/ call.dir = "down" /\ cur <= Target(call)
         \/ call.dir = "up" /\ cur >= Target(call)
         \/ cur = Target(call)
    ELSE cur = Target(call)
DecideTuning ==
    /\ pc = "decide"
    /\ IF AlreadyThere THEN Return("noop") ELSE Serve("send")
    /\ Printer /\ Unbound /\ Outside /\ UNCHANGED writes

(* serial_writer.send_command                                               *)
SendCommand ==
    /\ pc = "send"
    /\ \/ /\ Opened(port, session)
          /\ writes' = writes + 1
          /\ queued' = Target(call)
          /\ pc' \in {"verify", "diagnose"}      \* diagnose: flush raised after the write
       \/ /\ Opened(port, session) \/ NotOpened(port, session)
          /\ pc' = "diagnose" /\ UNCHANGED <<writes, queued>>
    /\ polls' = MaxPolls /\ sawStatus' = FALSE /\ UNCHANGED <<call, jobRead, cur, result>>
    /\ Outside
    /\ UNCHANGED <<job, lastJob, file, life, val, stale, late, wrongJob>>

BySerial == pc = "verify" /\ family \in SerialOnly \cup SerialFirst
Verified == val = Target(call)

(* _wait_for_rate_factor (serial) or _wait_for (HTTP) reads the target.     *)
VerifyOk ==
    /\ pc \in {"verify", "fallback"} /\ polls > 0 /\ Verified
    /\ IF BySerial THEN Opened(AfterBind, Key) ELSE Unbound
    /\ IF family \in Rates THEN Serve("report") ELSE Return("ok")
    /\ Printer /\ Outside /\ UNCHANGED writes
(* Another value, none, or an error that is swallowed.                      *)
VerifyPolls ==
    /\ pc \in {"verify", "fallback"} /\ polls > 0
    /\ IF BySerial THEN Opened(AfterBind, Key) \/ NotOpened(AfterBind, Key) \/ Unbound
                   ELSE Unbound
    /\ pc' = pc /\ UNCHANGED sawStatus /\ Polled
    /\ Printer /\ Outside /\ UNCHANGED writes
(* Mutant of VerifyFails: the command is sent again.                        *)
VerifyResends ==
    /\ pc \in {"verify", "fallback"}
    /\ Deadline("send")
    /\ Printer /\ Unbound /\ Outside /\ UNCHANGED writes

(* Mutant of VerifyFails: the deadline is set anew.                         *)
VerifyRestarts ==
    /\ pc \in {"verify", "fallback"}
    /\ Deadline(pc)
    /\ Printer /\ Unbound /\ Outside /\ UNCHANGED writes

(* The deadline, or over HTTP an error that is not transient.               *)
VerifyFails ==
    /\ pc \in {"verify", "fallback"}
    /\ IF pc = "verify" /\ family \in SerialFirst
       THEN Deadline("fallback") ELSE Deadline("diagnose")
    /\ Printer /\ Unbound /\ Outside /\ UNCHANGED writes

(* speed and flow read the status once more for the answer (ReadRaises).    *)
Report ==
    /\ pc = "report"
    /\ Return("ok")
    /\ Printer /\ Unbound /\ Outside /\ UNCHANGED writes

(* _tuning_failure reads the status, whatever comes of it, and raises.      *)
TuningFailure ==
    /\ pc = "diagnose"
    /\ Return("error")
    /\ Printer /\ Unbound /\ Outside /\ UNCHANGED writes

-----------------------------------------------------------------------------
(* pause, resume, cancel and start_print                                    *)
ControlStep ==
    \/ GetStatus
    \/ RequestAccepted \/ RequestRefused \/ RequestTimesOut
    \/ WaitConfirmed \/ WaitPolls \/ WaitFails
    \/ RecoverPolls \/ RecoverFails \/ Reread \/ RereadJob
(* _set_speed_factor, _set_flow_factor, _set_nozzle_target,                 *)
(* _set_bed_target, _set_pressure_advance, _set_print_accel: one sequence.  *)
TuningStep ==
    \/ ReadAndBind \/ Query \/ DecideTuning \/ SendCommand
    \/ VerifyOk \/ VerifyPolls \/ VerifyFails \/ Report \/ TuningFailure
DriverStep == ReadRaises \/ ControlStep \/ TuningStep

PrinterStep ==
    \/ LateRequest \/ JobEnds \/ SurfaceCatchesUp \/ GcodeRuns
    \/ PanelJob \/ PanelLife \/ PanelTune

Next ==
    /\ UNCHANGED family
    /\ \/ Begin
       \/ DriverStep /\ Watch
       \/ PrinterStep /\ Watch

Spec == Init /\ [][Next]_vars

(* Every exchange of the driver ends: HTTP and serial have timeouts.        *)
FairSpec == Spec /\ WF_vars(DriverStep /\ Watch /\ UNCHANGED family)

-----------------------------------------------------------------------------
(* "Verification" (driver.py:537, 669): a call that reports success has     *)
(* reached its goal at some moment after its own request: neither an old    *)
(* reading nor the surface of another job stands in for it, whatever times  *)
(* out, is retried or is done at the panel meanwhile.  (Of an answered      *)
(* start_print nothing is claimed: see GoalNow.)                            *)
SuccessWasSeen == result \in {"ok", "recovered"} => seen

(* pause, resume and cancel name the job they read (driver.py:151-167): a   *)
(* request never acts on a job that was started in between, not even when   *)
(* it is carried out after its answer timed out.                            *)
RequestHitsItsJob == ~wrongJob

(* One control request or set command per call (driver.py:187, 265): no     *)
(* recovery path sends a second one.                                        *)
AsksOnce == writes <= 1

(* The serial session is the job's (driver.py:645, adapters.py:326): a port *)
(* that was opened for one job is not used for the next.                    *)
PortServesOneJob == port = "open" /\ session # 0 => openedFor = session

(* A step of a tuning method in the direction of its name: trimming speed   *)
(* or flow down never commands more than the value read, nor up less        *)
(* (driver.py:257, 261), although the target was computed from an older one.*)
RatesKeepDirection ==
    pc \in {"send", "verify", "fallback"} /\ family \in Rates =>
        /\ call.dir = "down" => Target(call) < cur
        /\ call.dir = "up" => Target(call) > cur

(* What a call sends (driver.py:151-167, 257-265, 645): to the job that it  *)
(* read, through a port opened for that job, once, and in the direction of  *)
(* its name, whatever timed out or was changed at the panel before.         *)
RequestInv ==
    TypeOK /\ RequestHitsItsJob /\ PortServesOneJob /\ AsksOnce /\ RatesKeepDirection

(* Every call of the driver returns or raises.                              *)
CallEnds == pc # "idle" ~> pc = "idle"

=============================================================================
