---- MODULE Driver_proofs ----
(***************************************************************************)
(* Proofs about PrusaDriver: what a call sends and what its success means, *)
(* for any families, files, targets, job ids and deadlines, whatever times *)
(* out, is carried out late or is done at the panel.                       *)
(***************************************************************************)
EXTENDS Driver, TLAPS

TuningLabels == {"read", "query", "decide", "send", "verify", "fallback", "report", "diagnose"}
Unsent == {"status", "request", "read", "query", "decide", "send"}

(* Which call can be at a label.                                            *)
CallShape ==
    /\ pc = "status" => call.op \in {"pause", "resume", "cancel"}
    /\ pc \in {"request", "wait"} => call.op \in {"pause", "resume", "cancel", "start"}
    /\ pc = "recover" => call.op = "cancel"
    /\ pc \in {"reread", "rejob"} => call.op = "start"
    /\ pc \in TuningLabels => call.op = "tune"
    /\ call.op = "start" => call.file # NoFile

(* What has been sent so far.                                               *)
SentOnce ==
    /\ writes <= 1
    /\ pc \in Unsent => writes = 0
    /\ pc \in {"wait", "recover", "reread", "rejob", "verify", "fallback", "report"} => writes = 1

(* A stale surface is what a cancelled job leaves behind.                   *)
StaleIsCancelled == stale => job = 0 /\ file = NoFile /\ life = "IDLE"

(* A request under way names the job its call read.                         *)
LateNamesItsJob == late.job = late.read

(* The goal has been seen where the driver no longer looks at the whole of  *)
(* it: speed and flow before the last read; the file of a job that was      *)
(* printing one read earlier; a resumed print behind a stale surface.       *)
SeenBefore ==
    /\ pc = "report" => seen
    /\ pc = "rejob" /\ file = call.file => seen
    /\ pc = "wait" /\ call.op = "resume" => seen \/ (~stale /\ late.op # "cancel")

DriverInv ==
    /\ TypeOK /\ CallShape /\ SentOnce /\ StaleIsCancelled /\ LateNamesItsJob
    /\ SeenBefore /\ SuccessWasSeen
    /\ RequestHitsItsJob /\ PortServesOneJob /\ RatesKeepDirection

LEMMA TargetRange ==
    ASSUME NEW c \in Calls \cup {NoCall}
    PROVE  Target(c) \in 0 .. MaxVal
<1>1. c.target \in 0 .. MaxVal
  BY DriverAssumption DEF Calls, NoCall
<1> QED BY <1>1, DriverAssumption DEF Target

LEMMA DriverInit == Init => DriverInv
<1> SUFFICES ASSUME Init PROVE DriverInv
  OBVIOUS
<1>1. TypeOK
  <2>1. /\ job \in 0 .. MaxJobs /\ lastJob \in 0 .. MaxJobs /\ val \in 0 .. MaxVal /\ queued \in -1 .. MaxVal
        /\ jobRead \in 0 .. MaxJobs /\ cur \in 0 .. MaxVal /\ polls \in 0 .. MaxPolls
        /\ session \in 0 .. MaxJobs + 1 /\ openedFor \in 0 .. MaxJobs + 1 /\ writes \in Nat
        /\ calls \in 0 .. MaxCalls /\ panel \in 0 .. MaxPanel
    BY DriverAssumption DEF Init, NotQueued
  <2>2. /\ file \in Files \cup {NoFile} /\ life \in Lives /\ family \in Families /\ stale \in BOOLEAN
        /\ late \in Requests /\ pc \in PcLabels /\ call \in Calls \cup {NoCall} /\ sawStatus \in BOOLEAN
        /\ result \in {"none", "ok", "noop", "recovered", "error"} /\ port \in {"closed", "open"}
        /\ seen \in BOOLEAN /\ wrongJob \in BOOLEAN
    BY Zenon DEF Init, Lives, Requests, PcLabels
  <2> QED BY <2>1, <2>2 DEF TypeOK
<1>2. CallShape /\ SentOnce /\ StaleIsCancelled /\ LateNamesItsJob /\ SeenBefore /\ SuccessWasSeen
  BY DEF Init, CallShape, TuningLabels, NoCall, SentOnce, Unsent, StaleIsCancelled, LateNamesItsJob, NoLate, SeenBefore,
     SuccessWasSeen
<1>3. RequestHitsItsJob /\ PortServesOneJob /\ RatesKeepDirection
  BY DEF Init, RequestHitsItsJob, PortServesOneJob, RatesKeepDirection
<1> QED BY <1>1, <1>2, <1>3 DEF DriverInv

-----------------------------------------------------------------------------
(* Types.                                                                   *)

(* The pieces the driver's steps are made of.                               *)
PrinterType ==
    /\ job \in 0 .. MaxJobs /\ lastJob \in 0 .. MaxJobs /\ file \in Files \cup {NoFile}
    /\ life \in Lives /\ val \in 0 .. MaxVal /\ stale \in BOOLEAN /\ late \in Requests
    /\ queued \in -1 .. MaxVal
CallType ==
    /\ pc \in PcLabels /\ call \in Calls \cup {NoCall}
    /\ jobRead \in 0 .. MaxJobs /\ cur \in 0 .. MaxVal
    /\ polls \in 0 .. MaxPolls /\ sawStatus \in BOOLEAN
    /\ result \in {"none", "ok", "noop", "recovered", "error"}
PortType ==
    port \in {"closed", "open"} /\ session \in 0 .. MaxJobs + 1 /\ openedFor \in 0 .. MaxJobs + 1
HistoryType ==
    /\ family \in Families /\ writes \in Nat /\ seen \in BOOLEAN /\ wrongJob \in BOOLEAN
    /\ calls \in 0 .. MaxCalls /\ panel \in 0 .. MaxPanel

LEMMA TypeParts == TypeOK <=> PrinterType /\ CallType /\ PortType /\ HistoryType
BY Zenon DEF TypeOK, PrinterType, CallType, PortType, HistoryType

LEMMA CallTypes ==
    ASSUME DriverInv, Next
    PROVE  CallType'
<1> USE DriverAssumption, TypeParts DEF DriverInv
<1>0. CallType /\ (polls > 0 => polls - 1 \in 0 .. MaxPolls) /\ NoCall \in Calls \cup {NoCall}
  BY DEF CallType
<1>1. ASSUME NEW r \in {"none", "ok", "noop", "recovered", "error"}, Return(r) PROVE CallType'
  <2>1. 0 \in 0 .. MaxJobs /\ 0 \in 0 .. MaxVal /\ MaxPolls \in 0 .. MaxPolls
    OBVIOUS
  <2> QED BY <1>1, <2>1, Zenon DEF Return, CallType, PcLabels
<1>2. ASSUME NEW label \in PcLabels, Serve(label) PROVE CallType'
  BY <1>0, <1>2, Zenon DEF Serve, CallType
<1>3. ASSUME NEW label \in PcLabels, Deadline(label) PROVE CallType'
  <2>1. MaxPolls \in 0 .. MaxPolls
    OBVIOUS
  <2> QED BY <1>0, <1>3, <2>1, Zenon DEF Deadline, CallType
<1>4. ASSUME polls > 0, Polled, pc' = pc, sawStatus' \in BOOLEAN PROVE CallType'
  BY <1>0, <1>4 DEF Polled, CallType
<1>5. CASE PrinterStep
  BY <1>0, <1>5 DEF PrinterStep, LateRequest, JobEnds, SurfaceCatchesUp, GcodeRuns, PanelJob, PanelLife, PanelTune,
     ByThemselves, callVars, CallType
<1>6. CASE Begin
  <2>1. call' \in Calls
    BY <1>6 DEF Begin
  <2> QED BY <1>0, <1>6, <2>1 DEF Begin, CallType, PcLabels
<1>7. CASE ReadRaises \/ RequestRefused \/ WaitConfirmed \/ RecoverFails \/ RereadJob \/ Report \/ TuningFailure
  BY <1>1, <1>7 DEF ReadRaises, RequestRefused, WaitConfirmed, RecoverFails, RereadJob, Report, TuningFailure
<1>8. CASE GetStatus
  <2>1. jobRead' \in 0 .. MaxJobs
    BY <1>8 DEF GetStatus, PrinterType
  <2> QED BY <1>0, <1>8, <2>1, Zenon DEF GetStatus, CallType, PcLabels
<1>9. CASE RequestAccepted \/ VerifyFails \/ WaitFails
  BY <1>1, <1>3, <1>9 DEF RequestAccepted, VerifyFails, WaitFails, PcLabels
<1>10. CASE RequestTimesOut
  BY <1>1, <1>2, <1>3, <1>10 DEF RequestTimesOut, AfterTimeout, PcLabels
<1>11. CASE WaitPolls \/ VerifyPolls
  BY <1>0, <1>4, <1>11 DEF WaitPolls, VerifyPolls, CallType
<1>12. CASE RecoverPolls
  BY <1>0, <1>1, <1>4, <1>12 DEF RecoverPolls, CallType
<1>13. CASE Reread \/ DecideTuning \/ VerifyOk
  BY <1>1, <1>2, <1>13 DEF Reread, DecideTuning, VerifyOk, PcLabels
<1>14. CASE ReadAndBind
  BY <1>0, <1>14 DEF ReadAndBind, PrinterType, CallType, PcLabels
<1>15. CASE Query
  BY <1>0, <1>1, <1>15 DEF Query, PrinterType, CallType, PcLabels
<1>16. CASE SendCommand
  <2>1. pc' \in PcLabels /\ MaxPolls \in 0 .. MaxPolls
    BY <1>16 DEF SendCommand, PcLabels
  <2> QED BY <1>0, <1>16, <2>1, Zenon DEF SendCommand, CallType
<1> QED
  BY <1>5, <1>6, <1>7, <1>8, <1>9, <1>10, <1>11, <1>12, <1>13, <1>14, <1>15, <1>16
     DEF Next, DriverStep, ControlStep, TuningStep

LEMMA PrinterTypes ==
    ASSUME DriverInv, Next
    PROVE  PrinterType'
<1> USE DriverAssumption, TypeParts DEF DriverInv
<1>0. PrinterType /\ CallType
  OBVIOUS
<1>1. CASE Printer
  BY <1>0, <1>1 DEF Printer, printerVars, PrinterType
<1>2. ASSUME NEW f \in Files \cup {NoFile}, NewJob(f), UNCHANGED <<val, late, queued>> PROVE PrinterType'
  <2>1. job' \in 0 .. MaxJobs /\ lastJob' \in 0 .. MaxJobs
    BY <1>0, <1>2 DEF NewJob, PrinterType
  <2> QED BY <1>0, <1>2, <2>1, Zenon DEF NewJob, PrinterType, Lives
<1>3. ASSUME NEW r \in Requests, Perform(r), UNCHANGED <<val, queued>>, late' \in Requests PROVE PrinterType'
  <2>1. r.file \in Files \cup {NoFile}
    BY DEF Requests, NoLate
  <2>2. CASE r.op = "start" /\ NewJob(r.file)
    <3>1. job' \in 0 .. MaxJobs /\ lastJob' \in 0 .. MaxJobs
      BY <1>0, <2>2 DEF NewJob, PrinterType
    <3> QED BY <1>0, <1>3, <2>1, <2>2, <3>1, Zenon DEF NewJob, PrinterType, Lives
  <2>3. CASE ~(r.op = "start" /\ NewJob(r.file))
    BY <1>0, <1>3, <2>3 DEF Perform, PrinterType, Lives
  <2> QED BY <2>2, <2>3
<1>4. TheRequest \in Requests \/ pc # "request"
  BY <1>0 DEF TheRequest, Requests, CallShape, CallType, Calls, NoCall
<1>5. NoLate \in Requests
  BY DEF Requests
<1>6. CASE LateRequest
  BY <1>0, <1>3, <1>5, <1>6 DEF LateRequest, PrinterType
<1>7. CASE JobEnds \/ PanelLife \/ PanelTune
  BY <1>0, <1>7 DEF JobEnds, PanelLife, PanelTune, ByThemselves, PrinterType, Lives
<1>13. CASE SurfaceCatchesUp
  BY <1>0, <1>13, Zenon DEF SurfaceCatchesUp, ByThemselves, PrinterType
<1>8. CASE GcodeRuns
  BY <1>0, <1>8 DEF GcodeRuns, ByThemselves, PrinterType, NotQueued
<1>9. CASE PanelJob
  BY <1>2, <1>9 DEF PanelJob, ByThemselves
<1>10. CASE RequestAccepted
  <2>1. CASE Perform(TheRequest) /\ UNCHANGED late
    BY <1>0, <1>3, <1>4, <1>10, <2>1 DEF RequestAccepted, PrinterType
  <2>2. CASE ~(Perform(TheRequest) /\ UNCHANGED late)
    BY <1>0, <1>4, <1>10, <2>2 DEF RequestAccepted, PrinterType
  <2> QED BY <2>1, <2>2
<1>11. CASE RequestTimesOut
  BY <1>0, <1>4, <1>11 DEF RequestTimesOut, PrinterType
<1>12. CASE SendCommand
  <2>1. Target(call) \in -1 .. MaxVal
    BY <1>0, TargetRange DEF CallType
  <2> QED BY <1>0, <1>12, <2>1 DEF SendCommand, PrinterType
<1> QED
  BY <1>1, <1>6, <1>7, <1>8, <1>9, <1>10, <1>11, <1>12, <1>13
     DEF Next, DriverStep, ControlStep, TuningStep, PrinterStep, Begin, ReadRaises, GetStatus, RequestRefused,
         WaitConfirmed, WaitPolls, WaitFails, RecoverPolls, RecoverFails, Reread, RereadJob, ReadAndBind, Query,
         DecideTuning, VerifyOk, VerifyPolls, VerifyFails, Report, TuningFailure

(* The port: bound to a job before it is opened, and closed when the job    *)
(* changes.                                                                 *)
LEMMA PortSteps ==
    ASSUME DriverInv, Next
    PROVE  PortType' /\ PortServesOneJob'
<1> USE DriverAssumption, TypeParts DEF DriverInv, PortType, PortServesOneJob
<1>1. Key \in 1 .. MaxJobs + 1
  BY DEF Key, PrinterType
<1>2. CASE Unbound
  BY <1>2 DEF Unbound, portVars
<1>3. ASSUME NEW key \in 0 .. MaxJobs + 1, NEW p \in {"closed", "open"},
             p = "open" => port = "open" /\ session = key,
             Opened(p, key) \/ NotOpened(p, key)
      PROVE  PortType' /\ PortServesOneJob'
  BY <1>3 DEF Opened, NotOpened
<1>4. ASSUME Opened(AfterBind, Key) \/ NotOpened(AfterBind, Key) PROVE PortType' /\ PortServesOneJob'
  <2>1. AfterBind \in {"closed", "open"} /\ (AfterBind = "open" => port = "open" /\ session = Key)
    BY DEF AfterBind
  <2> QED BY <1>1, <1>3, <1>4, <2>1
<1>5. CASE ReadAndBind
  <2>1. CASE Key = session
    BY <1>1, <1>5, <2>1 DEF ReadAndBind, BindSession
  <2>2. CASE Key # session
    BY <1>1, <1>5, <2>2 DEF ReadAndBind, BindSession
  <2> QED BY <2>1, <2>2
<1>6. CASE Query \/ VerifyOk \/ VerifyPolls
  BY <1>2, <1>4, <1>6 DEF Query, VerifyOk, VerifyPolls
<1>7. CASE SendCommand
  <2>1. Opened(port, session) \/ NotOpened(port, session)
    BY <1>7 DEF SendCommand
  <2>2. session \in 0 .. MaxJobs + 1 /\ port \in {"closed", "open"}
    OBVIOUS
  <2> QED BY <1>3, <2>1, <2>2
<1>8. CASE PrinterStep
  BY <1>2, <1>8 DEF PrinterStep, LateRequest, JobEnds, SurfaceCatchesUp, GcodeRuns, PanelJob, PanelLife, PanelTune,
     ByThemselves, Unbound
<1> QED
  BY <1>2, <1>5, <1>6, <1>7, <1>8
     DEF Next, DriverStep, ControlStep, TuningStep, Begin, ReadRaises, GetStatus, RequestAccepted,
         RequestRefused, RequestTimesOut, WaitConfirmed, WaitPolls, WaitFails, RecoverPolls, RecoverFails, Reread,
         RereadJob, DecideTuning, VerifyFails, Report, TuningFailure

(* The job a request acts on is the one its call read: the printer refuses  *)
(* another id, and the request carries the id it was made with.             *)
LEMMA RequestSteps ==
    ASSUME DriverInv, Next
    PROVE  LateNamesItsJob' /\ RequestHitsItsJob'
<1> USE DEF DriverInv, LateNamesItsJob, RequestHitsItsJob
<1>1. ASSUME UNCHANGED <<late, wrongJob>> PROVE LateNamesItsJob' /\ RequestHitsItsJob'
  BY <1>1
<1>2. ASSUME NEW r, r.job = r.read, Perform(r), Hits(r) PROVE RequestHitsItsJob'
  BY <1>2 DEF Perform, Acceptable, Hits
<1>3. TheRequest.job = TheRequest.read /\ NoLate.job = NoLate.read
  BY DEF TheRequest, NoLate
<1>4. CASE LateRequest
  BY <1>2, <1>3, <1>4 DEF LateRequest
<1>5. CASE RequestAccepted
  <2>1. CASE Perform(TheRequest) /\ Hits(TheRequest) /\ UNCHANGED late
    BY <1>2, <1>3, <2>1
  <2>2. CASE late' = TheRequest /\ UNCHANGED wrongJob
    BY <1>3, <2>2
  <2> QED BY <1>5, <2>1, <2>2 DEF RequestAccepted
<1>6. CASE RequestTimesOut
  BY <1>3, <1>6 DEF RequestTimesOut
<1>7. CASE JobEnds \/ SurfaceCatchesUp \/ GcodeRuns \/ PanelJob \/ PanelLife \/ PanelTune
  BY <1>1, <1>7 DEF JobEnds, SurfaceCatchesUp, GcodeRuns, PanelJob, PanelLife, PanelTune, ByThemselves
<1>8. CASE Printer
  BY <1>1, <1>8 DEF Printer, printerVars
<1>9. CASE SendCommand
  BY <1>1, <1>9 DEF SendCommand
<1> QED
  BY <1>4, <1>5, <1>6, <1>7, <1>8, <1>9
     DEF Next, DriverStep, ControlStep, TuningStep, PrinterStep, Begin, ReadRaises, GetStatus, RequestRefused,
         WaitConfirmed, WaitPolls, WaitFails, RecoverPolls, RecoverFails, Reread, RereadJob, ReadAndBind, Query,
         DecideTuning, VerifyOk, VerifyPolls, VerifyFails, Report, TuningFailure

LEMMA StaleSteps ==
    ASSUME DriverInv, Next
    PROVE  StaleIsCancelled'
<1> USE DEF DriverInv, StaleIsCancelled
<1>1. ASSUME UNCHANGED <<job, file, life, stale>> PROVE StaleIsCancelled'
  BY <1>1
<1>2. ASSUME NEW f, NewJob(f) PROVE StaleIsCancelled'
  BY <1>2 DEF NewJob
<1>3. ASSUME NEW r, Perform(r) PROVE StaleIsCancelled'
  <2>1. CASE r.op = "start" /\ NewJob(r.file)
    BY <1>2, <2>1
  <2>2. CASE r.op \in {"pause", "resume"} /\ UNCHANGED <<job, file, stale>>
    <3>1. job # 0
      BY <1>3, <2>2 DEF Perform, Acceptable
    <3> QED BY <2>2, <3>1
  <2>3. CASE job' = 0 /\ life' = "IDLE" /\ file' = NoFile
    BY <2>3
  <2> QED BY <1>3, <2>1, <2>2, <2>3 DEF Perform
<1>4. CASE LateRequest
  BY <1>1, <1>3, <1>4 DEF LateRequest
<1>5. CASE RequestAccepted
  BY <1>1, <1>3, <1>5 DEF RequestAccepted
<1>6. CASE JobEnds \/ PanelLife
  BY <1>6 DEF JobEnds, PanelLife
<1>7. CASE PanelJob
  BY <1>2, <1>7 DEF PanelJob
<1>8. CASE GcodeRuns \/ PanelTune \/ RequestTimesOut \/ SendCommand
  BY <1>1, <1>8 DEF GcodeRuns, PanelTune, RequestTimesOut, SendCommand
<1>9. CASE SurfaceCatchesUp
  BY <1>9 DEF SurfaceCatchesUp
<1>10. CASE Printer
  BY <1>1, <1>10 DEF Printer, printerVars
<1> QED
  BY <1>4, <1>5, <1>6, <1>7, <1>8, <1>9, <1>10
     DEF Next, DriverStep, ControlStep, TuningStep, PrinterStep, Begin, ReadRaises, GetStatus, RequestRefused,
         WaitConfirmed, WaitPolls, WaitFails, RecoverPolls, RecoverFails, Reread, RereadJob, ReadAndBind, Query,
         DecideTuning, VerifyOk, VerifyPolls, VerifyFails, Report, TuningFailure

(* A step of the printer leaves the driver alone.                           *)
LEMMA PrinterSteps ==
    ASSUME PrinterStep
    PROVE  UNCHANGED <<pc, callVars, portVars, writes, calls>>
BY DEF PrinterStep, LateRequest, JobEnds, SurfaceCatchesUp, GcodeRuns, PanelJob, PanelLife, PanelTune, ByThemselves

LEMMA ShapeSteps ==
    ASSUME DriverInv, Next
    PROVE  CallShape'
<1> USE DEF DriverInv, CallShape, TuningLabels
<1>1. ASSUME NEW r, Return(r) PROVE CallShape'
  BY <1>1 DEF Return, NoCall
<1>2. CASE PrinterStep
  BY <1>2, PrinterSteps DEF callVars
<1>3. CASE Begin
  <2>1. call' \in Calls /\ call'.op \in Ops /\ (call'.op = "start" => call'.file # NoFile)
    BY <1>3 DEF Begin, Calls
  <2> QED BY <1>3, <2>1 DEF Begin, Ops
<1>4. CASE ReadRaises \/ RequestRefused \/ WaitConfirmed \/ RecoverFails \/ RereadJob \/ Report \/ TuningFailure
  BY <1>1, <1>4 DEF ReadRaises, RequestRefused, WaitConfirmed, RecoverFails, RereadJob, Report, TuningFailure
<1>5. CASE GetStatus \/ RequestAccepted \/ WaitPolls
  BY <1>5 DEF GetStatus, RequestAccepted, WaitPolls, Deadline, Polled
<1>6. CASE WaitFails \/ RecoverPolls \/ Reread
  BY <1>1, <1>6 DEF WaitFails, RecoverPolls, Reread, Deadline, Serve, Polled
<1>7. CASE RequestTimesOut
  BY <1>1, <1>7 DEF RequestTimesOut, AfterTimeout, Deadline, Serve
<1>8. CASE ReadAndBind \/ Query \/ DecideTuning
  BY <1>1, <1>8 DEF ReadAndBind, Query, DecideTuning, Serve
<1>9. CASE SendCommand \/ VerifyOk \/ VerifyPolls \/ VerifyFails
  BY <1>1, <1>9 DEF SendCommand, VerifyOk, VerifyPolls, VerifyFails, Serve, Deadline, Polled
<1> QED
  BY <1>2, <1>3, <1>4, <1>5, <1>6, <1>7, <1>8, <1>9 DEF Next, DriverStep, ControlStep, TuningStep

(* No label before the request is reached again after it.                   *)
LEMMA SentSteps ==
    ASSUME DriverInv, Next
    PROVE  SentOnce'
<1> USE DEF DriverInv, SentOnce, Unsent
<1>1. ASSUME NEW r, Return(r), writes' \in {writes, writes + 1}, writes' <= 1 PROVE SentOnce'
  BY <1>1 DEF Return
<1>2. CASE PrinterStep
  BY <1>2, PrinterSteps
<1>3. CASE Begin
  BY <1>3 DEF Begin
<1>4. CASE ReadRaises \/ WaitConfirmed \/ RecoverFails \/ RereadJob \/ Report \/ TuningFailure
  BY <1>1, <1>4 DEF ReadRaises, WaitConfirmed, RecoverFails, RereadJob, Report, TuningFailure
<1>5. CASE RequestRefused
  BY <1>1, <1>5 DEF RequestRefused
<1>6. CASE GetStatus \/ WaitPolls
  BY <1>6 DEF GetStatus, WaitPolls, Polled
<1>11. CASE RequestAccepted
  BY <1>11 DEF RequestAccepted, Deadline
<1>7. CASE WaitFails \/ RecoverPolls \/ Reread
  BY <1>1, <1>7 DEF WaitFails, RecoverPolls, Reread, Deadline, Serve, Polled
<1>8. CASE RequestTimesOut
  BY <1>1, <1>8 DEF RequestTimesOut, AfterTimeout, Deadline, Serve
<1>9. CASE ReadAndBind \/ Query \/ DecideTuning
  BY <1>1, <1>9 DEF ReadAndBind, Query, DecideTuning, Serve
<1>10. CASE SendCommand \/ VerifyOk \/ VerifyPolls \/ VerifyFails
  BY <1>1, <1>10 DEF SendCommand, VerifyOk, VerifyPolls, VerifyFails, Serve, Deadline, Polled
<1> QED
  BY <1>2, <1>3, <1>4, <1>5, <1>6, <1>7, <1>8, <1>9, <1>10, <1>11 DEF Next, DriverStep, ControlStep, TuningStep

(* What is commanded is further in the direction of the call's name.        *)
LEMMA RateSteps ==
    ASSUME DriverInv, Next
    PROVE  RatesKeepDirection'
<1> USE DEF DriverInv, RatesKeepDirection
<1>1. family' = family
  BY DEF Next
<1>2. CASE pc' \notin {"send", "verify", "fallback"}
  BY <1>2
<1>3. CASE pc \in {"send", "verify", "fallback"} /\ UNCHANGED <<call, cur>>
  <2>1. Target(call)' = Target(call)
    BY <1>3 DEF Target
  <2> QED BY <1>1, <1>3, <2>1
<1>4. CASE DecideTuning /\ pc' = "send"
  <2>1. ~AlreadyThere /\ UNCHANGED <<call, cur>>
    BY <1>4 DEF DecideTuning, Return, Serve
  <2>2. Target(call)' = Target(call) /\ Target(call) \in Int /\ cur \in Int
    BY <2>1, TargetRange DEF Target, TypeOK
  <2> QED BY <1>1, <2>1, <2>2 DEF AlreadyThere
<1>5. CASE PrinterStep
  BY <1>2, <1>3, <1>5, PrinterSteps DEF callVars
<1>6. CASE Begin \/ ReadRaises \/ ControlStep
  BY <1>2, <1>6 DEF Begin, ReadRaises, ControlStep, GetStatus, RequestAccepted, RequestRefused, RequestTimesOut,
     AfterTimeout, WaitConfirmed, WaitPolls, WaitFails, RecoverPolls, RecoverFails, Reread, RereadJob, Return, Serve,
     Deadline
<1>7. CASE ReadAndBind \/ Query \/ Report \/ TuningFailure
  BY <1>2, <1>7 DEF ReadAndBind, Query, Report, TuningFailure, Return
<1>8. CASE DecideTuning
  BY <1>2, <1>4, <1>8 DEF DecideTuning, Return, Serve
<1>9. CASE SendCommand \/ VerifyOk \/ VerifyPolls \/ VerifyFails
  BY <1>2, <1>3, <1>9 DEF SendCommand, VerifyOk, VerifyPolls, VerifyFails, Serve, Deadline, Polled, Return
<1> QED BY <1>5, <1>6, <1>7, <1>8, <1>9 DEF Next, DriverStep, TuningStep

LEMMA HistoryTypes ==
    ASSUME DriverInv, Next
    PROVE  HistoryType'
<1>0. HistoryType
  BY TypeParts DEF DriverInv
<1>1. seen' \in BOOLEAN
  BY Zenon DEF Next, Begin, Watch
<1>2. wrongJob' \in BOOLEAN
  <2>1. CASE wrongJob' = wrongJob
    BY <1>0, <2>1 DEF HistoryType
  <2>2. ASSUME NEW r, Hits(r) PROVE wrongJob' \in BOOLEAN
    BY <2>2, Zenon DEF Hits
  <2>3. CASE PrinterStep
    BY <2>1, <2>2, <2>3 DEF PrinterStep, LateRequest, JobEnds, SurfaceCatchesUp, GcodeRuns, PanelJob, PanelLife,
       PanelTune, ByThemselves
  <2>4. CASE Begin \/ DriverStep
    BY <2>1, <2>2, <2>4
       DEF Begin, DriverStep, ControlStep, TuningStep, ReadRaises, GetStatus, RequestAccepted,
           RequestRefused, RequestTimesOut, WaitConfirmed, WaitPolls, WaitFails, RecoverPolls, RecoverFails, Reread,
           RereadJob, ReadAndBind, Query, DecideTuning, SendCommand, VerifyOk, VerifyPolls, VerifyFails, Report,
           TuningFailure, Printer
  <2> QED BY <2>3, <2>4 DEF Next
<1>3. writes' \in Nat /\ calls' \in 0 .. MaxCalls
  <2>1. CASE writes' \in {writes, writes + 1, 0} /\ (calls' = calls \/ (calls < MaxCalls /\ calls' = calls + 1))
    BY <1>0, <2>1, DriverAssumption DEF HistoryType
  <2>2. CASE PrinterStep
    BY <2>1, <2>2, PrinterSteps
  <2>3. CASE Begin \/ DriverStep
    BY <2>1, <2>3
       DEF Begin, DriverStep, ControlStep, TuningStep, ReadRaises, GetStatus, RequestAccepted,
           RequestRefused, RequestTimesOut, WaitConfirmed, WaitPolls, WaitFails, RecoverPolls, RecoverFails, Reread,
           RereadJob, ReadAndBind, Query, DecideTuning, SendCommand, VerifyOk, VerifyPolls, VerifyFails, Report,
           TuningFailure, Outside
  <2> QED BY <2>2, <2>3 DEF Next
<1>4. panel' \in 0 .. MaxPanel
  <2>1. CASE panel' = panel \/ (panel < MaxPanel /\ panel' = panel + 1)
    BY <1>0, <2>1, DriverAssumption DEF HistoryType
  <2>2. CASE PrinterStep
    BY <2>1, <2>2 DEF PrinterStep, LateRequest, JobEnds, SurfaceCatchesUp, GcodeRuns, PanelJob, PanelLife, PanelTune
  <2>3. CASE Begin \/ DriverStep
    BY <2>1, <2>3
       DEF Begin, DriverStep, ControlStep, TuningStep, ReadRaises, GetStatus, RequestAccepted,
           RequestRefused, RequestTimesOut, WaitConfirmed, WaitPolls, WaitFails, RecoverPolls, RecoverFails, Reread,
           RereadJob, ReadAndBind, Query, DecideTuning, SendCommand, VerifyOk, VerifyPolls, VerifyFails, Report,
           TuningFailure, Outside
  <2> QED BY <2>2, <2>3 DEF Next
<1>5. family' \in Families
  BY <1>0 DEF Next, HistoryType
<1> QED BY <1>1, <1>2, <1>3, <1>4, <1>5 DEF HistoryType

-----------------------------------------------------------------------------
(* Success.                                                                 *)

(* A printer's step behind a waiting driver.                                *)
LEMMA SeenPrinter ==
    ASSUME DriverInv, PrinterStep, Watch
    PROVE  SeenBefore' /\ SuccessWasSeen'
<1>1. UNCHANGED <<pc, call, result, writes>> /\ (seen => seen')
  BY PrinterSteps DEF callVars, Watch
<1>2. SuccessWasSeen' /\ (pc' = "report" => seen')
  BY <1>1 DEF DriverInv, SeenBefore, SuccessWasSeen
<1>3. pc' = "rejob" /\ file' = call'.file => seen'
  <2> SUFFICES ASSUME pc = "rejob", file' = call.file, ~seen PROVE seen'
    BY <1>1
  <2>1. call.op = "start" /\ file' # NoFile /\ file' # file /\ writes' > 0
    BY <1>1 DEF DriverInv, CallShape, SeenBefore, SentOnce
  <2>2. ASSUME NEW f, NewJob(f) PROVE seen'
    <3>1. life' = "PRINTING" /\ job' # 0
      BY <2>2 DEF NewJob, DriverInv, TypeOK
    <3>2. GoalNow(call, job', life', val', file')
      BY <2>1, <3>1 DEF GoalNow
    <3> QED BY <2>1, <3>2 DEF Watch
  <2>3. ASSUME NEW r, Perform(r) PROVE seen'
    BY <2>1, <2>2, <2>3 DEF Perform
  <2> QED BY <2>1, <2>2, <2>3 DEF PrinterStep, LateRequest, JobEnds, SurfaceCatchesUp, GcodeRuns, PanelJob,
             PanelLife, PanelTune
<1>4. pc' = "wait" /\ call'.op = "resume" => seen' \/ (~stale' /\ late'.op # "cancel")
  <2> SUFFICES ASSUME pc = "wait", call.op = "resume", ~stale, late.op # "cancel"
               PROVE  ~stale' /\ late'.op # "cancel"
    BY <1>1 DEF DriverInv, SeenBefore
  <2>1. CASE LateRequest
    <3>1. late'.op # "cancel"
      BY <2>1 DEF LateRequest, NoLate
    <3>2. ~stale'
      BY <2>1 DEF LateRequest, Perform, NewJob
    <3> QED BY <3>1, <3>2
  <2>2. CASE PanelJob
    BY <2>2 DEF PanelJob, NewJob, ByThemselves
  <2> QED BY <2>1, <2>2 DEF PrinterStep, JobEnds, SurfaceCatchesUp, GcodeRuns, PanelLife, PanelTune, ByThemselves
<1> QED BY <1>2, <1>3, <1>4 DEF SeenBefore

(* A driver's step: what it reads in the end, the history has seen.         *)
LEMMA SeenDriver ==
    ASSUME DriverInv, DriverStep, Watch
    PROVE  SeenBefore' /\ SuccessWasSeen'
<1> USE DEF DriverInv
<1>1. seen => seen'
  BY DEF Watch
<1>2. ASSUME pc # "idle", writes' > 0, GoalNow(call, job', life', val', file') PROVE seen'
  BY <1>2 DEF Watch
<1>3. ASSUME NEW r, Return(r), r \in {"ok", "recovered"} => seen' PROVE SeenBefore' /\ SuccessWasSeen'
  BY <1>3 DEF Return, SeenBefore, SuccessWasSeen
<1>4. ASSUME pc' \notin {"wait", "report", "rejob"}, result' = result PROVE SeenBefore' /\ SuccessWasSeen'
  BY <1>1, <1>4 DEF SeenBefore, SuccessWasSeen
<1>5. CASE ReadRaises \/ RequestRefused \/ RecoverFails \/ TuningFailure
  BY <1>3, <1>5 DEF ReadRaises, RequestRefused, RecoverFails, TuningFailure
<1>6. CASE WaitConfirmed
  <2>1. Printer /\ writes' > 0 /\ pc = "wait" /\ Confirmed /\ Return("ok")
    BY <1>6 DEF WaitConfirmed, SentOnce
  <2>2. seen'
    <3>1. UNCHANGED <<job, life, val, file>>
      BY <2>1 DEF Printer, printerVars
    <3>2. CASE call.op = "resume" /\ stale
      BY <1>1, <2>1, <3>2 DEF SeenBefore
    <3>3. CASE ~(call.op = "resume" /\ stale)
      <4>1. GoalNow(call, job, life, val, file)
        BY <2>1, <3>3 DEF Confirmed, GoalNow, CallShape, ShownLife, ShownActive, Cancelled
      <4> QED BY <1>2, <2>1, <3>1, <4>1
    <3> QED BY <3>2, <3>3
  <2> QED BY <1>3, <2>1, <2>2
<1>7. CASE RecoverPolls
  <2>1. CASE Cancelled /\ Return("recovered")
    <3>1. UNCHANGED <<job, life, val, file>> /\ writes' > 0 /\ pc = "recover" /\ call.op = "cancel"
      BY <1>7 DEF RecoverPolls, Printer, printerVars, SentOnce, CallShape
    <3>2. GoalNow(call, job, life, val, file)
      BY <2>1, <3>1 DEF GoalNow, ShownLife, ShownActive, Cancelled
    <3> QED BY <1>2, <1>3, <2>1, <3>1, <3>2
  <2>2. CASE ~(Cancelled /\ Return("recovered"))
    BY <1>3, <1>4, <1>7, <2>2 DEF RecoverPolls, Polled
  <2> QED BY <2>1, <2>2
<1>8. CASE RereadJob
  BY <1>1, <1>3, <1>8 DEF RereadJob, StartTimeoutRecovered, SeenBefore
<1>9. CASE Reread
  <2>1. UNCHANGED <<job, life, val, file>> /\ writes' > 0 /\ pc = "reread" /\ call.op = "start" /\ call.file # NoFile
    BY <1>9 DEF Reread, Printer, printerVars, SentOnce, CallShape
  <2>2. CASE ShownActive /\ ShownLife = "PRINTING" /\ Serve("rejob")
    <3>1. ASSUME file = call.file PROVE seen'
      <4>1. ~stale
        BY <2>1, <3>1 DEF StaleIsCancelled
      <4>2. GoalNow(call, job, life, val, file)
        BY <2>1, <2>2, <3>1, <4>1 DEF GoalNow, ShownLife, ShownActive
      <4> QED BY <1>2, <2>1, <4>2
    <3> QED BY <1>1, <2>1, <2>2, <3>1 DEF Serve, SeenBefore, SuccessWasSeen
  <2>3. CASE ~(ShownActive /\ ShownLife = "PRINTING" /\ Serve("rejob"))
    BY <1>3, <1>9, <2>3 DEF Reread
  <2> QED BY <2>2, <2>3
<1>10. CASE RequestAccepted
  <2>1. pc = "request" /\ pc' = "wait" /\ writes' > 0 /\ UNCHANGED <<call, result>>
    BY <1>10 DEF RequestAccepted, Deadline, SentOnce, Unsent
  <2>2. CASE call.op # "resume"
    BY <1>1, <2>1, <2>2 DEF SeenBefore, SuccessWasSeen
  <2>3. CASE call.op = "resume"
    <3>1. CASE Perform(TheRequest)
      <4>1. life' = "PRINTING"
        BY <2>3, <3>1 DEF Perform, TheRequest
      <4>2. GoalNow(call, job', life', val', file')
        BY <2>3, <4>1 DEF GoalNow
      <4> QED BY <1>1, <1>2, <2>1, <4>2 DEF SeenBefore, SuccessWasSeen
    <3>2. CASE Acceptable(TheRequest) /\ late' = TheRequest /\ stale' = stale
      <4>1. ~stale /\ late'.op = "resume"
        BY <2>3, <3>2 DEF Acceptable, TheRequest, StaleIsCancelled
      <4> QED BY <1>1, <2>1, <3>2, <4>1 DEF SeenBefore, SuccessWasSeen
    <3> QED BY <1>10, <3>1, <3>2 DEF RequestAccepted
  <2> QED BY <2>2, <2>3
<1>11. CASE WaitPolls
  <2>1. UNCHANGED <<pc, call, stale, late, result>> /\ pc = "wait"
    BY <1>11 DEF WaitPolls, Polled, Printer, printerVars
  <2> QED BY <1>1, <2>1 DEF SeenBefore, SuccessWasSeen
<1>12. CASE WaitFails \/ RequestTimesOut
  BY <1>3, <1>4, <1>12 DEF WaitFails, RequestTimesOut, AfterTimeout, Serve, Deadline
<1>13. CASE GetStatus \/ ReadAndBind \/ SendCommand \/ VerifyFails
  BY <1>4, <1>13 DEF GetStatus, ReadAndBind, SendCommand, VerifyFails, Deadline
<1>14. CASE Query \/ DecideTuning \/ VerifyPolls
  BY <1>3, <1>4, <1>14 DEF Query, DecideTuning, VerifyPolls, Serve, Polled
<1>15. CASE VerifyOk
  <2>1. UNCHANGED <<job, life, val, file>> /\ writes' > 0 /\ pc \in {"verify", "fallback"} /\ call.op = "tune"
    BY <1>15 DEF VerifyOk, Printer, printerVars, SentOnce, CallShape, TuningLabels
  <2>2. GoalNow(call, job, life, val, file)
    BY <1>15, <2>1 DEF VerifyOk, Verified, GoalNow
  <2>3. seen'
    BY <1>2, <2>1, <2>2
  <2> QED BY <1>3, <1>15, <2>3 DEF VerifyOk, Serve, SeenBefore, SuccessWasSeen
<1>16. CASE Report
  BY <1>1, <1>3, <1>16 DEF Report, SeenBefore
<1> QED
  BY <1>5, <1>6, <1>7, <1>8, <1>9, <1>10, <1>11, <1>12, <1>13, <1>14, <1>15, <1>16
     DEF DriverStep, ControlStep, TuningStep

LEMMA DriverInductive == DriverInv /\ [Next]_vars => DriverInv'
<1> SUFFICES ASSUME DriverInv, [Next]_vars PROVE DriverInv'
  OBVIOUS
<1>1. CASE UNCHANGED vars
  <2>1. TypeOK'
    BY <1>1, Zenon DEF DriverInv, TypeOK, vars, printerVars, callVars, portVars
  <2>2. CallShape' /\ SentOnce' /\ StaleIsCancelled' /\ LateNamesItsJob' /\ SeenBefore' /\ SuccessWasSeen'
    BY <1>1 DEF DriverInv, CallShape, SentOnce, StaleIsCancelled, LateNamesItsJob, SeenBefore, SuccessWasSeen, vars,
       printerVars, callVars
  <2>3. RequestHitsItsJob' /\ PortServesOneJob' /\ RatesKeepDirection'
    BY <1>1 DEF DriverInv, RequestHitsItsJob, PortServesOneJob, RatesKeepDirection, Target, vars, portVars, callVars
  <2> QED BY <2>1, <2>2, <2>3 DEF DriverInv
<1>2. CASE Next
  <2>1. TypeOK'
    BY <1>2, TypeParts, CallTypes, PrinterTypes, PortSteps, HistoryTypes, PTL
  <2>2. SeenBefore' /\ SuccessWasSeen'
    <3>1. CASE Begin
      BY <3>1 DEF Begin, SeenBefore, SuccessWasSeen
    <3> QED BY <1>2, <3>1, SeenPrinter, SeenDriver DEF Next
  <2> QED
    BY <1>2, <2>1, <2>2, ShapeSteps, SentSteps, StaleSteps, RequestSteps, PortSteps, RateSteps DEF DriverInv
<1> QED BY <1>1, <1>2

-----------------------------------------------------------------------------
(* A call that reports success has reached its goal after its own request   *)
(* (driver.py:537, 669), whatever times out or is done at the panel.        *)
THEOREM SuccessIsReal == Spec => []SuccessWasSeen
<1>1. DriverInv => SuccessWasSeen
  BY DEF DriverInv
<1> QED BY DriverInit, DriverInductive, <1>1, PTL DEF Spec

(* A call sends one request, to the job it read, through a port opened for  *)
(* that job and in the direction of its name (driver.py:151-167, 257-265,   *)
(* 645).                                                                    *)
THEOREM RequestsAreRight == Spec => []RequestInv
<1>1. DriverInv => RequestInv
  BY DEF DriverInv, SentOnce, AsksOnce, RequestInv
<1> QED BY DriverInit, DriverInductive, <1>1, PTL DEF Spec

=============================================================================
