-------------------------------- MODULE Bench --------------------------------
(***************************************************************************)
(* The procedures of the Prusa hardware tool that need a whole print or a  *)
(* working serial port: the camera isolation (a monitored print, then a    *)
(* stress test on the idle printer), the observe-only validation, the full *)
(* system audit (hardware_smoke.py) and ensure_serial_ready                *)
(* (serial_ready.py).  They all read the printer over HTTP, decide, and    *)
(* act on it later; meanwhile people start, stop and finish prints.        *)
(***************************************************************************)
EXTENDS Integers, Sequences

CONSTANTS
    Deadline,   \* wait_timeout_s in clock ticks
    Stall,      \* warmup_stall_s: no sign of progress for so long
    Hard,       \* hard_deadline
    Iterations, \* rounds of the idle stress test
    MaxPrints   \* bound: prints of a behaviour

ASSUME BenchConstants ==
    /\ Deadline \in Nat /\ Stall \in Nat \ {0} /\ Hard \in Nat
    /\ Deadline <= Hard /\ Iterations \in Nat \ {0}
    /\ MaxPrints \in Nat \ {0}

VARIABLES
    print,      \* the job on the printer: [id, file, by, life, progress]
    port,       \* the serial port: "ok", "held" by a process, "wedged", "gone"
    found,      \* history: id of a job that was active when the tool began
    lost,       \* history: ids of the jobs that the tool's cancel ended
    b           \* the tool: its locals and where it is

benchVars == <<print, port, found, lost, b>>

Tools == {"isolation", "validation", "audit", "ready"}
Lives == {"IDLE", "PRINTING", "ATTENTION", "FINISHED", "STOPPED"}

Phases == {"off", "initial", "start", "wait", "monitor", "observe", "failed", "cleanup",
           "idlecheck", "stress", "poll", "serial", "preflight", "remedy", "over"}
Verdicts == {"none", "passed", "failed", "verdict"}

(* The benchmark print, or any other file *)
Files == {"benchy", "other"}

Off == [tool |-> "none", step |-> "off", started |-> FALSE, own |-> 0, age |-> 0,
        stalled |-> 0, early |-> FALSE, mid |-> FALSE, terminal |-> 0,
        left |-> 0, monitored |-> FALSE, tried |-> 0, over |-> "none"]

(* job_active: a print that needs attention is still a job *)
Active == print.life \in {"PRINTING", "ATTENTION"}

BenchInit ==
    /\ print \in [id : {1}, file : Files, by : {"people"}, life : Lives, progress : {0}]
    /\ port \in {"ok", "held", "wedged", "gone"}
    /\ found = (IF Active THEN 1 ELSE 0)
    /\ lost = {}
    /\ b = Off

Ends(outcome) == b' = [b EXCEPT !.step = "over", !.over = outcome]
Same == UNCHANGED <<print, port, found, lost>>
-----------------------------------------------------------------------------
(* The tool is started; what it finds is what it will spare.               *)
Begin ==
    /\ b.step = "off"
    /\ \E tool \in Tools :
        b' = [b EXCEPT !.tool = tool,
                       !.step = IF tool = "ready" THEN "serial" ELSE "initial"]
    /\ found' = (IF Active THEN print.id ELSE 0)
    /\ UNCHANGED <<print, port, lost>>

(* initial_status: another file on the printer is an error, the benchmark  *)
(* itself is joined, an idle printer gets it started.  The audit insists   *)
(* on an idle printer.                                                     *)
InitialStatus ==
    /\ b.step = "initial"
    /\ b' = [b EXCEPT !.step =
                CASE Active /\ (print.file # "benchy" \/ b.tool = "audit") -> "failed"
                  [] Active /\ print.file = "benchy" /\ b.tool # "audit" -> "wait"
                  [] OTHER -> "start"]
    /\ Same

(* driver.start_print.  The printer refuses while a job is active; an      *)
(* answer that is lost raises although the print begins, and started_print *)
(* stays false.                                                            *)
StartPrint ==
    /\ b.step = "start" /\ ~Active /\ print.id < MaxPrints
    /\ print' = [id |-> print.id + 1, file |-> "benchy", by |-> "tool",
                 life |-> "PRINTING", progress |-> 0]
    /\ \/ b' = [b EXCEPT !.started = TRUE, !.own = print.id + 1,
                         !.step = IF b.tool = "audit" THEN "poll" ELSE "wait"]
       \/ b' = [b EXCEPT !.step = "failed", !.own = print.id + 1]
    /\ UNCHANGED <<port, found, lost>>

StartRefused ==
    /\ b.step = "start"
    /\ b' = [b EXCEPT !.step = "failed"]
    /\ Same
-----------------------------------------------------------------------------
(* Mutant: the hard deadline is not looked at. *)
WaitsWhileWarming ==
    IF b.tool = "isolation" THEN b.age >= Deadline
    ELSE b.age >= Deadline /\ b.stalled >= Stall

(* The waits.  A poll of the validation leaves the loop when the benchmark *)
(* prints and the families are ready, or when the hard deadline passed, or *)
(* the deadline passed and the warm-up shows no progress for Stall ticks.  *)
(* The isolation's wait has the plain deadline and needs ten seconds of    *)
(* printing.                                                               *)
WaitedLongEnough ==
    IF b.tool = "isolation" THEN b.age >= Deadline
    ELSE \/ b.age >= Hard
         \/ b.age >= Deadline /\ b.stalled >= Stall

Printing == print.life = "PRINTING" /\ print.file = "benchy" /\ print.progress > 0

WaitReady ==
    /\ b.step = "wait" /\ ~WaitedLongEnough /\ Printing
    /\ b' = [b EXCEPT !.step = IF b.tool = "isolation" THEN "monitor" ELSE "observe",
                      !.age = 0, !.stalled = 0]
    /\ Same

(* One poll and the sleep after it: a sign of progress (temperatures, time *)
(* or percentage moved) restarts the stall clock.                          *)
WaitPoll ==
    /\ b.step = "wait" /\ ~WaitedLongEnough
    /\ \E sign \in BOOLEAN :
        b' = [b EXCEPT !.age = IF @ < Hard THEN @ + 1 ELSE @,
                       !.stalled = IF sign THEN 0 ELSE IF @ < Stall THEN @ + 1 ELSE @]
    /\ Same

WaitTimesOut ==
    /\ b.step = "wait" /\ WaitedLongEnough
    /\ b' = [b EXCEPT !.step = "failed", !.age = 0, !.stalled = 0]
    /\ Same

(* The isolation watches the camera until its time is up or a probe fails. *)
MonitorProbe ==
    /\ b.step = "monitor"
    /\ \/ b.age < Deadline /\ b' = [b EXCEPT !.age = @ + 1]
       \/ b' = [b EXCEPT !.step = "cleanup", !.age = 0, !.monitored = (b.age >= Deadline)]
    /\ Same

(* The validation looks at camera, vision and one compiled world with a    *)
(* plan that is not executed; any of these gates may fail.                 *)
Observe ==
    /\ b.step = "observe"
    /\ \/ Ends("passed")
       \/ b' = [b EXCEPT !.step = "failed"]
    /\ Same

(* A failed gate: the isolation cleans up, the other two report.  The      *)
(* validation and the audit leave a print they started running.            *)
GateFailed ==
    /\ b.step = "failed"
    /\ IF b.tool = "isolation" THEN b' = [b EXCEPT !.step = "cleanup"] ELSE Ends("failed")
    /\ Same
-----------------------------------------------------------------------------
(* Mutant: the cleanup always cancels. *)
CancelsAlways == TRUE

(* The finally block of the isolation: a print it started is cancelled,    *)
(* whichever job the printer has by then.                                  *)
CancelWanted == b.started

CleanUp ==
    /\ b.step = "cleanup"
    /\ \/ /\ CancelWanted /\ Active
          /\ print' = [print EXCEPT !.life = "STOPPED"]
          /\ lost' = lost \union {print.id}
       \/ UNCHANGED <<print, lost>>      \* not wanted, nothing there, or cancel raised
    /\ b' = [b EXCEPT !.step = "idlecheck"]
    /\ UNCHANGED <<port, found>>

(* Mutant: the stress test starts on whatever the printer does. *)
IdleCheckSkipped ==
    /\ b.step = "idlecheck"
    /\ b' = [b EXCEPT !.step = "stress", !.left = Iterations]
    /\ Same

(* _wait_for_not_printing ends either way; its failure is only noted.  The *)
(* stress test then insists on an idle printer.                            *)
IdleCheck ==
    /\ b.step = "idlecheck"
    /\ IF Active THEN Ends("failed")
       ELSE b' = [b EXCEPT !.step = "stress", !.left = Iterations]
    /\ Same

(* One iteration of camera health and vision; the first failure ends it.   *)
(* Both cases done, a verdict is given.                                    *)
Stress ==
    /\ b.step = "stress"
    /\ \/ b.left > 1 /\ b' = [b EXCEPT !.left = @ - 1]
       \/ Ends("verdict")
    /\ Same
-----------------------------------------------------------------------------
(* Mutant: the lifecycle alone decides, job_active is not asked. *)
TerminalByLifecycle == print.life \in {"FINISHED", "STOPPED", "ATTENTION", "IDLE"}

(* The audit polls until the print is over: two polls in a row without a   *)
(* job in a terminal lifecycle.  A probe runs once the progress is there,  *)
(* and a probe that fails fails the audit.                                 *)
Terminal == ~Active /\ print.life \in {"FINISHED", "STOPPED", "ATTENTION", "IDLE"}

Due(done, at) == ~done /\ Active /\ print.progress >= at

AuditPoll ==
    /\ b.step = "poll"
    /\ LET early == b.early \/ Due(b.early, 1)
           mid == b.mid \/ Due(b.mid, 2)
           seen == IF Terminal THEN b.terminal + 1 ELSE 0
       IN IF seen >= 2
          THEN b' = [b EXCEPT !.step = "over", !.over = "passed", !.terminal = seen]
          ELSE b' = [b EXCEPT !.early = early, !.mid = mid, !.terminal = seen]
    /\ Same

ProbeFails ==
    /\ b.step = "poll" /\ (Due(b.early, 1) \/ Due(b.mid, 2))
    /\ b' = [b EXCEPT !.step = "failed"]
    /\ Same
-----------------------------------------------------------------------------
(* ensure_serial_ready: refuses while a job is active; then a preflight    *)
(* after each of ever stronger remedies.                                   *)
Remedies == <<"holders", "cdc_acm", "usb">>

SerialStatus ==
    /\ b.step = "serial"
    /\ IF Active THEN Ends("failed") ELSE b' = [b EXCEPT !.step = "preflight"]
    /\ Same

Preflight ==
    /\ b.step = "preflight"
    /\ IF port = "ok" THEN Ends("passed")
       ELSE IF b.tried = 3 THEN Ends("failed")
       ELSE b' = [b EXCEPT !.step = "remedy"]
    /\ Same

(* Holders of the port other than the tool get SIGTERM; rebinding cdc_acm  *)
(* and resetting the USB device may wake a wedged or a vanished port, may  *)
(* fail (sudo) with an exception, or may change nothing.                   *)
Remedy ==
    /\ b.step = "remedy"
    /\ LET remedy == Remedies[b.tried + 1] IN
       /\ port' \in {port} \union
              (CASE remedy = "holders" -> IF port = "held" THEN {"ok"} ELSE {}
                 [] remedy = "cdc_acm" -> IF port \in {"ok", "wedged"} THEN {"ok", "gone"} ELSE {}
                 [] remedy = "usb" -> {"ok", "gone"})
       /\ \/ b' = [b EXCEPT !.step = "preflight", !.tried = @ + 1]
          \/ remedy # "holders" /\ Ends("failed")
    /\ UNCHANGED <<print, found, lost>>
-----------------------------------------------------------------------------
(* The world around the tool. *)
PrintAdvances ==
    /\ print.life = "PRINTING" /\ b.step # "over"
    /\ \/ print.progress < 2 /\ print' = [print EXCEPT !.progress = @ + 1]
       \/ print' = [print EXCEPT !.life = "FINISHED"]
    /\ UNCHANGED <<port, found, lost, b>>

PrintNeedsAttention ==
    /\ print.life = "PRINTING" /\ b.step # "over"
    /\ print' = [print EXCEPT !.life = "ATTENTION"]
    /\ UNCHANGED <<port, found, lost, b>>

(* Other processes open and close the serial port. *)
PortTaken ==
    /\ b.tool = "ready" /\ b.step # "over" /\ port \in {"ok", "held"}
    /\ port' \in {"ok", "held"} \ {port}
    /\ UNCHANGED <<print, found, lost, b>>

(* At the panel: the attention is resolved, a print is stopped, the result *)
(* is confirmed, the next print is started.                                *)
PeopleAct ==
    /\ b.step # "over"
    /\ \/ print.life = "ATTENTION" /\ print' = [print EXCEPT !.life = "PRINTING"]
       \/ Active /\ print' = [print EXCEPT !.life = "STOPPED"]
       \/ print.life \in {"FINISHED", "STOPPED"} /\ print' = [print EXCEPT !.life = "IDLE"]
       \/ /\ ~Active /\ print.id < MaxPrints
          /\ \E f \in Files :
              print' = [id |-> print.id + 1, file |-> f, by |-> "people",
                        life |-> "PRINTING", progress |-> 0]
    /\ UNCHANGED <<port, found, lost, b>>

StartStep      == Begin \/ InitialStatus \/ StartPrint \/ StartRefused
WaitStep       == WaitReady \/ WaitPoll \/ WaitTimesOut
ValidationStep == Observe \/ GateFailed
IsolationStep  == MonitorProbe \/ CleanUp \/ IdleCheck \/ Stress
AuditStep      == AuditPoll \/ ProbeFails
ReadyStep      == SerialStatus \/ Preflight \/ Remedy

BenchStep == StartStep \/ WaitStep \/ ValidationStep \/ IsolationStep \/ AuditStep \/ ReadyStep

BenchNext == BenchStep \/ PrintAdvances \/ PrintNeedsAttention \/ PortTaken \/ PeopleAct

BenchSpec == BenchInit /\ [][BenchNext]_benchVars

-----------------------------------------------------------------------------
(* The print tools and the printer are well typed. *)
BenchTypeOK ==
    /\ print \in [id : 1..MaxPrints, file : Files, by : {"people", "tool"},
                  life : Lives, progress : 0..2]
    /\ port \in {"ok", "held", "wedged", "gone"}
    /\ found \in 0..MaxPrints /\ lost \subseteq 1..MaxPrints
    /\ b.tool \in Tools \union {"none"} /\ b.step \in Phases /\ b.over \in Verdicts
    /\ {b.started, b.early, b.mid, b.monitored} \subseteq BOOLEAN
    /\ b.own \in 0..MaxPrints /\ b.age \in 0..Hard /\ b.stalled \in 0..Stall
    /\ b.terminal \in 0..2 /\ b.left \in 0..Iterations /\ b.tried \in 0..3

(* A print that was running when a tool began is never cancelled by it:    *)
(* the isolation joins a running benchmark, watches it to the end of its   *)
(* time and leaves it (hardware_smoke.py:3371).                            *)
FoundPrintsSurvive == found \notin lost

(* The isolation's verdict compares a monitored print with an idle         *)
(* printer: a verdict is given only when the print it monitored, one it    *)
(* joined or its own, is over, also if the cancel failed or the start was  *)
(* not confirmed (hardware_smoke.py:3401).                                 *)
VerdictOnIdlePrinter ==
    b.over = "verdict" => ~(Active /\ print.id \in {b.own, found})

(* An audit passes only when the print it started is over, not while it    *)
(* waits for somebody's attention (hardware_smoke.py:4012).                *)
AuditSawTheEnd ==
    b.tool = "audit" /\ b.over = "passed" => print.id # b.own \/ ~Active

(* What the print tools do to prints and say about them                     *)
(* (hardware_smoke.py:3371, 3401, 4012): they cancel no print they found,   *)
(* and give a verdict only about one that is over.                          *)
PrintsJudged ==
    BenchTypeOK /\ FoundPrintsSurvive /\ VerdictOnIdlePrinter /\ AuditSawTheEnd

(* The isolation, the validation and the serial recovery end whatever the  *)
(* printer does: a warm-up that keeps showing signs of progress is cut off *)
(* by the hard deadline (hardware_smoke.py:2756).  The audit has no        *)
(* deadline.                                                               *)
BoundedToolsEnd == b.tool \in {"isolation", "validation", "ready"} ~> b.step = "over"
=============================================================================
