---- MODULE Tools_proofs ----
(***************************************************************************)
(* Proofs about the Prusa hardware tool: what the print procedures do to   *)
(* prints and say about them, what a passed proof has put back, and whose  *)
(* job it is credited to, for any families, envelope, step sizes, bounds   *)
(* on jobs, prints and deadlines, whatever the printer and the people do.  *)
(***************************************************************************)
EXTENDS Sessions, Bench, SequenceTheorems, TLAPS

(* The tool's record keeps its fields and their types.                      *)
ToolFields == {"tool", "step", "started", "own", "age", "stalled", "early", "mid", "terminal",
               "left", "monitored", "tried", "over"}
ToolRecord ==
    /\ DOMAIN b = ToolFields
    /\ b.tool \in Tools \union {"none"} /\ b.step \in Phases /\ b.over \in Verdicts
    /\ {b.started, b.early, b.mid, b.monitored} \subseteq BOOLEAN
    /\ b.own \in 0..MaxPrints /\ b.age \in 0..Hard /\ b.stalled \in 0..Stall
    /\ b.terminal \in 0..2 /\ b.left \in 0..Iterations /\ b.tried \in 0..3
PrinterRecord ==
    /\ print \in [id : 1..MaxPrints, file : Files, by : {"people", "tool"},
                  life : Lives, progress : 0..2]
    /\ port \in {"ok", "held", "wedged", "gone"}
    /\ found \in 0..MaxPrints /\ lost \subseteq 1..MaxPrints

(* Which tool can be at a step.                                             *)
ToolAtStep ==
    /\ b.step = "poll" => b.tool = "audit"
    /\ b.step # "over" => b.terminal <= 1
    /\ b.step \in {"initial", "start"} => b.tool \in {"isolation", "validation", "audit"}
    /\ b.step = "wait" => b.tool \in {"isolation", "validation"}
    /\ b.step = "observe" => b.tool = "validation"
    /\ b.step \in {"serial", "preflight", "remedy"} => b.tool = "ready"
    /\ b.step = "remedy" => b.tried < 3
    /\ b.over # "none" => b.step = "over"

(* The tool's own print is younger than the one it found, and what it       *)
(* cancels is its own print or a younger one.                               *)
OwnIsYounger ==
    /\ found <= print.id /\ b.own <= print.id
    /\ b.step = "off" => lost = {}
    /\ b.step \in {"off", "initial", "start"} => b.own = 0 /\ ~b.started
    /\ b.own # 0 => b.own > found
    /\ b.started => b.own # 0
    /\ \A i \in lost : i > found

(* From the stress test on neither the print that was found nor the tool's  *)
(* own runs.                                                                *)
IdleFromStress ==
    b.step = "stress" \/ b.over = "verdict" => ~(Active /\ print.id \in {b.own, found})

BenchInv ==
    /\ ToolRecord /\ PrinterRecord
    /\ ToolAtStep /\ OwnIsYounger /\ IdleFromStress /\ AuditSawTheEnd

(* What a step of the tool makes of it.                                     *)
ToolMoves ==
    /\ b.over = "none" /\ b'.step # "off"
    /\ b'.step = "initial" => b.step = "off"
    /\ b'.step = "start" => b.step = "initial"
    /\ b.step # "off" /\ ~StartPrint => b'.own = b.own /\ b'.started = b.started
    /\ b'.step = "stress" => b.step = "stress" \/ ~Active
    /\ b'.over = "verdict" => b.step = "stress"
    /\ b'.over = "passed" /\ b'.tool = "audit" => ~Active

LEMMA BenchStart == BenchInit => BenchInv
<1> SUFFICES ASSUME BenchInit PROVE BenchInv
  OBVIOUS
<1>1. ToolRecord
  BY BenchConstants DEF BenchInit, ToolRecord, ToolFields, Off, Phases, Verdicts
<1>2. PrinterRecord
  BY BenchConstants DEF BenchInit, PrinterRecord, Lives, Active
<1>3. ToolAtStep /\ OwnIsYounger /\ IdleFromStress /\ AuditSawTheEnd
  BY DEF BenchInit, Off, ToolAtStep, OwnIsYounger, IdleFromStress, AuditSawTheEnd, Active
<1> QED BY <1>1, <1>2, <1>3 DEF BenchInv

(* The tool ends.                                                           *)
LEMMA EndsRecord ==
    ASSUME ToolRecord, NEW o \in Verdicts, Ends(o)
    PROVE  /\ ToolRecord'
           /\ b'.step = "over" /\ b'.over = o /\ b'.tool = b.tool /\ b'.own = b.own
           /\ b'.started = b.started
BY DEF ToolRecord, ToolFields, Ends, Phases

(* The tool goes on to another step.                                        *)
LEMMA OnwardRecord ==
    ASSUME ToolRecord, NEW s \in Phases, b' = [b EXCEPT !.step = s]
    PROVE  /\ ToolRecord'
           /\ b'.step = s /\ b'.over = b.over /\ b'.tool = b.tool /\ b'.own = b.own
           /\ b'.started = b.started /\ b'.terminal = b.terminal /\ b'.tried = b.tried
BY DEF ToolRecord, ToolFields

(* What a step leaves of the print and of the procedure: a case of an       *)
(* action that is not one of the three that touch a print.                  *)
LEMMA BenchToolStep ==
    ASSUME BenchInv, BenchStep
    PROVE  ToolRecord' /\ ToolAtStep' /\ ToolMoves
<1> USE BenchConstants DEF BenchInv, ToolAtStep, ToolMoves
<1>0. ToolRecord /\ PrinterRecord
  OBVIOUS
<1>1. CASE Begin
  BY <1>1 DEF Begin, ToolRecord, ToolFields, Phases, Tools
<1>2. CASE InitialStatus
  BY <1>0, <1>2 DEF InitialStatus, ToolRecord, ToolFields, Phases, Tools
<1>3. CASE StartPrint
  <2>1. print.id + 1 \in 0..MaxPrints
    BY <1>3 DEF StartPrint, PrinterRecord
  <2>2. CASE b' = [b EXCEPT !.step = "failed", !.own = print.id + 1]
    BY <1>0, <1>3, <2>1, <2>2 DEF StartPrint, ToolRecord, ToolFields, Phases
  <2>3. CASE b' = [b EXCEPT !.started = TRUE, !.own = print.id + 1,
                            !.step = IF b.tool = "audit" THEN "poll" ELSE "wait"]
    <3> DEFINE s == IF b.tool = "audit" THEN "poll" ELSE "wait"
    <3>1. s \in {"poll", "wait"} /\ (s = "poll" <=> b.tool = "audit") /\ b.step = "start"
      BY <1>3 DEF StartPrint
    <3>2. b' = [b EXCEPT !.started = TRUE, !.own = print.id + 1, !.step = s]
      BY <2>3
    <3> HIDE DEF s
    <3>3. /\ ToolRecord' /\ b'.step = s /\ b'.tool = b.tool /\ b'.terminal = b.terminal
          /\ b'.tried = b.tried /\ b'.over = b.over
      BY <1>0, <2>1, <3>1, <3>2 DEF ToolRecord, ToolFields, Phases
    <3> QED BY <1>3, <3>1, <3>3
  <2> QED BY <1>3, <2>2, <2>3 DEF StartPrint
<1>4. CASE StartRefused \/ ProbeFails
  BY <1>0, <1>4, OnwardRecord DEF StartRefused, ProbeFails, Phases
<1>5. CASE WaitReady
  <2> DEFINE s == IF b.tool = "isolation" THEN "monitor" ELSE "observe"
  <2>1. s \in {"monitor", "observe"} /\ (s = "observe" => b.tool = "validation") /\ b.step = "wait"
    BY <1>5 DEF WaitReady
  <2>2. b' = [b EXCEPT !.step = s, !.age = 0, !.stalled = 0]
    BY <1>5 DEF WaitReady
  <2>3. b.over = "none"
    BY <2>1
  <2> HIDE DEF s
  <2> QED BY <1>0, <2>1, <2>2, <2>3 DEF ToolRecord, ToolFields, Phases
<1>6. CASE WaitPoll
  BY <1>0, <1>6 DEF WaitPoll, ToolRecord, ToolFields, Phases
<1>7. CASE WaitTimesOut
  BY <1>0, <1>7 DEF WaitTimesOut, ToolRecord, ToolFields, Phases
<1>8. CASE MonitorProbe
  <2>1. CASE b.age < Deadline /\ b' = [b EXCEPT !.age = @ + 1]
    BY <1>0, <1>8, <2>1 DEF MonitorProbe, ToolRecord, ToolFields, Phases
  <2>2. CASE b' = [b EXCEPT !.step = "cleanup", !.age = 0, !.monitored = (b.age >= Deadline)]
    BY <1>0, <1>8, <2>2 DEF MonitorProbe, ToolRecord, ToolFields, Phases
  <2> QED BY <1>8, <2>1, <2>2 DEF MonitorProbe
<1>9. CASE Observe \/ GateFailed \/ SerialStatus
  BY <1>0, <1>9, EndsRecord, OnwardRecord DEF Observe, GateFailed, SerialStatus, Phases, Verdicts
<1>10. CASE CleanUp
  BY <1>0, <1>10, OnwardRecord DEF CleanUp, Phases
<1>11. CASE IdleCheck
  <2>1. CASE Active
    BY <1>0, <1>11, <2>1, EndsRecord DEF IdleCheck, Verdicts
  <2>2. CASE ~Active
    <3>1. b.step = "idlecheck" /\ b' = [b EXCEPT !.step = "stress", !.left = Iterations]
      BY <1>11, <2>2 DEF IdleCheck
    <3> QED BY <1>0, <2>2, <3>1 DEF ToolRecord, ToolFields, Phases
  <2> QED BY <2>1, <2>2
<1>12. CASE Stress
  <2>1. CASE Ends("verdict")
    BY <1>0, <1>12, <2>1, EndsRecord DEF Stress, Verdicts
  <2>2. CASE b.left > 1 /\ b' = [b EXCEPT !.left = @ - 1]
    BY <1>0, <1>12, <2>2 DEF Stress, ToolRecord, ToolFields
  <2> QED BY <1>12, <2>1, <2>2 DEF Stress
<1>13. CASE AuditPoll
  <2> DEFINE early == b.early \/ Due(b.early, 1)
             mid == b.mid \/ Due(b.mid, 2)
             seen == IF Terminal THEN b.terminal + 1 ELSE 0
  <2>1. early \in BOOLEAN /\ mid \in BOOLEAN /\ seen \in 0..2 /\ b.step = "poll"
    BY <1>0, <1>13 DEF AuditPoll, ToolRecord
  <2>4. seen >= 2 => ~Active
    BY <1>0 DEF Terminal, ToolRecord
  <2>2. CASE seen >= 2 /\ b' = [b EXCEPT !.step = "over", !.over = "passed", !.terminal = seen]
    <3> HIDE DEF seen, early, mid
    <3> QED BY <1>0, <2>1, <2>2, <2>4 DEF ToolRecord, ToolFields, Phases, Verdicts
  <2>3. CASE ~(seen >= 2) /\ b' = [b EXCEPT !.early = early, !.mid = mid, !.terminal = seen]
    <3> HIDE DEF seen, early, mid
    <3> QED BY <1>0, <2>1, <2>3 DEF ToolRecord, ToolFields
  <2> QED BY <1>13, <2>2, <2>3, Zenon DEF AuditPoll
<1>14. CASE Preflight
  <2>1. CASE Ends("passed") \/ Ends("failed")
    BY <1>0, <1>14, <2>1, EndsRecord DEF Preflight, Verdicts
  <2>2. CASE b.tried # 3 /\ b' = [b EXCEPT !.step = "remedy"]
    <3>1. b.tried < 3 /\ b.tool = "ready" /\ b.step = "preflight" /\ "remedy" \in Phases
      BY <1>0, <1>14, <2>2 DEF Preflight, ToolRecord, Phases
    <3> QED BY <1>0, <2>2, <3>1, OnwardRecord
  <2> QED BY <1>14, <2>1, <2>2 DEF Preflight
<1>15. CASE Remedy
  <2>1. b.step = "remedy" /\ b.tool = "ready" /\ b.tried < 3
    BY <1>15 DEF Remedy
  <2>2. CASE Ends("failed")
    BY <1>0, <2>1, <2>2, EndsRecord DEF Verdicts
  <2>3. CASE b' = [b EXCEPT !.step = "preflight", !.tried = @ + 1]
    BY <1>0, <2>1, <2>3 DEF ToolRecord, ToolFields, Phases
  <2> QED BY <1>15, <2>2, <2>3 DEF Remedy
<1> QED
  BY <1>1, <1>2, <1>3, <1>4, <1>5, <1>6, <1>7, <1>8, <1>9, <1>10, <1>11, <1>12, <1>13, <1>14, <1>15, Zenon
     DEF BenchStep, StartStep, WaitStep, ValidationStep, IsolationStep, AuditStep, ReadyStep

(* The tool's steps touch a print when they start one and when they cancel  *)
(* one, and know nothing of the others.                                     *)
LEMMA BenchToolPrints ==
    ASSUME BenchInv, BenchStep
    PROVE  PrinterRecord' /\ OwnIsYounger' /\ IdleFromStress' /\ AuditSawTheEnd'
<1> USE BenchConstants DEF BenchInv
<1>0. /\ ToolRecord /\ PrinterRecord /\ ToolAtStep /\ OwnIsYounger /\ IdleFromStress /\ AuditSawTheEnd
      /\ ToolRecord' /\ ToolAtStep' /\ ToolMoves
  BY BenchToolStep
<1>1. CASE Begin
  <2>1. /\ print' = print /\ port' = port /\ lost' = lost /\ lost = {} /\ found' \in {0, print.id}
        /\ b'.own = 0 /\ ~b'.started /\ b'.over = b.over /\ b'.step \in {"serial", "initial"}
    BY <1>0, <1>1 DEF Begin, ToolRecord, ToolFields, OwnIsYounger
  <2> QED BY <1>0, <2>1 DEF PrinterRecord, OwnIsYounger, IdleFromStress, AuditSawTheEnd, ToolAtStep, Verdicts, ToolRecord
<1>2. CASE StartPrint
  <2>1. /\ print'.id = print.id + 1 /\ print.id + 1 \in 1..MaxPrints
        /\ print' \in [id : 1..MaxPrints, file : Files, by : {"people", "tool"}, life : Lives, progress : 0..2]
        /\ port' = port /\ found' = found /\ lost' = lost
    BY <1>0, <1>2 DEF StartPrint, PrinterRecord, Lives, Files
  <2>2. b'.own = print.id + 1 /\ b'.over = b.over /\ b'.step \in {"poll", "wait", "failed"}
    BY <1>0, <1>2 DEF StartPrint, ToolRecord, ToolFields
  <2> QED
    BY <1>0, <1>2, <2>1, <2>2
       DEF StartPrint, PrinterRecord, OwnIsYounger, IdleFromStress, AuditSawTheEnd, ToolAtStep, Verdicts, ToolRecord
<1>3. CASE CleanUp
  <2>1. b.step = "cleanup" /\ b.over = "none" /\ b'.step = "idlecheck" /\ b'.over = "none"
    BY <1>0, <1>3, OnwardRecord DEF CleanUp, ToolAtStep, Phases
  <2>2. b'.own = b.own /\ b'.started = b.started /\ b'.tool = b.tool /\ port' = port /\ found' = found
    BY <1>0, <1>3, OnwardRecord DEF CleanUp, Phases
  <2>3. \/ print' = print /\ lost' = lost
        \/ b.started /\ print' = [print EXCEPT !.life = "STOPPED"] /\ lost' = lost \union {print.id}
    BY <1>3 DEF CleanUp, CancelWanted
  <2>4. PrinterRecord' /\ print'.id = print.id
    BY <1>0, <2>2, <2>3 DEF PrinterRecord, Lives
  <2> QED
    BY <1>0, <2>1, <2>2, <2>3, <2>4 DEF OwnIsYounger, IdleFromStress, AuditSawTheEnd, PrinterRecord, ToolRecord
<1>4. CASE Remedy
  <2>1. b.step = "remedy" /\ b.over = "none" /\ print' = print /\ found' = found /\ lost' = lost
    BY <1>0, <1>4 DEF Remedy, ToolAtStep
  <2>2. port' \in {"ok", "held", "wedged", "gone"}
    <3>1. Remedies[b.tried + 1] \in {"holders", "cdc_acm", "usb"}
      BY <1>0, <2>1 DEF Remedies, ToolRecord, ToolAtStep
    <3> QED BY <1>0, <1>4, <3>1 DEF Remedy, PrinterRecord
  <2>3. b'.step \in {"preflight", "over"} /\ b'.own = b.own /\ b'.started = b.started /\ b'.over \in {"none", "failed"}
    BY <1>0, <1>4, <2>1, EndsRecord DEF Remedy, ToolRecord, ToolFields, Verdicts
  <2> QED BY <1>0, <2>1, <2>2, <2>3 DEF PrinterRecord, OwnIsYounger, IdleFromStress, AuditSawTheEnd, Active
<1>5. CASE Same /\ ~Begin /\ ~StartPrint
  <2>1. PrinterRecord' /\ print' = print /\ found' = found /\ lost' = lost /\ (Active' <=> Active)
    BY <1>0, <1>5 DEF Same, PrinterRecord, Active
  <2>2. b.step # "off" /\ b'.own = b.own /\ b'.started = b.started
    BY <1>0, <1>5 DEF ToolMoves, BenchStep, StartStep, InitialStatus, StartRefused, WaitStep, WaitReady, WaitPoll, WaitTimesOut,
         ValidationStep, Observe, GateFailed, IsolationStep, MonitorProbe, CleanUp, IdleCheck, Stress, AuditStep, AuditPoll,
         ProbeFails, ReadyStep, SerialStatus, Preflight, Remedy
  <2>3. OwnIsYounger'
    BY <1>0, <2>1, <2>2 DEF OwnIsYounger, ToolMoves
  <2>4. IdleFromStress'
    BY <1>0, <2>1, <2>2 DEF IdleFromStress, ToolMoves
  <2>5. AuditSawTheEnd'
    BY <1>0, <2>1, <2>2 DEF AuditSawTheEnd, ToolMoves
  <2> QED BY <2>1, <2>3, <2>4, <2>5
<1> QED
  BY <1>1, <1>2, <1>3, <1>4, <1>5, Zenon
     DEF BenchStep, StartStep, InitialStatus, StartRefused, WaitStep, WaitReady, WaitPoll, WaitTimesOut,
         ValidationStep, Observe, GateFailed, IsolationStep, MonitorProbe, IdleCheck, Stress, AuditStep, AuditPoll,
         ProbeFails, ReadyStep, SerialStatus, Preflight

(* The printer and the people touch no print of the past, and nothing once  *)
(* the tool is over.                                                        *)
LEMMA BenchWorld ==
    ASSUME BenchInv, PrintAdvances \/ PrintNeedsAttention \/ PortTaken \/ PeopleAct
    PROVE  BenchInv'
<1>1. /\ b' = b /\ found' = found /\ lost' = lost /\ b.step # "over"
      /\ port' \in {port, "ok", "held"}
  BY DEF PrintAdvances, PrintNeedsAttention, PortTaken, PeopleAct
<1>2. /\ print' \in [id : 1..MaxPrints, file : Files, by : {"people", "tool"}, life : Lives, progress : 0..2]
      /\ print'.id = print.id \/ print'.id = print.id + 1
      /\ print'.id = print.id /\ Active' => Active
  <2> USE DEF BenchInv, PrinterRecord, Lives, Files, Active
  <2>1. CASE PortTaken
    BY <2>1 DEF PortTaken
  <2>2. CASE PrintAdvances \/ PrintNeedsAttention
    BY <2>2 DEF PrintAdvances, PrintNeedsAttention
  <2>3. CASE PeopleAct
    <3>1. CASE print.id < MaxPrints /\ \E f \in Files :
                 print' = [id |-> print.id + 1, file |-> f, by |-> "people", life |-> "PRINTING", progress |-> 0]
      <4>1. print.id + 1 \in 1..MaxPrints /\ print.id + 1 # print.id
        BY <3>1, BenchConstants
      <4>2. print'.id = print.id + 1
        BY <3>1
      <4>3. print' \in [id : 1..MaxPrints, file : Files, by : {"people", "tool"}, life : Lives, progress : 0..2]
        BY <3>1, <4>1
      <4> QED BY <4>1, <4>2, <4>3
    <3>2. CASE \E l \in {"PRINTING", "STOPPED", "IDLE"} :
                 print' = [print EXCEPT !.life = l] /\ (l = "PRINTING" => Active)
      <4>1. PICK l \in {"PRINTING", "STOPPED", "IDLE"} :
                print' = [print EXCEPT !.life = l] /\ (l = "PRINTING" => Active)
        BY <3>2
      <4>2. print'.id = print.id /\ print'.life = l
        BY <4>1
      <4>3. print' \in [id : 1..MaxPrints, file : Files, by : {"people", "tool"}, life : Lives, progress : 0..2]
        BY <4>1
      <4> QED BY <4>1, <4>2, <4>3
    <3> QED BY <2>3, <3>1, <3>2 DEF PeopleAct
  <2> QED BY <2>1, <2>2, <2>3
<1>3. ToolRecord' /\ ToolAtStep'
  BY <1>1 DEF BenchInv, ToolRecord, ToolAtStep
<1>4. PrinterRecord'
  BY <1>1, <1>2 DEF BenchInv, PrinterRecord
<1>5. OwnIsYounger' /\ IdleFromStress' /\ AuditSawTheEnd'
  BY <1>1, <1>2 DEF BenchInv, ToolRecord, ToolAtStep, PrinterRecord, OwnIsYounger, IdleFromStress, AuditSawTheEnd
<1> QED BY <1>3, <1>4, <1>5 DEF BenchInv

(* The inductive invariant of the print procedures.                         *)
LEMMA BenchInvariant == BenchSpec => []BenchInv
<1>1. BenchInv /\ [BenchNext]_benchVars => BenchInv'
  <2> SUFFICES ASSUME BenchInv, [BenchNext]_benchVars PROVE BenchInv'
    OBVIOUS
  <2>1. CASE BenchStep
    BY <2>1, BenchToolStep, BenchToolPrints DEF BenchInv
  <2>2. CASE PrintAdvances \/ PrintNeedsAttention \/ PortTaken \/ PeopleAct
    BY <2>2, BenchWorld
  <2>3. CASE UNCHANGED benchVars
    BY <2>3 DEF benchVars, BenchInv, ToolRecord, PrinterRecord, ToolAtStep, OwnIsYounger, IdleFromStress,
       AuditSawTheEnd, Active
  <2> QED BY <2>1, <2>2, <2>3 DEF BenchNext
<1> QED BY <1>1, BenchStart, PTL DEF BenchSpec

(* No tool ever cancels a print that was running when it began, the camera  *)
(* isolation gives its verdict only when the print it watched is over, and  *)
(* an audit passes only when its own is (hardware_smoke.py:3371, 3401,      *)
(* 4012), however prints, ports and people come and go.                     *)
THEOREM PrintsAreJudged == BenchSpec => []PrintsJudged
<1>1. BenchInv => PrintsJudged
  BY DEF BenchInv, ToolRecord, PrinterRecord, OwnIsYounger, IdleFromStress, AuditSawTheEnd, PrintsJudged, BenchTypeOK,
     FoundPrintsSurvive, VerdictOnIdlePrinter, Verdicts
<1> QED BY <1>1, BenchInvariant, PTL

-----------------------------------------------------------------------------
(* The trim procedures.                                                     *)

(* The record of a procedure keeps its fields and their types.              *)
ProcedureFields == {"mode", "step", "todo", "fam", "base", "job", "world", "target", "trimmed",
                    "stack", "traced", "reads", "lease", "over"}
ProcedureRecord ==
    /\ DOMAIN t = ProcedureFields
    /\ t.mode \in Modes /\ t.step \in Steps /\ t.over \in Outcomes
    /\ t.todo \subseteq Families /\ t.stack \in Seq(Baselines)
    /\ t.fam \in Families \union {None} /\ t.job \in 1..MaxJobs \union {None}
    /\ {t.base, t.target, t.trimmed} \subseteq Values \union {None}
    /\ t.world \in [Families -> Values] \union {None}
    /\ t.reads \in 0..Reads /\ {t.traced, t.lease} \subseteq BOOLEAN
    /\ t.over = "none" <=> t.step # "over"
MachineTypes ==
    /\ values \in [Families -> Values]
    /\ job \in 1..MaxJobs /\ printing \in BOOLEAN /\ knobs \in 0..MaxKnobs
    /\ start \in [Families -> Values] \union {None}
    /\ hits \in [Families -> SUBSET (1..job)]

SingleModes == {"once", "session"}
(* Where a trimmed family is under work, and where a stacked one is reset.  *)
TrimmedSteps == {"post", "reads", "trimmed", "exact", "second", "undo", "restored"}
ResetSteps == {"exact", "second", "undo", "restored", "rereads"}
(* Where the locals hold a baseline: of the family whose turn it is.        *)
HasBase ==
    \/ t.step \in {"publish", "trim", "rereads"} \union TrimmedSteps
    \/ t.mode \in SingleModes /\ (t.step = "gate" \/ (t.step = "look" /\ t.traced))

(* Which procedure can be at a step, and what its locals hold there.        *)
Locals ==
    /\ t.step = "idle" => t = Idle
    /\ t.step \in {"idle", "direct"} <=> t.mode = "direct" /\ t.step # "over"
    /\ t.step = "direct" => t.stack = <<>> /\ t.fam \in Families /\ t.target \in Values
    /\ t.step \in {"look", "gate", "pre", "prestep"} => t.mode \in {"once", "session", "multi"}
    /\ t.step \in {"family", "publish"} => t.mode = "managed"
    /\ t.mode = "once" => t.step \in {"look", "gate", "pre", "trim", "over"}
    /\ t.step = "pre" => t.mode # "multi" /\ ~t.traced
    /\ t.step = "prestep" => t.mode = "multi" /\ t.fam \in t.todo /\ t.target \in Values
    /\ t.mode \in SingleModes /\ t.step \notin {"over", "unwind"} \union ResetSteps =>
          /\ \E f \in Families : t.todo = {f}
          /\ HasBase => t.todo = {t.fam}
    /\ t.step \in {"pre", "gate"} => t.world \in [Families -> Values]
    /\ t.step \in {"trim", "undo"} => t.target \in Values
    /\ t.step \in {"reads", "trimmed"} => t.trimmed \in Values
    /\ t.step \in {"publish", "trim", "post", "reads", "trimmed"} => t.fam \in t.todo
    /\ t.step \in {"unwind"} \union ResetSteps /\ t.mode # "managed" => t.todo = {}
    /\ t.step = "unwind" => t.stack # <<>>
    /\ t.mode # "multi" => IF t.step = "unwind" THEN Len(t.stack) = 1 ELSE t.stack = <<>>
    /\ t.step = "over" => t.stack = <<>>

(* The families left to do are untouched but for the one under work.        *)
TodoFresh ==
    /\ t.step # "over" =>
        \A f \in t.todo : hits[f] = {} \/ (t.step \in {"post", "reads", "trimmed"} /\ f = t.fam)
    /\ t.step \in {"idle", "direct"} => \A f \in Families : hits[f] = {}

(* Only its own job, and later ones, were trimmed after a baseline was read.*)
BaseKept ==
    HasBase =>
        /\ t.fam \in Families /\ t.base \in Values /\ t.job \in 1..job \union {None}
        /\ t.job # None => \A j \in hits[t.fam] : t.job <= j
        /\ t.step \in ResetSteps \union {"post", "reads", "trimmed"} => hits[t.fam] # {}
        /\ Quiet => t.base = start[t.fam]

(* So it is for the families on the reset stack, each of them on it once,   *)
(* none of them to do any more or being reset.                              *)
StackKept ==
    \A i \in 1..Len(t.stack) : LET e == t.stack[i] IN
        /\ hits[e.fam] # {} /\ (e.job # None => \A j \in hits[e.fam] : e.job <= j)
        /\ e.fam \notin t.todo
        /\ \A k \in 1..Len(t.stack) : k # i => t.stack[k].fam # e.fam
        /\ t.step \in ResetSteps => t.fam # e.fam
        /\ Quiet => e.base = start[e.fam]
ResetIsDone == t.step \in ResetSteps => t.fam \notin t.todo

(* While nobody else touches the printer, what differs from the beginning   *)
(* is on the stack or under work.                                           *)
Stacked(f) == \E i \in 1..Len(t.stack) : t.stack[i].fam = f
Away ==
    Quiet /\ t.step # "over" => \A f \in Families :
        values[f] = start[f] \/ Stacked(f) \/ (t.step \in TrimmedSteps /\ f = t.fam)

SessionInv ==
    /\ ProcedureRecord /\ MachineTypes /\ Locals /\ TodoFresh
    /\ BaseKept /\ StackKept /\ ResetIsDone /\ Away /\ PassedIsRestored

(* The envelope is a set of integers that holds the default and all that    *)
(* is clamped.                                                              *)
LEMMA SessionNumbers ==
    /\ Default \in Values /\ \A v \in Int : Clamp(v) \in Values
    /\ \A v \in Values : v \in Int
    /\ Small \in Int /\ Big \in Int /\ 1 \in 1..MaxJobs /\ 0 \in 0..Reads /\ Reads \in 0..Reads
    /\ 0 \in 0..MaxKnobs
BY SessionConstants DEF Values, Clamp

(* Every beginning has the invariant.                                       *)
LEMMA SessionStart == SessionInit => SessionInv
<1> SUFFICES ASSUME SessionInit PROVE SessionInv
  OBVIOUS
<1>1. MachineTypes
  BY SessionNumbers DEF SessionInit, MachineTypes
<1>2. ProcedureRecord
  BY SessionNumbers, EmptySeq DEF SessionInit, Idle, ProcedureRecord, ProcedureFields, Modes, Steps, Outcomes
<1>3. t.stack = <<>> /\ t.todo = {} /\ t.step = "idle" /\ t.mode = "direct" /\ t.over = "none" /\ Len(t.stack) = 0
  BY DEF SessionInit, Idle
<1>4. Locals /\ TodoFresh /\ BaseKept /\ StackKept /\ ResetIsDone /\ Away /\ PassedIsRestored
  BY <1>3 DEF SessionInit, Locals, TodoFresh, BaseKept, HasBase, SingleModes, TrimmedSteps, ResetSteps, StackKept,
     ResetIsDone, Away, PassedIsRestored
<1> QED BY <1>1, <1>2, <1>4 DEF SessionInv

(* A procedure that is over owes nothing but its promise.                   *)
LEMMA OverKeeps ==
    ASSUME SessionInv, NEW o \in Outcomes \ {"none"}, t' = Over(o), MachineTypes',
           o = "executed" /\ t.mode \in {"session", "multi", "managed"} /\ Quiet' => values' = start'
    PROVE  SessionInv'
<1>1. /\ t'.mode = t.mode /\ t'.step = "over" /\ t'.over = o /\ t'.stack = <<>> /\ t'.todo = {}
      /\ t'.traced = FALSE /\ Len(t'.stack) = 0
  BY DEF Over, Idle
<1>2. ProcedureRecord'
  BY SessionNumbers, EmptySeq DEF SessionInv, Over, Idle, ProcedureRecord, ProcedureFields, Modes, Steps, Outcomes
<1>3. Locals' /\ TodoFresh' /\ BaseKept' /\ StackKept' /\ ResetIsDone' /\ Away' /\ PassedIsRestored'
  BY <1>1 DEF Locals, TodoFresh, BaseKept, HasBase, SingleModes, TrimmedSteps, ResetSteps, StackKept,
     ResetIsDone, Away, PassedIsRestored
<1> QED BY <1>2, <1>3 DEF SessionInv

(* What the printer and the people do changes no local and no history, and  *)
(* is not quiet.                                                            *)
LEMMA WorldKeeps ==
    ASSUME SessionInv, PrintEnds \/ NextPrint \/ Knob
    PROVE  SessionInv'
<1>1. t' = t /\ hits' = hits /\ start' = None /\ job' >= job
  BY DEF PrintEnds, NextPrint, Knob, SessionInv, MachineTypes
<1>2. MachineTypes'
  <2>1. /\ values \in [Families -> Values] /\ job \in 1..MaxJobs /\ printing \in BOOLEAN
        /\ knobs \in 0..MaxKnobs /\ hits \in [Families -> SUBSET (1..job)]
    BY DEF SessionInv, MachineTypes
  <2>2. start' \in [Families -> Values] \union {None}
    BY <1>1
  <2>3. CASE PrintEnds
    BY <2>1, <2>2, <2>3 DEF PrintEnds, MachineTypes
  <2>4. CASE NextPrint
    <3>1. /\ job' = job + 1 /\ job < MaxJobs /\ printing' = TRUE /\ knobs' = knobs /\ hits' = hits
          /\ values' = [f \in Families |-> Default]
      BY <2>4 DEF NextPrint
    <3>2. job' \in 1..MaxJobs /\ 1..job \subseteq 1..job'
      BY <3>1, <2>1, SessionConstants
    <3>3. hits' \in [Families -> SUBSET (1..job')] /\ values' \in [Families -> Values]
      BY <3>1, <3>2, <2>1, SessionNumbers
    <3> QED BY <3>1, <3>2, <3>3, <2>1, <2>2 DEF MachineTypes
  <2>5. CASE Knob
    <3>1. PICK f \in Families, v \in Values : values' = [values EXCEPT ![f] = v]
      BY <2>5 DEF Knob
    <3>2. knobs' = knobs + 1 /\ knobs < MaxKnobs /\ UNCHANGED <<job, printing, hits>>
      BY <2>5 DEF Knob
    <3> QED BY <3>1, <3>2, <2>1, <2>2, SessionConstants DEF MachineTypes
  <2> QED BY <2>3, <2>4, <2>5
<1>3. ProcedureRecord'
  BY <1>1 DEF SessionInv, ProcedureRecord
<1>7. Locals' /\ ResetIsDone'
  BY <1>1 DEF SessionInv, Locals, HasBase, ResetIsDone
<1>4. TodoFresh' /\ StackKept'
  BY <1>1 DEF SessionInv, TodoFresh, StackKept, Quiet
<1>5. BaseKept'
  BY <1>1, <1>2 DEF SessionInv, BaseKept, MachineTypes, HasBase, Quiet
<1>6. Away' /\ PassedIsRestored'
  BY <1>1 DEF Away, PassedIsRestored, Quiet
<1> QED BY <1>2, <1>3, <1>4, <1>5, <1>6, <1>7 DEF SessionInv

-----------------------------------------------------------------------------
(* What the tool's steps do to the invariant, in groups.                    *)
Kept == t'.mode = t.mode /\ t'.todo = t.todo /\ t'.stack = t.stack /\ t'.over = t.over
BaseStays == t'.fam = t.fam /\ t'.base = t.base /\ t'.job = t.job
Kernel == TodoFresh /\ BaseKept /\ StackKept /\ ResetIsDone /\ Away

(* A step to anywhere but the end.                                          *)
LEMMA GoesOn ==
    ASSUME ProcedureRecord', MachineTypes', Locals', Kernel', t'.step # "over"
    PROVE  SessionInv'
BY DEF SessionInv, Kernel, PassedIsRestored, ProcedureRecord

(* A step that only reads, and goes on with the same family or with none.   *)
LEMMA ReadsOn ==
    ASSUME SessionInv, UNCHANGED machineVars, start' \in {start, None}, Kept,
           HasBase' => HasBase /\ BaseStays,
           t.step \notin {"idle", "direct", "over"}, t'.step \notin {"idle", "direct", "over"},
           t'.step \in ResetSteps => t.step \in ResetSteps,
           t'.step \in {"post", "reads", "trimmed"} <=> t.step \in {"post", "reads", "trimmed"},
           t.step \in TrimmedSteps =>
               (t'.step \in TrimmedSteps /\ t'.fam = t.fam) \/ values[t.fam] = t.base
    PROVE  Kernel' /\ MachineTypes'
<1> USE DEF SessionInv, Kept, machineVars
<1>1. MachineTypes' /\ (Quiet' => Quiet /\ start' = start)
  BY DEF MachineTypes, Quiet
<1>7. t'.step \in ResetSteps \union {"post", "reads", "trimmed"} => HasBase'
  BY DEF HasBase, ResetSteps, TrimmedSteps
<1>2. TodoFresh' /\ ResetIsDone'
  BY <1>7 DEF TodoFresh, ResetIsDone, BaseStays
<1>3. BaseKept'
  BY <1>1 DEF BaseKept, BaseStays
<1>4. StackKept'
  BY <1>1, <1>7 DEF StackKept, BaseStays
<1>5. Away'
  <2>1. HasBase \/ t.step \notin TrimmedSteps
    BY DEF HasBase
  <2>2. ASSUME NEW f \in Families PROVE Stacked(f)' <=> Stacked(f)
    BY DEF Stacked
  <2> QED BY <1>1, <2>1, <2>2 DEF Away, BaseKept
<1> QED BY <1>1, <1>2, <1>3, <1>4, <1>5 DEF Kernel

(* The baseline of a family that is still to do is read.                    *)
LEMMA BaseRead ==
    ASSUME SessionInv, UNCHANGED machineVars, start' = start, Kept, NEW f \in t.todo,
           t'.fam = f, t'.base = values[f], t'.job \in JobIds,
           t.step \in {"pre", "prestep", "family"}, t'.step \in {"gate", "trim", "publish"}
    PROVE  Kernel' /\ MachineTypes'
<1> USE DEF SessionInv, Kept, machineVars
<1>1. MachineTypes' /\ (Quiet' <=> Quiet)
  BY DEF MachineTypes, Quiet
<1>0. /\ t.step \notin TrimmedSteps \union ResetSteps \union {"over", "idle", "direct", "post", "reads", "trimmed"}
      /\ t'.step \notin TrimmedSteps \union ResetSteps \union {"over", "idle", "direct", "post", "reads", "trimmed"}
  BY DEF TrimmedSteps, ResetSteps
<1>2. TodoFresh' /\ ResetIsDone'
  BY <1>0 DEF TodoFresh, ResetIsDone
<1>3. f \in Families /\ hits[f] = {} /\ ~Stacked(f)
  BY <1>0 DEF TodoFresh, ProcedureRecord, StackKept, Stacked
<1>4. Quiet => values[f] = start[f]
  BY <1>0, <1>3 DEF Away
<1>5. BaseKept'
  <2>1. t'.job \in 1..job \union {None}
    BY DEF MachineTypes, JobIds
  <2> QED BY <1>0, <1>1, <1>3, <1>4, <2>1 DEF BaseKept, MachineTypes
<1>6. StackKept'
  BY <1>0, <1>1 DEF StackKept
<1>7. Away'
  <2>2. ASSUME NEW g \in Families PROVE Stacked(g)' <=> Stacked(g)
    BY DEF Stacked
  <2> QED BY <1>0, <1>1, <2>2 DEF Away
<1> QED BY <1>1, <1>2, <1>5, <1>6, <1>7 DEF Kernel

(* A procedure begins: nothing was touched.                                 *)
LEMMA Begins ==
    ASSUME SessionInv, UNCHANGED machineVars, start' = start, t.step = "idle",
           t'.stack = <<>>, t'.todo \subseteq Families, t'.traced = FALSE,
           t'.step \in {"direct", "look", "family"}
    PROVE  Kernel' /\ MachineTypes'
<1> USE DEF SessionInv, machineVars
<1>0. /\ t.step \notin TrimmedSteps \union ResetSteps \union {"over", "post", "reads", "trimmed"}
      /\ t'.step \notin TrimmedSteps \union ResetSteps \union {"over", "post", "reads", "trimmed"}
      /\ ~HasBase'
      /\ t.stack = <<>> /\ Len(<<>>) = 0
  BY DEF TrimmedSteps, ResetSteps, HasBase, Locals, Idle
<1>1. MachineTypes' /\ (Quiet' <=> Quiet)
  BY DEF MachineTypes, Quiet
<1>2. TodoFresh' /\ ResetIsDone' /\ BaseKept'
  BY <1>0 DEF TodoFresh, ResetIsDone, BaseKept
<1>3. StackKept'
  BY <1>0 DEF StackKept
<1>4. Away'
  BY <1>0, <1>1 DEF Away, Stacked
<1> QED BY <1>1, <1>2, <1>3, <1>4 DEF Kernel

(* The printer takes a value of the family under work.                      *)
LEMMA Sends ==
    ASSUME SessionInv, NEW v \in Values, Takes(v), start' = start, Kept, BaseStays, HasBase,
           t'.step \in {"post", "restored"},
           IF t'.step = "post" THEN t.step = "trim" ELSE t.step \in {"exact", "undo"}
    PROVE  Kernel' /\ MachineTypes'
<1> USE DEF SessionInv, Kept, BaseStays
<1>0. /\ t'.step \in TrimmedSteps /\ HasBase' /\ t.step \notin {"post", "reads", "trimmed", "over", "idle", "direct"}
      /\ t'.step \in ResetSteps <=> t.step \in ResetSteps
  BY DEF TrimmedSteps, ResetSteps, HasBase
<1>1. /\ t.fam \in Families /\ job \in 1..MaxJobs /\ values' = [values EXCEPT ![t.fam] = v]
      /\ hits' = [hits EXCEPT ![t.fam] = hits[t.fam] \union {job}]
      /\ UNCHANGED <<job, printing, knobs>>
      /\ values \in [Families -> Values] /\ hits \in [Families -> SUBSET (1..job)]
  BY DEF Takes, BaseKept, MachineTypes
<1>2. /\ values' \in [Families -> Values] /\ hits' \in [Families -> SUBSET (1..job)]
      /\ \A f \in Families \ {t.fam} : values'[f] = values[f] /\ hits'[f] = hits[f]
      /\ hits'[t.fam] = hits[t.fam] \union {job}
  BY <1>1
<1>3. MachineTypes' /\ (Quiet' <=> Quiet)
  BY <1>1, <1>2 DEF MachineTypes, Quiet
<1>4. t.todo \subseteq Families /\ (t'.step = "post" <=> t.fam \in t.todo)
  BY DEF ProcedureRecord, Locals, ResetIsDone, ResetSteps
<1>5. TodoFresh' /\ ResetIsDone'
  BY <1>0, <1>2, <1>4 DEF TodoFresh, ResetIsDone
<1>6. BaseKept'
  BY <1>0, <1>1, <1>2, <1>3 DEF BaseKept
<1>7. ASSUME NEW i \in 1..Len(t.stack) PROVE t.stack[i].fam \in Families \ {t.fam}
  <2>1. t.stack \in Seq(Baselines) /\ t.stack[i] \in Baselines
    BY ElementOfSeq DEF ProcedureRecord
  <2>2. t.stack[i].fam \in Families
    BY <2>1 DEF Baselines
  <2>3. t.stack[i].fam # t.fam
    BY <1>4 DEF StackKept, ResetSteps
  <2> QED BY <2>2, <2>3
<1>8. StackKept'
  BY <1>0, <1>2, <1>3, <1>7 DEF StackKept
<1>9. Away'
  <2>2. ASSUME NEW g \in Families PROVE Stacked(g)' <=> Stacked(g)
    BY DEF Stacked
  <2> QED BY <1>0, <1>2, <1>3, <2>2 DEF Away, TrimmedSteps
<1> QED BY <1>3, <1>5, <1>6, <1>8, <1>9 DEF Kernel

(* A trim goes on the reset stack.                                          *)
Entry == [fam |-> t.fam, base |-> t.base, job |-> t.job]
LEMMA Records ==
    ASSUME SessionInv, UNCHANGED machineVars, start' = start, t.step = "trimmed",
           t'.step \in {"look", "unwind"}, t'.todo = t.todo \ {t.fam},
           t'.step = "look" => t'.mode = "multi", t'.stack = Append(t.stack, Entry)
    PROVE  Kernel' /\ MachineTypes' /\ t'.stack \in Seq(Baselines) /\ Len(t'.stack) = Len(t.stack) + 1
<1> USE DEF SessionInv, machineVars
<1>0. /\ t'.step \notin TrimmedSteps \union ResetSteps \union {"over", "idle", "direct", "post", "reads", "trimmed"}
      /\ ~HasBase' /\ HasBase /\ t.step \notin ResetSteps
  BY DEF TrimmedSteps, ResetSteps, HasBase, SingleModes
<1>1. MachineTypes' /\ (Quiet' <=> Quiet)
  BY DEF MachineTypes, Quiet
<1>2. t.fam \in t.todo /\ t.todo \subseteq Families /\ t.stack \in Seq(Baselines)
  BY DEF Locals, ProcedureRecord
<1>3. /\ t.fam \in Families /\ t.base \in Values /\ t.job \in 1..MaxJobs \union {None} /\ hits[t.fam] # {}
      /\ t.job # None => \A j \in hits[t.fam] : t.job <= j
      /\ Quiet => t.base = start[t.fam]
  <2>1. t.job \in 1..job \union {None} /\ job \in 1..MaxJobs
    BY <1>0 DEF BaseKept, MachineTypes
  <2>2. t.job \in 1..MaxJobs \union {None}
    BY <2>1, SessionConstants
  <2> QED BY <1>0, <2>2 DEF BaseKept
<1>4. Entry \in Baselines /\ Entry.fam = t.fam /\ Entry.base = t.base /\ Entry.job = t.job
  BY <1>3 DEF Baselines, Entry
<1>5. /\ t'.stack \in Seq(Baselines) /\ Len(t'.stack) = Len(t.stack) + 1 /\ Len(t.stack) \in Nat
      /\ \A i \in 1..Len(t.stack) : t'.stack[i] = t.stack[i]
      /\ t'.stack[Len(t.stack) + 1] = Entry
  BY <1>2, <1>4, AppendProperties, LenProperties
<1>6. TodoFresh' /\ ResetIsDone' /\ BaseKept'
  BY <1>0, <1>2 DEF TodoFresh, ResetIsDone, BaseKept
<1>7. ASSUME NEW i \in 1..Len(t'.stack)
      PROVE  \/ i \in 1..Len(t.stack) /\ t'.stack[i] = t.stack[i] /\ t.stack[i].fam # t.fam
             \/ i = Len(t.stack) + 1 /\ t'.stack[i] = Entry
  BY <1>2, <1>5 DEF StackKept
<1>8. StackKept'
  <2> SUFFICES ASSUME NEW i \in 1..Len(t'.stack)
               PROVE  LET e == t'.stack[i] IN
                      /\ hits[e.fam] # {} /\ (e.job # None => \A j \in hits[e.fam] : e.job <= j)
                      /\ e.fam \notin t'.todo
                      /\ \A k \in 1..Len(t'.stack) : k # i => t'.stack[k].fam # e.fam
                      /\ Quiet => e.base = start[e.fam]
    BY <1>0, <1>1 DEF StackKept
  <2>1. CASE i = Len(t.stack) + 1
    BY <1>3, <1>4, <1>5, <1>7, <2>1
  <2>2. CASE i \in 1..Len(t.stack) /\ t'.stack[i] = t.stack[i] /\ t.stack[i].fam # t.fam
    <3>1. \A k \in 1..Len(t'.stack) : k # i => t'.stack[k].fam # t.stack[i].fam
      BY <1>4, <1>7, <2>2 DEF StackKept
    <3> QED BY <2>2, <3>1 DEF StackKept
  <2> QED BY <1>7, <2>1, <2>2
<1>9. Away'
  <2>1. ASSUME NEW g \in Families, g = t.fam PROVE Stacked(g)'
    <3>1. Len(t.stack) + 1 \in 1..Len(t'.stack)
      BY <1>5
    <3> QED BY <1>4, <1>5, <2>1, <3>1 DEF Stacked
  <2>2. ASSUME NEW g \in Families, Stacked(g) PROVE Stacked(g)'
    BY <1>5, <2>2 DEF Stacked
  <2> QED BY <1>0, <1>1, <2>1, <2>2 DEF Away
<1> QED BY <1>1, <1>5, <1>6, <1>8, <1>9 DEF Kernel

(* The last trim comes off the stack to be reset.                           *)
LEMMA TakesOff ==
    ASSUME SessionInv, UNCHANGED machineVars, start' = start, t.step = "unwind",
           t'.step \in {"exact", "second"}, t'.todo = t.todo,
           t'.fam = Last(t.stack).fam, t'.base = Last(t.stack).base, t'.job = Last(t.stack).job,
           t'.stack = Front(t.stack)
    PROVE  Kernel' /\ MachineTypes' /\ t'.stack \in Seq(Baselines) /\ Len(t'.stack) = Len(t.stack) - 1
<1> USE DEF SessionInv, machineVars
<1> DEFINE n == Len(t.stack)
<1>0. /\ t'.step \in TrimmedSteps /\ t'.step \in ResetSteps /\ HasBase'
      /\ t'.step \notin {"over", "idle", "direct", "post", "reads", "trimmed"}
  BY DEF TrimmedSteps, ResetSteps, HasBase
<1>1. MachineTypes' /\ (Quiet' <=> Quiet)
  BY DEF MachineTypes, Quiet
<1>2. t.stack \in Seq(Baselines) /\ t.stack # <<>>
  BY DEF Locals, ProcedureRecord
<1>3. n \in Nat \ {0} /\ Last(t.stack) = t.stack[n] /\ t.stack[n] \in Baselines
  BY <1>2, EmptySeq, ElementOfSeq, LenProperties DEF Last
<1>4. /\ Front(t.stack) \in Seq(Baselines) /\ Len(Front(t.stack)) = n - 1
      /\ \A i \in 1..(n - 1) : Front(t.stack)[i] = t.stack[i]
  BY <1>2, <1>3, SubSeqProperties DEF Front
<1> HIDE DEF n
<1> DEFINE e == t.stack[n]
<1>5. /\ hits[e.fam] # {} /\ (e.job # None => \A j \in hits[e.fam] : e.job <= j)
      /\ e.fam \notin t.todo
      /\ \A k \in 1..n : k # n => t.stack[k].fam # e.fam
      /\ Quiet => e.base = start[e.fam]
      /\ e.fam \in Families /\ e.base \in Values /\ e.job \in 1..MaxJobs \union {None}
  BY <1>3 DEF StackKept, Baselines, n
<1>6. t'.fam = e.fam /\ t'.base = e.base /\ t'.job = e.job /\ t'.stack = Front(t.stack)
  BY <1>3
<1> HIDE DEF e
<1>7. TodoFresh' /\ ResetIsDone'
  BY <1>0, <1>5, <1>6 DEF TodoFresh, ResetIsDone
<1>8. BaseKept'
  <2>1. hits[e.fam] \subseteq 1..job /\ job \in Nat
    BY <1>5 DEF MachineTypes
  <2>2. CASE e.job = None
    BY <1>0, <1>1, <1>5, <1>6, <2>2 DEF BaseKept
  <2>3. CASE e.job # None
    <3>1. e.job \in 1..job
      BY <1>5, <2>1, <2>3, SessionConstants
    <3> QED BY <1>0, <1>1, <1>5, <1>6, <3>1 DEF BaseKept
  <2> QED BY <2>2, <2>3
<1>9. StackKept'
  <2> SUFFICES ASSUME NEW i \in 1..(n - 1)
               PROVE  LET f == t.stack[i] IN
                      /\ hits[f.fam] # {} /\ (f.job # None => \A j \in hits[f.fam] : f.job <= j)
                      /\ f.fam \notin t.todo
                      /\ \A k \in 1..(n - 1) : k # i => t.stack[k].fam # f.fam
                      /\ e.fam # f.fam
                      /\ Quiet => f.base = start[f.fam]
    BY <1>0, <1>1, <1>4, <1>6 DEF StackKept
  <2>1. i \in 1..n /\ i # n /\ 1..(n - 1) \subseteq 1..n
    BY <1>3
  <2> QED BY <1>5, <2>1 DEF StackKept, n
<1>10. Away'
  <2>1. ASSUME NEW g \in Families, g # e.fam, Stacked(g) PROVE Stacked(g)'
    <3>1. PICK i \in 1..n : t.stack[i].fam = g
      BY <2>1 DEF Stacked, n
    <3>2. i \in 1..(n - 1)
      BY <1>3, <2>1, <3>1 DEF e
    <3> QED BY <1>4, <1>6, <3>1, <3>2 DEF Stacked
  <2>2. t.step \notin TrimmedSteps
    BY DEF TrimmedSteps
  <2> QED BY <1>0, <1>1, <1>6, <2>1, <2>2 DEF Away
<1> QED BY <1>1, <1>4, <1>6, <1>7, <1>8, <1>9, <1>10 DEF Kernel, n

-----------------------------------------------------------------------------
(* The steps of the tool, phase by phase.                                   *)

(* A send keeps the types of the machine.                                   *)
LEMMA Sent ==
    ASSUME MachineTypes, NEW v \in Values, t.fam \in Families, Takes(v), start' \in {start, None}
    PROVE  MachineTypes'
<1>1. /\ values' = [values EXCEPT ![t.fam] = v] /\ UNCHANGED <<job, printing, knobs>>
      /\ hits' = [hits EXCEPT ![t.fam] = hits[t.fam] \union {job}]
      /\ values \in [Families -> Values] /\ hits \in [Families -> SUBSET (1..job)]
      /\ job \in 1..MaxJobs /\ printing \in BOOLEAN /\ knobs \in 0..MaxKnobs
      /\ start \in [Families -> Values] \union {None}
  BY DEF Takes, MachineTypes
<1>2. values' \in [Families -> Values] /\ hits' \in [Families -> SUBSET (1..job)]
  BY <1>1
<1> QED BY <1>1, <1>2 DEF MachineTypes

(* Nothing is sent: the same.                                               *)
LEMMA NotSent ==
    ASSUME MachineTypes, UNCHANGED machineVars, start' \in {start, None}
    PROVE  MachineTypes'
BY DEF MachineTypes, machineVars

(* Endings without success.                                                 *)
LEMMA Ended ==
    ASSUME SessionInv, NEW o \in {"raised", "suppressed"}, EndsAs(o), start' \in {start, None}
    PROVE  SessionInv'
<1>1. t' = Over(o) /\ UNCHANGED machineVars /\ o \in Outcomes \ {"none"} /\ o # "executed"
  BY DEF EndsAs, Outcomes
<1> QED BY <1>1, NotSent, OverKeeps DEF SessionInv

(* The direct commands and the beginnings.                                  *)
LEMMA BeginKeeps ==
    ASSUME SessionInv, DirectReads \/ DirectSends \/ BeginSingle \/ BeginMulti \/ BeginManaged
    PROVE  SessionInv'
<1>0. ProcedureRecord /\ MachineTypes /\ Locals
  BY DEF SessionInv
<1>1. CASE DirectReads
  <2>1. PICK f \in Families, delta \in SingleDeltas :
          t' = [t EXCEPT !.step = "direct", !.fam = f, !.target = Clamp(values[f] + delta)]
    BY <1>1 DEF DirectReads
  <2>2. t.step = "idle" /\ t = Idle /\ UNCHANGED machineVars /\ start' = start
    BY <1>0, <1>1 DEF DirectReads, Quietly, Locals
  <2>3. Clamp(values[f] + delta) \in Values
    <3>1. values[f] \in Int /\ delta \in Int
      BY <1>0, SessionNumbers DEF MachineTypes, SingleDeltas
    <3> QED BY <3>1, SessionNumbers
  <2>4. ProcedureRecord'
    BY <2>1, <2>2, <2>3, <1>0 DEF ProcedureRecord, ProcedureFields, Idle, Steps
  <2>5. /\ t'.stack = <<>> /\ t'.todo = {} /\ t'.traced = FALSE /\ t'.step = "direct" /\ t'.mode = "direct"
        /\ t'.fam = f /\ t'.target = Clamp(values[f] + delta)
    BY <2>1, <2>2 DEF Idle
  <2>6. Locals'
    BY <2>3, <2>5 DEF Locals, ResetSteps, SingleModes, HasBase, TrimmedSteps
  <2> QED BY <2>2, <2>4, <2>5, <2>6, Begins, GoesOn
<1>2. CASE DirectSends
  <2>1. t.step = "direct" /\ t' = Over("executed") /\ start' = start /\ (Takes(t.target) \/ NothingSent)
    BY <1>2 DEF DirectSends, Quietly
  <2>2. t.fam \in Families /\ t.target \in Values /\ t.mode = "direct"
    BY <1>0, <2>1 DEF Locals
  <2>3. MachineTypes'
    BY <1>0, <2>1, <2>2, Sent, NotSent DEF NothingSent
  <2> QED BY <2>1, <2>2, <2>3, OverKeeps DEF Outcomes
<1>3. CASE BeginSingle
  <2>1. PICK f \in Families, mode \in {"once", "session"} :
          t' = [t EXCEPT !.mode = mode, !.step = "look", !.todo = {f}]
    BY <1>3 DEF BeginSingle
  <2>2. t.step = "idle" /\ t = Idle /\ UNCHANGED machineVars /\ start' = start
    BY <1>0, <1>3 DEF BeginSingle, Quietly, Locals
  <2>4. ProcedureRecord'
    BY <2>1, <2>2, <1>0 DEF ProcedureRecord, ProcedureFields, Idle, Steps, Modes
  <2>5. /\ t'.stack = <<>> /\ t'.todo = {f} /\ t'.traced = FALSE /\ t'.step = "look" /\ t'.mode = mode
    BY <2>1, <2>2 DEF Idle
  <2>6. Locals'
    BY <2>5 DEF Locals, ResetSteps, SingleModes, HasBase, TrimmedSteps
  <2> QED BY <2>2, <2>4, <2>5, <2>6, Begins, GoesOn
<1>4. CASE BeginMulti
  <2>2. t.step = "idle" /\ t = Idle /\ start' = start
    BY <1>0, <1>4 DEF BeginMulti, Quietly, Locals
  <2>1. CASE EndsAs("raised")
    BY <2>1, <2>2, Ended
  <2>3. CASE UNCHANGED machineVars /\ ~EndsAs("raised")
    <3>1. PICK s \in MultiSets : t' = [t EXCEPT !.mode = "multi", !.step = "look", !.todo = s]
      BY <1>4, <2>3 DEF BeginMulti
    <3>2. s \subseteq Families
      BY DEF MultiSets
    <3>4. ProcedureRecord'
      BY <3>1, <3>2, <2>2, <1>0 DEF ProcedureRecord, ProcedureFields, Idle, Steps, Modes
    <3>5. /\ t'.stack = <<>> /\ t'.todo = s /\ t'.traced = FALSE /\ t'.step = "look" /\ t'.mode = "multi"
      BY <3>1, <2>2 DEF Idle
    <3>6. Locals'
      BY <3>5 DEF Locals, ResetSteps, SingleModes, HasBase, TrimmedSteps
    <3> QED BY <2>2, <2>3, <3>2, <3>4, <3>5, <3>6, Begins, GoesOn
  <2> QED BY <1>4, <2>1, <2>3 DEF BeginMulti
<1>5. CASE BeginManaged
  <2>2. t.step = "idle" /\ t = Idle /\ UNCHANGED machineVars /\ start' = start
    BY <1>0, <1>5 DEF BeginManaged, Quietly, Locals
  <2>1. t' = [t EXCEPT !.mode = "managed", !.step = "family", !.todo = Families]
    BY <1>5 DEF BeginManaged
  <2>4. ProcedureRecord'
    BY <2>1, <2>2, <1>0 DEF ProcedureRecord, ProcedureFields, Idle, Steps, Modes
  <2>5. /\ t'.stack = <<>> /\ t'.todo = Families /\ t'.traced = FALSE /\ t'.step = "family" /\ t'.mode = "managed"
    BY <2>1, <2>2 DEF Idle
  <2>6. Locals'
    BY <2>5 DEF Locals, ResetSteps, SingleModes, HasBase, TrimmedSteps
  <2> QED BY <2>2, <2>4, <2>5, <2>6, Begins, GoesOn
<1> QED BY <1>1, <1>2, <1>3, <1>4, <1>5

(* The planning: looks, baselines, suppressions and choices.                *)
LEMMA PlanKeeps ==
    ASSUME SessionInv, PlanStep
    PROVE  SessionInv'
<1>0. ProcedureRecord /\ MachineTypes /\ Locals
  BY DEF SessionInv
<1>1. CASE Look
  <2>1. /\ t.step = "look" /\ UNCHANGED machineVars /\ start' = start
        /\ t' = [t EXCEPT !.world = values,
                      !.step = IF t.mode = "multi" \/ t.traced THEN "gate" ELSE "pre"]
    BY <1>1 DEF Look, Quietly
  <2>2. /\ Kept /\ BaseStays /\ t'.world = values /\ t'.traced = t.traced /\ t'.step \in {"gate", "pre"}
        /\ t'.step = "gate" <=> t.mode = "multi" \/ t.traced
    BY <2>1, <1>0 DEF Kept, BaseStays, ProcedureRecord, ProcedureFields
  <2>3. ProcedureRecord'
    BY <2>1, <2>2, <1>0 DEF ProcedureRecord, ProcedureFields, Steps, MachineTypes, JobIds
  <2>4. t.mode \in {"once", "session", "multi"}
    BY <1>0, <2>1 DEF Locals
  <2>5. HasBase' => HasBase
    BY <2>1, <2>2, <2>4 DEF HasBase, TrimmedSteps, SingleModes
  <2>6. Locals'
    BY <1>0, <2>1, <2>2, <2>4, <2>5 DEF Locals, ResetSteps, SingleModes, TrimmedSteps, Kept, BaseStays, MachineTypes
  <2>7. Kernel' /\ MachineTypes'
    BY <2>1, <2>2, <2>5, ReadsOn DEF TrimmedSteps, ResetSteps
  <2> QED BY <2>2, <2>3, <2>6, <2>7, GoesOn
<1>2. CASE ReadBaseline
  <2>1. PICK f \in t.todo, id \in JobIds :
          t' = [t EXCEPT !.step = "gate", !.fam = f, !.base = values[f], !.job = id]
    BY <1>2 DEF ReadBaseline
  <2>2. t.step = "pre" /\ UNCHANGED machineVars /\ start' = start /\ f \in Families
    BY <1>2, <1>0 DEF ReadBaseline, Quietly, ProcedureRecord
  <2>3. /\ Kept /\ t'.fam = f /\ t'.base = values[f] /\ t'.job = id /\ t'.step = "gate"
        /\ t'.world = t.world
    BY <2>1, <1>0 DEF Kept, ProcedureRecord, ProcedureFields
  <2>4. ProcedureRecord'
    BY <2>1, <2>2, <2>3, <1>0 DEF ProcedureRecord, ProcedureFields, Steps, MachineTypes, JobIds
  <2>5. t.mode \in SingleModes /\ t.todo = {f}
    BY <1>0, <2>2 DEF Locals, SingleModes, ResetSteps
  <2>6. Locals'
    BY <1>0, <2>2, <2>3, <2>5 DEF Locals, ResetSteps, SingleModes, TrimmedSteps, Kept
  <2>7. Kernel' /\ MachineTypes'
    BY <2>2, <2>3, BaseRead
  <2> QED BY <2>3, <2>4, <2>6, <2>7, GoesOn
<1>3. CASE Suppressed
  <2>1. t.step = "gate" /\ start' = None
    BY <1>3 DEF Suppressed
  <2>2. ASSUME NEW o \in {"raised", "suppressed"}, EndsAs(o) PROVE SessionInv'
    BY <2>1, <2>2, Ended
  <2>3. CASE t' = [t EXCEPT !.step = "look", !.traced = TRUE] /\ UNCHANGED machineVars
    <3>1. Kept /\ BaseStays /\ t'.step = "look" /\ t'.traced = TRUE
      BY <2>3, <1>0 DEF Kept, BaseStays, ProcedureRecord, ProcedureFields
    <3>2. ProcedureRecord'
      BY <2>1, <2>3, <1>0 DEF ProcedureRecord, ProcedureFields, Steps
    <3>3. HasBase' => HasBase
      BY <2>1, <3>1 DEF HasBase, Kept, TrimmedSteps
    <3>4. Locals'
      BY <1>0, <2>1, <3>1, <3>3 DEF Locals, ResetSteps, SingleModes, Kept, BaseStays
    <3>5. Kernel' /\ MachineTypes'
      BY <2>1, <2>3, <3>1, <3>3, ReadsOn DEF TrimmedSteps, ResetSteps
    <3> QED BY <3>1, <3>2, <3>4, <3>5, GoesOn
  <2> QED BY <1>3, <2>2, <2>3 DEF Suppressed
<1>4. CASE PlanChosen
  <2>1. PICK c \in PlanChoices :
          t' = [t EXCEPT !.fam = c[1], !.target = Clamp(t.world[c[1]] + c[2]),
                       !.traced = FALSE, !.world = None,
                       !.step = IF t.mode = "multi" THEN "prestep" ELSE "trim"]
    BY <1>4 DEF PlanChosen
  <2>2. t.step = "gate" /\ UNCHANGED machineVars /\ start' = start
    BY <1>4 DEF PlanChosen, Quietly
  <2>3. c[1] \in t.todo /\ c[2] \in Int /\ c[1] \in Families
    <3>1. c \in t.todo \X SingleDeltas
      BY DEF PlanChoices, SingleDeltas
    <3>2. c[1] \in t.todo /\ c[2] \in SingleDeltas
      BY <3>1
    <3>3. \A d \in SingleDeltas : d \in Int
      BY SessionNumbers DEF SingleDeltas
    <3> QED BY <1>0, <3>2, <3>3 DEF ProcedureRecord
  <2>4. Clamp(t.world[c[1]] + c[2]) \in Values
    <3>1. t.world[c[1]] \in Values
      BY <1>0, <2>2, <2>3 DEF Locals
    <3> QED BY <3>1, <2>3, SessionNumbers
  <2>5. /\ Kept /\ t'.fam = c[1] /\ t'.base = t.base /\ t'.job = t.job
        /\ t'.target = Clamp(t.world[c[1]] + c[2])
        /\ t'.step = (IF t.mode = "multi" THEN "prestep" ELSE "trim")
    BY <2>1, <1>0 DEF Kept, ProcedureRecord, ProcedureFields
  <2>6. ProcedureRecord'
    BY <2>1, <2>2, <2>3, <2>4, <1>0 DEF ProcedureRecord, ProcedureFields, Steps
  <2>7. t.mode \in {"once", "session", "multi"}
    BY <1>0, <2>2 DEF Locals
  <2>8. HasBase' => HasBase /\ BaseStays
    <3>1. CASE t.mode = "multi"
      BY <3>1, <2>5 DEF HasBase, Kept, TrimmedSteps, SingleModes
    <3>2. CASE t.mode \in SingleModes
      <4>1. HasBase
        BY <3>2, <2>2 DEF HasBase
      <4>2. t.todo = {t.fam}
        BY <1>0, <2>2, <3>2, <4>1 DEF Locals, ResetSteps
      <4> QED BY <4>1, <4>2, <2>3, <2>5 DEF BaseStays
    <3> QED BY <3>1, <3>2, <2>7 DEF SingleModes
  <2>9. Locals'
    <3>1. CASE t.mode = "multi"
      BY <1>0, <2>2, <2>3, <2>4, <2>5, <3>1 DEF Locals, ResetSteps, SingleModes, Kept, TrimmedSteps
    <3>2. CASE t.mode \in SingleModes
      <4>1. HasBase
        BY <3>2, <2>2 DEF HasBase
      <4>2. t.todo = {t.fam} /\ t'.todo = {t'.fam}
        BY <1>0, <2>2, <2>3, <2>5, <3>2, <4>1 DEF Locals, ResetSteps, Kept
      <4> QED BY <1>0, <2>2, <2>3, <2>4, <2>5, <3>2, <4>2 DEF Locals, ResetSteps, SingleModes, Kept, TrimmedSteps
    <3> QED BY <3>1, <3>2, <2>7 DEF SingleModes
  <2>10. Kernel' /\ MachineTypes'
    BY <2>2, <2>5, <2>8, ReadsOn DEF TrimmedSteps, ResetSteps
  <2>11. t'.step # "over"
    BY <2>5
  <2> QED BY <2>6, <2>9, <2>10, <2>11, GoesOn
<1>5. CASE PlanOutside
  BY <1>5, Ended DEF PlanOutside
<1>6. CASE ReadStepBaseline
  <2>1. PICK id \in JobIds :
        /\ t.step = "prestep" /\ UNCHANGED machineVars /\ start' = start
        /\ t' = [t EXCEPT !.step = "trim", !.base = values[t.fam], !.job = id]
    BY <1>6 DEF ReadStepBaseline, Quietly
  <2>2. t.mode = "multi" /\ t.fam \in t.todo /\ t.fam \in Families
    BY <1>0, <2>1 DEF Locals, ProcedureRecord
  <2>3. /\ Kept /\ t'.fam = t.fam /\ t'.base = values[t.fam] /\ t'.job = id /\ t'.step = "trim"
        /\ t'.target = t.target
    BY <2>1, <1>0 DEF Kept, ProcedureRecord, ProcedureFields
  <2>4. ProcedureRecord'
    BY <2>1, <2>2, <2>3, <1>0 DEF ProcedureRecord, ProcedureFields, Steps, MachineTypes, JobIds
  <2>6. Locals'
    BY <1>0, <2>1, <2>2, <2>3 DEF Locals, ResetSteps, SingleModes, TrimmedSteps, Kept
  <2>7. Kernel' /\ MachineTypes'
    BY <2>1, <2>2, <2>3, BaseRead
  <2> QED BY <2>3, <2>4, <2>6, <2>7, GoesOn
<1> QED BY <1>1, <1>2, <1>3, <1>4, <1>5, <1>6 DEF PlanStep

(* A family of the proof: taken up, and published with its target.          *)
LEMMA ProofKeeps ==
    ASSUME SessionInv, ProofStep
    PROVE  SessionInv'
<1>0. ProcedureRecord /\ MachineTypes /\ Locals
  BY DEF SessionInv
<1>1. CASE ProofBegins
  <2>1. t.step = "family" /\ start' = start /\ t.mode = "managed"
    BY <1>1, <1>0 DEF ProofBegins, Quietly, Locals
  <2>2. CASE EndsAs("raised")
    BY <2>1, <2>2, Ended
  <2>3. CASE ~EndsAs("raised")
    <3>1. PICK f \in t.todo, id \in JobIds :
            /\ t' = [t EXCEPT !.step = "publish", !.fam = f, !.base = values[f], !.job = id]
            /\ UNCHANGED machineVars
      BY <1>1, <2>3 DEF ProofBegins
    <3>2. f \in Families
      BY <1>0 DEF ProcedureRecord
    <3>3. Kept /\ t'.fam = f /\ t'.base = values[f] /\ t'.job = id /\ t'.step = "publish"
      BY <3>1, <1>0 DEF Kept, ProcedureRecord, ProcedureFields
    <3>4. ProcedureRecord'
      BY <2>1, <3>1, <3>2, <3>3, <1>0 DEF ProcedureRecord, ProcedureFields, Steps, MachineTypes, JobIds
    <3>6. Locals'
      BY <1>0, <2>1, <3>2, <3>3 DEF Locals, ResetSteps, SingleModes, TrimmedSteps, Kept
    <3>7. Kernel' /\ MachineTypes'
      BY <2>1, <3>1, <3>3, BaseRead
    <3> QED BY <3>3, <3>4, <3>6, <3>7, GoesOn
  <2> QED BY <2>2, <2>3
<1>2. CASE ProofPublishes
  <2> DEFINE v == Clamp(values[t.fam] + SpecDelta(t.fam))
  <2>1. /\ t.step = "publish" /\ start' = start
        /\ IF v = values[t.fam] THEN EndsAs("raised")
           ELSE t' = [t EXCEPT !.step = "trim", !.target = v] /\ UNCHANGED machineVars
    BY <1>2 DEF ProofPublishes, Quietly
  <2>2. t.mode = "managed" /\ t.fam \in t.todo /\ t.fam \in Families
    BY <1>0, <2>1 DEF Locals, ProcedureRecord
  <2>3. v \in Values
    <3>1. values[t.fam] \in Int /\ SpecDelta(t.fam) \in Int
      BY <1>0, <2>2, SessionNumbers DEF MachineTypes, SpecDelta
    <3> QED BY <3>1, SessionNumbers
  <2> HIDE DEF v
  <2>4. CASE EndsAs("raised")
    BY <2>1, <2>4, Ended
  <2>5. CASE t' = [t EXCEPT !.step = "trim", !.target = v] /\ UNCHANGED machineVars
    <3>1. Kept /\ BaseStays /\ t'.step = "trim" /\ t'.target = v
      BY <2>5, <1>0 DEF Kept, BaseStays, ProcedureRecord, ProcedureFields
    <3>2. ProcedureRecord'
      BY <2>1, <2>3, <2>5, <1>0 DEF ProcedureRecord, ProcedureFields, Steps
    <3>3. HasBase
      BY <2>1 DEF HasBase
    <3>4. Locals'
      BY <1>0, <2>1, <2>2, <2>3, <3>1 DEF Locals, ResetSteps, SingleModes, TrimmedSteps, Kept, BaseStays
    <3>5. Kernel' /\ MachineTypes'
      BY <2>1, <2>5, <3>1, <3>3, ReadsOn DEF TrimmedSteps, ResetSteps
    <3> QED BY <3>1, <3>2, <3>4, <3>5, GoesOn
  <2> QED BY <2>1, <2>4, <2>5
<1> QED BY <1>1, <1>2 DEF ProofStep

(* The trim, its reads and its entry on the reset stack.                    *)
LEMMA TrimKeeps ==
    ASSUME SessionInv, TrimStep
    PROVE  SessionInv'
<1>0. ProcedureRecord /\ MachineTypes /\ Locals
  BY DEF SessionInv
<1>1. CASE Trims
  <2>1. t.step = "trim" /\ Takes(t.target) /\ start' = start
    BY <1>1 DEF Trims, Quietly
  <2>2. t.target \in Values /\ t.fam \in t.todo /\ t.fam \in Families /\ t.mode # "direct"
    BY <1>0, <2>1 DEF Locals, ProcedureRecord
  <2>3. CASE t.mode = "once"
    <3>1. t' = Over("executed") /\ MachineTypes'
      BY <1>0, <1>1, <2>1, <2>2, <2>3, Sent DEF Trims
    <3> QED BY <2>3, <3>1, OverKeeps DEF Outcomes
  <2>4. CASE t.mode # "once"
    <3>1. t' = [t EXCEPT !.step = "post", !.target = None, !.lease = (t.mode # "managed")]
      BY <1>1, <2>4 DEF Trims
    <3>2. Kept /\ BaseStays /\ t'.step = "post"
      BY <3>1, <1>0 DEF Kept, BaseStays, ProcedureRecord, ProcedureFields
    <3>3. ProcedureRecord'
      BY <2>1, <3>1, <1>0 DEF ProcedureRecord, ProcedureFields, Steps
    <3>4. HasBase
      BY <2>1 DEF HasBase
    <3>5. Locals'
      BY <1>0, <2>1, <2>2, <2>4, <3>2, <3>4 DEF Locals, ResetSteps, SingleModes, TrimmedSteps, Kept, BaseStays
    <3>6. Kernel' /\ MachineTypes'
      BY <2>1, <2>2, <3>2, <3>4, Sends
    <3> QED BY <3>2, <3>3, <3>5, <3>6, GoesOn
  <2> QED BY <2>3, <2>4
<1>2. CASE TrimFails
  <2>1. /\ t.step = "trim" /\ start' = None /\ (Takes(t.target) \/ NothingSent)
        /\ t' = Over(IF t.mode = "once" THEN "executed" ELSE "raised")
    BY <1>2 DEF TrimFails
  <2>2. t.target \in Values /\ t.fam \in Families
    BY <1>0, <2>1 DEF Locals, ProcedureRecord
  <2>3. MachineTypes'
    BY <1>0, <2>1, <2>2, Sent, NotSent DEF NothingSent
  <2> DEFINE o == IF t.mode = "once" THEN "executed" ELSE "raised"
  <2>4. o \in Outcomes \ {"none"} /\ t' = Over(o) /\ ~Quiet'
    BY <2>1 DEF Outcomes, Quiet
  <2> HIDE DEF o
  <2> QED BY <2>3, <2>4, OverKeeps
<1>3. CASE PostState
  <2>1. t.step = "post" /\ start' = start
    BY <1>3 DEF PostState, Quietly
  <2>2. HasBase /\ t.fam \in Families /\ t.fam \in t.todo
    BY <1>0, <2>1 DEF HasBase, TrimmedSteps, Locals, ProcedureRecord
  <2>3. CASE EndsAs("raised")
    BY <2>1, <2>3, Ended
  <2>4. CASE ~EndsAs("raised")
    <3>1. /\ t' = [t EXCEPT !.step = "reads", !.trimmed = values[t.fam], !.reads = Reads]
          /\ UNCHANGED machineVars
      BY <1>3, <2>4 DEF PostState
    <3>2. Kept /\ BaseStays /\ t'.step = "reads" /\ t'.trimmed = values[t.fam] /\ values[t.fam] \in Values
      BY <3>1, <2>2, <1>0 DEF Kept, BaseStays, ProcedureRecord, ProcedureFields, MachineTypes
    <3>3. ProcedureRecord'
      BY <2>1, <3>1, <3>2, <1>0, SessionNumbers DEF ProcedureRecord, ProcedureFields, Steps
    <3>5. Locals'
      BY <1>0, <2>1, <2>2, <3>2 DEF Locals, ResetSteps, SingleModes, TrimmedSteps, Kept, BaseStays
    <3>6. Kernel' /\ MachineTypes'
      BY <2>1, <2>2, <3>1, <3>2, ReadsOn DEF TrimmedSteps, ResetSteps, BaseStays
    <3> QED BY <3>2, <3>3, <3>5, <3>6, GoesOn
  <2> QED BY <2>3, <2>4
<1>4. CASE RepeatRead
  <2>1. t.step = "reads" /\ start' = start
    BY <1>4 DEF RepeatRead, Quietly
  <2>2. HasBase /\ t.fam \in Families /\ t.fam \in t.todo
    BY <1>0, <2>1 DEF HasBase, TrimmedSteps, Locals, ProcedureRecord
  <2>3. CASE EndsAs("raised")
    BY <2>1, <2>3, Ended
  <2>4. CASE ~EndsAs("raised") /\ t.reads > 1
    <3>1. t' = [t EXCEPT !.reads = t.reads - 1] /\ UNCHANGED machineVars
      BY <1>4, <2>4 DEF RepeatRead
    <3>2. Kept /\ BaseStays /\ t'.step = "reads" /\ t'.trimmed = t.trimmed
      BY <3>1, <2>1, <1>0 DEF Kept, BaseStays, ProcedureRecord, ProcedureFields
    <3>7. t.reads - 1 \in 0..Reads
      BY <2>4, <1>0, SessionConstants DEF ProcedureRecord
    <3>3. ProcedureRecord'
      BY <2>1, <3>1, <3>2, <3>7, <1>0 DEF ProcedureRecord, ProcedureFields, Steps
    <3>5. Locals'
      BY <1>0, <2>1, <2>2, <3>2 DEF Locals, ResetSteps, SingleModes, TrimmedSteps, Kept, BaseStays
    <3>6. Kernel' /\ MachineTypes'
      BY <2>1, <2>2, <3>1, <3>2, ReadsOn DEF TrimmedSteps, ResetSteps, BaseStays
    <3> QED BY <3>2, <3>3, <3>5, <3>6, GoesOn
  <2>5. CASE ~EndsAs("raised") /\ ~(t.reads > 1)
    <3>1. t' = [t EXCEPT !.step = "trimmed", !.reads = 0] /\ UNCHANGED machineVars
      BY <1>4, <2>5 DEF RepeatRead
    <3>2. Kept /\ BaseStays /\ t'.step = "trimmed" /\ t'.trimmed = t.trimmed
      BY <3>1, <2>1, <1>0 DEF Kept, BaseStays, ProcedureRecord, ProcedureFields
    <3>3. ProcedureRecord'
      BY <2>1, <3>1, <3>2, <1>0, SessionNumbers DEF ProcedureRecord, ProcedureFields, Steps
    <3>5. Locals'
      BY <1>0, <2>1, <2>2, <3>2 DEF Locals, ResetSteps, SingleModes, TrimmedSteps, Kept, BaseStays
    <3>6. Kernel' /\ MachineTypes'
      BY <2>1, <2>2, <3>1, <3>2, ReadsOn DEF TrimmedSteps, ResetSteps, BaseStays
    <3> QED BY <3>2, <3>3, <3>5, <3>6, GoesOn
  <2> QED BY <2>3, <2>4, <2>5
<1>5. CASE Recorded
  <2> DEFINE rest == t.todo \ {t.fam}
  <2>1. t.step = "trimmed" /\ start' = start
    BY <1>5 DEF Recorded, Quietly
  <2>2. t.fam \in t.todo /\ t.fam \in Families /\ t.mode # "once" /\ t.mode # "direct" /\ HasBase
    BY <1>0, <2>1 DEF Locals, ProcedureRecord, HasBase, TrimmedSteps
  <2>3. CASE EndsAs("raised")
    BY <2>1, <2>3, Ended
  <2>4. CASE ~EndsAs("raised")
    <3>1. /\ t' = [t EXCEPT
                !.stack = Append(t.stack, Entry),
                !.todo = rest,
                !.step = IF t.mode = "multi" /\ rest # {} THEN "look" ELSE "unwind"]
          /\ UNCHANGED machineVars
      BY <1>5, <2>4 DEF Recorded, Entry
    <3>2. /\ t'.stack = Append(t.stack, Entry) /\ t'.todo = rest /\ t'.mode = t.mode /\ t'.over = t.over
          /\ t'.step = (IF t.mode = "multi" /\ rest # {} THEN "look" ELSE "unwind")
          /\ t'.traced = t.traced /\ BaseStays
      BY <3>1, <1>0 DEF BaseStays, ProcedureRecord, ProcedureFields
    <3>3. Kernel' /\ MachineTypes' /\ t'.stack \in Seq(Baselines) /\ Len(t'.stack) = Len(t.stack) + 1
      BY <2>1, <3>1, <3>2, Records
    <3>4. ProcedureRecord'
      BY <2>1, <3>1, <3>2, <3>3, <1>0 DEF ProcedureRecord, ProcedureFields, Steps
    <3>5. Len(t.stack) \in Nat /\ (t.mode # "multi" => t.stack = <<>> /\ Len(t.stack) = 0)
      BY <1>0, <2>1, LenProperties DEF ProcedureRecord, Locals
    <3>6. t'.stack # <<>> /\ (t.mode # "multi" => Len(t'.stack) = 1)
      BY <3>3, <3>5
    <3>7. (t.mode = "session" => rest = {}) /\ t.mode \in {"session", "multi", "managed"}
      BY <1>0, <2>1, <2>2 DEF Locals, SingleModes, ResetSteps, ProcedureRecord, Modes
    <3>8. Locals'
      BY <1>0, <2>1, <2>2, <3>2, <3>6, <3>7 DEF Locals, ResetSteps, SingleModes, TrimmedSteps, HasBase
    <3>9. t'.step # "over"
      BY <3>2
    <3> QED BY <3>3, <3>4, <3>8, <3>9, GoesOn
  <2> QED BY <2>3, <2>4
<1> QED BY <1>1, <1>2, <1>3, <1>4, <1>5 DEF TrimStep

(* A verified reset with nothing left restores the whole printer, while     *)
(* nobody else touches it.                                                  *)
LEMMA AllRestored ==
    ASSUME SessionInv, t.stack = <<>>, t.step \notin TrimmedSteps \union {"over"}, Quiet
    PROVE  values = start
<1>1. values \in [Families -> Values] /\ start \in [Families -> Values]
  BY DEF SessionInv, MachineTypes, Quiet
<1>2. ASSUME NEW f \in Families PROVE values[f] = start[f]
  BY DEF SessionInv, Away, Stacked
<1> QED BY <1>1, <1>2

(* The resets, their checks and what follows them.                          *)
LEMMA ResetKeeps ==
    ASSUME SessionInv, ResetStep
    PROVE  SessionInv'
<1>0. ProcedureRecord /\ MachineTypes /\ Locals /\ BaseKept
  BY DEF SessionInv
<1>1. CASE TakeReset
  <2> DEFINE e == Last(t.stack)
  <2>1. /\ t.step = "unwind" /\ start' = start /\ UNCHANGED machineVars
        /\ t' = [t EXCEPT !.stack = Front(t.stack), !.fam = e.fam, !.base = e.base, !.job = e.job,
                      !.step = IF t.mode = "multi" /\ e.fam \in Temps THEN "exact" ELSE "second"]
    BY <1>1 DEF TakeReset, Quietly
  <2>2. e \in Baselines /\ t.stack \in Seq(Baselines) /\ Len(t.stack) \in Nat \ {0}
    <3>1. t.stack \in Seq(Baselines) /\ t.stack # <<>>
      BY <1>0, <2>1 DEF Locals, ProcedureRecord
    <3>2. Len(t.stack) \in Nat \ {0}
      BY <3>1, EmptySeq, LenProperties
    <3>3. Last(t.stack) = t.stack[Len(t.stack)]
      BY DEF Last
    <3>4. Len(t.stack) \in 1..Len(t.stack)
      BY <3>2
    <3>5. t.stack[Len(t.stack)] \in Baselines
      BY <3>1, <3>4, ElementOfSeq
    <3> QED BY <3>1, <3>2, <3>3, <3>5
  <2>3. /\ t'.stack = Front(t.stack) /\ t'.fam = e.fam /\ t'.base = e.base /\ t'.job = e.job
        /\ t'.todo = t.todo /\ t'.mode = t.mode /\ t'.over = t.over
        /\ t'.step \in {"exact", "second"}
    BY <2>1, <1>0 DEF ProcedureRecord, ProcedureFields
  <2>4. Kernel' /\ MachineTypes' /\ t'.stack \in Seq(Baselines) /\ Len(t'.stack) = Len(t.stack) - 1
    BY <2>1, <2>3, TakesOff
  <2>5. e.fam \in Families /\ e.base \in Values /\ e.job \in 1..MaxJobs \union {None}
    BY <2>2 DEF Baselines
  <2> HIDE DEF e
  <2>6. ProcedureRecord'
    BY <2>1, <2>3, <2>4, <2>5, <1>0 DEF ProcedureRecord, ProcedureFields, Steps
  <2>7. t.mode # "multi" => t'.stack = <<>>
    <3>1. t.mode # "multi" => Len(t.stack) = 1
      BY <1>0, <2>1 DEF Locals
    <3>2. t.mode # "multi" => Len(t'.stack) = 0
      BY <2>4, <3>1
    <3> QED BY <2>4, <3>2, EmptySeq
  <2>8. Locals'
    BY <1>0, <2>1, <2>3, <2>7 DEF Locals, ResetSteps, SingleModes, TrimmedSteps
  <2>9. t'.step # "over"
    BY <2>3
  <2> QED BY <2>4, <2>6, <2>8, <2>9, GoesOn
<1>2. CASE ExactRestore
  <2>1. /\ t.step = "exact" /\ start' = start /\ Takes(Clamp(t.base))
        /\ t' = [t EXCEPT !.step = "restored", !.trimmed = None]
    BY <1>2 DEF ExactRestore, Quietly
  <2>2. HasBase /\ t.fam \in Families /\ Clamp(t.base) \in Values
    BY <1>0, <2>1, SessionNumbers DEF HasBase, TrimmedSteps, BaseKept
  <2>3. Kept /\ BaseStays /\ t'.step = "restored"
    BY <2>1, <1>0 DEF Kept, BaseStays, ProcedureRecord, ProcedureFields
  <2>4. ProcedureRecord'
    BY <2>1, <1>0 DEF ProcedureRecord, ProcedureFields, Steps
  <2>5. Locals'
    BY <1>0, <2>1, <2>3 DEF Locals, ResetSteps, SingleModes, TrimmedSteps, Kept, BaseStays
  <2>6. Kernel' /\ MachineTypes'
    BY <2>1, <2>2, <2>3, Sends
  <2> QED BY <2>3, <2>4, <2>5, <2>6, GoesOn
<1>3. CASE SecondEngineRefused
  BY <1>3, Ended DEF SecondEngineRefused, Quietly
<1>4. CASE SecondEngineLooks
  <2>1. t.step = "second" /\ start' = start
    BY <1>4 DEF SecondEngineLooks, Quietly
  <2>2. HasBase /\ t.fam \in Families
    BY <1>0, <2>1 DEF HasBase, TrimmedSteps, BaseKept
  <2>3. ResetTarget \in Values
    <3>1. values[t.fam] \in Int /\ Small \in Int /\ -Small \in Int
      BY <1>0, <2>2, SessionNumbers DEF MachineTypes
    <3>2. Clamp(values[t.fam] + Small) \in Values /\ Clamp(values[t.fam] + -Small) \in Values
      BY <3>1, SessionNumbers
    <3> QED BY <3>2, SessionNumbers DEF ResetTarget
  <2>4. SessionInv'
    <3>1. t' = [t EXCEPT !.step = "undo", !.target = ResetTarget] /\ UNCHANGED machineVars
      BY <1>4 DEF SecondEngineLooks
    <3>2. Kept /\ BaseStays /\ t'.step = "undo" /\ t'.target = ResetTarget
      BY <3>1, <2>1, <1>0 DEF Kept, BaseStays, ProcedureRecord, ProcedureFields
    <3>3. ProcedureRecord'
      BY <2>1, <3>1, <3>2, <1>0, <2>3 DEF ProcedureRecord, ProcedureFields, Steps
    <3>5. Locals'
      BY <1>0, <2>1, <2>2, <2>3, <3>2 DEF Locals, ResetSteps, SingleModes, TrimmedSteps, Kept, BaseStays
    <3>6. Kernel' /\ MachineTypes'
      BY <2>1, <2>2, <3>1, <3>2, ReadsOn DEF TrimmedSteps, ResetSteps, BaseStays
    <3> QED BY <3>2, <3>3, <3>5, <3>6, GoesOn
  <2> QED BY <2>4
<1>5. CASE Resets
  <2>1. /\ t.step = "undo" /\ start' = start /\ Takes(t.target)
        /\ t' = [t EXCEPT !.step = "restored", !.target = None, !.trimmed = None]
    BY <1>5 DEF Resets, Quietly
  <2>2. HasBase /\ t.fam \in Families /\ t.target \in Values
    BY <1>0, <2>1 DEF HasBase, TrimmedSteps, BaseKept, Locals
  <2>3. Kept /\ BaseStays /\ t'.step = "restored"
    BY <2>1, <1>0 DEF Kept, BaseStays, ProcedureRecord, ProcedureFields
  <2>4. ProcedureRecord'
    BY <2>1, <1>0 DEF ProcedureRecord, ProcedureFields, Steps
  <2>5. Locals'
    BY <1>0, <2>1, <2>3 DEF Locals, ResetSteps, SingleModes, TrimmedSteps, Kept, BaseStays
  <2>6. Kernel' /\ MachineTypes'
    BY <2>1, <2>2, <2>3, Sends
  <2> QED BY <2>3, <2>4, <2>5, <2>6, GoesOn
<1>6. CASE ResetFails
  BY <1>6, Ended DEF ResetFails
<1>7. CASE CheckRestored
  <2>1. t.step = "restored" /\ start' = start
    BY <1>7 DEF CheckRestored, Quietly
  <2>2. HasBase /\ t.fam \in Families
    BY <1>0, <2>1 DEF HasBase, TrimmedSteps, BaseKept
  <2>3. CASE EndsAs("raised")
    BY <2>1, <2>3, Ended
  <2>4. CASE ~EndsAs("raised")
    <3>7. values[t.fam] = t.base
      BY <1>7, <2>4 DEF CheckRestored
    <3>1. t' = [t EXCEPT !.step = "rereads", !.reads = Reads] /\ UNCHANGED machineVars
      BY <1>7, <2>4 DEF CheckRestored
    <3>2. Kept /\ BaseStays /\ t'.step = "rereads"
      BY <3>1, <2>1, <1>0 DEF Kept, BaseStays, ProcedureRecord, ProcedureFields
    <3>3. ProcedureRecord'
      BY <2>1, <3>1, <3>2, <1>0, SessionNumbers DEF ProcedureRecord, ProcedureFields, Steps
    <3>5. Locals'
      BY <1>0, <2>1, <2>2, <3>2 DEF Locals, ResetSteps, SingleModes, TrimmedSteps, Kept, BaseStays
    <3>6. Kernel' /\ MachineTypes'
      BY <2>1, <2>2, <3>1, <3>2, <3>7, ReadsOn DEF TrimmedSteps, ResetSteps, BaseStays
    <3> QED BY <3>2, <3>3, <3>5, <3>6, GoesOn
  <2> QED BY <2>3, <2>4
<1>8. CASE RereadBaseline
  <2>1. t.step = "rereads" /\ start' = start
    BY <1>8 DEF RereadBaseline, Quietly
  <2>2. HasBase /\ t.fam \in Families
    BY <1>0, <2>1 DEF HasBase, TrimmedSteps, BaseKept
  <2>3. CASE EndsAs("raised")
    BY <2>1, <2>3, Ended
  <2>8. CASE ~EndsAs("raised") /\ t.reads > 1
    <3>7. t.reads - 1 \in 0..Reads
      BY <2>8, <1>0, SessionConstants DEF ProcedureRecord
    <3>1. t' = [t EXCEPT !.reads = t.reads - 1] /\ UNCHANGED machineVars
      BY <1>8, <2>8 DEF RereadBaseline
    <3>2. Kept /\ BaseStays /\ t'.step = "rereads"
      BY <3>1, <2>1, <1>0 DEF Kept, BaseStays, ProcedureRecord, ProcedureFields
    <3>3. ProcedureRecord'
      BY <2>1, <3>1, <3>2, <1>0, <3>7 DEF ProcedureRecord, ProcedureFields, Steps
    <3>5. Locals'
      BY <1>0, <2>1, <2>2, <3>2 DEF Locals, ResetSteps, SingleModes, TrimmedSteps, Kept, BaseStays
    <3>6. Kernel' /\ MachineTypes'
      BY <2>1, <2>2, <3>1, <3>2, ReadsOn DEF TrimmedSteps, ResetSteps, BaseStays
    <3> QED BY <3>2, <3>3, <3>5, <3>6, GoesOn
  <2>5. CASE ~EndsAs("raised") /\ ~(t.reads > 1) /\ t.stack # <<>>
    <3>1. t' = [t EXCEPT !.step = "unwind", !.reads = 0] /\ UNCHANGED machineVars
      BY <1>8, <2>5 DEF RereadBaseline, AfterReset
    <3>2. Kept /\ BaseStays /\ t'.step = "unwind" /\ ~HasBase'
      BY <3>1, <2>1, <1>0 DEF Kept, BaseStays, ProcedureRecord, ProcedureFields, HasBase, TrimmedSteps
    <3>3. ProcedureRecord'
      BY <2>1, <3>1, <3>2, <1>0, SessionNumbers DEF ProcedureRecord, ProcedureFields, Steps
    <3>5. Locals'
      BY <1>0, <2>1, <2>2, <2>5, <3>2 DEF Locals, ResetSteps, SingleModes, TrimmedSteps, Kept, BaseStays
    <3>6. Kernel' /\ MachineTypes'
      BY <2>1, <2>2, <3>1, <3>2, ReadsOn DEF TrimmedSteps, ResetSteps
    <3> QED BY <3>2, <3>3, <3>5, <3>6, GoesOn
  <2>6. CASE ~EndsAs("raised") /\ ~(t.reads > 1) /\ t.stack = <<>> /\ t.todo # {}
    <3>1. t' = [t EXCEPT !.step = "family", !.reads = 0] /\ UNCHANGED machineVars
      BY <1>8, <2>6 DEF RereadBaseline, AfterReset
    <3>2. Kept /\ BaseStays /\ t'.step = "family" /\ ~HasBase' /\ t.mode = "managed"
      BY <3>1, <2>1, <2>6, <1>0 DEF Kept, BaseStays, ProcedureRecord, ProcedureFields, HasBase, TrimmedSteps,
         Locals, ResetSteps
    <3>3. ProcedureRecord'
      BY <2>1, <3>1, <3>2, <1>0, SessionNumbers DEF ProcedureRecord, ProcedureFields, Steps
    <3>5. Locals'
      BY <1>0, <2>1, <2>2, <2>6, <3>2 DEF Locals, ResetSteps, SingleModes, TrimmedSteps, Kept, BaseStays
    <3>6. Kernel' /\ MachineTypes'
      BY <2>1, <2>2, <3>1, <3>2, ReadsOn DEF TrimmedSteps, ResetSteps
    <3> QED BY <3>2, <3>3, <3>5, <3>6, GoesOn
  <2>7. CASE ~EndsAs("raised") /\ ~(t.reads > 1) /\ t.stack = <<>> /\ t.todo = {}
    <3>1. t' = Over("executed") /\ UNCHANGED machineVars
      BY <1>8, <2>7 DEF RereadBaseline, AfterReset
    <3>2. Quiet => values = start
      BY <2>1, <2>7, AllRestored DEF TrimmedSteps
    <3>3. MachineTypes' /\ (Quiet' => values' = start')
      BY <1>0, <2>1, <3>1, <3>2, NotSent DEF Quiet, machineVars
    <3> QED BY <3>1, <3>3, OverKeeps DEF Outcomes
  <2> QED BY <2>3, <2>5, <2>6, <2>7, <2>8
<1> QED BY <1>1, <1>2, <1>3, <1>4, <1>5, <1>6, <1>7, <1>8 DEF ResetStep

(* Every step of the tool and of the world keeps the invariant.             *)
LEMMA SessionStep == SessionInv /\ [SessionNext]_sessionVars => SessionInv'
<1> SUFFICES ASSUME SessionInv, [SessionNext]_sessionVars PROVE SessionInv'
  OBVIOUS
<1>1. CASE ToolStep
  BY <1>1, BeginKeeps, PlanKeeps, ProofKeeps, TrimKeeps, ResetKeeps, Zenon DEF ToolStep
<1>2. CASE PrintEnds \/ NextPrint \/ Knob
  BY <1>2, WorldKeeps, Zenon
<1>3. CASE UNCHANGED sessionVars
  <2>1. UNCHANGED <<values, job, printing, knobs, start, hits, t>>
    BY <1>3 DEF sessionVars
  <2>2. ProcedureRecord' /\ MachineTypes' /\ PassedIsRestored'
    BY <2>1 DEF SessionInv, ProcedureRecord, MachineTypes, PassedIsRestored, Quiet
  <2>3. Locals' /\ TodoFresh' /\ ResetIsDone'
    BY <2>1 DEF SessionInv, Locals, TodoFresh, ResetIsDone, HasBase
  <2>4. BaseKept' /\ StackKept' /\ Away'
    BY <2>1 DEF SessionInv, BaseKept, StackKept, Away, Stacked, HasBase, Quiet
  <2> QED BY <2>2, <2>3, <2>4 DEF SessionInv
<1> QED BY <1>1, <1>2, <1>3, Zenon DEF SessionNext

(* The inductive invariant of the procedures.                               *)
LEMMA SessionInvariant == SessionSpec => []SessionInv
BY SessionStart, SessionStep, PTL DEF SessionSpec

(* A proof works on one family at a time, and a session or a proof that     *)
(* reports success has put every family back, unless somebody else touched  *)
(* the printer (hardware_smoke.py:2677, 2714).                              *)
THEOREM ProofsPutBack == SessionSpec => []ProofsRestore
<1>1. SessionInv => ProofsRestore
  <2> SUFFICES ASSUME SessionInv PROVE ProofsRestore
    OBVIOUS
  <2>1. SessionTypeOK
    BY DEF SessionInv, ProcedureRecord, MachineTypes, SessionTypeOK
  <2>2. OneFamilyAtATime
    <3> SUFFICES ASSUME t.mode = "managed", Quiet, t.step \in {"family", "publish", "trim"}
                 PROVE  values = start
      BY DEF OneFamilyAtATime
    <3>1. t.stack = <<>>
      BY DEF SessionInv, Locals
    <3> QED BY <3>1, AllRestored DEF TrimmedSteps
  <2> QED BY <2>1, <2>2 DEF SessionInv, ProofsRestore
<1> QED BY <1>1, SessionInvariant, PTL

(* A reset is credited only when all the commands of its family went to the *)
(* job whose baseline was read (expected_job_id, hardware_smoke.py:2600);   *)
(* a baseline whose status named no job is exempt.                          *)
THEOREM ResetsCreditOneJob == SessionSpec => CreditsOneJob
<1>1. SessionInv /\ [SessionNext]_sessionVars =>
        [t.step = "rereads" /\ (t'.step \in {"unwind", "family"} \/ t'.over = "executed") /\ t.job # None
            => hits[t.fam] = {t.job}]_sessionVars
  <2> SUFFICES ASSUME SessionInv, SessionNext, t.step = "rereads",
                      t'.step \in {"unwind", "family"} \/ t'.over = "executed", t.job # None
               PROVE  hits[t.fam] = {t.job}
    OBVIOUS
  <2>1. /\ t.fam \in Families /\ t.job \in 1..job /\ hits[t.fam] # {}
        /\ \A j \in hits[t.fam] : t.job <= j
        /\ hits[t.fam] \subseteq 1..job /\ job \in Nat
    BY DEF SessionInv, BaseKept, HasBase, ResetSteps, MachineTypes
  <2>2. t.over = "none"
    BY DEF SessionInv, ProcedureRecord
  <2>3. job = t.job
    <3>1. CASE ToolStep
      <4>1. RereadBaseline
        BY <3>1 DEF ToolStep, PlanStep, ProofStep, TrimStep, ResetStep, DirectReads, DirectSends, BeginSingle,
           BeginMulti, BeginManaged, Look, ReadBaseline, Suppressed, PlanChosen, PlanOutside, ReadStepBaseline,
           ProofBegins, ProofPublishes, Trims, TrimFails, PostState, RepeatRead, Recorded, TakeReset,
           ExactRestore, SecondEngineRefused, SecondEngineLooks, Resets, ResetFails, CheckRestored
      <4>2. ~EndsAs("raised")
        BY DEF EndsAs, Over, Idle
      <4> QED BY <4>1, <4>2 DEF RereadBaseline, Matches, JobIds
    <3>2. CASE PrintEnds \/ NextPrint \/ Knob
      BY <2>2, <3>2 DEF PrintEnds, NextPrint, Knob
    <3> QED BY <3>1, <3>2 DEF SessionNext
  <2> QED BY <2>1, <2>3
<1> QED BY <1>1, SessionInvariant, PTL DEF SessionSpec, CreditsOneJob
=============================================================================
