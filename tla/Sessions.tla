------------------------------ MODULE Sessions ------------------------------
(***************************************************************************)
(* The trim procedures of the Prusa hardware tool (hardware_smoke.py): the *)
(* direct commands, the planner-driven experiments and single-family       *)
(* sessions, the multi-family session and the managed proof.  Each trims   *)
(* tuning families of a live print through an engine, reads the printer    *)
(* back, resets what it trimmed and reads again.  Between any two of its   *)
(* HTTP reads and writes the print may end, the next one may start and     *)
(* somebody may turn a knob on the printer's panel.                        *)
(*                                                                         *)
(* Values are whole numbers at least one tolerance (0.5) apart, so "within *)
(* 0.5" is equality.  The pack's eligibility rules are in Pack.tla; here a *)
(* family of a printing job may or may not be offered.                     *)
(***************************************************************************)
EXTENDS Integers, Sequences, FiniteSets, SequencesExt

CONSTANTS
    Order,      \* the families in the order of the managed proof
    Temps,      \* the families reset by the opposite step: nozzle and bed
    Lo, Hi,     \* the tuning envelope
    Default,    \* default of the rates, the families not in Temps
    Small, Big, \* step sizes
    Reads,      \* repeated reads after a step
    MaxJobs,    \* bound: jobs of a behaviour
    MaxKnobs,   \* bound: changes at the panel
    None

Families == Range(Order)
Rates == Families \ Temps
Values == Lo..Hi

ASSUME SessionConstants ==
    /\ Order \in Seq(STRING) /\ Cardinality(Families) = Len(Order)
    /\ Temps \subseteq Families
    /\ Lo \in Int /\ Hi \in Int /\ Default \in Values
    /\ Small \in Nat \ {0} /\ Big \in Nat /\ Big > Small
    /\ Reads \in Nat \ {0} /\ MaxJobs \in Nat \ {0} /\ MaxKnobs \in Nat

VARIABLES
    values,     \* values[f]: what the printer runs family f at
    job,        \* number of the job on the printer, printing or not
    printing,   \* lifecycle PRINTING and job_active
    knobs,      \* changes made at the panel so far
    start,      \* history: values when the tool began; None once somebody else
                \* touched the printer, an engine call failed or a plan was refused
    hits,       \* history: hits[f]: the jobs the tool's commands for f went to
    t           \* the tool: its locals and where it is

sessionVars == <<values, job, printing, knobs, start, hits, t>>
machineVars == <<values, job, printing, knobs, hits>>

Modes == {"direct", "once", "session", "multi", "managed"}
Steps == {"idle", "direct", "look", "pre", "gate", "prestep", "family", "publish", "trim",
          "post", "reads", "trimmed", "unwind", "exact", "second", "undo", "restored",
          "rereads", "over"}
Outcomes == {"none", "executed", "suppressed", "raised"}
Baselines == [fam : Families, base : Values, job : 1..MaxJobs \union {None}]

Idle == [mode |-> "direct", step |-> "idle", todo |-> {}, fam |-> None,
         base |-> None, job |-> None, world |-> None, target |-> None,
         trimmed |-> None, stack |-> <<>>, traced |-> FALSE, reads |-> 0,
         lease |-> FALSE, over |-> "none"]

SessionInit ==
    /\ values \in [Families -> Values]
    /\ job = 1
    /\ printing \in BOOLEAN
    /\ knobs = 0
    /\ start = values
    /\ hits = [f \in Families |-> {}]
    /\ t = Idle

Clamp(v) == IF v < Lo THEN Lo ELSE IF v > Hi THEN Hi ELSE v

(* The state of a procedure that is over: its locals are gone. *)
Over(outcome) == [Idle EXCEPT !.mode = t.mode, !.step = "over", !.over = outcome]

(* Mutant: the proof goes on with the next family after a failure. *)
EndsAsContinues(outcome) ==
    /\ LET rest == t.todo \ {t.fam} IN
       t' = IF t.mode = "managed" /\ outcome = "raised" /\ rest # {}
            THEN [t EXCEPT !.step = "family", !.todo = rest, !.stack = <<>>, !.reads = 0]
            ELSE Over(outcome)
    /\ UNCHANGED machineVars

(* A procedure ends: by a return, or by an exception that leaves the       *)
(* printer as it is at that moment.                                        *)
EndsAs(outcome) ==
    /\ t' = Over(outcome)
    /\ UNCHANGED machineVars

Quietly == UNCHANGED start
Quiet == start # None

(* The printer takes value v for the family of this step *)
Takes(v) ==
    /\ values' = [values EXCEPT ![t.fam] = v]
    /\ hits' = [hits EXCEPT ![t.fam] = @ \union {job}]
    /\ UNCHANGED <<job, printing, knobs>>

NothingSent == UNCHANGED machineVars

(* _command_status of a live print *)
Live == printing

(* The job_id of a status: _job_id takes a whole number or nothing. *)
JobIds == {job, None}

(* Mutant: the reads do not compare the job. *)
MatchesAnyJob(v, id) == Live /\ values[t.fam] = v

(* One read of the status matches: _status_matches_expected.  The value,   *)
(* the lifecycle and the job are of one answer of /api/v1/status; the job  *)
(* is compared only when the baseline came with one.                       *)
Matches(v, id) == Live /\ values[t.fam] = v /\ (t.job # None => id = t.job)

(* The trims a single-family run may plan: every bounded step the pack     *)
(* offers.  A multi-family session and a proof use one small step, up for  *)
(* a temperature and down for a rate.                                      *)
SingleDeltas == {-Small, Small, -Big, Big}
SpecDelta(f) == IF f \in Temps THEN Small ELSE -Small
Offered(f, delta) == Clamp(t.world[f] + delta) # t.world[f]
-----------------------------------------------------------------------------
(* A direct command (trim-nozzle-up ...): the status is read, the target   *)
(* is computed from it and sent through the driver, without an engine.     *)
DirectReads ==
    /\ t.step = "idle"
    /\ \E f \in Families, delta \in SingleDeltas :
        t' = [t EXCEPT !.step = "direct", !.fam = f,
                       !.target = Clamp(values[f] + delta)]
    /\ UNCHANGED machineVars /\ Quietly

DirectSends ==
    /\ t.step = "direct"
    /\ \/ Takes(t.target)
       \/ NothingSent               \* the driver raised before its send
    /\ t' = Over("executed")
    /\ Quietly

(* A planner-driven run begins: an experiment or a session of one family,  *)
(* or a session of several; every multi-family command includes speed.     *)
MultiSets == {s \in SUBSET Families : Cardinality(s) > 1 /\ Order[1] \in s}

BeginSingle ==
    /\ t.step = "idle"
    /\ \E f \in Families, mode \in {"once", "session"} :
        /\ mode = "session" => f # Order[1]
        /\ t' = [t EXCEPT !.mode = mode, !.step = "look", !.todo = {f}]
    /\ UNCHANGED machineVars /\ Quietly

BeginMulti ==
    /\ t.step = "idle"
    /\ \/ /\ Live
          /\ \E s \in MultiSets :
              t' = [t EXCEPT !.mode = "multi", !.step = "look", !.todo = s]
          /\ UNCHANGED machineVars
       \/ /\ ~Live
          /\ EndsAs("raised")
    /\ Quietly

BeginManaged ==
    /\ t.step = "idle"
    /\ t' = [t EXCEPT !.mode = "managed", !.step = "family", !.todo = Families]
    /\ UNCHANGED machineVars /\ Quietly

(* publish_all_raw_state and compile: the world and its frontier.  A       *)
(* single-family run reads its baseline right after the first look and     *)
(* keeps it when a startup trace makes it look again.                      *)
Look ==
    /\ t.step = "look"
    /\ t' = [t EXCEPT !.world = values,
                      !.step = IF t.mode = "multi" \/ t.traced THEN "gate" ELSE "pre"]
    /\ UNCHANGED machineVars /\ Quietly

ReadBaseline ==
    /\ t.step = "pre"
    /\ \E f \in t.todo, id \in JobIds :
        t' = [t EXCEPT !.step = "gate", !.fam = f, !.base = values[f], !.job = id]
    /\ UNCHANGED machineVars /\ Quietly

(* Mutant: the startup trace is collected as often as startup lasts. *)
SuppressedRetraces ==
    /\ t.step = "gate"
    /\ \/ /\ t' = [t EXCEPT !.step = "look", !.traced = TRUE]
          /\ UNCHANGED machineVars
       \/ EndsAs(IF t.mode = "multi" THEN "raised" ELSE "suppressed")
    /\ start' = None

(* The suppression reasons before planning: every family still to do must  *)
(* be offered.  During startup a trace is collected first and the world is *)
(* compiled once more; then a single run returns and a session of several  *)
(* raises.                                                                 *)
Suppressed ==
    /\ t.step = "gate"
    /\ \/ /\ ~t.traced
          /\ t' = [t EXCEPT !.step = "look", !.traced = TRUE]
          /\ UNCHANGED machineVars
       \/ EndsAs(IF t.mode = "multi" THEN "raised" ELSE "suppressed")
    /\ start' = None

(* The planner chooses one offered action of the families left to do, or   *)
(* its plan is refused by the second check.                                *)
PlanChoices ==
    IF t.mode = "multi"
    THEN {c \in t.todo \X {-Small, Small} : c[2] = SpecDelta(c[1])}
    ELSE t.todo \X SingleDeltas

PlanChosen ==
    /\ t.step = "gate" /\ Live
    /\ \E c \in {d \in PlanChoices : Offered(d[1], d[2])} :
        t' = [t EXCEPT !.fam = c[1], !.target = Clamp(t.world[c[1]] + c[2]),
                       !.traced = FALSE, !.world = None,
                       !.step = IF t.mode = "multi" THEN "prestep" ELSE "trim"]
    /\ UNCHANGED machineVars /\ Quietly

PlanOutside ==
    /\ t.step = "gate"
    /\ EndsAs(IF t.mode = "multi" THEN "raised" ELSE "suppressed")
    /\ start' = None

(* A multi-family step reads its baseline and job after the planning.      *)
ReadStepBaseline ==
    /\ t.step = "prestep"
    /\ \E id \in JobIds :
        t' = [t EXCEPT !.step = "trim", !.base = values[t.fam], !.job = id]
    /\ UNCHANGED machineVars /\ Quietly

(* One family of the managed proof, in the order of the command: live, at  *)
(* its required baseline, then a trim through an engine of its own that    *)
(* publishes and compiles anew.                                            *)
Precedes(g, f) == \E i, j \in DOMAIN Order : i < j /\ Order[i] = g /\ Order[j] = f

ProofBegins ==
    /\ t.step = "family"
    /\ \E f \in t.todo, id \in JobIds :
        /\ \A g \in t.todo : ~Precedes(g, f)
        /\ IF Live /\ (f \in Rates => values[f] = Default)
           THEN /\ t' = [t EXCEPT !.step = "publish", !.fam = f, !.base = values[f],
                                  !.job = id]
                /\ UNCHANGED machineVars
           ELSE EndsAs("raised")
    /\ Quietly

ProofPublishes ==
    /\ t.step = "publish"
    /\ LET v == Clamp(values[t.fam] + SpecDelta(t.fam)) IN
       IF v = values[t.fam]         \* at the limit: not offered
       THEN EndsAs("raised")
       ELSE /\ t' = [t EXCEPT !.step = "trim", !.target = v]
            /\ UNCHANGED machineVars
    /\ Quietly
-----------------------------------------------------------------------------
(* engine.execute_operator_action of the trim, then the read of the post   *)
(* state.  A run keeps its engine, and with it the control lease, to its   *)
(* end; a proof drops each engine at once.  The target was computed from   *)
(* the world, not from the baseline.                                       *)
Trims ==
    /\ t.step = "trim" /\ Live
    /\ Takes(t.target)
    /\ t' = IF t.mode = "once"
            THEN Over("executed")
            ELSE [t EXCEPT !.step = "post", !.target = None,
                           !.lease = (t.mode # "managed")]
    /\ Quietly

(* The action is not offered, the engine refuses it (also because another  *)
(* runtime has the lease) or the driver fails, before or after the printer *)
(* took the value.  An experiment reports what happened; the others raise. *)
TrimFails ==
    /\ t.step = "trim"
    /\ \/ Live /\ Takes(t.target)
       \/ NothingSent
    /\ t' = Over(IF t.mode = "once" THEN "executed" ELSE "raised")
    /\ start' = None

(* Mutant: one read too many. *)
PostStateReadsMore ==
    /\ t.step = "post"
    /\ IF values[t.fam] = t.base
       THEN EndsAs("raised")
       ELSE /\ t' = [t EXCEPT !.step = "reads", !.trimmed = values[t.fam],
                              !.reads = Reads + 1]
            /\ UNCHANGED machineVars
    /\ Quietly

(* The post state must differ from the baseline; it becomes the value that *)
(* the repeated reads expect.                                              *)
PostState ==
    /\ t.step = "post"
    /\ LET v == values[t.fam] IN
       IF v = t.base
       THEN EndsAs("raised")
       ELSE /\ t' = [t EXCEPT !.step = "reads", !.trimmed = v, !.reads = Reads]
            /\ UNCHANGED machineVars
    /\ Quietly

(* Any of the repeated reads that does not match raises. *)
RepeatRead ==
    /\ t.step = "reads"
    /\ \E id \in JobIds :
        IF Matches(t.trimmed, id)
        THEN /\ t' = IF t.reads > 1 THEN [t EXCEPT !.reads = @ - 1]
                     ELSE [t EXCEPT !.step = "trimmed", !.reads = 0]
             /\ UNCHANGED machineVars
        ELSE EndsAs("raised")
    /\ Quietly

(* The trim is recorded on the reset stack; what comes next is the next    *)
(* family of a multi-family session, or the reset.  A flow session has no  *)
(* reset for a rise and raises.                                            *)
Recorded ==
    /\ t.step = "trimmed"
    /\ LET rest == t.todo \ {t.fam} IN
       IF t.mode = "session" /\ t.fam \in Rates /\ t.trimmed > t.base
       THEN EndsAs("raised")
       ELSE /\ t' = [t EXCEPT
                !.stack = Append(@, [fam |-> t.fam, base |-> t.base, job |-> t.job]),
                !.todo = rest,
                !.step = IF t.mode = "multi" /\ rest # {} THEN "look" ELSE "unwind"]
            /\ UNCHANGED machineVars
    /\ Quietly
-----------------------------------------------------------------------------
(* The resets, in reverse order of the trims.  A temperature of a          *)
(* multi-family session is restored exactly, through the session's engine; *)
(* every other reset goes through _managed_execute, which builds a second  *)
(* engine: the operating system refuses it the lease while the first       *)
(* engine of the same process has it, so its report asks for a replan and  *)
(* the session raises.                                                     *)
TakeReset ==
    /\ t.step = "unwind"
    /\ LET e == Last(t.stack) IN
       t' = [t EXCEPT !.stack = Front(@), !.fam = e.fam, !.base = e.base,
                      !.job = e.job,
                      !.step = IF t.mode = "multi" /\ e.fam \in Temps
                               THEN "exact" ELSE "second"]
    /\ UNCHANGED machineVars /\ Quietly

ExactRestore ==
    /\ t.step = "exact"
    /\ Takes(Clamp(t.base))
    /\ t' = [t EXCEPT !.step = "restored", !.trimmed = None]
    /\ Quietly

(* The value a reset through _managed_execute asks for: the default of a   *)
(* rate, one small step against the trim for a temperature.                *)
ResetTarget ==
    IF t.fam \in Rates THEN Default
    ELSE Clamp(values[t.fam] +
               (IF t.mode = "managed" \/ t.trimmed > t.base THEN -Small ELSE Small))

SecondEngineRefused ==
    /\ t.step = "second" /\ t.lease
    /\ EndsAs("raised")
    /\ Quietly

SecondEngineLooks ==
    /\ t.step = "second" /\ ~t.lease
    /\ t' = [t EXCEPT !.step = "undo", !.target = ResetTarget]
    /\ UNCHANGED machineVars /\ Quietly

Resets ==
    /\ t.step = "undo" /\ Live
    /\ Takes(t.target)
    /\ t' = [t EXCEPT !.step = "restored", !.target = None, !.trimmed = None]
    /\ Quietly

(* A reset that is unavailable, refused or fails raises. *)
ResetFails ==
    /\ t.step \in {"exact", "undo"}
    /\ EndsAs("raised")
    /\ start' = None

(* Mutant: the value read after the reset is taken for the baseline. *)
CheckRestoredTakesRead ==
    /\ t.step = "restored"
    /\ t' = [t EXCEPT !.step = "rereads", !.reads = Reads, !.base = values[t.fam]]
    /\ UNCHANGED machineVars /\ Quietly

(* The baseline must be back, and stay for the repeated reads. *)
CheckRestored ==
    /\ t.step = "restored"
    /\ IF values[t.fam] = t.base
       THEN /\ t' = [t EXCEPT !.step = "rereads", !.reads = Reads]
            /\ UNCHANGED machineVars
       ELSE EndsAs("raised")
    /\ Quietly

(* What follows a verified reset: the rest of the stack, the next family   *)
(* of a proof, or the end.                                                 *)
AfterReset ==
    CASE t.stack # <<>> -> [t EXCEPT !.step = "unwind", !.reads = 0]
      [] t.stack = <<>> /\ t.todo # {} -> [t EXCEPT !.step = "family", !.reads = 0]
      [] OTHER -> Over("executed")

RereadBaseline ==
    /\ t.step = "rereads"
    /\ \E id \in JobIds :
        IF Matches(t.base, id)
        THEN /\ t' = IF t.reads > 1 THEN [t EXCEPT !.reads = @ - 1] ELSE AfterReset
             /\ UNCHANGED machineVars
        ELSE EndsAs("raised")
    /\ Quietly
-----------------------------------------------------------------------------
Busy == t.step \notin {"idle", "over"}

(* The printer on its own: a print ends, the next one begins (with its own *)
(* values), somebody changes a value at the panel.                         *)
PrintEnds ==
    /\ printing /\ Busy
    /\ printing' = FALSE /\ start' = None
    /\ UNCHANGED <<values, job, knobs, hits, t>>

NextPrint ==
    /\ ~printing /\ job < MaxJobs /\ Busy
    /\ printing' = TRUE /\ job' = job + 1 /\ start' = None
    /\ values' = [f \in Families |-> Default]
    /\ UNCHANGED <<knobs, hits, t>>

Knob ==
    /\ knobs < MaxKnobs /\ Busy
    /\ \E f \in Families : \E v \in Values \ {values[f]} :
        values' = [values EXCEPT ![f] = v]
    /\ knobs' = knobs + 1 /\ start' = None
    /\ UNCHANGED <<job, printing, hits, t>>

(* The phases of a procedure *)
PlanStep  == Look \/ ReadBaseline \/ Suppressed \/ PlanChosen \/ PlanOutside \/ ReadStepBaseline
ProofStep == ProofBegins \/ ProofPublishes
TrimStep  == Trims \/ TrimFails \/ PostState \/ RepeatRead \/ Recorded
ResetStep ==
    \/ TakeReset \/ ExactRestore \/ SecondEngineRefused \/ SecondEngineLooks
    \/ Resets \/ ResetFails \/ CheckRestored \/ RereadBaseline

ToolStep ==
    \/ DirectReads \/ DirectSends \/ BeginSingle \/ BeginMulti \/ BeginManaged
    \/ PlanStep \/ ProofStep \/ TrimStep \/ ResetStep

SessionNext == ToolStep \/ PrintEnds \/ NextPrint \/ Knob

SessionSpec == SessionInit /\ [][SessionNext]_sessionVars

-----------------------------------------------------------------------------
(* The tool, the printer and the records of a procedure are well typed. *)
SessionTypeOK ==
    /\ values \in [Families -> Values]
    /\ job \in 1..MaxJobs /\ printing \in BOOLEAN /\ knobs \in 0..MaxKnobs
    /\ start \in [Families -> Values] \union {None}
    /\ hits \in [Families -> SUBSET (1..job)]
    /\ t.mode \in Modes /\ t.step \in Steps /\ t.over \in Outcomes
    /\ t.todo \subseteq Families /\ t.stack \in Seq(Baselines)
    /\ t.fam \in Families \union {None} /\ t.job \in 1..MaxJobs \union {None}
    /\ {t.base, t.target, t.trimmed} \subseteq Values \union {None}
    /\ t.world \in [Families -> Values] \union {None}
    /\ t.reads \in 0..Reads /\ {t.traced, t.lease} \subseteq BOOLEAN
    /\ t.over = "none" <=> t.step # "over"

(* A proof that reports success while nobody else touched the printer has  *)
(* put every family back: the trims are clamped to the envelope, so the    *)
(* opposite step alone does not guarantee it (hardware_smoke.py:2677).     *)
PassedIsRestored ==
    t.over = "executed" /\ t.mode \in {"session", "multi", "managed"} /\ Quiet
        => values = start

(* TESTING.md's rule that the next family of a proof is not attempted      *)
(* until the current one has been reset: when a proof takes up or trims a  *)
(* family, all the others are as they were, unless someone else moved them *)
(* (hardware_smoke.py:2714-2723).                                          *)
OneFamilyAtATime ==
    t.mode = "managed" /\ Quiet /\ t.step \in {"family", "publish", "trim"}
        => values = start

(* What a proof owes the printer (hardware_smoke.py:2677, 2714): one family *)
(* at a time while it works, and everything put back when it passes.        *)
ProofsRestore == SessionTypeOK /\ PassedIsRestored /\ OneFamilyAtATime

(* A reset is accepted only for a family whose commands, trim and reset,   *)
(* all went to the job its baseline was read in: a print that ended in     *)
(* between, or the next one, is never taken for a success                  *)
(* (expected_job_id, hardware_smoke.py:2600).  A baseline whose status     *)
(* named no job is exempt: the code compares nothing then.                 *)
CreditsOneJob ==
    [][t.step = "rereads" /\ (t'.step \in {"unwind", "family"} \/ t'.over = "executed")
        /\ t.job # None
        => hits[t.fam] = {t.job}]_sessionVars

(* A procedure that began comes to an end: the startup trace is collected  *)
(* once, each family is done once (hardware_smoke.py:1099, 1230).          *)
SessionEnds == t.step # "idle" ~> t.step = "over"

(* A session of several families that nobody disturbs, and whose engine    *)
(* calls all succeed, leaves the printer as it found it: "operator-only    *)
(* reverse reset at the end" (TESTING.md:186).                             *)
UndisturbedSessionRestores ==
    t.over # "none" /\ t.mode = "multi" /\ Quiet
    /\ (\A f \in Rates : start[f] = Default)
        => values = start
=============================================================================
