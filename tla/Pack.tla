---- MODULE Pack ----
(***************************************************************************)
(* The Prusa pack (pack.py) over one printer: publish_raw_state with its   *)
(* caches and its background vision worker, normalize and                  *)
(* candidate_actions over the published facts, and _realize over the       *)
(* driver.  One thread runs the runtime's cycle: publish, compile, act,    *)
(* publish again to verify.  The printer, the camera worker, a person at   *)
(* the machine and the clock run beside it.                                *)
(*                                                                         *)
(* Progress is the band the code tells apart, a tuned value is a number of *)
(* small steps, windows of time pass by actions of their own.  Of the      *)
(* driver only its contract is used (module Driver): a call that returns   *)
(* has reached its goal, one that raises may have reached it or not.       *)
(***************************************************************************)
EXTENDS Integers, FiniteSets

CONSTANTS
    Families,           \* tuning families planned with
    Relative,           \* the ones with targets around a baseline: pressure_advance, accel
    Lo, Hi,             \* the envelope of every family
    Default,            \* value at the start of a job, and the baseline
    SmallStep, BigStep,
    MaxJobs,            \* bound: jobs
    MaxFaults,          \* bound: failed status reads, failed driver calls, attentions and restarts
    None                \* Python's None

ASSUME PackAssumption ==
    /\ Relative \subseteq Families
    /\ {Lo, Hi, Default, SmallStep, BigStep} \subseteq Int
    /\ Lo <= Default /\ Default <= Hi
    /\ 0 < SmallStep /\ SmallStep <= BigStep
    /\ MaxJobs \in Nat /\ MaxFaults \in Nat
    /\ None \notin BOOLEAN /\ None # "big"

VARIABLES
    \* the printer
    job,                \* number of the job, 0: none yet
    life, prog, val,
    part,               \* a part is on the bed
    \* the pack object
    grace,              \* _last_good_raw_state is what wb holds, and within its 15 s
    cache,              \* _vision_snapshot_cache
    future,             \* _vision_refresh_future: the job it looks at
    cooldown,           \* families in _family_big_cooldowns_mono
    \* the whiteboard and the cycle
    wb,                 \* what the last publish left
    wbPart,             \* printer_1.part_present on the whiteboard
    pc, plan,
    result,             \* world.last_result, if it is a tuning that succeeded
    recent,             \* the last verified value of a family in world.recent_results
    \* history
    seen,               \* this process saw the job print, or started it
    big,                \* families whose last BIG returned within the cooldown
    jobs, faults

printer  == <<job, life, prog, val, part>>
packVars == <<grace, cache, future, cooldown>>
vars == <<printer, packVars, wb, wbPart, pc, plan, result, recent, seen, big, jobs, faults>>

Lives   == {"IDLE", "PRINTING", "PAUSED", "FINISHED", "ATTENTION"}
Progress == {"start", "window", "end"}  \* below the tunable range, in it, and from 99 % on
Values  == [Families -> Lo .. Hi]
Snaps   == [job : 0 .. MaxJobs, life : Lives, active : BOOLEAN, prog : Progress,
            val : Values, serial : BOOLEAN]

(* A vision payload: the job it was taken of, 0 when it was taken outside   *)
(* active printing (it is empty then), and whether it reports a symptom.    *)
Signals  == {"empty", "symptom"}
Payloads == [of : 0 .. MaxJobs, signal : Signals]

Tunings == [kind : {"tune"}, family : Families, dir : {"down", "up"}, size : {"small", "big"},
            target : Lo .. Hi]
Simple(k) == [kind |-> k, family |-> None, dir |-> None, size |-> None, target |-> 0]
Kinds   == {"pause", "resume", "cancel", "start", "call_human", "unload"}
Plans   == Tunings \cup {Simple(k) : k \in Kinds}

NotPublished ==
    [snap |-> None, read |-> FALSE, ok |-> FALSE, vision |-> None, drained |-> FALSE]
NoResult == [family |-> None, settled |-> TRUE, same |-> FALSE]

(* The printer, the caches, the whiteboard and the plan are well typed. *)
TypeOK ==
    /\ job \in 0 .. MaxJobs /\ life \in Lives /\ prog \in Progress
    /\ val \in Values /\ part \in BOOLEAN
    /\ grace \in BOOLEAN /\ cache \in Payloads \cup {None}
    /\ future \in 0 .. MaxJobs \cup {None}
    /\ cooldown \subseteq Families
    /\ wb \in [snap : Snaps \cup {None}, read : BOOLEAN, ok : BOOLEAN, vision : Payloads \cup {None}, drained : BOOLEAN]
    /\ wbPart \in BOOLEAN \cup {None}
    /\ pc \in {"publish", "compile", "act", "verify", "close"}
    /\ plan \in Plans \cup {None}
    /\ result.family \in Families \cup {None} /\ result.same \in BOOLEAN
    /\ recent \in [Relative -> (Lo .. Hi) \cup {None}]
    /\ seen \in BOOLEAN /\ big \subseteq Families
    /\ jobs \in 0 .. MaxJobs /\ faults \in 0 .. MaxFaults

NewObject ==
    /\ grace = FALSE /\ cache = None /\ future = None
    /\ cooldown = {}
Init ==
    /\ job = 0 /\ life = "IDLE" /\ prog = "start" /\ part = FALSE
    /\ val = [f \in Families |-> Default]
    /\ NewObject
    /\ wb = NotPublished
    /\ wbPart = None
    /\ pc = "publish" /\ plan = None /\ result = NoResult
    /\ recent = [f \in Relative |-> None]
    /\ seen = FALSE /\ big = {} /\ jobs = 0 /\ faults = 0

-----------------------------------------------------------------------------
(* The printer and the person at it *)

(* The machine is looked at by a publish and by the act: what happens at    *)
(* another point of the cycle is seen there just as well.                   *)
Observable == pc \in {"publish", "verify", "act"}
Machine == UNCHANGED <<packVars, wb, pc, plan, result, recent, big, faults>>

CanStart == life \in {"IDLE", "FINISHED"} /\ ~part /\ jobs < MaxJobs
NewJob ==
    /\ CanStart
    /\ jobs' = jobs + 1 /\ job' = jobs'
    /\ life' = "PRINTING" /\ prog' = "start" /\ part' = TRUE
    /\ val' = [f \in Families |-> Default]
PanelStart == Observable /\ NewJob /\ seen' = FALSE /\ Machine /\ UNCHANGED wbPart
Advance ==
    /\ Observable /\ life = "PRINTING"
    /\ \/ prog = "start"  /\ prog' = "window"
       \/ prog = "window" /\ prog' = "end"
    /\ Machine /\ UNCHANGED <<job, life, val, part, wbPart, seen, jobs>>
JobOver == prog' = "start" /\ val' = [f \in Families |-> Default]
Finish ==
    /\ Observable /\ life = "PRINTING" /\ prog = "end"
    /\ life' = "FINISHED" /\ JobOver
    /\ Machine /\ UNCHANGED <<job, part, wbPart, seen, jobs>>
Attention ==
    /\ Observable
    /\ \/ life = "PRINTING" /\ life' = "ATTENTION" /\ faults < MaxFaults /\ faults' = faults + 1
       \/ life = "ATTENTION" /\ life' = "PRINTING" /\ UNCHANGED faults
    /\ UNCHANGED <<packVars, wb, pc, plan, result, recent, big, job, prog, val, part, wbPart, seen, jobs>>
DismissDialog ==
    /\ Observable /\ life = "FINISHED" /\ life' = "IDLE"
    /\ Machine /\ UNCHANGED <<job, prog, val, part, wbPart, seen, jobs>>
(* "Unload the cooled print and then mark printer_1.part_present=false"     *)
Unload ==
    /\ Observable /\ life \in {"IDLE", "FINISHED"} /\ part
    /\ part' = FALSE /\ wbPart' = FALSE
    /\ Machine /\ UNCHANGED <<job, life, prog, val, seen, jobs>>

-----------------------------------------------------------------------------
(* What a status read makes of the printer *)

(* status_to_snapshot with the serial overlays, which may time out, and     *)
(* _apply_terminal_finish_override: 99 percent counts as finished, and so   *)
(* do both targets at zero, except in the first 2 percent, which are part   *)
(* of "start" here.                                                         *)
TerminalFinish(s, cold) ==
    IF s.life = "PRINTING" /\ (s.prog = "end" \/ cold)
    THEN [s EXCEPT !.life = "FINISHED", !.active = FALSE] ELSE s
SnapshotNow(serial, cold) ==
    TerminalFinish([job |-> job, life |-> life, active |-> life \in {"PRINTING", "PAUSED", "ATTENTION"},
                    prog |-> prog, val |-> val, serial |-> serial], cold)

VisionActive(s) == s.active /\ s.life = "PRINTING" /\ s.prog # "start"
Context(s) == IF VisionActive(s) THEN s.job ELSE 0

-----------------------------------------------------------------------------
(* publish_raw_state *)

Cycle == UNCHANGED <<printer, result, recent, jobs>>

(* _refresh_vision_snapshot: nothing is looked for outside active printing, *)
(* and nothing found when the camera is not usable or the analysis raises.  *)
Refreshed(f) == {[of |-> f, signal |-> sig] : sig \in IF f = 0 THEN {"empty"} ELSE Signals}
(* _drain_vision_refresh_if_ready: the worker of refresh f is still busy,   *)
(* has raised, or its payload goes to the cache.                            *)
Drains(c, f) ==
    {[cache |-> c, future |-> f, got |-> FALSE]} \cup
    IF f = None THEN {}
    ELSE {[cache |-> c, future |-> None, got |-> FALSE]} \cup
         {[cache |-> p, future |-> None, got |-> TRUE] : p \in Refreshed(f)}

(* _should_reuse_last_good_raw_state                                        *)
ReuseLastGood == grace /\ wb.snap # None /\ wb.snap.life = "PRINTING" /\ wb.snap.active

(* Mutant of FaultedRaw: the reused state still offers live tuning.         *)
FaultedRawTunes ==
    [snap |-> IF ReuseLastGood THEN wb.snap ELSE None, read |-> FALSE, ok |-> ReuseLastGood,
     vision |-> None, drained |-> FALSE]
(* The read failed: the last good state again, or OFFLINE; in both cases    *)
(* live_tuning_available is False and the vision payload empty.             *)
FaultedRaw ==
    [snap |-> IF ReuseLastGood THEN wb.snap ELSE None, read |-> FALSE, ok |-> FALSE,
     vision |-> None, drained |-> FALSE]
Published == pc' = IF pc = "publish" THEN "compile" ELSE "close"
PublishFault ==
    /\ pc \in {"publish", "verify"} /\ faults < MaxFaults /\ faults' = faults + 1
    /\ \E d \in Drains(cache, future) : cache' = d.cache /\ future' = d.future
    /\ wb' = FaultedRaw
    /\ wbPart' = IF ReuseLastGood THEN TRUE ELSE wbPart     \* the reused keys hold it too
    /\ Published
    /\ Cycle /\ UNCHANGED <<grace, cooldown, plan, seen, big>>

(* Mutant of InferPartPresent: what is on the whiteboard counts first.      *)
InferFromBoard(s) ==
    IF wbPart # None THEN wbPart ELSE s.life \in {"PRINTING", "PAUSED"}
(* _infer_part_present: a part is there while printing; otherwise the       *)
(* whiteboard says so; the first publish finds none there and goes by the   *)
(* lifecycle (the object's own _part_present_inference is False by then, and*)
(* every publish writes it to the whiteboard).                              *)
InferPartPresent(s) ==
    IF s.life \in {"PRINTING", "PAUSED"} THEN TRUE
    ELSE IF wbPart # None THEN wbPart
    ELSE s.life \in {"FINISHED", "ATTENTION"}

(* Mutant of VisionForContext: the cached payload whatever it was taken of. *)
VisionAsCached(s, c) == c
(* _vision_payload_for_context: another job's, mode's or lifecycle's        *)
(* payload is not shown.                                                    *)
VisionForContext(s, c) == IF c # None /\ c.of = Context(s) THEN c ELSE None

(* _vision_refresh_due: another context, or the interval or 2 % of progress *)
(* passed (later).                                                          *)
RefreshDue(s, c, later) == c = None \/ c.of # Context(s) \/ later
(* _start_vision_refresh_if_needed: one worker at a time.                   *)
StartRefresh(s, d, later) ==
    IF d.future = None /\ RefreshDue(s, d.cache, later) THEN Context(s) ELSE d.future

(* _bounded_serial_state_read: a serial read may time out; it is looked at  *)
(* where its value would be used.                                           *)
SerialReads == {TRUE, prog # "window"}

(* Drained at first; _start_vision_refresh_if_needed submits; the second    *)
(* drain waits 10 ms, for an older refresh just as well as for this one,    *)
(* and its payload goes into raw as it is.                                  *)
VisionOf(s) ==
    UNION {{[cache |-> d2.cache, future |-> d2.future, drained |-> d2.got,
             vision |-> IF d2.got THEN d2.cache ELSE VisionForContext(s, d1.cache)] :
              d2 \in Drains(d1.cache, StartRefresh(s, d1, later))} :
           d1 \in Drains(cache, future), later \in BOOLEAN}
Publish ==
    /\ pc \in {"publish", "verify"}
    /\ \E serial \in SerialReads, cold \in BOOLEAN : LET s == SnapshotNow(serial, cold) IN \E v \in VisionOf(s) :
         /\ cache' = v.cache /\ future' = v.future
         /\ wb' = [snap |-> s, read |-> TRUE, ok |-> TRUE, drained |-> v.drained,
                   vision |-> v.vision]
         /\ wbPart' = InferPartPresent(s)
         /\ seen' = (seen \/ s.life \in {"PRINTING", "PAUSED"})
    /\ grace' = TRUE
    /\ Published
    /\ Cycle /\ UNCHANGED <<cooldown, plan, big, faults>>

-----------------------------------------------------------------------------
(* The clock *)

(* The grace is looked at by a publish that has a state to reuse, the       *)
(* windows by candidate_actions.                                            *)
Aside == UNCHANGED <<printer, wb, wbPart, pc, plan, seen, jobs, faults>>
GraceEnds ==
    /\ pc \in {"publish", "verify"} /\ ReuseLastGood /\ grace' = FALSE
    /\ Aside /\ UNCHANGED <<cache, future, cooldown, result, recent, big>>
SettleEnds ==
    /\ pc = "publish" /\ ~result.settled /\ result' = [result EXCEPT !.settled = TRUE]
    /\ Aside /\ UNCHANGED <<grace, cache, future, cooldown, recent, big>>
CooldownEnds ==
    /\ pc = "publish" /\ \E f \in cooldown \cup big : cooldown' = cooldown \ {f} /\ big' = big \ {f}
    /\ Aside /\ UNCHANGED <<grace, cache, future, result, recent>>
(* recent_completed_actions returns three results: later ones push a value  *)
(* out.                                                                     *)
ResultsGoBy ==
    /\ pc = "publish" /\ \E f \in Relative : recent[f] # None /\ recent' = [recent EXCEPT ![f] = None]
    /\ Aside /\ UNCHANGED <<grace, cache, future, cooldown, result, big>>

-----------------------------------------------------------------------------
(* normalize and candidate_actions over the published facts *)

W == wb.snap
FactLife == IF W = None THEN "OFFLINE" ELSE W.life
Health ==
    IF ~wb.ok THEN "OFFLINE" ELSE IF W.life = "ATTENTION" THEN "ATTENTION" ELSE "OK"
PartPresent == wbPart = TRUE
(* _derive_printing_phase *)
PrintingPhase ==
    IF W.life # "PRINTING" \/ ~W.active THEN "not_printing"
    ELSE IF W.prog = "start" THEN "startup_printing" ELSE "active_printing"
(* _bounded_progress_ready: far enough, and not print_nearly_finished       *)
ProgressReady == W.prog = "window"
(* The blockers that all six _derive_*_state functions know: live tuning    *)
(* unavailable, the wrong phase or progress, a cooldown of the family.      *)
Unblocked(f) ==
    wb.ok /\ PrintingPhase = "active_printing" /\ ProgressReady /\ f \notin cooldown
(* Pressure advance and acceleration: and the serial read brought a value.  *)
RelativeEligible(f) == Unblocked(f) /\ W.serial
Eligible(f) == IF f \in Relative THEN RelativeEligible(f) ELSE Unblocked(f)

Symptom == wb.vision # None /\ wb.vision.signal = "symptom"
(* _tuning_settle_state *)
SettleActive == result.family # None /\ ~result.settled
(* _settle_suppresses_family: another family may be tuned meanwhile for a   *)
(* symptom that is grave, on a fresh frame.                                 *)
SettleSuppresses(f, grave) == SettleActive /\ (result.family = f \/ ~(Symptom /\ grave))
(* _big_escalation_allowed: the last result did not change the symptom.     *)
BigAllowed(f) == result.family = f /\ result.same

AtLeast(a, b) == IF a < b THEN b ELSE a
AtMost(a, b)  == IF a > b THEN b ELSE a
Step(size) == IF size = "big" THEN BigStep ELSE SmallStep

(* _relative_scalar_planning_current: the last verified value, of whatever  *)
(* job; without one, a live value away from the baseline is not trusted.    *)
PlanningCurrent(f) ==
    IF f \notin Relative THEN W.val[f] ELSE IF recent[f] # None THEN recent[f] ELSE Default

(* _relative_scalar_targets: of the baseline, the others of the value read. *)
From(f) == IF f \in Relative THEN Default ELSE W.val[f]
(* Mutant of TargetOf: up without the limit.                                *)
TargetUnclamped(f, dir, size) ==
    IF dir = "down" THEN AtLeast(From(f) - Step(size), Lo) ELSE From(f) + Step(size)
(* Within the envelope.                                                     *)
TargetOf(f, dir, size) ==
    IF dir = "down" THEN AtLeast(From(f) - Step(size), Lo) ELSE AtMost(From(f) + Step(size), Hi)
(* _append_rate_actions, _append_temperature_actions and                    *)
(* _append_relative_scalar_actions: only steps that go somewhere.           *)
Moves(p) ==
    /\ p.dir = "down" => p.target < PlanningCurrent(p.family)
    /\ p.dir = "up" => p.target > PlanningCurrent(p.family)
Steps(f) ==
    {p \in {[kind |-> "tune", family |-> f, dir |-> d, size |-> z, target |-> TargetOf(f, d, z)] :
                d \in {"down", "up"}, z \in {"small", "big"}} : Moves(p)}
LiveTuning(grave) ==
    UNION {{p \in Steps(f) : p.size = "big" => BigAllowed(f)} :
           f \in {g \in Families : Eligible(g) /\ ~SettleSuppresses(g, grave)}}

(* A requested file is there all the time, so START depends on the rest.    *)
(* The wait for a cool part and the call to unload it are one builtin here: *)
(* _compute_safe_to_unload tells them apart by temperatures alone.          *)
CandidateActions(grave) ==
    LiveTuning(grave) \cup {Simple(k) : k \in {k \in Kinds :
        CASE k = "cancel" -> FactLife \in {"PRINTING", "PAUSED"}
          [] k = "pause"  -> FactLife = "PRINTING" /\ W.prog # "start" /\ W.active
                             /\ LiveTuning(grave) = {} /\ ~SettleActive
          [] k = "resume" -> FactLife = "PAUSED"
          [] k = "start"  -> FactLife \in {"IDLE", "FINISHED"} /\ ~PartPresent
          [] k = "call_human" -> Health # "OK"
          [] k = "unload" -> FactLife \notin {"PRINTING", "OFFLINE"} /\ PartPresent}}

(* After a cycle only a state that may be reused is looked at again, before *)
(* the next publish replaces it; the vision facts, the values and the job   *)
(* are not, since a reused state offers no tuning and no vision.            *)
Shown == [wb EXCEPT !.vision = None, !.drained = FALSE]
Used ==
    IF ReuseLastGood
    THEN [NotPublished EXCEPT !.snap = [W EXCEPT !.job = 0, !.serial = FALSE,
                                                 !.val = [f \in Families |-> Default]]]
    ELSE NotPublished
Compile ==
    /\ pc = "compile"
    /\ \/ plan' \in UNION {CandidateActions(grave) : grave \in BOOLEAN} /\ pc' = "act"
          /\ wb' = IF plan'.kind = "tune" THEN Shown ELSE Used
       \/ plan' = None /\ pc' = "publish" /\ wb' = Used \* the planner does nothing
    /\ Cycle /\ UNCHANGED <<packVars, wbPart, seen, big, faults>>

-----------------------------------------------------------------------------
(* _realize, and what the engine makes of it *)

(* The driver's call has its effect on the printer.                         *)
Effect ==
    CASE plan.kind = "tune" ->
            /\ val' = [val EXCEPT ![plan.family] = plan.target]
            /\ UNCHANGED <<job, life, prog, part, jobs>>
      [] plan.kind = "pause" /\ life = "PRINTING" ->
            life' = "PAUSED" /\ UNCHANGED <<job, prog, val, part, jobs>>
      [] plan.kind = "resume" /\ life = "PAUSED" ->
            life' = "PRINTING" /\ UNCHANGED <<job, prog, val, part, jobs>>
      [] plan.kind = "cancel" /\ life \in {"PRINTING", "PAUSED"} ->
            life' = "IDLE" /\ JobOver /\ UNCHANGED <<job, part, jobs>>
      [] plan.kind = "start" /\ CanStart -> NewJob
      [] OTHER -> FALSE
NoEffect == UNCHANGED <<printer, jobs>>

(* Mutant of ActivateCooldown: only steps down cool a family.               *)
CooldownDownOnly == IF plan.size = "big" /\ plan.dir = "down" THEN {plan.family} ELSE {}
(* _activate_big_family_cooldown *)
ActivateCooldown == IF plan.size = "big" THEN {plan.family} ELSE {}

Realized ==
    /\ pc = "act" /\ plan.kind \in {"tune", "pause", "resume", "cancel", "start"}
    /\ Effect
    /\ cooldown' = cooldown \cup ActivateCooldown
    /\ big' = IF plan.size = "big" THEN big \cup {plan.family} ELSE big
    /\ wbPart' = IF plan.kind \in {"cancel", "start"} THEN TRUE ELSE wbPart
    /\ seen' = (seen \/ plan.kind = "start")
    /\ pc' = "verify"
    /\ UNCHANGED <<grace, cache, future, wb, plan, result, recent, faults>>

(* The call raises, before or after it had its effect: the run is failed    *)
(* and nothing is noted in the pack.                                        *)
RealizeRaises ==
    /\ pc = "act" /\ plan.kind \in {"tune", "pause", "resume", "cancel", "start"}
    /\ \/ /\ Effect /\ faults < MaxFaults /\ faults' = faults + 1
          /\ seen' = (IF plan.kind = "start" THEN FALSE ELSE seen)
       \/ NoEffect /\ UNCHANGED <<seen, faults>>
    /\ result' = NoResult /\ UNCHANGED recent
    /\ pc' = "publish" /\ plan' = None /\ wb' = Used
    /\ UNCHANGED <<packVars, wbPart, big>>

(* CALL_HUMAN and WAIT_UNTIL are builtins: the engine runs them itself.     *)
RunBuiltin ==
    /\ pc = "act" /\ plan.kind \in {"call_human", "unload"}
    /\ result' = NoResult /\ UNCHANGED recent
    /\ pc' = "publish" /\ plan' = None
    /\ UNCHANGED <<printer, packVars, wb, wbPart, seen, big, jobs, faults>>

(* The engine verifies on the state published after the action and keeps    *)
(* the vision facts of that state with the result.                          *)
VerifyHolds ==
    /\ W # None
    /\ CASE plan.kind = "tune"   -> W.val[plan.family] = plan.target
                                    /\ (plan.family \in Relative => W.serial)
         [] plan.kind = "pause"  -> W.life = "PAUSED"
         [] plan.kind = "resume" -> W.life = "PRINTING"
         [] plan.kind = "cancel" -> ~W.active /\ W.life \in {"IDLE", "FINISHED"}
         [] plan.kind = "start"  -> W.active /\ W.life = "PRINTING"
CloseAction ==
    /\ pc = "close" /\ wb' = Used
    /\ IF plan.kind = "tune" /\ VerifyHolds
       THEN result' \in [family : {plan.family}, settled : {FALSE}, same : {FALSE, Symptom}]
       ELSE result' = NoResult
    /\ recent' = IF plan.kind = "tune" /\ VerifyHolds /\ plan.family \in Relative
                 THEN [recent EXCEPT ![plan.family] = plan.target] ELSE recent
    /\ pc' = "publish" /\ plan' = None
    /\ UNCHANGED <<printer, packVars, wbPart, seen, big, jobs, faults>>

(* The runtime is started anew: the pack object and the whiteboard are      *)
(* gone, the results are in the database.                                   *)
Restart ==
    /\ faults < MaxFaults /\ faults' = faults + 1
    /\ grace' = FALSE /\ cache' = None /\ future' = None
    /\ cooldown' = {}
    /\ wb' = NotPublished
    /\ wbPart' = None /\ pc' = "publish" /\ plan' = None
    /\ seen' = FALSE /\ big' = {}
    /\ UNCHANGED <<printer, result, recent, jobs>>

-----------------------------------------------------------------------------
CycleStep == PublishFault \/ Publish \/ Compile \/ Realized
             \/ RealizeRaises \/ RunBuiltin \/ CloseAction
Beside == PanelStart \/ Advance \/ Finish \/ Attention \/ DismissDialog \/ Unload
          \/ GraceEnds \/ SettleEnds \/ CooldownEnds \/ ResultsGoBy
Next == CycleStep \/ Beside \/ Restart

Spec == Init /\ [][Next]_vars
-----------------------------------------------------------------------------
(* pack.py:770: vision facts of another job, capture mode or lifecycle are  *)
(* not shown with a state, except by the one publish that took over a       *)
(* refresh which was started earlier (pack.py:869).                         *)
VisionOfThisJob ==
    wb.vision # None /\ wb.snap # None /\ wb.vision.of # Context(wb.snap) => wb.drained

(* pack.py:248: tuning is planned only on a status that was really read,    *)
(* never on the state that is reused while the printer does not answer.     *)
NoBlindTuning == pc = "act" /\ plan.kind = "tune" => wb.read

(* pack.py:1436, 2627: START is never planned while the part of a job that  *)
(* this process saw printing, or started, is still on the bed: not after a  *)
(* cancel, an outage, a finish between two reads.                           *)
StartOnlyOnEmptyBed == pc = "act" /\ plan.kind = "start" => ~(part /\ seen)

(* pack.py:497: after a BIG step that returned the planner gets no action   *)
(* of the family until the cooldown is over.                                *)
VerifiedBigCoolsDown == pc = "act" /\ plan.kind = "tune" => plan.family \notin big

(* pack.py:1979, 2110, 2203: no sequence of steps leaves the envelope.      *)
EnvelopeKept == \A f \in Families : val[f] \in Lo .. Hi

(* What the pack lets the planner tune (pack.py:248, 497, 1979): only on a  *)
(* status really read, not while the family cools down from a BIG step, and *)
(* never out of the envelope, across outages, jobs and restarts of caches.  *)
TuningInv == TypeOK /\ NoBlindTuning /\ VerifiedBigCoolsDown /\ EnvelopeKept

=============================================================================
