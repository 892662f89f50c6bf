---- MODULE Runtime ----
(***************************************************************************)
(* The runtime loop of wallee_v6/main.py with plan_with_retry and the      *)
(* safety kernel of wallee_v6/safety.py.  Engine.execute_plan is one step  *)
(* here, abstracted to what the loop can tell apart of its outcome; the    *)
(* module Engine looks inside it.                                          *)
(*                                                                         *)
(* Time is a Tick that may fall between any two steps; the two monotonic   *)
(* clocks the loop reads are kept as ages that stop growing once they are  *)
(* past their limit.                                                       *)
(***************************************************************************)
EXTENDS Integers

CONSTANTS
    Cycles,             \* --cycles N (--once is 1)
    RetryAttempts,      \* config.planner_retry_attempts
    FailuresToNoAction, \* config.planner_failures_before_no_action
    MinInterval,        \* config.planner_min_interval_seconds, in ticks
    BeatTimeout,        \* config.heartbeat_timeout_seconds, in ticks
    Persistent          \* RUNTIME_CYCLE_FAILURES_BEFORE_PERSISTENT

ASSUME RuntimeAssumption ==
    /\ Cycles \in Nat /\ MinInterval \in Nat /\ BeatTimeout \in Nat
    /\ RetryAttempts \in Nat \ {0}
    /\ FailuresToNoAction \in Nat \ {0}
    /\ Persistent \in Nat \ {0}

VARIABLES
    forever,            \* args.forever: --forever instead of --cycles
    monitor,            \* config.monitor_when_inactive
    pc,
    world,              \* the world compiled last
    decided,            \* the world the plan was chosen in
    plan,               \* Python's plan: it outlives the cycle
    plannedIn,          \* history: the cycle plan was assigned in
    attempt,            \* attempts of plan_with_retry so far in this cycle
    failures,           \* consecutive_planner_failures, up to FailuresToNoAction
    cycleFailures,      \* consecutive_cycle_failures, up to Persistent
    cycle_index,        \* cycles completed (not counted with forever)
    stopAfter,          \* stop_after_cycle
    plannerAge,         \* ticks since last_planner_attempt_monotonic
    beatAge,            \* ticks since the last heartbeat
    interlock           \* safety.interlock.engaged

planVars  == <<decided, plan, plannedIn>>
countVars == <<failures, cycleFailures, cycle_index>>
clockVars == <<plannerAge, beatAge>>
argVars   == <<forever, monitor>>
vars == <<argVars, pc, world, planVars, attempt, countVars, stopAfter, clockVars, interlock>>

(* What _world_has_active_print, _world_is_actionable_print, the planner's  *)
(* option count and the terminal guard tell apart.                          *)
Worlds == {"inactive", "preparing", "no_options", "ready", "terminal"}

HasActivePrint == world # "inactive"
IsActionable(w) == w \in {"no_options", "ready", "terminal"}
TerminalGuard(w) == ~IsActionable(w) \/ w = "terminal"

(* CONTROL and TUNE are EXECUTE plans, without and with a tuning action.    *)
Plans == {"NO_ACTION", "CALL_HUMAN", "CONTROL", "TUNE"}

PcLabels == {"cycle", "decide", "planner", "failed", "guard", "execute", "poll",
             "write", "except", "end", "stopped"}

(* The loop and its counters are well typed; attempts stay within the bound of plan_with_retry (main.py:282). *)
TypeOK ==
    /\ forever \in BOOLEAN /\ monitor \in BOOLEAN
    /\ pc \in PcLabels
    /\ world \in Worlds /\ decided \in Worlds
    /\ plan \in Plans
    /\ plannedIn \in -1 .. Cycles + 1
    /\ attempt \in 0 .. RetryAttempts
    /\ failures \in 0 .. FailuresToNoAction
    /\ cycleFailures \in 0 .. Persistent
    /\ cycle_index \in 0 .. Cycles + 1
    /\ stopAfter \in BOOLEAN
    /\ plannerAge \in 0 .. MinInterval
    /\ beatAge \in 0 .. BeatTimeout + 1
    /\ interlock \in BOOLEAN

Capped(n, limit) == IF n < limit THEN n + 1 ELSE limit

(* build_runtime has just returned.                                         *)
Init ==
    /\ forever \in BOOLEAN /\ monitor \in BOOLEAN
    /\ pc = "cycle"
    /\ world = "inactive" /\ decided = "inactive"
    /\ plan = "NO_ACTION" /\ plannedIn = -1
    /\ attempt = 0 /\ failures = 0 /\ cycleFailures = 0 /\ cycle_index = 0
    /\ stopAfter = FALSE
    /\ plannerAge = MinInterval /\ beatAge = 0
    /\ interlock = FALSE

-----------------------------------------------------------------------------
Decide(kind) ==
    /\ plan' = kind
    /\ plannedIn' = cycle_index

(* Mutant of Publish: stop_after_cycle is not reset.                        *)
PublishKeepsStop ==
    /\ pc = "cycle"
    /\ world' \in Worlds
    /\ decided' = world'
    /\ attempt' = 0
    /\ pc' = "decide"
    /\ UNCHANGED <<plan, plannedIn, countVars, stopAfter, clockVars, interlock>>

(* Raw state is published and the decision world compiled.                  *)
Publish ==
    /\ pc = "cycle"
    /\ world' \in Worlds
    /\ decided' = world'
    /\ stopAfter' = FALSE
    /\ attempt' = 0
    /\ pc' = "decide"
    /\ UNCHANGED <<plan, plannedIn, countVars, clockVars, interlock>>

CadenceHolds == MinInterval > 0 /\ plannerAge < MinInterval

BypassPlanner == ~IsActionable(world) \/ world = "no_options" \/ CadenceHolds

(* Mutant of Bypass: the sense of monitor_when_inactive is inverted.        *)
BypassInverted ==
    /\ pc = "decide" /\ BypassPlanner
    /\ Decide("NO_ACTION")
    /\ stopAfter' = (~HasActivePrint /\ monitor)
    /\ failures' = 0
    /\ pc' = "execute"
    /\ UNCHANGED <<world, decided, attempt, cycleFailures, cycle_index, clockVars, interlock>>

Bypass ==
    /\ pc = "decide" /\ BypassPlanner
    /\ Decide("NO_ACTION")
    /\ stopAfter' = (~HasActivePrint /\ ~monitor)
    /\ failures' = 0
    /\ pc' = "execute"
    /\ UNCHANGED <<world, decided, attempt, cycleFailures, cycle_index, clockVars, interlock>>

CallPlanner ==
    /\ pc = "decide" /\ ~BypassPlanner
    /\ plannerAge' = 0
    /\ attempt' = 1
    /\ pc' = "planner"
    /\ UNCHANGED <<world, planVars, countVars, stopAfter, beatAge, interlock>>

(* plan_with_retry: planner.plan and validate_plan did not raise.           *)
PlannerAnswers ==
    /\ pc = "planner"
    /\ \E kind \in Plans : Decide(kind)
    /\ failures' = 0
    /\ pc' = "guard"
    /\ UNCHANGED <<world, decided, attempt, cycleFailures, cycle_index, stopAfter,
                   clockVars, interlock>>

(* Mutant of PlannerRetries: one attempt too many.                          *)
PlannerRetriesOnceMore ==
    /\ pc = "planner" /\ attempt <= RetryAttempts
    /\ attempt' = attempt + 1
    /\ UNCHANGED <<pc, world, planVars, countVars, stopAfter, clockVars, interlock>>

PlannerRetries ==
    /\ pc = "planner" /\ attempt < RetryAttempts
    /\ attempt' = attempt + 1
    /\ UNCHANGED <<pc, world, planVars, countVars, stopAfter, clockVars, interlock>>

PlannerGivesUp ==
    /\ pc = "planner" /\ attempt = RetryAttempts
    /\ failures' = Capped(failures, FailuresToNoAction)
    /\ pc' = "failed"
    /\ UNCHANGED <<world, planVars, attempt, cycleFailures, cycle_index, stopAfter,
                   clockVars, interlock>>

(* _should_stop(args, cycle_index + 1), and the loop's two ways on.         *)
EndCycle ==
    /\ cycle_index' = IF forever THEN cycle_index ELSE cycle_index + 1
    /\ pc' = IF ~forever /\ cycle_index' >= Cycles THEN "stopped" ELSE "cycle"

(* "continuing without execution": neither execute_plan nor safety.poll.    *)
SkipExecution ==
    /\ pc = "failed" /\ failures < FailuresToNoAction
    /\ EndCycle
    /\ UNCHANGED <<world, planVars, attempt, failures, cycleFailures, stopAfter,
                   clockVars, interlock>>

(* Mutant of DegradeToNoAction: the previous cycle's plan is used.          *)
DegradeToLastPlan ==
    /\ pc = "failed" /\ failures >= FailuresToNoAction
    /\ pc' = "guard"
    /\ UNCHANGED <<world, planVars, attempt, countVars, stopAfter, clockVars, interlock>>

DegradeToNoAction ==
    /\ pc = "failed" /\ failures >= FailuresToNoAction
    /\ Decide("NO_ACTION")
    /\ pc' = "guard"
    /\ UNCHANGED <<world, decided, attempt, countVars, stopAfter, clockVars, interlock>>

(* A plan that tunes: raw state is published once more, and the terminal    *)
(* guard may put NO_ACTION in its place.  Other plans pass.                 *)
Guard ==
    /\ pc = "guard"
    /\ IF plan = "TUNE"
       THEN /\ world' \in Worlds
            /\ IF TerminalGuard(world') THEN decided' = world' /\ Decide("NO_ACTION")
                                        ELSE UNCHANGED planVars
       ELSE UNCHANGED <<world, planVars>>
    /\ pc' = "execute"
    /\ UNCHANGED <<attempt, countVars, stopAfter, clockVars, interlock>>

(* engine.execute_plan: NO_ACTION and CALL_HUMAN beat; an EXECUTE plan      *)
(* beats after each verified action and not when it is refused or fails.    *)
ExecutePlan ==
    /\ pc = "execute"
    /\ beatAge' \in {0} \cup (IF plan \in {"CONTROL", "TUNE"} THEN {beatAge} ELSE {})
    /\ pc' = "poll"
    /\ UNCHANGED <<world, planVars, attempt, countVars, stopAfter, plannerAge, interlock>>

(* SafetyKernel.poll: trip only when the heartbeat is stale right now.      *)
Poll ==
    /\ pc = "poll"
    /\ interlock' = (interlock \/ beatAge > BeatTimeout)
    /\ pc' = "write"
    /\ UNCHANGED <<world, planVars, attempt, countVars, stopAfter, clockVars>>

(* The cycle's artifacts are on disk.                                       *)
WriteArtifacts ==
    /\ pc = "write"
    /\ pc' = IF stopAfter THEN "stopped" ELSE "end"
    /\ cycleFailures' = IF stopAfter THEN cycleFailures ELSE 0
    /\ UNCHANGED <<world, planVars, attempt, failures, cycle_index, stopAfter,
                   clockVars, interlock>>

(* An exception in any step but the planner's own, which are caught there.  *)
Raise ==
    /\ pc \in {"cycle", "decide", "failed", "guard", "execute", "poll", "write"}
    /\ pc' = "except"
    /\ UNCHANGED <<world, planVars, attempt, countVars, stopAfter, clockVars, interlock>>

(* Mutant of HandleException: continue without counting the cycle.          *)
HandleUncounted ==
    /\ pc = "except"
    /\ cycleFailures' = Capped(cycleFailures, Persistent)
    /\ pc' = "cycle"
    /\ UNCHANGED <<world, planVars, attempt, failures, cycle_index, stopAfter,
                   clockVars, interlock>>

(* It is recorded and the loop goes on.                                     *)
HandleException ==
    /\ pc = "except"
    /\ cycleFailures' = Capped(cycleFailures, Persistent)
    /\ pc' = "end"
    /\ UNCHANGED <<world, planVars, attempt, failures, cycle_index, stopAfter,
                   clockVars, interlock>>

NextCycle ==
    /\ pc = "end"
    /\ EndCycle
    /\ UNCHANGED <<world, planVars, attempt, failures, cycleFailures, stopAfter,
                   clockVars, interlock>>

Tick ==
    /\ pc # "stopped"
    /\ plannerAge' = Capped(plannerAge, MinInterval)
    /\ beatAge' = Capped(beatAge, BeatTimeout + 1)
    /\ UNCHANGED <<pc, world, planVars, attempt, countVars, stopAfter, interlock>>

(* KeyboardInterrupt, or an exception out of the handler: finally, return.  *)
Interrupt ==
    /\ pc # "stopped"
    /\ pc' = "stopped"
    /\ UNCHANGED <<world, planVars, attempt, countVars, stopAfter, clockVars, interlock>>

LoopStep ==
    \/ Publish \/ Bypass \/ CallPlanner
    \/ PlannerAnswers \/ PlannerRetries \/ PlannerGivesUp
    \/ SkipExecution \/ DegradeToNoAction \/ Guard
    \/ ExecutePlan \/ Poll \/ WriteArtifacts
    \/ Raise \/ HandleException \/ NextCycle

(* The arguments do not change during a run.                               *)
Next == (LoopStep \/ Tick \/ Interrupt) /\ UNCHANGED argVars

Spec == Init /\ [][Next]_vars

(* Every call in the loop returns: planner requests, HTTP and serial reads  *)
(* have timeouts, waits are sliced.                                         *)
FairSpec == Spec /\ WF_vars(LoopStep /\ UNCHANGED argVars)

-----------------------------------------------------------------------------
(* A plan that drives the machine was chosen in an actionable world of this *)
(* very cycle, and a tuning plan still stands in the world published last   *)
(* before it (main.py:1098-1145): neither a failed planner call, an         *)
(* exception nor a retry makes the loop execute an older plan.              *)
ExecutesOnlyFreshPlans ==
    pc = "execute" =>
        /\ plannedIn = cycle_index
        /\ plan \in {"CONTROL", "TUNE"} => IsActionable(decided)
        /\ plan = "TUNE" => ~TerminalGuard(world)

(* --once and --cycles N end the process whatever raises and however often  *)
(* the planner fails: every way round the loop counts (main.py:1080, 1228). *)
RunEnds == ~forever => <>(pc = "stopped")

(* The loop leaves through stop_after_cycle only in a cycle that found no   *)
(* print and was told not to wait for one: the flag never outlives a cycle  *)
(* that raised after setting it (main.py:994, 998, 1200).                   *)
StopsOnlyWhenInactive ==
    stopAfter /\ pc \in {"execute", "poll", "write"} => decided = "inactive" /\ ~monitor

(* Conversely, once there is no print any more and the cycles stop raising, *)
(* a runtime that does not monitor ends, even with --forever.               *)
InactiveRunStops ==
    ~monitor => (<>[](decided = "inactive" /\ pc # "except") => <>(pc = "stopped"))

(* What stops a run: the loop's counters stay in range, each way round the  *)
(* loop counts, the stop flag is honoured only in the cycle that set it,    *)
(* and an inactive printer ends a run that does not monitor.                *)
RunStops == [](TypeOK /\ StopsOnlyWhenInactive) /\ RunEnds /\ InactiveRunStops

=============================================================================
