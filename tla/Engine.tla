---- MODULE Engine ----
(***************************************************************************)
(* wallee_v6/engine.py over the durable state of runtime_db.py, with the   *)
(* execution barrier of packs/base.py, the approvals of human.py and the   *)
(* control lease of runtime_control.py.                                    *)
(*                                                                         *)
(* Several processes (the runtime loop of main.py, the managed proofs of   *)
(* hardware_smoke.py) share one data directory: the database, the lock     *)
(* file and the machine.  Each has its own whiteboard and lock manager,    *)
(* may crash between any two commits and may be started again.             *)
(*                                                                         *)
(* A step ends at a commit, a hardware effect or a return.  The world is   *)
(* abstracted to facts[p], the actions whose preconditions hold in p's     *)
(* whiteboard; it changes only where the code publishes raw state, and is  *)
(* forgotten when a call ends, since the next one begins by publishing.    *)
(*                                                                         *)
(* Plan ids are uuids, never reused.  PlanIR refuses a sequence that names *)
(* an action twice, so a plan creates at most one run of an action: the    *)
(* pair <<plan, action>> stands both for the action_run_id and for the     *)
(* idempotency key, which hashes the plan id, the action id and arguments  *)
(* that are fixed per action.                                              *)
(***************************************************************************)
EXTENDS RuntimeDB, ControlLease, FiniteSets

CONSTANTS
    Actions,        \* action ids of the packs' candidate actions
    LockKeys,       \* resource domains
    RequiredLocks,  \* RequiredLocks[a]: action.required_locks
    NeedsApproval,  \* actions with approval_required
    AutoApproved,   \* of those, LOW hazard while config.auto_approve_low_hazard
    Builtin,        \* actions with owner_pack = "builtin"
    NonfatalWait,   \* builtin WAIT_UNTIL actions with nonfatal_timeout
    Tuning,         \* actions with a TUNE_ verb
    Horizon,        \* longest plan sequence (3 in PlanIR)
    MaxPlans,       \* bound: plans ever stored
    MaxApprovals,   \* bound: approval records per run
    NoAction        \* act[p] while no action is in hand

ASSUME EngineAssumption ==
    /\ RequiredLocks \in [Actions -> SUBSET LockKeys]
    /\ NeedsApproval \subseteq Actions
    /\ AutoApproved \subseteq Actions
    /\ Builtin \subseteq Actions
    /\ NonfatalWait \subseteq Builtin
    /\ Tuning \subseteq Actions
    /\ Horizon \in Nat /\ MaxPlans \in Nat /\ MaxApprovals \in Nat
    /\ NoAction \notin Actions

PlanIds == 1 .. MaxPlans

(* idempotency_key(plan_id, action_id, verb, args_hash)                     *)
Keys == PlanIds \X Actions

VARIABLES
    \* durable, shared by the processes
    plans,          \* plans[i]: who asked for the stored plan i
    action_runs,    \* the action_runs table: the status of each run
    exec_journal,   \* the exec_journal table
    approvals,      \* approvals[r]: the kinds of approval records of run r
    nextPlan,       \* the next unused plan id
    \* per process
    pc,             \* where _execute_actions is
    plan,           \* plan_id of the plan in hand
    todo,           \* its actions not taken up yet
    act,            \* the action in hand
    refresh,        \* refresh_from_frontier: the planner's path
    locks,          \* LockManager._held
    facts,          \* actions whose preconditions hold on the whiteboard
    result,         \* ExecutionResult.status of the action in hand
    interlock,      \* SafetyKernel.interlock.engaged
    \* history
    effects         \* effects[k]: hardware effects performed for key k

dbVars   == <<plans, action_runs, exec_journal, approvals>>
workVars == <<plan, todo, act, refresh, locks, facts, result>>
vars     == <<leaseVars, dbVars, nextPlan, pc, workVars, interlock, effects>>

(* Between two of the deletions of clear_runtime_state.                     *)
Flushing == {"flush_approvals", "flush_journal", "flush_runs", "flush_plans"}

PcLabels == Flushing \cup
            {"down", "unlink", "idle", "store", "open", "flock", "next", "locks", "approval",
             "ask", "authorize", "toctou", "refuse", "execute", "realize",
             "finish", "finalize"}

(* An action run is in hand.                                                *)
Working == {"locks", "approval", "ask", "authorize", "toctou", "refuse",
            "execute", "realize", "finish", "finalize"}

(* Past the control lease: the process may drive the machine.               *)
InControl == Working \cup {"next"}

Results == {"none", "success", "wait_pending", "failed", "expired", "in_flight"}

(* Tables, processes and history are well typed. *)
TypeOK ==
    /\ LeaseTypeOK
    /\ plans \in [PlanIds -> {"none", "planner", "operator"}]
    /\ action_runs \in [Keys -> RowStatuses]
    /\ exec_journal \in [Keys -> JournalStates]
    /\ approvals \in [Keys -> SUBSET ApprovalKinds]
    /\ nextPlan \in 1 .. MaxPlans + 1
    /\ pc \in [Procs -> PcLabels]
    /\ plan \in [Procs -> PlanIds \cup {0}]
    /\ todo \in [Procs -> SUBSET Actions]
    /\ act \in [Procs -> Actions \cup {NoAction}]
    /\ refresh \in [Procs -> BOOLEAN]
    /\ locks \in [Procs -> SUBSET LockKeys]
    /\ facts \in [Procs -> SUBSET Actions]
    /\ result \in [Procs -> Results]
    /\ interlock \in [Procs -> BOOLEAN]
    /\ effects \in [Keys -> Nat]

Init ==
    /\ LeaseInit
    /\ plans = [i \in PlanIds |-> "none"]
    /\ action_runs = [r \in Keys |-> "ABSENT"]
    /\ exec_journal = [k \in Keys |-> "NONE"]
    /\ approvals = [r \in Keys |-> {}]
    /\ nextPlan = 1
    /\ pc = [p \in Procs |-> "down"]
    /\ plan = [p \in Procs |-> 0]
    /\ todo = [p \in Procs |-> {}]
    /\ act = [p \in Procs |-> NoAction]
    /\ refresh = [p \in Procs |-> FALSE]
    /\ locks = [p \in Procs |-> {}]
    /\ facts = [p \in Procs |-> {}]
    /\ result = [p \in Procs |-> "none"]
    /\ interlock = [p \in Procs |-> FALSE]
    /\ effects = [k \in Keys |-> 0]

-----------------------------------------------------------------------------
(* Helpers *)

At(p, label) == pc[p] = label
Goto(p, label) == pc' = [pc EXCEPT ![p] = label]

(* The run in hand, and its idempotency key.                               *)
Key(p) == <<plan[p], act[p]>>

(* Mutant of PutDown: the finally block forgets the locks.                  *)
PutDownLeaksLocks(p) ==
    /\ act' = [act EXCEPT ![p] = NoAction]
    /\ result' = [result EXCEPT ![p] = "none"]
    /\ UNCHANGED locks

(* The finally block at the end of each action: its locks are released.     *)
PutDown(p) ==
    /\ act' = [act EXCEPT ![p] = NoAction]
    /\ locks' = [locks EXCEPT ![p] = {}]
    /\ result' = [result EXCEPT ![p] = "none"]

(* _execute_actions returns or raises: nothing is in hand any more.         *)
Leave(p, label) ==
    /\ Goto(p, label)
    /\ PutDown(p)
    /\ plan' = [plan EXCEPT ![p] = 0]
    /\ todo' = [todo EXCEPT ![p] = {}]
    /\ refresh' = [refresh EXCEPT ![p] = FALSE]
    /\ facts' = [facts EXCEPT ![p] = {}]

(* transition_action_run(run, s), then continue at label; an exception      *)
(* (illegal transition, or no such row) leaves _execute_actions.            *)
Request(p, s, label) ==
    IF MayTransition(action_runs, Key(p), s)
    THEN /\ action_runs' = TransitionActionRun(action_runs, Key(p), s)
         /\ Goto(p, label)
         /\ UNCHANGED workVars
    ELSE /\ Leave(p, "idle")
         /\ UNCHANGED action_runs

(* The same, but the call is the last one before _execute_actions returns.  *)
RequestAndLeave(p, s) ==
    /\ action_runs' = IF MayTransition(action_runs, Key(p), s)
                      THEN TransitionActionRun(action_runs, Key(p), s)
                      ELSE action_runs
    /\ Leave(p, "idle")

(* WorldCompiler._active_locks: derived from the durable DISPATCHED rows.   *)
DispatchedRuns == {r \in Keys : action_runs[r] = "DISPATCHED"}
ActiveLocks == UNION {RequiredLocks[r[2]] : r \in DispatchedRuns}

(* Mutant of Frontier: the locks of dispatched rows are not subtracted.     *)
FrontierIgnoresLocks(f) == f

(* WorldCompiler._build_frontier on the facts f.                            *)
Frontier(f) == {a \in f : RequiredLocks[a] \cap ActiveLocks = {}}

-----------------------------------------------------------------------------
(* Process life cycle *)

(* main() starts; reset_runtime_start_state goes first, if configured.      *)
Start(p) ==
    /\ At(p, "down")
    /\ Goto(p, IF p \in FlushOnStart THEN "flush_approvals" ELSE "idle")
    /\ interlock' = [interlock EXCEPT ![p] = FALSE]
    /\ UNCHANGED <<leaseVars, dbVars, nextPlan, workVars, effects>>

(* clear_runtime_state empties one table after the other: executescript     *)
(* runs outside a transaction, so each DELETE is a commit of its own.  With *)
(* the plans go their runs and with the runs their approvals (the foreign   *)
(* keys cascade); the journal has no foreign key.                           *)
Flush(p, label, next) ==
    /\ p \in FlushOnStart
    /\ At(p, label) /\ Goto(p, next)
    /\ UNCHANGED <<leaseVars, nextPlan, workVars, interlock, effects>>

NoApprovals == approvals' = [r \in Keys |-> {}]
NoRuns      == action_runs' = [r \in Keys |-> "ABSENT"]

FlushApprovals(p) ==
    /\ Flush(p, "flush_approvals", "flush_journal")
    /\ NoApprovals
    /\ UNCHANGED <<plans, action_runs, exec_journal>>

FlushJournal(p) ==
    /\ Flush(p, "flush_journal", "flush_runs")
    /\ exec_journal' = [k \in Keys |-> "NONE"]
    /\ UNCHANGED <<plans, action_runs, approvals>>

FlushRuns(p) ==
    /\ Flush(p, "flush_runs", "flush_plans")
    /\ NoRuns /\ NoApprovals
    /\ UNCHANGED <<plans, exec_journal>>

FlushPlans(p) ==
    /\ Flush(p, "flush_plans", "unlink")
    /\ plans' = [i \in PlanIds |-> "none"]
    /\ NoRuns /\ NoApprovals
    /\ UNCHANGED exec_journal

(* ... and then unlinks the lock file.                                      *)
Unlink(p) ==
    /\ At(p, "unlink")
    /\ UnlinkLock(p)
    /\ Goto(p, "idle")
    /\ UNCHANGED <<dbVars, nextPlan, workVars, interlock, effects>>

(* A crash or power loss at any point, and the ordinary exit through the    *)
(* finally block of main (engine.close): memory and descriptors are gone.   *)
Stop(p) ==
    /\ ~At(p, "down")
    /\ Release(p)
    /\ Leave(p, "down")
    /\ UNCHANGED <<dbVars, nextPlan, interlock, effects>>

-----------------------------------------------------------------------------
(* Taking up a plan *)

(* One runtime cycle up to the planner's answer: raw state is published, a  *)
(* world compiled and the plan validated against its frontier.  PlanIR      *)
(* bounds the sequence and refuses duplicates, so it is a set; the order of *)
(* the sequence is the order in which TakeNext picks.                       *)
Plan(p) ==
    /\ At(p, "idle")
    /\ \E seen \in SUBSET Actions :
        /\ facts' = [facts EXCEPT ![p] = seen]
        /\ \E as \in SUBSET Frontier(seen) :
            /\ as # {} /\ Cardinality(as) <= Horizon
            /\ todo' = [todo EXCEPT ![p] = as]
    /\ Goto(p, "store")
    /\ UNCHANGED <<leaseVars, dbVars, nextPlan, plan, act, refresh, locks, result,
                   interlock, effects>>

(* Mutant of StorePlan: plan ids are not fresh.                             *)
StorePlanReusesId(p, who) ==
    /\ nextPlan \in PlanIds
    /\ plans' = [plans EXCEPT ![nextPlan] = who]
    /\ UNCHANGED <<leaseVars, action_runs, exec_journal, approvals, nextPlan, act, locks,
                   result, interlock, effects>>

(* store_plan commits the plan under a fresh id.                            *)
StorePlan(p, who) ==
    /\ nextPlan \in PlanIds
    /\ plans' = [plans EXCEPT ![nextPlan] = who]
    /\ nextPlan' = nextPlan + 1
    /\ UNCHANGED <<leaseVars, action_runs, exec_journal, approvals, act, locks, result,
                   interlock, effects>>

BeginActions(p) ==
    /\ plan' = [plan EXCEPT ![p] = nextPlan]
    /\ Goto(p, IF Held(p) THEN "next" ELSE "open")

(* execute_plan on a plan that executes.  A plan that tunes had the raw      *)
(* state published once more (main.py), but is not validated again.         *)
ExecutePlan(p) ==
    /\ At(p, "store")
    /\ StorePlan(p, "planner")
    /\ BeginActions(p)
    /\ refresh' = [refresh EXCEPT ![p] = TRUE]
    /\ \E now \in SUBSET Actions :
        /\ now = facts[p] \/ todo[p] \cap Tuning # {}
        /\ facts' = [facts EXCEPT ![p] = now]
    /\ UNCHANGED todo

(* execute_plan on NO_ACTION or CALL_HUMAN: the plan is stored, no more.    *)
ExecuteNothing(p) ==
    /\ At(p, "idle")
    /\ StorePlan(p, "planner")
    /\ UNCHANGED <<pc, plan, todo, refresh, facts>>

(* execute_operator_action: one bounded action, not checked against any     *)
(* frontier, on whatever the whiteboard says.                               *)
ExecuteOperatorAction(p) ==
    /\ At(p, "idle")
    /\ StorePlan(p, "operator")
    /\ BeginActions(p)
    /\ \E a \in Actions, now \in SUBSET Actions :
        /\ todo' = [todo EXCEPT ![p] = {a}]
        /\ facts' = [facts EXCEPT ![p] = now]
    /\ UNCHANGED refresh

(* control_lease.acquire() *)
LeaseOpen(p) ==
    /\ At(p, "open")
    /\ Open(p)
    /\ Goto(p, "flock")
    /\ UNCHANGED <<dbVars, nextPlan, workVars, interlock, effects>>

LeaseTaken(p) ==
    /\ At(p, "flock")
    /\ FlockTaken(p)
    /\ Goto(p, "next")
    /\ UNCHANGED <<dbVars, nextPlan, workVars, interlock, effects>>

(* Mutant of LeaseUnavailable: the answer of acquire() is not looked at.    *)
LeaseAnswerIgnored(p) ==
    /\ At(p, "flock")
    /\ FlockRefused(p)
    /\ Goto(p, "next")
    /\ UNCHANGED <<dbVars, nextPlan, workVars, interlock, effects>>

(* Mutant of LeaseUnavailable: wait for the lease instead of replanning.    *)
LeaseRetriesForever(p) ==
    /\ At(p, "flock")
    /\ FlockRefused(p)
    /\ Goto(p, "open")
    /\ UNCHANGED <<dbVars, nextPlan, workVars, interlock, effects>>

(* "control lease unavailable": replan.                                     *)
LeaseUnavailable(p) ==
    /\ At(p, "flock")
    /\ FlockRefused(p)
    /\ Leave(p, "idle")
    /\ UNCHANGED <<dbVars, nextPlan, interlock, effects>>

-----------------------------------------------------------------------------
(* One action of the plan *)

RestUnchanged == UNCHANGED <<leaseVars, nextPlan, interlock, effects>>

(* The loop is over.                                                        *)
PlanDone(p) ==
    /\ At(p, "next") /\ todo[p] = {}
    /\ Leave(p, "idle")
    /\ RestUnchanged /\ UNCHANGED dbVars

(* refresh_from_frontier: the action has left the frontier, so replan.      *)
FrontierChanged(p) ==
    /\ At(p, "next") /\ refresh[p]
    /\ \E a \in todo[p] : a \notin Frontier(facts[p])
    /\ Leave(p, "idle")
    /\ RestUnchanged /\ UNCHANGED dbVars

(* _create_action_run commits a PROPOSED row.                               *)
TakeNext(p) ==
    /\ At(p, "next")
    /\ plans[plan[p]] # "none"
    /\ \E a \in todo[p] :
        /\ refresh[p] => a \in Frontier(facts[p])
        /\ todo' = [todo EXCEPT ![p] = @ \ {a}]
        /\ act' = [act EXCEPT ![p] = a]
        /\ action_runs' = [action_runs EXCEPT ![<<plan[p], a>>] = "PROPOSED"]
    /\ Goto(p, "locks")
    /\ UNCHANGED <<leaseVars, plans, exec_journal, approvals, nextPlan, plan, refresh,
                   locks, facts, result, interlock, effects>>

(* The plan row has been deleted: the foreign key refuses the new run.      *)
PlanRowGone(p) ==
    /\ At(p, "next") /\ todo[p] # {}
    /\ plans[plan[p]] = "none"
    /\ Leave(p, "idle")
    /\ RestUnchanged /\ UNCHANGED dbVars

(* lock_manager.acquire; a refusal asks for REPLAN_REQUIRED.                *)
AcquireLocks(p) ==
    /\ At(p, "locks")
    /\ IF locks[p] \cap RequiredLocks[act[p]] = {}
       THEN /\ locks' = [locks EXCEPT ![p] = @ \cup RequiredLocks[act[p]]]
            /\ Goto(p, IF act[p] \in NeedsApproval THEN "approval" ELSE "authorize")
            /\ UNCHANGED <<action_runs, plan, todo, act, refresh, facts, result>>
       ELSE RequestAndLeave(p, "REPLAN_REQUIRED")
    /\ RestUnchanged /\ UNCHANGED <<plans, exec_journal, approvals>>

AwaitApproval(p) ==
    /\ At(p, "approval")
    /\ Request(p, "WAITING_APPROVAL", "ask")
    /\ RestUnchanged /\ UNCHANGED <<plans, exec_journal, approvals>>

(* request_approval: automatic for LOW hazard, else an approval that is     *)
(* already recorded, else a message to the human and the plan is left.      *)
RequestApproval(p) ==
    /\ At(p, "ask")
    /\ IF act[p] \in AutoApproved /\ action_runs[Key(p)] # "ABSENT"
       THEN approvals' = [approvals EXCEPT ![Key(p)] = @ \cup {"APPROVE"}]
       ELSE UNCHANGED approvals
    /\ IF HasValidApproval(approvals', Key(p))
       THEN Goto(p, "authorize") /\ UNCHANGED workVars
       ELSE Leave(p, "idle")
    /\ RestUnchanged /\ UNCHANGED <<plans, action_runs, exec_journal>>

Authorize(p) ==
    /\ At(p, "authorize")
    /\ Request(p, "AUTHORIZED", "toctou")
    /\ RestUnchanged /\ UNCHANGED <<plans, exec_journal, approvals>>

(* The preconditions are evaluated again on a fresh compile; then the row   *)
(* is DISPATCHED.                                                           *)
Dispatch(p) ==
    /\ At(p, "toctou") /\ act[p] \in facts[p]
    /\ Request(p, "DISPATCHED", "execute")
    /\ RestUnchanged /\ UNCHANGED <<plans, exec_journal, approvals>>

ToctouFailed(p) ==
    /\ At(p, "toctou") /\ act[p] \notin facts[p]
    /\ Goto(p, "refuse")
    /\ RestUnchanged /\ UNCHANGED <<dbVars, workVars>>

Refuse(p) ==
    /\ At(p, "refuse")
    /\ RequestAndLeave(p, "REPLAN_REQUIRED")
    /\ RestUnchanged /\ UNCHANGED <<plans, exec_journal, approvals>>

-----------------------------------------------------------------------------
(* Execution *)

Outcome(p, res) == result' = [result EXCEPT ![p] = res] /\ Goto(p, "finalize")

(* _execute_builtin: WAIT, WAIT_UNTIL, CALL_HUMAN touch no hardware.  A     *)
(* WAIT_UNTIL slice that runs out is a success only with nonfatal_timeout.  *)
ExecuteBuiltin(p) ==
    /\ At(p, "execute") /\ act[p] \in Builtin
    /\ \E res \in {"success", IF act[p] \in NonfatalWait THEN "wait_pending" ELSE "failed"} :
          Outcome(p, res)
    /\ RestUnchanged /\ UNCHANGED <<dbVars, plan, todo, act, refresh, locks, facts>>

(* What BasePack.execute answers from a journal row that already exists.    *)
JournalAnswer ==
    [s \in JournalStates \ {"NONE"} |->
        CASE s = "IN_FLIGHT" -> "in_flight"
          [] s = "EXPIRED"   -> "expired"
          [] s = "SUCCESS"   -> "success"
          [] OTHER           -> "failed"]

(* Mutant of StartJournal: the machine is driven before the journal row.    *)
StartWithoutJournal(p) ==
    /\ At(p, "execute") /\ act[p] \notin Builtin
    /\ Goto(p, "realize")
    /\ RestUnchanged /\ UNCHANGED <<dbVars, workVars>>

(* BasePack.execute up to the durability barrier.                           *)
StartJournal(p) ==
    /\ At(p, "execute") /\ act[p] \notin Builtin
    /\ IF exec_journal[Key(p)] # "NONE"
       THEN Outcome(p, JournalAnswer[exec_journal[Key(p)]]) /\ UNCHANGED exec_journal
       ELSE /\ exec_journal' = StartExecJournal(exec_journal, Key(p))
            /\ Goto(p, "realize")
            /\ UNCHANGED result
    /\ RestUnchanged
    /\ UNCHANGED <<plans, action_runs, approvals, plan, todo, act, refresh, locks, facts>>

(* Mutant of Realize: an exception is answered by trying again.             *)
RealizeRetries(p) ==
    /\ At(p, "realize")
    /\ effects[Key(p)] < 2
    /\ \E moved \in BOOLEAN, raised \in BOOLEAN :
        /\ moved \/ raised
        /\ effects' = [effects EXCEPT ![Key(p)] = IF moved THEN @ + 1 ELSE @]
        /\ result' = [result EXCEPT ![p] = IF raised THEN @ ELSE "success"]
        /\ Goto(p, IF raised THEN "realize" ELSE "finish")
    /\ UNCHANGED <<leaseVars, dbVars, nextPlan, plan, todo, act, refresh,
                   locks, facts, interlock>>

(* _realize: the machine moves.  It may raise before or after moving.       *)
Realize(p) ==
    /\ At(p, "realize")
    /\ \E moved \in BOOLEAN, raised \in BOOLEAN :
        /\ moved \/ raised
        /\ effects' = [effects EXCEPT ![Key(p)] = IF moved THEN @ + 1 ELSE @]
        /\ result' = [result EXCEPT ![p] = IF raised THEN "failed" ELSE "success"]
    /\ Goto(p, "finish")
    /\ UNCHANGED <<leaseVars, dbVars, nextPlan, plan, todo, act, refresh,
                   locks, facts, interlock>>

(* Mutants of FinishJournal: the result's own status is stored; the row is  *)
(* closed as a success whatever happened.                                   *)
FinishStoresResult(p) ==
    /\ At(p, "finish")
    /\ exec_journal' = FinishExecJournal(exec_journal, Key(p), result[p])
    /\ Goto(p, "finalize")
    /\ RestUnchanged /\ UNCHANGED <<plans, action_runs, approvals, workVars>>

FinishAlwaysSucceeds(p) ==
    /\ At(p, "finish")
    /\ exec_journal' = FinishExecJournal(exec_journal, Key(p), "SUCCESS")
    /\ Goto(p, "finalize")
    /\ RestUnchanged /\ UNCHANGED <<plans, action_runs, approvals, workVars>>

FinishJournal(p) ==
    /\ At(p, "finish")
    /\ exec_journal' = FinishExecJournal(exec_journal, Key(p),
                           IF result[p] = "success" THEN "SUCCESS" ELSE "FAILED")
    /\ Goto(p, "finalize")
    /\ RestUnchanged /\ UNCHANGED <<plans, action_runs, approvals, workVars>>

-----------------------------------------------------------------------------
(* _finalize_action *)

(* failed or expired; in_flight (the journal row was already there and      *)
(* open) is UNKNOWN, trips the interlock and calls a human.                 *)
FinalizeFailed(p) ==
    /\ At(p, "finalize") /\ result[p] \in {"failed", "expired", "in_flight"}
    /\ RequestAndLeave(p, IF result[p] = "in_flight" THEN "UNKNOWN" ELSE "FAILED")
    /\ interlock' = [interlock EXCEPT ![p] =
           @ \/ (result[p] = "in_flight" /\ MayTransition(action_runs, Key(p), "UNKNOWN"))]
    /\ UNCHANGED <<leaseVars, nextPlan, plans, exec_journal, approvals, effects>>

(* Raw state is published for verification, the world compiled and the      *)
(* verify predicate or expected_delta evaluated on it.                      *)
FinalizeVerified(p) ==
    /\ At(p, "finalize") /\ result[p] \in {"success", "wait_pending"}
    /\ IF MayTransition(action_runs, Key(p), "DONE")
       THEN /\ action_runs' = TransitionActionRun(action_runs, Key(p), "DONE")
            /\ PutDown(p)
            /\ Goto(p, "next")
            /\ \E now \in SUBSET Actions : facts' = [facts EXCEPT ![p] = now]
            /\ UNCHANGED <<plan, todo, refresh>>
       ELSE Leave(p, "idle") /\ UNCHANGED action_runs
    /\ UNCHANGED <<leaseVars, nextPlan, plans, exec_journal, approvals, interlock, effects>>

(* Mutant of FinalizeMismatch: the loop goes on with the next action.       *)
FinalizeMismatchContinues(p) ==
    /\ At(p, "finalize") /\ result[p] = "success"
    /\ action_runs' = TransitionActionRun(action_runs, Key(p), "REPLAN_REQUIRED")
    /\ PutDown(p)
    /\ Goto(p, "next")
    /\ RestUnchanged /\ UNCHANGED <<plans, exec_journal, approvals, plan, todo, refresh, facts>>

FinalizeMismatch(p) ==
    /\ At(p, "finalize") /\ result[p] = "success"
    /\ RequestAndLeave(p, "REPLAN_REQUIRED")
    /\ UNCHANGED <<leaseVars, nextPlan, plans, exec_journal, approvals, interlock, effects>>

(* Publishing for verification raises: the row stays DISPATCHED.            *)
FinalizeRaises(p) ==
    /\ At(p, "finalize") /\ result[p] \in {"success", "wait_pending"}
    /\ Leave(p, "idle")
    /\ RestUnchanged /\ UNCHANGED dbVars

-----------------------------------------------------------------------------
(* The operator, through operator_cli.py, and the clock *)

(* HumanGateway.approve and reject; the foreign key needs the run to exist. *)
RecordApproval(r, kind) ==
    /\ action_runs[r] # "ABSENT"
    /\ Cardinality(approvals[r]) < MaxApprovals
    /\ approvals' = [approvals EXCEPT ![r] = @ \cup {kind}]
    /\ UNCHANGED <<leaseVars, plans, action_runs, exec_journal, nextPlan, pc, workVars,
                   interlock, effects>>

(* expires_ts_ms passes.                                                    *)
ApprovalExpires(r) ==
    /\ "APPROVE" \in approvals[r]
    /\ approvals' = [approvals EXCEPT ![r] = (@ \ {"APPROVE"}) \cup {"EXPIRED"}]
    /\ UNCHANGED <<leaseVars, plans, action_runs, exec_journal, nextPlan, pc, workVars,
                   interlock, effects>>

-----------------------------------------------------------------------------
EngineStep(p) ==
    \/ LeaseOpen(p) \/ LeaseTaken(p) \/ LeaseUnavailable(p)
    \/ PlanDone(p) \/ FrontierChanged(p) \/ PlanRowGone(p) \/ TakeNext(p)
    \/ AcquireLocks(p) \/ AwaitApproval(p) \/ RequestApproval(p) \/ Authorize(p)
    \/ Dispatch(p) \/ ToctouFailed(p) \/ Refuse(p)
    \/ ExecuteBuiltin(p) \/ StartJournal(p) \/ Realize(p) \/ FinishJournal(p)
    \/ FinalizeFailed(p) \/ FinalizeVerified(p) \/ FinalizeMismatch(p)
    \/ FinalizeRaises(p)

Operator ==
    \E r \in Keys :
        \/ \E kind \in ApprovalKinds \ {"EXPIRED"} : RecordApproval(r, kind)
        \/ ApprovalExpires(r)

Next ==
    \/ \E p \in Procs :
        \/ Start(p) \/ Unlink(p) \/ Stop(p)
        \/ FlushApprovals(p) \/ FlushJournal(p) \/ FlushRuns(p) \/ FlushPlans(p)
        \/ Plan(p) \/ ExecutePlan(p) \/ ExecuteNothing(p) \/ ExecuteOperatorAction(p)
        \/ EngineStep(p)
    \/ Operator

Spec == Init /\ [][Next]_vars

(* The calls an engine has entered are run to their end: _execute_actions   *)
(* has no unbounded wait (WAIT_UNTIL slices have a deadline, flock does not *)
(* block).  Nothing makes a process start, plan, stop or crash.             *)
FairSpec == Spec /\ \A p \in Procs : WF_vars(EngineStep(p))

-----------------------------------------------------------------------------
(* Properties *)

(* Only one process is past the control lease (engine.py:245), whatever     *)
(* crashed, restarted or is racing for it.                                  *)
SingleWriter ==
    \A p, q \in Procs : pc[p] \in InControl /\ pc[q] \in InControl => p = q

(* The two barriers of the README's safety-critical invariants 4 and 5:     *)
(* while the hardware is being driven, the durable tables already say so.   *)
BarrierBeforeEffect ==
    \A p \in Procs : pc[p] \in {"realize", "finish"} =>
        /\ action_runs[Key(p)] = "DISPATCHED"
        /\ exec_journal[Key(p)] = "IN_FLIGHT"

(* Whatever crashed or was retried, one idempotency key moves the hardware  *)
(* at most once (packs/base.py: "idempotency and journal guarantees").      *)
AtMostOnce == \A k \in Keys : effects[k] <= 1

(* "If power dies after this line returns, the official record still says   *)
(* the hardware may already have started moving" (packs/base.py:96).        *)
EvidenceSurvives == \A k \in Keys : effects[k] > 0 => exec_journal[k] # "NONE"

(* What a start-up flush can have left of a journal row: the journal is     *)
(* emptied before the action runs are.                                      *)
Flushed == IF FlushOnStart = {} THEN {} ELSE {"NONE"}

(* A journal row closed as SUCCESS means the hardware did move, and a DONE  *)
(* row of a pack action rests on such a journal row, never on a failed or   *)
(* an open one: the two tables agree, up to what a flush has deleted.       *)
TablesAgree ==
    /\ \A k \in Keys : exec_journal[k] = "SUCCESS" => effects[k] > 0
    /\ \A k \in Keys : action_runs[k] = "DONE" /\ k[2] \notin Builtin
                          => exec_journal[k] \in {"SUCCESS"} \cup Flushed

(* What crashes, restarts and a flush under a running engine leave intact   *)
(* (runtime_db.py:180): one key has moved the hardware at most once, and    *)
(* the tables agree up to what was deleted.                                 *)
SurvivesFlush == AtMostOnce /\ TablesAgree

(* An action that needs a human was not dispatched on anything but an       *)
(* approval bound to this run and these arguments (human.py:67).            *)
ApprovalGate ==
    \A r \in Keys :
        /\ r[2] \in NeedsApproval
        /\ action_runs[r] \in Statuses \ {"PROPOSED", "WAITING_APPROVAL"}
        => approvals[r] \cap {"APPROVE", "EXPIRED"} # {}

(* A plan stops at the first action that did not end DONE: of the runs of   *)
(* one plan, at most one is not DONE (the breaks of _execute_actions).      *)
StopsAtFirstFailure ==
    \A r, s \in Keys :
        /\ r # s /\ r[1] = s[1]
        /\ action_runs[r] # "ABSENT" /\ action_runs[s] # "ABSENT"
        => action_runs[r] = "DONE" \/ action_runs[s] = "DONE"

(* Two DISPATCHED rows never claim the same lock through the planner's      *)
(* path: a row left behind by a crash or an exception keeps its locks out   *)
(* of the frontier (WorldCompiler._active_locks).  The operator path does   *)
(* not consult the frontier and is exempt.                                  *)
DispatchedLocksDisjoint ==
    \A r, s \in DispatchedRuns :
        r # s /\ plans[r[1]] = "planner" /\ plans[s[1]] = "planner"
        => RequiredLocks[r[2]] \cap RequiredLocks[s[2]] = {}

(* Every exit of an action, by break, return or exception, releases the     *)
(* in-process locks, so the lock manager never refuses one.                 *)
LocksNeverLeak ==
    /\ \A p \in Procs : pc[p] \notin Working => locks[p] = {}
    /\ \A p \in Procs : At(p, "locks") => locks[p] \cap RequiredLocks[act[p]] = {}

(* The journal is only ever consulted for keys of the plan in hand, and     *)
(* plan ids are fresh, so the "already in flight" answer of BasePack and    *)
(* with it UNKNOWN and the interlock are out of reach: after a crash nobody *)
(* reads the IN_FLIGHT row the barrier left.                                *)
AmbiguityNeverNoticed ==
    /\ \A r \in Keys : action_runs[r] # "UNKNOWN"
    /\ \A p \in Procs : ~interlock[p]

(* What no process has in hand is never touched again: the rows a crash or  *)
(* an exception left DISPATCHED or IN_FLIGHT stay so across restarts, and   *)
(* an approval recorded after request_approval has returned moves nothing.  *)
AbandonedIsFrozen ==
    [][\A k \in Keys :
          (\A p \in Procs : pc[p] \in Working => Key(p) # k)
          => /\ exec_journal'[k] = exec_journal[k]
             /\ action_runs[k] # "ABSENT" => action_runs'[k] = action_runs[k]]_vars

(* The journal and the machine behave like a write-ahead log of effects     *)
(* (packs/base.py: "commit `IN_FLIGHT` before touching hardware").          *)
Log == INSTANCE EffectLog WITH log <- exec_journal, moved <- effects
WriteAhead == Log!LogSpec

(* A call of execute_plan or execute_operator_action ends.                  *)
ExecutionEnds ==
    \A p \in Procs : pc[p] \in InControl \cup {"open", "flock"} ~> pc[p] \in {"idle", "down"}

=============================================================================
