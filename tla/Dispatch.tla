---- MODULE Dispatch ----
(***************************************************************************)
(* The first-generation engine, wallee/engine: the gates of dispatch.py    *)
(* over the action ledger (ledger/db.py) and the per-device diaries        *)
(* (ledger/diary.py), with the crash recovery of reconcile.py.             *)
(*                                                                         *)
(* One engine thread takes snapshots of the ledger and walks through them, *)
(* one gate at a time.  Meanwhile the agent proposes actions and chains of *)
(* actions (agent/loop.py), operators approve, reject and raise the        *)
(* emergency stop (human/cli.py, human/telegram.py), time passes, any      *)
(* database or whiteboard call may raise, and the process may die and be   *)
(* started again, with or without a reboot of the machine it runs on.      *)
(*                                                                         *)
(* A command is a tool with its parameters.  Rows are never deleted and    *)
(* are numbered in the order of created_ts.  The packs do not change, so   *)
(* the gate for unknown tools, which the agent checks first, never fires.  *)
(***************************************************************************)
EXTENDS Integers, Sequences, FiniteSets

CONSTANTS
    Commands,           \* tool and parameters
    Group,              \* Group[c]: tool.device_group
    GateBypass,         \* commands of non-hardware tools
    NeedsApproval,      \* commands of tools with requires_approval
    Resume,             \* the commands of resume_print
    MaxAge,             \* max_proposal_age_ms, in ticks
    ApprovalTimeout,    \* engine.approval_timeout, in ticks
    MaxChain,           \* longest ACTION_CHAIN (MAX_CHAIN_LENGTH)
    MaxActions,         \* bound: rows of the ledger
    MaxDecisions,       \* bound: approval records per row
    MaxFaults,          \* bound: crashes and exceptions
    ProposeUntil,       \* bound: the agent proposes until this time
    MaxTime             \* bound: the clock

ASSUME DispatchAssumption ==
    /\ GateBypass \subseteq Commands /\ Resume \subseteq Commands
    /\ NeedsApproval \subseteq Commands \ GateBypass
    /\ \A n \in {MaxAge, ApprovalTimeout, MaxChain, MaxActions, MaxDecisions,
                 MaxFaults, ProposeUntil, MaxTime} : n \in Nat

Ids == 1 .. MaxActions

(* idempotency_key: the command, and which attempt at it this is.           *)
Keys == Commands \X (0 .. MaxActions - 1)

VARIABLES
    \* durable
    rows,               \* what never changes of the actions table, oldest first
    status,             \* actions.status
    approvals,          \* approvals[i]: the decisions recorded for row i, in order
    diary,              \* idempotency_exec
    \* the whiteboard
    estop,              \* safety.estop
    \* the agent
    draft,              \* links of a chain it is still proposing
    \* the engine thread
    pc,
    phase,              \* which snapshot poll_once is working through
    todo,               \* the rows of the snapshot still to do
    cur,                \* the proposal in hand
    result,             \* what the tool returned
    \* time and trouble
    clock,              \* true time
    bootAt,             \* when the machine booted: time.monotonic() is clock - bootAt
    faults,             \* crashes and exceptions so far
    \* history
    effects,            \* effects[k]: times the hardware was driven for key k
    sinceStop           \* hardware calls begun since safety.estop came on

ledgerVars == <<rows, status, approvals, diary>>
flagVars   == <<estop, sinceStop>>
engineVars == <<pc, phase, todo, cur, result>>
timeVars   == <<clock, bootAt>>
vars == <<ledgerVars, flagVars, draft, engineVars, timeVars, faults, effects>>

Active   == {"PROPOSED", "WAITING_APPROVAL", "DISPATCHED", "UNKNOWN"}
Statuses == Active \cup {"DONE", "FAILED", "REJECTED"}

Rows == 1 .. Len(rows)
Cmd(i) == rows[i].cmd
Key(i) == <<rows[i].cmd, rows[i].retry>>
Hardware(i) == Cmd(i) \notin GateBypass
WithStatus(s) == {i \in Rows : status[i] = s}

Gates  == {"chain", "interlock", "guard", "deadline", "approval", "precheck", "diary",
           "dispatch"}
InHand == Gates \cup {"bypass", "execute", "record", "settle", "handler", "fail"}

(* The records, the snapshot and the proposal in hand are well typed. *)
TypeOK ==
    /\ rows \in Seq([cmd : Commands, retry : 0 .. MaxActions - 1, chain : 0 .. MaxActions,
                     seq : 0 .. MaxChain, born : 0 .. MaxTime, mono : 0 .. MaxTime])
    /\ Len(rows) <= MaxActions
    /\ status \in [Ids -> Statuses \cup {"ABSENT"}]
    /\ \A i \in Ids : status[i] = "ABSENT" <=> i > Len(rows)
    /\ approvals \in [Ids -> Seq({"APPROVE", "REJECT"})]
    /\ diary \in [Keys -> {"NONE", "IN_FLIGHT", "SUCCESS", "FAILED"}]
    /\ estop \in BOOLEAN
    /\ pc \in InHand \cup {"down", "reconcile", "sleep", "scan"}
    /\ phase \in {"none", "PROPOSED", "WAITING_APPROVAL"}
    /\ todo \subseteq Rows
    /\ cur \in Rows \cup {0} /\ (pc \in InHand => cur \in Rows)
    /\ result \in {"none", "ok", "error"}
    /\ clock \in 0 .. MaxTime /\ bootAt \in 0 .. clock
    /\ faults \in 0 .. MaxFaults
    /\ effects \in [Keys -> Nat]
    /\ sinceStop \in Nat

Init ==
    /\ rows = <<>>
    /\ status = [i \in Ids |-> "ABSENT"]
    /\ approvals = [i \in Ids |-> <<>>]
    /\ diary = [k \in Keys |-> "NONE"]
    /\ estop = FALSE
    /\ draft = [links |-> <<>>, chain |-> 0, seq |-> 0]
    /\ pc = "down" /\ phase = "none" /\ todo = {} /\ cur = 0 /\ result = "none"
    /\ clock = 0 /\ bootAt = 0 /\ faults = 0
    /\ effects = [k \in Keys |-> 0]
    /\ sinceStop = 0

-----------------------------------------------------------------------------
(* The agent: agent/loop.py _route_decision and Ledger.propose *)

Monotonic == clock - bootAt
Attempts(c) == {i \in Rows : Cmd(i) = c}

(* Mutant of RetryNumber: only the attempts that failed are counted.        *)
RetryCountsFailures(c) == Cardinality({i \in Attempts(c) : status[i] = "FAILED"})

(* len(existing): the first attempt has no suffix, the next ":retry:1" ...  *)
RetryNumber(c) == Cardinality(Attempts(c))

(* Ledger.propose; a command that is still active is dropped.               *)
Propose(c, chain, seq) ==
    IF \E i \in Attempts(c) : status[i] \in Active
    THEN UNCHANGED <<rows, status>>
    ELSE /\ Len(rows) < MaxActions
         /\ rows' = Append(rows, [cmd |-> c, retry |-> RetryNumber(c), chain |-> chain,
                                  seq |-> seq, born |-> clock, mono |-> Monotonic])
         /\ status' = [status EXCEPT ![Len(rows) + 1] = "PROPOSED"]

AgentRuns == pc \notin {"down", "reconcile"} \/ (pc = "reconcile" /\ phase # "none")

(* An ACTION, or a CALL_HUMAN, which is proposed like one.                  *)
ProposeAction(c) ==
    /\ AgentRuns /\ draft.links = <<>> /\ clock <= ProposeUntil
    /\ Propose(c, 0, 0)
    /\ UNCHANGED <<approvals, diary, flagVars, draft, engineVars, timeVars, faults, effects>>

(* An ACTION_CHAIN gets a fresh chain_id ...                                *)
DecideChain ==
    /\ AgentRuns /\ draft.links = <<>> /\ clock <= ProposeUntil
    /\ \E n \in 2 .. MaxChain : \E links \in [1 .. n -> Commands] :
          /\ Len(rows) + n <= MaxActions
          /\ draft' = [links |-> links, chain |-> Len(rows) + 1, seq |-> 0]
    /\ UNCHANGED <<ledgerVars, flagVars, engineVars, timeVars, faults, effects>>

(* ... and its links are proposed one by one, while the engine is already   *)
(* working on the first.  What propose returns is not looked at.            *)
ProposeLink ==
    /\ AgentRuns /\ draft.links # <<>>
    /\ Propose(Head(draft.links), draft.chain, draft.seq)
    /\ draft' = [draft EXCEPT !.links = Tail(@), !.seq = @ + 1]
    /\ UNCHANGED <<approvals, diary, flagVars, engineVars, timeVars, faults, effects>>

-----------------------------------------------------------------------------
(* Operators and the clock *)

(* Ledger.record_approval, for a row that waits, ran or was rejected: the   *)
(* Telegram commands do not ask.  Records of rows that need no approval are *)
(* read by nobody.                                                          *)
RecordApproval(i, decision) ==
    /\ Cmd(i) \in NeedsApproval /\ Len(approvals[i]) < MaxDecisions
    /\ approvals' = [approvals EXCEPT ![i] = Append(@, decision)]
    /\ UNCHANGED <<rows, status, diary, flagVars, draft, engineVars, timeVars, faults, effects>>

(* safety.estop is published with a time to live, and expires.              *)
ToggleEstop ==
    /\ estop' = ~estop
    /\ sinceStop' = 0
    /\ UNCHANGED <<ledgerVars, draft, engineVars, timeVars, faults, effects>>

(* A tick is longer than the agent needs to propose a chain.               *)
Tick ==
    /\ clock < MaxTime /\ draft.links = <<>>
    /\ clock' = clock + 1
    /\ UNCHANGED <<ledgerVars, flagVars, draft, engineVars, bootAt, faults, effects>>

-----------------------------------------------------------------------------
(* Life cycle and reconcile *)

EngineOnly == UNCHANGED <<rows, approvals, flagVars, draft, timeVars, faults, effects>>

(* main(): reconcile before the engine and the agent are started.           *)
Boot ==
    /\ pc = "down"
    /\ pc' = "reconcile" /\ phase' = "none"
    /\ todo' = WithStatus("DISPATCHED")
    /\ EngineOnly /\ UNCHANGED <<status, diary, cur, result>>

(* The process dies, or the machine with its clock; the thread's and the    *)
(* agent's memory is gone.                                                  *)
Crash ==
    /\ pc # "down" /\ faults < MaxFaults
    /\ faults' = faults + 1
    /\ pc' = "down" /\ phase' = "none" /\ todo' = {} /\ cur' = 0 /\ result' = "none"
    /\ draft' = [draft EXCEPT !.links = <<>>]
    /\ bootAt' \in {bootAt, clock}
    /\ UNCHANGED <<ledgerVars, flagVars, clock, effects>>

(* Mutant of Verdict: what was in flight is tried again.                    *)
VerdictRetries(d) ==
    CASE d = "SUCCESS"   -> "DONE"
      [] d = "IN_FLIGHT" -> "PROPOSED"
      [] OTHER           -> "FAILED"

(* What the diary says of a row found DISPATCHED.                           *)
Verdict(d) ==
    CASE d = "SUCCESS"   -> "DONE"
      [] d = "IN_FLIGHT" -> "UNKNOWN"
      [] OTHER           -> "FAILED"

Oldest(S) == CHOOSE i \in S : \A j \in S : i <= j

ReconcileRow ==
    /\ pc = "reconcile" /\ todo # {}
    /\ LET i == Oldest(todo) IN
        /\ status' = [status EXCEPT ![i] = Verdict(diary[Key(i)])]
        /\ todo' = todo \ {i}
    /\ EngineOnly /\ UNCHANGED <<diary, pc, phase, cur, result>>

ReconcileDone ==
    /\ pc = "reconcile" /\ todo = {}
    /\ pc' = "sleep" /\ phase' = "none"
    /\ EngineOnly /\ UNCHANGED <<status, diary, todo, cur, result>>

-----------------------------------------------------------------------------
(* poll_once *)

PollProposals ==
    /\ pc = "sleep"
    /\ pc' = "scan" /\ phase' = "PROPOSED"
    /\ todo' = WithStatus("PROPOSED")
    /\ EngineOnly /\ UNCHANGED <<status, diary, cur, result>>

PollWaiting ==
    /\ pc = "scan" /\ phase = "PROPOSED" /\ todo = {}
    /\ phase' = "WAITING_APPROVAL"
    /\ todo' = WithStatus("WAITING_APPROVAL")
    /\ EngineOnly /\ UNCHANGED <<status, diary, pc, cur, result>>

PollDone ==
    /\ pc = "scan" /\ phase = "WAITING_APPROVAL" /\ todo = {}
    /\ pc' = "sleep" /\ phase' = "none"
    /\ EngineOnly /\ UNCHANGED <<status, diary, todo, cur, result>>

(* More than 60 s since the last one: reconcile again, in this thread.      *)
PeriodicReconcile ==
    /\ pc = "scan" /\ phase = "WAITING_APPROVAL" /\ todo = {}
    /\ pc' = "reconcile"
    /\ todo' = WithStatus("DISPATCHED")
    /\ EngineOnly /\ UNCHANGED <<status, diary, phase, cur, result>>

(* process_proposal(i)                                                      *)
Take(i) ==
    /\ pc' = "chain" /\ cur' = i
    /\ UNCHANGED status

Skip == UNCHANGED <<status, pc, cur>>
RejectRow(i) == status' = [status EXCEPT ![i] = "REJECTED"] /\ UNCHANGED <<pc, cur>>

TakeProposal ==
    /\ pc = "scan" /\ phase = "PROPOSED" /\ todo # {}
    /\ Take(Oldest(todo))
    /\ todo' = todo \ {Oldest(todo)}
    /\ EngineOnly /\ UNCHANGED <<diary, phase, result>>

(* time.monotonic() - created_mono: negative after a reboot.                *)
Age(i) == Monotonic - rows[i].mono

Latest(i) == approvals[i][Len(approvals[i])]

(* Mutant of TakeWaiting: an approval request never times out.              *)
TakeWaitingForever ==
    /\ pc = "scan" /\ phase = "WAITING_APPROVAL" /\ todo # {}
    /\ LET i == Oldest(todo) IN
        /\ todo' = todo \ {i}
        /\ IF approvals[i] = <<>> THEN Skip
           ELSE IF Latest(i) = "APPROVE" THEN Take(i) ELSE RejectRow(i)
    /\ EngineOnly /\ UNCHANGED <<diary, phase, result>>

TakeWaiting ==
    /\ pc = "scan" /\ phase = "WAITING_APPROVAL" /\ todo # {}
    /\ LET i == Oldest(todo) IN
        /\ todo' = todo \ {i}
        /\ IF Age(i) > ApprovalTimeout THEN RejectRow(i)
           ELSE IF approvals[i] = <<>> THEN Skip
           ELSE IF Latest(i) = "APPROVE" THEN Take(i) ELSE RejectRow(i)
    /\ EngineOnly /\ UNCHANGED <<diary, phase, result>>

-----------------------------------------------------------------------------
(* process_proposal, one gate at a time *)

Pass(label) == pc' = label /\ UNCHANGED <<status, cur>>

(* process_proposal returns; status s is committed first.                   *)
Return(s) ==
    /\ status' = [status EXCEPT ![cur] = s]
    /\ pc' = "scan" /\ cur' = 0
Skipped == pc' = "scan" /\ cur' = 0 /\ UNCHANGED status

GateOnly == EngineOnly /\ UNCHANGED <<diary, phase, todo, result>>

(* Mutant of Predecessors: the step right before this one is left out.      *)
EarlierPredecessors(i) ==
    {j \in Rows : rows[j].chain = rows[i].chain /\ rows[j].seq < rows[i].seq - 1}

(* _get_chain_predecessors *)
Predecessors(i) == {j \in Rows : rows[j].chain = rows[i].chain /\ rows[j].seq < rows[i].seq}

(* Non-hardware tools are dispatched at once, past every gate.              *)
Bypass ==
    /\ pc = "chain" /\ ~Hardware(cur)
    /\ status' = [status EXCEPT ![cur] = "DISPATCHED"]
    /\ pc' = "bypass"
    /\ GateOnly /\ UNCHANGED cur

(* The predecessors are looked at in order; the first that is not DONE      *)
(* decides.                                                                 *)
ChainGate ==
    /\ pc = "chain" /\ Hardware(cur)
    /\ LET open == {j \in Predecessors(cur) : status[j] # "DONE"}
       IN  IF rows[cur].chain = 0 \/ open = {} THEN Pass("interlock")
           ELSE IF status[Oldest(open)] \in Active THEN Skipped ELSE Return("REJECTED")
    /\ GateOnly

(* Mutant of InterlockGate: an approved action is not held up again.        *)
InterlockOnProposals ==
    /\ pc = "interlock"
    /\ IF phase = "PROPOSED" /\ estop THEN Return("REJECTED") ELSE Pass("guard")
    /\ GateOnly

(* safety.estop, then agent.external_pause for resume_print: a flag of the  *)
(* agent that can be up or down at any moment.                              *)
InterlockGate ==
    /\ pc = "interlock"
    /\ \/ estop /\ Return("REJECTED")
       \/ Cmd(cur) \in Resume /\ Return("REJECTED")
       \/ ~estop /\ Pass("guard")
    /\ GateOnly

(* Mutant of HasInflight: the diary's open entries of this very key.        *)
InflightKey(i) == diary[Key(i)] = "IN_FLIGHT"

(* Ledger.has_inflight: DISPATCHED rows of the group; UNKNOWN is not one.   *)
HasInflight(i) == \E j \in WithStatus("DISPATCHED") : Group[Cmd(j)] = Group[Cmd(i)]

QueueGuard ==
    /\ pc = "guard"
    /\ IF HasInflight(cur) THEN Skipped ELSE Pass("deadline")
    /\ GateOnly

DeadlineGate ==
    /\ pc = "deadline"
    /\ IF Age(cur) > MaxAge THEN Return("REJECTED") ELSE Pass("approval")
    /\ GateOnly

(* Mutant of ApprovalGate: a record is enough.                              *)
AnyRecordApproves ==
    /\ pc = "approval"
    /\ IF Cmd(cur) \notin NeedsApproval \/ approvals[cur] # <<>> THEN Pass("precheck")
       ELSE Return("WAITING_APPROVAL")
    /\ GateOnly

(* No record: wait (and tell the operator, the first time).  The latest     *)
(* record decides.                                                          *)
ApprovalGate ==
    /\ pc = "approval"
    /\ IF Cmd(cur) \notin NeedsApproval THEN Pass("precheck")
       ELSE IF approvals[cur] = <<>> THEN Return("WAITING_APPROVAL")
       ELSE IF Latest(cur) = "APPROVE" THEN Pass("precheck") ELSE Return("REJECTED")
    /\ GateOnly

(* tool.precheck reads the machine's state: any answer.                     *)
Precheck ==
    /\ pc = "precheck"
    /\ Pass("diary") \/ Return("REJECTED")
    /\ GateOnly

(* Mutant of WriteInflight: the diary is left for after the execution.      *)
WriteInflightLater ==
    /\ pc = "diary"
    /\ pc' = "dispatch"
    /\ EngineOnly /\ UNCHANGED <<status, diary, phase, todo, cur, result>>

WriteInflight ==
    /\ pc = "diary"
    /\ diary' = [diary EXCEPT ![Key(cur)] = "IN_FLIGHT"]
    /\ pc' = "dispatch"
    /\ EngineOnly /\ UNCHANGED <<status, phase, todo, cur, result>>

MarkDispatched ==
    /\ pc = "dispatch"
    /\ status' = [status EXCEPT ![cur] = "DISPATCHED"]
    /\ pc' = "execute"
    /\ GateOnly /\ UNCHANGED cur

(* tool.execute: a result, an error or an exception, which may come after   *)
(* the hardware has moved.                                                  *)
Execute ==
    /\ pc = "execute"
    /\ \E res \in {"ok", "error"}, moved \in BOOLEAN :
        /\ res = "ok" => moved
        /\ result' = res
        /\ effects' = [effects EXCEPT ![Key(cur)] = IF moved THEN @ + 1 ELSE @]
    /\ sinceStop' = IF estop THEN sinceStop + 1 ELSE 0
    /\ pc' = "record"
    /\ UNCHANGED <<ledgerVars, estop, draft, phase, todo, cur, timeVars, faults>>

(* diary.write_success or write_failed ...                                  *)
RecordResult ==
    /\ pc \in {"record", "handler"}
    /\ diary' = [diary EXCEPT ![Key(cur)] = IF result = "ok" THEN "SUCCESS" ELSE "FAILED"]
    /\ pc' = IF pc = "record" THEN "settle" ELSE "fail"
    /\ EngineOnly /\ UNCHANGED <<status, phase, todo, cur, result>>

(* Mutant of Settle: the diary's word goes into the ledger.                 *)
SettleWithDiaryWord ==
    /\ pc \in {"settle", "fail"}
    /\ Return(IF result = "ok" THEN "SUCCESS" ELSE "FAILED")
    /\ result' = "none"
    /\ EngineOnly /\ UNCHANGED <<diary, phase, todo>>

(* ... then the ledger.                                                     *)
Settle ==
    /\ pc \in {"settle", "fail"}
    /\ Return(IF result = "ok" THEN "DONE" ELSE "FAILED")
    /\ result' = "none"
    /\ EngineOnly /\ UNCHANGED <<diary, phase, todo>>

(* Writing the result raises inside the try: the except branch records a    *)
(* failure, over a success that may be in the diary already.                *)
RecordRaises ==
    /\ pc \in {"record", "settle"} /\ faults < MaxFaults
    /\ faults' = faults + 1
    /\ pc' = "handler" /\ result' = "error"
    /\ UNCHANGED <<ledgerVars, flagVars, draft, phase, todo, cur, timeVars, effects>>

(* A non-hardware tool runs and its row is settled.                         *)
RunBypass ==
    /\ pc = "bypass"
    /\ \E s \in {"DONE", "FAILED"} : Return(s)
    /\ GateOnly

(* Any other exception leaves poll_once: the rest of the snapshot waits for *)
(* the next poll, and a row past MarkDispatched stays DISPATCHED.           *)
PollRaises ==
    /\ pc \in Gates \cup {"handler", "fail", "bypass", "scan"} /\ faults < MaxFaults
    /\ faults' = faults + 1
    /\ pc' = "sleep" /\ phase' = "none" /\ todo' = {} /\ cur' = 0 /\ result' = "none"
    /\ UNCHANGED <<ledgerVars, flagVars, draft, timeVars, effects>>

-----------------------------------------------------------------------------
ProcessProposal ==
    \/ Bypass \/ RunBypass
    \/ ChainGate \/ InterlockGate \/ QueueGuard \/ DeadlineGate \/ ApprovalGate \/ Precheck
    \/ WriteInflight \/ MarkDispatched \/ Execute \/ RecordResult \/ Settle

EngineStep ==
    \/ ReconcileRow \/ ReconcileDone
    \/ PollProposals \/ PollWaiting \/ PollDone \/ PeriodicReconcile
    \/ TakeProposal \/ TakeWaiting
    \/ ProcessProposal

Agent == (\E c \in Commands : ProposeAction(c)) \/ DecideChain \/ ProposeLink

Operator ==
    \/ \E i \in Rows, decision \in {"APPROVE", "REJECT"} : RecordApproval(i, decision)
    \/ ToggleEstop

Next ==
    \/ EngineStep \/ Agent \/ Operator \/ Tick
    \/ Boot \/ Crash \/ RecordRaises \/ PollRaises

Spec == Init /\ [][Next]_vars

(* The two threads run, the engine reconciles every 60 s and time passes.   *)
(* Nobody is made to decide, approve, crash or restart.                     *)
FairSpec ==
    /\ Spec
    /\ WF_vars(EngineStep) /\ SF_vars(PeriodicReconcile)
    /\ WF_vars(ProposeLink) /\ WF_vars(Tick)

-----------------------------------------------------------------------------
(* Properties *)

(* One idempotency key names one row: rows of one command are told apart by *)
(* the retry suffix, however the earlier attempts ended (Ledger.propose).   *)
KeysDistinct == \A i, j \in Rows : Key(i) = Key(j) => i = j

(* Across crashes, exceptions, retries and reconciliation the hardware is   *)
(* driven at most once per row (diary.py: "idempotency database for crash   *)
(* recovery").                                                              *)
AtMostOnce == \A k \in Keys : effects[k] <= 1

(* "diary write BEFORE execution" (dispatch.py:175): a movement is in the   *)
(* diary and in the ledger; DONE says it happened, UNKNOWN says the diary   *)
(* cannot tell, and a row that was turned away never moved anything.        *)
RecordsAgree ==
    \A i \in Rows : Hardware(i) =>
        /\ effects[Key(i)] > 0 => diary[Key(i)] # "NONE"
        /\ status[i] \in {"PROPOSED", "WAITING_APPROVAL", "REJECTED"} => effects[Key(i)] = 0
        /\ status[i] = "DONE" => effects[Key(i)] > 0 /\ diary[Key(i)] = "SUCCESS"
        /\ status[i] = "UNKNOWN" => diary[Key(i)] = "IN_FLIGHT"

(* "Only one in-flight action per device group" (README, queue guard): also *)
(* while a row whose result could not be recorded waits for reconcile.      *)
OneInFlight ==
    \A i, j \in WithStatus("DISPATCHED") :
        Hardware(i) /\ Hardware(j) /\ Group[Cmd(i)] = Group[Cmd(j)] => i = j

(* The ledger and the diary after crashes, lost results and reconcile       *)
(* (dispatch.py:175-195, reconcile.py): well typed, one key per row, never  *)
(* in contradiction with the movements, one movement per device group.      *)
LedgerInv == TypeOK /\ KeysDistinct /\ RecordsAgree /\ OneInFlight

Started == {"DISPATCHED", "DONE", "FAILED", "UNKNOWN"}

EarlierSteps(i) == {j \in Rows : rows[j].chain = rows[i].chain /\ rows[j].seq < rows[i].seq}

(* A chain step was started only after every earlier step of the chain that *)
(* is in the ledger was DONE, across restarts.                              *)
ChainOrder ==
    \A i \in Rows : Hardware(i) /\ rows[i].chain # 0 /\ status[i] \in Started =>
        \A j \in EarlierSteps(i) : status[j] = "DONE"

(* "safety.estop blocks all hardware actions" (README:208): once the flag   *)
(* is up, only the one action that had passed the gate can still run.       *)
EstopBlocks == sinceStop <= 1

(* A tool that requires approval moved the hardware only after an APPROVE,  *)
(* whatever was recorded before or after (dispatch.py:145).                 *)
OnlyApproved ==
    \A i \in Rows : Cmd(i) \in NeedsApproval /\ status[i] \in Started =>
        \E n \in 1 .. Len(approvals[i]) : approvals[i][n] = "APPROVE"

(* The operator's two gates (dispatch.py:120, 145) hold whatever order the  *)
(* approvals, the rejections and the emergency stop arrive in.              *)
GatesHold == EstopBlocks /\ OnlyApproved

(* Every proposal is settled, rejected or handed to the operator as         *)
(* UNKNOWN, unless it stands behind an UNKNOWN step of its chain (which     *)
(* nothing ever resolves) or the process is down.  (Its age counts from the *)
(* last boot, dispatch.py:139; one so late that MaxTime cuts the timeouts   *)
(* off shows nothing.)                                                      *)
Settles ==
    \A i \in Ids :
        status[i] \in {"PROPOSED", "WAITING_APPROVAL", "DISPATCHED"} ~>
            \/ status[i] \in {"DONE", "FAILED", "REJECTED", "UNKNOWN"}
            \/ i \in Rows /\ \E j \in EarlierSteps(i) : status[j] = "UNKNOWN"
            \/ pc = "down" \/ bootAt + ApprovalTimeout >= MaxTime
=============================================================================
