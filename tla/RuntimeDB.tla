---- MODULE RuntimeDB ----
(***************************************************************************)
(* wallee_v6/runtime_db.py: the two durable tables the engine works        *)
(* against, as operators on their contents.  action_runs is the logical    *)
(* notebook, exec_journal the hardware-boundary journal.  Every operator    *)
(* that returns a new table is one SQLite transaction (self._lock, one      *)
(* commit).                                                                 *)
(***************************************************************************)
EXTENDS Integers

Statuses == {"PROPOSED", "WAITING_APPROVAL", "AUTHORIZED", "DISPATCHED", "DONE",
             "FAILED", "ABORTED", "REPLAN_REQUIRED", "UNKNOWN"}

(* ABSENT: no row with this id (never created, or deleted by the flush).    *)
RowStatuses == Statuses \cup {"ABSENT"}

(* _ALLOWED_TRANSITIONS, with no way out of a row that is not there.        *)
AllowedTransitions ==
    [s \in RowStatuses |->
        CASE s = "PROPOSED"         -> {"WAITING_APPROVAL", "AUTHORIZED", "ABORTED"}
          [] s = "WAITING_APPROVAL" -> {"AUTHORIZED", "ABORTED"}
          [] s = "AUTHORIZED"       -> {"DISPATCHED", "ABORTED"}
          [] s = "DISPATCHED"       -> {"DONE", "FAILED", "REPLAN_REQUIRED", "UNKNOWN"}
          [] s = "UNKNOWN"          -> {"FAILED", "REPLAN_REQUIRED"}
          [] OTHER                  -> {}]

(* transition_action_run neither raises KeyError nor ValueError.            *)
MayTransition(action_runs, r, s) ==
    s \in AllowedTransitions[action_runs[r]]

(* Mutant of TransitionActionRun: WHERE action_id = ? instead of the run's  *)
(* id, so older runs of the same action are updated too.                    *)
TransitionByAction(action_runs, r, s) ==
    [x \in DOMAIN action_runs |->
        IF x[2] = r[2] /\ action_runs[x] # "ABSENT" THEN s ELSE action_runs[x]]

TransitionActionRun(action_runs, r, s) ==
    [action_runs EXCEPT ![r] = s]

JournalStates == {"NONE", "IN_FLIGHT", "SUCCESS", "FAILED", "EXPIRED"}

(* start_exec_journal: INSERT the IN_FLIGHT row, or return the one there.   *)
StartExecJournal(exec_journal, k) ==
    IF exec_journal[k] = "NONE" THEN [exec_journal EXCEPT ![k] = "IN_FLIGHT"]
                                ELSE exec_journal

(* Mutant of FinishExecJournal: a failed attempt's row is deleted.          *)
FinishPrunesFailures(exec_journal, k, s) ==
    [exec_journal EXCEPT ![k] = IF s = "FAILED" THEN "NONE" ELSE s]

(* finish_exec_journal: an UPDATE, so a row that is not there stays absent. *)
FinishExecJournal(exec_journal, k, s) ==
    IF exec_journal[k] = "NONE" THEN exec_journal
                                ELSE [exec_journal EXCEPT ![k] = s]

(* What an operator can record about a run: an approval bound to the run's  *)
(* args_hash, one bound to another hash, one past expires_ts_ms, a reject.  *)
ApprovalKinds == {"APPROVE", "WRONG_HASH", "EXPIRED", "REJECT"}

(* Mutant of HasValidApproval: any record about the run will do.            *)
HasAnyApprovalRecord(approvals, r) == approvals[r] # {}

(* has_valid_approval: the run id and the hash match, the decision is        *)
(* APPROVE and it has not expired.  A later REJECT is not looked at.        *)
HasValidApproval(approvals, r) == "APPROVE" \in approvals[r]

=============================================================================
