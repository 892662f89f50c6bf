---- MODULE Engine_proofs ----
(***************************************************************************)
(* Proofs about the control lease and the engine.  First what Engine       *)
(* promises of the machine: types, one writer, at most one effect per      *)
(* idempotency key, evidence of it in the journal, and the refinement of   *)
(* EffectLog.  Then what it promises of its durable tables: the journal    *)
(* and the action runs agree, approvals precede dispatch, a plan stops at  *)
(* its first failure, locks are released and claimed once, and what is     *)
(* abandoned stays as it was.                                              *)
(*                                                                         *)
(* Every step of a process is first classified as one of ten moves (lemma  *)
(* Moves) by what it does to the variables the invariants speak of, and as *)
(* one of fifteen turns (lemma Turns) by what it does to the tables.  The  *)
(* invariants are then proved move by move and turn by turn.               *)
(***************************************************************************)
EXTENDS Engine, TLAPS

-----------------------------------------------------------------------------
(* The control lease: while nobody unlinks the lock file every descriptor   *)
(* sits on the inode the path names, and flock lets one process hold it;    *)
(* with unlinking, only one holder per inode is left.                       *)

(* A step of acquire or release keeps the inductive invariant.              *)
LEMMA LeaseStep ==
    ASSUME LeaseInv, NEW p \in Procs,
           Open(p) \/ FlockTaken(p) \/ FlockRefused(p) \/ Release(p)
    PROVE  LeaseInv'
<1> USE LeaseAssumption DEF LeaseInv, LeaseTypeOK, MutualExclusion, Held
<1>1. CASE Open(p)
  <2>1. lockPath' \in Inodes /\ (lockPath # NoFile => lockPath' = lockPath)
    BY <1>1 DEF Open
  <2>2. \A q \in Procs : fd[q] # NoFile => lockPath # NoFile
    OBVIOUS
  <2>3. \A q \in Procs : opened[q] # NoFile => lockPath # NoFile
    OBVIOUS
  <2> QED BY <1>1, <2>1, <2>2, <2>3 DEF Open
<1>2. CASE FlockTaken(p)
  <2>1. opened[p] = lockPath /\ lockPath # NoFile
    BY <1>2 DEF FlockTaken
  <2>2. \A q \in Procs \ {p} : fd[q] = NoFile
    BY <1>2, <2>1 DEF FlockTaken, LockedByOther
  <2> QED BY <1>2, <2>1, <2>2 DEF FlockTaken
<1>3. CASE FlockRefused(p)
  BY <1>3 DEF FlockRefused
<1>4. CASE Release(p)
  BY <1>4 DEF Release
<1> QED BY <1>1, <1>2, <1>3, <1>4

(* An unchanged lease.                                                      *)
LEMMA LeaseStutter ==
    ASSUME LeaseInv, UNCHANGED leaseVars
    PROVE  LeaseInv'
BY DEF LeaseInv, LeaseTypeOK, MutualExclusion, Held, leaseVars

(* With config.flush_state_on_start off everywhere, at most one process     *)
(* holds the control lease, for any number of processes and inodes          *)
(* (runtime_control.py:12).                                                 *)
THEOREM LeaseIsExclusive ==
    ASSUME FlushOnStart = {}
    PROVE  LeaseSpec => []MutualExclusion
<1>1. LeaseInit => LeaseInv
  BY LeaseAssumption DEF LeaseInit, LeaseInv, LeaseTypeOK, MutualExclusion, Held
<1>2. LeaseInv /\ [LeaseNext]_leaseVars => LeaseInv'
  <2> SUFFICES ASSUME LeaseInv, [LeaseNext]_leaseVars PROVE LeaseInv'
    OBVIOUS
  <2>1. CASE UNCHANGED leaseVars
    BY <2>1, LeaseStutter
  <2>2. CASE LeaseNext
    <3>1. PICK p \in Procs : \/ Open(p) \/ FlockTaken(p) \/ FlockRefused(p)
                             \/ Release(p)
                             \/ UnlinkLock(p)
      BY <2>2 DEF LeaseNext
    <3>2. ~UnlinkLock(p)
      BY DEF UnlinkLock
    <3> QED BY <3>1, <3>2, LeaseStep
  <2> QED BY <2>1, <2>2
<1>3. LeaseInv => MutualExclusion
  BY DEF LeaseInv
<1> QED BY <1>1, <1>2, <1>3, PTL DEF LeaseSpec

(* Whoever unlinks the lock file, one inode has at most one holder.         *)
THEOREM LeaseOnePerInode == LeaseSpec => []OneHolderPerInode
<1> DEFINE Inv == LeaseTypeOK /\ OneHolderPerInode
<1>1. LeaseInit => Inv
  BY LeaseAssumption DEF LeaseInit, LeaseTypeOK, OneHolderPerInode, Held
<1>2. Inv /\ [LeaseNext]_leaseVars => Inv'
  <2> SUFFICES ASSUME Inv, [LeaseNext]_leaseVars PROVE Inv'
    OBVIOUS
  <2> USE LeaseAssumption DEF LeaseTypeOK, OneHolderPerInode, Held
  <2>1. CASE UNCHANGED leaseVars
    BY <2>1 DEF leaseVars
  <2>2. ASSUME NEW p \in Procs, Open(p) PROVE Inv'
    BY <2>2 DEF Open
  <2>3. ASSUME NEW p \in Procs, FlockTaken(p) PROVE Inv'
    BY <2>3 DEF FlockTaken, LockedByOther
  <2>4. ASSUME NEW p \in Procs, FlockRefused(p) PROVE Inv'
    BY <2>4 DEF FlockRefused
  <2>5. ASSUME NEW p \in Procs, Release(p) PROVE Inv'
    BY <2>5 DEF Release
  <2>6. ASSUME NEW p \in Procs, UnlinkLock(p) PROVE Inv'
    BY <2>6 DEF UnlinkLock
  <2> QED BY <2>1, <2>2, <2>3, <2>4, <2>5, <2>6 DEF LeaseNext
<1>3. Inv => OneHolderPerInode
  OBVIOUS
<1> QED BY <1>1, <1>2, <1>3, PTL DEF LeaseSpec

-----------------------------------------------------------------------------
(* Types: TypeOK alone is not inductive, since an action indexes the tables *)
(* with the plan and the action in hand, so the proof carries Shape, which  *)
(* says at which labels these are a stored plan and an action of it.        *)

(* A plan is in hand.                                                       *)
Busy == InControl \cup {"open", "flock"}

(* The action in hand has not reached the hardware.                         *)
BeforeEffect == {"locks", "approval", "ask", "authorize", "toctou", "refuse",
                 "execute", "realize"}

(* Where a process is says what it has in hand.                             *)
Shape ==
    \A p \in Procs :
        /\ pc[p] \in Busy => plan[p] \in PlanIds /\ plan[p] < nextPlan
        /\ pc[p] \in Working => act[p] \in Actions /\ act[p] \notin todo[p]

TypeInv == TypeOK /\ Shape

(* Before any process of main.py has started, everything is well typed.     *)
LEMMA TypeInit == Init => TypeInv
BY EngineAssumption, LeaseAssumption
   DEF Init, LeaseInit, TypeInv, TypeOK, LeaseTypeOK, Shape, PcLabels, Busy, InControl, Working,
       RowStatuses, Statuses, JournalStates, Results, PlanIds, Keys

(* The lease variables keep their type.                                     *)
LEMMA LeaseTypeStep ==
    ASSUME LeaseTypeOK, NEW p \in Procs,
           \/ Open(p) \/ FlockTaken(p) \/ FlockRefused(p) \/ Release(p) \/ UnlinkLock(p)
           \/ UNCHANGED leaseVars
    PROVE  LeaseTypeOK'
BY LeaseAssumption DEF LeaseTypeOK, Open, FlockTaken, FlockRefused, Release, UnlinkLock, leaseVars

(* What _execute_actions leaves behind when it returns or raises is typed.  *)
LEMMA LeaveType ==
    ASSUME TypeInv, NEW p \in Procs, NEW label \in {"idle", "down"}, Leave(p, label),
           nextPlan' = nextPlan
    PROVE  /\ pc' \in [Procs -> PcLabels]
           /\ plan' \in [Procs -> PlanIds \cup {0}]
           /\ todo' \in [Procs -> SUBSET Actions]
           /\ act' \in [Procs -> Actions \cup {NoAction}]
           /\ refresh' \in [Procs -> BOOLEAN]
           /\ locks' \in [Procs -> SUBSET LockKeys]
           /\ facts' \in [Procs -> SUBSET Actions]
           /\ result' \in [Procs -> Results]
           /\ Shape'
BY DEF TypeInv, TypeOK, Shape, Leave, PutDown, Goto, PcLabels, Busy, InControl, Working, Results, PlanIds

(* transition_action_run writes a status.                                   *)
LEMMA TransitionType ==
    ASSUME TypeOK, NEW r, NEW s \in Statuses
    PROVE  TransitionActionRun(action_runs, r, s) \in [Keys -> RowStatuses]
BY DEF TypeOK, TransitionActionRun, RowStatuses

(* A journal operation keeps the table's type.                              *)
LEMMA JournalType ==
    ASSUME TypeOK, NEW k, NEW s \in JournalStates
    PROVE  /\ StartExecJournal(exec_journal, k) \in [Keys -> JournalStates]
           /\ FinishExecJournal(exec_journal, k, s) \in [Keys -> JournalStates]
BY DEF TypeOK, StartExecJournal, FinishExecJournal, JournalStates

(* Every step of Engine keeps TypeInv.                                      *)
LEMMA TypeStep == TypeInv /\ [Next]_vars => TypeInv'
<1> SUFFICES ASSUME TypeInv, [Next]_vars PROVE TypeInv'
  OBVIOUS
<1> USE EngineAssumption DEF TypeInv
<1>0. CASE UNCHANGED vars
  BY <1>0 DEF TypeOK, LeaseTypeOK, Shape, vars, leaseVars, dbVars, workVars
<1>1. ASSUME NEW p \in Procs, Start(p) PROVE TypeInv'
  BY <1>1 DEF Start, TypeOK, LeaseTypeOK, Shape, leaseVars, dbVars, workVars, At, Goto, PcLabels, Flushing,
              Busy, InControl, Working
<1>32. ASSUME NEW p \in Procs, FlushApprovals(p) \/ FlushJournal(p) \/ FlushRuns(p) \/ FlushPlans(p)
       PROVE  TypeInv'
  <2>1. /\ plans' \in [PlanIds -> {"none", "planner", "operator"}]
        /\ action_runs' \in [Keys -> RowStatuses]
        /\ exec_journal' \in [Keys -> JournalStates]
        /\ approvals' \in [Keys -> SUBSET ApprovalKinds]
    BY <1>32 DEF FlushApprovals, FlushJournal, FlushRuns, FlushPlans, NoRuns, NoApprovals, TypeOK,
                 RowStatuses, JournalStates
  <2>2. /\ UNCHANGED <<leaseVars, nextPlan, workVars, interlock, effects>>
        /\ \E next \in Flushing \cup {"unlink"} : pc' = [pc EXCEPT ![p] = next]
    BY <1>32 DEF FlushApprovals, FlushJournal, FlushRuns, FlushPlans, Flush, Goto, Flushing
  <2> QED BY <2>1, <2>2 DEF TypeOK, LeaseTypeOK, Shape, leaseVars, workVars, PcLabels, Flushing, Busy,
                            InControl, Working
<1>2. ASSUME NEW p \in Procs, Unlink(p) PROVE TypeInv'
  <2>1. LeaseTypeOK'
    BY <1>2, LeaseTypeStep DEF Unlink, TypeOK
  <2> QED BY <1>2, <2>1 DEF Unlink, TypeOK, Shape, dbVars, workVars, At, Goto, PcLabels, Busy,
      InControl, Working
<1>3. ASSUME NEW p \in Procs, Stop(p) PROVE TypeInv'
  <2>1. Leave(p, "down") /\ nextPlan' = nextPlan
    BY <1>3 DEF Stop, RestUnchanged, RequestAndLeave
  <2> QED BY <1>3, <2>1, LeaveType, TransitionType, LeaseTypeStep DEF Stop, TypeOK, leaseVars,
      dbVars, RestUnchanged, RequestAndLeave, Statuses
<1>4. ASSUME NEW p \in Procs, Plan(p) PROVE TypeInv'
  <2>1. facts' \in [Procs -> SUBSET Actions] /\ todo' \in [Procs -> SUBSET Actions]
    <3>1. PICK seen \in SUBSET Actions :
             /\ facts' = [facts EXCEPT ![p] = seen]
             /\ \E as \in SUBSET Frontier(seen) : todo' = [todo EXCEPT ![p] = as]
      BY <1>4 DEF Plan
    <3>2. Frontier(seen) \subseteq Actions
      BY DEF Frontier
    <3>3. PICK as \in SUBSET Actions : todo' = [todo EXCEPT ![p] = as]
      BY <3>1, <3>2
    <3>4. facts' \in [Procs -> SUBSET Actions]
      BY <3>1 DEF TypeOK
    <3> QED BY <3>3, <3>4 DEF TypeOK
  <2>2. \A q \in Procs : q # p => todo'[q] = todo[q]
    BY <1>4 DEF Plan, TypeOK
  <2> QED BY <1>4, <2>1, <2>2 DEF Plan, TypeOK, LeaseTypeOK, Shape, leaseVars, dbVars, workVars,
      RestUnchanged, At, Goto, PcLabels, Busy, InControl, Working
<1>5. ASSUME NEW p \in Procs, ExecutePlan(p) PROVE TypeInv'
  BY <1>5 DEF ExecutePlan, StorePlan, BeginActions, PlanIds, TypeOK, LeaseTypeOK, Shape, leaseVars,
      dbVars, workVars, RestUnchanged, At, Goto, PcLabels, Busy, InControl, Working
<1>6. ASSUME NEW p \in Procs, ExecuteNothing(p) PROVE TypeInv'
  BY <1>6 DEF ExecuteNothing, StorePlan, PlanIds, TypeOK, LeaseTypeOK, Shape, leaseVars, dbVars,
      workVars, RestUnchanged, At, Goto, PcLabels, Busy, InControl, Working
<1>7. ASSUME NEW p \in Procs, ExecuteOperatorAction(p) PROVE TypeInv'
  BY <1>7 DEF ExecuteOperatorAction, StorePlan, BeginActions, PlanIds, TypeOK, LeaseTypeOK, Shape,
      leaseVars, dbVars, workVars, RestUnchanged, At, Goto, PcLabels, Busy, InControl, Working
<1>8. ASSUME NEW p \in Procs, LeaseOpen(p) PROVE TypeInv'
  <2>1. LeaseTypeOK'
    BY <1>8, LeaseTypeStep DEF LeaseOpen, TypeOK
  <2> QED BY <1>8, <2>1 DEF LeaseOpen, TypeOK, Shape, dbVars, workVars, At, Goto, PcLabels, Busy,
      InControl, Working
<1>9. ASSUME NEW p \in Procs, LeaseTaken(p) PROVE TypeInv'
  <2>1. LeaseTypeOK'
    BY <1>9, LeaseTypeStep DEF LeaseTaken, TypeOK
  <2> QED BY <1>9, <2>1 DEF LeaseTaken, TypeOK, Shape, dbVars, workVars, At, Goto, PcLabels, Busy,
      InControl, Working
<1>10. ASSUME NEW p \in Procs, LeaseUnavailable(p) PROVE TypeInv'
  <2>1. Leave(p, "idle") /\ nextPlan' = nextPlan
    BY <1>10 DEF LeaseUnavailable, RestUnchanged, RequestAndLeave
  <2> QED BY <1>10, <2>1, LeaveType, TransitionType, LeaseTypeStep DEF LeaseUnavailable, TypeOK,
      leaseVars, dbVars, RestUnchanged, RequestAndLeave, Statuses
<1>11. ASSUME NEW p \in Procs, PlanDone(p) PROVE TypeInv'
  <2>1. Leave(p, "idle") /\ nextPlan' = nextPlan
    BY <1>11 DEF PlanDone, RestUnchanged, RequestAndLeave
  <2> QED BY <1>11, <2>1, LeaveType, TransitionType, LeaseTypeStep DEF PlanDone, TypeOK, leaseVars,
      dbVars, RestUnchanged, RequestAndLeave, Statuses
<1>12. ASSUME NEW p \in Procs, FrontierChanged(p) PROVE TypeInv'
  <2>1. Leave(p, "idle") /\ nextPlan' = nextPlan
    BY <1>12 DEF FrontierChanged, RestUnchanged, RequestAndLeave
  <2> QED BY <1>12, <2>1, LeaveType, TransitionType, LeaseTypeStep DEF FrontierChanged, TypeOK,
      leaseVars, dbVars, RestUnchanged, RequestAndLeave, Statuses
<1>13. ASSUME NEW p \in Procs, PlanRowGone(p) PROVE TypeInv'
  <2>1. Leave(p, "idle") /\ nextPlan' = nextPlan
    BY <1>13 DEF PlanRowGone, RestUnchanged, RequestAndLeave
  <2> QED BY <1>13, <2>1, LeaveType, TransitionType, LeaseTypeStep DEF PlanRowGone, TypeOK,
      leaseVars, dbVars, RestUnchanged, RequestAndLeave, Statuses
<1>14. ASSUME NEW p \in Procs, TakeNext(p) PROVE TypeInv'
  BY <1>14 DEF TakeNext, RowStatuses, Statuses, Keys, TypeOK, LeaseTypeOK, Shape, leaseVars, dbVars,
      workVars, RestUnchanged, At, Goto, PcLabels, Busy, InControl, Working
<1>15. ASSUME NEW p \in Procs, AcquireLocks(p) PROVE TypeInv'
  <2>1. CASE locks[p] \cap RequiredLocks[act[p]] = {}
    BY <1>15, <2>1 DEF AcquireLocks, TypeOK, LeaseTypeOK, Shape, leaseVars, dbVars, workVars,
        RestUnchanged, At, Goto, PcLabels, Busy, InControl, Working
  <2>2. CASE locks[p] \cap RequiredLocks[act[p]] # {}
    BY <1>15, <2>2, LeaveType, TransitionType DEF AcquireLocks, RequestAndLeave, Statuses, TypeOK,
        LeaseTypeOK, leaseVars, RestUnchanged
  <2> QED BY <2>1, <2>2
<1>16. ASSUME NEW p \in Procs, AwaitApproval(p) PROVE TypeInv'
  <2>1. CASE MayTransition(action_runs, Key(p), "WAITING_APPROVAL")
    <3>1. action_runs' \in [Keys -> RowStatuses] /\ pc' = [pc EXCEPT ![p] = "ask"]
      BY <1>16, <2>1, TransitionType DEF AwaitApproval, Request, Statuses, Goto
    <3> QED BY <1>16, <2>1, <3>1 DEF AwaitApproval, Request, TypeOK, LeaseTypeOK, Shape, leaseVars,
        workVars, RestUnchanged, At, PcLabels, Busy, InControl, Working
  <2>2. CASE ~MayTransition(action_runs, Key(p), "WAITING_APPROVAL")
    BY <1>16, <2>2, LeaveType DEF AwaitApproval, Request, TypeOK, LeaseTypeOK, leaseVars, RestUnchanged
  <2> QED BY <2>1, <2>2
<1>17. ASSUME NEW p \in Procs, RequestApproval(p) PROVE TypeInv'
  <2>1. approvals' \in [Keys -> SUBSET ApprovalKinds]
    BY <1>17 DEF RequestApproval, TypeOK, ApprovalKinds
  <2>2. CASE HasValidApproval(approvals', Key(p))
    BY <1>17, <2>1, <2>2 DEF RequestApproval, TypeOK, LeaseTypeOK, Shape, leaseVars, dbVars,
        workVars, RestUnchanged, At, Goto, PcLabels, Busy, InControl, Working
  <2>3. CASE ~HasValidApproval(approvals', Key(p))
    BY <1>17, <2>1, <2>3, LeaveType DEF RequestApproval, TypeOK, LeaseTypeOK, leaseVars, RestUnchanged
  <2> QED BY <2>2, <2>3
<1>18. ASSUME NEW p \in Procs, Authorize(p) PROVE TypeInv'
  <2>1. CASE MayTransition(action_runs, Key(p), "AUTHORIZED")
    BY <1>18, <2>1, TransitionType DEF Authorize, Request, Statuses, TypeOK, LeaseTypeOK, Shape,
        leaseVars, dbVars, workVars, RestUnchanged, At, Goto, PcLabels, Busy, InControl, Working
  <2>2. CASE ~MayTransition(action_runs, Key(p), "AUTHORIZED")
    BY <1>18, <2>2, LeaveType DEF Authorize, Request, TypeOK, LeaseTypeOK, leaseVars, RestUnchanged
  <2> QED BY <2>1, <2>2
<1>19. ASSUME NEW p \in Procs, Dispatch(p) PROVE TypeInv'
  <2>1. CASE MayTransition(action_runs, Key(p), "DISPATCHED")
    BY <1>19, <2>1, TransitionType, SMTT(30) DEF Dispatch, Request, Statuses, TypeOK, LeaseTypeOK, Shape,
        leaseVars, dbVars, workVars, RestUnchanged, At, Goto, PcLabels, Busy, InControl, Working
  <2>2. CASE ~MayTransition(action_runs, Key(p), "DISPATCHED")
    BY <1>19, <2>2, LeaveType DEF Dispatch, Request, TypeOK, LeaseTypeOK, leaseVars, RestUnchanged
  <2> QED BY <2>1, <2>2
<1>20. ASSUME NEW p \in Procs, ToctouFailed(p) PROVE TypeInv'
  BY <1>20 DEF ToctouFailed, TypeOK, LeaseTypeOK, Shape, leaseVars, dbVars, workVars, RestUnchanged, At,
      Goto, PcLabels, Busy, InControl, Working
<1>21. ASSUME NEW p \in Procs, Refuse(p) PROVE TypeInv'
  <2>1. Leave(p, "idle") /\ nextPlan' = nextPlan
    BY <1>21 DEF Refuse, RestUnchanged, RequestAndLeave
  <2> QED BY <1>21, <2>1, LeaveType, TransitionType, LeaseTypeStep DEF Refuse, TypeOK, leaseVars,
      dbVars, RestUnchanged, RequestAndLeave, Statuses
<1>22. ASSUME NEW p \in Procs, ExecuteBuiltin(p) PROVE TypeInv'
  BY <1>22 DEF ExecuteBuiltin, Outcome, Results, TypeOK, LeaseTypeOK, Shape, leaseVars, dbVars,
      workVars, RestUnchanged, At, Goto, PcLabels, Busy, InControl, Working
<1>23. ASSUME NEW p \in Procs, StartJournal(p) PROVE TypeInv'
  <2>1. exec_journal' \in [Keys -> JournalStates]
    BY <1>23, JournalType DEF StartJournal, TypeOK, JournalStates
  <2>2. CASE exec_journal[Key(p)] = "NONE"
    BY <1>23, <2>1, <2>2 DEF StartJournal, TypeOK, LeaseTypeOK, Shape, leaseVars, dbVars, workVars,
        RestUnchanged, At, Goto, PcLabels, Busy, InControl, Working
  <2>3. CASE exec_journal[Key(p)] # "NONE"
    <3>1. Key(p) \in Keys
      BY <1>23 DEF StartJournal, At, Key, Keys, Shape, Working, Busy, InControl
    <3>2. JournalAnswer[exec_journal[Key(p)]] \in Results
      BY <2>3, <3>1 DEF JournalAnswer, TypeOK, JournalStates, Results
    <3> QED BY <1>23, <2>1, <2>3, <3>2 DEF StartJournal, Outcome, TypeOK, LeaseTypeOK, Shape,
        leaseVars, dbVars, workVars, RestUnchanged, At, Goto, PcLabels, Busy, InControl, Working
  <2> QED BY <2>2, <2>3
<1>24. ASSUME NEW p \in Procs, Realize(p) PROVE TypeInv'
  <2>1. effects' \in [Keys -> Nat]
    <3>1. Key(p) \in Keys
      BY <1>24 DEF Realize, At, Key, Keys, Shape, Working, Busy, InControl
    <3>2. PICK moved \in BOOLEAN :
             effects' = [effects EXCEPT ![Key(p)] = IF moved THEN @ + 1 ELSE @]
      BY <1>24 DEF Realize
    <3>3. CASE moved
      BY <3>1, <3>2, <3>3 DEF TypeOK
    <3>4. CASE ~moved
      BY <3>1, <3>2, <3>4 DEF TypeOK
    <3> QED BY <3>3, <3>4
  <2>2. result' \in [Procs -> Results]
    BY <1>24 DEF Realize, TypeOK, Results
  <2> QED BY <1>24, <2>1, <2>2 DEF Realize, TypeOK, LeaseTypeOK, Shape, leaseVars, dbVars, workVars,
      RestUnchanged, At, Goto, PcLabels, Busy, InControl, Working
<1>25. ASSUME NEW p \in Procs, FinishJournal(p) PROVE TypeInv'
  <2>1. exec_journal' \in [Keys -> JournalStates]
    BY <1>25, JournalType DEF FinishJournal, JournalStates
  <2> QED BY <1>25, <2>1 DEF FinishJournal, TypeOK, LeaseTypeOK, Shape, leaseVars, dbVars, workVars,
      RestUnchanged, At, Goto, PcLabels, Busy, InControl, Working
<1>26. ASSUME NEW p \in Procs, FinalizeFailed(p) PROVE TypeInv'
  <2>1. Leave(p, "idle") /\ nextPlan' = nextPlan
    BY <1>26 DEF FinalizeFailed, RequestAndLeave
  <2>2. action_runs' \in [Keys -> RowStatuses]
    BY <1>26, TransitionType DEF FinalizeFailed, RequestAndLeave, Statuses, TypeOK
  <2>3. interlock' \in [Procs -> BOOLEAN]
    BY <1>26 DEF FinalizeFailed, TypeOK
  <2> QED BY <1>26, <2>1, <2>2, <2>3, LeaveType DEF FinalizeFailed, TypeOK, LeaseTypeOK, leaseVars
<1>27. ASSUME NEW p \in Procs, FinalizeVerified(p) PROVE TypeInv'
  <2>1. CASE MayTransition(action_runs, Key(p), "DONE")
    <3>1. facts' \in [Procs -> SUBSET Actions]
      BY <1>27, <2>1 DEF FinalizeVerified, TypeOK
    <3>2. action_runs' \in [Keys -> RowStatuses]
      BY <1>27, <2>1, TransitionType DEF FinalizeVerified, Statuses
    <3> QED BY <1>27, <2>1, <3>1, <3>2, SMTT(30) DEF FinalizeVerified, PutDown, Results, TypeOK, LeaseTypeOK,
        Shape, leaseVars, dbVars, workVars, RestUnchanged, At, Goto, PcLabels, Busy, InControl, Working
  <2>2. CASE ~MayTransition(action_runs, Key(p), "DONE")
    BY <1>27, <2>2, LeaveType DEF FinalizeVerified, TypeOK, LeaseTypeOK, leaseVars
  <2> QED BY <2>1, <2>2
<1>28. ASSUME NEW p \in Procs, FinalizeMismatch(p) PROVE TypeInv'
  <2>1. Leave(p, "idle") /\ nextPlan' = nextPlan
    BY <1>28 DEF FinalizeMismatch, RestUnchanged, RequestAndLeave
  <2> QED BY <1>28, <2>1, LeaveType, TransitionType, LeaseTypeStep DEF FinalizeMismatch, TypeOK,
      leaseVars, dbVars, RestUnchanged, RequestAndLeave, Statuses
<1>29. ASSUME NEW p \in Procs, FinalizeRaises(p) PROVE TypeInv'
  <2>1. Leave(p, "idle") /\ nextPlan' = nextPlan
    BY <1>29 DEF FinalizeRaises, RestUnchanged, RequestAndLeave
  <2> QED BY <1>29, <2>1, LeaveType, TransitionType, LeaseTypeStep DEF FinalizeRaises, TypeOK,
      leaseVars, dbVars, RestUnchanged, RequestAndLeave, Statuses
<1>30. ASSUME NEW r \in Keys, NEW kind \in ApprovalKinds, RecordApproval(r, kind) PROVE TypeInv'
  BY <1>30 DEF RecordApproval, TypeOK, LeaseTypeOK, Shape, leaseVars, workVars, ApprovalKinds
<1>31. ASSUME NEW r \in Keys, ApprovalExpires(r) PROVE TypeInv'
  BY <1>31 DEF ApprovalExpires, TypeOK, LeaseTypeOK, Shape, leaseVars, workVars, ApprovalKinds
<1>99. CASE \E p \in Procs : EngineStep(p)
  BY <1>99, <1>8, <1>9, <1>10, <1>11, <1>12, <1>13, <1>14, <1>15, <1>16, <1>17, <1>18, <1>19, <1>20,
      <1>21, <1>22, <1>23, <1>24, <1>25, <1>26, <1>27, <1>28, <1>29 DEF EngineStep
<1> QED BY <1>0, <1>1, <1>2, <1>3, <1>4, <1>5, <1>6, <1>7, <1>30, <1>31, <1>32, <1>99 DEF Next, Operator

(* Every reachable state is well typed, and a process holds a stored plan   *)
(* and an action of it wherever the code of _execute_actions uses one.      *)
THEOREM TypeCorrect == Spec => []TypeOK
<1>1. TypeInv => TypeOK
  BY DEF TypeInv
<1> QED BY TypeInit, TypeStep, <1>1, PTL DEF Spec

-----------------------------------------------------------------------------
(* The moves of a process.                                                  *)

(* The other processes and the rows of other keys are left alone.           *)
OthersKept(p) ==
    \A q \in Procs \ {p} :
        /\ pc'[q] = pc[q] /\ plan'[q] = plan[q] /\ todo'[q] = todo[q] /\ act'[q] = act[q]
        /\ result'[q] = result[q] /\ fd'[q] = fd[q]

SameWork(p) == plan'[p] = plan[p] /\ todo'[p] = todo[p] /\ act'[p] = act[p]
SameEffects == nextPlan' = nextPlan /\ effects' = effects

RowsKept(k) == \A r \in Keys \ {k} : action_runs'[r] = action_runs[r]

Drop(p) ==
    /\ pc'[p] \notin Busy
    /\ effects' = effects
    /\ nextPlan' \in {nextPlan, nextPlan + 1} /\ nextPlan' \in 1 .. MaxPlans + 1
    /\ p \notin FlushOnStart => exec_journal' = exec_journal /\ RowsKept(Key(p))
    /\ p \notin FlushOnStart /\ pc[p] \notin Busy => action_runs' = action_runs

Begin(p) ==
    /\ pc[p] \notin Busy
    /\ pc'[p] \in {"next", "open"} /\ (pc'[p] = "next" => fd'[p] # NoFile)
    /\ nextPlan \in PlanIds
    /\ plan'[p] = nextPlan /\ nextPlan' = nextPlan + 1
    /\ effects' = effects /\ exec_journal' = exec_journal /\ action_runs' = action_runs

Acquire(p) ==
    /\ pc[p] \in {"open", "flock"}
    /\ pc'[p] \in {"flock", "next"} /\ (pc'[p] = "next" => fd'[p] # NoFile)
    /\ SameWork(p) /\ SameEffects
    /\ exec_journal' = exec_journal /\ action_runs' = action_runs

Take(p) ==
    /\ pc[p] = "next" /\ pc'[p] = "locks" /\ fd'[p] = fd[p]
    /\ plan'[p] = plan[p]
    /\ act'[p] \in todo[p] /\ todo'[p] = todo[p] \ {act'[p]}
    /\ SameEffects
    /\ exec_journal' = exec_journal /\ RowsKept(<<plan[p], act'[p]>>)

Gates == {"locks", "approval", "ask", "authorize", "toctou", "refuse"}

Advance(p) ==
    /\ pc[p] \in Gates /\ pc'[p] \in Gates \cup {"execute"} /\ fd'[p] = fd[p]
    /\ SameWork(p) /\ SameEffects
    /\ exec_journal' = exec_journal /\ RowsKept(Key(p))
    /\ pc'[p] = "execute" => action_runs'[Key(p)] = "DISPATCHED"

OpenJournal(p) ==
    /\ pc[p] = "execute" /\ pc'[p] = "realize" /\ fd'[p] = fd[p]
    /\ SameWork(p) /\ SameEffects
    /\ exec_journal[Key(p)] = "NONE"
    /\ exec_journal' = [exec_journal EXCEPT ![Key(p)] = "IN_FLIGHT"]
    /\ action_runs' = action_runs

Affect(p) ==
    /\ pc[p] = "realize" /\ pc'[p] = "finish" /\ fd'[p] = fd[p]
    /\ SameWork(p) /\ nextPlan' = nextPlan
    /\ \/ effects' = effects /\ result'[p] # "success"
       \/ effects' = [effects EXCEPT ![Key(p)] = effects[Key(p)] + 1]
    /\ exec_journal' = exec_journal /\ action_runs' = action_runs

CloseJournal(p) ==
    /\ pc[p] = "finish" /\ pc'[p] = "finalize" /\ fd'[p] = fd[p]
    /\ SameWork(p) /\ SameEffects
    /\ \E s \in {"SUCCESS", "FAILED"} :
        /\ s = "SUCCESS" => result[p] = "success"
        /\ exec_journal' = FinishExecJournal(exec_journal, Key(p), s)
    /\ action_runs' = action_runs

Answer(p) ==
    /\ pc[p] = "execute" /\ pc'[p] = "finalize" /\ fd'[p] = fd[p]
    /\ SameWork(p) /\ SameEffects
    /\ exec_journal' = exec_journal /\ action_runs' = action_runs

Complete(p) ==
    /\ pc[p] = "finalize" /\ pc'[p] = "next" /\ fd'[p] = fd[p]
    /\ plan'[p] = plan[p] /\ todo'[p] = todo[p] /\ SameEffects
    /\ exec_journal' = exec_journal /\ RowsKept(Key(p))

Move(p) ==
    /\ OthersKept(p)
    /\ \/ Drop(p) \/ Begin(p) \/ Acquire(p) \/ Take(p) \/ Advance(p) \/ OpenJournal(p)
       \/ Affect(p) \/ CloseJournal(p) \/ Answer(p) \/ Complete(p)

ProcessStep(p) ==
    \/ Start(p) \/ Unlink(p) \/ Stop(p)
    \/ FlushApprovals(p) \/ FlushJournal(p) \/ FlushRuns(p) \/ FlushPlans(p)
    \/ Plan(p) \/ ExecutePlan(p) \/ ExecuteNothing(p) \/ ExecuteOperatorAction(p)
    \/ EngineStep(p)

(* The transition an action run makes touches its own row only.             *)
LEMMA TransitionRows ==
    ASSUME TypeInv, NEW k, NEW s,
           \/ action_runs' = TransitionActionRun(action_runs, k, s)
           \/ action_runs' = action_runs
    PROVE  RowsKept(k)
BY DEF TypeInv, TypeOK, TransitionActionRun, RowsKept

(* Leaving _execute_actions is a Drop.                                      *)
LEMMA LeaveDrops ==
    ASSUME TypeInv, NEW p \in Procs, NEW label \in {"idle", "down"}, Leave(p, label),
           nextPlan' = nextPlan, effects' = effects, exec_journal' = exec_journal,
           RowsKept(Key(p)), pc[p] \notin Busy => action_runs' = action_runs,
           \A q \in Procs \ {p} : fd'[q] = fd[q]
    PROVE  OthersKept(p) /\ Drop(p)
BY DEF TypeInv, TypeOK, Leave, PutDown, Goto, OthersKept, Drop, Busy, InControl, Working

(* Every step of a process is a move.                                       *)
LEMMA Moves ==
    ASSUME TypeInv, NEW p \in Procs, ProcessStep(p)
    PROVE  Move(p)
<1> USE EngineAssumption
<1>1. CASE Start(p)
  BY <1>1 DEF Start, Drop, RowsKept, TypeInv, TypeOK, LeaseTypeOK, leaseVars, dbVars, workVars,
      RestUnchanged, At, Goto, PcLabels, Move, OthersKept, SameWork, SameEffects, Busy, InControl, Working
<1>30. CASE FlushApprovals(p) \/ FlushJournal(p) \/ FlushRuns(p) \/ FlushPlans(p)
  <2>1. /\ p \in FlushOnStart
        /\ UNCHANGED <<leaseVars, nextPlan, workVars, effects>>
        /\ \E next \in Flushing \cup {"unlink"} : pc' = [pc EXCEPT ![p] = next]
    BY <1>30 DEF FlushApprovals, FlushJournal, FlushRuns, FlushPlans, Flush, Goto, Flushing
  <2> QED BY <2>1 DEF Drop, TypeInv, TypeOK, leaseVars, workVars, Move, OthersKept, Flushing, Busy,
                      InControl, Working
<1>2. CASE Unlink(p)
  BY <1>2 DEF Unlink, Drop, RowsKept, UnlinkLock, TypeInv, TypeOK, LeaseTypeOK, leaseVars, dbVars,
      workVars, RestUnchanged, At, Goto, PcLabels, Move, OthersKept, SameWork, SameEffects, Busy,
      InControl, Working
<1>3. CASE Stop(p)
  <2>1. RowsKept(Key(p))
    BY <1>3, TransitionRows DEF Stop, RequestAndLeave, dbVars
  <2> QED BY <1>3, <2>1, LeaveDrops DEF Stop, RequestAndLeave, RestUnchanged, dbVars, leaseVars, Move, At,
      Busy, InControl, Working, Release, TypeInv, TypeOK, LeaseTypeOK
<1>4. CASE Plan(p)
  BY <1>4 DEF Plan, Drop, RowsKept, TypeInv, TypeOK, LeaseTypeOK, leaseVars, dbVars, workVars,
      RestUnchanged, At, Goto, PcLabels, Move, OthersKept, SameWork, SameEffects, Busy, InControl, Working
<1>5. CASE ExecutePlan(p)
  BY <1>5 DEF ExecutePlan, Begin, StorePlan, BeginActions, Held, TypeInv, TypeOK, LeaseTypeOK,
      leaseVars, dbVars, workVars, RestUnchanged, At, Goto, PcLabels, Move, OthersKept, SameWork,
      SameEffects, Busy, InControl, Working
<1>6. CASE ExecuteNothing(p)
  BY <1>6 DEF ExecuteNothing, Drop, RowsKept, StorePlan, PlanIds, TypeInv, TypeOK, LeaseTypeOK,
      leaseVars, dbVars, workVars, RestUnchanged, At, Goto, PcLabels, Move, OthersKept, SameWork,
      SameEffects, Busy, InControl, Working
<1>7. CASE ExecuteOperatorAction(p)
  BY <1>7 DEF ExecuteOperatorAction, Begin, StorePlan, BeginActions, Held, TypeInv, TypeOK,
      LeaseTypeOK, leaseVars, dbVars, workVars, RestUnchanged, At, Goto, PcLabels, Move, OthersKept,
      SameWork, SameEffects, Busy, InControl, Working
<1>8. CASE LeaseOpen(p)
  BY <1>8 DEF LeaseOpen, Acquire, Open, TypeInv, TypeOK, LeaseTypeOK, leaseVars, dbVars, workVars,
      RestUnchanged, At, Goto, PcLabels, Move, OthersKept, SameWork, SameEffects, Busy, InControl, Working
<1>9. CASE LeaseTaken(p)
  BY <1>9 DEF LeaseTaken, Acquire, FlockTaken, TypeInv, TypeOK, LeaseTypeOK, leaseVars, dbVars,
      workVars, RestUnchanged, At, Goto, PcLabels, Move, OthersKept, SameWork, SameEffects, Busy,
      InControl, Working
<1>10. CASE LeaseUnavailable(p)
  <2>1. RowsKept(Key(p))
    BY <1>10, TransitionRows DEF LeaseUnavailable, RequestAndLeave, dbVars
  <2> QED BY <1>10, <2>1, LeaveDrops DEF LeaseUnavailable, RequestAndLeave, RestUnchanged, dbVars,
      leaseVars, Move, At, Busy, InControl, Working, FlockRefused
<1>11. CASE PlanDone(p)
  <2>1. RowsKept(Key(p))
    BY <1>11, TransitionRows DEF PlanDone, RequestAndLeave, dbVars
  <2> QED BY <1>11, <2>1, LeaveDrops DEF PlanDone, RequestAndLeave, RestUnchanged, dbVars, leaseVars, Move,
      At, Busy, InControl, Working
<1>12. CASE FrontierChanged(p)
  <2>1. RowsKept(Key(p))
    BY <1>12, TransitionRows DEF FrontierChanged, RequestAndLeave, dbVars
  <2> QED BY <1>12, <2>1, LeaveDrops DEF FrontierChanged, RequestAndLeave, RestUnchanged, dbVars,
      leaseVars, Move, At, Busy, InControl, Working
<1>13. CASE PlanRowGone(p)
  <2>1. RowsKept(Key(p))
    BY <1>13, TransitionRows DEF PlanRowGone, RequestAndLeave, dbVars
  <2> QED BY <1>13, <2>1, LeaveDrops DEF PlanRowGone, RequestAndLeave, RestUnchanged, dbVars, leaseVars,
      Move, At, Busy, InControl, Working
<1>14. CASE TakeNext(p)
  BY <1>14 DEF TakeNext, Take, RowsKept, TypeInv, TypeOK, LeaseTypeOK, leaseVars, dbVars, workVars,
      RestUnchanged, At, Goto, PcLabels, Move, OthersKept, SameWork, SameEffects, Busy, InControl, Working
<1>15. CASE AcquireLocks(p)
  <2>1. RowsKept(Key(p))
    BY <1>15, TransitionRows DEF AcquireLocks, Request, RequestAndLeave, dbVars
  <2>2. CASE locks[p] \cap RequiredLocks[act[p]] = {}
    BY <1>15, <2>1, <2>2 DEF AcquireLocks, Request, Advance, Gates, TransitionActionRun, Shape, Key,
        Keys, TypeInv, TypeOK, LeaseTypeOK, leaseVars, dbVars, workVars, RestUnchanged, At, Goto, PcLabels,
        Move, OthersKept, SameWork, SameEffects, Busy, InControl, Working
  <2>3. CASE ~(locks[p] \cap RequiredLocks[act[p]] = {})
    BY <1>15, <2>1, <2>3, LeaveDrops DEF AcquireLocks, Request, RequestAndLeave, RestUnchanged, dbVars,
        leaseVars, Move, At, Busy, InControl, Working
  <2> QED BY <2>2, <2>3
<1>16. CASE AwaitApproval(p)
  <2>1. RowsKept(Key(p))
    BY <1>16, TransitionRows DEF AwaitApproval, Request, RequestAndLeave, dbVars
  <2>2. CASE MayTransition(action_runs, Key(p), "WAITING_APPROVAL")
    BY <1>16, <2>1, <2>2 DEF AwaitApproval, Request, Advance, Gates, TransitionActionRun, Shape,
        Key, Keys, TypeInv, TypeOK, LeaseTypeOK, leaseVars, dbVars, workVars, RestUnchanged, At, Goto,
        PcLabels, Move, OthersKept, SameWork, SameEffects, Busy, InControl, Working
  <2>3. CASE ~(MayTransition(action_runs, Key(p), "WAITING_APPROVAL"))
    BY <1>16, <2>1, <2>3, LeaveDrops DEF AwaitApproval, Request, RequestAndLeave, RestUnchanged, dbVars,
        leaseVars, Move, At, Busy, InControl, Working
  <2> QED BY <2>2, <2>3
<1>17. CASE RequestApproval(p)
  <2>1. RowsKept(Key(p))
    BY <1>17, TransitionRows DEF RequestApproval, Request, RequestAndLeave, dbVars
  <2>2. CASE HasValidApproval(approvals', Key(p))
    BY <1>17, <2>1, <2>2 DEF RequestApproval, Request, Advance, Gates, TransitionActionRun, Shape,
        Key, Keys, TypeInv, TypeOK, LeaseTypeOK, leaseVars, dbVars, workVars, RestUnchanged, At, Goto,
        PcLabels, Move, OthersKept, SameWork, SameEffects, Busy, InControl, Working
  <2>3. CASE ~(HasValidApproval(approvals', Key(p)))
    BY <1>17, <2>1, <2>3, LeaveDrops DEF RequestApproval, Request, RequestAndLeave, RestUnchanged, dbVars,
        leaseVars, Move, At, Busy, InControl, Working
  <2> QED BY <2>2, <2>3
<1>18. CASE Authorize(p)
  <2>1. RowsKept(Key(p))
    BY <1>18, TransitionRows DEF Authorize, Request, RequestAndLeave, dbVars
  <2>2. CASE MayTransition(action_runs, Key(p), "AUTHORIZED")
    BY <1>18, <2>1, <2>2 DEF Authorize, Request, Advance, Gates, TransitionActionRun, Shape, Key,
        Keys, TypeInv, TypeOK, LeaseTypeOK, leaseVars, dbVars, workVars, RestUnchanged, At, Goto, PcLabels,
        Move, OthersKept, SameWork, SameEffects, Busy, InControl, Working
  <2>3. CASE ~(MayTransition(action_runs, Key(p), "AUTHORIZED"))
    BY <1>18, <2>1, <2>3, LeaveDrops DEF Authorize, Request, RequestAndLeave, RestUnchanged, dbVars,
        leaseVars, Move, At, Busy, InControl, Working
  <2> QED BY <2>2, <2>3
<1>19. CASE Dispatch(p)
  <2>1. RowsKept(Key(p))
    BY <1>19, TransitionRows DEF Dispatch, Request, RequestAndLeave, dbVars
  <2>2. CASE MayTransition(action_runs, Key(p), "DISPATCHED")
    BY <1>19, <2>1, <2>2 DEF Dispatch, Request, Advance, Gates, TransitionActionRun, Shape, Key,
        Keys, TypeInv, TypeOK, LeaseTypeOK, leaseVars, dbVars, workVars, RestUnchanged, At, Goto, PcLabels,
        Move, OthersKept, SameWork, SameEffects, Busy, InControl, Working
  <2>3. CASE ~(MayTransition(action_runs, Key(p), "DISPATCHED"))
    BY <1>19, <2>1, <2>3, LeaveDrops DEF Dispatch, Request, RequestAndLeave, RestUnchanged, dbVars,
        leaseVars, Move, At, Busy, InControl, Working
  <2> QED BY <2>2, <2>3
<1>20. CASE ToctouFailed(p)
  BY <1>20 DEF ToctouFailed, Advance, Gates, RowsKept, TypeInv, TypeOK, LeaseTypeOK, leaseVars,
      dbVars, workVars, RestUnchanged, At, Goto, PcLabels, Move, OthersKept, SameWork, SameEffects, Busy,
      InControl, Working
<1>21. CASE Refuse(p)
  <2>1. RowsKept(Key(p))
    BY <1>21, TransitionRows DEF Refuse, RequestAndLeave, dbVars
  <2> QED BY <1>21, <2>1, LeaveDrops DEF Refuse, RequestAndLeave, RestUnchanged, dbVars, leaseVars, Move,
      At, Busy, InControl, Working
<1>22. CASE ExecuteBuiltin(p)
  BY <1>22 DEF ExecuteBuiltin, Answer, Outcome, TypeInv, TypeOK, LeaseTypeOK, leaseVars, dbVars,
      workVars, RestUnchanged, At, Goto, PcLabels, Move, OthersKept, SameWork, SameEffects, Busy,
      InControl, Working
<1>23. CASE StartJournal(p)
  <2>1. CASE exec_journal[Key(p)] = "NONE"
    BY <1>23, <2>1 DEF StartJournal, OpenJournal, StartExecJournal, TypeInv, TypeOK, LeaseTypeOK,
        leaseVars, dbVars, workVars, RestUnchanged, At, Goto, PcLabels, Move, OthersKept, SameWork,
        SameEffects, Busy, InControl, Working
  <2>2. CASE exec_journal[Key(p)] # "NONE"
    BY <1>23, <2>2 DEF StartJournal, Answer, Outcome, TypeInv, TypeOK, LeaseTypeOK, leaseVars,
        dbVars, workVars, RestUnchanged, At, Goto, PcLabels, Move, OthersKept, SameWork, SameEffects, Busy,
        InControl, Working
  <2> QED BY <2>1, <2>2
<1>24. CASE Realize(p)
  <2>1. PICK moved \in BOOLEAN, raised \in BOOLEAN :
           /\ moved \/ raised
           /\ effects' = [effects EXCEPT ![Key(p)] = IF moved THEN @ + 1 ELSE @]
           /\ result' = [result EXCEPT ![p] = IF raised THEN "failed" ELSE "success"]
    BY <1>24 DEF Realize
  <2>2. CASE moved
    BY <1>24, <2>1, <2>2 DEF Realize, Affect, TypeInv, TypeOK, LeaseTypeOK, leaseVars, dbVars,
        workVars, RestUnchanged, At, Goto, PcLabels, Move, OthersKept, SameWork, SameEffects, Busy,
        InControl, Working
  <2>3. CASE ~moved
    <3>1. effects' = effects
      BY <2>1, <2>3 DEF TypeInv, TypeOK
    <3> QED BY <1>24, <2>1, <2>3, <3>1 DEF Realize, Affect, TypeInv, TypeOK, LeaseTypeOK, leaseVars,
        dbVars, workVars, RestUnchanged, At, Goto, PcLabels, Move, OthersKept, SameWork, SameEffects, Busy,
        InControl, Working
  <2> QED BY <2>2, <2>3
<1>25. CASE FinishJournal(p)
  BY <1>25 DEF FinishJournal, CloseJournal, TypeInv, TypeOK, LeaseTypeOK, leaseVars, dbVars,
      workVars, RestUnchanged, At, Goto, PcLabels, Move, OthersKept, SameWork, SameEffects, Busy,
      InControl, Working
<1>26. CASE FinalizeFailed(p)
  <2>1. RowsKept(Key(p))
    BY <1>26, TransitionRows DEF FinalizeFailed, RequestAndLeave, dbVars
  <2> QED BY <1>26, <2>1, LeaveDrops DEF FinalizeFailed, RequestAndLeave, RestUnchanged, dbVars, leaseVars,
      Move, At, Busy, InControl, Working
<1>27. CASE FinalizeVerified(p)
  <2>1. RowsKept(Key(p))
    BY <1>27, TransitionRows DEF FinalizeVerified
  <2>2. CASE MayTransition(action_runs, Key(p), "DONE")
    BY <1>27, <2>1, <2>2 DEF FinalizeVerified, PutDown, Complete, TypeInv, TypeOK, LeaseTypeOK,
        leaseVars, dbVars, workVars, RestUnchanged, At, Goto, PcLabels, Move, OthersKept, SameWork,
        SameEffects, Busy, InControl, Working
  <2>3. CASE ~MayTransition(action_runs, Key(p), "DONE")
    BY <1>27, <2>1, <2>3, LeaveDrops DEF FinalizeVerified, leaseVars, Move, At, Busy, InControl, Working
  <2> QED BY <2>2, <2>3
<1>28. CASE FinalizeMismatch(p)
  <2>1. RowsKept(Key(p))
    BY <1>28, TransitionRows DEF FinalizeMismatch, RequestAndLeave, dbVars
  <2> QED BY <1>28, <2>1, LeaveDrops DEF FinalizeMismatch, RequestAndLeave, RestUnchanged, dbVars,
      leaseVars, Move, At, Busy, InControl, Working
<1>29. CASE FinalizeRaises(p)
  <2>1. RowsKept(Key(p))
    BY <1>29, TransitionRows DEF FinalizeRaises, RequestAndLeave, dbVars
  <2> QED BY <1>29, <2>1, LeaveDrops DEF FinalizeRaises, RequestAndLeave, RestUnchanged, dbVars, leaseVars,
      Move, At, Busy, InControl, Working
<1> QED BY <1>1, <1>2, <1>3, <1>4, <1>5, <1>6, <1>7, <1>8, <1>9, <1>10, <1>11, <1>12, <1>13, <1>14,
    <1>15, <1>16, <1>17, <1>18, <1>19, <1>20, <1>21, <1>22, <1>23, <1>24, <1>25, <1>26, <1>27,
    <1>28, <1>29, <1>30 DEF ProcessStep, EngineStep

(* A step is a process's move or leaves all of this alone.                  *)
LEMMA NextMoves ==
    ASSUME TypeInv, [Next]_vars
    PROVE  \/ \E p \in Procs : ProcessStep(p) /\ Move(p)
           \/ UNCHANGED <<leaseVars, exec_journal, action_runs, nextPlan, pc, workVars, effects>>
<1>1. CASE UNCHANGED vars
  BY <1>1 DEF vars, dbVars
<1>2. CASE \E p \in Procs : ProcessStep(p)
  BY <1>2, Moves
<1>3. CASE Operator
  BY <1>3 DEF Operator, RecordApproval, ApprovalExpires
<1> QED BY <1>1, <1>2, <1>3 DEF Next, ProcessStep

-----------------------------------------------------------------------------
(* One writer.                                                              *)

(* Whoever is past the lease holds it.                                      *)
ControlHeld == \A p \in Procs : pc[p] \in InControl => fd[p] # NoFile

WriterInv == TypeInv /\ LeaseInv /\ ControlHeld

(* A process's step is a step of the lease, or leaves it alone.             *)
LEMMA ProcessLease ==
    ASSUME FlushOnStart = {}, LeaseInv, NEW p \in Procs, ProcessStep(p)
    PROVE  LeaseInv'
<1>1. \/ Open(p) \/ FlockTaken(p) \/ FlockRefused(p) \/ Release(p) \/ UNCHANGED leaseVars
  BY DEF ProcessStep, EngineStep, Start, FlushApprovals, FlushJournal, FlushRuns, FlushPlans, Flush,
         Unlink, UnlinkLock, Stop, Plan, ExecutePlan, ExecuteNothing,
         ExecuteOperatorAction, StorePlan, LeaseOpen, LeaseTaken, LeaseUnavailable, PlanDone,
         FrontierChanged, PlanRowGone, TakeNext, AcquireLocks, AwaitApproval, RequestApproval,
         Authorize, Dispatch, ToctouFailed, Refuse, ExecuteBuiltin, StartJournal, Realize,
         FinishJournal, FinalizeFailed, FinalizeVerified, FinalizeMismatch, FinalizeRaises, RestUnchanged
<1> QED BY <1>1, LeaseStep, LeaseStutter

LEMMA WriterInit == Init => WriterInv
BY TypeInit, LeaseAssumption
   DEF WriterInv, Init, LeaseInit, LeaseInv, LeaseTypeOK, MutualExclusion, Held, ControlHeld,
       InControl, Working

LEMMA WriterStep ==
    ASSUME FlushOnStart = {}
    PROVE  WriterInv /\ [Next]_vars => WriterInv'
<1> SUFFICES ASSUME WriterInv, [Next]_vars PROVE WriterInv'
  OBVIOUS
<1>1. TypeInv'
  BY TypeStep DEF WriterInv
<1>2. CASE UNCHANGED <<leaseVars, exec_journal, action_runs, nextPlan, pc, workVars, effects>>
  BY <1>1, <1>2, LeaseStutter DEF WriterInv, ControlHeld, leaseVars
<1>3. ASSUME NEW p \in Procs, ProcessStep(p), Move(p) PROVE WriterInv'
  <2>1. LeaseInv'
    BY <1>3, ProcessLease DEF WriterInv
  <2>2. pc'[p] \in InControl => fd'[p] # NoFile
    BY <1>3 DEF WriterInv, ControlHeld, Move, Drop, Begin, Acquire, Take, Advance, Gates,
                OpenJournal, Affect, CloseJournal, Answer, Complete, Busy, InControl, Working
  <2>3. \A q \in Procs \ {p} : pc'[q] \in InControl => fd'[q] # NoFile
    BY <1>3 DEF WriterInv, ControlHeld, Move, OthersKept
  <2> QED BY <1>1, <2>1, <2>2, <2>3 DEF WriterInv, ControlHeld
<1> QED BY <1>2, <1>3, NextMoves DEF WriterInv

LEMMA WriterSingle == WriterInv => SingleWriter
BY DEF WriterInv, LeaseInv, MutualExclusion, Held, ControlHeld, SingleWriter

(* Only one process is past the control lease (engine.py:245), for any      *)
(* number of processes, crashes and restarts, as long as no process is      *)
(* started with flush_state_on_start.                                       *)
THEOREM OneWriter ==
    ASSUME FlushOnStart = {}
    PROVE  Spec => []SingleWriter
BY WriterInit, WriterStep, WriterSingle, PTL DEF Spec

-----------------------------------------------------------------------------
(* At most one effect.                                                      *)

(* No two processes work on one plan.                                       *)
PlansApart ==
    \A p, q \in Procs : pc[p] \in Busy /\ pc[q] \in Busy /\ plan[p] = plan[q] => p = q

(* Nothing has moved for a plan not stored yet, for an action not taken up  *)
(* yet, or for the action in hand before it is realized.                    *)
NotYetMoved ==
    /\ \A k \in Keys : k[1] >= nextPlan => effects[k] = 0
    /\ \A p \in Procs : pc[p] \in Busy => \A a \in todo[p] : effects[<<plan[p], a>>] = 0
    /\ \A p \in Procs : pc[p] \in BeforeEffect => effects[<<plan[p], act[p]>>] = 0

EffectInv == TypeInv /\ PlansApart /\ NotYetMoved /\ AtMostOnce

(* Every step of Engine keeps the plans apart and the effects at one.       *)
LEMMA EffectStep == EffectInv /\ [Next]_vars => EffectInv'
<1> SUFFICES ASSUME EffectInv, [Next]_vars PROVE EffectInv'
  OBVIOUS
<1>1. TypeInv'
  BY TypeStep DEF EffectInv
<1>2. CASE UNCHANGED <<leaseVars, exec_journal, action_runs, nextPlan, pc, workVars, effects>>
  BY <1>1, <1>2 DEF EffectInv, PlansApart, NotYetMoved, AtMostOnce, workVars
<1>3. ASSUME NEW p \in Procs, Move(p) PROVE EffectInv'
  <2> USE <1>3 DEF EffectInv, Busy, InControl, Working, BeforeEffect
  <2>0. OthersKept(p)
    BY DEF Move
  <2>1. CASE Drop(p)
    <3>1. PlansApart'
      BY <2>0, <2>1 DEF Drop, OthersKept, PlansApart
    <3>2. nextPlan' >= nextPlan
      BY <2>1 DEF Drop, TypeInv, TypeOK
    <3>3. \A k \in Keys : k[1] >= nextPlan' => effects'[k] = 0
      BY <1>1, <2>1, <3>2 DEF Drop, NotYetMoved, Keys, PlanIds, TypeInv, TypeOK
    <3>4. AtMostOnce'
      BY <2>1 DEF Drop, AtMostOnce
    <3> QED BY <1>1, <2>0, <2>1, <3>1, <3>3, <3>4 DEF Drop, OthersKept, NotYetMoved
  <2>2. CASE Begin(p)
    <3>1. PlansApart'
      BY <2>0, <2>2 DEF Begin, OthersKept, PlansApart, TypeInv, TypeOK, Shape, PlanIds
    <3>2. \A a \in todo'[p] : effects'[<<plan'[p], a>>] = 0
      BY <1>1, <2>2 DEF Begin, NotYetMoved, TypeInv, TypeOK, Keys, PlanIds
    <3>3. \A k \in Keys : k[1] >= nextPlan' => effects'[k] = 0
      BY <2>2 DEF Begin, NotYetMoved, Keys, PlanIds, TypeInv, TypeOK
    <3>4. AtMostOnce'
      BY <2>2 DEF Begin, AtMostOnce
    <3> QED BY <1>1, <2>0, <2>2, <3>1, <3>2, <3>3, <3>4 DEF Begin, OthersKept, NotYetMoved
  <2>3. CASE Acquire(p) \/ Take(p) \/ Advance(p) \/ OpenJournal(p) \/ CloseJournal(p)
             \/ Answer(p) \/ Complete(p)
    <3>1. SameEffects /\ plan'[p] = plan[p] /\ todo'[p] \subseteq todo[p] /\ pc[p] \in Busy
      BY <2>3 DEF Acquire, Take, Advance, OpenJournal, CloseJournal, Answer, Complete, SameWork,
                  SameEffects, Gates
    <3>2. pc'[p] \in BeforeEffect => \/ pc[p] \in BeforeEffect /\ act'[p] = act[p]
                                    \/ act'[p] \in todo[p]
      BY <2>3 DEF Acquire, Take, Advance, OpenJournal, CloseJournal, Answer, Complete, SameWork, Gates
    <3> QED BY <1>1, <2>0, <3>1, <3>2 DEF OthersKept, PlansApart, NotYetMoved, AtMostOnce, SameEffects
  <2>4. CASE Affect(p)
    <3>1. PlansApart'
      BY <2>0, <2>4 DEF Affect, SameWork, OthersKept, PlansApart
    <3>2. Key(p) \in Keys /\ effects[Key(p)] = 0 /\ act[p] \notin todo[p] /\ plan[p] < nextPlan
      BY <2>4 DEF Affect, NotYetMoved, Key, Keys, TypeInv, Shape
    <3>3. \A k \in Keys \ {Key(p)} : effects'[k] = effects[k]
      BY <2>4 DEF Affect, TypeInv, TypeOK
    <3>4. effects'[Key(p)] \in {0, 1}
      BY <2>4, <3>2 DEF Affect, TypeInv, TypeOK
    <3>5. AtMostOnce'
      BY <3>3, <3>4 DEF AtMostOnce
    <3>6. \A k \in Keys : k[1] >= nextPlan' => effects'[k] = 0
      BY <2>4, <3>2, <3>3 DEF Affect, NotYetMoved, Key, Keys, PlanIds, TypeInv, TypeOK
    <3>7. \A q \in Procs, a \in Actions :
             pc'[q] \in Busy /\ (q = p => a # act[p]) =>
                <<plan'[q], a>> \in Keys \ {Key(p)}
      BY <1>1, <2>0, <2>4 DEF Affect, SameWork, OthersKept, PlansApart, Key, Keys, TypeInv, Shape
    <3>8. \A q \in Procs : pc'[q] \in Busy => \A a \in todo'[q] : effects'[<<plan'[q], a>>] = 0
      BY <1>1, <2>0, <2>4, <3>2, <3>3, <3>7
         DEF Affect, SameWork, OthersKept, NotYetMoved, TypeInv, TypeOK
    <3>9. \A q \in Procs : pc'[q] \in BeforeEffect => effects'[<<plan'[q], act'[q]>>] = 0
      BY <1>1, <2>0, <2>4, <3>3, <3>7
         DEF Affect, SameWork, OthersKept, NotYetMoved, TypeInv, Shape
    <3> QED BY <1>1, <3>1, <3>5, <3>6, <3>8, <3>9 DEF NotYetMoved
  <2> QED BY <2>1, <2>2, <2>3, <2>4 DEF Move
<1> QED BY <1>2, <1>3, NextMoves DEF EffectInv

(* Nothing has moved when the first process starts.                         *)
LEMMA EffectInit == Init => EffectInv
BY TypeInit DEF EffectInv, Init, PlansApart, NotYetMoved, AtMostOnce, Busy, InControl, Working,
                BeforeEffect, Keys

(* One idempotency key moves the hardware at most once (packs/base.py:80),  *)
(* whatever crashes, restarts, flushes or races: the argument rests on      *)
(* fresh plan ids and on PlanIR refusing duplicates, not on the journal.    *)
THEOREM EffectsAtMostOnce == Spec => []AtMostOnce
<1>1. EffectInv => AtMostOnce
  BY DEF EffectInv
<1> QED BY EffectInit, EffectStep, <1>1, PTL DEF Spec

-----------------------------------------------------------------------------
(* The write-ahead log.                                                     *)

(* What the durable tables say of the plan a process has in hand.           *)
Recorded(p) ==
    /\ pc[p] \in Busy => \A a \in todo[p] : exec_journal[<<plan[p], a>>] = "NONE"
    /\ pc[p] \in Gates \cup {"execute"} => exec_journal[<<plan[p], act[p]>>] = "NONE"
    /\ pc[p] \in {"realize", "finish"} => exec_journal[<<plan[p], act[p]>>] = "IN_FLIGHT"
    /\ pc[p] = "finish" /\ result[p] = "success" => effects[<<plan[p], act[p]>>] = 1
    /\ pc[p] \in {"execute", "realize", "finish", "finalize"}
          => action_runs[<<plan[p], act[p]>>] = "DISPATCHED"

(* No journal row of a plan not stored yet.                                 *)
FreshJournal == \A k \in Keys : k[1] >= nextPlan => exec_journal[k] = "NONE"

LogInv ==
    /\ EffectInv
    /\ \A p \in Procs : Recorded(p)
    /\ FreshJournal
    /\ EvidenceSurvives

(* The move of one process leaves the rows of another one's plan alone.     *)
LEMMA OtherPlansKept ==
    ASSUME FlushOnStart = {}, EffectInv, NEW p \in Procs, Move(p),
           NEW q \in Procs \ {p}, pc[q] \in Busy, NEW a \in Actions
    PROVE  /\ exec_journal'[<<plan[q], a>>] = exec_journal[<<plan[q], a>>]
           /\ action_runs'[<<plan[q], a>>] = action_runs[<<plan[q], a>>]
           /\ effects'[<<plan[q], a>>] = effects[<<plan[q], a>>]
<1> DEFINE k == <<plan[q], a>>
<1>1. k \in Keys
  BY DEF EffectInv, TypeInv, Shape, Keys
<1>2. CASE pc[p] \in Busy
  <2>1. plan[p] # plan[q]
    BY <1>2 DEF EffectInv, PlansApart
  <2>2. k # Key(p) /\ \A b : k # <<plan[p], b>>
    BY <2>1 DEF Key
  <2>3. exec_journal'[k] = exec_journal[k] /\ effects'[k] = effects[k]
    BY <1>1, <2>2 DEF Move, Drop, Begin, Acquire, Take, Advance, OpenJournal, Affect, CloseJournal,
         Answer, Complete, SameEffects, FinishExecJournal, EffectInv, TypeInv, TypeOK
  <2>4. action_runs'[k] = action_runs[k]
    BY <1>1, <2>2 DEF Move, Drop, Begin, Acquire, Take, Advance, OpenJournal, Affect, CloseJournal,
         Answer, Complete, RowsKept
  <2> QED BY <2>3, <2>4
<1>3. CASE pc[p] \notin Busy
  BY <1>1, <1>3 DEF Move, Drop, Begin, Acquire, Take, Advance, OpenJournal, Affect, CloseJournal,
         Answer, Complete, Gates, Busy, InControl, Working
<1> QED BY <1>2, <1>3

(* The journal starts empty.                                                *)
LEMMA LogInit == Init => LogInv
BY EffectInit DEF LogInv, Init, Recorded, FreshJournal, EvidenceSurvives, Busy, InControl, Working, Gates

(* While no start-up deletes the tables, every step keeps the journal ahead *)
(* of the machine and the row in hand where the code believes it to be.     *)
LEMMA LogStep ==
    ASSUME FlushOnStart = {}
    PROVE  LogInv /\ [Next]_vars => LogInv'
<1> SUFFICES ASSUME LogInv, [Next]_vars PROVE LogInv'
  OBVIOUS
<1>1. EffectInv' /\ EffectInv /\ TypeInv
  BY EffectStep DEF LogInv, EffectInv
<1>2. CASE UNCHANGED <<leaseVars, exec_journal, action_runs, nextPlan, pc, workVars, effects>>
  BY <1>1, <1>2 DEF LogInv, Recorded, FreshJournal, EvidenceSurvives, workVars
<1>3. ASSUME NEW p \in Procs, Move(p) PROVE LogInv'
  <2> USE <1>1, <1>3
  <2>0. OthersKept(p) /\ Recorded(p)
    BY DEF Move, LogInv
  <2>1. pc[p] \in Busy => plan[p] \in PlanIds /\ plan[p] < nextPlan
    BY DEF TypeInv, Shape
  <2>2. pc[p] \in Working => Key(p) \in Keys
    BY <2>1 DEF TypeInv, Shape, Key, Keys, Busy, InControl
  <2>3. ASSUME NEW q \in Procs \ {p} PROVE Recorded(q)'
    <3>1. CASE pc[q] \in Busy
      <4>1. \A a \in Actions : /\ exec_journal'[<<plan[q], a>>] = exec_journal[<<plan[q], a>>]
                               /\ action_runs'[<<plan[q], a>>] = action_runs[<<plan[q], a>>]
                               /\ effects'[<<plan[q], a>>] = effects[<<plan[q], a>>]
        BY <2>3, <3>1, OtherPlansKept
      <4>2. todo[q] \subseteq Actions /\ (pc[q] \in Working => act[q] \in Actions)
        BY DEF TypeInv, TypeOK, Shape
      <4> QED BY <2>0, <4>1, <4>2 DEF OthersKept, LogInv, Recorded, Gates, Working
    <3>2. CASE pc[q] \notin Busy
      BY <2>0, <3>2 DEF OthersKept, Recorded, Gates, Busy, InControl, Working
    <3> QED BY <3>1, <3>2
  <2>4. CASE Drop(p)
    <3>1. Recorded(p)'
      BY <2>4 DEF Drop, Recorded, Gates, Busy, InControl, Working
    <3>2. exec_journal' = exec_journal /\ effects' = effects /\ nextPlan' >= nextPlan
      BY <2>4 DEF Drop, TypeInv, TypeOK
    <3>3. FreshJournal' /\ EvidenceSurvives'
      BY <2>4, <3>2 DEF Drop, LogInv, FreshJournal, EvidenceSurvives, Keys, PlanIds, TypeInv, TypeOK
    <3> QED BY <2>3, <3>1, <3>3 DEF LogInv
  <2>5. CASE Begin(p)
    <3>1. \A a \in todo'[p] : exec_journal'[<<plan'[p], a>>] = "NONE"
      BY <2>5 DEF Begin, LogInv, FreshJournal, EffectInv, TypeInv, TypeOK, Keys, PlanIds
    <3>2. Recorded(p)'
      BY <2>5, <3>1 DEF Begin, Recorded, Gates
    <3>3. FreshJournal' /\ EvidenceSurvives'
      BY <2>5 DEF Begin, LogInv, FreshJournal, EvidenceSurvives, Keys, PlanIds, TypeInv, TypeOK
    <3> QED BY <2>3, <3>2, <3>3 DEF LogInv
  <2>6. CASE Acquire(p) \/ Take(p) \/ Advance(p) \/ Answer(p) \/ Complete(p)
    <3>1. exec_journal' = exec_journal /\ SameEffects
      BY <2>6 DEF Acquire, Take, Advance, Answer, Complete
    <3>2. Recorded(p)'
      <4>1. CASE Acquire(p)
        BY <2>0, <4>1 DEF Acquire, Recorded, SameWork, Gates, Busy, InControl, Working
      <4>2. CASE Take(p)
        BY <2>0, <4>2 DEF Take, Recorded, Gates, Busy, InControl, Working
      <4>3. CASE Advance(p)
        BY <2>0, <4>3 DEF Advance, Recorded, SameWork, Key, Gates, Busy, InControl, Working
      <4>4. CASE Answer(p)
        BY <2>0, <4>4 DEF Answer, Recorded, SameWork, Gates, Busy, InControl, Working
      <4>5. CASE Complete(p)
        BY <2>0, <4>5 DEF Complete, Recorded, Gates, Busy, InControl, Working
      <4> QED BY <2>6, <4>1, <4>2, <4>3, <4>4, <4>5
    <3> QED BY <2>3, <3>1, <3>2 DEF LogInv, SameEffects, FreshJournal, EvidenceSurvives
  <2>7. CASE OpenJournal(p)
    <3>1. Key(p) \in Keys /\ plan[p] < nextPlan /\ act[p] \notin todo[p] /\ todo[p] \subseteq Actions
      BY <2>1, <2>2, <2>7 DEF OpenJournal, TypeInv, TypeOK, Shape, Busy, InControl, Working
    <3>2. /\ exec_journal'[Key(p)] = "IN_FLIGHT"
          /\ \A k \in Keys \ {Key(p)} : exec_journal'[k] = exec_journal[k]
      BY <2>7, <3>1 DEF OpenJournal, TypeInv, TypeOK
    <3>3. Recorded(p)'
      BY <2>0, <2>1, <2>7, <3>1, <3>2
         DEF OpenJournal, Recorded, SameWork, Key, Keys, Gates, Busy, InControl, Working
    <3>4. FreshJournal' /\ EvidenceSurvives'
      BY <2>1, <2>7, <3>1, <3>2
         DEF OpenJournal, SameEffects, LogInv, FreshJournal, EvidenceSurvives, Key, Keys, PlanIds,
             TypeInv, TypeOK, Busy, InControl, Working
    <3> QED BY <2>3, <3>3, <3>4 DEF LogInv
  <2>8. CASE Affect(p)
    <3>1. Key(p) \in Keys /\ exec_journal[Key(p)] = "IN_FLIGHT" /\ effects[Key(p)] = 0
      BY <2>0, <2>2, <2>8 DEF Affect, Recorded, Key, EffectInv, NotYetMoved, BeforeEffect, Working
    <3>2. /\ \A k \in Keys \ {Key(p)} : effects'[k] = effects[k]
          /\ result'[p] = "success" => effects'[Key(p)] = 1
      BY <2>8, <3>1 DEF Affect, TypeInv, TypeOK
    <3>3. Recorded(p)'
      BY <2>0, <2>8, <3>2 DEF Affect, Recorded, SameWork, Key, Gates, Busy, InControl, Working
    <3>4. FreshJournal' /\ EvidenceSurvives'
      BY <2>8, <3>1, <3>2 DEF Affect, LogInv, FreshJournal, EvidenceSurvives
    <3> QED BY <2>3, <3>3, <3>4 DEF LogInv
  <2>9. CASE CloseJournal(p)
    <3>1. Key(p) \in Keys /\ plan[p] < nextPlan /\ act[p] \notin todo[p] /\ todo[p] \subseteq Actions
      BY <2>1, <2>2, <2>9 DEF CloseJournal, TypeInv, TypeOK, Shape, Busy, InControl, Working
    <3>2. /\ exec_journal'[Key(p)] # "NONE"
          /\ \A k \in Keys \ {Key(p)} : exec_journal'[k] = exec_journal[k]
      BY <2>0, <2>9, <3>1 DEF CloseJournal, FinishExecJournal, Recorded, Key, TypeInv, TypeOK
    <3>3. Recorded(p)'
      BY <2>0, <2>1, <2>9, <3>1, <3>2
         DEF CloseJournal, Recorded, SameWork, Key, Keys, Gates, Busy, InControl, Working
    <3>4. \A k \in Keys : k[1] >= nextPlan => k # Key(p)
      BY <2>1, <2>9, <3>1 DEF CloseJournal, Key, Keys, PlanIds, TypeInv, TypeOK, Busy, InControl, Working
    <3>5. nextPlan' = nextPlan /\ effects' = effects
      BY <2>9 DEF CloseJournal, SameEffects
    <3>6. FreshJournal'
      BY <3>2, <3>4, <3>5 DEF LogInv, FreshJournal
    <3>7. EvidenceSurvives'
      BY <3>1, <3>2, <3>5 DEF LogInv, EvidenceSurvives
    <3> QED BY <2>3, <3>3, <3>6, <3>7 DEF LogInv
  <2> QED BY <2>4, <2>5, <2>6, <2>7, <2>8, <2>9 DEF Move
<1> QED BY <1>1, <1>2, <1>3, NextMoves DEF LogInv

(* While no process flushes, the journal has a row for every effect, after  *)
(* any sequence of crashes and restarts (packs/base.py:96).                 *)
THEOREM EvidenceIsKept ==
    ASSUME FlushOnStart = {}
    PROVE  Spec => []EvidenceSurvives
<1>1. LogInv => EvidenceSurvives
  BY DEF LogInv
<1> QED BY LogInit, LogStep, <1>1, PTL DEF Spec

(* While the hardware is driven the row is DISPATCHED and the journal       *)
(* IN_FLIGHT: the README's safety-critical invariants 4 and 5.              *)
THEOREM BarriersHold ==
    ASSUME FlushOnStart = {}
    PROVE  Spec => []BarrierBeforeEffect
<1>1. LogInv => BarrierBeforeEffect
  BY DEF LogInv, Recorded, BarrierBeforeEffect, Key
<1> QED BY LogInit, LogStep, <1>1, PTL DEF Spec

(* The engine with its processes, crashes and plans implements the          *)
(* write-ahead log of EffectLog.                                            *)
THEOREM ImplementsEffectLog ==
    ASSUME FlushOnStart = {}
    PROVE  Spec => WriteAhead
<1>1. Init => Log!LogInit
  BY DEF Init, Log!LogInit
<1>2. LogInv /\ [Next]_vars => [Log!LogNext]_(Log!logVars)
  <2> SUFFICES ASSUME LogInv, [Next]_vars PROVE [Log!LogNext]_(Log!logVars)
    OBVIOUS
  <2>1. TypeInv
    BY DEF LogInv, EffectInv
  <2>2. CASE UNCHANGED <<leaseVars, exec_journal, action_runs, nextPlan, pc, workVars, effects>>
    BY <2>2 DEF Log!logVars
  <2>3. ASSUME NEW p \in Procs, Move(p) PROVE [Log!LogNext]_(Log!logVars)
    <3> USE <2>1, <2>3
    <3>1. CASE Drop(p) \/ Begin(p) \/ Acquire(p) \/ Take(p) \/ Advance(p) \/ Answer(p) \/ Complete(p)
      BY <3>1 DEF Drop, Begin, Acquire, Take, Advance, Answer, Complete, SameEffects, Log!logVars
    <3>2. pc[p] \in Working => Key(p) \in Keys
      BY DEF TypeInv, Shape, Key, Keys, Busy, InControl
    <3>3. CASE OpenJournal(p)
      <4>1. Key(p) \in Keys
        BY <3>2, <3>3 DEF OpenJournal, Working
      <4>2. Log!OpenEntry(Key(p))
        BY <3>3 DEF OpenJournal, SameEffects, Log!OpenEntry
      <4> QED BY <4>1, <4>2 DEF Log!LogNext
    <3>4. CASE Affect(p)
      <4>1. Key(p) \in Keys /\ exec_journal[Key(p)] = "IN_FLIGHT" /\ effects[Key(p)] = 0
        BY <3>2, <3>4 DEF Affect, LogInv, Recorded, Key, EffectInv, NotYetMoved, BeforeEffect, Working
      <4>2. CASE effects' = effects
        BY <3>4, <4>2 DEF Affect, Log!logVars
      <4>3. CASE effects' = [effects EXCEPT ![Key(p)] = effects[Key(p)] + 1]
        <5>1. Log!Move(Key(p))
          BY <3>4, <4>1, <4>3 DEF Affect, Log!Move
        <5> QED BY <4>1, <5>1 DEF Log!LogNext
      <4> QED BY <3>4, <4>2, <4>3 DEF Affect
    <3>5. CASE CloseJournal(p)
      <4>1. Key(p) \in Keys /\ exec_journal[Key(p)] = "IN_FLIGHT"
        BY <3>2, <3>5 DEF CloseJournal, LogInv, Recorded, Key, Working
      <4>2. PICK s \in {"SUCCESS", "FAILED"} :
               /\ s = "SUCCESS" => result[p] = "success"
               /\ exec_journal' = FinishExecJournal(exec_journal, Key(p), s)
        BY <3>5 DEF CloseJournal
      <4>3. s = "SUCCESS" => effects[Key(p)] = 1
        BY <3>5, <4>2 DEF CloseJournal, LogInv, Recorded, Key
      <4>4. Log!CloseEntry(Key(p), s)
        BY <3>5, <4>1, <4>2, <4>3 DEF CloseJournal, SameEffects, FinishExecJournal, Log!CloseEntry
      <4> QED BY <4>1, <4>4 DEF Log!LogNext
    <3> QED BY <3>1, <3>3, <3>4, <3>5 DEF Move
  <2> QED BY <2>1, <2>2, <2>3, NextMoves
<1> QED BY LogInit, LogStep, <1>1, <1>2, PTL DEF Spec, WriteAhead, Log!LogSpec

-----------------------------------------------------------------------------
(* The durable tables.  Start-ups that delete them, one after the other,    *)
(* are allowed for, so a row in hand may be gone and so may its journal     *)
(* row: HandRow says for every label which status the row can have,         *)
(* HandJournal what the journal says of it.  Approvals are spoken of only   *)
(* when nobody deletes them.                                                *)

Row(p, a) == action_runs[<<plan[p], a>>]
Entry(p, a) == exec_journal[<<plan[p], a>>]

Asked == {"authorize", "toctou", "refuse", "execute", "realize", "finish", "finalize"}
Dispatched == {"execute", "realize", "finish", "finalize"}

(* The statuses the row in hand can have, if it has not been deleted.       *)
RowAt ==
    [l \in Working |->
        CASE l \in {"locks", "approval"}    -> {"PROPOSED"}
          [] l = "ask"                      -> {"WAITING_APPROVAL"}
          [] l = "authorize"                -> {"PROPOSED", "WAITING_APPROVAL"}
          [] l \in {"toctou", "refuse"}     -> {"AUTHORIZED"}
          [] OTHER                          -> {"DISPATCHED"}]

(* The rows of the plan in hand: not there before its action is taken up,   *)
(* DONE when it has been put down.                                          *)
HandRow(p) ==
    /\ pc[p] \in Busy => \A a \in todo[p] : Row(p, a) = "ABSENT" /\ Entry(p, a) = "NONE"
    /\ pc[p] \in Busy => \A a \in Actions :
           (pc[p] \in Working => a # act[p]) => Row(p, a) \in {"ABSENT", "DONE"}
    /\ pc[p] \in Working => Row(p, act[p]) \in RowAt[pc[p]] \cup {"ABSENT"}

HandJournal(p) ==
    /\ pc[p] \in Gates \cup {"execute"} => Entry(p, act[p]) = "NONE"
    /\ pc[p] \in {"realize", "finish"} =>
           Entry(p, act[p]) \in {"IN_FLIGHT"} \cup Flushed /\ act[p] \notin Builtin
    /\ pc[p] = "finish" =>
           /\ result[p] \in {"success", "failed"}
           /\ result[p] = "success" => effects[<<plan[p], act[p]>>] > 0
    /\ pc[p] = "finalize" =>
           /\ result[p] \in {"success", "failed", "wait_pending"}
           /\ result[p] # "failed" /\ act[p] \notin Builtin
              => Entry(p, act[p]) \in {"SUCCESS"} \cup Flushed

HandApproval(p) ==
    FlushOnStart = {} /\ pc[p] \in Asked /\ act[p] \in NeedsApproval
    => approvals[<<plan[p], act[p]>>] \cap {"APPROVE", "EXPIRED"} # {}

HandLocks(p) == pc[p] \notin Working \/ pc[p] = "locks" => locks[p] = {}

Hand(p) == HandRow(p) /\ HandJournal(p) /\ HandApproval(p) /\ HandLocks(p)

(* No row of a plan not stored yet.                                         *)
FreshRows == \A k \in Keys : k[1] >= nextPlan => action_runs[k] = "ABSENT" /\ exec_journal[k] = "NONE"

ApprovalGateKept == FlushOnStart = {} => ApprovalGate

RowsInv ==
    /\ EffectInv
    /\ \A p \in Procs : Hand(p)
    /\ FreshRows
    /\ TablesAgree /\ ApprovalGateKept /\ StopsAtFirstFailure /\ AmbiguityNeverNoticed

(* A planner's plan is in hand exactly while refresh is set.                *)
PlannersPlan ==
    \A p \in Procs :
        /\ pc[p] \notin Busy => ~refresh[p]
        /\ pc[p] \in Busy /\ plans[plan[p]] = "planner" => refresh[p]

(* The action in hand was in the frontier when it was taken up, and nobody  *)
(* else has dispatched anything since.                                      *)
StillFree ==
    \A p \in Procs : pc[p] \in Gates /\ refresh[p] => RequiredLocks[act[p]] \cap ActiveLocks = {}

LocksInv == WriterInv /\ RowsInv /\ PlannersPlan /\ StillFree /\ DispatchedLocksDisjoint

-----------------------------------------------------------------------------
(* The turns of a process: what a step does to the tables, to the process   *)
(* and to the locks.                                                        *)

Kept(p) ==
    \A q \in Procs \ {p} :
        /\ pc'[q] = pc[q] /\ plan'[q] = plan[q] /\ todo'[q] = todo[q] /\ act'[q] = act[q]
        /\ result'[q] = result[q] /\ refresh'[q] = refresh[q] /\ locks'[q] = locks[q]
        /\ interlock'[q] = interlock[q]

SameTables == UNCHANGED <<action_runs, exec_journal, approvals, effects>>
SamePlans  == UNCHANGED <<plans, nextPlan>>
SameHand(p) == SameWork(p) /\ locks'[p] = locks[p] /\ refresh'[p] = refresh[p] /\ interlock'[p] = interlock[p]
SetRow(k, s) == action_runs' = [action_runs EXCEPT ![k] = s] /\ UNCHANGED <<exec_journal, approvals, effects>>

Stores(who) == nextPlan \in PlanIds /\ nextPlan' = nextPlan + 1 /\ plans' = [plans EXCEPT ![nextPlan] = who]

(* One table is emptied, and what cascades from it.                         *)
Flushes(p) ==
    /\ p \in FlushOnStart /\ pc[p] \notin Busy /\ pc'[p] \notin Busy
    /\ \A k \in Keys : /\ action_runs'[k] \in {action_runs[k], "ABSENT"}
                        /\ exec_journal'[k] \in {exec_journal[k], "NONE"}
    /\ nextPlan' = nextPlan /\ effects' = effects /\ locks'[p] = locks[p] /\ interlock'[p] = interlock[p]

Idles(p) ==
    /\ pc[p] \notin Busy /\ pc'[p] \notin Busy
    /\ SameTables /\ (SamePlans \/ Stores("planner"))
    /\ locks'[p] = locks[p] /\ refresh'[p] = refresh[p] /\ (interlock'[p] => interlock[p])

Begins(p) ==
    /\ pc[p] \notin Busy /\ pc'[p] \in {"next", "open"} /\ plan'[p] = nextPlan
    /\ SameTables /\ locks'[p] = locks[p] /\ interlock'[p] = interlock[p]
    /\ \/ Stores("planner") /\ refresh'[p]
       \/ Stores("operator") /\ refresh'[p] = refresh[p]

Acquires(p) ==
    /\ pc[p] \in {"open", "flock"} /\ pc'[p] \in {"flock", "next"}
    /\ SameTables /\ SamePlans /\ SameHand(p)

(* _execute_actions is left, with a last transition or without.             *)
Quits(p) ==
    /\ pc'[p] \notin Busy /\ SamePlans /\ locks'[p] = {} /\ ~refresh'[p]
    /\ \/ SameTables /\ interlock'[p] = interlock[p]
       \/ /\ pc[p] \in Working
          /\ \E s \in {"REPLAN_REQUIRED", "FAILED", "UNKNOWN"} :
                /\ MayTransition(action_runs, Key(p), s) /\ SetRow(Key(p), s)
                /\ interlock'[p] => interlock[p] \/ s = "UNKNOWN"
                /\ s = "UNKNOWN" => pc[p] = "finalize" /\ result[p] = "in_flight"

Takes(p) ==
    /\ pc[p] = "next" /\ pc'[p] = "locks" /\ plan'[p] = plan[p]
    /\ act'[p] \in todo[p] /\ todo'[p] = todo[p] \ {act'[p]}
    /\ refresh[p] => act'[p] \in Frontier(facts[p])
    /\ SetRow(<<plan[p], act'[p]>>, "PROPOSED") /\ SamePlans
    /\ locks'[p] = locks[p] /\ refresh'[p] = refresh[p] /\ interlock'[p] = interlock[p]

Claims(p) ==
    /\ pc[p] = "locks"
    /\ pc'[p] = IF act[p] \in NeedsApproval THEN "approval" ELSE "authorize"
    /\ SameTables /\ SamePlans /\ SameWork(p) /\ refresh'[p] = refresh[p] /\ interlock'[p] = interlock[p]

Requests(p) ==
    /\ \E s \in {"WAITING_APPROVAL", "AUTHORIZED", "DISPATCHED"} :
        /\ \/ pc[p] = "approval"  /\ s = "WAITING_APPROVAL" /\ pc'[p] = "ask"
           \/ pc[p] = "authorize" /\ s = "AUTHORIZED"       /\ pc'[p] = "toctou"
           \/ pc[p] = "toctou"    /\ s = "DISPATCHED"       /\ pc'[p] = "execute"
        /\ MayTransition(action_runs, Key(p), s) /\ SetRow(Key(p), s)
    /\ SamePlans /\ SameHand(p)

Granted(p) ==
    /\ pc[p] = "ask" /\ pc'[p] = "authorize"
    /\ \A k \in Keys : approvals[k] \subseteq approvals'[k]
    /\ "APPROVE" \in approvals'[Key(p)]
    /\ UNCHANGED <<action_runs, exec_journal, effects>> /\ SamePlans /\ SameHand(p)

Refuses(p) ==
    /\ pc[p] = "toctou" /\ pc'[p] = "refuse"
    /\ SameTables /\ SamePlans /\ SameHand(p)

Answers(p) ==
    /\ pc[p] = "execute" /\ pc'[p] = "finalize"
    /\ \/ act[p] \in Builtin /\ result'[p] \in {"success", "failed", "wait_pending"}
       \/ exec_journal[Key(p)] # "NONE"
    /\ SameTables /\ SamePlans /\ SameHand(p)

Opens(p) ==
    /\ pc[p] = "execute" /\ pc'[p] = "realize" /\ act[p] \notin Builtin
    /\ exec_journal' = [exec_journal EXCEPT ![Key(p)] = "IN_FLIGHT"]
    /\ UNCHANGED <<action_runs, approvals, effects>> /\ SamePlans /\ SameHand(p)

Realizes(p) ==
    /\ pc[p] = "realize" /\ pc'[p] = "finish" /\ result'[p] \in {"success", "failed"}
    /\ \/ effects' = effects /\ result'[p] # "success"
       \/ effects' = [effects EXCEPT ![Key(p)] = effects[Key(p)] + 1]
    /\ UNCHANGED <<action_runs, exec_journal, approvals>> /\ SamePlans /\ SameHand(p)

Closes(p) ==
    /\ pc[p] = "finish" /\ pc'[p] = "finalize" /\ result'[p] = result[p]
    /\ exec_journal' = FinishExecJournal(exec_journal, Key(p),
                           IF result[p] = "success" THEN "SUCCESS" ELSE "FAILED")
    /\ UNCHANGED <<action_runs, approvals, effects>> /\ SamePlans /\ SameHand(p)

Completes(p) ==
    /\ pc[p] = "finalize" /\ pc'[p] = "next" /\ result[p] \in {"success", "wait_pending"}
    /\ MayTransition(action_runs, Key(p), "DONE") /\ SetRow(Key(p), "DONE")
    /\ plan'[p] = plan[p] /\ todo'[p] = todo[p]
    /\ SamePlans /\ locks'[p] = {} /\ refresh'[p] = refresh[p] /\ interlock'[p] = interlock[p]

Turn(p) ==
    /\ Kept(p)
    /\ \/ Flushes(p) \/ Idles(p) \/ Begins(p) \/ Acquires(p) \/ Quits(p) \/ Takes(p) \/ Claims(p)
       \/ Requests(p) \/ Granted(p) \/ Refuses(p) \/ Answers(p) \/ Opens(p) \/ Realizes(p)
       \/ Closes(p) \/ Completes(p)

(* Leaving _execute_actions with nothing more to say.                       *)
LEMMA LeaveQuits ==
    ASSUME TypeInv, NEW p \in Procs, NEW label \in {"idle", "down"}, Leave(p, label),
           SameTables, SamePlans, interlock' = interlock
    PROVE  Turn(p)
BY DEF TypeInv, TypeOK, Leave, PutDown, Goto, Turn, Kept, Quits, Busy, InControl, Working

(* ... and with a last transition.                                          *)
LEMMA RequestQuits ==
    ASSUME TypeInv, NEW p \in Procs, pc[p] \in Working, NEW s \in {"REPLAN_REQUIRED", "FAILED"},
           RequestAndLeave(p, s), SamePlans, interlock' = interlock,
           UNCHANGED <<exec_journal, approvals, effects>>
    PROVE  Turn(p)
<1>1. CASE MayTransition(action_runs, Key(p), s)
  BY <1>1 DEF TypeInv, TypeOK, RequestAndLeave, Leave, PutDown, Goto, TransitionActionRun, Turn, Kept, Quits, SetRow,
     Busy, InControl, Working
<1>2. CASE ~MayTransition(action_runs, Key(p), s)
  BY <1>2, LeaveQuits DEF RequestAndLeave, SameTables
<1> QED BY <1>1, <1>2

(* Every step of a process is a turn.                                       *)
LEMMA Turns ==
    ASSUME TypeInv, NEW p \in Procs, ProcessStep(p)
    PROVE  Turn(p)
<1> USE EngineAssumption DEF Turn
<1>1. CASE Start(p)
  BY <1>1 DEF Start, Idles, TypeInv, TypeOK, dbVars, workVars, At, Goto, Kept, SameTables, SamePlans, Busy,
      Flushing, InControl, Working
<1>30. CASE FlushApprovals(p) \/ FlushJournal(p) \/ FlushRuns(p) \/ FlushPlans(p)
  <2>1. /\ p \in FlushOnStart /\ pc[p] \in Flushing
        /\ UNCHANGED <<nextPlan, workVars, interlock, effects>>
        /\ \E next \in Flushing \cup {"unlink"} : pc' = [pc EXCEPT ![p] = next]
    BY <1>30 DEF FlushApprovals, FlushJournal, FlushRuns, FlushPlans, Flush, At, Goto, Flushing
  <2>2. \A k \in Keys : /\ action_runs'[k] \in {action_runs[k], "ABSENT"}
                        /\ exec_journal'[k] \in {exec_journal[k], "NONE"}
    BY <1>30 DEF FlushApprovals, FlushJournal, FlushRuns, FlushPlans, NoRuns
  <2> QED BY <2>1, <2>2 DEF Flushes, Kept, TypeInv, TypeOK, workVars, Flushing, Busy, InControl, Working
<1>2. CASE Unlink(p)
  BY <1>2 DEF Unlink, Idles, TypeInv, TypeOK, dbVars, workVars, RestUnchanged, At, Goto, Kept, SameTables, SamePlans, SameHand, SameWork,
      Busy, InControl, Working
<1>3. CASE Stop(p)
  BY <1>3, LeaveQuits DEF Stop, SameTables, SamePlans, dbVars
<1>4. CASE Plan(p)
  BY <1>4 DEF Plan, Idles, TypeInv, TypeOK, dbVars, workVars, RestUnchanged, At, Goto, Kept, SameTables, SamePlans, SameHand, SameWork,
      Busy, InControl, Working
<1>5. CASE ExecutePlan(p)
  BY <1>5 DEF ExecutePlan, StorePlan, BeginActions, Begins, Stores, TypeInv, TypeOK, dbVars, workVars, RestUnchanged, At, Goto, Kept, SameTables, SamePlans, SameHand, SameWork,
      Busy, InControl, Working
<1>6. CASE ExecuteNothing(p)
  BY <1>6 DEF ExecuteNothing, StorePlan, Idles, Stores, TypeInv, TypeOK, dbVars, workVars, RestUnchanged, At, Goto, Kept, SameTables, SamePlans, SameHand, SameWork,
      Busy, InControl, Working
<1>7. CASE ExecuteOperatorAction(p)
  BY <1>7 DEF ExecuteOperatorAction, StorePlan, BeginActions, Begins, Stores, TypeInv, TypeOK, dbVars, workVars, RestUnchanged, At, Goto, Kept, SameTables, SamePlans, SameHand, SameWork,
      Busy, InControl, Working
<1>8. CASE LeaseOpen(p)
  BY <1>8 DEF LeaseOpen, Acquires, TypeInv, TypeOK, dbVars, workVars, RestUnchanged, At, Goto, Kept, SameTables, SamePlans, SameHand, SameWork,
      Busy, InControl, Working
<1>9. CASE LeaseTaken(p)
  BY <1>9 DEF LeaseTaken, Acquires, TypeInv, TypeOK, dbVars, workVars, RestUnchanged, At, Goto, Kept, SameTables, SamePlans, SameHand, SameWork,
      Busy, InControl, Working
<1>10. CASE LeaseUnavailable(p)
  BY <1>10, LeaveQuits DEF LeaseUnavailable, RestUnchanged, SameTables, SamePlans, dbVars
<1>11. CASE PlanDone(p)
  BY <1>11, LeaveQuits DEF PlanDone, RestUnchanged, SameTables, SamePlans, dbVars
<1>12. CASE FrontierChanged(p)
  BY <1>12, LeaveQuits DEF FrontierChanged, RestUnchanged, SameTables, SamePlans, dbVars
<1>13. CASE PlanRowGone(p)
  BY <1>13, LeaveQuits DEF PlanRowGone, RestUnchanged, SameTables, SamePlans, dbVars
<1>14. CASE FinalizeRaises(p)
  BY <1>14, LeaveQuits DEF FinalizeRaises, RestUnchanged, SameTables, SamePlans, dbVars
<1>15. CASE TakeNext(p)
  BY <1>15 DEF TakeNext, Takes, SetRow, TypeInv, TypeOK, dbVars, workVars, RestUnchanged, At, Goto, Kept, SameTables, SamePlans, SameHand, SameWork,
      Busy, InControl, Working
<1>16. CASE AcquireLocks(p)
  <2>1. CASE locks[p] \cap RequiredLocks[act[p]] = {}
    BY <1>16, <2>1 DEF AcquireLocks, Claims, TypeInv, TypeOK, dbVars, workVars, RestUnchanged, At, Goto, Kept, SameTables, SamePlans, SameHand, SameWork,
      Busy, InControl, Working
  <2>2. CASE locks[p] \cap RequiredLocks[act[p]] # {}
    BY <1>16, <2>2, RequestQuits DEF AcquireLocks, At, Working, RestUnchanged, SamePlans
  <2> QED BY <2>1, <2>2
<1>17. CASE AwaitApproval(p)
  <2>1. CASE MayTransition(action_runs, Key(p), "WAITING_APPROVAL")
    BY <1>17, <2>1 DEF AwaitApproval, Request, Requests, SetRow, TransitionActionRun, TypeInv, TypeOK, dbVars, workVars, RestUnchanged, At, Goto, Kept, SameTables, SamePlans, SameHand, SameWork,
      Busy, InControl, Working
  <2>2. CASE ~MayTransition(action_runs, Key(p), "WAITING_APPROVAL")
    BY <1>17, <2>2, LeaveQuits DEF AwaitApproval, Request, RestUnchanged, SameTables, SamePlans
  <2> QED BY <2>1, <2>2
<1>18. CASE Authorize(p)
  <2>1. CASE MayTransition(action_runs, Key(p), "AUTHORIZED")
    BY <1>18, <2>1 DEF Authorize, Request, Requests, SetRow, TransitionActionRun, TypeInv, TypeOK, dbVars, workVars, RestUnchanged, At, Goto, Kept, SameTables, SamePlans, SameHand, SameWork,
      Busy, InControl, Working
  <2>2. CASE ~MayTransition(action_runs, Key(p), "AUTHORIZED")
    BY <1>18, <2>2, LeaveQuits DEF Authorize, Request, RestUnchanged, SameTables, SamePlans
  <2> QED BY <2>1, <2>2
<1>19. CASE Dispatch(p)
  <2>1. CASE MayTransition(action_runs, Key(p), "DISPATCHED")
    BY <1>19, <2>1 DEF Dispatch, Request, Requests, SetRow, TransitionActionRun, TypeInv, TypeOK, dbVars, workVars, RestUnchanged, At, Goto, Kept, SameTables, SamePlans, SameHand, SameWork,
      Busy, InControl, Working
  <2>2. CASE ~MayTransition(action_runs, Key(p), "DISPATCHED")
    BY <1>19, <2>2, LeaveQuits DEF Dispatch, Request, RestUnchanged, SameTables, SamePlans
  <2> QED BY <2>1, <2>2
<1>20. CASE RequestApproval(p)
  <2>1. Key(p) \in Keys
    BY <1>20 DEF RequestApproval, At, Key, Keys, TypeInv, Shape, Busy, InControl, Working
  <2>2. CASE HasValidApproval(approvals', Key(p))
    <3>1. \A k \in Keys : approvals[k] \subseteq approvals'[k]
      BY <1>20 DEF RequestApproval, TypeInv, TypeOK
    <3> QED BY <1>20, <2>2, <3>1 DEF RequestApproval, HasValidApproval, Granted, TypeInv, TypeOK, dbVars, workVars, RestUnchanged, At, Goto, Kept, SameTables, SamePlans, SameHand, SameWork,
      Busy, InControl, Working
  <2>3. CASE ~HasValidApproval(approvals', Key(p))
    <3>1. approvals' = approvals
      BY <1>20, <2>1, <2>3 DEF RequestApproval, HasValidApproval, TypeInv, TypeOK
    <3> QED BY <1>20, <2>3, <3>1, LeaveQuits DEF RequestApproval, RestUnchanged, SameTables, SamePlans
  <2> QED BY <2>2, <2>3
<1>21. CASE ToctouFailed(p)
  BY <1>21 DEF ToctouFailed, Refuses, TypeInv, TypeOK, dbVars, workVars, RestUnchanged, At, Goto, Kept, SameTables, SamePlans, SameHand, SameWork,
      Busy, InControl, Working
<1>22. CASE Refuse(p)
  BY <1>22, RequestQuits DEF Refuse, At, Working, RestUnchanged, SamePlans
<1>23. CASE FinalizeMismatch(p)
  BY <1>23, RequestQuits DEF FinalizeMismatch, At, Working, RestUnchanged, SamePlans
<1>24. CASE ExecuteBuiltin(p)
  BY <1>24 DEF ExecuteBuiltin, Outcome, Answers, TypeInv, TypeOK, dbVars, workVars, RestUnchanged, At, Goto, Kept, SameTables, SamePlans, SameHand, SameWork,
      Busy, InControl, Working
<1>25. CASE StartJournal(p)
  <2>1. CASE exec_journal[Key(p)] = "NONE"
    BY <1>25, <2>1 DEF StartJournal, StartExecJournal, Opens, TypeInv, TypeOK, dbVars, workVars, RestUnchanged, At, Goto, Kept, SameTables, SamePlans, SameHand, SameWork,
      Busy, InControl, Working
  <2>2. CASE exec_journal[Key(p)] # "NONE"
    BY <1>25, <2>2 DEF StartJournal, Outcome, Answers, TypeInv, TypeOK, dbVars, workVars, RestUnchanged, At, Goto, Kept, SameTables, SamePlans, SameHand, SameWork,
      Busy, InControl, Working
  <2> QED BY <2>1, <2>2
<1>26. CASE Realize(p)
  <2>1. PICK moved \in BOOLEAN, raised \in BOOLEAN :
           /\ moved \/ raised
           /\ effects' = [effects EXCEPT ![Key(p)] = IF moved THEN @ + 1 ELSE @]
           /\ result' = [result EXCEPT ![p] = IF raised THEN "failed" ELSE "success"]
    BY <1>26 DEF Realize
  <2>2. /\ result'[p] \in {"success", "failed"}
        /\ \/ effects' = effects /\ result'[p] # "success"
           \/ effects' = [effects EXCEPT ![Key(p)] = effects[Key(p)] + 1]
    <3>1. CASE moved
      BY <2>1, <3>1 DEF TypeInv, TypeOK
    <3>2. CASE ~moved
      BY <2>1, <3>2 DEF TypeInv, TypeOK
    <3> QED BY <3>1, <3>2
  <2>3. Kept(p)
    BY <1>26, <2>1 DEF Realize, TypeInv, TypeOK, dbVars, workVars, RestUnchanged, At, Goto, Kept, SameTables, SamePlans, SameHand, SameWork,
      Busy, InControl, Working
  <2> QED BY <1>26, <2>2, <2>3 DEF Realize, Realizes, TypeInv, TypeOK, dbVars, workVars, RestUnchanged, At, Goto, Kept, SameTables, SamePlans, SameHand, SameWork,
      Busy, InControl, Working
<1>27. CASE FinishJournal(p)
  BY <1>27 DEF FinishJournal, Closes, TypeInv, TypeOK, dbVars, workVars, RestUnchanged, At, Goto, Kept, SameTables, SamePlans, SameHand, SameWork,
      Busy, InControl, Working
<1>28. CASE FinalizeFailed(p)
  <2> DEFINE s == IF result[p] = "in_flight" THEN "UNKNOWN" ELSE "FAILED"
  <2>1. CASE MayTransition(action_runs, Key(p), s)
    <3>1. /\ pc[p] = "finalize" /\ s \in {"REPLAN_REQUIRED", "FAILED", "UNKNOWN"}
          /\ s = "UNKNOWN" => result[p] = "in_flight"
          /\ action_runs' = [action_runs EXCEPT ![Key(p)] = s]
          /\ Leave(p, "idle")
      BY <1>28, <2>1 DEF FinalizeFailed, RequestAndLeave, TransitionActionRun, At
    <3>2. interlock'[p] => interlock[p] \/ s = "UNKNOWN"
      BY <1>28, Zenon DEF FinalizeFailed, TypeInv, TypeOK
    <3>3. \A q \in Procs \ {p} : interlock'[q] = interlock[q]
      BY <1>28 DEF FinalizeFailed, TypeInv, TypeOK
    <3>4. SetRow(Key(p), s) /\ SamePlans
      BY <1>28, <3>1 DEF FinalizeFailed, SetRow, SamePlans
    <3> HIDE DEF s
    <3>5. Quits(p)
      BY <2>1, <3>1, <3>2, <3>4 DEF Quits, Leave, PutDown, Goto, TypeInv, TypeOK, Busy, InControl, Working
    <3> QED BY <3>1, <3>3, <3>5 DEF Kept, Leave, PutDown, Goto, TypeInv, TypeOK
  <2>2. CASE ~MayTransition(action_runs, Key(p), s)
    <3>1. ~(result[p] = "in_flight" /\ MayTransition(action_runs, Key(p), "UNKNOWN"))
      BY <2>2
    <3>2. interlock' = interlock
      BY <1>28, <3>1 DEF FinalizeFailed, TypeInv, TypeOK
    <3> QED BY <1>28, <2>2, <3>2, LeaveQuits DEF FinalizeFailed, RequestAndLeave, SameTables, SamePlans
  <2> QED BY <2>1, <2>2
<1>29. CASE FinalizeVerified(p)
  <2>1. CASE MayTransition(action_runs, Key(p), "DONE")
    BY <1>29, <2>1 DEF FinalizeVerified, PutDown, Completes, SetRow, TransitionActionRun, TypeInv, TypeOK, dbVars, workVars, RestUnchanged, At, Goto, Kept, SameTables, SamePlans, SameHand, SameWork,
      Busy, InControl, Working
  <2>2. CASE ~MayTransition(action_runs, Key(p), "DONE")
    BY <1>29, <2>2, LeaveQuits DEF FinalizeVerified, SameTables, SamePlans
  <2> QED BY <2>1, <2>2
<1> QED
  BY <1>1, <1>2, <1>3, <1>4, <1>5, <1>6, <1>7, <1>8, <1>9, <1>10, <1>11, <1>12, <1>13, <1>14, <1>15,
     <1>16, <1>17, <1>18, <1>19, <1>20, <1>21, <1>22, <1>23, <1>24, <1>25, <1>26, <1>27, <1>28,
     <1>29, <1>30 DEF ProcessStep, EngineStep

(* A step is a process's turn, an operator's or the clock's word on an      *)
(* approval, or nothing.                                                    *)
LEMMA NextTurns ==
    ASSUME TypeInv, [Next]_vars
    PROVE  \/ \E p \in Procs : ProcessStep(p) /\ Turn(p)
           \/ /\ UNCHANGED <<leaseVars, plans, action_runs, exec_journal, nextPlan, pc, workVars, interlock, effects>>
              /\ \A k \in Keys : approvals[k] \cap {"APPROVE", "EXPIRED"} # {}
                                 => approvals'[k] \cap {"APPROVE", "EXPIRED"} # {}
<1>1. CASE UNCHANGED vars
  BY <1>1 DEF vars, dbVars
<1>2. CASE \E p \in Procs : ProcessStep(p)
  BY <1>2, Turns
<1>3. CASE Operator
  <2>1. PICK r \in Keys : \/ \E kind \in ApprovalKinds \ {"EXPIRED"} : RecordApproval(r, kind)
                         \/ ApprovalExpires(r)
    BY <1>3 DEF Operator
  <2>2. /\ UNCHANGED <<leaseVars, plans, action_runs, exec_journal, nextPlan, pc, workVars, interlock, effects>>
        /\ \A k \in Keys \ {r} : approvals'[k] = approvals[k]
    BY <2>1 DEF RecordApproval, ApprovalExpires, TypeInv, TypeOK
  <2>3. approvals[r] \cap {"APPROVE", "EXPIRED"} # {} => approvals'[r] \cap {"APPROVE", "EXPIRED"} # {}
    <3>1. CASE \E kind \in ApprovalKinds \ {"EXPIRED"} : RecordApproval(r, kind)
      BY <3>1 DEF RecordApproval, TypeInv, TypeOK
    <3>2. CASE ApprovalExpires(r)
      BY <3>2 DEF ApprovalExpires, TypeInv, TypeOK
    <3> QED BY <2>1, <3>1, <3>2
  <2> QED BY <2>2, <2>3
<1> QED BY <1>1, <1>2, <1>3 DEF Next, ProcessStep

-----------------------------------------------------------------------------
(* The rows.                                                                *)

(* The key in hand is one of the plan's.                                    *)
LEMMA HandKeys ==
    ASSUME TypeInv, NEW p \in Procs
    PROVE  /\ pc[p] \in Busy => plan[p] \in PlanIds /\ plan[p] < nextPlan /\ \A a \in Actions : <<plan[p], a>> \in Keys
           /\ pc[p] \in Working => pc[p] \in Busy /\ Key(p) \in Keys /\ act[p] \in Actions /\ act[p] \notin todo[p]
           /\ todo[p] \subseteq Actions
BY DEF TypeInv, TypeOK, Shape, Key, Keys, Busy, InControl

(* The turn of one process leaves the rows of another one's plan alone, or  *)
(* deletes some of them.                                                     *)
LEMMA OtherRowsKept ==
    ASSUME EffectInv, NEW p \in Procs, Turn(p), NEW q \in Procs \ {p}, pc[q] \in Busy, NEW a \in Actions
    PROVE  LET k == <<plan[q], a>> IN
           /\ effects'[k] = effects[k]
           /\ \/ /\ action_runs'[k] = action_runs[k] /\ exec_journal'[k] = exec_journal[k]
                 /\ approvals[k] \subseteq approvals'[k]
              \/ /\ FlushOnStart # {}
                 /\ action_runs'[k] \in {action_runs[k], "ABSENT"}
                 /\ exec_journal'[k] \in {exec_journal[k], "NONE"}
<1> DEFINE k == <<plan[q], a>>
<1>1. k \in Keys /\ TypeInv
  BY HandKeys DEF EffectInv
<1>2. CASE pc[p] \in Busy
  <2>1. \A b : k # <<plan[p], b>>
    BY <1>2 DEF EffectInv, PlansApart
  <2>2. k # Key(p)
    BY <2>1 DEF Key
  <2> HIDE DEF k
  <2> USE <1>1, <1>2, <2>1, <2>2 DEF SameTables, SetRow, TypeInv, TypeOK
  <2>3. ~Flushes(p)
    BY DEF Flushes
  <2>4. effects'[k] = effects[k]
    BY <2>3 DEF Turn, Idles, Begins, Acquires, Quits, Takes, Claims, Requests, Granted, Refuses, Answers, Opens,
       Realizes, Closes, Completes
  <2>5. action_runs'[k] = action_runs[k]
    BY <2>3 DEF Turn, Idles, Begins, Acquires, Quits, Takes, Claims, Requests, Granted, Refuses, Answers, Opens,
       Realizes, Closes, Completes
  <2>6. exec_journal'[k] = exec_journal[k]
    BY <2>3 DEF Turn, Idles, Begins, Acquires, Quits, Takes, Claims, Requests, Granted, Refuses, Answers, Opens,
       Realizes, Closes, Completes, FinishExecJournal
  <2>7. approvals[k] \subseteq approvals'[k]
    BY <2>3 DEF Turn, Idles, Begins, Acquires, Quits, Takes, Claims, Requests, Granted, Refuses, Answers, Opens,
       Realizes, Closes, Completes
  <2> QED BY <2>4, <2>5, <2>6, <2>7 DEF k
<1>3. CASE pc[p] \notin Busy
  <2>1. Flushes(p) \/ SameTables
    BY <1>3 DEF Turn, Idles, Begins, Acquires, Quits, Takes, Claims, Requests, Granted, Refuses, Answers,
              Opens, Realizes, Closes, Completes, Gates, Busy, InControl, Working
  <2> QED BY <1>1, <2>1 DEF Flushes, SameTables
<1> QED BY <1>2, <1>3

(* ... so the other process's view stays right.                             *)
LEMMA OtherHandKept ==
    ASSUME RowsInv, NEW p \in Procs, Turn(p), NEW q \in Procs \ {p}
    PROVE  Hand(q)'
<1>1. Hand(q) /\ EffectInv /\ TypeInv
  BY DEF RowsInv, EffectInv
<1>2. /\ pc'[q] = pc[q] /\ plan'[q] = plan[q] /\ todo'[q] = todo[q] /\ act'[q] = act[q]
      /\ result'[q] = result[q] /\ locks'[q] = locks[q]
  BY DEF Turn, Kept
<1>3. HandLocks(q)'
  BY <1>1, <1>2 DEF Hand, HandLocks
<1>4. CASE pc[q] \notin Busy
  BY <1>2, <1>3, <1>4 DEF Hand, HandRow, HandJournal, HandApproval, Busy, InControl, Working, Gates, Asked
<1>5. CASE pc[q] \in Busy
  <2>1. \A a \in Actions :
           LET k == <<plan[q], a>> IN
           /\ effects'[k] = effects[k]
           /\ \/ /\ action_runs'[k] = action_runs[k] /\ exec_journal'[k] = exec_journal[k]
                 /\ approvals[k] \subseteq approvals'[k]
              \/ /\ FlushOnStart # {}
                 /\ action_runs'[k] \in {action_runs[k], "ABSENT"}
                 /\ exec_journal'[k] \in {exec_journal[k], "NONE"}
    BY <1>1, <1>5, OtherRowsKept
  <2>2. todo[q] \subseteq Actions /\ (pc[q] \in Working => act[q] \in Actions)
    BY <1>1, HandKeys
  <2>3. HandRow(q)'
    BY <1>1, <1>2, <2>1, <2>2 DEF Hand, HandRow, Row, Entry
  <2>4. HandJournal(q)'
    BY <1>1, <1>2, <2>1, <2>2 DEF Hand, HandJournal, Flushed, Row, Entry, Gates, Working
  <2>5. HandApproval(q)'
    BY <1>1, <1>2, <2>1, <2>2 DEF Hand, HandApproval, Row, Asked, Working
  <2> QED BY <1>3, <2>3, <2>4, <2>5 DEF Hand
<1> QED BY <1>4, <1>5

Tables == FreshRows /\ TablesAgree /\ ApprovalGateKept /\ StopsAtFirstFailure

(* Nothing in hand: nothing to show for.                                    *)
LEMMA EmptyHand ==
    ASSUME NEW p \in Procs, pc'[p] \notin Busy, locks'[p] = {}
    PROVE  Hand(p)'
BY DEF Hand, HandRow, HandJournal, HandApproval, HandLocks, Busy, InControl, Working, Gates, Asked

(* Tables that are left alone.                                              *)
LEMMA TablesKept ==
    ASSUME TypeInv, TypeInv', Tables, SameTables, nextPlan' \in {nextPlan, nextPlan + 1}
    PROVE  Tables'
<1>1. FreshRows'
  BY DEF Tables, FreshRows, SameTables, TypeInv, TypeOK, Keys, PlanIds
<1>2. TablesAgree' /\ ApprovalGateKept' /\ StopsAtFirstFailure'
  BY DEF Tables, TablesAgree, ApprovalGateKept, ApprovalGate, StopsAtFirstFailure, SameTables
<1> QED BY <1>1, <1>2 DEF Tables

(* One row of a stored plan changes.                                        *)
LEMMA TablesSetRow ==
    ASSUME TypeInv, Tables, NEW k \in Keys, NEW s \in Statuses, SetRow(k, s), nextPlan' = nextPlan, k[1] < nextPlan,
           s = "DONE" /\ k[2] \notin Builtin => exec_journal[k] \in {"SUCCESS"} \cup Flushed,
           FlushOnStart = {} /\ k[2] \in NeedsApproval /\ s \notin {"PROPOSED", "WAITING_APPROVAL"}
               => approvals[k] \cap {"APPROVE", "EXPIRED"} # {},
           s # "DONE" => \A r \in Keys : r # k /\ r[1] = k[1] => action_runs[r] \in {"ABSENT", "DONE"}
    PROVE  Tables'
<1>1. \A r \in Keys : action_runs'[r] = IF r = k THEN s ELSE action_runs[r]
  BY DEF SetRow, TypeInv, TypeOK
<1>2. UNCHANGED <<exec_journal, approvals, effects>>
  BY DEF SetRow
<1>3. FreshRows'
  <2>1. \A r \in Keys : r[1] >= nextPlan => r # k
    BY DEF Keys, PlanIds, TypeInv, TypeOK
  <2> QED BY <1>1, <1>2, <2>1 DEF Tables, FreshRows
<1>4. TablesAgree'
  BY <1>1, <1>2 DEF Tables, TablesAgree
<1>5. ApprovalGateKept'
  BY <1>1, <1>2 DEF Tables, ApprovalGateKept, ApprovalGate
<1>6. StopsAtFirstFailure'
  BY <1>1, <1>2 DEF Tables, StopsAtFirstFailure, Statuses
<1> QED BY <1>3, <1>4, <1>5, <1>6 DEF Tables

(* A process's turn keeps the tables and its own view of them.              *)
LEMMA TurnStep ==
    ASSUME RowsInv, TypeInv', NEW p \in Procs, Turn(p)
    PROVE  Hand(p)' /\ Tables' /\ AmbiguityNeverNoticed'
<1>1. TypeInv /\ Hand(p) /\ Tables /\ AmbiguityNeverNoticed /\ FreshRows
  BY DEF RowsInv, EffectInv, Tables
<1>2. HandRow(p) /\ HandJournal(p) /\ HandApproval(p) /\ HandLocks(p)
  BY <1>1 DEF Hand
<1>3. /\ pc[p] \in Busy => plan[p] \in PlanIds /\ plan[p] < nextPlan /\ \A a \in Actions : <<plan[p], a>> \in Keys
      /\ pc[p] \in Working => pc[p] \in Busy /\ Key(p) \in Keys /\ act[p] \in Actions /\ act[p] \notin todo[p]
      /\ todo[p] \subseteq Actions
  BY <1>1, HandKeys
<1>4. Kept(p)
  BY DEF Turn
<1>5. ASSUME \A k \in Keys : action_runs'[k] # "UNKNOWN", ~interlock'[p] PROVE AmbiguityNeverNoticed'
  BY <1>1, <1>4, <1>5 DEF AmbiguityNeverNoticed, Kept
<1>6. ASSUME NEW k \in Keys, NEW s \in Statuses \ {"UNKNOWN"}, SetRow(k, s) PROVE \A r \in Keys : action_runs'[r] # "UNKNOWN"
  BY <1>1, <1>6 DEF AmbiguityNeverNoticed, SetRow, TypeInv, TypeOK
<1>7. ASSUME SameTables PROVE \A r \in Keys : action_runs'[r] # "UNKNOWN"
  BY <1>1, <1>7 DEF AmbiguityNeverNoticed, SameTables
<1>8. ~interlock[p] /\ nextPlan \in Nat
  BY <1>1, EngineAssumption DEF AmbiguityNeverNoticed, TypeInv, TypeOK
<1>9. pc[p] \in Working => \A r \in Keys : r # Key(p) /\ r[1] = Key(p)[1] => action_runs[r] \in {"ABSENT", "DONE"}
  <2> SUFFICES ASSUME pc[p] \in Working, NEW r \in Keys, r # Key(p), r[1] = Key(p)[1]
               PROVE  action_runs[r] \in {"ABSENT", "DONE"}
    OBVIOUS
  <2>1. r = <<plan[p], r[2]>> /\ r[2] \in Actions /\ r[2] # act[p]
    BY DEF Key, Keys
  <2>2. Row(p, r[2]) \in {"ABSENT", "DONE"}
    BY <1>2, <1>3, <2>1 DEF HandRow
  <2> QED BY <2>1, <2>2 DEF Row
<1>10. CASE Flushes(p)
  <2>1. Hand(p)'
    BY <1>2, <1>10, EmptyHand DEF Flushes, HandLocks, Busy, InControl
  <2>2. /\ FlushOnStart # {} /\ effects' = effects /\ nextPlan' = nextPlan /\ interlock'[p] = interlock[p]
        /\ \A k \in Keys : /\ action_runs'[k] \in {action_runs[k], "ABSENT"}
                           /\ exec_journal'[k] \in {exec_journal[k], "NONE"}
    BY <1>10 DEF Flushes
  <2>3. FreshRows' /\ StopsAtFirstFailure' /\ ApprovalGateKept'
    BY <1>1, <2>2 DEF Tables, FreshRows, StopsAtFirstFailure, ApprovalGateKept
  <2>4. TablesAgree'
    BY <1>1, <2>2 DEF Tables, TablesAgree, Flushed
  <2>5. AmbiguityNeverNoticed'
    BY <1>1, <1>5, <1>8, <2>2 DEF AmbiguityNeverNoticed
  <2> QED BY <2>1, <2>3, <2>4, <2>5 DEF Tables
<1>11. CASE Idles(p)
  <2>1. Hand(p)'
    BY <1>2, <1>11, EmptyHand DEF Idles, HandLocks, Busy, InControl
  <2>2. Tables'
    BY <1>1, <1>11, TablesKept DEF Idles, SamePlans, Stores
  <2>3. AmbiguityNeverNoticed'
    BY <1>5, <1>7, <1>8, <1>11 DEF Idles
  <2> QED BY <2>1, <2>2, <2>3
<1>12. CASE Begins(p)
  <2>1. todo'[p] \subseteq Actions /\ nextPlan \in PlanIds /\ plan'[p] = nextPlan /\ SameTables
    BY <1>12 DEF Begins, Stores, TypeInv, TypeOK
  <2>2. \A a \in Actions : <<nextPlan, a>> \in Keys /\ action_runs[<<nextPlan, a>>] = "ABSENT" /\ exec_journal[<<nextPlan, a>>] = "NONE"
    <3>1. \A a \in Actions : <<nextPlan, a>> \in Keys /\ <<nextPlan, a>>[1] >= nextPlan
      BY <1>8, <2>1 DEF Keys
    <3> QED BY <1>1, <3>1 DEF FreshRows
  <2>3. HandRow(p)'
    BY <1>12, <2>1, <2>2 DEF Begins, SameTables, HandRow, Row, Entry, Busy, InControl, Working
  <2>4. HandLocks(p)'
    BY <1>2, <1>12 DEF Begins, HandLocks, Busy, InControl
  <2>5. HandJournal(p)' /\ HandApproval(p)'
    BY <1>12 DEF Begins, HandJournal, HandApproval, Gates, Asked
  <2>6. Tables'
    BY <1>1, <1>12, TablesKept DEF Begins, Stores
  <2>7. AmbiguityNeverNoticed'
    BY <1>5, <1>7, <1>8, <1>12 DEF Begins
  <2> QED BY <2>3, <2>4, <2>5, <2>6, <2>7 DEF Hand
<1>13. CASE Acquires(p)
  <2>1. Hand(p)'
    BY <1>2, <1>13 DEF Acquires, SameHand, SameWork, SameTables, Hand, HandRow, HandJournal, HandApproval, HandLocks, Row, Entry,
       Gates, Asked, Busy, InControl, Working
  <2>2. Tables'
    BY <1>1, <1>13, TablesKept DEF Acquires, SamePlans
  <2>3. AmbiguityNeverNoticed'
    BY <1>5, <1>7, <1>8, <1>13 DEF Acquires, SameHand
  <2> QED BY <2>1, <2>2, <2>3
<1>14. CASE Quits(p)
  <2>1. Hand(p)'
    BY <1>14, EmptyHand DEF Quits
  <2>2. CASE SameTables /\ interlock'[p] = interlock[p]
    BY <1>1, <1>5, <1>7, <1>8, <1>14, <2>1, <2>2, TablesKept DEF Quits, SamePlans
  <2>3. CASE ~(SameTables /\ interlock'[p] = interlock[p])
    <3>1. PICK s \in {"REPLAN_REQUIRED", "FAILED", "UNKNOWN"} :
             /\ MayTransition(action_runs, Key(p), s) /\ SetRow(Key(p), s)
             /\ interlock'[p] => interlock[p] \/ s = "UNKNOWN"
             /\ s = "UNKNOWN" => pc[p] = "finalize" /\ result[p] = "in_flight"
      BY <1>14, <2>3 DEF Quits
    <3>2. pc[p] \in Working
      BY <1>14, <2>3 DEF Quits
    <3>3. s # "UNKNOWN" /\ s \in Statuses
      BY <1>2, <3>1 DEF HandJournal, Statuses
    <3>4. AmbiguityNeverNoticed'
      BY <1>3, <1>5, <1>6, <1>8, <3>1, <3>2, <3>3
    <3>5. Row(p, act[p]) = "DISPATCHED" /\ pc[p] \in Dispatched
      BY <1>2, <3>1, <3>2 DEF HandRow, Row, Key, RowAt, MayTransition, AllowedTransitions, RowStatuses, Statuses, Working, Dispatched
    <3>6. FlushOnStart = {} /\ Key(p)[2] \in NeedsApproval => approvals[Key(p)] \cap {"APPROVE", "EXPIRED"} # {}
      BY <1>2, <3>5 DEF HandApproval, Key, Dispatched, Asked
    <3>7. Tables'
      <4>1. Key(p)[1] < nextPlan
        BY <1>3, <3>2 DEF Key
      <4> QED BY <1>1, <1>3, <1>9, <1>14, <3>1, <3>2, <3>3, <3>6, <4>1, TablesSetRow DEF Quits, SamePlans
    <3> QED BY <2>1, <3>4, <3>7
  <2> QED BY <2>2, <2>3
<1>15. CASE Takes(p)
  <2> DEFINE k == <<plan[p], act'[p]>>
  <2>1. /\ pc[p] \in Busy /\ pc[p] \notin Working /\ act'[p] \in Actions /\ k \in Keys
        /\ SetRow(k, "PROPOSED") /\ k[1] < nextPlan
    BY <1>3, <1>15 DEF Takes, Busy, InControl, Working
  <2>2. \A a \in Actions : action_runs[<<plan[p], a>>] \in {"ABSENT", "DONE"}
    BY <1>2, <2>1 DEF HandRow, Row
  <2>3. \A r \in Keys : r # k /\ r[1] = k[1] => action_runs[r] \in {"ABSENT", "DONE"}
    BY <2>2 DEF Keys
  <2>4. Tables'
    <3>1. "PROPOSED" \in Statuses
      BY DEF Statuses
    <3> QED BY <1>1, <1>15, <2>1, <2>3, <3>1, TablesSetRow DEF Takes, SamePlans
  <2>5. AmbiguityNeverNoticed'
    BY <1>5, <1>6, <1>8, <1>15, <2>1 DEF Takes, Statuses
  <2>6. \A a \in Actions : action_runs'[<<plan[p], a>>] = IF a = act'[p] THEN "PROPOSED" ELSE action_runs[<<plan[p], a>>]
    BY <1>1, <1>3, <2>1 DEF SetRow, TypeInv, TypeOK
  <2>7. HandRow(p)'
    BY <1>2, <1>3, <1>15, <2>1, <2>2, <2>6 DEF Takes, SetRow, HandRow, Row, Entry, RowAt, Busy, InControl, Working
  <2>8. HandJournal(p)'
    BY <1>2, <1>15, <2>1 DEF Takes, SetRow, HandRow, HandJournal, Row, Entry, Gates
  <2>9. HandApproval(p)' /\ HandLocks(p)'
    BY <1>2, <1>15, <2>1 DEF Takes, HandApproval, HandLocks, Asked
  <2> QED BY <2>4, <2>5, <2>7, <2>8, <2>9 DEF Hand
<1>16. CASE Claims(p) \/ Refuses(p)
  <2>1. Hand(p)'
    BY <1>2, <1>16 DEF Claims, Refuses, SameHand, SameWork, SameTables, Hand, HandRow, HandJournal, HandApproval, HandLocks, Row,
       Entry, RowAt, Gates, Asked, Busy, InControl, Working
  <2>2. Tables'
    BY <1>1, <1>16, TablesKept DEF Claims, Refuses, SamePlans
  <2>3. AmbiguityNeverNoticed'
    BY <1>5, <1>7, <1>8, <1>16 DEF Claims, Refuses, SameHand
  <2> QED BY <2>1, <2>2, <2>3
<1>17. CASE Requests(p)
  <2>1. PICK s \in {"WAITING_APPROVAL", "AUTHORIZED", "DISPATCHED"} :
           /\ \/ pc[p] = "approval"  /\ s = "WAITING_APPROVAL" /\ pc'[p] = "ask"
              \/ pc[p] = "authorize" /\ s = "AUTHORIZED"       /\ pc'[p] = "toctou"
              \/ pc[p] = "toctou"    /\ s = "DISPATCHED"       /\ pc'[p] = "execute"
           /\ MayTransition(action_runs, Key(p), s) /\ SetRow(Key(p), s)
    BY <1>17 DEF Requests
  <2>2. /\ pc[p] \in Working /\ pc[p] \in Busy /\ Key(p) \in Keys /\ Key(p)[1] < nextPlan
        /\ s \in Statuses /\ s # "UNKNOWN" /\ SameHand(p) /\ SamePlans
    BY <1>3, <1>17, <2>1 DEF Requests, Key, Statuses, Working
  <2>3. Row(p, act[p]) # "ABSENT"
    BY <2>1 DEF MayTransition, AllowedTransitions, RowStatuses, Row, Key
  <2>4. FlushOnStart = {} /\ s # "WAITING_APPROVAL" /\ act[p] \in NeedsApproval
        => approvals[Key(p)] \cap {"APPROVE", "EXPIRED"} # {}
    BY <1>2, <2>1, <2>3 DEF HandApproval, Asked, Key
  <2>5. Tables'
    BY <1>1, <1>9, <2>1, <2>2, <2>4, TablesSetRow DEF SamePlans, Key
  <2>6. AmbiguityNeverNoticed'
    BY <1>5, <1>6, <1>8, <2>1, <2>2 DEF SameHand
  <2>7. \A a \in Actions : action_runs'[<<plan[p], a>>] = IF a = act[p] THEN s ELSE action_runs[<<plan[p], a>>]
    BY <1>1, <1>3, <2>1, <2>2 DEF SetRow, Key, TypeInv, TypeOK
  <2>8. HandRow(p)'
    BY <1>2, <1>3, <2>1, <2>2, <2>7 DEF SameHand, SameWork, SetRow, HandRow, Row, Entry, RowAt, Busy, InControl, Working
  <2>9. HandJournal(p)' /\ HandLocks(p)'
    BY <1>2, <2>1, <2>2 DEF SameHand, SameWork, SetRow, HandJournal, HandLocks, Entry, Gates, Working
  <2>10. HandApproval(p)'
    BY <2>1, <2>2, <2>4 DEF SameHand, SameWork, SetRow, HandApproval, Key, Asked
  <2> QED BY <2>5, <2>6, <2>8, <2>9, <2>10 DEF Hand
<1>18. CASE Granted(p)
  <2>1. Tables'
    BY <1>1, <1>18 DEF Granted, SamePlans, Tables, FreshRows, TablesAgree, ApprovalGateKept, ApprovalGate, StopsAtFirstFailure
  <2>2. AmbiguityNeverNoticed'
    BY <1>1, <1>5, <1>8, <1>18 DEF Granted, SameHand, AmbiguityNeverNoticed
  <2>3. HandRow(p)' /\ HandJournal(p)' /\ HandLocks(p)'
    BY <1>2, <1>18 DEF Granted, SameHand, SameWork, HandRow, HandJournal, HandLocks, Row, Entry, RowAt, Gates, Busy, InControl,
       Working
  <2>4. HandApproval(p)'
    BY <1>18 DEF Granted, SameHand, SameWork, HandApproval, Key
  <2> QED BY <2>1, <2>2, <2>3, <2>4 DEF Hand
<1>19. CASE Answers(p)
  <2>1. act[p] \in Builtin /\ result'[p] \in {"success", "failed", "wait_pending"}
    BY <1>2, <1>19 DEF Answers, HandJournal, Entry, Key
  <2>2. Hand(p)'
    BY <1>2, <1>19, <2>1 DEF Answers, SameHand, SameWork, SameTables, Hand, HandRow, HandJournal, HandApproval, HandLocks, Row,
       Entry, RowAt, Gates, Asked, Busy, InControl, Working
  <2>3. Tables'
    BY <1>1, <1>19, TablesKept DEF Answers, SamePlans
  <2>4. AmbiguityNeverNoticed'
    BY <1>5, <1>7, <1>8, <1>19 DEF Answers, SameHand
  <2> QED BY <2>2, <2>3, <2>4
<1>20. CASE Opens(p)
  <2>1. Key(p) \in Keys /\ Key(p)[1] < nextPlan /\ pc[p] \in Working /\ pc[p] \in Busy
    BY <1>3, <1>20 DEF Opens, Key, Working
  <2>2. \A r \in Keys : exec_journal'[r] = IF r = Key(p) THEN "IN_FLIGHT" ELSE exec_journal[r]
    BY <1>1, <1>20 DEF Opens, TypeInv, TypeOK
  <2>3. UNCHANGED <<action_runs, approvals, effects>> /\ SamePlans /\ SameHand(p)
    BY <1>20 DEF Opens
  <2>4. Row(p, act[p]) \in {"ABSENT", "DISPATCHED"}
    BY <1>2, <1>20, <2>1 DEF Opens, HandRow, RowAt, Working
  <2>5. Tables'
    <3>1. FreshRows'
      BY <1>1, <1>8, <2>1, <2>2, <2>3 DEF FreshRows, SamePlans, Keys, PlanIds
    <3>2. TablesAgree'
      BY <1>1, <2>2, <2>3, <2>4 DEF Tables, TablesAgree, Row, Key
    <3> QED BY <1>1, <2>3, <3>1, <3>2 DEF Tables, ApprovalGateKept, ApprovalGate, StopsAtFirstFailure
  <2>6. AmbiguityNeverNoticed'
    BY <1>1, <1>5, <1>8, <2>3 DEF SameHand, AmbiguityNeverNoticed
  <2>7. HandRow(p)'
    BY <1>2, <1>3, <1>20, <2>1, <2>2, <2>3 DEF Opens, SameHand, SameWork, HandRow, Row, Entry, Key, RowAt, Busy, InControl, Working
  <2>8. HandJournal(p)' /\ HandApproval(p)' /\ HandLocks(p)'
    BY <1>2, <1>20, <2>1, <2>2, <2>3 DEF Opens, SameHand, SameWork, HandJournal, HandApproval, HandLocks, Row, Entry, Key, Gates,
       Asked, Working
  <2> QED BY <2>5, <2>6, <2>7, <2>8 DEF Hand
<1>21. CASE Realizes(p)
  <2>1. Key(p) \in Keys /\ pc[p] \in Working /\ pc[p] \in Busy
    BY <1>3, <1>21 DEF Realizes, Working
  <2>2. /\ \A r \in Keys : effects'[r] >= effects[r]
        /\ result'[p] = "success" => effects'[Key(p)] > 0
        /\ \A r \in Keys : effects[r] \in Nat /\ effects'[r] \in Nat
    BY <1>1, <1>21, <2>1 DEF Realizes, TypeInv, TypeOK
  <2>3. UNCHANGED <<action_runs, exec_journal, approvals>> /\ SamePlans /\ SameHand(p)
    BY <1>21 DEF Realizes
  <2>4. Tables'
    BY <1>1, <2>2, <2>3 DEF Tables, FreshRows, TablesAgree, ApprovalGateKept, ApprovalGate, StopsAtFirstFailure, SamePlans
  <2>5. AmbiguityNeverNoticed'
    BY <1>1, <1>5, <1>8, <2>3 DEF SameHand, AmbiguityNeverNoticed
  <2>6. Hand(p)'
    BY <1>2, <1>21, <2>2, <2>3 DEF Realizes, SameHand, SameWork, Hand, HandRow, HandJournal, HandApproval, HandLocks, Row,
       Entry, Key, RowAt, Gates, Asked, Busy, InControl, Working
  <2> QED BY <2>4, <2>5, <2>6
<1>22. CASE Closes(p)
  <2>1. Key(p) \in Keys /\ Key(p)[1] < nextPlan /\ pc[p] \in Working /\ pc[p] \in Busy
    BY <1>3, <1>22 DEF Closes, Key, Working
  <2>2. /\ \A r \in Keys \ {Key(p)} : exec_journal'[r] = exec_journal[r]
        /\ exec_journal'[Key(p)] = "SUCCESS" => result[p] = "success"
        /\ exec_journal[Key(p)] = "IN_FLIGHT" /\ result[p] = "success" => exec_journal'[Key(p)] = "SUCCESS"
        /\ exec_journal[Key(p)] = "NONE" => exec_journal'[Key(p)] = "NONE"
        /\ exec_journal[Key(p)] \in {"IN_FLIGHT"} \cup Flushed
    BY <1>1, <1>2, <1>22, <2>1 DEF Closes, FinishExecJournal, HandJournal, Entry, Key, TypeInv, TypeOK
  <2>3. UNCHANGED <<action_runs, approvals, effects>> /\ SamePlans /\ SameHand(p) /\ result'[p] = result[p]
    BY <1>22 DEF Closes
  <2>4. Row(p, act[p]) \in {"ABSENT", "DISPATCHED"}
    BY <1>2, <1>22, <2>1 DEF Closes, HandRow, RowAt, Working
  <2>5. result[p] \in {"success", "failed"} /\ (result[p] = "success" => effects[Key(p)] > 0)
    BY <1>2, <1>22 DEF Closes, HandJournal, Key
  <2>6. Tables'
    <3>1. FreshRows'
      BY <1>1, <1>8, <2>1, <2>2, <2>3 DEF FreshRows, SamePlans, Keys, PlanIds
    <3>2. TablesAgree'
      BY <1>1, <2>2, <2>3, <2>4, <2>5 DEF Tables, TablesAgree, Row, Key
    <3> QED BY <1>1, <2>3, <3>1, <3>2 DEF Tables, ApprovalGateKept, ApprovalGate, StopsAtFirstFailure
  <2>7. AmbiguityNeverNoticed'
    BY <1>1, <1>5, <1>8, <2>3 DEF SameHand, AmbiguityNeverNoticed
  <2>8. HandRow(p)'
    BY <1>2, <1>3, <1>22, <2>1, <2>2, <2>3 DEF Closes, SameHand, SameWork, HandRow, Row, Entry, Key, RowAt, Busy, InControl, Working
  <2>9. HandJournal(p)'
    BY <1>2, <1>22, <2>2, <2>3, <2>5 DEF Closes, SameHand, SameWork, HandJournal, Flushed, Row, Entry, Key, Gates
  <2>10. HandApproval(p)' /\ HandLocks(p)'
    BY <1>2, <1>22, <2>3 DEF Closes, SameHand, SameWork, HandApproval, HandLocks, Row, Asked, Working
  <2> QED BY <2>6, <2>7, <2>8, <2>9, <2>10 DEF Hand
<1>23. CASE Completes(p)
  <2>1. Key(p) \in Keys /\ Key(p)[1] < nextPlan /\ pc[p] \in Working /\ pc[p] \in Busy /\ act[p] \in Actions
    BY <1>3, <1>23 DEF Completes, Key, Working
  <2>2. Row(p, act[p]) # "ABSENT" /\ SetRow(Key(p), "DONE")
    BY <1>23 DEF Completes, MayTransition, AllowedTransitions, RowStatuses, Row, Key
  <2>3. Key(p)[2] \notin Builtin => exec_journal[Key(p)] \in {"SUCCESS"} \cup Flushed
    BY <1>2, <1>23, <2>2 DEF Completes, HandJournal, Row, Entry, Key
  <2>4. FlushOnStart = {} /\ Key(p)[2] \in NeedsApproval => approvals[Key(p)] \cap {"APPROVE", "EXPIRED"} # {}
    BY <1>2, <1>23, <2>2 DEF Completes, HandApproval, Key, Asked
  <2>5. Tables'
    <3>1. "DONE" \in Statuses
      BY DEF Statuses
    <3> QED BY <1>1, <1>23, <2>1, <2>2, <2>3, <2>4, <3>1, TablesSetRow DEF Completes, SamePlans
  <2>6. AmbiguityNeverNoticed'
    BY <1>5, <1>6, <1>8, <1>23, <2>1, <2>2 DEF Completes, Statuses
  <2>7. \A a \in Actions : action_runs'[<<plan[p], a>>] = IF a = act[p] THEN "DONE" ELSE action_runs[<<plan[p], a>>]
    BY <1>1, <1>3, <2>1, <2>2 DEF SetRow, Key, TypeInv, TypeOK
  <2>8. HandRow(p)'
    BY <1>2, <1>3, <1>23, <2>1, <2>2, <2>7 DEF Completes, SetRow, HandRow, Row, Entry, Busy, InControl, Working
  <2>9. HandJournal(p)' /\ HandApproval(p)' /\ HandLocks(p)'
    BY <1>23 DEF Completes, HandJournal, HandApproval, HandLocks, Gates, Asked
  <2> QED BY <2>5, <2>6, <2>8, <2>9 DEF Hand
<1> QED
  BY <1>10, <1>11, <1>12, <1>13, <1>14, <1>15, <1>16, <1>17, <1>18, <1>19, <1>20, <1>21, <1>22, <1>23 DEF Turn

LEMMA RowsInit == Init => RowsInv
<1> SUFFICES ASSUME Init PROVE RowsInv
  OBVIOUS
<1>1. \A p \in Procs : Hand(p)
  BY DEF Init, Hand, HandRow, HandJournal, HandApproval, HandLocks, Busy, InControl, Working, Gates, Asked
<1>2. FreshRows /\ TablesAgree /\ ApprovalGateKept /\ StopsAtFirstFailure /\ AmbiguityNeverNoticed
  BY DEF Init, FreshRows, TablesAgree, ApprovalGateKept, ApprovalGate, StopsAtFirstFailure, AmbiguityNeverNoticed, Statuses
<1> QED BY <1>1, <1>2, EffectInit DEF RowsInv

(* Every step keeps the tables and what the processes know of them.         *)
LEMMA RowsStep == RowsInv /\ [Next]_vars => RowsInv'
<1> SUFFICES ASSUME RowsInv, [Next]_vars PROVE RowsInv'
  OBVIOUS
<1>1. EffectInv' /\ TypeInv /\ TypeInv'
  BY EffectStep DEF RowsInv, EffectInv
<1>2. CASE /\ UNCHANGED <<leaseVars, plans, action_runs, exec_journal, nextPlan, pc, workVars, interlock, effects>>
           /\ \A k \in Keys : approvals[k] \cap {"APPROVE", "EXPIRED"} # {}
                              => approvals'[k] \cap {"APPROVE", "EXPIRED"} # {}
  <2>1. ASSUME NEW p \in Procs PROVE Hand(p)'
    <3>1. HandApproval(p)'
      BY <1>1, <1>2, HandKeys DEF RowsInv, Hand, HandApproval, Row, Key, workVars, Asked, Working
    <3> QED BY <1>2, <3>1 DEF RowsInv, Hand, HandRow, HandJournal, HandLocks, Row, Entry, workVars
  <2>2. FreshRows' /\ TablesAgree' /\ StopsAtFirstFailure' /\ AmbiguityNeverNoticed'
    BY <1>2 DEF RowsInv, FreshRows, TablesAgree, StopsAtFirstFailure, AmbiguityNeverNoticed
  <2>3. ApprovalGateKept'
    BY <1>2 DEF RowsInv, ApprovalGateKept, ApprovalGate
  <2> QED BY <1>1, <2>1, <2>2, <2>3 DEF RowsInv
<1>3. ASSUME NEW p \in Procs, Turn(p) PROVE RowsInv'
  <2>1. Hand(p)' /\ Tables' /\ AmbiguityNeverNoticed'
    BY <1>1, <1>3, TurnStep
  <2>2. \A q \in Procs \ {p} : Hand(q)'
    BY <1>3, OtherHandKept
  <2> QED BY <1>1, <2>1, <2>2 DEF RowsInv, Tables
<1> QED BY <1>1, <1>2, <1>3, NextTurns

-----------------------------------------------------------------------------
(* A SUCCESS in the journal means the hardware moved, and a DONE pack row   *)
(* rests on such an entry (runtime_db.py, packs/base.py) or, when some      *)
(* process deletes the tables on start, on an entry it has deleted: never   *)
(* on a failed or an open one.                                              *)
THEOREM TablesNeverDisagree == Spec => []TablesAgree
<1>1. RowsInv => TablesAgree
  BY DEF RowsInv
<1> QED BY RowsInit, RowsStep, <1>1, PTL DEF Spec

(* At most one effect per key and tables that agree, for any processes that *)
(* delete the tables one by one under running engines (runtime_db.py:180).  *)
THEOREM FlushIsSurvived == Spec => []SurvivesFlush
BY EffectsAtMostOnce, TablesNeverDisagree, PTL DEF SurvivesFlush

(* Nothing that needs a human gets past WAITING_APPROVAL without an         *)
(* approval of this very run (human.py:67), whoever crashes, as long as no  *)
(* process deletes the approvals on start.                                  *)
THEOREM ApprovalsPrecedeDispatch ==
    ASSUME FlushOnStart = {}
    PROVE  Spec => []ApprovalGate
<1>1. RowsInv => ApprovalGate
  BY DEF RowsInv, ApprovalGateKept
<1> QED BY RowsInit, RowsStep, <1>1, PTL DEF Spec

(* A plan stops at the first action that does not end DONE (the breaks of   *)
(* _execute_actions).                                                       *)
THEOREM PlansStop == Spec => []StopsAtFirstFailure
<1>1. RowsInv => StopsAtFirstFailure
  BY DEF RowsInv
<1> QED BY RowsInit, RowsStep, <1>1, PTL DEF Spec

(* The answer "already in flight" is never given, so no run becomes         *)
(* UNKNOWN and no interlock is tripped by it (packs/base.py:80): a crash    *)
(* after the journal row is opened is found by nobody.                      *)
THEOREM AmbiguityStaysUnnoticed == Spec => []AmbiguityNeverNoticed
<1>1. RowsInv => AmbiguityNeverNoticed
  BY DEF RowsInv
<1> QED BY RowsInit, RowsStep, <1>1, PTL DEF Spec

(* Every way out of an action releases its locks, so the lock manager never *)
(* refuses one (the finally block of _execute_actions).                     *)
THEOREM LocksAreReleased == Spec => []LocksNeverLeak
<1>1. RowsInv => LocksNeverLeak
  BY DEF RowsInv, Hand, HandLocks, LocksNeverLeak, At
<1> QED BY RowsInit, RowsStep, <1>1, PTL DEF Spec

-----------------------------------------------------------------------------
(* What nobody has in hand is never touched again: the rows a crash or an   *)
(* exception left DISPATCHED or IN_FLIGHT stay so, as long as no process    *)
(* deletes them on start.                                                   *)
THEOREM AbandonedStaysFrozen ==
    ASSUME FlushOnStart = {}
    PROVE  Spec => AbandonedIsFrozen
<1> DEFINE Frozen == \A k \in Keys :
          (\A p \in Procs : pc[p] \in Working => Key(p) # k)
          => /\ exec_journal'[k] = exec_journal[k]
             /\ action_runs[k] # "ABSENT" => action_runs'[k] = action_runs[k]
<1>1. RowsInv /\ [Next]_vars => [Frozen]_vars
  <2> SUFFICES ASSUME RowsInv, [Next]_vars, NEW k \in Keys,
                      \A p \in Procs : pc[p] \in Working => Key(p) # k
               PROVE  /\ exec_journal'[k] = exec_journal[k]
                      /\ action_runs[k] # "ABSENT" => action_runs'[k] = action_runs[k]
    OBVIOUS
  <2>1. TypeInv
    BY DEF RowsInv, EffectInv
  <2>2. CASE UNCHANGED <<action_runs, exec_journal>>
    BY <2>2
  <2>3. ASSUME NEW p \in Procs, Turn(p)
        PROVE  /\ exec_journal'[k] = exec_journal[k]
               /\ action_runs[k] # "ABSENT" => action_runs'[k] = action_runs[k]
    <3>1. pc[p] \in Working => Key(p) # k
      OBVIOUS
    <3>2. CASE Flushes(p)
      BY <3>2 DEF Flushes
    <3>3. CASE SameTables
      BY <3>3 DEF SameTables
    <3>4. CASE Takes(p)
      <4>1. act'[p] \in todo[p] /\ pc[p] \in Busy /\ SetRow(<<plan[p], act'[p]>>, "PROPOSED")
        BY <3>4 DEF Takes, Busy, InControl
      <4>2. action_runs[<<plan[p], act'[p]>>] = "ABSENT"
        BY <4>1 DEF RowsInv, Hand, HandRow, Row
      <4> QED BY <2>1, <4>1, <4>2 DEF SetRow, TypeInv, TypeOK
    <3>5. CASE Quits(p) /\ ~SameTables
      BY <2>1, <3>1, <3>5 DEF Quits, SetRow, TypeInv, TypeOK
    <3>6. CASE Requests(p)
      <4>1. pc[p] \in Working /\ \E s \in {"WAITING_APPROVAL", "AUTHORIZED", "DISPATCHED"} : SetRow(Key(p), s)
        BY <3>6 DEF Requests, Working
      <4> QED BY <2>1, <3>1, <4>1 DEF SetRow, TypeInv, TypeOK
    <3>7. CASE Completes(p)
      BY <2>1, <3>1, <3>7 DEF Completes, SetRow, TypeInv, TypeOK, Working
    <3>8. CASE Granted(p) \/ Realizes(p)
      BY <3>8 DEF Granted, Realizes
    <3>9. CASE Opens(p)
      BY <2>1, <3>1, <3>9 DEF Opens, TypeInv, TypeOK, Working
    <3>10. CASE Closes(p)
      BY <2>1, <3>1, <3>10 DEF Closes, FinishExecJournal, TypeInv, TypeOK, Working
    <3> QED
      BY <2>3, <3>2, <3>3, <3>4, <3>5, <3>6, <3>7, <3>8, <3>9, <3>10
         DEF Turn, Idles, Begins, Acquires, Claims, Refuses, Answers
  <2> QED BY <2>1, <2>2, <2>3, NextTurns
<1> HIDE DEF Frozen
<1>3. Spec => [][Frozen]_vars
  BY <1>1, RowsInit, RowsStep, PTL DEF Spec
<1> QED BY <1>3 DEF AbandonedIsFrozen, Frozen

-----------------------------------------------------------------------------
(* The locks of dispatched rows.                                            *)

(* A turn adds to the dispatched rows only by dispatching the row in hand.  *)
LEMMA DispatchedGrows ==
    ASSUME RowsInv, NEW p \in Procs, Turn(p)
    PROVE  \/ DispatchedRuns' \subseteq DispatchedRuns
           \/ pc[p] = "toctou" /\ pc'[p] = "execute" /\ DispatchedRuns' \subseteq DispatchedRuns \cup {Key(p)}
<1>1. TypeInv
  BY DEF RowsInv, EffectInv
<1>2. ASSUME NEW k, NEW s \in Statuses, SetRow(k, s)
      PROVE  DispatchedRuns' \subseteq DispatchedRuns \cup (IF s = "DISPATCHED" THEN {k} ELSE {})
  BY <1>1, <1>2 DEF SetRow, DispatchedRuns, TypeInv, TypeOK
<1>3. CASE SameTables \/ Granted(p) \/ Opens(p) \/ Realizes(p) \/ Closes(p)
  BY <1>3 DEF SameTables, Granted, Opens, Realizes, Closes, DispatchedRuns
<1>4. CASE Flushes(p)
  BY <1>4 DEF Flushes, DispatchedRuns
<1>5. CASE Quits(p) /\ ~SameTables
  BY <1>2, <1>5 DEF Quits, Statuses
<1>6. CASE Takes(p)
  BY <1>2, <1>6 DEF Takes, Statuses
<1>7. CASE Requests(p)
  <2>1. PICK s \in {"WAITING_APPROVAL", "AUTHORIZED", "DISPATCHED"} :
           /\ s = "DISPATCHED" => pc[p] = "toctou" /\ pc'[p] = "execute"
           /\ SetRow(Key(p), s)
    BY <1>7 DEF Requests
  <2> QED BY <1>2, <2>1 DEF Statuses
<1>8. CASE Completes(p)
  BY <1>2, <1>8 DEF Completes, Statuses
<1> QED
  BY <1>3, <1>4, <1>5, <1>6, <1>7, <1>8 DEF Turn, Idles, Begins, Acquires, Claims, Refuses, Answers

(* Fewer dispatched rows hold fewer locks.                                  *)
LEMMA FewerLocks ==
    ASSUME DispatchedRuns' \subseteq DispatchedRuns
    PROVE  ActiveLocks' \subseteq ActiveLocks
BY DEF ActiveLocks

(* Plans stored keep their author while no process deletes them.            *)
LEMMA AuthorsKept ==
    ASSUME FlushOnStart = {}, TypeInv, NEW p \in Procs, Turn(p), NEW i \in PlanIds, i < nextPlan
    PROVE  plans'[i] = plans[i]
<1>1. ASSUME NEW who, Stores(who) PROVE plans'[i] = plans[i]
  BY <1>1 DEF Stores, TypeInv, TypeOK, PlanIds
<1>2. CASE SamePlans
  BY <1>2 DEF SamePlans
<1>3. CASE \E who \in {"planner", "operator"} : Stores(who)
  BY <1>1, <1>3
<1> QED
  BY <1>2, <1>3 DEF Turn, Flushes, Idles, Begins, Acquires, Quits, Takes, Claims, Requests, Granted,
     Refuses, Answers, Opens, Realizes, Closes, Completes

LEMMA PlannersStep ==
    ASSUME FlushOnStart = {}, RowsInv, PlannersPlan, NEW p \in Procs, Turn(p)
    PROVE  PlannersPlan'
<1>1. TypeInv
  BY DEF RowsInv, EffectInv
<1>2. \A q \in Procs : pc[q] \in Busy => plan[q] \in PlanIds /\ plans'[plan[q]] = plans[plan[q]]
  BY <1>1, HandKeys, AuthorsKept
<1>3. \A q \in Procs \ {p} : pc'[q] = pc[q] /\ plan'[q] = plan[q] /\ refresh'[q] = refresh[q]
  BY DEF Turn, Kept
<1>4. /\ pc'[p] \notin Busy => ~refresh'[p]
      /\ pc'[p] \in Busy /\ plans'[plan'[p]] = "planner" => refresh'[p]
  <2>1. CASE Idles(p) \/ Quits(p)
    BY <2>1 DEF Idles, Quits, PlannersPlan
  <2>2. CASE Begins(p)
    BY <1>1, <2>2 DEF Begins, Stores, TypeInv, TypeOK, Busy, InControl, Working
  <2>3. CASE pc[p] \in Busy /\ pc'[p] \in Busy /\ plan'[p] = plan[p] /\ refresh'[p] = refresh[p]
    BY <1>2, <2>3 DEF PlannersPlan
  <2>4. CASE Takes(p) \/ Claims(p) \/ Acquires(p)
    BY <2>3, <2>4 DEF Takes, Claims, Acquires, SameHand, SameWork, Busy, InControl, Working
  <2>5. CASE Requests(p) \/ Granted(p) \/ Refuses(p) \/ Answers(p)
    BY <2>3, <2>5 DEF Requests, Granted, Refuses, Answers, SameHand, SameWork, Busy, InControl, Working
  <2>6. CASE Opens(p) \/ Realizes(p) \/ Closes(p) \/ Completes(p)
    BY <2>3, <2>6 DEF Opens, Realizes, Closes, Completes, SameHand, SameWork, Busy, InControl, Working
  <2> QED BY <2>1, <2>2, <2>4, <2>5, <2>6 DEF Turn, Flushes
<1> QED BY <1>2, <1>3, <1>4 DEF PlannersPlan

(* Nobody else dispatches while a process is between its frontier check and *)
(* its own dispatch.                                                        *)
LEMMA FreeStep ==
    ASSUME LocksInv, NEW p \in Procs, Turn(p)
    PROVE  StillFree'
<1>1. RowsInv /\ StillFree /\ SingleWriter
  BY WriterSingle DEF LocksInv
<1>2. SUFFICES ASSUME NEW q \in Procs, pc'[q] \in Gates, refresh'[q]
               PROVE  RequiredLocks[act'[q]] \cap ActiveLocks' = {}
  BY DEF StillFree
<1>3. ASSUME DispatchedRuns' \subseteq DispatchedRuns, RequiredLocks[act'[q]] \cap ActiveLocks = {}
      PROVE  RequiredLocks[act'[q]] \cap ActiveLocks' = {}
  BY <1>3, FewerLocks
<1>4. CASE q # p
  <2>1. pc[q] \in Gates /\ refresh[q] /\ act'[q] = act[q]
    BY <1>2, <1>4 DEF Turn, Kept
  <2>2. pc[p] # "toctou"
    BY <1>1, <1>4, <2>1 DEF SingleWriter, Gates, InControl, Working
  <2> QED BY <1>1, <1>3, <2>1, <2>2, DispatchedGrows DEF StillFree
<1>5. CASE q = p
  <2>1. DispatchedRuns' \subseteq DispatchedRuns
    BY <1>1, <1>2, <1>5, DispatchedGrows DEF Gates
  <2>2. CASE Takes(p)
    BY <1>2, <1>3, <1>5, <2>1, <2>2 DEF Takes, Frontier
  <2>3. CASE Claims(p) \/ Requests(p) \/ Granted(p) \/ Refuses(p)
    <3>1. pc[p] \in Gates /\ refresh[p] /\ act'[p] = act[p]
      BY <1>2, <1>5, <2>3 DEF Claims, Requests, Granted, Refuses, SameHand, SameWork, Gates
    <3> QED BY <1>1, <1>3, <1>5, <2>1, <3>1 DEF StillFree
  <2> QED
    BY <1>2, <1>5, <2>2, <2>3 DEF Turn, Flushes, Idles, Begins, Acquires, Quits, Answers, Opens, Realizes,
       Closes, Completes, Gates, Busy, InControl, Working
<1> QED BY <1>4, <1>5

(* ... so what it dispatches is still disjoint from every dispatched row.   *)
LEMMA DisjointStep ==
    ASSUME FlushOnStart = {}, LocksInv, NEW p \in Procs, Turn(p)
    PROVE  DispatchedLocksDisjoint'
<1>1. RowsInv /\ TypeInv /\ StillFree /\ PlannersPlan /\ FreshRows /\ DispatchedLocksDisjoint
  BY DEF LocksInv, RowsInv, WriterInv
<1>2. SUFFICES ASSUME NEW r \in DispatchedRuns', NEW s \in DispatchedRuns', r # s,
                      plans'[r[1]] = "planner", plans'[s[1]] = "planner"
               PROVE  RequiredLocks[r[2]] \cap RequiredLocks[s[2]] = {}
  BY DEF DispatchedLocksDisjoint
<1>3. ASSUME NEW k \in DispatchedRuns PROVE k \in Keys /\ plans'[k[1]] = plans[k[1]] /\ RequiredLocks[k[2]] \subseteq ActiveLocks
  <2>1. k \in Keys /\ action_runs[k] = "DISPATCHED"
    BY <1>3 DEF DispatchedRuns
  <2>2. k[1] \in PlanIds /\ k[1] < nextPlan
    <3>1. k[1] \in PlanIds /\ k[1] \in Nat /\ nextPlan \in Nat
      BY <1>1, <2>1, EngineAssumption DEF Keys, PlanIds, TypeInv, TypeOK
    <3>2. ~(k[1] >= nextPlan)
      BY <1>1, <2>1 DEF FreshRows
    <3> QED BY <3>1, <3>2
  <2>3. RequiredLocks[k[2]] \subseteq ActiveLocks
    BY DEF ActiveLocks
  <2> QED BY <1>1, <2>1, <2>2, <2>3, AuthorsKept
<1>4. CASE r \in DispatchedRuns /\ s \in DispatchedRuns
  BY <1>1, <1>2, <1>3, <1>4 DEF DispatchedLocksDisjoint
<1>5. CASE pc[p] = "toctou" /\ DispatchedRuns' \subseteq DispatchedRuns \cup {Key(p)}
  <2>1. plan[p] \in PlanIds /\ plan[p] < nextPlan /\ pc[p] \in Busy /\ pc[p] \in Gates
    BY <1>1, <1>5, HandKeys DEF Busy, InControl, Working, Gates
  <2>2. plans'[plan[p]] = plans[plan[p]]
    BY <1>1, <2>1, AuthorsKept
  <2>3. ASSUME plans'[plan[p]] = "planner" PROVE RequiredLocks[act[p]] \cap ActiveLocks = {}
    BY <1>1, <2>1, <2>2, <2>3 DEF PlannersPlan, StillFree
  <2>4. CASE r = Key(p) /\ s \in DispatchedRuns
    BY <1>2, <1>3, <2>3, <2>4 DEF Key
  <2>5. CASE s = Key(p) /\ r \in DispatchedRuns
    BY <1>2, <1>3, <2>3, <2>5 DEF Key
  <2> QED BY <1>2, <1>4, <1>5, <2>4, <2>5
<1> QED BY <1>1, <1>2, <1>4, <1>5, DispatchedGrows

(* Two DISPATCHED rows of the planner's path never claim one lock, whatever *)
(* crashed in between (WorldCompiler._active_locks), for any number of      *)
(* processes none of which deletes the tables on start.                     *)
THEOREM LocksClaimedOnce ==
    ASSUME FlushOnStart = {}
    PROVE  Spec => []DispatchedLocksDisjoint
<1>1. Init => LocksInv
  <2> SUFFICES ASSUME Init PROVE LocksInv
    OBVIOUS
  <2>1. PlannersPlan /\ StillFree /\ DispatchedLocksDisjoint
    BY DEF Init, PlannersPlan, StillFree, DispatchedLocksDisjoint, DispatchedRuns, Gates, Busy, InControl, Working
  <2> QED BY <2>1, WriterInit, RowsInit DEF LocksInv
<1>2. LocksInv /\ [Next]_vars => LocksInv'
  <2> SUFFICES ASSUME LocksInv, [Next]_vars PROVE LocksInv'
    OBVIOUS
  <2>1. WriterInv' /\ RowsInv' /\ TypeInv
    BY WriterStep, RowsStep DEF LocksInv, WriterInv
  <2>2. CASE UNCHANGED <<plans, action_runs, pc, workVars>>
    <3>1. DispatchedRuns' = DispatchedRuns /\ ActiveLocks' = ActiveLocks
      BY <2>2 DEF DispatchedRuns, ActiveLocks
    <3> QED BY <2>1, <2>2, <3>1 DEF LocksInv, PlannersPlan, StillFree, DispatchedLocksDisjoint, workVars
  <2>3. ASSUME NEW p \in Procs, Turn(p) PROVE LocksInv'
    BY <2>1, <2>3, PlannersStep, FreeStep, DisjointStep DEF LocksInv
  <2> QED BY <2>1, <2>2, <2>3, NextTurns
<1>3. LocksInv => DispatchedLocksDisjoint
  BY DEF LocksInv
<1> QED BY <1>1, <1>2, <1>3, PTL DEF Spec

=============================================================================
