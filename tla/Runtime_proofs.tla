---- MODULE Runtime_proofs ----
(***************************************************************************)
(* Proofs about the runtime loop of main.py, for every configuration: how  *)
(* many cycles, attempts, failures and ticks the loop is given.            *)
(***************************************************************************)
EXTENDS Runtime, TLAPS

(* The loop goes round only while cycles are left; the first one is free.   *)
CyclesLeft == pc # "stopped" => cycle_index = 0 \/ cycle_index < Cycles

(* What is known of the plan on its way to execute_plan.                    *)
OnTheWay ==
    /\ pc = "decide" => decided = world
    /\ pc = "planner" => IsActionable(decided)
    /\ pc \in {"guard", "execute"} =>
           plannedIn = cycle_index /\ (plan \in {"CONTROL", "TUNE"} => IsActionable(decided))
    /\ pc = "execute" /\ plan = "TUNE" => ~TerminalGuard(world)

(* Only the bypass sets the stop flag, on its way to execute_plan.          *)
FlagIsFresh ==
    /\ pc \in {"decide", "planner", "failed", "guard"} => ~stopAfter
    /\ StopsOnlyWhenInactive

RunInv == TypeOK /\ CyclesLeft /\ OnTheWay /\ FlagIsFresh

LEMMA CappedRange ==
    ASSUME NEW limit \in Nat, NEW n \in 0 .. limit
    PROVE  Capped(n, limit) \in 0 .. limit
BY DEF Capped

LEMMA RunInit == Init => RunInv
<1> SUFFICES ASSUME Init PROVE RunInv
  OBVIOUS
<1>1. TypeOK
  <2>1. /\ plannedIn \in -1 .. Cycles + 1 /\ attempt \in 0 .. RetryAttempts
        /\ failures \in 0 .. FailuresToNoAction /\ cycleFailures \in 0 .. Persistent
        /\ cycle_index \in 0 .. Cycles + 1
        /\ plannerAge \in 0 .. MinInterval /\ beatAge \in 0 .. BeatTimeout + 1
    BY RuntimeAssumption DEF Init
  <2>2. /\ forever \in BOOLEAN /\ monitor \in BOOLEAN /\ stopAfter \in BOOLEAN /\ interlock \in BOOLEAN
        /\ pc \in PcLabels /\ world \in Worlds /\ decided \in Worlds /\ plan \in Plans
    BY Zenon DEF Init, Worlds, Plans, PcLabels
  <2> QED BY <2>1, <2>2 DEF TypeOK
<1>2. CyclesLeft /\ OnTheWay /\ FlagIsFresh
  BY DEF Init, CyclesLeft, OnTheWay, FlagIsFresh, StopsOnlyWhenInactive
<1> QED BY <1>1, <1>2 DEF RunInv

(* Another way round the loop.                                              *)
LEMMA CycleEnds ==
    ASSUME RunInv, pc # "stopped", EndCycle
    PROVE  pc' \in {"cycle", "stopped"} /\ cycle_index' \in 0 .. Cycles + 1 /\ CyclesLeft'
BY RuntimeAssumption DEF RunInv, TypeOK, CyclesLeft, EndCycle

LEMMA RunStep == RunInv /\ [Next]_vars => RunInv'
<1> SUFFICES ASSUME RunInv, [Next]_vars PROVE RunInv'
  OBVIOUS
<1> USE RuntimeAssumption DEF RunInv, TypeOK, PcLabels, CyclesLeft, OnTheWay, FlagIsFresh, StopsOnlyWhenInactive,
    argVars, planVars, countVars, clockVars
<1>1. CASE UNCHANGED vars
  BY <1>1 DEF vars
<1>2. ASSUME UNCHANGED argVars, Publish PROVE RunInv'
  <2>1. TypeOK'
    <3>1. 0 \in 0 .. RetryAttempts
      OBVIOUS
    <3> QED BY <1>2, <3>1, Zenon DEF Publish
  <2>2. CyclesLeft' /\ OnTheWay' /\ FlagIsFresh'
    BY <1>2 DEF Publish
  <2> QED BY <2>1, <2>2
<1>3. ASSUME UNCHANGED argVars, Bypass PROVE RunInv'
  BY <1>3 DEF Bypass, Decide, Plans, HasActivePrint
<1>4. ASSUME UNCHANGED argVars, CallPlanner PROVE RunInv'
  BY <1>4 DEF CallPlanner, BypassPlanner
<1>5. ASSUME UNCHANGED argVars, PlannerAnswers PROVE RunInv'
  BY <1>5 DEF PlannerAnswers, Decide
<1>6. ASSUME UNCHANGED argVars, PlannerRetries PROVE RunInv'
  BY <1>6 DEF PlannerRetries
<1>7. ASSUME UNCHANGED argVars, PlannerGivesUp PROVE RunInv'
  BY <1>7, CappedRange DEF PlannerGivesUp
<1>8. ASSUME UNCHANGED argVars, SkipExecution PROVE RunInv'
  BY <1>8, CycleEnds DEF SkipExecution
<1>9. ASSUME UNCHANGED argVars, DegradeToNoAction PROVE RunInv'
  BY <1>9 DEF DegradeToNoAction, Decide, Plans
<1>10. ASSUME UNCHANGED argVars, Guard PROVE RunInv'
  <2>1. CASE plan = "TUNE" /\ TerminalGuard(world')
    BY <1>10, <2>1 DEF Guard, Decide, Plans
  <2>2. CASE plan = "TUNE" /\ ~TerminalGuard(world')
    BY <1>10, <2>2 DEF Guard, TerminalGuard
  <2>3. CASE plan # "TUNE"
    BY <1>10, <2>3 DEF Guard
  <2> QED BY <2>1, <2>2, <2>3
<1>11. ASSUME UNCHANGED argVars, ExecutePlan PROVE RunInv'
  BY <1>11 DEF ExecutePlan
<1>12. ASSUME UNCHANGED argVars, Poll PROVE RunInv'
  BY <1>12 DEF Poll
<1>13. ASSUME UNCHANGED argVars, WriteArtifacts PROVE RunInv'
  BY <1>13 DEF WriteArtifacts
<1>14. ASSUME UNCHANGED argVars, Raise PROVE RunInv'
  BY <1>14 DEF Raise
<1>15. ASSUME UNCHANGED argVars, HandleException PROVE RunInv'
  BY <1>15, CappedRange DEF HandleException
<1>16. ASSUME UNCHANGED argVars, NextCycle PROVE RunInv'
  BY <1>16, CycleEnds DEF NextCycle
<1>17. ASSUME UNCHANGED argVars, Tick PROVE RunInv'
  BY <1>17, CappedRange DEF Tick
<1>18. ASSUME UNCHANGED argVars, Interrupt PROVE RunInv'
  BY <1>18 DEF Interrupt
<1> QED
  BY <1>1, <1>2, <1>3, <1>4, <1>5, <1>6, <1>7, <1>8, <1>9, <1>10, <1>11, <1>12, <1>13, <1>14, <1>15, <1>16,
     <1>17, <1>18 DEF Next, LoopStep

(* The loop's counters stay in the ranges main.py gives them: no attempt    *)
(* beyond plan_with_retry's, no cycle beyond --cycles (main.py:282, 1228).  *)
THEOREM RuntimeTypes == Spec => []TypeOK
<1>1. RunInv => TypeOK
  BY DEF RunInv
<1> QED BY RunInit, RunStep, <1>1, PTL DEF Spec

(* execute_plan is never given a plan of an earlier cycle, a driving plan   *)
(* chosen in a world with nothing to act on, or a tuning plan that the      *)
(* world published last forbids (main.py:1098-1145).                        *)
THEOREM FreshPlansOnly == Spec => []ExecutesOnlyFreshPlans
<1>1. RunInv => ExecutesOnlyFreshPlans
  BY DEF RunInv, OnTheWay, ExecutesOnlyFreshPlans
<1> QED BY RunInit, RunStep, <1>1, PTL DEF Spec

(* The loop leaves through stop_after_cycle only in a cycle that found no   *)
(* print and was told not to wait for one (main.py:994, 998, 1200).         *)
THEOREM FlagNeverOutlivesItsCycle == Spec => []StopsOnlyWhenInactive
<1>1. RunInv => StopsOnlyWhenInactive
  BY DEF RunInv, FlagIsFresh
<1> QED BY RunInit, RunStep, <1>1, PTL DEF Spec

=============================================================================
