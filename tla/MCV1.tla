-------------------------------- MODULE MCV1 --------------------------------
(* The first-generation agent and the safety process beside it, one of them *)
(* in each behaviour: they share no key but the heartbeat.                  *)
EXTENDS Agent, Safety

Bounds(start, texts, answers, r, files, n) ==
    [phase |-> start, texts |-> texts, answers |-> answers, rows |-> r, files |-> files,
     events |-> n]

(* Conversation, callouts, external pause and resume, flip-flops, chains,   *)
(* the print queue.                                                         *)
MCScenarios == {
    Bounds("PRINTING", Texts, {Wait}, 0, 0, 2),
    Bounds("PRINTING", {"stop"}, {Wait, Call(1)}, 1, 0, 2),
    Bounds("PRINTING", {}, {Wait, Call(1), Call(2)}, 2, 0, 0),
    Bounds("PRINTING", {"stop"}, {Wait, Act("resume_print")}, 1, 0, 1),
    Bounds("PRINTING", {}, {Wait, Act("pause_print"), Act("resume_print")}, 2, 0, 0),
    Bounds("PRINTING", {}, {Wait, Chain("pause_print", "resume_print")}, 2, 0, 0),
    Bounds("IDLE", {}, {Wait}, 1, 2, 1)}

vars == <<agentVars, safetyVars>>
Init == AgentInit /\ SafetyInit

(* While the one moves the other is where it began. *)
AgentAtRest == a = NewAgent /\ events = 0 /\ rows = <<>> /\ q = None /\ phase = "IDLE"
SafetyAtRest == troubles = 0 /\ k.grace /\ k.pc = "estop"

InAgent(A) == A /\ SafetyAtRest /\ UNCHANGED safetyVars
InSafety(A) == A /\ AgentAtRest /\ UNCHANGED agentVars

Next == InAgent(AgentNext) \/ InSafety(SafetyNext)

Spec == Init /\ [][Next]_vars
FairSpec == Spec /\ WF_vars(InAgent(AgentStep)) /\ WF_vars(InSafety(KernelStep))

(* The agent and the safety process are well typed. *)
Types == AgentTypeOK /\ SafetyTypeOK
=============================================================================
