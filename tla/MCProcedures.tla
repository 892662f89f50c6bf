---------------------------- MODULE MCProcedures ----------------------------
(* The trim procedures and the print procedures of the hardware tool, one  *)
(* of them in each behaviour: the tool runs one command and exits.         *)
EXTENDS Sessions, Bench

MCOrder == <<"speed", "nozzle", "flow">>

vars == <<sessionVars, benchVars>>

Init == SessionInit /\ BenchInit

(* While the one part moves the other is in one of its initial states. *)
BenchAtRest == b = Off /\ port = "ok" /\ print.life = "IDLE" /\ print.file = "other" /\ print.id = 1
SessionAtRest == t = Idle /\ ~printing /\ \A f \in Families : values[f] = Default

InSession(A) == A /\ BenchAtRest /\ UNCHANGED benchVars
InBench(A) == A /\ SessionAtRest /\ UNCHANGED sessionVars

Next == InSession(SessionNext) \/ InBench(BenchNext)

Spec == Init /\ [][Next]_vars
FairSpec == Spec /\ WF_vars(InSession(ToolStep)) /\ WF_vars(InBench(BenchStep))

(* Each tool comes to an end (hardware_smoke.py:1099, 1230, 2756), whatever *)
(* the printer does meanwhile: all but the audit, which has no deadline.    *)
ToolsEnd == SessionEnds /\ BoundedToolsEnd
=============================================================================
