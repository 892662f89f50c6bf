---- MODULE MCDispatch ----
(***************************************************************************)
(* Small instances of Dispatch: resume_print and cancel_print (which needs *)
(* an approval) on the printer, and call_human, which bypasses the gates.  *)
(***************************************************************************)
EXTENDS Dispatch

MCGroup == [c \in Commands |-> IF c \in GateBypass THEN "builtin" ELSE "prusa"]

=============================================================================
