---- MODULE EffectLog ----
(***************************************************************************)
(* What the execution barrier of packs/base.py promises, with no processes, *)
(* plans or crashes: a write-ahead log of hardware effects.  An entry is    *)
(* opened before the effect, the effect happens at most once and only under *)
(* an open entry, and an entry is closed as a success only after it.  An    *)
(* entry may stay open for ever: its writer died.                           *)
(***************************************************************************)
EXTENDS Integers

CONSTANT Keys           \* idempotency keys

VARIABLES log, moved

logVars == <<log, moved>>

LogInit ==
    /\ log = [k \in Keys |-> "NONE"]
    /\ moved = [k \in Keys |-> 0]

OpenEntry(k) ==
    /\ log[k] = "NONE"
    /\ log' = [log EXCEPT ![k] = "IN_FLIGHT"]
    /\ UNCHANGED moved

Move(k) ==
    /\ log[k] = "IN_FLIGHT"
    /\ moved[k] = 0
    /\ moved' = [moved EXCEPT ![k] = 1]
    /\ UNCHANGED log

CloseEntry(k, s) ==
    /\ log[k] = "IN_FLIGHT"
    /\ s = "SUCCESS" => moved[k] = 1
    /\ log' = [log EXCEPT ![k] = s]
    /\ UNCHANGED moved

LogNext ==
    \E k \in Keys :
        \/ OpenEntry(k)
        \/ Move(k)
        \/ \E s \in {"SUCCESS", "FAILED"} : CloseEntry(k, s)

LogSpec == LogInit /\ [][LogNext]_logVars

=============================================================================
