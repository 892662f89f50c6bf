------------------------------- MODULE Safety -------------------------------
(***************************************************************************)
(* The first-generation safety process, safety/kernel_main.py run_kernel:  *)
(* an endless loop over the whiteboard that looks at the emergency stop,   *)
(* at the heartbeats of agent and engine and at the pack's fault monitors, *)
(* and sends stop requests to the printer (safety/estop.py).  The class in *)
(* safety/kernel.py, which nothing starts any more, is not modelled.       *)
(***************************************************************************)
EXTENDS Integers, Sequences, FiniteSets

CONSTANTS
    Monitors,       \* whiteboard keys of the pack's fault monitors
    MaxTroubles     \* bound: flags raised and lowered, beats lost, errors

ASSUME SafetyConstants ==
    MaxTroubles \in Nat /\ Monitors \cap {"estop", "agent", "engine"} = {}

VARIABLES
    raised,     \* the flags that are on: safety.estop, monitors' keys
    beats,      \* beats[c]: c's heartbeat key is "fresh", "old" or "gone"
    stale,      \* safety.agent_stale, safety.engine_stale
    k,          \* the kernel: position in the loop body, what it alerted on
    troubles,
    stops       \* history: stops[f]: requests made since the kernel saw f off

safetyVars == <<raised, beats, stale, k, troubles, stops>>

Flags == {"estop"} \cup Monitors
Components == {"agent", "engine"}

SafetyInit ==
    /\ raised = {} /\ stale = {}
    /\ beats = [c \in Components |-> "gone"]
    /\ k = [pc |-> "estop", todo |-> {}, alerted |-> {}, grace |-> TRUE]
    /\ troubles = 0
    /\ stops = [f \in Flags |-> 0]

Trouble == troubles < MaxTroubles /\ troubles' = troubles + 1
-----------------------------------------------------------------------------
(* A CLI or Telegram estop publishes the key with a time to live and sends  *)
(* a stop request of its own; a monitor's key comes from its sensor.        *)
Raise(f) ==
    /\ Trouble /\ f \notin raised
    /\ raised' = raised \cup {f}
    /\ UNCHANGED <<beats, stale, k, stops>>

(* The time to live is over, or the sensor reads 0 again. *)
Lower(f) ==
    /\ Trouble /\ f \in raised
    /\ raised' = raised \ {f}
    /\ UNCHANGED <<beats, stale, k, stops>>

(* The heartbeat threads publish with a time to live.  A component that     *)
(* stops leaves no key, or an old value first where the time to live is set *)
(* longer than the kernel's timeout.                                        *)
BeatLost(c) ==
    /\ Trouble /\ beats[c] = "fresh"
    /\ beats' = [beats EXCEPT ![c] = "gone"]
    /\ UNCHANGED <<raised, stale, k, stops>>

BeatAges(c) ==
    /\ Trouble /\ beats[c] = "fresh"
    /\ beats' = [beats EXCEPT ![c] = "old"]
    /\ UNCHANGED <<raised, stale, k, stops>>

Beat(c) ==
    /\ Trouble /\ beats[c] # "fresh"
    /\ beats' = [beats EXCEPT ![c] = "fresh"]
    /\ UNCHANGED <<raised, stale, k, stops>>

(* safety.*_stale are set with ex=60. *)
StaleExpires(c) ==
    /\ Trouble /\ c \in stale
    /\ stale' = stale \ {c}
    /\ UNCHANGED <<raised, beats, k, stops>>

GraceEnds ==
    /\ k.grace
    /\ k' = [k EXCEPT !.grace = FALSE]
    /\ UNCHANGED <<raised, beats, stale, troubles, stops>>

(* redis.ConnectionError, or any exception: the loop body starts again      *)
(* from its top.                                                            *)
CheckFails ==
    /\ Trouble
    /\ k' = [k EXCEPT !.pc = "estop"]
    /\ UNCHANGED <<raised, beats, stale, stops>>
-----------------------------------------------------------------------------
(* One flag: a stop is requested when it comes on, and not again while it   *)
(* stays.  Whether the request or its fallback got through is not looked    *)
(* at.                                                                      *)
Stops(f) == f \in raised /\ f \notin k.alerted

(* Mutant: what was alerted on once is never alerted on again. *)
AlertedForever(f) == k.alerted \cup (IF f \in raised THEN {f} ELSE {})

(* Mutant: it is not remembered that a stop was requested. *)
AlertedNever(f) == k.alerted

(* estop_alerted, fault_alerted[key] *)
Alerted(f) == IF f \in raised THEN k.alerted \cup {f} ELSE k.alerted \ {f}

CheckFlag(f, next) ==
    /\ stops' = [stops EXCEPT ![f] = IF Stops(f) THEN @ + 1 ELSE IF f \in raised THEN @ ELSE 0]
    /\ k' = [k EXCEPT !.alerted = Alerted(f), !.pc = next,
                      !.todo = IF next = "agent" THEN Monitors ELSE @ \ {f}]
    /\ UNCHANGED <<raised, beats, stale, troubles>>

CheckEstop == k.pc = "estop" /\ CheckFlag("estop", "agent")

(* Mutant: a heartbeat that never came is not missed. *)
MissedOld(c) == beats[c] = "old"

(* A heartbeat that is missing after the grace period, or too old *)
Missed(c) == beats[c] = "old" \/ (beats[c] = "gone" /\ ~k.grace)

(* One heartbeat: reported once, until a fresh one was seen. *)
CheckBeat(c, next) ==
    /\ k.pc = c
    /\ stale' = IF Missed(c) /\ c \notin k.alerted THEN stale \cup {c} ELSE stale
    /\ k' = [k EXCEPT !.pc = next,
                      !.alerted = IF Missed(c) THEN @ \cup {c}
                                  ELSE IF beats[c] = "fresh" THEN @ \ {c} ELSE @]
    /\ UNCHANGED <<raised, beats, troubles, stops>>

(* The monitors in turn, then the sleep. *)
CheckMonitor == k.pc = "monitors" /\ \E f \in k.todo : CheckFlag(f, "monitors")

CheckDone ==
    /\ k.pc = "monitors" /\ k.todo = {}
    /\ k' = [k EXCEPT !.pc = "estop"]
    /\ UNCHANGED <<raised, beats, stale, troubles, stops>>

KernelStep ==
    \/ CheckEstop \/ CheckBeat("agent", "engine") \/ CheckBeat("engine", "monitors")
    \/ CheckMonitor \/ CheckDone

Troubles ==
    \/ \E f \in Flags : Raise(f) \/ Lower(f)
    \/ \E c \in Components : BeatLost(c) \/ BeatAges(c) \/ Beat(c) \/ StaleExpires(c)
    \/ CheckFails \/ GraceEnds

SafetyNext == KernelStep \/ Troubles

SafetySpec == SafetyInit /\ [][SafetyNext]_safetyVars
-----------------------------------------------------------------------------
(* Flags, heartbeats and the kernel are well typed. *)
SafetyTypeOK ==
    /\ raised \subseteq Flags /\ stale \subseteq Components
    /\ beats \in [Components -> {"fresh", "old", "gone"}]
    /\ k.pc \in {"estop", "agent", "engine", "monitors"}
    /\ k.todo \subseteq Monitors /\ k.alerted \subseteq Flags \cup Components
    /\ stops \in [Flags -> Nat]

(* A flag that stays on for however long makes the kernel request one stop: *)
(* a second request could end the job that the first one paused, because    *)
(* the fallback of the pausing request deletes the job.                     *)
OneStopPerFlag == \A f \in Flags : stops[f] <= 1

(* Whenever the kernel has seen a flag off and it comes on, a stop is       *)
(* requested, unless the flag is lowered first.  (A flag that goes off and  *)
(* on between two looks is the same alarm to the kernel.)                   *)
EveryFlagStops == \A f \in Flags : f \in raised ~> f \notin raised \/ stops[f] > 0

(* After the grace period a component that does not beat is reported,      *)
(* unless it beats again first.                                             *)
LossIsReported ==
    \A c \in Components :
        beats[c] # "fresh" /\ ~k.grace ~> beats[c] = "fresh" \/ c \in k.alerted

(* Every alarm is answered, and once (kernel_main.py:69, 81): one stop per  *)
(* activation of a flag, no more and no fewer, and a report of each lost    *)
(* heartbeat.                                                               *)
AlarmsAnswered == []OneStopPerFlag /\ EveryFlagStops /\ LossIsReported

=============================================================================
