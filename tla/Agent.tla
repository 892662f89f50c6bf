-------------------------------- MODULE Agent --------------------------------
(***************************************************************************)
(* The first-generation agent: agent/loop.py run_once from the read of the *)
(* whiteboard to the consumption of the operator's message, the model call *)
(* (llm_client.py) that another thread may cancel, the guards on its       *)
(* answer, and the threads it races with: operators (human/cli.py,         *)
(* human/telegram.py), sensors (tools/registry.py), the engine and the     *)
(* times to live of the whiteboard's keys.                                 *)
(*                                                                         *)
(* Left out: texts of prompts and logs, the human's photo (consumed like   *)
(* the message), the wording inside JOB_CONTEXT.md.                        *)
(***************************************************************************)
EXTENDS Integers, Sequences, FiniteSets

CONSTANTS
    Texts,      \* what operators write
    Ratings,    \* "great", "ok", "failed"
    MaxStale,   \* stale answers discarded in a row (3 in the code)
    Scenarios,  \* bounds of a behaviour: the phase it starts in, the texts operators write, the answers the
                \* model gives, the rows of the ledger, the files put on print.queue,
                \* the number of messages, changes of printer and vision, expiries and faults
    MaxEvents,  \* the largest such number
    None

VARIABLES
    phase,      \* the printer: job.phase, and printer.state with it
    board,      \* the whiteboard's keys that agent and humans write
    cancel,     \* _cancel_llm, which wake() sets with _wake_event
    rows,       \* the ledger's actions, oldest first
    waited,     \* rows that were there at the last recorded WAIT
    fresh,      \* rows DONE less than AGENT_LOOKBACK_S ago
    ctx,        \* JOB_CONTEXT.md exists
    a,          \* the agent thread and its memory
    bound,      \* which scenario
    q,          \* the list a /queue command has read
    events,     \* messages, changes of printer and vision, expiries and faults so far
    h           \* history

agentVars == <<phase, board, cancel, rows, waited, fresh, ctx, a, bound, q, events, h>>

Phases == {"IDLE", "PREPARING", "PRINTING", "PAUSED", "FINISHED", "ERROR"}
Active == {"PREPARING", "PRINTING", "PAUSED"}

(* Tools of the Prusa pack with state_effects on printer.state, and the     *)
(* builtin through which a callout goes out.                                *)
Hardware == {"pause_print", "resume_print", "start_print"}
Tools == Hardware \cup {"call_human"}
Approved == {"start_print"}

(* A row ends DONE or FAILED, or is REJECTED for a reason that error_json   *)
(* keeps: "operator" (a human's REJECT: "not approved by operator"),        *)
(* "engine" (expired, timed out, precheck ...) or "blocked" ("External      *)
(* pause active ...", "blocked by safety.estop").                           *)
Rejections == {"operator", "engine", "blocked"}
Ends == {"DONE", "FAILED"} \cup Rejections

NoMessage == [text |-> None, post |-> 0]
(* Callouts are told apart by their text (the hash of it in the code).      *)
Callouts == {1, 2}
NoCallout == 0

Wait == [kind |-> "WAIT", tools |-> <<>>, text |-> NoCallout]
Call(text) == [kind |-> "CALL_HUMAN", tools |-> <<>>, text |-> text]
Act(tool) == [kind |-> "ACTION", tools |-> <<tool>>, text |-> NoCallout]
Chain(first, second) == [kind |-> "ACTION_CHAIN", tools |-> <<first, second>>, text |-> NoCallout]

(* What the parser lets through.  (Bound: chains of two, MAX_CHAIN_LENGTH   *)
(* is 5 in the code.)                                                       *)
Decisions == {Wait} \cup {Call(text) : text \in Callouts} \cup {Act(tool) : tool \in Tools}
                 \cup {Chain(first, second) : first \in Tools, second \in Tools}

ASSUME AgentConstants ==
    /\ Ratings \subseteq Texts /\ None \notin Texts \cup Phases
    /\ MaxStale \in Nat /\ MaxEvents \in Nat
    /\ \A s \in Scenarios :
         /\ s.phase \in Phases /\ s.texts \subseteq Texts /\ s.answers \subseteq Decisions
         /\ s.rows \in Nat /\ s.files \in Nat /\ s.events \in 0 .. MaxEvents

(* What a cycle starts from after the process did.                          *)
NewAgent == [pc |-> "board", seen |-> None, raw |-> NoMessage, shown |-> NoMessage,
             pre |-> <<>>, decision |-> Wait, stale |-> FALSE, taken |-> <<>>,
             retries |-> 0, last |-> NoMessage, recent |-> <<>>, processed |-> {},
             job |-> None, prev |-> None]

(* The cycle returns; its locals are gone. *)
Slept(m) == [m EXCEPT !.pc = "sleep", !.seen = None, !.raw = NoMessage, !.shown = NoMessage,
                      !.pre = <<>>, !.decision = Wait, !.stale = FALSE, !.taken = <<>>]

AgentInit ==
    /\ bound \in Scenarios
    /\ phase = bound.phase
    /\ board = [intent |-> NoMessage, callout |-> NoCallout, pause |-> FALSE,
                cooldown |-> None, queue |-> <<>>, awaiting |-> FALSE, vision |-> FALSE]
    /\ cancel = FALSE
    /\ rows = <<>> /\ waited = 0 /\ fresh = {}
    /\ ctx = FALSE
    /\ a = NewAgent
    /\ q = None /\ events = 0
    /\ h = [posts |-> 0, shown |-> 0, keys |-> <<>>,
            discards |-> 0, files |-> 0, popped |-> <<>>, expired |-> <<>>, torn |-> FALSE]

Event == events < bound.events /\ events' = events + 1
-----------------------------------------------------------------------------
(* Operators *)

(* A message (CLI intent, Telegram text): it replaces the one on the board, *)
(* acknowledges the pending callout and wakes the agent.                    *)
Say(text) ==
    /\ Event
    /\ board' = [board EXCEPT !.intent = [text |-> text, post |-> h.posts + 1],
                              !.callout = NoCallout]
    /\ cancel' = TRUE
    /\ h' = [h EXCEPT !.posts = @ + 1]
    /\ UNCHANGED <<bound, phase, rows, waited, fresh, ctx, a, q>>

(* /queue reads the list in the Telegram thread ...                         *)
QueueRead ==
    /\ q = None /\ h.files < bound.files
    /\ q' = board.queue
    /\ UNCHANGED <<bound, phase, board, cancel, rows, waited, fresh, ctx, a, events, h>>

(* ... and publishes it with the new file, whatever happened to it since.   *)
QueueWrite ==
    /\ q # None
    /\ board' = [board EXCEPT !.queue = Append(q, h.files + 1)]
    /\ q' = None /\ cancel' = TRUE
    /\ h' = [h EXCEPT !.files = @ + 1, !.torn = @ \/ board.queue # q]
    /\ UNCHANGED <<bound, phase, rows, waited, fresh, ctx, a, events>>

(* /reject: the engine rejects the waiting row; no wake.                    *)
HumanRejects(i) ==
    /\ rows[i].end = "ACTIVE" /\ rows[i].tool \in Approved
    /\ rows' = [rows EXCEPT ![i].end = "operator"]
    /\ board' = [board EXCEPT !.callout = NoCallout]
    /\ UNCHANGED <<bound, phase, cancel, waited, fresh, ctx, a, q, events, h>>
-----------------------------------------------------------------------------
(* Printer, sensors, engine, clock *)

Becomes == [IDLE      |-> {"PREPARING"},
            PREPARING |-> {"PRINTING", "IDLE"},
            PRINTING  |-> {"PAUSED", "FINISHED", "IDLE", "ERROR"},
            PAUSED    |-> {"PRINTING", "IDLE"},
            FINISHED  |-> {"IDLE", "PREPARING"},
            ERROR     |-> {"PRINTING", "IDLE"}]

(* The sensor loop wakes the agent when printer.state changed; PREPARING    *)
(* and PRINTING are the same printer.state.                                 *)
Sensed(p) ==
    /\ phase' = p
    /\ IF p = phase \/ {phase, p} \subseteq {"PREPARING", "PRINTING"}
       THEN UNCHANGED <<cancel>>
       ELSE cancel' = TRUE

PrinterChanges ==
    /\ Event
    /\ \E p \in Becomes[phase] : Sensed(p)
    /\ UNCHANGED <<bound, board, rows, waited, fresh, ctx, a, q, h>>

(* vision.status turns to a defect or back, or has no data: no wake.        *)
VisionChanges ==
    /\ Event
    /\ board' = [board EXCEPT !.vision = ~@]
    /\ UNCHANGED <<bound, phase, cancel, rows, waited, fresh, ctx, a, q, h>>

(* The prechecks of actuators.py, and what the tools do.                    *)
Outcome(tool) ==
    CASE tool = "pause_print"  /\ phase = "PRINTING" -> "PAUSED"
      [] tool = "resume_print" /\ phase = "PAUSED"   -> "PRINTING"
      [] tool = "start_print"  /\ phase = "IDLE"     -> "PREPARING"
      [] tool = "call_human" -> phase
      [] OTHER -> None

Calls == {i \in DOMAIN rows : rows[i].tool = "call_human"}

(* dispatch.py takes a row (a callout falls back to the outbox, and does    *)
(* not fail); Dispatch.tla has its gates one by one.                        *)
EngineRuns(i) ==
    LET tool == rows[i].tool IN
    /\ rows[i].end = "ACTIVE"
    /\ IF tool = "resume_print" /\ board.pause
       THEN rows' = [rows EXCEPT ![i].end = "blocked"] /\ UNCHANGED <<phase, cancel, fresh>>
       ELSE IF Outcome(tool) = None
       THEN rows' = [rows EXCEPT ![i].end = "engine"] /\ UNCHANGED <<phase, cancel, fresh>>
       ELSE \/ /\ rows' = [rows EXCEPT ![i].end = "DONE"]
               /\ Sensed(Outcome(tool)) /\ fresh' = fresh \cup ({i} \ Calls)
            \/ /\ i \notin Calls /\ rows' = [rows EXCEPT ![i].end = "FAILED"]
               /\ UNCHANGED <<phase, cancel, fresh>>
    /\ UNCHANGED <<bound, board, waited, ctx, a, q, events, h>>

(* Keys have times to live, print.queue of a day, and AGENT_LOOKBACK_S      *)
(* passes.                                                                  *)
Expires ==
    /\ Event
    /\ \/ board' \in {[board EXCEPT !.intent = NoMessage], [board EXCEPT !.callout = NoCallout],
                       [board EXCEPT !.pause = FALSE], [board EXCEPT !.awaiting = FALSE],
                       [board EXCEPT !.cooldown = None]} \ {board}
          /\ UNCHANGED <<fresh, h>>
       \/ /\ board.queue # <<>> /\ board' = [board EXCEPT !.queue = <<>>]
          /\ h' = [h EXCEPT !.expired = @ \o board.queue]
          /\ UNCHANGED fresh
       \/ fresh # {} /\ fresh' = {} /\ UNCHANGED <<board, h>>
    /\ UNCHANGED <<bound, phase, cancel, rows, waited, ctx, a, q>>

(* The process dies and starts again; files, ledger and whiteboard stay.    *)
Restart ==
    /\ Event
    /\ a' = NewAgent /\ cancel' = FALSE /\ q' = None
    /\ h' = [h EXCEPT !.torn = @ \/ a.pc = "propose", !.keys = <<>>, !.discards = 0]
    /\ UNCHANGED <<bound, phase, board, rows, waited, fresh, ctx>>
-----------------------------------------------------------------------------
(* The cycle: what the agent reads *)

Outside == UNCHANGED <<phase, q, events>>

(* Ledger.propose: a command that is still active is dropped.               *)
Proposed(rs, tool, file) ==
    IF \E i \in DOMAIN rs : rs[i] = [tool |-> tool, file |-> file, end |-> "ACTIVE"] THEN rs
    ELSE Append(rs, [tool |-> tool, file |-> file, end |-> "ACTIVE"])

(* The ledger after a decision is routed *)
RowsAfter(d) ==
    CASE d.kind = "CALL_HUMAN" -> Proposed(rows, "call_human", d.text)
      [] d.kind = "ACTION" -> Proposed(rows, d.tools[1], 0)
      [] d.kind = "ACTION_CHAIN" -> Proposed(Proposed(rows, d.tools[1], 0), d.tools[2], 0)
      [] OTHER -> rows

(* Bound: other answers than WAIT as long as the ledger is short *)
Fits(d) == d = Wait \/ Len(RowsAfter(d)) <= bound.rows

(* _sleep_until_next_cycle: the delay, which the parser clamps, is over or  *)
(* wake() cut it short.                                                     *)
SleepEnds ==
    /\ a.pc = "sleep"
    /\ a' = [a EXCEPT !.pc = "board"]
    /\ Outside /\ UNCHANGED <<bound, board, cancel, rows, waited, fresh, ctx, h>>

(* Ledger.current_episode: the rows since the last WAIT, or else the last.  *)
Episode == IF Len(rows) > waited THEN waited + 1 .. Len(rows) ELSE 1 .. Len(rows)

(* _is_human_rejection: no engine pattern matches the reason.  The reason   *)
(* the engine writes for an operator's REJECT matches "not approved".       *)
IsHumanRejection(end) == end = "blocked"

NewRejections == {i \in Episode \ a.processed : rows[i].end \in Rejections}

(* _scan_episode_for_rejections goes backwards and stops at the first one   *)
(* it takes for a human's.                                                  *)
Taken == {i \in NewRejections : IsHumanRejection(rows[i].end)}
Newest(S) == CHOOSE i \in S : \A j \in S : j <= i
Scanned ==
    IF Taken = {} THEN NewRejections ELSE {i \in NewRejections : i >= Newest(Taken)}

(* _handle_job_phase_transition: an ended print is archived and the         *)
(* operator asked how it went; a print that begins gets its context.        *)
Archives == /\ a.job \in {"PRINTING", "PAUSED"} /\ phase \in {"FINISHED", "IDLE"} /\ ctx
JobContext ==
    CASE a.job = None /\ phase \in Active          -> TRUE
      [] a.job # None /\ a.job # phase /\ phase = "PREPARING" -> TRUE
      [] Archives -> FALSE
      [] OTHER -> ctx

(* Steps 1 to 3b. *)
ReadBoard ==
    /\ a.pc = "board"
    /\ a' = [a EXCEPT !.pc = "intent", !.seen = phase, !.job = phase,
                      !.processed = @ \cup Scanned]
    /\ ctx' = JobContext
    /\ board' = [board EXCEPT !.awaiting = @ \/ Archives,
                              !.cooldown = IF Taken = {} THEN @ ELSE rows[Newest(Taken)].tool]
    /\ rows' = IF Archives THEN Proposed(rows, "call_human", -1) ELSE rows
    /\ Outside /\ UNCHANGED <<bound, cancel, waited, fresh, h>>

(* Steps 3c to 4b: a text equal to the last answered one is not shown, and  *)
(* a rating for the print that awaits one counts as answered.               *)
IsRating(m) == board.awaiting /\ m.text \in Ratings

(* Mutant: reading a message answers it. *)
AnsweredAtOnce(m) == IF m # NoMessage THEN m ELSE a.last

(* _last_responded_intent after step 4b *)
Answered(m) == IF IsRating(m) THEN m ELSE a.last

ReadIntent ==
    /\ a.pc = "intent"
    /\ LET m == board.intent IN
        /\ a' = [a EXCEPT !.pc = IF a.seen = "IDLE" THEN "idle" ELSE "detect", !.raw = m,
                          !.shown = IF m.text = a.last.text THEN NoMessage ELSE m,
                          !.last = Answered(m)]
        /\ board' = [board EXCEPT !.awaiting = @ /\ ~IsRating(m)]
    /\ Outside /\ UNCHANGED <<bound, cancel, rows, waited, fresh, ctx, h>>
-----------------------------------------------------------------------------
(* Step 4c: the queue *)

(* on_idle_check: files are waiting and the bed is cool; or there are none, *)
(* or it is not.                                                            *)
IdleCheck ==
    /\ a.pc = "idle"
    /\ \/ board.queue # <<>> /\ Len(rows) < bound.rows /\ a' = [a EXCEPT !.pc = "pop", !.taken = board.queue]
       \/ a' = [a EXCEPT !.pc = "detect"]
    /\ Outside /\ UNCHANGED <<bound, board, cancel, rows, waited, fresh, ctx, h>>

(* Mutant: the list is published as it was read. *)
RemainingAll == a.taken

Remaining == Tail(a.taken)

(* The rest of the list that was read is published before the start is      *)
(* proposed.                                                                *)
PopQueue ==
    /\ a.pc = "pop"
    /\ board' = [board EXCEPT !.queue = Remaining]
    /\ a' = [a EXCEPT !.pc = "propose"]
    /\ h' = [h EXCEPT !.popped = Append(@, Head(a.taken)),
                      !.torn = @ \/ board.queue # a.taken]
    /\ Outside /\ UNCHANGED <<bound, cancel, rows, waited, fresh, ctx>>

ProposeStart ==
    /\ a.pc = "propose"
    /\ rows' = Proposed(rows, "start_print", Head(a.taken))
    /\ a' = Slept(a)
    /\ Outside /\ UNCHANGED <<bound, board, cancel, waited, fresh, ctx, h>>
-----------------------------------------------------------------------------
(* Steps 5 to 12: the model call *)

(* change_detector.py: printer.state turned PAUSED and no tool of the agent *)
(* was done in this episode or lately.                                      *)
AgentCaused == fresh # {} \/ \E i \in Episode : rows[i].tool \in Hardware /\ rows[i].end = "DONE"
ExternalPause ==
    a.prev = "other" /\ a.seen = "PAUSED" /\ ~AgentCaused

Sentinels == <<board.intent.text, board.callout, phase, board.vision>>

(* Steps 5 to 10. *)
DetectAndPrompt ==
    /\ a.pc = "detect"
    /\ board' = [board EXCEPT !.pause = @ \/ ExternalPause]
    /\ a' = [a EXCEPT !.pc = "clear", !.prev = IF a.seen = "PAUSED" THEN "PAUSED" ELSE "other", !.seen = None, !.pre = Sentinels]
    /\ Outside /\ UNCHANGED <<bound, cancel, rows, waited, fresh, ctx, h>>

(* Mutant: the event stays set. *)
ClearedNever == cancel

(* _cancel_llm.clear(), before the call and when it was cancelled *)
Cleared == FALSE

(* A wake up to here is forgotten: the message it announced is only noticed *)
(* if it came after the sentinels were read.                                *)
ClearCancel ==
    /\ a.pc = "clear"
    /\ cancel' = Cleared
    /\ a' = [a EXCEPT !.pc = "call"]
    /\ Outside /\ UNCHANGED <<bound, board, rows, waited, fresh, ctx, h>>

(* LLMClient.call after the first request: a cancelled call ends the cycle  *)
(* at once.                                                                 *)
CallCancelled ==
    /\ a.pc = "call" /\ cancel
    /\ cancel' = Cleared
    /\ a' = Slept(a)
    /\ Outside /\ UNCHANGED <<bound, board, rows, waited, fresh, ctx, h>>

(* An answer, which is the fallback WAIT when the network or the provider   *)
(* fails; an invalid one gets a second request, after which nobody looks at *)
(* the cancel event.                                                        *)
CallAnswered ==
    /\ a.pc = "call" /\ ~cancel
    /\ \/ \E d \in bound.answers : Fits(d) /\ a' = [a EXCEPT !.pc = "post", !.decision = d]
       \/ a' = [a EXCEPT !.pc = "again"]
    /\ Outside /\ UNCHANGED <<bound, board, cancel, rows, waited, fresh, ctx, h>>

CallCorrected ==
    /\ a.pc = "again"
    /\ \E d \in bound.answers : Fits(d) /\ a' = [a EXCEPT !.pc = "post", !.decision = d]
    /\ Outside /\ UNCHANGED <<bound, board, cancel, rows, waited, fresh, ctx, h>>

(* Mutant: the counter goes on after a decision was taken. *)
RetriesKept(stale, discard) == IF discard THEN a.retries + 1 ELSE a.retries

(* _stale_retries *)
Retries(stale, discard) == IF discard THEN a.retries + 1 ELSE 0

(* Step 12: the sentinels are read again. *)
StaleCheck ==
    /\ a.pc = "post"
    /\ LET stale == Sentinels # a.pre
           discard == stale /\ a.retries < MaxStale IN
        /\ a' = LET next == [a EXCEPT !.retries = Retries(stale, discard)] IN
                 IF discard THEN Slept(next) ELSE [next EXCEPT !.pc = "route", !.stale = stale]
        /\ h' = [h EXCEPT !.discards = IF discard THEN @ + 1 ELSE @]
    /\ Outside /\ UNCHANGED <<bound, board, cancel, rows, waited, fresh, ctx>>

(* parse_llm_output raises on a WAIT whose check_after_s is null; run()     *)
(* logs it and sleeps.                                                      *)
CycleRaises ==
    /\ a.pc = "route" /\ a.decision = Wait /\ events < bound.events
    /\ events' = events + 1
    /\ a' = Slept(a)
    /\ h' = [h EXCEPT !.discards = 0]
    /\ UNCHANGED <<bound, phase, q, board, cancel, rows, waited, fresh, ctx>>
-----------------------------------------------------------------------------
(* Steps 13 to 19: guards, routing, consumption *)

ToolsIn(d) == {d.tools[i] : i \in DOMAIN d.tools}

(* _check_cooldown *)
Cooled(d) == board.cooldown \in ToolsIn(d)

(* The key of a decision in _recent_decisions *)
KeyOf(d) == IF d.tools = <<>> THEN <<"WAIT">> ELSE <<d.kind, d.tools[1]>>

(* Mutant: a repetition counts, a flip-flop does not. *)
RepeatsItself(d) ==
    d.tools # <<>> /\ Len(a.recent) = 2 /\ a.recent[2] = KeyOf(d) /\ a.recent[1] = KeyOf(d)

(* _check_oscillation: X, Y, X with Y an action too *)
FlipFlops(d) ==
    /\ d.tools # <<>> /\ Len(a.recent) = 2
    /\ a.recent[1] = KeyOf(d)
    /\ a.recent[2] \notin {KeyOf(d), <<"WAIT">>}

(* Mutant: a queue without maxlen. *)
LastAll(s) == s

(* _recent_decisions: a deque of two *)
LastTwo(s) == IF Len(s) > 2 THEN Tail(s) ELSE s

(* The decision after both guards *)
Guarded == IF Cooled(a.decision) \/ FlipFlops(a.decision) THEN Wait ELSE a.decision

Recent == IF ~Cooled(a.decision) /\ FlipFlops(a.decision) THEN <<>>
          ELSE LastTwo(Append(a.recent, KeyOf(IF Cooled(a.decision) THEN Wait ELSE a.decision)))

(* Steps 13 to 16, _route_decision: actions are proposed; a WAIT is         *)
(* recorded and ends the episode; a callout whose text is already pending   *)
(* is treated as a WAIT, another one is published in its place and lifts    *)
(* the block on resuming.                                                   *)
Route ==
    /\ a.pc = "route"
    /\ LET d == Guarded
           calls == d.kind = "CALL_HUMAN" /\ board.callout # d.text IN
        /\ rows' = IF d.kind = "CALL_HUMAN" /\ ~calls THEN rows ELSE RowsAfter(d)
        /\ waited' = IF d.tools = <<>> /\ ~calls THEN Len(rows) ELSE waited
        /\ board' = [board EXCEPT !.callout = IF calls THEN d.text ELSE @, !.pause = @ /\ ~calls]
        /\ h' = [h EXCEPT !.keys = LastTwo(Append(@, KeyOf(d))),
                          !.shown = a.shown.post]
    /\ a' = [a EXCEPT !.pc = "consume", !.recent = Recent, !.decision = Wait, !.stale = FALSE,
                      !.pre = <<>>, !.seen = None, !.shown = NoMessage]
    /\ Outside /\ UNCHANGED <<bound, cancel, fresh, ctx>>

(* Step 18: the message read at the beginning counts as answered and        *)
(* whatever is on the board now is deleted, with the block on resuming.     *)
Consumes == a.raw # NoMessage /\ a.raw.text # a.last.text

Consume ==
    /\ a.pc = "consume"
    /\ IF Consumes
       THEN /\ board' = [board EXCEPT !.intent = NoMessage, !.pause = FALSE]
            /\ a' = Slept([a EXCEPT !.last = a.raw])
       ELSE a' = Slept(a) /\ UNCHANGED board
    /\ h' = [h EXCEPT !.discards = 0, !.shown = 0]
    /\ Outside /\ UNCHANGED <<bound, cancel, rows, waited, fresh, ctx>>
-----------------------------------------------------------------------------
AgentStep ==
    \/ SleepEnds \/ ReadBoard \/ ReadIntent \/ IdleCheck \/ PopQueue \/ ProposeStart
    \/ DetectAndPrompt \/ ClearCancel \/ CallCancelled \/ CallAnswered \/ CallCorrected
    \/ StaleCheck \/ Route \/ Consume

World ==
    \/ \E text \in bound.texts : Say(text)
    \/ QueueRead \/ QueueWrite \/ PrinterChanges \/ VisionChanges \/ Expires \/ Restart \/ CycleRaises
    \/ \E i \in DOMAIN rows : HumanRejects(i) \/ EngineRuns(i)

AgentNext == AgentStep \/ World

AgentSpec == AgentInit /\ [][AgentNext]_agentVars
-----------------------------------------------------------------------------
(* Properties *)

Messages == [text : Texts \cup {None}, post : 0 .. MaxEvents]
Rows == [tool : Tools, file : Nat \cup {-1}, end : Ends \cup {"ACTIVE"}]

(* The agent, the board and the ledger are well typed.  (The bound on rows  *)
(* is exceeded by an answer, of two tools at most, that repeats rows which  *)
(* end before it is routed, and by the question after a print: an event     *)
(* ended the print.)                                                        *)
AgentTypeOK ==
    /\ phase \in Phases
    /\ board.intent \in Messages /\ board.cooldown \in Tools \cup {None}
    /\ {cancel, ctx, board.pause, board.awaiting} \subseteq BOOLEAN
    /\ board.callout \in {NoCallout} \cup Callouts
    /\ rows \in Seq(Rows) /\ waited \in 0 .. Len(rows) /\ fresh \subseteq DOMAIN rows
    /\ Len(rows) <= bound.rows + 2 + events
    /\ a.retries \in 0 .. MaxStale /\ a.last \in Messages /\ a.raw \in Messages
    /\ Len(a.recent) <= 2 /\ a.processed \subseteq DOMAIN rows

(* An answer is acted on although the message, the callout, the printer or  *)
(* the vision changed during the call only after MaxStale such answers were *)
(* thrown away since the last one that was acted on (loop.py step 12).      *)
StaleActsAreRare == a.pc = "route" /\ a.stale => h.discards >= MaxStale

(* No three decisions in a row take one action, another, and the first      *)
(* again (loop.py _check_oscillation).                                      *)
NoFlipFlop ==
    [][h'.keys # h.keys /\ Len(h.keys) = 2 /\ Len(h'.keys) = 2
         => LET x == h.keys[1]  y == h.keys[2]  z == h'.keys[2] IN
            x = z /\ x # y => <<"WAIT">> \in {x, y}]_agentVars

(* A message counts as answered only when a decision that was made with it  *)
(* in the prompt was taken, or when it was recorded as a rating: not when   *)
(* the cycle that read it was cancelled, discarded or raised.               *)
AnsweredWasShown ==
    [][a'.last # a.last /\ a'.last # NoMessage
         => a'.last.post = h.shown \/ (board.awaiting /\ ~board'.awaiting)]_agentVars

(* A decision fits what was decided and shown before it (loop.py:469, 837): *)
(* it does not flip-flop, and it answers only a message it was made with.   *)
DecisionsFit == NoFlipFlop /\ AnsweredWasShown

(* Unless /queue and the agent write a list that has changed since they     *)
(* read it, or the agent dies between taking a file and proposing it, every *)
(* file is on the list, was taken from it, or was on it when it expired,    *)
(* one of the three and once.                                               *)
QueueConserved ==
    h.torn \/ LET listed  == {board.queue[i] : i \in DOMAIN board.queue}
                  popped  == {h.popped[i] : i \in DOMAIN h.popped}
                  expired == {h.expired[i] : i \in DOMAIN h.expired} IN
              /\ listed \cup popped \cup expired = 1 .. h.files
              /\ Len(board.queue) + Len(h.popped) + Len(h.expired) = h.files

(* A message on the board is eventually answered or gone, unless it repeats *)
(* the text that was answered last: neither cancelled calls nor discarded   *)
(* answers keep the agent from it for ever.                                 *)
MessageIsAnswered ==
    board.intent # NoMessage ~> board.intent = NoMessage \/ board.intent.text = a.last.text

=============================================================================
