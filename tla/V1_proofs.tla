---- MODULE V1_proofs ----
(***************************************************************************)
(* Proofs about the first-generation agent and safety process: for any     *)
(* texts, scenarios, monitors and number of events, the agent acts on      *)
(* stale answers only after it has thrown MaxStale away, answers what it   *)
(* was shown, does not flip-flop and loses no queued file unless the whole *)
(* list expires, and the kernel requests one stop per activation of a flag.*)
(***************************************************************************)
EXTENDS MCV1, FiniteSetTheorems, SequenceTheorems, TLAPS

-----------------------------------------------------------------------------
(* The records have the fields they began with.                             *)
AgentFields == {"pc", "seen", "raw", "shown", "pre", "decision", "stale", "taken",
                "retries", "last", "recent", "processed", "job", "prev"}
BoardFields == {"intent", "callout", "pause", "cooldown", "queue", "awaiting", "vision"}
HistoryFields == {"posts", "shown", "keys", "discards", "files", "popped", "expired",
                  "torn"}
Fields == DOMAIN a = AgentFields /\ DOMAIN board = BoardFields /\ DOMAIN h = HistoryFields

(* Between the read of the message and the routing of the decision.        *)
AfterIntent == {"idle", "pop", "propose", "detect", "clear", "call", "again", "post", "route"}

(* A cycle that returns forgets its locals.                                 *)
LEMMA SleptFields ==
    ASSUME NEW m, DOMAIN m = AgentFields
    PROVE  /\ DOMAIN Slept(m) = AgentFields
           /\ Slept(m).pc = "sleep" /\ Slept(m).raw = NoMessage /\ Slept(m).shown = NoMessage
           /\ Slept(m).retries = m.retries /\ Slept(m).last = m.last /\ Slept(m).recent = m.recent
BY DEF Slept, AgentFields

LEMMA NewFields ==
    /\ DOMAIN NewAgent = AgentFields /\ NewAgent.pc = "board"
    /\ NewAgent.retries = 0 /\ NewAgent.last = NoMessage /\ NewAgent.recent = <<>>
BY DEF NewAgent, AgentFields

LEMMA FieldsInit == AgentInit => Fields
BY NewFields DEF AgentInit, Fields, BoardFields, HistoryFields

LEMMA FieldsStep == Fields /\ [AgentNext]_agentVars => Fields'
<1> SUFFICES ASSUME Fields, [AgentNext]_agentVars PROVE Fields'
  OBVIOUS
<1>1. DOMAIN a' = AgentFields
  <2>1. CASE SleepEnds \/ ReadBoard \/ ReadIntent \/ IdleCheck \/ PopQueue \/ DetectAndPrompt \/ ClearCancel
             \/ CallAnswered \/ CallCorrected \/ Route
    BY <2>1 DEF SleepEnds, ReadBoard, ReadIntent, IdleCheck, PopQueue, DetectAndPrompt, ClearCancel, CallAnswered,
       CallCorrected, Route, Fields
  <2>2. CASE ProposeStart \/ CallCancelled \/ CycleRaises
    BY <2>2, SleptFields DEF ProposeStart, CallCancelled, CycleRaises, Fields
  <2>3. CASE StaleCheck
    <3>1. PICK r : a' = Slept([a EXCEPT !.retries = r]) \/
                   \E s : a' = [[a EXCEPT !.retries = r] EXCEPT !.pc = "route", !.stale = s]
      BY <2>3 DEF StaleCheck
    <3>2. DOMAIN [a EXCEPT !.retries = r] = AgentFields
      BY DEF Fields
    <3> QED BY <3>1, <3>2, SleptFields
  <2>4. CASE Consume
    <3>1. DOMAIN [a EXCEPT !.last = a.raw] = AgentFields
      BY DEF Fields
    <3> QED BY <2>4, <3>1, SleptFields DEF Consume, Fields
  <2>5. CASE Restart
    BY <2>5, NewFields DEF Restart
  <2>6. CASE UNCHANGED a
    BY <2>6 DEF Fields
  <2> QED BY <2>1, <2>2, <2>3, <2>4, <2>5, <2>6
       DEF AgentNext, AgentStep, World, Say, QueueRead, QueueWrite, PrinterChanges, VisionChanges,
           Expires, HumanRejects,
           EngineRuns, agentVars
<1>2. DOMAIN board' = BoardFields
  BY DEF AgentNext, AgentStep, World, Say, QueueRead, QueueWrite, PrinterChanges, VisionChanges,
     Expires, HumanRejects, EngineRuns,
     agentVars, SleepEnds, ReadBoard, ReadIntent, IdleCheck, PopQueue, DetectAndPrompt, ClearCancel, CallAnswered,
     CallCorrected, Route, ProposeStart, CallCancelled, CycleRaises, StaleCheck, Consume, Restart, Fields
<1>3. DOMAIN h' = HistoryFields
  BY DEF AgentNext, AgentStep, World, Say, QueueRead, QueueWrite, PrinterChanges, VisionChanges,
     Expires, HumanRejects, EngineRuns,
     agentVars, SleepEnds, ReadBoard, ReadIntent, IdleCheck, PopQueue, DetectAndPrompt, ClearCancel, CallAnswered,
     CallCorrected, Route, ProposeStart, CallCancelled, CycleRaises, StaleCheck, Consume, Restart, Fields
<1> QED BY <1>1, <1>2, <1>3 DEF Fields

(* The threads beside the agent, and stuttering, leave its memory and what  *)
(* is recorded of its decisions.                                            *)
LEMMA Bystanders ==
    ASSUME Fields, [AgentNext]_agentVars, ~AgentStep, ~Restart, ~CycleRaises
    PROVE  a' = a /\ h'.discards = h.discards /\ h'.shown = h.shown /\ h'.keys = h.keys
BY DEF AgentNext, World, Say, QueueRead, QueueWrite, PrinterChanges, VisionChanges,
   Expires, HumanRejects, EngineRuns,
   agentVars, Fields, HistoryFields

(* The steps of a cycle that end nothing.                                   *)
OnwardStep ==
    \/ SleepEnds \/ ReadBoard \/ IdleCheck \/ PopQueue \/ DetectAndPrompt \/ ClearCancel
    \/ CallAnswered \/ CallCorrected
LEMMA Onward ==
    ASSUME Fields, OnwardStep
    PROVE  /\ a'.retries = a.retries /\ a'.raw = a.raw /\ a'.shown = a.shown /\ a'.last = a.last
           /\ a'.recent = a.recent
           /\ a'.pc \in AfterIntent \ {"route"} => a.pc \in AfterIntent
           /\ a'.pc \notin {"route", "consume"}
           /\ h'.discards = h.discards /\ h'.shown = h.shown /\ h'.keys = h.keys
<1> USE DEF Fields, AgentFields, HistoryFields, AfterIntent
<1>1. CASE SleepEnds
  BY <1>1 DEF SleepEnds
<1>2. CASE ReadBoard
  BY <1>2 DEF ReadBoard
<1>3. CASE IdleCheck
  BY <1>3 DEF IdleCheck
<1>4. CASE PopQueue
  BY <1>4 DEF PopQueue
<1>5. CASE DetectAndPrompt
  BY <1>5 DEF DetectAndPrompt
<1>6. CASE ClearCancel
  BY <1>6 DEF ClearCancel
<1>7. CASE CallAnswered
  BY <1>7 DEF CallAnswered
<1>8. CASE CallCorrected
  BY <1>8 DEF CallCorrected
<1> QED BY <1>1, <1>2, <1>3, <1>4, <1>5, <1>6, <1>7, <1>8 DEF OnwardStep

-----------------------------------------------------------------------------
(* Stale answers *)

(* The answers thrown away in a row are counted from the decision before.   *)
StaleInv ==
    /\ a.retries \in Nat /\ h.discards \in Nat /\ a.retries <= h.discards
    /\ a.pc \in {"route", "consume"} => a.retries = 0
    /\ StaleActsAreRare

LEMMA StaleStep == Fields /\ StaleInv /\ [AgentNext]_agentVars => StaleInv'
<1> SUFFICES ASSUME Fields, StaleInv, [AgentNext]_agentVars PROVE StaleInv'
  OBVIOUS
<1>1. CASE OnwardStep
  BY <1>1, Onward DEF StaleInv, StaleActsAreRare
<1>2. CASE ReadIntent
  <2>1. a'.pc \in {"idle", "detect"} /\ a'.retries = a.retries /\ h' = h
    BY <1>2 DEF ReadIntent, Fields, AgentFields
  <2> QED BY <2>1 DEF StaleInv, StaleActsAreRare
<1>3. CASE ProposeStart \/ CallCancelled
  <2>1. a'.pc = "sleep" /\ a'.retries = a.retries /\ h' = h
    BY <1>3, SleptFields DEF ProposeStart, CallCancelled, Fields
  <2> QED BY <2>1 DEF StaleInv, StaleActsAreRare
<1>4. CASE StaleCheck
  <2> DEFINE stale0 == Sentinels # a.pre
             discard == stale0 /\ a.retries < MaxStale
             m == [a EXCEPT !.retries = Retries(stale0, discard)]
  <2>1. DOMAIN m = AgentFields /\ m.retries = IF discard THEN a.retries + 1 ELSE 0
    BY DEF Fields, AgentFields, Retries
  <2>2. a' = IF discard THEN Slept(m) ELSE [m EXCEPT !.pc = "route", !.stale = stale0]
    BY <1>4 DEF StaleCheck
  <2>3. h'.discards = IF discard THEN h.discards + 1 ELSE h.discards
    BY <1>4 DEF StaleCheck, Fields, HistoryFields
  <2>4. CASE discard
    <3>1. a'.pc = "sleep" /\ a'.retries = a.retries + 1
      BY <2>1, <2>2, <2>4, SleptFields
    <3> QED BY <2>3, <2>4, <3>1 DEF StaleInv, StaleActsAreRare
  <2>5. CASE ~discard
    <3>1. a'.retries = 0 /\ (a'.stale => stale0)
      BY <2>1, <2>2, <2>5 DEF AgentFields
    <3>2. stale0 => h.discards >= MaxStale
      BY <2>5, AgentConstants DEF StaleInv
    <3> HIDE DEF stale0
    <3> QED BY <2>3, <2>5, <3>1, <3>2 DEF StaleInv, StaleActsAreRare
  <2> QED BY <2>4, <2>5
<1>5. CASE Route
  <2>1. a'.pc = "consume" /\ a'.retries = a.retries /\ a.pc = "route" /\ h'.discards = h.discards
    BY <1>5 DEF Route, Fields, AgentFields, HistoryFields
  <2> QED BY <2>1 DEF StaleInv, StaleActsAreRare
<1>6. CASE Consume \/ CycleRaises
  <2>1. DOMAIN [a EXCEPT !.last = a.raw] = AgentFields /\ [a EXCEPT !.last = a.raw].retries = a.retries
    BY DEF Fields, AgentFields
  <2>2. a'.pc = "sleep" /\ a'.retries = a.retries /\ a.pc \in {"route", "consume"}
    BY <1>6, <2>1, SleptFields DEF Consume, CycleRaises, Fields
  <2>3. h'.discards = 0
    BY <1>6 DEF Consume, CycleRaises, Fields, HistoryFields
  <2> QED BY <2>2, <2>3 DEF StaleInv, StaleActsAreRare
<1>7. CASE Restart
  <2>1. a'.pc = "board" /\ a'.retries = 0 /\ h'.discards = 0
    BY <1>7, NewFields DEF Restart, Fields, HistoryFields
  <2> QED BY <2>1 DEF StaleInv, StaleActsAreRare
<1>8. CASE ~AgentStep /\ ~Restart /\ ~CycleRaises
  BY <1>8, Bystanders DEF StaleInv, StaleActsAreRare
<1> QED BY <1>1, <1>2, <1>3, <1>4, <1>5, <1>6, <1>7, <1>8 DEF AgentStep, OnwardStep

(* loop.py step 12: an answer made for another message, callout or printer  *)
(* state is acted on only after MaxStale such answers in a row, whatever    *)
(* cancels, raises or restarts in between.                                  *)
THEOREM StaleAnswersAreRare == AgentSpec => []StaleActsAreRare
<1>1. AgentInit => StaleInv
  BY NewFields DEF AgentInit, StaleInv, StaleActsAreRare
<1>2. StaleInv => StaleActsAreRare
  BY DEF StaleInv
<1> QED BY <1>1, <1>2, FieldsInit, FieldsStep, StaleStep, PTL DEF AgentSpec

-----------------------------------------------------------------------------
(* Messages *)

(* A message that is still to be answered when a decision is taken was in   *)
(* the prompt.                                                              *)
ShownInv ==
    /\ a.pc \in AfterIntent => a.raw.text = a.last.text \/ a.shown = a.raw
    /\ a.pc = "consume" => a.raw.text = a.last.text \/ a.raw.post = h.shown

LEMMA ShownStep == Fields /\ ShownInv /\ [AgentNext]_agentVars => ShownInv'
<1> SUFFICES ASSUME Fields, ShownInv, [AgentNext]_agentVars PROVE ShownInv'
  OBVIOUS
<1>1. CASE OnwardStep
  BY <1>1, Onward DEF ShownInv, AfterIntent
<1>2. CASE ReadIntent
  <2>1. PICK m : m = board.intent
    OBVIOUS
  <2>2. /\ a'.raw = m /\ a'.last = (IF IsRating(m) THEN m ELSE a.last)
        /\ a'.shown = (IF m.text = a.last.text THEN NoMessage ELSE m) /\ a'.pc # "consume"
    BY <1>2, <2>1 DEF ReadIntent, Answered, Fields, AgentFields
  <2> QED BY <2>2 DEF ShownInv
<1>3. CASE ProposeStart \/ CallCancelled \/ CycleRaises \/ Consume \/ Restart
  <2>1. DOMAIN [a EXCEPT !.last = a.raw] = AgentFields
    BY DEF Fields
  <2>2. a'.pc \in {"sleep", "board"}
    BY <1>3, <2>1, SleptFields, NewFields DEF ProposeStart, CallCancelled, CycleRaises, Consume, Restart, Fields
  <2> QED BY <2>2 DEF ShownInv, AfterIntent
<1>4. CASE StaleCheck
  <2>1. PICK r : a' = Slept([a EXCEPT !.retries = r]) \/
                 \E s : a' = [[a EXCEPT !.retries = r] EXCEPT !.pc = "route", !.stale = s]
    BY <1>4 DEF StaleCheck
  <2>2. DOMAIN [a EXCEPT !.retries = r] = AgentFields
    BY DEF Fields
  <2>3. a'.pc = "sleep" \/ (a'.pc = "route" /\ a'.raw = a.raw /\ a'.shown = a.shown /\ a'.last = a.last)
    <3>1. CASE a' = Slept([a EXCEPT !.retries = r])
      BY <2>2, <3>1, SleptFields
    <3>2. CASE \E s : a' = [[a EXCEPT !.retries = r] EXCEPT !.pc = "route", !.stale = s]
      BY <2>2, <3>2 DEF AgentFields
    <3> QED BY <2>1, <3>1, <3>2
  <2> QED BY <1>4, <2>3 DEF ShownInv, AfterIntent, StaleCheck
<1>5. CASE Route
  <2>1. a.pc = "route" /\ a'.pc = "consume" /\ a'.raw = a.raw /\ a'.last = a.last /\ h'.shown = a.shown.post
    BY <1>5 DEF Route, Fields, AgentFields, HistoryFields
  <2> QED BY <2>1 DEF ShownInv, AfterIntent
<1>6. CASE ~AgentStep /\ ~Restart /\ ~CycleRaises
  BY <1>6, Bystanders DEF ShownInv
<1> QED BY <1>1, <1>2, <1>3, <1>4, <1>5, <1>6 DEF AgentStep, OnwardStep

LEMMA Answers ==
    ASSUME Fields, ShownInv, [AgentNext]_agentVars, a'.last # a.last, a'.last # NoMessage
    PROVE  a'.last.post = h.shown \/ (board.awaiting /\ ~board'.awaiting)
<1>1. CASE OnwardStep
  BY <1>1, Onward
<1>2. CASE ReadIntent
  <2>1. a'.last = Answered(board.intent)
    BY <1>2 DEF ReadIntent, Fields, AgentFields
  <2>2. IsRating(board.intent)
    BY <2>1 DEF Answered
  <2>3. board'.awaiting = (board.awaiting /\ ~IsRating(board.intent))
    BY <1>2 DEF ReadIntent, Fields, BoardFields
  <2> QED BY <2>2, <2>3 DEF IsRating
<1>3. CASE ProposeStart \/ CallCancelled \/ CycleRaises \/ Restart
  BY <1>3, SleptFields, NewFields DEF ProposeStart, CallCancelled, CycleRaises, Restart, Fields
<1>4. CASE StaleCheck
  <2>1. PICK r : a' = Slept([a EXCEPT !.retries = r]) \/
                 \E s : a' = [[a EXCEPT !.retries = r] EXCEPT !.pc = "route", !.stale = s]
    BY <1>4 DEF StaleCheck
  <2>2. DOMAIN [a EXCEPT !.retries = r] = AgentFields /\ [a EXCEPT !.retries = r].last = a.last
    BY DEF Fields, AgentFields
  <2>3. a'.last = a.last
    BY <2>1, <2>2, SleptFields DEF AgentFields
  <2> QED BY <2>3
<1>5. CASE Route
  BY <1>5 DEF Route, Fields, AgentFields
<1>6. CASE Consume
  <2>1. DOMAIN [a EXCEPT !.last = a.raw] = AgentFields /\ [a EXCEPT !.last = a.raw].last = a.raw
    BY DEF Fields, AgentFields
  <2>2. a.pc = "consume" /\ Consumes /\ a'.last = a.raw
    BY <1>6, <2>1, SleptFields DEF Consume, Fields
  <2> QED BY <2>2 DEF ShownInv, Consumes
<1>7. CASE ~AgentStep /\ ~Restart /\ ~CycleRaises
  BY <1>7, Bystanders
<1> QED BY <1>1, <1>2, <1>3, <1>4, <1>5, <1>6, <1>7 DEF AgentStep, OnwardStep

-----------------------------------------------------------------------------
(* Decisions *)

(* What the agent remembers of its decisions are the last ones, back to the *)
(* WAIT that replaced a flip-flop.                                          *)
KeysInv ==
    /\ \/ h.keys = <<>> \/ h.keys = <<h.keys[1]>> \/ h.keys = <<h.keys[1], h.keys[2]>>
    /\ \/ a.recent = h.keys
       \/ a.recent = <<>> /\ h.keys # <<>> /\ h.keys[Len(h.keys)] = <<"WAIT">>
       \/ a.recent = <<a.recent[1]>> /\ h.keys = <<<<"WAIT">>, a.recent[1]>>

(* The deque of two, on the sequences it holds.                             *)
LEMMA AppendOne ==
    ASSUME NEW x, NEW g
    PROVE  Append(<<x>>, g) = <<x, g>>
<1> DEFINE S == {x, g}
           u == Append(<<x>>, g)
           v == <<x, g>>
<1>1. u \in Seq(S) /\ v \in Seq(S) /\ Len(u) = 2 /\ Len(v) = 2 /\ u[1] = v[1] /\ u[2] = v[2]
  OBVIOUS
<1> HIDE DEF u, v, S
<1>2. \A i \in 1 .. 2 : u[i] = v[i]
  BY <1>1
<1>3. u = v
  BY <1>1, <1>2, SeqEqual
<1> QED BY <1>3 DEF u, v

LEMMA AppendTwo ==
    ASSUME NEW x, NEW y, NEW g
    PROVE  Append(<<x, y>>, g) = <<x, y, g>>
<1> DEFINE S == {x, y, g}
           u == Append(<<x, y>>, g)
           v == <<x, y, g>>
<1>1. /\ u \in Seq(S) /\ v \in Seq(S) /\ Len(u) = 3 /\ Len(v) = 3
      /\ u[1] = v[1] /\ u[2] = v[2] /\ u[3] = v[3]
  OBVIOUS
<1> HIDE DEF u, v, S
<1>2. \A i \in 1 .. 3 : u[i] = v[i]
  BY <1>1
<1>3. u = v
  BY <1>1, <1>2, SeqEqual
<1> QED BY <1>3 DEF u, v

LEMMA LastOfNone == \A g : LastTwo(Append(<<>>, g)) = <<g>>
<1> TAKE g
<1>1. Append(<<>>, g) = <<g>> /\ Len(<<g>>) = 1
  OBVIOUS
<1> QED BY <1>1 DEF LastTwo

LEMMA LastOfOne == \A x, g : LastTwo(Append(<<x>>, g)) = <<x, g>>
<1> TAKE x, g
<1>1. Len(<<x, g>>) = 2
  OBVIOUS
<1> QED BY <1>1, AppendOne DEF LastTwo

LEMMA LastOfTwo ==
    ASSUME NEW x, NEW y, NEW g
    PROVE  LastTwo(Append(<<x, y>>, g)) = <<y, g>>
<1> DEFINE s == Append(<<x, y>>, g)
<1>1. s = <<x, y, g>>
  BY AppendTwo
<1>2. Len(<<x, y, g>>) = 3 /\ Tail(<<x, y, g>>) = <<y, g>>
  OBVIOUS
<1> HIDE DEF s
<1>3. Len(s) > 2 /\ Tail(s) = <<y, g>>
  BY <1>1, <1>2
<1> QED BY <1>3 DEF LastTwo, s

(* The guard sees a flip-flop of the decisions taken, although it forgets.  *)
LEMMA KeysRoute ==
    ASSUME Fields, KeysInv, Route
    PROVE  /\ KeysInv'
           /\ Len(h.keys) = 2 /\ h.keys[1] = h'.keys[2] /\ h.keys[1] # h.keys[2] =>
                  <<"WAIT">> \in {h.keys[1], h.keys[2]}
<1>1. PICK d, g, w : d = a.decision /\ g = KeyOf(Guarded) /\ w = <<"WAIT">>
  OBVIOUS
<1>2. h'.keys = LastTwo(Append(h.keys, g)) /\ a'.recent = Recent
  BY <1>1 DEF Route, Fields, HistoryFields, AgentFields
<1>3. KeyOf(Wait) = w
  BY <1>1 DEF KeyOf, Wait
<1>4. PICK x, y : /\ h.keys \in {<<>>, <<x>>, <<x, y>>}
                  /\ a.recent = h.keys \/ a.recent \in {<<>>, <<y>>}
                  /\ a.recent # h.keys /\ a.recent = <<>> => h.keys \in {<<w>>, <<x, w>>}
                  /\ a.recent # h.keys /\ a.recent # <<>> => a.recent = <<y>> /\ h.keys = <<w, y>>
  <2>1. CASE h.keys = <<>>
    BY <1>1, <2>1 DEF KeysInv
  <2>2. CASE h.keys = <<h.keys[1]>>
    <3>1. Len(h.keys) = 1
      BY <2>2
    <3> QED BY <1>1, <2>2, <3>1 DEF KeysInv
  <2>3. CASE h.keys = <<h.keys[1], h.keys[2]>>
    <3>1. Len(h.keys) = 2
      BY <2>3
    <3> QED BY <1>1, <2>3, <3>1, SMTT(30) DEF KeysInv
  <2> QED BY <2>1, <2>2, <2>3 DEF KeysInv
<1>5. h'.keys \in {<<g>>, <<x, g>>, <<y, g>>} /\ (h.keys = <<x, y>> => h'.keys = <<y, g>>)
  <2>1. CASE h.keys = <<>>
    BY <1>2, <2>1, LastOfNone
  <2>2. h.keys = <<x>> => h'.keys = <<x, g>>
    BY <1>2, LastOfOne, Zenon
  <2>3. h.keys = <<x, y>> => h'.keys = <<y, g>>
    <3>1. LastTwo(Append(<<x, y>>, g)) = <<y, g>>
      BY LastOfTwo
    <3> QED BY <1>2, <3>1, Zenon
  <2> QED BY <1>4, <2>1, <2>2, <2>3
<1>6. CASE ~Cooled(d) /\ FlipFlops(d)
  <2>1. g = w /\ a'.recent = <<>>
    BY <1>1, <1>2, <1>3, <1>6 DEF Guarded, Recent
  <2>2. KeysInv'
    BY <1>1, <1>5, <2>1 DEF KeysInv
  <2> QED BY <1>1, <1>4, <1>5, <2>1, <2>2
<1>7. CASE ~(~Cooled(d) /\ FlipFlops(d))
  <2>1. a'.recent = LastTwo(Append(a.recent, g))
    BY <1>1, <1>2, <1>7 DEF Guarded, Recent
  <2>2. KeysInv'
    <3>1. CASE a.recent = h.keys
      BY <1>2, <1>5, <2>1, <3>1 DEF KeysInv
    <3>2. CASE a.recent # h.keys /\ a.recent = <<>>
      <4>1. a'.recent = <<g>> /\ h'.keys = <<w, g>>
        <5>1. a'.recent = <<g>>
          BY <2>1, <3>2, LastOfNone, Zenon
        <5>2. h.keys = <<w>> \/ h.keys = <<x, w>>
          BY <1>4, <3>2
        <5>3. LastTwo(Append(<<w>>, g)) = <<w, g>>
          BY LastOfOne, Zenon
        <5>4. LastTwo(Append(<<x, w>>, g)) = <<w, g>>
          BY LastOfTwo
        <5> QED BY <1>2, <5>1, <5>2, <5>3, <5>4, Zenon
      <4> QED BY <1>1, <4>1 DEF KeysInv
    <3>3. CASE a.recent # h.keys /\ a.recent # <<>>
      <4>1. a'.recent = <<y, g>> /\ h'.keys = <<y, g>>
        <5>1. a.recent = <<y>> /\ h.keys = <<w, y>>
          BY <1>4, <3>3
        <5>2. LastTwo(Append(<<y>>, g)) = <<y, g>>
          BY LastOfOne, Zenon
        <5>3. LastTwo(Append(<<w, y>>, g)) = <<y, g>>
          BY LastOfTwo
        <5> QED BY <1>2, <2>1, <5>1, <5>2, <5>3, Zenon
      <4> QED BY <4>1 DEF KeysInv
    <3> QED BY <3>1, <3>2, <3>3
  <2>3. ASSUME h.keys = <<x, y>>, x = g, x # y, w \notin {x, y} PROVE FALSE
    <3>1. a.recent = <<x, y>>
      BY <1>4, <2>3
    <3>2. g = KeyOf(d) /\ d.tools # <<>>
      BY <1>1, <1>3, <2>3 DEF Guarded, KeyOf
    <3>3. FlipFlops(d)
      BY <1>1, <2>3, <3>1, <3>2 DEF FlipFlops
    <3> QED BY <1>1, <1>3, <1>7, <2>3, <3>3 DEF Guarded
  <2>4. Len(h.keys) = 2 => h.keys = <<x, y>>
    BY <1>4
  <2> QED BY <1>1, <1>5, <2>2, <2>3, <2>4
<1> QED BY <1>6, <1>7

(* Only a decision that is routed, or a restart, changes either of them.     *)
LEMMA KeysKept ==
    ASSUME Fields, [AgentNext]_agentVars, ~Route, ~Restart
    PROVE  a'.recent = a.recent /\ h'.keys = h.keys
<1>1. CASE OnwardStep
  BY <1>1, Onward
<1>2. CASE ReadIntent
  BY <1>2 DEF ReadIntent, Fields, AgentFields
<1>3. CASE ProposeStart \/ CallCancelled \/ CycleRaises
  BY <1>3, SleptFields DEF ProposeStart, CallCancelled, CycleRaises, Fields, HistoryFields
<1>4. CASE StaleCheck
  <2>1. PICK r : a' = Slept([a EXCEPT !.retries = r]) \/
                 \E s : a' = [[a EXCEPT !.retries = r] EXCEPT !.pc = "route", !.stale = s]
    BY <1>4 DEF StaleCheck
  <2>2. DOMAIN [a EXCEPT !.retries = r] = AgentFields /\ [a EXCEPT !.retries = r].recent = a.recent
    BY DEF Fields, AgentFields
  <2>3. a'.recent = a.recent
    BY <2>1, <2>2, SleptFields DEF AgentFields
  <2> QED BY <1>4, <2>3 DEF StaleCheck, Fields, HistoryFields
<1>5. CASE Consume
  <2>1. DOMAIN [a EXCEPT !.last = a.raw] = AgentFields /\ [a EXCEPT !.last = a.raw].recent = a.recent
    BY DEF Fields, AgentFields
  <2> QED BY <1>5, <2>1, SleptFields DEF Consume, Fields, HistoryFields
<1>6. CASE ~AgentStep /\ ~Restart /\ ~CycleRaises
  BY <1>6, Bystanders
<1> QED BY <1>1, <1>2, <1>3, <1>4, <1>5, <1>6 DEF AgentStep, OnwardStep

LEMMA KeysInit == AgentInit => KeysInv
BY NewFields DEF AgentInit, KeysInv

LEMMA KeysStep == Fields /\ KeysInv /\ [AgentNext]_agentVars => KeysInv'
<1> SUFFICES ASSUME Fields, KeysInv, [AgentNext]_agentVars PROVE KeysInv'
  OBVIOUS
<1>1. CASE Route
  BY <1>1, KeysRoute
<1>2. CASE Restart
  <2>1. a'.recent = <<>> /\ h'.keys = <<>>
    BY <1>2, NewFields DEF Restart, Fields, HistoryFields
  <2> QED BY <2>1 DEF KeysInv
<1>3. CASE a'.recent = a.recent /\ h'.keys = h.keys
  BY <1>3 DEF KeysInv
<1> QED BY <1>1, <1>2, <1>3, KeysKept

(* loop.py:469, 837: no three decisions in a row take one action, another,  *)
(* and the first again, although the guard forgets what it saw when it      *)
(* strikes; and a message counts as answered only with a decision that was  *)
(* made with it in the prompt, or as a rating.                              *)
THEOREM DecisionsAreFitting == AgentSpec => DecisionsFit
<1>1. AgentInit => ShownInv
  BY NewFields DEF AgentInit, ShownInv, AfterIntent
<1>2. ASSUME Fields, KeysInv, [AgentNext]_agentVars
      PROVE  [h'.keys # h.keys /\ Len(h.keys) = 2 /\ Len(h'.keys) = 2
                => LET x == h.keys[1]  y == h.keys[2]  z == h'.keys[2] IN
                   x = z /\ x # y => <<"WAIT">> \in {x, y}]_agentVars
  <2>1. CASE Route
    BY <1>2, <2>1, KeysRoute
  <2>2. CASE Restart
    <3>1. h'.keys = <<>>
      BY <1>2, <2>2 DEF Restart, Fields, HistoryFields
    <3>2. Len(h'.keys) # 2
      BY <3>1
    <3> QED BY <3>2
  <2>3. CASE ~Route /\ ~Restart
    BY <1>2, <2>3, KeysKept
  <2> QED BY <2>1, <2>2, <2>3
<1>3. ASSUME Fields, ShownInv, [AgentNext]_agentVars
      PROVE  [a'.last # a.last /\ a'.last # NoMessage
                => a'.last.post = h.shown \/ (board.awaiting /\ ~board'.awaiting)]_agentVars
  BY <1>3, Answers
<1> QED BY <1>1, <1>2, <1>3, FieldsInit, FieldsStep, ShownStep, KeysInit, KeysStep, PTL
       DEF AgentSpec, DecisionsFit, NoFlipFlop, AnsweredWasShown

-----------------------------------------------------------------------------
(* The print queue *)

Elements(s) == {s[i] : i \in DOMAIN s}

LEMMA AppendElements ==
    ASSUME NEW s \in Seq(Nat), NEW e \in Nat
    PROVE  /\ Append(s, e) \in Seq(Nat) /\ Len(Append(s, e)) = Len(s) + 1
           /\ Elements(Append(s, e)) = Elements(s) \cup {e}
<1>1. /\ Append(s, e) \in Seq(Nat) /\ Len(Append(s, e)) = Len(s) + 1 /\ Len(s) \in Nat
      /\ DOMAIN s = 1 .. Len(s) /\ DOMAIN Append(s, e) = 1 .. Len(s) + 1
      /\ \A i \in 1 .. Len(s) : Append(s, e)[i] = s[i]
      /\ Append(s, e)[Len(s) + 1] = e
  OBVIOUS
<1>2. Elements(Append(s, e)) \subseteq Elements(s) \cup {e}
  BY <1>1 DEF Elements
<1>3. Elements(s) \subseteq Elements(Append(s, e)) /\ e \in Elements(Append(s, e))
  BY <1>1 DEF Elements
<1> QED BY <1>1, <1>2, <1>3

LEMMA TailElements ==
    ASSUME NEW s \in Seq(Nat), s # <<>>
    PROVE  /\ Tail(s) \in Seq(Nat) /\ Head(s) \in Nat /\ Len(s) = Len(Tail(s)) + 1
           /\ Elements(s) = {Head(s)} \cup Elements(Tail(s))
<1>1. /\ Tail(s) \in Seq(Nat) /\ Head(s) \in Nat /\ Len(s) = Len(Tail(s)) + 1 /\ Len(Tail(s)) \in Nat
      /\ DOMAIN s = 1 .. Len(s) /\ DOMAIN Tail(s) = 1 .. Len(Tail(s))
      /\ \A i \in 1 .. Len(Tail(s)) : Tail(s)[i] = s[i + 1]
      /\ Head(s) = s[1]
  OBVIOUS
<1>2. ASSUME NEW x \in Elements(s) PROVE x = Head(s) \/ x \in Elements(Tail(s))
  <2>1. PICK i \in 1 .. Len(s) : x = s[i]
    BY <1>1 DEF Elements
  <2>2. i = 1 \/ (i - 1 \in 1 .. Len(Tail(s)) /\ (i - 1) + 1 = i)
    BY <1>1
  <2> QED BY <1>1, <2>1, <2>2 DEF Elements
<1>3. ASSUME NEW x \in Elements(Tail(s)) PROVE x \in Elements(s)
  <2>1. PICK i \in 1 .. Len(Tail(s)) : x = Tail(s)[i]
    BY <1>1 DEF Elements
  <2>2. i + 1 \in 1 .. Len(s)
    BY <1>1
  <2> QED BY <1>1, <2>1, <2>2 DEF Elements
<1>4. Head(s) \in Elements(s)
  BY <1>1 DEF Elements
<1> QED BY <1>1, <1>2, <1>3, <1>4

LEMMA ConcatElements ==
    ASSUME NEW s \in Seq(Nat), NEW u \in Seq(Nat)
    PROVE  /\ s \o u \in Seq(Nat) /\ Len(s \o u) = Len(s) + Len(u)
           /\ Elements(s \o u) = Elements(s) \cup Elements(u)
<1>1. /\ s \o u \in Seq(Nat) /\ Len(s \o u) = Len(s) + Len(u) /\ Len(s) \in Nat /\ Len(u) \in Nat
      /\ DOMAIN s = 1 .. Len(s) /\ DOMAIN u = 1 .. Len(u) /\ DOMAIN (s \o u) = 1 .. Len(s) + Len(u)
      /\ \A i \in 1 .. Len(s) : (s \o u)[i] = s[i]
      /\ \A i \in 1 .. Len(u) : (s \o u)[Len(s) + i] = u[i]
  BY ConcatProperties
<1>2. ASSUME NEW x \in Elements(s \o u) PROVE x \in Elements(s) \cup Elements(u)
  <2>1. PICK i \in 1 .. Len(s) + Len(u) : x = (s \o u)[i]
    BY <1>1 DEF Elements
  <2>2. \/ i \in 1 .. Len(s)
        \/ i - Len(s) \in 1 .. Len(u) /\ Len(s) + (i - Len(s)) = i
    BY <1>1
  <2> QED BY <1>1, <2>1, <2>2 DEF Elements
<1>3. Elements(s) \subseteq Elements(s \o u)
  BY <1>1 DEF Elements
<1>4. ASSUME NEW x \in Elements(u) PROVE x \in Elements(s \o u)
  <2>1. PICK i \in 1 .. Len(u) : x = u[i]
    BY <1>1 DEF Elements
  <2>2. Len(s) + i \in 1 .. Len(s) + Len(u)
    BY <1>1
  <2> QED BY <1>1, <2>1, <2>2 DEF Elements
<1> QED BY <1>1, <1>2, <1>3, <1>4

(* QueueConserved, of a list, the files taken, the files that expired with  *)
(* it, and the files put on it.                                             *)
Conserved(list, popped, expired, files) ==
    /\ Elements(list) \cup Elements(popped) \cup Elements(expired) = 1 .. files
    /\ Len(list) + Len(popped) + Len(expired) = files

QueueInv ==
    /\ board.queue \in Seq(Nat) /\ h.popped \in Seq(Nat) /\ h.expired \in Seq(Nat) /\ h.files \in Nat
    /\ q # None => q \in Seq(Nat)
    /\ a.pc = "pop" => a.taken \in Seq(Nat) /\ a.taken # <<>>
    /\ h.torn \/ Conserved(board.queue, h.popped, h.expired, h.files)

(* Beside the steps on the list nothing touches it.                         *)
LEMMA QueueKept ==
    ASSUME Fields, [AgentNext]_agentVars, ~QueueRead, ~QueueWrite, ~IdleCheck, ~PopQueue, ~Restart,
           ~Expires
    PROVE  /\ board'.queue = board.queue /\ q' = q
           /\ h'.popped = h.popped /\ h'.expired = h.expired /\ h'.files = h.files /\ h'.torn = h.torn
<1>1. board'.queue = board.queue
  BY DEF AgentNext, AgentStep, World, Say, PrinterChanges, VisionChanges, HumanRejects, EngineRuns,
     agentVars, SleepEnds, ReadBoard, ReadIntent, DetectAndPrompt, ClearCancel, CallAnswered,
     CallCorrected, Route, ProposeStart, CallCancelled, CycleRaises, StaleCheck, Consume, Fields, BoardFields
<1>2. h'.popped = h.popped /\ h'.expired = h.expired /\ h'.files = h.files /\ h'.torn = h.torn
  BY DEF AgentNext, AgentStep, World, Say, PrinterChanges, VisionChanges, HumanRejects, EngineRuns,
     agentVars, SleepEnds, ReadBoard, ReadIntent, DetectAndPrompt, ClearCancel, CallAnswered,
     CallCorrected, Route, ProposeStart, CallCancelled, CycleRaises, StaleCheck, Consume, Fields, HistoryFields
<1>3. q' = q
  BY DEF AgentNext, AgentStep, World, Say, PrinterChanges, VisionChanges, HumanRejects, EngineRuns,
     agentVars, SleepEnds, ReadBoard, ReadIntent, DetectAndPrompt, ClearCancel, CallAnswered,
     CallCorrected, Route, ProposeStart, CallCancelled, CycleRaises, StaleCheck, Consume, Outside
<1> QED BY <1>1, <1>2, <1>3

(* Only the check of an idle printer leads to the taking of a file.         *)
LEMMA PopEntered ==
    ASSUME Fields, [AgentNext]_agentVars, ~IdleCheck, a'.pc = "pop"
    PROVE  a' = a
<1>1. CASE ~AgentStep /\ ~Restart /\ ~CycleRaises
  BY <1>1, Bystanders
<1>2. CASE SleepEnds \/ ReadBoard \/ ReadIntent \/ PopQueue \/ DetectAndPrompt \/ ClearCancel
           \/ CallAnswered \/ CallCorrected \/ Route
  BY <1>2 DEF SleepEnds, ReadBoard, ReadIntent, PopQueue, DetectAndPrompt, ClearCancel, CallAnswered,
     CallCorrected, Route, Fields, AgentFields
<1>3. CASE ProposeStart \/ CallCancelled \/ CycleRaises \/ Restart
  BY <1>3, SleptFields, NewFields DEF ProposeStart, CallCancelled, CycleRaises, Restart, Fields
<1>4. CASE StaleCheck
  <2>1. PICK r : a' = Slept([a EXCEPT !.retries = r]) \/
                 \E s : a' = [[a EXCEPT !.retries = r] EXCEPT !.pc = "route", !.stale = s]
    BY <1>4 DEF StaleCheck
  <2>2. DOMAIN [a EXCEPT !.retries = r] = AgentFields
    BY DEF Fields
  <2> QED BY <2>1, <2>2, SleptFields DEF AgentFields
<1>5. CASE Consume
  <2>1. DOMAIN [a EXCEPT !.last = a.raw] = AgentFields
    BY DEF Fields
  <2> QED BY <1>5, <2>1, SleptFields DEF Consume, Fields
<1> QED BY <1>1, <1>2, <1>3, <1>4, <1>5 DEF AgentStep

LEMMA QueueStep == Fields /\ QueueInv /\ [AgentNext]_agentVars => QueueInv'
<1> SUFFICES ASSUME Fields, QueueInv, [AgentNext]_agentVars PROVE QueueInv'
  OBVIOUS
<1>0. Len(board.queue) \in Nat /\ Len(h.popped) \in Nat /\ Len(h.expired) \in Nat
  BY DEF QueueInv
<1>1. CASE QueueRead
  BY <1>1 DEF QueueRead, QueueInv
<1>2. CASE QueueWrite
  <2>1. /\ q \in Seq(Nat) /\ q' = None /\ a' = a
        /\ board'.queue = Append(q, h.files + 1) /\ h'.files = h.files + 1
        /\ h'.popped = h.popped /\ h'.expired = h.expired
        /\ ~h'.torn => ~h.torn /\ board.queue = q
    BY <1>2 DEF QueueWrite, QueueInv, Fields, BoardFields, HistoryFields
  <2>2. /\ board'.queue \in Seq(Nat) /\ Len(board'.queue) = Len(q) + 1
        /\ Elements(board'.queue) = Elements(q) \cup {h.files + 1}
    BY <2>1, AppendElements DEF QueueInv
  <2>3. ASSUME ~h'.torn PROVE Conserved(board'.queue, h'.popped, h'.expired, h'.files)
    <3>1. 1 .. h.files + 1 = (1 .. h.files) \cup {h.files + 1}
      BY DEF QueueInv
    <3>2. Conserved(q, h.popped, h.expired, h.files) /\ Len(q) = Len(board.queue)
      BY <2>1, <2>3, Zenon DEF QueueInv
    <3>3. Elements(board'.queue) \cup Elements(h'.popped) \cup Elements(h'.expired) = 1 .. h'.files
      BY <2>1, <2>2, <3>1, <3>2 DEF Conserved
    <3>4. Len(board'.queue) + Len(h'.popped) + Len(h'.expired) = h'.files
      <4>1. PICK l \in Nat, m \in Nat, n \in Nat : l = Len(q) /\ m = Len(h.popped) /\ n = Len(h.expired)
        BY <1>0, <3>2, Zenon
      <4>2. /\ Len(board'.queue) = l + 1 /\ Len(h'.popped) = m /\ Len(h'.expired) = n
            /\ h'.files = (l + m + n) + 1
        BY <2>1, <2>2, <3>2, <4>1, Zenon DEF Conserved
      <4>3. (l + 1) + m + n = (l + m + n) + 1
        OBVIOUS
      <4> QED BY <4>2, <4>3, Zenon
    <3> QED BY <3>3, <3>4 DEF Conserved
  <2> QED BY <2>1, <2>2, <2>3 DEF QueueInv
<1>3. CASE IdleCheck
  <2>1. /\ board' = board /\ q' = q /\ h' = h
        /\ a'.pc = "pop" => a'.taken = board.queue /\ board.queue # <<>>
    BY <1>3 DEF IdleCheck, Outside, Fields, AgentFields
  <2> QED BY <2>1 DEF QueueInv
<1>4. CASE PopQueue
  <2>1. /\ a.taken \in Seq(Nat) /\ a.taken # <<>> /\ q' = q /\ a'.pc # "pop"
        /\ board'.queue = Tail(a.taken) /\ h'.popped = Append(h.popped, Head(a.taken))
        /\ h'.expired = h.expired /\ h'.files = h.files
        /\ ~h'.torn => ~h.torn /\ board.queue = a.taken
    BY <1>4 DEF PopQueue, Remaining, Outside, QueueInv, Fields, BoardFields, HistoryFields, AgentFields
  <2>2. /\ board'.queue \in Seq(Nat) /\ Head(a.taken) \in Nat /\ Len(a.taken) = Len(board'.queue) + 1
        /\ Elements(a.taken) = {Head(a.taken)} \cup Elements(board'.queue)
    BY <2>1, TailElements
  <2>3. /\ h'.popped \in Seq(Nat) /\ Len(h'.popped) = Len(h.popped) + 1
        /\ Elements(h'.popped) = Elements(h.popped) \cup {Head(a.taken)}
    BY <2>1, <2>2, AppendElements DEF QueueInv
  <2>4. ASSUME ~h'.torn PROVE Conserved(board'.queue, h'.popped, h'.expired, h'.files)
    <3>1. Conserved(a.taken, h.popped, h.expired, h.files)
      BY <2>1, <2>4 DEF QueueInv
    <3>2. Len(board'.queue) \in Nat
      BY <2>2
    <3>3. Elements(board'.queue) \cup Elements(h'.popped) \cup Elements(h'.expired) = 1 .. h'.files
      BY <2>1, <2>2, <2>3, <3>1 DEF Conserved
    <3>4. Len(board'.queue) + Len(h'.popped) + Len(h'.expired) = h'.files
      <4>1. PICK l \in Nat, m \in Nat, n \in Nat :
                l = Len(board'.queue) /\ m = Len(h.popped) /\ n = Len(h.expired)
        BY <1>0, <3>2, Zenon
      <4>2. Len(h'.popped) = m + 1 /\ Len(h'.expired) = n /\ h'.files = (l + 1) + m + n
        BY <2>1, <2>2, <2>3, <3>1, <4>1, Zenon DEF Conserved
      <4>3. l + (m + 1) + n = (l + 1) + m + n
        OBVIOUS
      <4> QED BY <4>1, <4>2, <4>3, Zenon
    <3> QED BY <3>3, <3>4 DEF Conserved
  <2> QED BY <2>1, <2>2, <2>3, <2>4 DEF QueueInv
<1>5. CASE Restart
  <2>1. /\ board' = board /\ q' = None /\ a'.pc = "board"
        /\ h'.popped = h.popped /\ h'.expired = h.expired /\ h'.files = h.files /\ (h.torn => h'.torn)
    BY <1>5, NewFields DEF Restart, Fields, HistoryFields
  <2> QED BY <2>1 DEF QueueInv
<1>6. CASE Expires
  <2>1. /\ a' = a /\ q' = q /\ h'.popped = h.popped /\ h'.files = h.files /\ h'.torn = h.torn
        /\ \/ board'.queue = board.queue /\ h'.expired = h.expired
           \/ board'.queue = <<>> /\ h'.expired = h.expired \o board.queue
    BY <1>6 DEF Expires, Fields, BoardFields, HistoryFields
  <2>2. CASE board'.queue = board.queue /\ h'.expired = h.expired
    BY <2>1, <2>2 DEF QueueInv
  <2>3. CASE board'.queue = <<>> /\ h'.expired = h.expired \o board.queue
    <3>1. /\ h'.expired \in Seq(Nat) /\ Len(h'.expired) = Len(h.expired) + Len(board.queue)
          /\ Elements(h'.expired) = Elements(h.expired) \cup Elements(board.queue)
      BY <2>3, ConcatElements DEF QueueInv
    <3>2. Elements(<<>>) = {} /\ Len(<<>>) = 0 /\ <<>> \in Seq(Nat)
      BY DEF Elements
    <3>3. ASSUME ~h'.torn PROVE Conserved(board'.queue, h'.popped, h'.expired, h'.files)
      <4>1. Conserved(board.queue, h.popped, h.expired, h.files)
        BY <2>1, <3>3 DEF QueueInv
      <4>2. Elements(board'.queue) \cup Elements(h'.popped) \cup Elements(h'.expired) = 1 .. h'.files
        BY <2>1, <2>3, <3>1, <3>2, <4>1 DEF Conserved
      <4>3. Len(board'.queue) + Len(h'.popped) + Len(h'.expired) = h'.files
        <5>1. PICK l \in Nat, m \in Nat, n \in Nat :
                  l = Len(board.queue) /\ m = Len(h.popped) /\ n = Len(h.expired)
          BY <1>0, Zenon
        <5>2. /\ Len(board'.queue) = 0 /\ Len(h'.popped) = m /\ Len(h'.expired) = n + l
              /\ h'.files = l + m + n
          BY <2>1, <2>3, <3>1, <3>2, <4>1, <5>1, Zenon DEF Conserved
        <5>3. 0 + m + (n + l) = l + m + n
          OBVIOUS
        <5> QED BY <5>2, <5>3, Zenon
      <4> QED BY <4>2, <4>3 DEF Conserved
    <3> QED BY <2>1, <2>3, <3>1, <3>2, <3>3 DEF QueueInv
  <2> QED BY <2>1, <2>2, <2>3
<1>7. CASE ~QueueRead /\ ~QueueWrite /\ ~IdleCheck /\ ~PopQueue /\ ~Restart /\ ~Expires
  BY <1>7, QueueKept, PopEntered DEF QueueInv
<1> QED BY <1>1, <1>2, <1>3, <1>4, <1>5, <1>6, <1>7

LEMMA QueueInit == AgentInit => QueueInv
<1> SUFFICES ASSUME AgentInit PROVE QueueInv
  OBVIOUS
<1>1. /\ board.queue = <<>> /\ h.popped = <<>> /\ h.expired = <<>> /\ h.files = 0 /\ q = None /\ a.pc = "board"
  BY NewFields DEF AgentInit
<1>2. Elements(<<>>) = {} /\ Len(<<>>) = 0 /\ <<>> \in Seq(Nat) /\ 1 .. 0 = {}
  BY DEF Elements
<1> QED BY <1>1, <1>2 DEF QueueInv, Conserved

(* human/telegram.py /queue (462), callbacks.py:40 and loop.py step 4c: a   *)
(* file that was queued is on the list, was taken from it, or expired with  *)
(* it, one of the three and once, for any number of files and expiries,     *)
(* unless a thread wrote a list that had changed since it was read or the   *)
(* agent died between taking a file and proposing it.                       *)
THEOREM QueueIsConserved == AgentSpec => []QueueConserved
<1>1. QueueInv => QueueConserved
  BY DEF QueueInv, QueueConserved, Conserved, Elements
<1> QED BY <1>1, FieldsInit, FieldsStep, QueueInit, QueueStep, PTL DEF AgentSpec

-----------------------------------------------------------------------------
(* Types: the ledger's length is bounded by what the decisions may add,    *)
(* which is counted against the events of the printer.                     *)

WorldType ==
    /\ bound \in Scenarios /\ phase \in Phases
    /\ events \in 0 .. bound.events
SwitchType ==
    /\ cancel \in BOOLEAN /\ ctx \in BOOLEAN
    /\ board.callout \in {NoCallout} \cup Callouts /\ board.pause \in BOOLEAN /\ board.awaiting \in BOOLEAN
BoardType ==
    /\ board.intent \in Messages /\ board.cooldown \in Tools \cup {None}
    /\ SwitchType
    /\ h.posts \in 0 .. events
LedgerType == rows \in Seq(Rows) /\ waited \in 0 .. Len(rows) /\ fresh \subseteq 1 .. Len(rows)
LocalsType ==
    /\ a.retries \in 0 .. MaxStale /\ a.last \in Messages /\ a.raw \in Messages
    /\ a.decision \in Decisions /\ a.processed \subseteq 1 .. Len(rows)
    /\ a.pc \in {"pop", "propose"} => Head(a.taken) \in Nat

(* The end of a print that is still to be archived, which adds a row.       *)
Pending == IF a.job \in {"PRINTING", "PAUSED"} /\ phase \in {"FINISHED", "IDLE"} THEN 1 ELSE 0
(* What the ledger has room for.                                            *)
Room ==
    /\ a.pc \in {"pop", "propose"} => Len(rows) < bound.rows
    /\ a.pc \in {"post", "route"} /\ a.decision # Wait => Len(rows) <= bound.rows
    /\ Pending <= events
    /\ Len(rows) + Pending <= bound.rows + 2 + events

TypeInv == WorldType /\ BoardType /\ LedgerType /\ LocalsType /\ Room

(* A cycle that returns, and a new agent: the rest of their fields.         *)
LEMMA SleptLocals ==
    ASSUME NEW m, DOMAIN m = AgentFields
    PROVE  /\ Slept(m).job = m.job /\ Slept(m).processed = m.processed /\ Slept(m).decision = Wait
           /\ Slept(m).taken = <<>>
BY DEF Slept, AgentFields

LEMMA NewLocals ==
    /\ NewAgent.raw = NoMessage /\ NewAgent.job = None /\ NewAgent.processed = {} /\ NewAgent.decision = Wait
BY DEF NewAgent

(* The model's answer, which may repeat commands that are active.           *)
AnswerComes == (\E d \in bound.answers : Fits(d) /\ a'.decision = d) /\ rows' = rows

(* What a step does to the memory of the agent.                             *)
LocalsKept ==
    \/ a'.job = a.job /\ a'.processed = a.processed
    \/ ReadBoard /\ a'.job = phase /\ a'.processed = a.processed \cup Scanned
    \/ a'.job = None /\ a'.processed = {}
DecisionsKept ==
    /\ \/ a'.decision \in {a.decision, Wait}
       \/ AnswerComes
    /\ a'.pc \in {"post", "route"} =>
          \/ a.pc \in {"post", "route"} /\ a'.decision = a.decision
          \/ AnswerComes
MessagesKept ==
    /\ a'.last \in {a.last, a.raw, NoMessage, board.intent}
    /\ a'.raw \in {a.raw, NoMessage, board.intent}
RetriesStep ==
    \/ a'.retries \in {a.retries, 0}
    \/ a.retries < MaxStale /\ a'.retries = a.retries + 1
TakenKept ==
    a'.pc \in {"pop", "propose"} =>
        \/ a.pc \in {"pop", "propose"} /\ a'.taken = a.taken
        \/ board.queue # <<>> /\ a'.taken = board.queue /\ Len(rows) < bound.rows /\ rows' = rows

LEMMA LocalsSteps ==
    ASSUME Fields, [AgentNext]_agentVars
    PROVE  LocalsKept /\ DecisionsKept /\ MessagesKept /\ RetriesStep /\ TakenKept
<1> USE DEF Fields
<1>1. CASE SleepEnds \/ DetectAndPrompt \/ ClearCancel \/ PopQueue \/ Route
  <2>1. /\ a'.job = a.job /\ a'.processed = a.processed /\ a'.last = a.last /\ a'.raw = a.raw
        /\ a'.retries = a.retries /\ a'.taken = a.taken /\ a'.decision \in {a.decision, Wait}
        /\ a'.pc \notin {"post", "route", "pop"} /\ (a'.pc = "propose" => a.pc = "pop")
    <3>1. CASE SleepEnds
      BY <3>1 DEF SleepEnds, AgentFields
    <3>2. CASE DetectAndPrompt
      BY <3>2 DEF DetectAndPrompt, AgentFields
    <3>3. CASE ClearCancel
      BY <3>3 DEF ClearCancel, AgentFields
    <3>4. CASE PopQueue
      BY <3>4 DEF PopQueue, AgentFields
    <3>5. CASE Route
      BY <3>5 DEF Route, AgentFields
    <3> QED BY <1>1, <3>1, <3>2, <3>3, <3>4, <3>5
  <2> QED BY <2>1 DEF LocalsKept, DecisionsKept, MessagesKept, RetriesStep, TakenKept
<1>2. CASE ReadBoard
  <2>1. /\ a'.job = phase /\ a'.processed = a.processed \cup Scanned /\ a'.last = a.last /\ a'.raw = a.raw
        /\ a'.retries = a.retries /\ a'.decision = a.decision /\ a'.pc = "intent"
    BY <1>2 DEF ReadBoard, AgentFields
  <2> QED BY <1>2, <2>1 DEF LocalsKept, DecisionsKept, MessagesKept, RetriesStep, TakenKept
<1>3. CASE ReadIntent
  <2>1. /\ a'.job = a.job /\ a'.processed = a.processed /\ a'.last \in {a.last, board.intent}
        /\ a'.raw = board.intent /\ a'.retries = a.retries /\ a'.decision = a.decision
        /\ a'.pc \in {"idle", "detect"}
    BY <1>3 DEF ReadIntent, Answered, AgentFields
  <2> QED BY <2>1 DEF LocalsKept, DecisionsKept, MessagesKept, RetriesStep, TakenKept
<1>4. CASE IdleCheck
  <2>1. /\ a'.job = a.job /\ a'.processed = a.processed /\ a'.last = a.last /\ a'.raw = a.raw
        /\ a'.retries = a.retries /\ a'.decision = a.decision /\ rows' = rows
        /\ \/ board.queue # <<>> /\ Len(rows) < bound.rows /\ a'.pc = "pop" /\ a'.taken = board.queue
           \/ a'.pc = "detect"
    BY <1>4 DEF IdleCheck, AgentFields
  <2> QED BY <2>1 DEF LocalsKept, DecisionsKept, MessagesKept, RetriesStep, TakenKept
<1>5. CASE CallAnswered \/ CallCorrected
  <2>1. /\ a'.job = a.job /\ a'.processed = a.processed /\ a'.last = a.last /\ a'.raw = a.raw
        /\ a'.retries = a.retries /\ rows' = rows /\ a'.pc \in {"post", "again"}
        /\ a'.pc = "again" => a'.decision = a.decision
    BY <1>5 DEF CallAnswered, CallCorrected, AgentFields
  <2>2. a'.pc = "post" => AnswerComes
    BY <1>5 DEF CallAnswered, CallCorrected, AgentFields, AnswerComes
  <2> QED BY <2>1, <2>2 DEF LocalsKept, DecisionsKept, MessagesKept, RetriesStep, TakenKept
<1>6. CASE ProposeStart \/ CallCancelled \/ CycleRaises
  <2>1. a' = Slept(a)
    BY <1>6 DEF ProposeStart, CallCancelled, CycleRaises
  <2>2. /\ a'.job = a.job /\ a'.processed = a.processed /\ a'.decision = Wait /\ a'.pc = "sleep"
        /\ a'.last = a.last /\ a'.raw = NoMessage /\ a'.retries = a.retries
    BY <2>1, SleptFields, SleptLocals
  <2> QED BY <2>2 DEF LocalsKept, DecisionsKept, MessagesKept, RetriesStep, TakenKept
<1>7. CASE Consume
  <2>1. DOMAIN [a EXCEPT !.last = a.raw] = AgentFields
    OBVIOUS
  <2>2. /\ a'.job = a.job /\ a'.processed = a.processed /\ a'.decision = Wait /\ a'.pc = "sleep"
        /\ a'.last \in {a.last, a.raw} /\ a'.raw = NoMessage /\ a'.retries = a.retries
    BY <1>7, <2>1, SleptFields, SleptLocals DEF Consume, AgentFields
  <2> QED BY <2>2 DEF LocalsKept, DecisionsKept, MessagesKept, RetriesStep, TakenKept
<1>8. CASE StaleCheck
  <2> DEFINE stale0 == Sentinels # a.pre
             discard == stale0 /\ a.retries < MaxStale
             m == [a EXCEPT !.retries = Retries(stale0, discard)]
  <2>1. /\ DOMAIN m = AgentFields /\ m.retries = IF discard THEN a.retries + 1 ELSE 0
        /\ m.job = a.job /\ m.processed = a.processed /\ m.decision = a.decision /\ m.last = a.last /\ m.raw = a.raw
    BY DEF AgentFields, Retries
  <2>2. a' = IF discard THEN Slept(m) ELSE [m EXCEPT !.pc = "route", !.stale = stale0]
    BY <1>8 DEF StaleCheck
  <2>3. a.pc = "post"
    BY <1>8 DEF StaleCheck
  <2> HIDE DEF m
  <2>4. CASE discard
    <3>1. /\ a'.job = a.job /\ a'.processed = a.processed /\ a'.decision = Wait /\ a'.pc = "sleep"
          /\ a'.last = a.last /\ a'.raw = NoMessage /\ a'.retries = a.retries + 1
      BY <2>1, <2>2, <2>4, SleptFields, SleptLocals
    <3> QED BY <2>4, <3>1 DEF LocalsKept, DecisionsKept, MessagesKept, RetriesStep, TakenKept
  <2>5. CASE ~discard
    <3>1. /\ a'.job = a.job /\ a'.processed = a.processed /\ a'.decision = a.decision /\ a'.pc = "route"
          /\ a'.last = a.last /\ a'.raw = a.raw /\ a'.retries = 0
      BY <2>1, <2>2, <2>5 DEF AgentFields
    <3> QED BY <2>3, <3>1 DEF LocalsKept, DecisionsKept, MessagesKept, RetriesStep, TakenKept
  <2> QED BY <2>4, <2>5
<1>9. CASE Restart
  <2>1. a' = NewAgent
    BY <1>9 DEF Restart
  <2> QED BY <2>1, NewFields, NewLocals DEF LocalsKept, DecisionsKept, MessagesKept, RetriesStep, TakenKept
<1>10. CASE ~AgentStep /\ ~Restart /\ ~CycleRaises
  <2>1. a' = a
    BY <1>10, Bystanders
  <2> QED BY <2>1 DEF LocalsKept, DecisionsKept, MessagesKept, RetriesStep, TakenKept
<1> QED BY <1>1, <1>2, <1>3, <1>4, <1>5, <1>6, <1>7, <1>8, <1>9, <1>10 DEF AgentStep

-----------------------------------------------------------------------------
(* The greatest of a set of row numbers.                                    *)
LEMMA NewestExists ==
    ASSUME NEW n \in Nat, NEW S \in SUBSET (1 .. n), S # {}
    PROVE  Newest(S) \in S
<1> DEFINE T == {i .. n : i \in S}
<1>1. T # {} /\ T \subseteq FiniteSubsetsOf(Nat)
  <2> SUFFICES ASSUME NEW i \in S PROVE i .. n \in SUBSET Nat /\ IsFiniteSet(i .. n)
    BY DEF FiniteSubsetsOf
  <2> QED BY FS_Interval
<1>2. PICK x \in T : \A y \in T : <<y, x>> \notin StrictSubsetOrdering(Nat)
  BY <1>1, FS_StrictSubsetOrderingWellFounded, WFMin
<1>3. PICK m \in S : x = m .. n
  OBVIOUS
<1>4. ASSUME NEW j \in S PROVE j <= m
  <2>1. <<j .. n, m .. n>> \notin StrictSubsetOrdering(Nat)
    BY <1>2, <1>3
  <2>2. j .. n \in SUBSET Nat /\ m .. n \in SUBSET Nat
    OBVIOUS
  <2>3. ~(j .. n \subseteq m .. n /\ j .. n # m .. n)
    BY <2>1, <2>2 DEF StrictSubsetOrdering
  <2>4. CASE m < j
    <3>1. j .. n \subseteq m .. n /\ m \notin j .. n /\ m \in m .. n
      BY <2>4
    <3> QED BY <2>3, <3>1
  <2> QED BY <2>4
<1> QED BY <1>4 DEF Newest

(* What the scan for rejections looks at are rows.                          *)
LEMMA ScanIsTyped ==
    ASSUME LedgerType
    PROVE  /\ Scanned \subseteq 1 .. Len(rows)
           /\ Taken # {} => rows[Newest(Taken)].tool \in Tools
<1>1. Len(rows) \in Nat /\ DOMAIN rows = 1 .. Len(rows)
  BY DEF LedgerType
<1>2. Episode \subseteq 1 .. Len(rows)
  BY <1>1 DEF Episode, LedgerType
<1>3. NewRejections \subseteq 1 .. Len(rows)
  BY <1>2 DEF NewRejections
<1>4. Taken \subseteq 1 .. Len(rows)
  BY <1>3 DEF Taken
<1>5. ASSUME Taken # {} PROVE rows[Newest(Taken)].tool \in Tools
  <2>1. Newest(Taken) \in 1 .. Len(rows)
    BY <1>1, <1>4, <1>5, NewestExists
  <2>2. rows[Newest(Taken)] \in Rows
    BY <1>1, <2>1 DEF LedgerType
  <2> QED BY <2>2 DEF Rows
<1> QED BY <1>3, <1>5 DEF Scanned

(* A row that ends is a row.                                                *)
LEMMA RowEnds ==
    ASSUME NEW rs \in Seq(Rows), NEW i \in DOMAIN rs, NEW e \in Ends \cup {"ACTIVE"}
    PROVE  [rs EXCEPT ![i].end = e] \in Seq(Rows) /\ Len([rs EXCEPT ![i].end = e]) = Len(rs)
<1>1. rs[i] \in Rows
  OBVIOUS
<1>2. [rs[i] EXCEPT !.end = e] \in Rows
  BY <1>1 DEF Rows
<1> QED BY <1>2

(* A proposal adds one row at most ...                                      *)
LEMMA ProposedIsTyped ==
    ASSUME NEW rs \in Seq(Rows), NEW tool \in Tools, NEW file \in Nat \cup {-1}
    PROVE  /\ Proposed(rs, tool, file) \in Seq(Rows)
           /\ Len(Proposed(rs, tool, file)) \in Len(rs) .. Len(rs) + 1
<1> DEFINE new == [tool |-> tool, file |-> file, end |-> "ACTIVE"]
<1>1. new \in Rows
  BY DEF Rows
<1>2. Proposed(rs, tool, file) \in {rs, Append(rs, new)}
  BY DEF Proposed
<1>3. Len(rs) \in Nat
  OBVIOUS
<1> HIDE DEF new
<1>4. Append(rs, new) \in Seq(Rows) /\ Len(Append(rs, new)) = Len(rs) + 1
  BY <1>1
<1> QED BY <1>2, <1>3, <1>4

(* ... and a decision two.                                                 *)
LEMMA RowsAfterIsTyped ==
    ASSUME LedgerType, NEW d \in Decisions
    PROVE  /\ RowsAfter(d) \in Seq(Rows)
           /\ Len(RowsAfter(d)) \in Len(rows) .. Len(rows) + 2
           /\ d.kind = "WAIT" => RowsAfter(d) = rows
           /\ d.kind = "WAIT" <=> d = Wait
<1>1. rows \in Seq(Rows) /\ Len(rows) \in Nat /\ 0 \in Nat \cup {-1} /\ Callouts \subseteq Nat \cup {-1}
  BY DEF LedgerType, Callouts
<1>2. CASE d = Wait
  <2>1. RowsAfter(d) = rows
    BY <1>2 DEF RowsAfter, Wait
  <2> QED BY <1>1, <1>2, <2>1 DEF Wait
<1>3. CASE \E text \in Callouts : d = Call(text)
  <2>1. PICK text \in Callouts : d = Call(text)
    BY <1>3
  <2>2. RowsAfter(d) = Proposed(rows, "call_human", text) /\ d.kind # "WAIT" /\ d # Wait
    BY <2>1 DEF RowsAfter, Call, Wait
  <2>3. text \in Nat \cup {-1} /\ "call_human" \in Tools
    BY <1>1 DEF Tools
  <2> QED BY <1>1, <2>2, <2>3, ProposedIsTyped
<1>4. ASSUME NEW t \in Tools, d = Act(t) PROVE RowsAfter(d) = Proposed(rows, t, 0) /\ d.kind # "WAIT" /\ d # Wait
  BY <1>4 DEF RowsAfter, Act, Wait
<1>5. ASSUME NEW t \in Tools, NEW u \in Tools, d = Chain(t, u)
      PROVE  RowsAfter(d) = Proposed(Proposed(rows, t, 0), u, 0) /\ d.kind # "WAIT" /\ d # Wait
  BY <1>5 DEF RowsAfter, Chain, Wait
<1>6. CASE \E t \in Tools : d = Act(t)
  BY <1>1, <1>4, <1>6, ProposedIsTyped
<1>7. CASE \E t, u \in Tools : d = Chain(t, u)
  <2>1. PICK t \in Tools, u \in Tools : d = Chain(t, u)
    BY <1>7
  <2> DEFINE rs == Proposed(rows, t, 0)
  <2>2. rs \in Seq(Rows) /\ Len(rs) \in Len(rows) .. Len(rows) + 1
    BY <1>1, ProposedIsTyped
  <2> HIDE DEF rs
  <2>3. Proposed(rs, u, 0) \in Seq(Rows) /\ Len(Proposed(rs, u, 0)) \in Len(rs) .. Len(rs) + 1
    BY <1>1, <2>2, ProposedIsTyped
  <2>4. RowsAfter(d) = Proposed(rs, u, 0) /\ d.kind # "WAIT" /\ d # Wait
    BY <1>5, <2>1 DEF rs
  <2> QED BY <1>1, <2>2, <2>3, <2>4
<1> QED BY <1>2, <1>3, <1>6, <1>7 DEF Decisions

(* The rows, and who adds one.                                              *)
LEMMA RowsSteps ==
    ASSUME Fields, TypeInv, QueueInv, [AgentNext]_agentVars
    PROVE  /\ rows' \in Seq(Rows) /\ Len(rows) \in Nat
           /\ \/ Len(rows') = Len(rows)
              \/ ReadBoard /\ Archives /\ Len(rows') = Len(rows) + 1
              \/ ProposeStart /\ Len(rows') = Len(rows) + 1
              \/ Route /\ a.decision # Wait /\ Len(rows') \in Len(rows) .. Len(rows) + 2
<1>1. rows \in Seq(Rows) /\ Len(rows) \in Nat /\ DOMAIN rows = 1 .. Len(rows)
  BY DEF TypeInv, LedgerType
<1>2. CASE ReadBoard
  <2>1. rows' = IF Archives THEN Proposed(rows, "call_human", -1) ELSE rows
    BY <1>2 DEF ReadBoard
  <2>2. /\ Proposed(rows, "call_human", -1) \in Seq(Rows)
        /\ Len(Proposed(rows, "call_human", -1)) \in Len(rows) .. Len(rows) + 1
    BY <1>1, ProposedIsTyped DEF Tools
  <2> QED BY <1>1, <1>2, <2>1, <2>2
<1>3. CASE ProposeStart
  <2>1. rows' = Proposed(rows, "start_print", Head(a.taken)) /\ Head(a.taken) \in Nat
    BY <1>3 DEF ProposeStart, TypeInv, LocalsType
  <2>2. rows' \in Seq(Rows) /\ Len(rows') \in Len(rows) .. Len(rows) + 1
    BY <1>1, <2>1, ProposedIsTyped DEF Tools, Hardware
  <2> QED BY <1>1, <1>3, <2>2
<1>4. CASE Route
  <2>0. rows' = IF Guarded.kind = "CALL_HUMAN" /\ ~(Guarded.kind = "CALL_HUMAN" /\ board.callout # Guarded.text)
                THEN rows ELSE RowsAfter(Guarded)
    BY <1>4, Zenon DEF Route
  <2>1. rows' \in {rows, RowsAfter(Guarded)}
    BY <2>0, Zenon
  <2>6. Guarded \in {Wait, a.decision} /\ a.decision \in Decisions /\ Wait \in Decisions
    BY DEF Guarded, TypeInv, LocalsType, Decisions
  <2>2. RowsAfter(Wait) = rows
    BY <2>6, RowsAfterIsTyped DEF TypeInv
  <2>3. /\ RowsAfter(a.decision) \in Seq(Rows)
        /\ Len(RowsAfter(a.decision)) \in Len(rows) .. Len(rows) + 2
    BY <2>6, RowsAfterIsTyped DEF TypeInv
  <2>4. CASE rows' = rows
    BY <1>1, <2>4
  <2>5. CASE rows' = RowsAfter(a.decision)
    BY <1>1, <1>4, <2>2, <2>3, <2>5
  <2> QED BY <2>1, <2>2, <2>4, <2>5, <2>6
<1>5. ASSUME NEW i \in DOMAIN rows, HumanRejects(i) \/ EngineRuns(i)
      PROVE  rows' \in Seq(Rows) /\ Len(rows') = Len(rows)
  <2>1. PICK e \in Ends \cup {"ACTIVE"} : rows' = [rows EXCEPT ![i].end = e]
    BY <1>5 DEF HumanRejects, EngineRuns, Ends, Rejections
  <2>2. [rows EXCEPT ![i].end = e] \in Seq(Rows) /\ Len([rows EXCEPT ![i].end = e]) = Len(rows)
    BY <1>1, RowEnds
  <2> QED BY <2>1, <2>2
<1>6. CASE rows' = rows
  BY <1>1, <1>6
<1>7. CASE \/ SleepEnds \/ ReadIntent \/ IdleCheck \/ PopQueue \/ DetectAndPrompt \/ ClearCancel
           \/ CallCancelled \/ CallAnswered \/ CallCorrected \/ StaleCheck \/ Consume
  <2>1. rows' = rows
    BY <1>7 DEF SleepEnds, ReadIntent, IdleCheck, PopQueue, DetectAndPrompt, ClearCancel, CallCancelled,
       CallAnswered, CallCorrected, StaleCheck, Consume
  <2> QED BY <1>6, <2>1
<1>8. CASE \/ \E text \in bound.texts : Say(text)
           \/ QueueRead \/ QueueWrite \/ PrinterChanges \/ VisionChanges \/ Expires \/ Restart \/ CycleRaises
           \/ UNCHANGED agentVars
  <2>1. rows' = rows
    BY <1>8 DEF Say, QueueRead, QueueWrite, PrinterChanges, VisionChanges, Expires, Restart, CycleRaises, agentVars
  <2> QED BY <1>6, <2>1
<1> QED BY <1>1, <1>2, <1>3, <1>4, <1>5, <1>7, <1>8 DEF AgentNext, AgentStep, World

(* The printer and the number of events.                                    *)
LEMMA WorldSteps ==
    ASSUME TypeInv, [AgentNext]_agentVars
    PROVE  /\ bound' = bound /\ phase' \in Phases
           /\ \/ events' = events /\ (phase' = phase \/ phase' \notin {"FINISHED", "IDLE"})
              \/ events < bound.events /\ events' = events + 1
<1>1. phase \in Phases
  BY DEF TypeInv, WorldType
<1>2. CASE AgentStep
  BY <1>1, <1>2 DEF AgentStep, SleepEnds, ReadBoard, ReadIntent, IdleCheck, PopQueue, ProposeStart, DetectAndPrompt,
     ClearCancel, CallCancelled, CallAnswered, CallCorrected, StaleCheck, Route, Consume, Outside
<1>3. CASE \E text \in bound.texts : Say(text)
  BY <1>1, <1>3 DEF Say, Event
<1>4. CASE QueueRead \/ QueueWrite \/ VisionChanges \/ Expires \/ Restart \/ CycleRaises \/ UNCHANGED agentVars
  BY <1>1, <1>4 DEF QueueRead, QueueWrite, VisionChanges, Expires, Restart, CycleRaises, Event, agentVars
<1>5. CASE PrinterChanges
  <2>1. PICK p \in Becomes[phase] : phase' = p
    BY <1>5 DEF PrinterChanges, Sensed
  <2>2. p \in Phases
    BY <1>1, <2>1 DEF Becomes, Phases
  <2> QED BY <1>5, <2>1, <2>2 DEF PrinterChanges, Event
<1>6. ASSUME NEW i \in DOMAIN rows, HumanRejects(i)
      PROVE  bound' = bound /\ phase' = phase /\ events' = events
  BY <1>6 DEF HumanRejects
<1>7. ASSUME NEW i \in DOMAIN rows, EngineRuns(i)
      PROVE  /\ bound' = bound /\ events' = events /\ phase' \in Phases
             /\ phase' = phase \/ phase' \notin {"FINISHED", "IDLE"}
  <2>1. /\ bound' = bound /\ events' = events
        /\ \/ phase' = phase
           \/ Outcome(rows[i].tool) # None /\ phase' = Outcome(rows[i].tool)
    BY <1>7 DEF EngineRuns, Sensed
  <2>2. Outcome(rows[i].tool) \in {"PAUSED", "PRINTING", "PREPARING", phase, None}
    BY DEF Outcome
  <2> QED BY <1>1, <2>1, <2>2 DEF Phases
<1> QED BY <1>1, <1>2, <1>3, <1>4, <1>5, <1>6, <1>7 DEF AgentNext, World

(* Where the message on the board comes from.                               *)
LEMMA IntentSteps ==
    ASSUME Fields, [AgentNext]_agentVars
    PROVE  \/ board'.intent \in {board.intent, NoMessage} /\ h'.posts = h.posts
           \/ \E text \in bound.texts :
                 /\ board'.intent = [text |-> text, post |-> h.posts + 1]
                 /\ h'.posts = h.posts + 1 /\ events' = events + 1
<1> USE DEF Fields, BoardFields, HistoryFields
<1>1. CASE \E text \in bound.texts : Say(text)
  BY <1>1 DEF Say, Event
<1>2. CASE ~\E text \in bound.texts : Say(text)
  <2>1. h'.posts = h.posts
    BY <1>2 DEF AgentNext, AgentStep, World, QueueRead, QueueWrite, PrinterChanges, VisionChanges,
       Expires, HumanRejects, EngineRuns,
       agentVars, SleepEnds, ReadBoard, ReadIntent, IdleCheck, PopQueue, DetectAndPrompt, ClearCancel, CallAnswered,
       CallCorrected, Route, ProposeStart, CallCancelled, CycleRaises, StaleCheck, Consume, Restart
  <2>2. board'.intent \in {board.intent, NoMessage}
    BY <1>2 DEF AgentNext, AgentStep, World, QueueRead, QueueWrite, PrinterChanges, VisionChanges,
       Expires, HumanRejects, EngineRuns,
       agentVars, SleepEnds, ReadBoard, ReadIntent, IdleCheck, PopQueue, DetectAndPrompt, ClearCancel, CallAnswered,
       CallCorrected, Route, ProposeStart, CallCancelled, CycleRaises, StaleCheck, Consume, Restart
  <2> QED BY <2>1, <2>2
<1> QED BY <1>1, <1>2

(* The tool whose rejection is remembered.                                  *)
LEMMA CooldownSteps ==
    ASSUME Fields, LedgerType, [AgentNext]_agentVars
    PROVE  board'.cooldown \in {board.cooldown, None} \cup Tools
<1> USE DEF Fields, BoardFields
<1>1. CASE ReadBoard
  BY <1>1, ScanIsTyped DEF ReadBoard
<1>2. CASE ~ReadBoard
  BY <1>2 DEF AgentNext, AgentStep, World, Say, QueueRead, QueueWrite, PrinterChanges, VisionChanges,
     Expires, HumanRejects,
     EngineRuns, agentVars, SleepEnds, ReadIntent, IdleCheck, PopQueue, DetectAndPrompt, ClearCancel, CallAnswered,
     CallCorrected, Route, ProposeStart, CallCancelled, CycleRaises, StaleCheck, Consume, Restart
<1> QED BY <1>1, <1>2

(* A step keeps the switches switches.                                      *)
LEMMA SwitchSteps ==
    ASSUME Fields, SwitchType, a.decision \in Decisions, [AgentNext]_agentVars
    PROVE  SwitchType'
<1> USE DEF Fields, BoardFields
<1>1. cancel' \in BOOLEAN
  BY DEF SwitchType, AgentNext, AgentStep, World, Say, QueueRead, QueueWrite, PrinterChanges, VisionChanges,
     Expires, HumanRejects,
     EngineRuns, Sensed, Cleared, agentVars, SleepEnds, ReadBoard, ReadIntent, IdleCheck, PopQueue, DetectAndPrompt,
     ClearCancel, CallAnswered, CallCorrected, Route, ProposeStart, CallCancelled, CycleRaises, StaleCheck, Consume,
     Restart
<1>2. ctx' \in BOOLEAN
  <2>1. JobContext \in BOOLEAN
    BY DEF JobContext, SwitchType
  <2> QED
    BY <2>1 DEF SwitchType, AgentNext, AgentStep, World, Say, QueueRead, QueueWrite, PrinterChanges, VisionChanges,
       Expires,
     HumanRejects, EngineRuns, agentVars, SleepEnds, ReadBoard, ReadIntent, IdleCheck, PopQueue, DetectAndPrompt,
     ClearCancel, CallAnswered, CallCorrected, Route, ProposeStart, CallCancelled, CycleRaises, StaleCheck, Consume,
     Restart
<1>3. board'.callout \in {NoCallout} \cup Callouts
  <2>1. Guarded.kind = "CALL_HUMAN" => Guarded.text \in Callouts
    BY DEF Guarded, Decisions, Wait, Call, Act, Chain
  <2>2. CASE Route
    <3>1. /\ board'.callout \in {board.callout, Guarded.text}
          /\ board'.callout # board.callout => Guarded.kind = "CALL_HUMAN"
      BY <2>2 DEF Route
    <3> QED BY <2>1, <3>1 DEF SwitchType
  <2>3. CASE ~Route
    BY <2>3 DEF SwitchType, AgentNext, AgentStep, World, Say, QueueRead, QueueWrite, PrinterChanges, VisionChanges,
       Expires, HumanRejects, EngineRuns, agentVars, SleepEnds, ReadBoard, ReadIntent, IdleCheck, PopQueue,
       DetectAndPrompt, ClearCancel, CallAnswered, CallCorrected, ProposeStart, CallCancelled, CycleRaises,
       StaleCheck, Consume, Restart
  <2> QED BY <2>2, <2>3
<1>4. board'.pause \in BOOLEAN
  BY DEF SwitchType, AgentNext, AgentStep, World, Say, QueueRead, QueueWrite, PrinterChanges, VisionChanges,
     Expires, HumanRejects,
     EngineRuns, agentVars, SleepEnds, ReadBoard, ReadIntent, IdleCheck, PopQueue, DetectAndPrompt, ClearCancel,
     CallAnswered, CallCorrected, Route, ProposeStart, CallCancelled, CycleRaises, StaleCheck, Consume, Restart
<1>5. board'.awaiting \in BOOLEAN
  BY DEF SwitchType, AgentNext, AgentStep, World, Say, QueueRead, QueueWrite, PrinterChanges, VisionChanges,
     Expires, HumanRejects,
     EngineRuns, agentVars, SleepEnds, ReadBoard, ReadIntent, IdleCheck, PopQueue, DetectAndPrompt, ClearCancel,
     CallAnswered, CallCorrected, Route, ProposeStart, CallCancelled, CycleRaises, StaleCheck, Consume, Restart
<1> QED BY <1>1, <1>2, <1>3, <1>4, <1>5 DEF SwitchType

(* The episode and the rows that were done lately.                          *)
LEMMA MarksStep ==
    ASSUME Fields, TypeInv, QueueInv, [AgentNext]_agentVars
    PROVE  waited' \in 0 .. Len(rows') /\ fresh' \subseteq 1 .. Len(rows')
<1>1. /\ Len(rows) \in Nat /\ Len(rows') \in Nat /\ Len(rows') >= Len(rows) /\ DOMAIN rows = 1 .. Len(rows)
      /\ waited \in 0 .. Len(rows) /\ fresh \subseteq 1 .. Len(rows)
  BY RowsSteps DEF TypeInv, LedgerType
<1>2. waited' \in {waited, Len(rows)}
  BY DEF AgentNext, AgentStep, World, Say, QueueRead, QueueWrite, PrinterChanges, VisionChanges,
     Expires, HumanRejects,
     EngineRuns, agentVars, SleepEnds, ReadBoard, ReadIntent, IdleCheck, PopQueue, DetectAndPrompt, ClearCancel,
     CallAnswered, CallCorrected, Route, ProposeStart, CallCancelled, CycleRaises, StaleCheck, Consume, Restart
<1>3. fresh' \subseteq fresh \cup DOMAIN rows
  BY DEF AgentNext, AgentStep, World, Say, QueueRead, QueueWrite, PrinterChanges, VisionChanges,
     Expires, HumanRejects,
     EngineRuns, agentVars, SleepEnds, ReadBoard, ReadIntent, IdleCheck, PopQueue, DetectAndPrompt, ClearCancel,
     CallAnswered, CallCorrected, Route, ProposeStart, CallCancelled, CycleRaises, StaleCheck, Consume, Restart
<1> QED BY <1>1, <1>2, <1>3

-----------------------------------------------------------------------------
(* One step keeps all of it.                                                *)
LEMMA TypeStep ==
    ASSUME Fields, TypeInv, QueueInv, [AgentNext]_agentVars
    PROVE  TypeInv'
<1>1. /\ bound \in Scenarios /\ bound.rows \in Nat /\ bound.events \in 0 .. MaxEvents /\ MaxEvents \in Nat
      /\ bound.texts \subseteq Texts /\ bound.answers \subseteq Decisions /\ MaxStale \in Nat
      /\ None \notin Phases /\ events \in 0 .. bound.events
  BY AgentConstants DEF TypeInv, WorldType
<1>2. /\ bound' = bound /\ phase' \in Phases
      /\ \/ events' = events /\ (phase' = phase \/ phase' \notin {"FINISHED", "IDLE"})
         \/ events < bound.events /\ events' = events + 1
  BY WorldSteps
<1>3. WorldType'
  BY <1>1, <1>2 DEF WorldType
<1>4. BoardType'
  <2>1. SwitchType
    BY DEF TypeInv, BoardType
  <2>2. SwitchType'
    BY <2>1, SwitchSteps DEF TypeInv, LocalsType
  <2>3. NoMessage \in Messages
    BY <1>1 DEF Messages, NoMessage
  <2>4. board'.intent \in Messages /\ h'.posts \in 0 .. events'
    <3>1. CASE board'.intent \in {board.intent, NoMessage} /\ h'.posts = h.posts
      BY <1>1, <1>2, <2>3, <3>1 DEF TypeInv, BoardType
    <3>2. ASSUME NEW text \in bound.texts,
                 board'.intent = [text |-> text, post |-> h.posts + 1],
                 h'.posts = h.posts + 1, events' = events + 1
          PROVE  board'.intent \in Messages /\ h'.posts \in 0 .. events'
      <4>1. h.posts + 1 \in 0 .. MaxEvents /\ h.posts + 1 \in 0 .. events + 1
        BY <1>1, <1>2, <3>2 DEF TypeInv, BoardType
      <4> QED BY <1>1, <3>2, <4>1 DEF Messages
    <3> QED BY <3>1, <3>2, IntentSteps
  <2>5. board'.cooldown \in Tools \cup {None}
    BY CooldownSteps DEF TypeInv, BoardType
  <2> QED BY <2>2, <2>4, <2>5 DEF BoardType
<1>5. LedgerType'
  BY RowsSteps, MarksStep DEF LedgerType
<1>6. Len(rows) \in Nat /\ Len(rows') \in Nat /\ Len(rows') >= Len(rows)
  BY RowsSteps
<1>7. LocalsType'
  <2>1. NoMessage \in Messages /\ Wait \in Decisions
    BY <1>1 DEF Messages, NoMessage, Decisions
  <2>2. a'.retries \in 0 .. MaxStale
    BY <1>1, LocalsSteps DEF RetriesStep, TypeInv, LocalsType
  <2>3. a'.last \in Messages /\ a'.raw \in Messages
    BY <2>1, LocalsSteps DEF MessagesKept, TypeInv, LocalsType, BoardType
  <2>4. a'.decision \in Decisions
    BY <1>1, <2>1, LocalsSteps DEF DecisionsKept, AnswerComes, TypeInv, LocalsType
  <2>5. a'.processed \subseteq 1 .. Len(rows')
    <3>1. a'.processed \subseteq a.processed \cup Scanned
      BY LocalsSteps DEF LocalsKept
    <3>2. a.processed \subseteq 1 .. Len(rows) /\ Scanned \subseteq 1 .. Len(rows)
      BY ScanIsTyped DEF TypeInv, LocalsType
    <3>3. 1 .. Len(rows) \subseteq 1 .. Len(rows')
      BY <1>6
    <3> QED BY <3>1, <3>2, <3>3, Zenon
  <2>6. a'.pc \in {"pop", "propose"} => Head(a'.taken) \in Nat
    <3>1. board.queue # <<>> => Head(board.queue) \in Nat
      BY TailElements DEF QueueInv
    <3> QED BY <3>1, LocalsSteps DEF TakenKept, TypeInv, LocalsType
  <2> QED BY <2>2, <2>3, <2>4, <2>5, <2>6 DEF LocalsType
<1>8. /\ Pending \in {0, 1} /\ Pending' \in {0, 1} /\ Pending' <= Pending + (events' - events)
      /\ ReadBoard => Pending' = 0 /\ events' = events
  <2>1. CASE a'.job = a.job /\ ~ReadBoard
    BY <1>1, <1>2, <2>1 DEF Pending
  <2>2. CASE a'.job = None /\ ~ReadBoard
    BY <1>1, <1>2, <2>2 DEF Pending, Phases
  <2>3. CASE ReadBoard
    <3>1. a'.job = phase /\ phase' = phase /\ events' = events
      BY <2>3 DEF ReadBoard, Outside, Fields, AgentFields
    <3> QED BY <1>1, <3>1 DEF Pending
  <2> QED BY <2>1, <2>2, <2>3, LocalsSteps DEF LocalsKept
<1>9. Room'
  <2>1. /\ a.pc \in {"pop", "propose"} => Len(rows) < bound.rows
        /\ a.pc \in {"post", "route"} /\ a.decision # Wait => Len(rows) <= bound.rows
        /\ Pending <= events /\ Len(rows) + Pending <= bound.rows + 2 + events
    BY DEF TypeInv, Room
  <2>2. Pending' <= events'
    BY <1>1, <1>2, <1>8, <2>1
  <2>3. CASE Len(rows') = Len(rows)
    <3>1. a'.pc \in {"pop", "propose"} => Len(rows') < bound'.rows
      BY <1>2, <2>1, <2>3, LocalsSteps DEF TakenKept
    <3>2. AnswerComes /\ a'.decision # Wait => Len(rows) <= bound.rows
      <4> SUFFICES ASSUME NEW d \in bound.answers, Fits(d), d # Wait PROVE Len(rows) <= bound.rows
        BY DEF AnswerComes
      <4>1. Len(RowsAfter(d)) <= bound.rows
        BY DEF Fits
      <4>2. Len(RowsAfter(d)) \in Len(rows) .. Len(rows) + 2
        BY <1>1, RowsAfterIsTyped DEF TypeInv
      <4> QED BY <1>1, <1>6, <4>1, <4>2
    <3>3. a'.pc \in {"post", "route"} /\ a'.decision # Wait => Len(rows') <= bound'.rows
      BY <1>2, <2>1, <2>3, <3>2, LocalsSteps DEF DecisionsKept
    <3>4. Len(rows') + Pending' <= bound'.rows + 2 + events'
      BY <1>1, <1>2, <1>6, <1>8, <2>1, <2>3, SMTT(30)
    <3> QED BY <2>2, <3>1, <3>3, <3>4 DEF Room
  <2>4. CASE ReadBoard /\ Archives /\ Len(rows') = Len(rows) + 1
    <3>1. Pending = 1 /\ Pending' = 0 /\ events' = events
      BY <1>8, <2>4 DEF Archives, Pending
    <3>2. a'.pc = "intent"
      BY <2>4 DEF ReadBoard, Fields, AgentFields
    <3>3. Len(rows') + Pending' <= bound'.rows + 2 + events'
      BY <1>1, <1>2, <1>6, <2>1, <2>4, <3>1
    <3> QED BY <2>2, <3>2, <3>3 DEF Room
  <2>5. CASE ProposeStart /\ Len(rows') = Len(rows) + 1
    <3>1. a.pc = "propose" /\ a'.pc = "sleep"
      BY <2>5, SleptFields DEF ProposeStart, Fields
    <3>2. Len(rows') + Pending' <= bound'.rows + 2 + events'
      BY <1>1, <1>2, <1>6, <2>1, <2>2, <2>5, <3>1, <1>8, SMTT(30)
    <3> QED BY <2>2, <3>1, <3>2 DEF Room
  <2>6. CASE Route /\ a.decision # Wait /\ Len(rows') \in Len(rows) .. Len(rows) + 2
    <3>1. a.pc = "route" /\ a'.pc = "consume"
      BY <2>6 DEF Route, Fields, AgentFields
    <3>2. Len(rows') + Pending' <= bound'.rows + 2 + events'
      BY <1>1, <1>2, <1>6, <2>1, <2>2, <2>6, <3>1, <1>8, SMTT(30)
    <3> QED BY <2>2, <3>1, <3>2 DEF Room
  <2> QED BY <2>3, <2>4, <2>5, <2>6, RowsSteps
<1> QED BY <1>3, <1>4, <1>5, <1>7, <1>9 DEF TypeInv

(* The first state, and what the invariant is for.                          *)
LEMMA TypeInit == AgentInit => TypeInv
<1> SUFFICES ASSUME AgentInit PROVE TypeInv
  OBVIOUS
<1>1. /\ bound \in Scenarios /\ phase = bound.phase /\ rows = <<>> /\ waited = 0 /\ fresh = {} /\ events = 0
      /\ cancel = FALSE /\ ctx = FALSE /\ a = NewAgent /\ board.intent = NoMessage /\ board.cooldown = None
      /\ board.callout = NoCallout /\ board.pause = FALSE /\ board.awaiting = FALSE /\ h.posts = 0
  BY DEF AgentInit
<1>2. bound.phase \in Phases /\ bound.rows \in Nat /\ bound.events \in 0 .. MaxEvents /\ MaxStale \in Nat
      /\ MaxEvents \in Nat
  BY <1>1, AgentConstants
<1>3. NoMessage \in Messages
  BY <1>2 DEF Messages, NoMessage
<1>4. WorldType /\ BoardType
  <2>1. WorldType
    BY <1>1, <1>2 DEF WorldType
  <2>2. h.posts \in 0 .. events
    BY <1>1
  <2>3. board.intent \in Messages /\ board.cooldown \in Tools \cup {None}
    BY <1>1, <1>3
  <2>4. SwitchType
    BY <1>1 DEF SwitchType
  <2> QED BY <2>1, <2>2, <2>3, <2>4 DEF BoardType
<1>5. LedgerType
  <2>1. rows \in Seq(Rows) /\ Len(rows) = 0
    BY <1>1
  <2> QED BY <1>1, <2>1 DEF LedgerType
<1>6. LocalsType
  BY <1>1, <1>2, <1>3, <1>5, NewFields, NewLocals DEF LocalsType, LedgerType, Decisions
<1>7. Room
  <2>1. Pending = 0 /\ Len(rows) = 0
    BY <1>1, NewLocals, AgentConstants DEF Pending, Phases
  <2> QED BY <1>1, <1>2, <2>1, NewFields, NewLocals DEF Room
<1> QED BY <1>4, <1>5, <1>6, <1>7 DEF TypeInv

LEMMA TypesFit == TypeInv /\ KeysInv => AgentTypeOK
<1> SUFFICES ASSUME TypeInv, KeysInv PROVE AgentTypeOK
  OBVIOUS
<1>1. Len(rows) \in Nat /\ DOMAIN rows = 1 .. Len(rows) /\ bound.rows \in Nat /\ events \in Nat /\ Pending \in {0, 1}
  BY AgentConstants DEF TypeInv, LedgerType, WorldType, Pending
<1>2. Len(rows) <= bound.rows + 2 + events
  BY <1>1 DEF TypeInv, Room
<1>3. Len(a.recent) <= 2
  <2>1. \A x, y : Len(<<x>>) = 1 /\ Len(<<x, y>>) = 2 /\ Len(<<>>) = 0
    OBVIOUS
  <2>2. \/ a.recent = <<>> \/ a.recent = <<a.recent[1]>>
        \/ a.recent = <<h.keys[1]>> \/ a.recent = <<h.keys[1], h.keys[2]>>
    BY Zenon DEF KeysInv
  <2>3. Len(a.recent) = 0 \/ Len(a.recent) = 1 \/ Len(a.recent) = 2
    <3>1. CASE a.recent = <<>>
      BY <2>1, <3>1, Zenon
    <3>2. CASE a.recent = <<a.recent[1]>>
      BY <2>1, <3>2, Zenon
    <3>3. CASE a.recent = <<h.keys[1]>>
      BY <2>1, <3>3, Zenon
    <3>4. CASE a.recent = <<h.keys[1], h.keys[2]>>
      BY <2>1, <3>4, Zenon
    <3> QED BY <2>2, <3>1, <3>2, <3>3, <3>4, Zenon
  <2>4. PICK n : n = Len(a.recent)
    OBVIOUS
  <2>5. n <= 2
    <3>1. n = 0 \/ n = 1 \/ n = 2
      BY <2>3, <2>4, Zenon
    <3> QED BY <3>1
  <2> QED BY <2>4, <2>5, Zenon
<1> QED BY <1>1, <1>2, <1>3 DEF TypeInv, WorldType, BoardType, SwitchType, LedgerType, LocalsType, AgentTypeOK

(* loop.py keeps its memory of decisions, its retries and the ledger's      *)
(* length within their bounds, for any scenarios, texts and retries.        *)
LEMMA AgentIsTyped == AgentSpec => []AgentTypeOK
<1>1. AgentInit => Fields /\ TypeInv /\ KeysInv /\ QueueInv
  BY FieldsInit, TypeInit, KeysInit, QueueInit
<1>2. Fields /\ TypeInv /\ KeysInv /\ QueueInv /\ [AgentNext]_agentVars => (Fields /\ TypeInv /\ KeysInv /\ QueueInv)'
  BY FieldsStep, TypeStep, KeysStep, QueueStep
<1> QED BY <1>1, <1>2, TypesFit, PTL DEF AgentSpec

-----------------------------------------------------------------------------
(* The safety process *)

(* A stop was requested for the flags that are alerted on, once.            *)
KernelInv ==
    /\ k \in [pc : {"estop", "agent", "engine", "monitors"}, todo : SUBSET Monitors,
              alerted : SUBSET (Flags \cup Components), grace : BOOLEAN]
    /\ SafetyTypeOK
    /\ \A f \in Flags : stops[f] = IF f \in k.alerted THEN 1 ELSE 0

LEMMA FlagStep ==
    ASSUME KernelInv, NEW f \in Flags, NEW next \in {"agent", "monitors"}, CheckFlag(f, next)
    PROVE  KernelInv'
<1> DEFINE n == IF Stops(f) THEN stops[f] + 1 ELSE IF f \in raised THEN stops[f] ELSE 0
<1>1. /\ stops' = [stops EXCEPT ![f] = n]
      /\ raised' = raised /\ beats' = beats /\ stale' = stale
    BY DEF CheckFlag
<1>2. /\ k' \in [pc : {"estop", "agent", "engine", "monitors"}, todo : SUBSET Monitors,
                 alerted : SUBSET (Flags \cup Components), grace : BOOLEAN]
      /\ k'.alerted = Alerted(f)
  BY DEF CheckFlag, KernelInv, Alerted
<1>3. n = IF f \in Alerted(f) THEN 1 ELSE 0
  BY DEF KernelInv, Stops, Alerted
<1>4. \A g \in Flags \ {f} : g \in Alerted(f) <=> g \in k.alerted
  BY DEF Alerted
<1> HIDE DEF n
<1>5. stops' \in [Flags -> Nat] /\ \A g \in Flags : stops'[g] = IF g \in k'.alerted THEN 1 ELSE 0
  BY <1>1, <1>2, <1>3, <1>4 DEF KernelInv, SafetyTypeOK
<1> QED BY <1>1, <1>2, <1>5 DEF KernelInv, SafetyTypeOK

LEMMA KernelStepKeeps == KernelInv /\ [SafetyNext]_safetyVars => KernelInv'
<1> SUFFICES ASSUME KernelInv, [SafetyNext]_safetyVars PROVE KernelInv'
  OBVIOUS
<1>1. CASE CheckEstop
  BY <1>1, FlagStep DEF CheckEstop, Flags
<1>2. CASE CheckMonitor
  BY <1>2, FlagStep DEF CheckMonitor, Flags, KernelInv
<1>3. ASSUME NEW c \in Components, NEW next \in {"engine", "monitors"}, CheckBeat(c, next) PROVE KernelInv'
  <2>1. c \notin Flags
    BY SafetyConstants DEF Flags, Components
  <2>2. /\ k' \in [pc : {"estop", "agent", "engine", "monitors"}, todo : SUBSET Monitors,
                   alerted : SUBSET (Flags \cup Components), grace : BOOLEAN]
        /\ \A f \in Flags : f \in k'.alerted <=> f \in k.alerted
    BY <1>3, <2>1 DEF CheckBeat, KernelInv
  <2>3. raised' = raised /\ beats' = beats /\ stops' = stops /\ stale' \subseteq Components
    BY <1>3 DEF CheckBeat, KernelInv, SafetyTypeOK
  <2> QED BY <2>2, <2>3 DEF KernelInv, SafetyTypeOK
<1>4. CASE CheckDone \/ CheckFails \/ GraceEnds
  <2>1. /\ k' \in [pc : {"estop", "agent", "engine", "monitors"}, todo : SUBSET Monitors,
                   alerted : SUBSET (Flags \cup Components), grace : BOOLEAN]
        /\ k'.alerted = k.alerted /\ UNCHANGED <<raised, beats, stale, stops>>
    BY <1>4 DEF CheckDone, CheckFails, GraceEnds, KernelInv
  <2> QED BY <2>1 DEF KernelInv, SafetyTypeOK
<1>5. CASE \E f \in Flags : Raise(f) \/ Lower(f)
  BY <1>5 DEF Raise, Lower, KernelInv, SafetyTypeOK
<1>6. CASE \E c \in Components : BeatLost(c) \/ BeatAges(c) \/ Beat(c) \/ StaleExpires(c)
  <2>1. UNCHANGED <<raised, k, stops>> /\ stale' \subseteq stale /\ beats' \in [Components -> {"fresh", "old", "gone"}]
    BY <1>6 DEF BeatLost, BeatAges, Beat, StaleExpires, KernelInv, SafetyTypeOK
  <2> QED BY <2>1 DEF KernelInv, SafetyTypeOK
<1>7. CASE UNCHANGED safetyVars
  BY <1>7 DEF safetyVars, KernelInv, SafetyTypeOK
<1> QED BY <1>1, <1>2, <1>3, <1>4, <1>5, <1>6, <1>7 DEF SafetyNext, KernelStep, Troubles, Components

(* kernel_main.py:69, 81: however long a flag stays on, and whichever       *)
(* checks fail, the kernel requests one stop for it, for any monitors.      *)
THEOREM OneStopPerActivation == SafetySpec => [](SafetyTypeOK /\ OneStopPerFlag)
<1>1. SafetyInit => KernelInv
  BY DEF SafetyInit, KernelInv, SafetyTypeOK, Flags, Components
<1>2. KernelInv => SafetyTypeOK /\ OneStopPerFlag
  BY DEF KernelInv, OneStopPerFlag
<1> QED BY <1>1, <1>2, KernelStepKeeps, PTL DEF SafetySpec

-----------------------------------------------------------------------------
(* The agent and the safety process beside it stay well typed, and the      *)
(* ledger no longer than its decisions and the printer's events explain     *)
(* (loop.py run_once, kernel_main.py run_kernel), for any scenarios, texts, *)
(* retries and monitors.                                                    *)
THEOREM WellTyped == Spec => []Types
<1>1. Init => AgentInit /\ SafetyInit
  BY DEF Init
<1>2. [Next]_vars => [AgentNext]_agentVars /\ [SafetyNext]_safetyVars
  BY DEF Next, InAgent, InSafety, vars
<1>3. Types <=> AgentTypeOK /\ SafetyTypeOK
  BY DEF Types
<1>4. Spec => AgentSpec /\ SafetySpec
  BY <1>1, <1>2, PTL DEF Spec, AgentSpec, SafetySpec
<1> QED BY <1>3, <1>4, AgentIsTyped, OneStopPerActivation, PTL

=============================================================================
