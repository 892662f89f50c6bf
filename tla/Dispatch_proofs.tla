---- MODULE Dispatch_proofs ----
(***************************************************************************)
(* Proofs about the first-generation engine: LedgerInv, AtMostOnce,        *)
(* ChainOrder and GatesHold for any commands, any number of rows and any   *)
(* number of crashes, exceptions and operators' decisions.                 *)
(*                                                                         *)
(* None of them is inductive.  What a gate has found out must still hold   *)
(* when the row is dispatched several steps later, so the inductive        *)
(* invariant says for every label of process_proposal what the gates       *)
(* before it established, and for every snapshot that the rows in it still *)
(* have the status they were selected by.                                  *)
(***************************************************************************)
EXTENDS Dispatch, FiniteSetTheorems, WellFoundedInduction, TLAPS

Waiting == {"PROPOSED", "WAITING_APPROVAL"}

(* The labels after MarkDispatched and Bypass.                              *)
Running == {"bypass", "execute", "record", "settle", "handler", "fail"}
(* The labels after a gate.                                                 *)
PastChain    == InHand \ {"chain", "bypass"}
PastStop     == {"guard", "deadline", "approval", "precheck", "diary", "dispatch", "execute"}
PastGuard    == {"deadline", "approval", "precheck", "diary", "dispatch"}
PastApproval == {"precheck", "diary", "dispatch", "execute", "record", "settle", "handler", "fail"}

Entry(i) == diary[Key(i)]
Approved(i) == \E n \in 1 .. Len(approvals[i]) : approvals[i][n] = "APPROVE"

(* The agent's memory of the chain it is proposing.                         *)
DraftOK ==
    /\ draft \in [links : Seq(Commands), chain : 0 .. MaxActions, seq : Nat]
    /\ draft.seq + Len(draft.links) <= MaxChain

(* Ledger.propose: the suffixes of a command are below the number of its    *)
(* rows, and chain ids are the agent's, in the order of its links.          *)
RetryBelow == \A i \in Rows : rows[i].retry < Cardinality(Attempts(Cmd(i)))
ChainIds ==
    /\ \A i \in Rows : rows[i].chain <= Len(rows)
    /\ draft.chain <= Len(rows) + 1
    /\ draft.links # <<>> =>
           draft.chain # 0 /\ \A i \in Rows : rows[i].chain = draft.chain => rows[i].seq < draft.seq

(* What poll_once and reconcile hold: the row in hand and the rest of the   *)
(* snapshot, which nobody else changes.                                     *)
Snapshot ==
    /\ pc \in InHand \cup {"scan"} => phase \in Waiting /\ \A i \in todo : status[i] = phase
    /\ pc = "reconcile" => \A i \in todo : status[i] = "DISPATCHED"
    /\ pc \in InHand => cur \notin todo
    /\ pc \in Gates => status[cur] \in Waiting
    /\ pc \in Running => status[cur] = "DISPATCHED"
    /\ pc = "bypass" => ~Hardware(cur)
    /\ pc \in PastChain => Hardware(cur)

(* The diary is written before and after the movement, and the ledger last. *)
Unwritten ==
    \A k \in Keys : (\A i \in Rows : Key(i) # k) => effects[k] = 0 /\ diary[k] = "NONE"
SuccessMoved ==
    \A k \in Keys : /\ diary[k] = "SUCCESS" => effects[k] > 0
                    /\ diary[k] = "NONE" => effects[k] = 0
InHandRecords ==
    /\ pc \in {"dispatch", "execute", "record"} => Entry(cur) = "IN_FLIGHT"
    /\ pc = "execute" => effects[Key(cur)] = 0
    /\ pc \in {"record", "settle"} => (result = "ok" => effects[Key(cur)] > 0)
    /\ pc = "settle" => Entry(cur) = IF result = "ok" THEN "SUCCESS" ELSE "FAILED"
    /\ pc \in {"handler", "fail"} => result = "error"
    /\ pc = "fail" => Entry(cur) = "FAILED"

(* What the gates established.                                              *)
ChainPassed == pc \in PastChain /\ rows[cur].chain # 0 => \A j \in EarlierSteps(cur) : status[j] = "DONE"
GuardPassed == pc \in PastGuard => ~HasInflight(cur)
ApprovalPassed == pc \in PastApproval /\ Cmd(cur) \in NeedsApproval => Approved(cur)
StopPassed ==
    /\ ~estop => sinceStop = 0
    /\ pc \in PastStop => sinceStop = 0

(* The ledger's rows; the records of them; the proposal in hand.            *)
RowsInv == DraftOK /\ KeysDistinct /\ RetryBelow /\ ChainIds
RecordsInv ==
    /\ Unwritten /\ SuccessMoved /\ RecordsAgree /\ AtMostOnce
    /\ OneInFlight /\ ChainOrder /\ OnlyApproved
HandInv ==
    /\ Snapshot /\ InHandRecords
    /\ ChainPassed /\ GuardPassed /\ ApprovalPassed /\ StopPassed /\ EstopBlocks

DispatchInv == TypeOK /\ RowsInv /\ RecordsInv /\ HandInv

Row == [cmd : Commands, retry : 0 .. MaxActions - 1, chain : 0 .. MaxActions,
        seq : 0 .. MaxChain, born : 0 .. MaxTime, mono : 0 .. MaxTime]

(* The bounds are natural numbers.                                          *)
LEMMA Bounds ==
    /\ MaxAge \in Nat /\ ApprovalTimeout \in Nat /\ MaxChain \in Nat /\ MaxActions \in Nat
    /\ MaxDecisions \in Nat /\ MaxFaults \in Nat /\ ProposeUntil \in Nat /\ MaxTime \in Nat
BY DispatchAssumption

(* An empty ledger satisfies everything.                                    *)
LEMMA InvInit == Init => DispatchInv
<1> SUFFICES ASSUME Init PROVE DispatchInv
  OBVIOUS
<1> USE Bounds DEF Init, Rows
<1>1. TypeOK
  <2>1. rows \in Seq(Row)
    OBVIOUS
  <2>2. Len(rows) <= MaxActions /\ todo \subseteq Rows /\ cur \in Rows \cup {0}
    OBVIOUS
  <2>3. status \in [Ids -> Statuses \cup {"ABSENT"}] /\ \A i \in Ids : status[i] = "ABSENT" <=> i > Len(rows)
    BY DEF Ids
  <2>4. approvals \in [Ids -> Seq({"APPROVE", "REJECT"})]
    OBVIOUS
  <2>5. diary \in [Keys -> {"NONE", "IN_FLIGHT", "SUCCESS", "FAILED"}] /\ effects \in [Keys -> Nat]
    OBVIOUS
  <2>6. /\ estop \in BOOLEAN /\ pc \in InHand \cup {"down", "reconcile", "sleep", "scan"}
        /\ phase \in {"none", "PROPOSED", "WAITING_APPROVAL"} /\ pc \notin InHand
        /\ result \in {"none", "ok", "error"}
    BY DEF InHand, Gates
  <2>7. clock \in 0 .. MaxTime /\ bootAt \in 0 .. clock /\ faults \in 0 .. MaxFaults /\ sinceStop \in Nat
    OBVIOUS
  <2> HIDE DEF Init, Rows
  <2> QED BY <2>1, <2>2, <2>3, <2>4, <2>5, <2>6, <2>7, Zenon DEF TypeOK, Row
<1>2. RowsInv
  BY DEF RowsInv, DraftOK, KeysDistinct, RetryBelow, ChainIds
<1>3. RecordsInv
  BY DEF RecordsInv, Unwritten, SuccessMoved, RecordsAgree, AtMostOnce, OneInFlight, WithStatus,
         ChainOrder, OnlyApproved
<1>4. HandInv
  BY DEF HandInv, Snapshot, InHandRecords, GuardPassed, ChainPassed, ApprovalPassed, StopPassed,
         EstopBlocks, InHand, Gates, Running, PastChain, PastGuard, PastApproval, PastStop
<1> QED
  BY <1>1, <1>2, <1>3, <1>4 DEF DispatchInv

(* Oldest picks a member.                                                   *)
LEMMA OldestIn ==
    ASSUME NEW S \in SUBSET Nat, S # {}
    PROVE  Oldest(S) \in S
<1> DEFINE less == {e \in Nat \X Nat : e[1] < e[2]}
<1>1. IsWellFoundedOn(less, Nat)
  BY NatLessThanWellFounded DEF OpToRel
<1>2. PICK i \in S : \A j \in S : ~(<<j, i>> \in less)
  <2> HIDE DEF less
  <2> QED BY <1>1, WFMin
<1>3. ASSUME NEW j \in S PROVE i <= j
  <2>1. ~(<<j, i>> \in less)
    BY <1>2
  <2>2. ~(j < i)
    BY <2>1
  <2> QED BY <2>2
<1> QED BY <1>3 DEF Oldest

(* What TypeOK says of a row.                                               *)
LEMMA RowFacts ==
    ASSUME TypeOK
    PROVE  /\ Rows \subseteq Ids /\ Rows \subseteq Nat /\ Len(rows) \in Nat
           /\ \A i \in Rows : /\ rows[i] \in Row /\ Cmd(i) \in Commands /\ Key(i) \in Keys
                              /\ status[i] \in Statuses
<1> USE Bounds
<1>1. rows \in Seq(Row) /\ Len(rows) <= MaxActions /\ Len(rows) \in Nat
  BY DEF TypeOK, Row
<1>2. Rows \subseteq Ids /\ Rows \subseteq Nat
  BY <1>1 DEF Rows, Ids
<1>3. ASSUME NEW i \in Rows PROVE rows[i] \in Row /\ Cmd(i) \in Commands /\ Key(i) \in Keys
  <2>1. rows[i] \in Row
    BY <1>1 DEF Rows
  <2>2. Cmd(i) \in Commands /\ rows[i].retry \in 0 .. MaxActions - 1
    BY <2>1 DEF Row, Cmd
  <2> QED BY <2>1, <2>2 DEF Key, Keys, Cmd
<1>4. ASSUME NEW i \in Rows PROVE status[i] \in Statuses
  <2>1. i \in Ids /\ ~(i > Len(rows))
    BY <1>1, <1>2 DEF Rows
  <2> QED BY <2>1 DEF TypeOK
<1> QED BY <1>1, <1>2, <1>3, <1>4

-----------------------------------------------------------------------------
(* Steps that add no row *)

(* The ledger's rows and the agent's draft are left alone, or the draft is  *)
(* lost with the agent.                                                     *)
LEMMA RowsKept ==
    ASSUME TypeOK, RowsInv, rows' = rows, draft' \in {draft, [draft EXCEPT !.links = <<>>]}
    PROVE  RowsInv'
<1>1. draft \in [links : Seq(Commands), chain : 0 .. MaxActions, seq : Nat]
  BY DEF RowsInv, DraftOK
<1>2. draft'.chain = draft.chain /\ draft'.seq = draft.seq /\ draft'.links \in {draft.links, <<>>}
  BY <1>1
<1>3. DraftOK'
  <2>1. Len(draft'.links) \in Nat /\ Len(draft'.links) <= Len(draft.links)
    BY <1>1, <1>2
  <2>2. draft.seq \in Nat /\ draft.seq + Len(draft.links) <= MaxChain /\ Len(draft.links) \in Nat
    BY <1>1 DEF RowsInv, DraftOK
  <2>3. draft' \in [links : Seq(Commands), chain : 0 .. MaxActions, seq : Nat]
    <3>1. <<>> \in Seq(Commands)
      OBVIOUS
    <3> QED BY <1>1, <3>1, Zenon
  <2> QED BY <2>1, <2>2, <2>3, <1>2, Bounds, SMTT(30) DEF DraftOK
<1>4. KeysDistinct' /\ RetryBelow'
  BY DEF RowsInv, KeysDistinct, RetryBelow, Rows, Key, Cmd, Attempts
<1>5. ChainIds'
  BY <1>2 DEF RowsInv, ChainIds, Rows
<1> QED BY <1>3, <1>4, <1>5 DEF RowsInv

Recorded == <<status, approvals, diary, effects>>

(* The records are left alone.                                              *)
LEMMA RecordsKept ==
    ASSUME RecordsInv, rows' = rows, UNCHANGED Recorded
    PROVE  RecordsInv'
BY DEF RecordsInv, Recorded, Unwritten, SuccessMoved, RecordsAgree, AtMostOnce, OneInFlight, WithStatus,
       ChainOrder, EarlierSteps, OnlyApproved, Rows, Key, Cmd, Hardware

(* A row in Waiting is turned away or made to wait.                         *)
LEMMA RecordsTurnedAway ==
    ASSUME TypeOK, RecordsInv, rows' = rows, UNCHANGED <<approvals, diary, effects>>,
           NEW i \in Rows, status[i] \in Waiting,
           NEW s \in {"REJECTED", "WAITING_APPROVAL"}, status' = [status EXCEPT ![i] = s]
    PROVE  RecordsInv'
<1>1. status \in [Ids -> Statuses \cup {"ABSENT"}] /\ Rows \subseteq Ids
  BY RowFacts DEF TypeOK
<1>2. /\ \A j \in Rows : status'[j] = IF j = i THEN s ELSE status[j]
      /\ Rows' = Rows
  BY <1>1 DEF Rows
<1>3. Unwritten' /\ SuccessMoved' /\ AtMostOnce'
  BY DEF RecordsInv, Unwritten, SuccessMoved, AtMostOnce, Rows, Key
<1>4. RecordsAgree'
  BY <1>2 DEF RecordsInv, RecordsAgree, Key, Cmd, Hardware, Waiting
<1>5. OneInFlight'
  BY <1>2 DEF RecordsInv, OneInFlight, WithStatus, Cmd, Hardware
<1>6. ChainOrder'
  BY <1>2 DEF RecordsInv, ChainOrder, EarlierSteps, Started, Cmd, Hardware, Waiting
<1>7. OnlyApproved'
  BY <1>2 DEF RecordsInv, OnlyApproved, Started, Cmd
<1> QED BY <1>3, <1>4, <1>5, <1>6, <1>7 DEF RecordsInv

(* A row in Waiting is dispatched: past the gates if it is hardware.        *)
LEMMA RecordsDispatched ==
    ASSUME TypeOK, RecordsInv, rows' = rows, UNCHANGED <<approvals, diary, effects>>,
           NEW i \in Rows, status[i] \in Waiting, status' = [status EXCEPT ![i] = "DISPATCHED"],
           Hardware(i) => ~HasInflight(i),
           Hardware(i) /\ rows[i].chain # 0 => \A j \in EarlierSteps(i) : status[j] = "DONE",
           Cmd(i) \in NeedsApproval => Approved(i)
    PROVE  RecordsInv'
<1>1. status \in [Ids -> Statuses \cup {"ABSENT"}] /\ Rows \subseteq Ids
  BY RowFacts DEF TypeOK
<1>2. /\ \A j \in Rows : status'[j] = IF j = i THEN "DISPATCHED" ELSE status[j]
      /\ Rows' = Rows
  BY <1>1 DEF Rows
<1>3. Unwritten' /\ SuccessMoved' /\ AtMostOnce'
  BY DEF RecordsInv, Unwritten, SuccessMoved, AtMostOnce, Rows, Key
<1>4. RecordsAgree'
  BY <1>2 DEF RecordsInv, RecordsAgree, Key, Cmd, Hardware
<1>5. OneInFlight'
  BY <1>2 DEF RecordsInv, OneInFlight, WithStatus, HasInflight, Cmd, Hardware
<1>6. ChainOrder'
  BY <1>2 DEF RecordsInv, ChainOrder, EarlierSteps, Started, Cmd, Hardware, Waiting
<1>7. OnlyApproved'
  BY <1>2 DEF RecordsInv, OnlyApproved, Approved, Started, Cmd
<1> QED BY <1>3, <1>4, <1>5, <1>6, <1>7 DEF RecordsInv

(* A DISPATCHED row is closed with a status the diary bears out.            *)
LEMMA RecordsClosed ==
    ASSUME TypeOK, RecordsInv, rows' = rows, UNCHANGED <<approvals, diary, effects>>,
           NEW i \in Rows, status[i] = "DISPATCHED",
           NEW s \in {"DONE", "FAILED", "UNKNOWN"}, status' = [status EXCEPT ![i] = s],
           Hardware(i) => /\ s = "DONE" => Entry(i) = "SUCCESS"
                          /\ s = "UNKNOWN" => Entry(i) = "IN_FLIGHT"
    PROVE  RecordsInv'
<1>1. status \in [Ids -> Statuses \cup {"ABSENT"}] /\ Rows \subseteq Ids /\ Key(i) \in Keys
  BY RowFacts DEF TypeOK
<1>2. /\ \A j \in Rows : status'[j] = IF j = i THEN s ELSE status[j]
      /\ Rows' = Rows
  BY <1>1 DEF Rows
<1>3. Unwritten' /\ SuccessMoved' /\ AtMostOnce'
  BY DEF RecordsInv, Unwritten, SuccessMoved, AtMostOnce, Rows, Key
<1>4. RecordsAgree'
  BY <1>1, <1>2 DEF RecordsInv, RecordsAgree, SuccessMoved, Key, Cmd, Hardware, Entry
<1>5. OneInFlight'
  BY <1>2 DEF RecordsInv, OneInFlight, WithStatus, Cmd, Hardware
<1>6. ChainOrder'
  BY <1>2 DEF RecordsInv, ChainOrder, EarlierSteps, Started, Cmd, Hardware
<1>7. OnlyApproved'
  BY <1>2 DEF RecordsInv, OnlyApproved, Started, Cmd
<1> QED BY <1>3, <1>4, <1>5, <1>6, <1>7 DEF RecordsInv

(* The diary is written for a row that is waiting or DISPATCHED.            *)
LEMMA RecordsWritten ==
    ASSUME TypeOK, RowsInv, RecordsInv, rows' = rows, UNCHANGED <<status, approvals, effects>>,
           NEW i \in Rows, status[i] \in Waiting \cup {"DISPATCHED"},
           NEW d \in {"IN_FLIGHT", "SUCCESS", "FAILED"}, diary' = [diary EXCEPT ![Key(i)] = d],
           d = "SUCCESS" => effects[Key(i)] > 0
    PROVE  RecordsInv'
<1>1. /\ diary \in [Keys -> {"NONE", "IN_FLIGHT", "SUCCESS", "FAILED"}]
      /\ \A j \in Rows : Key(j) \in Keys
  BY RowFacts DEF TypeOK
<1>2. /\ \A k \in Keys : diary'[k] = IF k = Key(i) THEN d ELSE diary[k]
      /\ Rows' = Rows /\ \A j \in Rows : Key(j)' = Key(j)
  BY <1>1 DEF Rows, Key
<1>3. Unwritten'
  BY <1>2 DEF RecordsInv, Unwritten
<1>4. SuccessMoved' /\ AtMostOnce'
  BY <1>2 DEF RecordsInv, SuccessMoved, AtMostOnce
<1>5. RecordsAgree'
  <2> SUFFICES ASSUME NEW j \in Rows, Hardware(j)
               PROVE  /\ effects[Key(j)] > 0 => diary'[Key(j)] # "NONE"
                      /\ status[j] \in {"PROPOSED", "WAITING_APPROVAL", "REJECTED"} => effects[Key(j)] = 0
                      /\ status[j] = "DONE" => effects[Key(j)] > 0 /\ diary'[Key(j)] = "SUCCESS"
                      /\ status[j] = "UNKNOWN" => diary'[Key(j)] = "IN_FLIGHT"
    BY <1>2 DEF RecordsAgree, Hardware, Cmd
  <2>1. CASE j = i
    BY <2>1, <1>1, <1>2 DEF RecordsInv, RecordsAgree, Waiting
  <2>2. CASE j # i
    <3>1. Key(j) # Key(i)
      BY <2>2 DEF RowsInv, KeysDistinct
    <3> QED BY <3>1, <1>1, <1>2 DEF RecordsInv, RecordsAgree
  <2> QED BY <2>1, <2>2
<1>6. OneInFlight' /\ ChainOrder' /\ OnlyApproved'
  BY DEF RecordsInv, OneInFlight, WithStatus, ChainOrder, EarlierSteps, OnlyApproved, Rows, Cmd, Hardware
<1> QED BY <1>3, <1>4, <1>5, <1>6 DEF RecordsInv

(* The hardware moves, or not, for a DISPATCHED row whose diary is open and *)
(* that has not moved it before.                                            *)
LEMMA RecordsMoved ==
    ASSUME TypeOK, RowsInv, RecordsInv, rows' = rows, UNCHANGED <<status, approvals, diary>>,
           NEW i \in Rows, status[i] = "DISPATCHED", Entry(i) = "IN_FLIGHT", effects[Key(i)] = 0,
           NEW n \in {0, 1}, effects' = [effects EXCEPT ![Key(i)] = n]
    PROVE  RecordsInv'
<1>1. effects \in [Keys -> Nat] /\ \A j \in Rows : Key(j) \in Keys
  BY RowFacts DEF TypeOK
<1>2. /\ \A k \in Keys : effects'[k] = IF k = Key(i) THEN n ELSE effects[k]
      /\ Rows' = Rows /\ \A j \in Rows : Key(j)' = Key(j)
  BY <1>1 DEF Rows, Key
<1>3. Unwritten'
  BY <1>2 DEF RecordsInv, Unwritten
<1>4. SuccessMoved' /\ AtMostOnce'
  BY <1>2 DEF RecordsInv, SuccessMoved, AtMostOnce, Entry
<1>5. RecordsAgree'
  <2> SUFFICES ASSUME NEW j \in Rows, Hardware(j)
               PROVE  /\ effects'[Key(j)] > 0 => diary[Key(j)] # "NONE"
                      /\ status[j] \in {"PROPOSED", "WAITING_APPROVAL", "REJECTED"} => effects'[Key(j)] = 0
                      /\ status[j] = "DONE" => effects'[Key(j)] > 0 /\ diary[Key(j)] = "SUCCESS"
                      /\ status[j] = "UNKNOWN" => diary[Key(j)] = "IN_FLIGHT"
    BY <1>2 DEF RecordsAgree, Hardware, Cmd
  <2>1. CASE j = i
    BY <2>1, <1>1, <1>2 DEF RecordsInv, RecordsAgree, Entry
  <2>2. CASE j # i
    <3>1. Key(j) # Key(i)
      BY <2>2 DEF RowsInv, KeysDistinct
    <3> QED BY <3>1, <1>1, <1>2 DEF RecordsInv, RecordsAgree
  <2> QED BY <2>1, <2>2
<1>6. OneInFlight' /\ ChainOrder' /\ OnlyApproved'
  BY DEF RecordsInv, OneInFlight, WithStatus, ChainOrder, EarlierSteps, OnlyApproved, Rows, Cmd, Hardware
<1> QED BY <1>3, <1>4, <1>5, <1>6 DEF RecordsInv

-----------------------------------------------------------------------------
(* The engine thread *)

(* One row gets a status.                                                   *)
LEMMA StatusTyped ==
    ASSUME TypeOK, NEW i \in Rows, NEW s \in Statuses, status' = [status EXCEPT ![i] = s]
    PROVE  /\ status' \in [Ids -> Statuses \cup {"ABSENT"}]
           /\ \A j \in Ids : status'[j] = "ABSENT" <=> j > Len(rows)
           /\ \A j \in Rows : status'[j] = IF j = i THEN s ELSE status[j]
<1>1. Rows \subseteq Ids /\ ~(i > Len(rows)) /\ status \in [Ids -> Statuses \cup {"ABSENT"}]
  <2>1. Rows \subseteq Ids
    BY RowFacts
  <2>2. ~(i > Len(rows))
    BY RowFacts DEF Rows
  <2> QED BY <2>1, <2>2 DEF TypeOK
<1>2. \A j \in Ids : status[j] = "ABSENT" <=> j > Len(rows)
  BY DEF TypeOK
<1> QED BY <1>1, <1>2 DEF Statuses, Active

(* A row out of poll_once's hands: the gates have nothing to show for.      *)
LEMMA HandEmpty ==
    ASSUME HandInv, rows' = rows, UNCHANGED flagVars, pc' \notin InHand,
           pc' = "scan" => phase' \in Waiting /\ \A i \in todo' : status'[i] = phase',
           pc' = "reconcile" => \A i \in todo' : status'[i] = "DISPATCHED"
    PROVE  HandInv'
BY DEF HandInv, flagVars, Snapshot, InHandRecords, GuardPassed, ChainPassed, ApprovalPassed, StopPassed,
       EstopBlocks, InHand, Gates, Running, PastChain, PastGuard, PastApproval, PastStop

(* The rest of the snapshot is not touched when the row in hand or the one  *)
(* just taken out of it gets a status.                                      *)
LEMMA SnapshotKept ==
    ASSUME TypeOK, NEW i \in Rows, NEW s \in Statuses, status' = [status EXCEPT ![i] = s],
           NEW T \in SUBSET Rows, i \notin T, NEW u, \A j \in T : status[j] = u
    PROVE  \A j \in T : status'[j] = u
<1>1. \A j \in Rows : status'[j] = IF j = i THEN s ELSE status[j]
  BY StatusTyped, ZenonT(30)
<1> QED BY <1>1

(* A gate lets the row pass, ...                                            *)
Passed ==
    \/ pc = "chain" /\ Hardware(cur) /\ Pass("interlock")
       /\ (rows[cur].chain = 0 \/ \A j \in EarlierSteps(cur) : status[j] = "DONE")
    \/ pc = "interlock" /\ ~estop /\ Pass("guard")
    \/ pc = "guard" /\ ~HasInflight(cur) /\ Pass("deadline")
    \/ pc = "deadline" /\ Pass("approval")
    \/ pc = "approval" /\ (Cmd(cur) \in NeedsApproval => Approved(cur)) /\ Pass("precheck")
    \/ pc = "precheck" /\ Pass("diary")

(* ... or process_proposal returns.                                         *)
LEMMA GateOutcome ==
    ASSUME TypeOK, ChainGate \/ InterlockGate \/ QueueGuard \/ DeadlineGate \/ ApprovalGate \/ Precheck
    PROVE  /\ GateOnly /\ pc \in Gates
           /\ Passed \/ Skipped \/ Return("REJECTED") \/ Return("WAITING_APPROVAL")
<1>1. CASE ChainGate
  BY <1>1 DEF ChainGate, Passed, Predecessors, EarlierSteps, Gates
<1>2. CASE InterlockGate
  BY <1>2 DEF InterlockGate, Passed, Gates
<1>3. CASE QueueGuard
  BY <1>3 DEF QueueGuard, Passed, Gates
<1>4. CASE DeadlineGate
  BY <1>4 DEF DeadlineGate, Passed, Gates
<1>5. CASE ApprovalGate
  <2>1. cur \in Rows
    BY <1>5 DEF ApprovalGate, TypeOK, InHand, Gates
  <2>2. approvals[cur] \in Seq({"APPROVE", "REJECT"})
    BY <2>1, RowFacts DEF TypeOK
  <2>3. approvals[cur] # <<>> /\ Latest(cur) = "APPROVE" => Approved(cur)
    <3>1. approvals[cur] # <<>> => Len(approvals[cur]) \in 1 .. Len(approvals[cur])
      BY <2>2
    <3> QED BY <3>1 DEF Latest, Approved
  <2> QED BY <1>5, <2>3 DEF ApprovalGate, Passed, Gates
<1>6. CASE Precheck
  BY <1>6 DEF Precheck, Passed, Gates
<1> QED BY <1>1, <1>2, <1>3, <1>4, <1>5, <1>6

(* The gates.                                                               *)
LEMMA GateStep ==
    ASSUME DispatchInv, ChainGate \/ InterlockGate \/ QueueGuard \/ DeadlineGate \/ ApprovalGate \/ Precheck
    PROVE  TypeOK' /\ RecordsInv' /\ HandInv'
<1>1. TypeOK /\ RecordsInv /\ HandInv /\ GateOnly /\ pc \in Gates /\ pc \in InHand
  BY GateOutcome DEF DispatchInv, InHand
<1>2. /\ cur \in Rows /\ status[cur] \in Waiting /\ phase \in Waiting /\ cur \notin todo /\ todo \subseteq Rows
      /\ \A i \in todo : status[i] = phase
  BY <1>1 DEF TypeOK, HandInv, Snapshot, InHand
<1>3. CASE Passed
  <2> USE <1>1, <1>2, <1>3 DEF GateOnly, EngineOnly, flagVars, timeVars, Passed, Pass
  <2>1. TypeOK'
    BY DEF TypeOK, Rows, InHand, Gates
  <2>2. RecordsInv'
    BY RecordsKept DEF Recorded
  <2>3. Snapshot' /\ InHandRecords'
    BY DEF HandInv, Snapshot, InHandRecords, InHand, Gates, Running, PastChain, Hardware, Cmd
  <2>4. ChainPassed'
    BY DEF HandInv, ChainPassed, EarlierSteps, PastChain, InHand, Gates, Rows
  <2>5. GuardPassed'
    BY DEF HandInv, GuardPassed, HasInflight, WithStatus, Rows, Cmd, PastGuard
  <2>6. ApprovalPassed'
    BY DEF HandInv, ApprovalPassed, Approved, Cmd, PastApproval
  <2>7. StopPassed' /\ EstopBlocks'
    BY DEF HandInv, StopPassed, EstopBlocks, PastStop
  <2> QED BY <2>1, <2>2, <2>3, <2>4, <2>5, <2>6, <2>7 DEF HandInv
<1>4. CASE Skipped
  <2> USE <1>1, <1>2, <1>4 DEF GateOnly, EngineOnly, flagVars, timeVars, Skipped
  <2>1. TypeOK'
    BY DEF TypeOK, Rows, InHand, Gates
  <2>2. RecordsInv'
    BY RecordsKept DEF Recorded
  <2>3. HandInv'
    BY HandEmpty DEF InHand, Gates
  <2> QED BY <2>1, <2>2, <2>3
<1>5. ASSUME NEW s \in {"REJECTED", "WAITING_APPROVAL"}, Return(s) PROVE TypeOK' /\ RecordsInv' /\ HandInv'
  <2> USE <1>1, <1>2, <1>5 DEF GateOnly, EngineOnly, flagVars, timeVars, Return
  <2>1. TypeOK'
    <3>1. s \in Statuses
      BY DEF Statuses, Active
    <3>2. /\ status' \in [Ids -> Statuses \cup {"ABSENT"}]
          /\ \A j \in Ids : status'[j] = "ABSENT" <=> j > Len(rows)
      BY <3>1, StatusTyped
    <3> QED BY <3>2 DEF TypeOK, Rows, InHand, Gates
  <2>2. RecordsInv'
    BY RecordsTurnedAway
  <2>3. HandInv'
    <3>1. s \in Statuses
      BY DEF Statuses, Active
    <3>2. \A j \in todo : status'[j] = phase
      BY <3>1, SnapshotKept
    <3> QED BY <3>2, HandEmpty DEF InHand, Gates
  <2> QED BY <2>1, <2>2, <2>3
<1> QED BY <1>3, <1>4, <1>5, GateOutcome DEF DispatchInv

(* Between proposals: starting, dying, sleeping, polling, reconciling.      *)
LEMMA IdleStep ==
    ASSUME DispatchInv,
           \/ Boot \/ Crash \/ PollRaises \/ ReconcileDone
           \/ PollProposals \/ PollWaiting \/ PollDone \/ PeriodicReconcile
    PROVE  TypeOK' /\ RecordsInv' /\ HandInv'
<1>1. TypeOK /\ RecordsInv /\ HandInv
  BY DEF DispatchInv
<1>2. rows' = rows /\ UNCHANGED <<Recorded, flagVars>> /\ pc' \notin InHand
  BY DEF Boot, Crash, PollRaises, ReconcileDone, PollProposals, PollWaiting, PollDone, PeriodicReconcile,
         EngineOnly, Recorded, ledgerVars, InHand, Gates
<1>3. /\ pc' = "scan" => phase' \in Waiting /\ \A i \in todo' : status'[i] = phase'
      /\ pc' = "reconcile" => \A i \in todo' : status'[i] = "DISPATCHED"
  BY <1>1 DEF HandInv, Snapshot, Boot, Crash, PollRaises, ReconcileDone, PollProposals, PollWaiting, PollDone,
         PeriodicReconcile, EngineOnly, WithStatus, Waiting
<1>4. RecordsInv' /\ HandInv'
  BY <1>1, <1>2, <1>3, RecordsKept, HandEmpty
<1>5. TypeOK'
  <2>1. /\ faults' \in 0 .. MaxFaults /\ clock' = clock /\ bootAt' \in 0 .. clock
    BY <1>1, Bounds, SMTT(30) DEF TypeOK, Boot, Crash, PollRaises, ReconcileDone, PollProposals, PollWaiting, PollDone,
       PeriodicReconcile, EngineOnly, timeVars
  <2>2. /\ pc' \in {"down", "reconcile", "sleep", "scan"} /\ phase' \in {"none", "PROPOSED", "WAITING_APPROVAL"}
        /\ todo' \subseteq Rows /\ cur' \in Rows \cup {0} /\ result' \in {"none", "ok", "error"}
    BY <1>1 DEF TypeOK, Boot, Crash, PollRaises, ReconcileDone, PollProposals, PollWaiting, PollDone,
       PeriodicReconcile, EngineOnly, WithStatus
  <2> QED BY <1>1, <1>2, <2>1, <2>2 DEF TypeOK, Recorded, flagVars, Rows
<1> QED BY <1>4, <1>5

(* poll_once takes the oldest row of its snapshot, turns it away, or goes   *)
(* past it.                                                                 *)
LEMMA TakeStep ==
    ASSUME DispatchInv, TakeProposal \/ TakeWaiting
    PROVE  TypeOK' /\ RecordsInv' /\ HandInv'
<1> DEFINE i == Oldest(todo)
<1>1. TypeOK /\ RecordsInv /\ HandInv
  BY DEF DispatchInv
<1>2. /\ pc = "scan" /\ todo' = todo \ {i} /\ EngineOnly /\ UNCHANGED <<diary, phase, result>>
      /\ Take(i) \/ Skip \/ RejectRow(i)
  BY DEF TakeProposal, TakeWaiting
<1>3. i \in todo
  BY <1>1, RowFacts, OldestIn DEF TakeProposal, TakeWaiting, TypeOK
<1>4. /\ i \in Rows /\ status[i] \in Waiting /\ phase \in Waiting /\ todo \subseteq Rows
      /\ \A j \in todo : status[j] = phase
  BY <1>1, <1>2, <1>3 DEF TypeOK, HandInv, Snapshot
<1> HIDE DEF i
<1> USE DEF EngineOnly, flagVars, timeVars
<1>5. CASE Take(i)
  <2> USE <1>1, <1>2, <1>3, <1>4, <1>5 DEF Take
  <2>1. TypeOK'
    BY DEF TypeOK, Rows, InHand, Gates
  <2>2. RecordsInv'
    BY RecordsKept DEF Recorded
  <2>3. HandInv'
    BY DEF HandInv, Snapshot, InHandRecords, ChainPassed, GuardPassed, ApprovalPassed, StopPassed, EstopBlocks,
           InHand, Gates, Running, PastChain, PastStop, PastGuard, PastApproval
  <2> QED BY <2>1, <2>2, <2>3
<1>6. CASE Skip
  <2> USE <1>1, <1>2, <1>3, <1>4, <1>6 DEF Skip
  <2>1. TypeOK'
    BY DEF TypeOK, Rows, InHand, Gates
  <2>2. RecordsInv'
    BY RecordsKept DEF Recorded
  <2>3. HandInv'
    BY HandEmpty DEF InHand, Gates
  <2> QED BY <2>1, <2>2, <2>3
<1>7. CASE RejectRow(i)
  <2> USE <1>1, <1>2, <1>3, <1>4, <1>7 DEF RejectRow
  <2>0. "REJECTED" \in Statuses
    BY DEF Statuses
  <2>1. TypeOK'
    <3>1. /\ status' \in [Ids -> Statuses \cup {"ABSENT"}]
          /\ \A j \in Ids : status'[j] = "ABSENT" <=> j > Len(rows)
      BY <2>0, StatusTyped
    <3> QED BY <3>1 DEF TypeOK, Rows, InHand, Gates
  <2>2. RecordsInv'
    BY RecordsTurnedAway
  <2>3. \A j \in todo' : status'[j] = phase
    <3>1. todo' \in SUBSET Rows /\ i \notin todo' /\ \A j \in todo' : status[j] = phase
      OBVIOUS
    <3> QED BY <3>1, <2>0, SnapshotKept
  <2>4. HandInv'
    BY <2>3, HandEmpty DEF InHand, Gates
  <2> QED BY <2>1, <2>2, <2>4
<1> QED BY <1>2, <1>5, <1>6, <1>7

(* reconcile closes a DISPATCHED row by what its diary says.                *)
LEMMA ReconcileStep ==
    ASSUME DispatchInv, ReconcileRow
    PROVE  TypeOK' /\ RecordsInv' /\ HandInv'
<1> DEFINE i == Oldest(todo)
           s == Verdict(diary[Key(i)])
<1>1. TypeOK /\ RecordsInv /\ HandInv
  BY DEF DispatchInv
<1>2. i \in todo
  BY <1>1, RowFacts, OldestIn DEF ReconcileRow, TypeOK
<1>3. i \in Rows /\ status[i] = "DISPATCHED" /\ todo \subseteq Rows /\ \A j \in todo : status[j] = "DISPATCHED"
  BY <1>1, <1>2 DEF ReconcileRow, TypeOK, HandInv, Snapshot
<1>4. /\ s \in {"DONE", "FAILED", "UNKNOWN"} /\ s \in Statuses
      /\ s = "DONE" => Entry(i) = "SUCCESS"
      /\ s = "UNKNOWN" => Entry(i) = "IN_FLIGHT"
  BY DEF Verdict, Entry, Statuses, Active
<1>5. /\ status' = [status EXCEPT ![i] = s] /\ todo' = todo \ {i} /\ pc = "reconcile"
      /\ EngineOnly /\ UNCHANGED <<diary, pc, phase, cur, result>>
  BY DEF ReconcileRow
<1> HIDE DEF i, s
<1> USE DEF EngineOnly, flagVars, timeVars
<1>6. TypeOK'
  <2>1. /\ status' \in [Ids -> Statuses \cup {"ABSENT"}]
        /\ \A j \in Ids : status'[j] = "ABSENT" <=> j > Len(rows)
    BY <1>1, <1>3, <1>4, <1>5, StatusTyped
  <2> QED BY <2>1, <1>1, <1>3, <1>5 DEF TypeOK, Rows
<1>7. RecordsInv'
  BY <1>1, <1>3, <1>4, <1>5, RecordsClosed
<1>8. \A j \in todo' : status'[j] = "DISPATCHED"
  <2>1. todo' \in SUBSET Rows /\ i \notin todo' /\ \A j \in todo' : status[j] = "DISPATCHED"
    BY <1>3, <1>5
  <2> QED BY <2>1, <1>1, <1>3, <1>4, <1>5, SnapshotKept
<1>9. HandInv'
  BY <1>1, <1>5, <1>8, HandEmpty DEF InHand, Gates
<1> QED BY <1>6, <1>7, <1>9

(* A row past the gates is run and its result recorded.                     *)
LEMMA RunStep ==
    ASSUME DispatchInv,
           \/ Bypass \/ RunBypass \/ WriteInflight \/ MarkDispatched \/ Execute
           \/ RecordResult \/ Settle \/ RecordRaises
    PROVE  TypeOK' /\ RecordsInv' /\ HandInv'
<1>1. TypeOK /\ RowsInv /\ RecordsInv /\ HandInv
  BY DEF DispatchInv
<1>2. pc \in InHand
  BY DEF Bypass, RunBypass, WriteInflight, MarkDispatched, Execute, RecordResult, Settle, RecordRaises,
         InHand, Gates
<1>3. /\ cur \in Rows /\ Key(cur) \in Keys /\ cur \notin todo /\ todo \subseteq Rows
      /\ phase \in Waiting /\ \A i \in todo : status[i] = phase
  BY <1>1, <1>2, RowFacts DEF TypeOK, HandInv, Snapshot
<1>4. \A s \in Statuses : status' = [status EXCEPT ![cur] = s] =>
          /\ status' \in [Ids -> Statuses \cup {"ABSENT"}]
          /\ \A j \in Ids : status'[j] = "ABSENT" <=> j > Len(rows)
          /\ \A j \in Rows : status'[j] = IF j = cur THEN s ELSE status[j]
          /\ \A j \in todo : status'[j] = phase
  BY <1>1, <1>3, StatusTyped, ZenonT(30)
<1>5. {"DISPATCHED", "DONE", "FAILED"} \subseteq Statuses
  BY DEF Statuses, Active
<1> USE <1>1, <1>3 DEF GateOnly, EngineOnly, ledgerVars, flagVars, timeVars
<1>6. CASE Bypass
  <2> USE <1>6 DEF Bypass
  <2>1. status[cur] \in Waiting
    BY DEF HandInv, Snapshot, Gates
  <2>2. TypeOK'
    BY <1>4, <1>5 DEF TypeOK, Rows, InHand, Gates
  <2>3. RecordsInv'
    <3>1. Cmd(cur) \notin NeedsApproval
      BY DispatchAssumption DEF Hardware
    <3> QED BY <2>1, <3>1, RecordsDispatched
  <2>4. Snapshot'
    BY <1>4, <1>5 DEF Snapshot, InHand, Gates, Running, PastChain, Hardware, Cmd
  <2>5. InHandRecords' /\ ChainPassed' /\ GuardPassed' /\ ApprovalPassed' /\ StopPassed' /\ EstopBlocks'
    BY DEF HandInv, InHandRecords, ChainPassed, GuardPassed, ApprovalPassed, StopPassed,
       EstopBlocks, PastChain, PastStop, PastGuard, PastApproval
  <2> QED BY <2>2, <2>3, <2>4, <2>5 DEF HandInv
<1>7. CASE RunBypass
  <2>1. PICK s \in {"DONE", "FAILED"} : Return(s)
    BY <1>7 DEF RunBypass
  <2> USE <1>7, <2>1 DEF RunBypass, Return
  <2>2. status[cur] = "DISPATCHED" /\ ~Hardware(cur)
    BY DEF HandInv, Snapshot, Running
  <2>3. TypeOK'
    BY <1>4, <1>5 DEF TypeOK, Rows, InHand, Gates
  <2>4. RecordsInv'
    BY <2>2, RecordsClosed
  <2>5. HandInv'
    BY <1>4, <1>5, HandEmpty DEF InHand, Gates
  <2> QED BY <2>3, <2>4, <2>5
<1>8. CASE WriteInflight
  <2> USE <1>8 DEF WriteInflight
  <2>1. status[cur] \in Waiting
    BY DEF HandInv, Snapshot, Gates
  <2>2. TypeOK'
    BY DEF TypeOK, Rows, InHand, Gates
  <2>3. RecordsInv'
    BY <2>1, RecordsWritten
  <2>4. Snapshot' /\ GuardPassed' /\ ChainPassed' /\ ApprovalPassed' /\ StopPassed' /\ EstopBlocks'
    BY DEF HandInv, Snapshot, ChainPassed, EarlierSteps, GuardPassed, HasInflight, WithStatus, ApprovalPassed,
       Approved, StopPassed, EstopBlocks, InHand, Gates, Running, PastChain, PastStop, PastGuard, PastApproval,
       Hardware, Cmd, Rows
  <2>5. InHandRecords'
    BY DEF InHandRecords, Entry, Key, TypeOK
  <2> QED BY <2>2, <2>3, <2>4, <2>5 DEF HandInv
<1>9. CASE MarkDispatched
  <2> USE <1>9 DEF MarkDispatched
  <2>1. status[cur] \in Waiting /\ Hardware(cur) /\ Entry(cur) = "IN_FLIGHT"
    BY DEF HandInv, Snapshot, InHandRecords, Gates, PastChain, InHand
  <2>2. TypeOK'
    BY <1>4, <1>5 DEF TypeOK, Rows, InHand, Gates
  <2>3. /\ ~HasInflight(cur)
        /\ rows[cur].chain # 0 => \A j \in EarlierSteps(cur) : status[j] = "DONE"
        /\ Cmd(cur) \in NeedsApproval => Approved(cur)
    BY DEF HandInv, GuardPassed, ChainPassed, ApprovalPassed, PastGuard, PastChain, PastApproval, InHand, Gates
  <2>4. RecordsInv'
    BY <2>1, <2>3, RecordsDispatched
  <2>5. Snapshot'
    BY <2>1, <1>4, <1>5 DEF Snapshot, Hardware, Cmd, InHand, Gates, Running, PastChain
  <2>6. InHandRecords'
    <3>1. effects[Key(cur)] = 0
      BY <2>1 DEF RecordsInv, RecordsAgree, Waiting
    <3> QED BY <2>1, <3>1 DEF InHandRecords, Entry, Key
  <2>7. ChainPassed'
    BY <2>3, <2>1, <1>4, <1>5 DEF ChainPassed, EarlierSteps, Rows, Waiting
  <2>8. GuardPassed' /\ ApprovalPassed' /\ StopPassed' /\ EstopBlocks'
    BY <2>3 DEF HandInv, GuardPassed, ApprovalPassed, Approved, StopPassed, EstopBlocks, PastStop, PastGuard,
       PastApproval, Cmd
  <2> QED BY <2>2, <2>4, <2>5, <2>6, <2>7, <2>8 DEF HandInv
<1>10. CASE Execute
  <2>1. PICK res \in {"ok", "error"}, moved \in BOOLEAN :
            /\ res = "ok" => moved
            /\ result' = res
            /\ effects' = [effects EXCEPT ![Key(cur)] = IF moved THEN @ + 1 ELSE @]
    BY <1>10 DEF Execute
  <2>2. /\ UNCHANGED <<ledgerVars, estop, draft, phase, todo, cur, timeVars, faults>>
        /\ pc = "execute" /\ pc' = "record"
        /\ sinceStop' = IF estop THEN sinceStop + 1 ELSE 0
    BY <1>10 DEF Execute
  <2>3. /\ status[cur] = "DISPATCHED" /\ Hardware(cur) /\ Entry(cur) = "IN_FLIGHT"
        /\ effects[Key(cur)] = 0 /\ sinceStop = 0
    BY <2>2 DEF HandInv, Snapshot, InHandRecords, StopPassed, Running, PastChain, PastStop, InHand
  <2> DEFINE n == IF moved THEN 1 ELSE 0
  <2>4. /\ n \in {0, 1} /\ n \in Nat /\ effects \in [Keys -> Nat]
        /\ res = "ok" => n = 1
        /\ effects' = [effects EXCEPT ![Key(cur)] = n]
    BY <2>1, <2>3 DEF TypeOK
  <2>5. sinceStop' \in {0, 1}
    BY <2>2, <2>3
  <2> HIDE DEF n
  <2>6. TypeOK'
    <3>1. effects' \in [Keys -> Nat] /\ sinceStop' \in Nat /\ result' \in {"none", "ok", "error"}
      BY <2>1, <2>4, <2>5
    <3> QED BY <2>2, <3>1 DEF TypeOK, Rows, InHand, Gates
  <2>7. RecordsInv'
    BY <2>2, <2>3, <2>4, RecordsMoved
  <2>8. Snapshot' /\ ChainPassed' /\ GuardPassed' /\ ApprovalPassed'
    BY <2>2 DEF HandInv, Snapshot, ChainPassed, EarlierSteps, GuardPassed, ApprovalPassed, Approved,
       InHand, Gates, Running, PastChain, PastGuard, PastApproval, Hardware, Cmd, Rows
  <2>9. InHandRecords'
    <3>1. effects'[Key(cur)] = n
      BY <2>4
    <3> QED BY <3>1, <2>1, <2>2, <2>3, <2>4 DEF InHandRecords, Entry, Key
  <2>10. StopPassed' /\ EstopBlocks'
    BY <2>2, <2>5 DEF StopPassed, EstopBlocks, PastStop
  <2> QED BY <2>6, <2>7, <2>8, <2>9, <2>10 DEF HandInv
<1>11. CASE RecordResult
  <2> USE <1>11 DEF RecordResult
  <2> DEFINE d == IF result = "ok" THEN "SUCCESS" ELSE "FAILED"
  <2>1. /\ status[cur] = "DISPATCHED" /\ d \in {"IN_FLIGHT", "SUCCESS", "FAILED"}
        /\ d = "SUCCESS" => effects[Key(cur)] > 0
    BY DEF HandInv, Snapshot, InHandRecords, Running
  <2>2. diary' = [diary EXCEPT ![Key(cur)] = d] /\ diary \in [Keys -> {"NONE", "IN_FLIGHT", "SUCCESS", "FAILED"}]
    BY DEF TypeOK
  <2>3. TypeOK'
    BY DEF TypeOK, Rows, InHand, Gates
  <2>4. RecordsInv'
    <3> HIDE DEF d
    <3> QED BY <2>1, <2>2, RecordsWritten
  <2>5. Snapshot' /\ GuardPassed' /\ ChainPassed' /\ ApprovalPassed' /\ StopPassed' /\ EstopBlocks'
    BY DEF HandInv, Snapshot, ChainPassed, EarlierSteps, GuardPassed, ApprovalPassed,
       Approved, StopPassed, EstopBlocks, InHand, Gates, Running, PastChain, PastStop, PastGuard, PastApproval,
       Hardware, Cmd, Rows
  <2>6. InHandRecords'
    BY <2>1, <2>2 DEF HandInv, InHandRecords, Entry, Key
  <2> QED BY <2>3, <2>4, <2>5, <2>6 DEF HandInv
<1>12. CASE Settle
  <2> USE <1>12 DEF Settle, Return
  <2> DEFINE s == IF result = "ok" THEN "DONE" ELSE "FAILED"
  <2>1. /\ status[cur] = "DISPATCHED" /\ s \in {"DONE", "FAILED", "UNKNOWN"} /\ s \in Statuses
        /\ status' = [status EXCEPT ![cur] = s]
        /\ s = "DONE" => Entry(cur) = "SUCCESS"
        /\ s # "UNKNOWN"
    BY <1>5 DEF HandInv, Snapshot, InHandRecords, Running
  <2> HIDE DEF s
  <2>2. TypeOK'
    BY <1>4, <2>1 DEF TypeOK, Rows, InHand, Gates
  <2>3. RecordsInv'
    BY <2>1, RecordsClosed
  <2>4. HandInv'
    BY <1>4, <2>1, HandEmpty DEF InHand, Gates
  <2> QED BY <2>2, <2>3, <2>4
<1>13. CASE RecordRaises
  <2> USE <1>13 DEF RecordRaises
  <2>1. TypeOK'
    <3>1. faults' \in 0 .. MaxFaults
      BY Bounds DEF TypeOK
    <3> QED BY <3>1 DEF TypeOK, Rows, InHand, Gates
  <2>2. RecordsInv'
    BY RecordsKept DEF Recorded
  <2>3. HandInv'
    BY DEF HandInv, Snapshot, InHandRecords, Entry, Key, ChainPassed, EarlierSteps, GuardPassed, ApprovalPassed,
       Approved, StopPassed, EstopBlocks, InHand, Gates, Running, PastChain, PastStop, PastGuard, PastApproval,
       Hardware, Cmd, Rows
  <2> QED BY <2>1, <2>2, <2>3
<1> QED BY <1>6, <1>7, <1>8, <1>9, <1>10, <1>11, <1>12, <1>13

-----------------------------------------------------------------------------
(* The other actors *)

(* Nothing but flags, approvals and drafts: the engine does not notice.     *)
LEMMA HandKept ==
    ASSUME TypeOK, HandInv, UNCHANGED <<rows, status, diary, engineVars, effects>>,
           sinceStop' \in {0, sinceStop}, ~estop' => sinceStop' = 0,
           \A i \in Rows : Approved(i) => Approved(i)'
    PROVE  HandInv'
<1>1. Snapshot' /\ InHandRecords' /\ ChainPassed' /\ GuardPassed'
  BY DEF HandInv, Snapshot, InHandRecords, Entry, Key, ChainPassed, EarlierSteps, GuardPassed, HasInflight,
         WithStatus, Hardware, Cmd, Rows, engineVars
<1>2. ApprovalPassed'
  <2>1. pc \in PastApproval => cur \in Rows
    BY DEF TypeOK, PastApproval, InHand, Gates
  <2> QED BY <2>1 DEF HandInv, ApprovalPassed, Cmd, engineVars
<1>3. StopPassed' /\ EstopBlocks'
  BY DEF HandInv, StopPassed, EstopBlocks, engineVars, TypeOK
<1> QED BY <1>1, <1>2, <1>3 DEF HandInv

(* An operator decides about a row.                                         *)
LEMMA ApprovalStep ==
    ASSUME DispatchInv, NEW i \in Rows, NEW decision \in {"APPROVE", "REJECT"}, RecordApproval(i, decision)
    PROVE  DispatchInv'
<1> USE DEF DispatchInv, RecordApproval
<1>1. /\ approvals \in [Ids -> Seq({"APPROVE", "REJECT"})] /\ i \in Ids
      /\ approvals[i] \in Seq({"APPROVE", "REJECT"})
  BY RowFacts DEF TypeOK
<1>2. Append(approvals[i], decision) \in Seq({"APPROVE", "REJECT"})
  BY <1>1
<1>3. TypeOK'
  <2>1. approvals' \in [Ids -> Seq({"APPROVE", "REJECT"})]
    BY <1>1, <1>2
  <2> QED BY <2>1 DEF TypeOK, Rows, flagVars, engineVars, timeVars
<1>4. \A j \in Rows : Approved(j) => Approved(j)'
  <2> SUFFICES ASSUME NEW j \in Rows, Approved(j) PROVE Approved(j)'
    OBVIOUS
  <2>1. CASE j # i
    BY <2>1, <1>1, RowFacts DEF Approved
  <2>2. CASE j = i
    <3>1. PICK n \in 1 .. Len(approvals[i]) : approvals[i][n] = "APPROVE"
      BY <2>2 DEF Approved
    <3>2. approvals'[i] = Append(approvals[i], decision)
      BY <1>1
    <3>3. n \in 1 .. Len(Append(approvals[i], decision)) /\ Append(approvals[i], decision)[n] = "APPROVE"
      BY <3>1, <1>1
    <3> QED BY <2>2, <3>2, <3>3 DEF Approved
  <2> QED BY <2>1, <2>2
<1>5. RowsInv'
  BY RowsKept
<1>6. RecordsInv'
  <2>1. Unwritten' /\ SuccessMoved' /\ RecordsAgree' /\ AtMostOnce' /\ OneInFlight' /\ ChainOrder'
    BY DEF RecordsInv, Unwritten, SuccessMoved, RecordsAgree, AtMostOnce, OneInFlight, WithStatus, ChainOrder,
       EarlierSteps, Rows, Key, Cmd, Hardware
  <2>2. OnlyApproved'
    BY <1>4 DEF RecordsInv, OnlyApproved, Approved, Rows, Cmd
  <2> QED BY <2>1, <2>2 DEF RecordsInv
<1>7. HandInv'
  <2>1. sinceStop' = sinceStop /\ (~estop' => sinceStop' = 0)
    BY DEF flagVars, HandInv, StopPassed
  <2> QED BY <1>4, <2>1, HandKept
<1> QED BY <1>3, <1>5, <1>6, <1>7

(* The emergency stop is raised or expires, time passes, a chain is decided.*)
LEMMA BystanderStep ==
    ASSUME DispatchInv, ToggleEstop \/ Tick \/ DecideChain
    PROVE  DispatchInv'
<1>1. TypeOK /\ RowsInv /\ RecordsInv /\ HandInv
  BY DEF DispatchInv
<1>2. UNCHANGED <<ledgerVars, engineVars, effects, faults, bootAt>>
  BY DEF ToggleEstop, Tick, DecideChain, timeVars
<1>3. RecordsInv'
  BY <1>1, <1>2, RecordsKept DEF Recorded, ledgerVars
<1>4. sinceStop' \in {0, sinceStop} /\ (~estop' => sinceStop' = 0)
  BY <1>1 DEF ToggleEstop, Tick, DecideChain, flagVars, HandInv, StopPassed
<1>5. HandInv'
  BY <1>1, <1>2, <1>4, HandKept DEF ledgerVars, Approved
<1>6. TypeOK'
  <2>1. clock' \in 0 .. MaxTime /\ bootAt \in 0 .. clock'
    BY <1>1, Bounds DEF ToggleEstop, Tick, DecideChain, timeVars, TypeOK
  <2>2. estop' \in BOOLEAN
    BY <1>1, Zenon DEF ToggleEstop, Tick, DecideChain, flagVars, TypeOK
  <2>3. sinceStop' \in Nat
    BY <1>1, <1>4 DEF TypeOK
  <2> QED BY <1>1, <1>2, <2>1, <2>2, <2>3 DEF TypeOK, ledgerVars, engineVars, Rows
<1>7. CASE ~DecideChain
  BY <1>1, <1>2, <1>3, <1>5, <1>6, <1>7, RowsKept DEF ToggleEstop, Tick, ledgerVars, DispatchInv
<1>8. CASE DecideChain
  <2>0. PICK n \in 2 .. MaxChain : \E links \in [1 .. n -> Commands] :
            /\ Len(rows) + n <= MaxActions
            /\ draft' = [links |-> links, chain |-> Len(rows) + 1, seq |-> 0]
    BY <1>8 DEF DecideChain
  <2>1. PICK links \in [1 .. n -> Commands] :
            /\ Len(rows) + n <= MaxActions
            /\ draft' = [links |-> links, chain |-> Len(rows) + 1, seq |-> 0]
    BY <2>0
  <2>2. links \in Seq(Commands) /\ Len(links) = n
    BY <2>1, Bounds
  <2>3. Len(rows) \in Nat /\ \A i \in Rows : rows[i].chain <= Len(rows) /\ rows[i].chain \in Nat
    BY <1>1, RowFacts, Bounds DEF RowsInv, ChainIds, Row
  <2>4. draft'.links = links /\ draft'.chain = Len(rows) + 1 /\ draft'.seq = 0
    BY <2>1
  <2>5. DraftOK'
    <3>1. Len(rows) + 1 \in 0 .. MaxActions
      BY <2>1, <2>3, Bounds
    <3> QED BY <2>1, <2>2, <2>4, <3>1, Bounds DEF DraftOK
  <2>6. ChainIds'
    BY <1>2, <2>3, <2>4 DEF ChainIds, ledgerVars, Rows
  <2>7. KeysDistinct' /\ RetryBelow'
    BY <1>1, <1>2 DEF ledgerVars, RowsInv, KeysDistinct, RetryBelow, Rows, Key, Cmd, Attempts
  <2> QED BY <1>3, <1>5, <1>6, <2>5, <2>6, <2>7 DEF DispatchInv, RowsInv
<1> QED BY <1>7, <1>8

(* The rows of a command are finitely many, at most all of them.            *)
LEMMA AttemptsFinite ==
    ASSUME TypeOK, NEW c
    PROVE  /\ IsFiniteSet(Attempts(c)) /\ Cardinality(Attempts(c)) \in Nat
           /\ Cardinality(Attempts(c)) <= Len(rows)
<1>1. Len(rows) \in Nat /\ Attempts(c) \subseteq 1 .. Len(rows)
  BY RowFacts DEF Attempts, Rows
<1>2. IsFiniteSet(1 .. Len(rows)) /\ Cardinality(1 .. Len(rows)) = Len(rows)
  <2>1. /\ IsFiniteSet(1 .. Len(rows))
        /\ Cardinality(1 .. Len(rows)) = IF 1 > Len(rows) THEN 0 ELSE Len(rows) - 1 + 1
    BY <1>1, FS_Interval, SMTT(30)
  <2> QED BY <1>1, <2>1
<1>3. /\ IsFiniteSet(Attempts(c)) /\ Cardinality(Attempts(c)) <= Cardinality(1 .. Len(rows))
  BY <1>1, <1>2, FS_Subset
<1> QED BY <1>2, <1>3, FS_CardinalityType

(* What Propose does when it adds a row: the old rows stay as they were.    *)
LEMMA RowAdded ==
    ASSUME TypeOK, NEW r \in Row, Len(rows) < MaxActions, rows' = Append(rows, r),
           status' = [status EXCEPT ![Len(rows) + 1] = "PROPOSED"]
    PROVE  LET n == Len(rows) + 1 IN
           /\ n \in Ids /\ n \notin Rows /\ Rows' = Rows \cup {n} /\ Len(rows') = n
           /\ rows' \in Seq(Row) /\ rows'[n] = r /\ status'[n] = "PROPOSED"
           /\ \A i \in Rows : rows'[i] = rows[i] /\ status'[i] = status[i]
           /\ status' \in [Ids -> Statuses \cup {"ABSENT"}]
           /\ \A j \in Ids : status'[j] = "ABSENT" <=> j > n
<1> DEFINE n == Len(rows) + 1
<1> USE Bounds
<1>1. rows \in Seq(Row) /\ Len(rows) \in Nat /\ n \in Ids /\ Rows \subseteq Ids
  <2>1. rows \in Seq(Row)
    BY DEF TypeOK, Row
  <2> QED BY <2>1, RowFacts DEF Ids
<1>2. rows' \in Seq(Row) /\ Len(rows') = n /\ rows'[n] = r /\ \A i \in 1 .. Len(rows) : rows'[i] = rows[i]
  BY <1>1
<1>3. n \notin Rows /\ Rows' = Rows \cup {n}
  BY <1>1, <1>2 DEF Rows
<1>4. /\ status \in [Ids -> Statuses \cup {"ABSENT"}]
      /\ \A i \in Ids : status[i] = "ABSENT" <=> i > Len(rows)
  BY DEF TypeOK
<1>5. \A i \in Ids : status'[i] = IF i = n THEN "PROPOSED" ELSE status[i]
  BY <1>1, <1>4
<1>6. status' \in [Ids -> Statuses \cup {"ABSENT"}]
  BY <1>4 DEF Statuses, Active
<1>7. \A j \in Ids : status'[j] = "ABSENT" <=> j > n
  BY <1>1, <1>4, <1>5 DEF Ids
<1>8. \A i \in Rows : rows'[i] = rows[i] /\ status'[i] = status[i]
  BY <1>1, <1>2, <1>3, <1>5 DEF Rows
<1> QED BY <1>1, <1>2, <1>3, <1>5, <1>6, <1>7, <1>8

(* A row is proposed, alone or as the next link of the agent's chain.       *)
LEMMA ProposeStep ==
    ASSUME DispatchInv, NEW c \in Commands, NEW chain \in 0 .. MaxActions, NEW seq \in 0 .. MaxChain,
           Propose(c, chain, seq), rows' # rows,
           chain <= Len(rows) + 1,
           chain # 0 => \A i \in Rows : rows[i].chain = chain => rows[i].seq < seq,
           UNCHANGED <<approvals, diary, flagVars, engineVars, timeVars, faults, effects>>
    PROVE  /\ TypeOK' /\ KeysDistinct' /\ RetryBelow' /\ RecordsInv' /\ HandInv'
           /\ Len(rows') = Len(rows) + 1
           /\ \A i \in Rows' : /\ rows'[i].chain <= Len(rows')
                               /\ rows'[i].chain = chain /\ chain # 0 => rows'[i].seq < seq + 1
<1> DEFINE r == [cmd |-> c, retry |-> RetryNumber(c), chain |-> chain,
                 seq |-> seq, born |-> clock, mono |-> Monotonic]
<1>0. PICK n : n = Len(rows) + 1
  OBVIOUS
<1>1. TypeOK /\ RowsInv /\ RecordsInv /\ HandInv
  BY DEF DispatchInv
<1>2. /\ Len(rows) < MaxActions /\ rows' = Append(rows, r)
      /\ status' = [status EXCEPT ![Len(rows) + 1] = "PROPOSED"]
  BY DEF Propose
<1>3. /\ r \in Row /\ RetryNumber(c) \in Nat /\ RetryNumber(c) = Cardinality(Attempts(c))
      /\ r.cmd = c /\ r.retry = RetryNumber(c) /\ r.chain = chain /\ r.seq = seq
  <2>1. RetryNumber(c) \in 0 .. MaxActions - 1
    BY <1>1, <1>2, AttemptsFinite, RowFacts, Bounds DEF RetryNumber
  <2>2. clock \in 0 .. MaxTime /\ Monotonic \in 0 .. MaxTime
    BY <1>1, Bounds DEF TypeOK, Monotonic
  <2> QED BY <2>1, <2>2 DEF Row, RetryNumber
<1> HIDE DEF r
<1>4. /\ n \in Ids /\ n \notin Rows /\ Rows' = Rows \cup {n} /\ Len(rows') = n
      /\ rows' \in Seq(Row) /\ rows'[n] = r /\ status'[n] = "PROPOSED"
      /\ \A i \in Rows : rows'[i] = rows[i] /\ status'[i] = status[i]
      /\ status' \in [Ids -> Statuses \cup {"ABSENT"}]
      /\ \A j \in Ids : status'[j] = "ABSENT" <=> j > n
  BY <1>0, <1>1, <1>2, <1>3, RowAdded
<1>5. Len(rows) \in Nat /\ n \in Nat /\ MaxActions \in Nat
  BY <1>0, <1>1, RowFacts, Bounds
<1>6. TypeOK'
  <2>1. Len(rows') <= MaxActions
    BY <1>0, <1>2, <1>4, <1>5
  <2>2. todo' \subseteq Rows' /\ cur' \in Rows' \cup {0} /\ (pc' \in InHand => cur' \in Rows')
    BY <1>1, <1>4 DEF TypeOK, engineVars
  <2>3. UNCHANGED <<approvals, diary, estop, pc, phase, result, clock, bootAt, faults, effects, sinceStop>>
    BY DEF flagVars, engineVars, timeVars
  <2> QED BY <1>1, <1>4, <2>1, <2>2, <2>3 DEF TypeOK, Row
<1>7. \A d : Attempts(d)' = IF d = c THEN Attempts(d) \cup {n} ELSE Attempts(d)
  BY <1>3, <1>4 DEF Attempts, Cmd
<1>8. \A d : /\ IsFiniteSet(Attempts(d)) /\ Cardinality(Attempts(d)) \in Nat
             /\ Cardinality(Attempts(d)') >= Cardinality(Attempts(d)) /\ Cardinality(Attempts(d)') \in Nat
  <2> SUFFICES ASSUME NEW d
               PROVE  /\ Cardinality(Attempts(d)') >= Cardinality(Attempts(d))
                      /\ Cardinality(Attempts(d)') \in Nat
    BY <1>1, AttemptsFinite
  <2>1. IsFiniteSet(Attempts(d)) /\ Cardinality(Attempts(d)) \in Nat
    BY <1>1, AttemptsFinite
  <2>2. Cardinality(Attempts(d) \cup {n}) = IF n \in Attempts(d) THEN Cardinality(Attempts(d)) ELSE Cardinality(Attempts(d)) + 1
    BY <2>1, FS_AddElement
  <2>3. Attempts(d)' = Attempts(d) \/ Attempts(d)' = Attempts(d) \cup {n}
    BY <1>7
  <2>4. Cardinality(Attempts(d)') \in {Cardinality(Attempts(d)), Cardinality(Attempts(d)) + 1}
    BY <2>2, <2>3
  <2> QED BY <2>1, <2>4
<1>9. Cardinality(Attempts(c)') = Cardinality(Attempts(c)) + 1
  <2>1. n \notin Attempts(c)
    BY <1>4 DEF Attempts
  <2>2. IsFiniteSet(Attempts(c)) /\ Attempts(c)' = Attempts(c) \cup {n}
    BY <1>7, <1>8
  <2> QED BY <2>1, <2>2, FS_AddElement
<1>10. RetryBelow'
  <2> SUFFICES ASSUME NEW i \in Rows' PROVE rows'[i].retry < Cardinality(Attempts(Cmd(i)))'
    BY DEF RetryBelow
  <2>0. PICK d : d = Cmd(i)'
    OBVIOUS
  <2>1. CASE i = n
    BY <2>0, <2>1, <1>3, <1>4, <1>8, <1>9 DEF Cmd
  <2>2. CASE i \in Rows
    <3>1. rows[i].retry < Cardinality(Attempts(Cmd(i))) /\ rows[i].retry \in Nat /\ rows'[i] = rows[i]
      BY <2>2, <1>1, <1>4, RowFacts, Bounds, SMTT(30) DEF RowsInv, RetryBelow, Row
    <3>2. d = Cmd(i) /\ Cardinality(Attempts(d)') >= Cardinality(Attempts(d))
      BY <2>0, <3>1, <1>8 DEF Cmd
    <3> QED BY <2>0, <3>1, <3>2, <1>8
  <2> QED BY <2>1, <2>2, <1>4
<1>11a. \A i \in Rows : Key(i) # <<c, RetryNumber(c)>>
  <2> SUFFICES ASSUME NEW i \in Rows, Key(i) = <<c, RetryNumber(c)>> PROVE FALSE
    OBVIOUS
  <2>1. Cmd(i) = c /\ rows[i].retry = Cardinality(Attempts(c))
    BY <1>3 DEF Key, Cmd
  <2>2. rows[i].retry < Cardinality(Attempts(c))
    BY <2>1, <1>1 DEF RowsInv, RetryBelow
  <2> QED BY <2>1, <2>2, <1>8
<1>11. KeysDistinct'
  <2>2. Key(n)' = <<c, RetryNumber(c)>> /\ \A i \in Rows : Key(i)' = Key(i)
    BY <1>3, <1>4 DEF Key
  <2> QED BY <2>2, <1>11a, <1>1, <1>4 DEF RowsInv, KeysDistinct
<1>12. effects[<<c, RetryNumber(c)>>] = 0 /\ diary[<<c, RetryNumber(c)>>] = "NONE"
  <2>1. <<c, RetryNumber(c)>> \in Keys
    BY <1>1, <1>2, AttemptsFinite, RowFacts, Bounds DEF RetryNumber, Keys
  <2>2. \A i \in Rows : Key(i) # <<c, RetryNumber(c)>>
    BY <1>11a
  <2> QED BY <2>1, <2>2, <1>1 DEF RecordsInv, Unwritten
<1>13. Key(n)' = <<c, RetryNumber(c)>> /\ Cmd(n)' = c /\ \A i \in Rows : Key(i)' = Key(i) /\ Cmd(i)' = Cmd(i)
  BY <1>3, <1>4 DEF Key, Cmd
<1>14. \A i \in Rows : EarlierSteps(i)' = EarlierSteps(i) \/ rows[i].chain = 0
  <2> SUFFICES ASSUME NEW i \in Rows, rows[i].chain # 0 PROVE EarlierSteps(i)' = EarlierSteps(i)
    OBVIOUS
  <2>1. rows[i].seq \in Nat /\ seq \in Nat /\ (rows[i].chain = chain => rows[i].seq < seq)
    BY <1>1, RowFacts, Bounds, SMTT(30) DEF Row
  <2>2. ~(chain = rows[i].chain /\ seq < rows[i].seq)
    BY <2>1
  <2> QED BY <2>2, <1>3, <1>4 DEF EarlierSteps
<1>15. \A i : Approved(i)' = Approved(i)
  BY DEF Approved
<1>16. RecordsInv'
  <2>1. Unwritten' /\ SuccessMoved' /\ AtMostOnce'
    BY <1>1, <1>4, <1>13 DEF RecordsInv, Unwritten, SuccessMoved, AtMostOnce
  <2>2. RecordsAgree'
    BY <1>1, <1>4, <1>12, <1>13 DEF RecordsInv, RecordsAgree, Hardware
  <2>3. OneInFlight'
    BY <1>1, <1>4, <1>13 DEF RecordsInv, OneInFlight, WithStatus, Hardware
  <2>4. ChainOrder'
    <3>1. \A i \in Rows : EarlierSteps(i) \subseteq Rows
      BY DEF EarlierSteps
    <3> QED BY <3>1, <1>1, <1>4, <1>13, <1>14 DEF RecordsInv, ChainOrder, Started, Hardware
  <2>5. OnlyApproved'
    BY <1>1, <1>4, <1>13 DEF RecordsInv, OnlyApproved, Started
  <2> QED BY <2>1, <2>2, <2>3, <2>4, <2>5 DEF RecordsInv
<1>17. HandInv'
  <2> USE <1>1, <1>4 DEF HandInv, engineVars
  <2>0. /\ todo \subseteq Rows /\ (pc \in InHand => cur \in Rows)
        /\ Gates \cup Running \cup PastChain \cup PastGuard \cup PastApproval \cup {"dispatch", "execute", "record", "settle", "handler", "fail", "bypass"} \subseteq InHand
    BY DEF TypeOK, Gates, InHand, Running, PastChain, PastGuard, PastApproval
  <2>1. Snapshot' /\ InHandRecords'
    BY <2>0, <1>13 DEF Snapshot, InHandRecords, Entry, Hardware
  <2>2. ChainPassed'
    BY <2>0, <1>14 DEF ChainPassed, EarlierSteps
  <2>3. GuardPassed'
    BY <2>0, <1>13 DEF GuardPassed, HasInflight, WithStatus
  <2>4. ApprovalPassed'
    BY <2>0, <1>13, <1>15 DEF ApprovalPassed, Approved
  <2>5. StopPassed' /\ EstopBlocks'
    BY DEF StopPassed, EstopBlocks, flagVars
  <2> QED BY <2>1, <2>2, <2>3, <2>4, <2>5
<1>18. \A i \in Rows' : /\ rows'[i].chain <= Len(rows')
                        /\ rows'[i].chain = chain /\ chain # 0 => rows'[i].seq < seq + 1
  <2> SUFFICES ASSUME NEW i \in Rows'
               PROVE  /\ rows'[i].chain <= Len(rows')
                      /\ rows'[i].chain = chain /\ chain # 0 => rows'[i].seq < seq + 1
    OBVIOUS
  <2>1. CASE i = n
    BY <2>1, <1>0, <1>3, <1>4, Bounds
  <2>2. CASE i \in Rows
    <3>1. rows[i].chain \in Nat /\ rows[i].seq \in Nat /\ rows'[i] = rows[i] /\ rows[i].chain <= Len(rows)
      BY <2>2, <1>1, <1>4, RowFacts, Bounds, SMTT(30) DEF Row, RowsInv, ChainIds
    <3> QED BY <3>1, <2>2, <1>0, <1>4, <1>5, Bounds
  <2> QED BY <2>1, <2>2, <1>4
<1> QED BY <1>0, <1>4, <1>6, <1>10, <1>11, <1>16, <1>17, <1>18

(* The agent.                                                               *)
LEMMA AgentStep ==
    ASSUME DispatchInv, (\E c \in Commands : ProposeAction(c)) \/ ProposeLink
    PROVE  DispatchInv'
<1>1. TypeOK /\ RowsInv /\ RecordsInv /\ HandInv /\ DraftOK /\ ChainIds
  BY DEF DispatchInv, RowsInv
<1>2. /\ draft \in [links : Seq(Commands), chain : 0 .. MaxActions, seq : Nat]
      /\ draft.seq + Len(draft.links) <= MaxChain /\ Len(rows) \in Nat
  BY <1>1, RowFacts DEF DraftOK
<1>3. UNCHANGED <<approvals, diary, flagVars, engineVars, timeVars, faults, effects>>
  BY DEF ProposeAction, ProposeLink
<1>4. CASE \E c \in Commands : ProposeAction(c)
  <2>1. PICK c \in Commands : ProposeAction(c)
    BY <1>4
  <2>2. CASE rows' = rows
    <3>1. UNCHANGED <<rows, status, draft>>
      <4>1. rows # Append(rows, [cmd |-> c, retry |-> RetryNumber(c), chain |-> 0,
                                  seq |-> 0, born |-> clock, mono |-> Monotonic])
        BY <1>1 DEF TypeOK
      <4> QED BY <2>1, <2>2, <4>1 DEF ProposeAction, Propose
    <3>2. RowsInv' /\ RecordsInv'
      BY <1>1, <1>3, <3>1, RowsKept, RecordsKept DEF Recorded
    <3>3. HandInv'
      <4>1. sinceStop' = sinceStop /\ (~estop' => sinceStop' = 0)
        BY <1>1, <1>3 DEF flagVars, HandInv, StopPassed
      <4> QED BY <1>1, <1>3, <3>1, <4>1, HandKept DEF Approved
    <3>4. TypeOK'
      BY <1>1, <1>3, <3>1 DEF TypeOK, Rows, flagVars, engineVars, timeVars
    <3> QED BY <3>2, <3>3, <3>4 DEF DispatchInv
  <2>3. CASE rows' # rows
    <3>1. draft' = draft /\ draft.links = <<>> /\ Propose(c, 0, 0) /\ 0 \in 0 .. MaxActions /\ 0 \in 0 .. MaxChain
      BY <2>1, Bounds DEF ProposeAction
    <3>2. /\ TypeOK' /\ KeysDistinct' /\ RetryBelow' /\ RecordsInv' /\ HandInv'
          /\ Len(rows') = Len(rows) + 1
          /\ \A i \in Rows' : rows'[i].chain <= Len(rows')
      BY <1>2, <1>3, <2>3, <3>1, ProposeStep
    <3>3. DraftOK'
      BY <1>1, <3>1 DEF DraftOK
    <3>4. ChainIds'
      BY <1>1, <1>2, <3>1, <3>2, Bounds DEF ChainIds
    <3> QED BY <3>2, <3>3, <3>4 DEF DispatchInv, RowsInv
  <2> QED BY <2>2, <2>3
<1>5. CASE ProposeLink
  <2> DEFINE c == Head(draft.links)
  <2>1. /\ draft.links # <<>> /\ Propose(c, draft.chain, draft.seq)
        /\ draft' = [draft EXCEPT !.links = Tail(@), !.seq = @ + 1]
    BY <1>5 DEF ProposeLink
  <2>2. /\ draft.links \in Seq(Commands) /\ Len(draft.links) \in Nat \ {0}
        /\ draft.chain \in 0 .. MaxActions /\ draft.seq \in Nat
    BY <1>2, <2>1
  <2>3. c \in Commands /\ Tail(draft.links) \in Seq(Commands) /\ Len(Tail(draft.links)) = Len(draft.links) - 1
    BY <2>1, <2>2
  <2>4. draft.seq \in 0 .. MaxChain
    BY <1>2, <2>2, Bounds
  <2>5. /\ draft' = [links |-> Tail(draft.links), chain |-> draft.chain, seq |-> draft.seq + 1]
        /\ draft'.links = Tail(draft.links) /\ draft'.chain = draft.chain /\ draft'.seq = draft.seq + 1
    BY <1>2, <2>1
  <2>6. DraftOK'
    BY <1>2, <2>2, <2>3, <2>5, Bounds DEF DraftOK
  <2>7. /\ draft.chain # 0 /\ draft.chain <= Len(rows) + 1
        /\ \A i \in Rows : rows[i].chain = draft.chain => rows[i].seq < draft.seq
    BY <1>1, <2>1 DEF ChainIds
  <2> HIDE DEF c
  <2>8. CASE rows' = rows
    <3>1. UNCHANGED <<rows, status>>
      <4>1. rows # Append(rows, [cmd |-> c, retry |-> RetryNumber(c), chain |-> draft.chain,
                                  seq |-> draft.seq, born |-> clock, mono |-> Monotonic])
        BY <1>1 DEF TypeOK
      <4> QED BY <2>1, <2>8, <4>1 DEF Propose
    <3>2. KeysDistinct' /\ RetryBelow'
      BY <1>1, <3>1 DEF RowsInv, KeysDistinct, RetryBelow, Rows, Key, Cmd, Attempts
    <3>3. ChainIds'
      <4>1. \A i \in Rows : rows[i].seq \in Nat
        BY <1>1, RowFacts, Bounds DEF Row
      <4> QED BY <1>1, <2>2, <2>5, <2>7, <3>1, <4>1 DEF ChainIds, Rows
    <3>4. RecordsInv'
      BY <1>1, <1>3, <3>1, RecordsKept DEF Recorded
    <3>5. HandInv'
      <4>1. sinceStop' = sinceStop /\ (~estop' => sinceStop' = 0)
        BY <1>1, <1>3 DEF flagVars, HandInv, StopPassed
      <4> QED BY <1>1, <1>3, <3>1, <4>1, HandKept DEF Approved
    <3>6. TypeOK'
      BY <1>1, <1>3, <3>1 DEF TypeOK, Rows, flagVars, engineVars, timeVars
    <3> QED BY <2>6, <3>2, <3>3, <3>4, <3>5, <3>6 DEF DispatchInv, RowsInv
  <2>9. CASE rows' # rows
    <3>1. /\ TypeOK' /\ KeysDistinct' /\ RetryBelow' /\ RecordsInv' /\ HandInv'
          /\ Len(rows') = Len(rows) + 1
          /\ \A i \in Rows' : /\ rows'[i].chain <= Len(rows')
                              /\ rows'[i].chain = draft.chain /\ draft.chain # 0 => rows'[i].seq < draft.seq + 1
      BY <1>3, <2>1, <2>2, <2>3, <2>4, <2>7, <2>9, ProposeStep
    <3>2. ChainIds'
      BY <1>2, <2>2, <2>5, <2>7, <3>1, Bounds DEF ChainIds
    <3> QED BY <2>6, <3>1, <3>2 DEF DispatchInv, RowsInv
  <2> QED BY <2>8, <2>9
<1> QED BY <1>4, <1>5

-----------------------------------------------------------------------------

(* Every step keeps the inductive invariant.                                *)
LEMMA InvStep == DispatchInv /\ [Next]_vars => DispatchInv'
<1> SUFFICES ASSUME DispatchInv, [Next]_vars PROVE DispatchInv'
  OBVIOUS
<1>1. ASSUME TypeOK' /\ RecordsInv' /\ HandInv', rows' = rows,
             draft' \in {draft, [draft EXCEPT !.links = <<>>]}
      PROVE  DispatchInv'
  BY <1>1, RowsKept DEF DispatchInv
<1>2. CASE \/ ChainGate \/ InterlockGate \/ QueueGuard \/ DeadlineGate \/ ApprovalGate \/ Precheck
  BY <1>1, <1>2, GateStep DEF ChainGate, InterlockGate, QueueGuard, DeadlineGate, ApprovalGate, Precheck,
     GateOnly, EngineOnly
<1>3. CASE \/ Boot \/ Crash \/ PollRaises \/ ReconcileDone
           \/ PollProposals \/ PollWaiting \/ PollDone \/ PeriodicReconcile
  <2>1. rows' = rows /\ draft' \in {draft, [draft EXCEPT !.links = <<>>]}
    BY <1>3, Zenon DEF Boot, Crash, PollRaises, ReconcileDone, PollProposals, PollWaiting, PollDone,
       PeriodicReconcile, EngineOnly, ledgerVars
  <2> QED BY <1>1, <1>3, <2>1, IdleStep
<1>4. CASE TakeProposal \/ TakeWaiting
  BY <1>1, <1>4, TakeStep DEF TakeProposal, TakeWaiting, EngineOnly
<1>5. CASE ReconcileRow
  BY <1>1, <1>5, ReconcileStep DEF ReconcileRow, EngineOnly
<1>6. CASE \/ Bypass \/ RunBypass \/ WriteInflight \/ MarkDispatched \/ Execute
           \/ RecordResult \/ Settle \/ RecordRaises
  <2>1. rows' = rows /\ draft' = draft
    BY <1>6 DEF Bypass, RunBypass, WriteInflight, MarkDispatched, Execute, RecordResult, Settle, RecordRaises,
       GateOnly, EngineOnly, ledgerVars
  <2> QED BY <1>1, <1>6, <2>1, RunStep
<1>7. CASE Agent
  BY <1>7, AgentStep, BystanderStep DEF Agent
<1>8. CASE Operator
  BY <1>8, ApprovalStep, BystanderStep DEF Operator
<1>9. CASE Tick
  BY <1>9, BystanderStep
<1>10. CASE UNCHANGED vars
  <2>1. TypeOK /\ RowsInv /\ RecordsInv /\ HandInv
    BY DEF DispatchInv
  <2> USE <1>10, <2>1 DEF vars, ledgerVars, flagVars, engineVars, timeVars
  <2>2. TypeOK'
    BY DEF TypeOK, Rows
  <2>3. RecordsInv'
    BY RecordsKept DEF Recorded
  <2>4. sinceStop' = sinceStop /\ (~estop' => sinceStop' = 0)
    BY DEF HandInv, StopPassed
  <2>5. HandInv'
    BY <2>4, HandKept DEF Approved
  <2> QED BY <1>1, <2>2, <2>3, <2>5
<1> QED
  BY <1>2, <1>3, <1>4, <1>5, <1>6, <1>7, <1>8, <1>9, <1>10 DEF Next, EngineStep, ProcessProposal

(* The inductive invariant holds in every reachable state.                  *)
THEOREM Invariance == Spec => []DispatchInv
<1> QED BY InvInit, InvStep, PTL DEF Spec

(* Ledger, diary and hardware never contradict each other, keys name one    *)
(* row and a device group has one movement in flight (dispatch.py:175-195,  *)
(* reconcile.py), for any number of crashes, lost results and reboots.      *)
THEOREM LedgerCorrect == Spec => []LedgerInv
<1>1. DispatchInv => LedgerInv
  BY DEF DispatchInv, RowsInv, RecordsInv, LedgerInv
<1> QED BY <1>1, Invariance, PTL

(* Each row drives the hardware at most once: no order of crashes, retries, *)
(* lost results and reconciliations makes the engine repeat a movement.     *)
THEOREM MovesAtMostOnce == Spec => []AtMostOnce
<1>1. DispatchInv => AtMostOnce
  BY DEF DispatchInv, RecordsInv
<1> QED BY <1>1, Invariance, PTL

(* A step of a chain is only ever started behind steps that are DONE,       *)
(* although the agent proposes later links while earlier ones already run   *)
(* (_get_chain_predecessors).                                               *)
THEOREM ChainsInOrder == Spec => []ChainOrder
<1>1. DispatchInv => ChainOrder
  BY DEF DispatchInv, RecordsInv
<1> QED BY <1>1, Invariance, PTL

(* The emergency stop lets at most the one action through that had passed   *)
(* its gate, and nothing that needs approval is started without one,        *)
(* whatever the operators do meanwhile (dispatch.py:120, 145).              *)
THEOREM OperatorGates == Spec => []GatesHold
<1>1. DispatchInv => GatesHold
  BY DEF DispatchInv, RecordsInv, HandInv, GatesHold
<1> QED BY <1>1, Invariance, PTL

=============================================================================
