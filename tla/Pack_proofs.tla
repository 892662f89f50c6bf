---- MODULE Pack_proofs ----
(***************************************************************************)
(* Proofs about the Prusa pack: what it lets the planner do, for any       *)
(* families, envelope, steps, jobs and faults.                             *)
(***************************************************************************)
EXTENDS Pack, TLAPS

Results == [family : Families \cup {None}, settled : BOOLEAN, same : BOOLEAN]

(* A plan is in hand from the compile to its close, a tuning within its     *)
(* envelope.                                                                *)
PlanInHand == pc \in {"act", "verify", "close"} => plan \in Plans

(* What counts as tunable was read.                                         *)
OkWasRead == wb.ok => wb.read /\ wb.snap \in Snaps

(* The family of a BIG step that returned is on the pack's own cooldown     *)
(* list, and a family planned for is not.                                   *)
BigIsCooling == big \subseteq cooldown

(* The part of a job that this process knows of is on the whiteboard.       *)
PartIsKnown == part /\ seen => wbPart = TRUE

PackInv ==
    /\ TypeOK /\ result \in Results /\ PlanInHand /\ OkWasRead /\ BigIsCooling /\ PartIsKnown
    /\ VisionOfThisJob /\ NoBlindTuning /\ StartOnlyOnEmptyBed /\ VerifiedBigCoolsDown

Boards == [snap : Snaps \cup {None}, read : BOOLEAN, ok : BOOLEAN, vision : Payloads \cup {None}, drained : BOOLEAN]
Drained == [cache : Payloads \cup {None}, future : 0 .. MaxJobs \cup {None}, got : BOOLEAN]

-----------------------------------------------------------------------------
(* What the helpers return.                                                 *)

(* A status read is a snapshot.                                             *)
LEMMA SnapshotType ==
    ASSUME TypeOK, NEW serial \in BOOLEAN, NEW cold \in BOOLEAN
    PROVE  SnapshotNow(serial, cold) \in Snaps
<1>1. (life \in {"PRINTING", "PAUSED", "ATTENTION"}) \in BOOLEAN
  OBVIOUS
<1> DEFINE act == life \in {"PRINTING", "PAUSED", "ATTENTION"}
<1> DEFINE s == [job |-> job, life |-> life, active |-> act, prog |-> prog, val |-> val, serial |-> serial]
<1>2. s \in Snaps
  BY <1>1, Zenon DEF TypeOK, Snaps
<1>3. "FINISHED" \in Lives
  BY DEF Lives
<1>4. [s EXCEPT !.life = "FINISHED", !.active = FALSE] \in Snaps
  BY <1>2, <1>3 DEF Snaps
<1> QED BY <1>2, <1>4 DEF SnapshotNow, TerminalFinish

LEMMA ContextType ==
    ASSUME NEW s \in Snaps
    PROVE  Context(s) \in 0 .. MaxJobs
BY PackAssumption DEF Context, Snaps

(* A refresh that is ready goes to the cache, and is over.                  *)
LEMMA DrainsType ==
    ASSUME NEW c \in Payloads \cup {None}, NEW f \in 0 .. MaxJobs \cup {None}
    PROVE  Drains(c, f) \subseteq Drained
<1>1. f # None => Refreshed(f) \subseteq Payloads
  BY DEF Refreshed, Payloads, Signals
<1>2. [cache |-> c, future |-> f, got |-> FALSE] \in Drained /\ [cache |-> c, future |-> None, got |-> FALSE] \in Drained
  BY DEF Drained
<1>3. f # None => {[cache |-> p, future |-> None, got |-> TRUE] : p \in Refreshed(f)} \subseteq Drained
  <2>1. ASSUME NEW p \in Payloads PROVE [cache |-> p, future |-> None, got |-> TRUE] \in Drained
    BY DEF Drained
  <2> QED BY <1>1, <2>1, Zenon
<1> QED BY <1>2, <1>3 DEF Drains

(* What a publish shows of the camera: another job's payload only if it was *)
(* drained just now.                                                        *)
LEMMA VisionType ==
    ASSUME TypeOK, NEW s \in Snaps, NEW v \in VisionOf(s)
    PROVE  /\ v.cache \in Payloads \cup {None} /\ v.future \in 0 .. MaxJobs \cup {None}
           /\ v.vision \in Payloads \cup {None} /\ v.drained \in BOOLEAN
           /\ v.vision # None /\ v.vision.of # Context(s) => v.drained
<1> DEFINE Second(d1, later) ==
        {[cache |-> d2.cache, future |-> d2.future, drained |-> d2.got,
          vision |-> IF d2.got THEN d2.cache ELSE VisionForContext(s, d1.cache)] :
           d2 \in Drains(d1.cache, StartRefresh(s, d1, later))}
<1>0. VisionOf(s) = UNION {Second(d1, later) : d1 \in Drains(cache, future), later \in BOOLEAN}
  BY DEF VisionOf
<1> HIDE DEF Second
<1>1. PICK d1 \in Drains(cache, future), later \in BOOLEAN : v \in Second(d1, later)
  BY <1>0
<1>2. d1 \in Drained
  BY DrainsType DEF TypeOK
<1>3. StartRefresh(s, d1, later) \in 0 .. MaxJobs \cup {None}
  BY <1>2, ContextType DEF StartRefresh, Drained
<1>4. PICK d2 \in Drains(d1.cache, StartRefresh(s, d1, later)) :
         v = [cache |-> d2.cache, future |-> d2.future, drained |-> d2.got,
              vision |-> IF d2.got THEN d2.cache ELSE VisionForContext(s, d1.cache)]
  BY <1>1 DEF Second
<1>5. d2 \in Drained
  BY <1>2, <1>3, DrainsType DEF Drained
<1>6. VisionForContext(s, d1.cache) = None \/
         (VisionForContext(s, d1.cache) = d1.cache /\ d1.cache.of = Context(s))
  BY DEF VisionForContext
<1> QED BY <1>2, <1>4, <1>5, <1>6 DEF Drained

(* No step leaves the envelope.                                             *)
LEMMA TargetType ==
    ASSUME TypeOK, NEW f \in Families, NEW d \in {"down", "up"}, NEW z \in {"small", "big"}, W \in Snaps
    PROVE  TargetOf(f, d, z) \in Lo .. Hi
<1>1. From(f) \in Lo .. Hi
  BY PackAssumption DEF From, Snaps, Values
<1>2. Step(z) \in Int /\ Step(z) > 0
  BY PackAssumption DEF Step
<1>3. Lo \in Int /\ Hi \in Int /\ From(f) \in Int
  BY <1>1, PackAssumption
<1> QED BY <1>1, <1>2, <1>3 DEF TargetOf, AtLeast, AtMost

(* What is tuned was published as ok and is not cooling down.               *)
LEMMA TuningPlans ==
    ASSUME TypeOK, OkWasRead, NEW grave \in BOOLEAN, NEW p \in LiveTuning(grave)
    PROVE  p \in Tunings /\ p.kind = "tune" /\ wb.ok /\ p.family \notin cooldown
<1>1. PICK f \in Families : Eligible(f) /\ p \in Steps(f)
  BY DEF LiveTuning
<1>2. wb.ok /\ f \notin cooldown
  BY <1>1 DEF Eligible, RelativeEligible, Unblocked
<1>3. PICK d \in {"down", "up"}, z \in {"small", "big"} :
         p = [kind |-> "tune", family |-> f, dir |-> d, size |-> z, target |-> TargetOf(f, d, z)]
  BY <1>1 DEF Steps
<1>4. TargetOf(f, d, z) \in Lo .. Hi
  BY <1>2, TargetType DEF OkWasRead, W
<1> QED BY <1>2, <1>3, <1>4 DEF Tunings

(* Every candidate is a plan; START is offered only without a part.         *)
LEMMA CandidatePlans ==
    ASSUME TypeOK, OkWasRead, NEW grave \in BOOLEAN, NEW p \in CandidateActions(grave)
    PROVE  /\ p \in Plans
           /\ p.kind = "tune" => p \in LiveTuning(grave)
           /\ p.kind = "start" => wbPart # TRUE
<1>1. CASE p \in LiveTuning(grave)
  BY <1>1, TuningPlans DEF Plans
<1>2. CASE p \notin LiveTuning(grave)
  <2>1. PICK k \in Kinds : p = Simple(k) /\ (k = "start" => ~PartPresent)
    BY <1>2 DEF CandidateActions
  <2>2. p.kind = k /\ k # "tune"
    BY <2>1 DEF Simple, Kinds
  <2> QED BY <2>1, <2>2 DEF Plans, PartPresent
<1> QED BY <1>1, <1>2

(* What is left of the whiteboard after a cycle.                            *)
LEMMA UsedType ==
    ASSUME TypeOK
    PROVE  Used \in Boards /\ ~Used.ok /\ Used.vision = None
<1>1. NotPublished \in Boards /\ ~NotPublished.ok /\ NotPublished.vision = None
  BY DEF NotPublished, Boards
<1>2. CASE ReuseLastGood
  <2>1. W \in Snaps
    BY <1>2 DEF ReuseLastGood, W, TypeOK
  <2> DEFINE s == [W EXCEPT !.job = 0, !.serial = FALSE, !.val = [f \in Families |-> Default]]
  <2>2. [f \in Families |-> Default] \in Values /\ 0 \in 0 .. MaxJobs
    BY PackAssumption DEF Values
  <2>3. s \in Snaps
    BY <2>1, <2>2 DEF Snaps
  <2>4. Used = [NotPublished EXCEPT !.snap = s]
    BY <1>2 DEF Used
  <2> HIDE DEF s
  <2> QED BY <1>1, <2>3, <2>4 DEF Boards, NotPublished
<1> QED BY <1>1, <1>2 DEF Used

LEMMA ShownType ==
    ASSUME TypeOK
    PROVE  Shown \in Boards /\ Shown.ok = wb.ok /\ Shown.read = wb.read /\ Shown.snap = wb.snap /\ Shown.vision = None
BY DEF TypeOK, Shown, Boards

LEMMA PackInit == Init => PackInv
<1> SUFFICES ASSUME Init PROVE PackInv
  OBVIOUS
<1>1. TypeOK
  <2>1. val \in Values
    BY PackAssumption DEF Init, Values
  <2>2. /\ job \in 0 .. MaxJobs /\ jobs \in 0 .. MaxJobs /\ faults \in 0 .. MaxFaults
    BY PackAssumption DEF Init
  <2>3. wb \in Boards
    BY DEF Init, NotPublished, Boards
  <2>4. result.family \in Families \cup {None} /\ result.same \in BOOLEAN
    BY DEF Init, NoResult
  <2> QED BY <2>1, <2>2, <2>3, <2>4, Zenon DEF Init, NewObject, TypeOK, Boards, Lives, Progress
<1>2. result \in Results
  BY DEF Init, NoResult, Results
<1>3. PlanInHand /\ OkWasRead /\ BigIsCooling /\ PartIsKnown
  BY DEF Init, NewObject, NotPublished, PlanInHand, OkWasRead, BigIsCooling, PartIsKnown
<1>4. VisionOfThisJob /\ NoBlindTuning /\ StartOnlyOnEmptyBed /\ VerifiedBigCoolsDown
  BY DEF Init, NotPublished, VisionOfThisJob, NoBlindTuning, StartOnlyOnEmptyBed, VerifiedBigCoolsDown
<1> QED BY <1>1, <1>2, <1>3, <1>4 DEF PackInv

-----------------------------------------------------------------------------
(* The steps, by what they leave alone.                                     *)

(* Parts of the type invariant.                                             *)
PrinterType ==
    /\ job \in 0 .. MaxJobs /\ life \in Lives /\ prog \in Progress /\ val \in Values /\ part \in BOOLEAN
    /\ jobs \in 0 .. MaxJobs
ObjectType ==
    /\ grace \in BOOLEAN /\ cache \in Payloads \cup {None} /\ future \in 0 .. MaxJobs \cup {None}
    /\ cooldown \subseteq Families /\ big \subseteq Families
    /\ result \in Results /\ recent \in [Relative -> (Lo .. Hi) \cup {None}]
CycleType ==
    /\ wb \in Boards /\ wbPart \in BOOLEAN \cup {None}
    /\ pc \in {"publish", "compile", "act", "verify", "close"} /\ plan \in Plans \cup {None}
    /\ seen \in BOOLEAN /\ faults \in 0 .. MaxFaults

LEMMA TypeParts == TypeOK /\ result \in Results <=> PrinterType /\ ObjectType /\ CycleType
<1>1. result \in Results => result.family \in Families \cup {None} /\ result.same \in BOOLEAN
  BY DEF Results
<1> QED BY <1>1, Zenon DEF TypeOK, PrinterType, ObjectType, CycleType, Boards

(* A new job.                                                               *)
LEMMA NewJobType ==
    ASSUME PrinterType, NewJob
    PROVE  PrinterType'
<1>1. job' \in 0 .. MaxJobs /\ jobs' \in 0 .. MaxJobs
  BY PackAssumption DEF PrinterType, NewJob, CanStart
<1>2. val' \in Values
  BY PackAssumption DEF NewJob, Values
<1> QED BY <1>1, <1>2, Zenon DEF NewJob, PrinterType, Lives, Progress

(* What the driver's call does to the printer.                              *)
LEMMA EffectType ==
    ASSUME PrinterType, plan \in Plans, Effect
    PROVE  PrinterType'
<1>1. CASE plan.kind = "tune"
  <2>1. plan.family \in Families /\ plan.target \in Lo .. Hi
    BY <1>1 DEF Plans, Tunings, Simple, Kinds
  <2>2. val' \in Values
    BY <1>1, <2>1 DEF Effect, PrinterType, Values
  <2>3. UNCHANGED <<job, life, prog, part, jobs>>
    BY <1>1 DEF Effect
  <2> QED BY <2>2, <2>3 DEF PrinterType
<1>2. CASE plan.kind \in {"pause", "resume"}
  BY <1>2 DEF Effect, PrinterType, Lives
<1>3. CASE plan.kind = "cancel"
  <2>1. val' \in Values
    BY <1>3, PackAssumption DEF Effect, JobOver, Values
  <2> QED BY <1>3, <2>1 DEF Effect, JobOver, PrinterType, Lives, Progress
<1>4. CASE plan.kind = "start"
  BY <1>4, NewJobType DEF Effect
<1> QED BY <1>1, <1>2, <1>3, <1>4 DEF Effect

(* The printer and the person at it.                                        *)
LEMMA MachineSteps ==
    ASSUME PackInv, PanelStart \/ Advance \/ Finish \/ Attention \/ DismissDialog \/ Unload
    PROVE  PackInv'
<1>1. PrinterType /\ ObjectType /\ CycleType
  BY TypeParts DEF PackInv
<1>2. PrinterType'
  <2>1. CASE PanelStart
    BY <1>1, <2>1, NewJobType DEF PanelStart
  <2>2. CASE Finish
    <3>1. val' \in Values
      BY <2>2, PackAssumption DEF Finish, JobOver, Values
    <3> QED BY <1>1, <2>2, <3>1 DEF Finish, JobOver, PrinterType, Lives, Progress
  <2>3. CASE Advance \/ Attention \/ DismissDialog
    BY <1>1, <2>3 DEF Advance, Attention, DismissDialog, PrinterType, Lives, Progress
  <2>4. CASE Unload
    BY <1>1, <2>4, Zenon DEF Unload, PrinterType
  <2> QED BY <2>1, <2>2, <2>3, <2>4
<1>3. UNCHANGED <<packVars, wb, pc, plan, result, recent, big>>
  BY DEF PanelStart, Advance, Finish, Attention, DismissDialog, Unload, Machine
<1>4. ObjectType'
  BY <1>1, <1>3, Zenon DEF ObjectType, packVars
<1>5. faults' \in 0 .. MaxFaults
  BY <1>1, PackAssumption DEF PanelStart, Advance, Finish, Attention, DismissDialog, Unload, Machine, CycleType
<1>6. /\ seen' \in BOOLEAN /\ wbPart' \in BOOLEAN \cup {None}
      /\ part' /\ seen' => part /\ seen /\ wbPart' = wbPart
  <2>1. CASE Advance \/ Finish \/ Attention \/ DismissDialog
    BY <1>1, <2>1 DEF Advance, Finish, Attention, DismissDialog, CycleType
  <2>2. CASE PanelStart \/ Unload
    BY <1>1, <2>2, Zenon DEF PanelStart, Unload, CycleType
  <2> QED BY <2>1, <2>2
<1>7. CycleType'
  BY <1>1, <1>3, <1>5, <1>6, Zenon DEF CycleType
<1>8. PlanInHand' /\ OkWasRead' /\ BigIsCooling' /\ VisionOfThisJob' /\ NoBlindTuning' /\ VerifiedBigCoolsDown'
  BY <1>3 DEF PackInv, PlanInHand, OkWasRead, BigIsCooling, VisionOfThisJob, NoBlindTuning, VerifiedBigCoolsDown,
     Context, VisionActive, packVars
<1>9. PartIsKnown' /\ StartOnlyOnEmptyBed'
  BY <1>3, <1>6 DEF PackInv, PartIsKnown, StartOnlyOnEmptyBed
<1> QED BY <1>2, <1>4, <1>7, <1>8, <1>9, TypeParts, PTL DEF PackInv

(* Windows of time that pass.                                               *)
LEMMA ClockSteps ==
    ASSUME PackInv, GraceEnds \/ SettleEnds \/ CooldownEnds \/ ResultsGoBy
    PROVE  PackInv'
<1>1. PrinterType /\ ObjectType /\ CycleType
  BY TypeParts DEF PackInv
<1>2. Aside /\ pc # "act"
  BY DEF GraceEnds, SettleEnds, CooldownEnds, ResultsGoBy
<1>3. PrinterType' /\ CycleType'
  BY <1>1, <1>2, Zenon DEF Aside, printer, PrinterType, CycleType
<1>4. ObjectType' /\ BigIsCooling'
  <2>1. CASE GraceEnds
    BY <1>1, <2>1, Zenon DEF GraceEnds, ObjectType, BigIsCooling, PackInv
  <2>2. CASE SettleEnds
    <3>1. result' \in Results
      BY <1>1, <2>2 DEF SettleEnds, ObjectType, Results
    <3> QED BY <1>1, <2>2, <3>1 DEF SettleEnds, ObjectType, BigIsCooling, PackInv
  <2>3. CASE CooldownEnds
    BY <1>1, <2>3 DEF CooldownEnds, ObjectType, BigIsCooling, PackInv
  <2>4. CASE ResultsGoBy
    <3>1. recent' \in [Relative -> (Lo .. Hi) \cup {None}]
      BY <1>1, <2>4 DEF ResultsGoBy, ObjectType
    <3> QED BY <1>1, <2>4, <3>1 DEF ResultsGoBy, ObjectType, BigIsCooling, PackInv
  <2> QED BY <2>1, <2>2, <2>3, <2>4
<1>5. PlanInHand' /\ OkWasRead' /\ VisionOfThisJob'
  BY <1>2 DEF Aside, PackInv, PlanInHand, OkWasRead, VisionOfThisJob, Context, VisionActive
<1>6. PartIsKnown' /\ NoBlindTuning' /\ StartOnlyOnEmptyBed' /\ VerifiedBigCoolsDown'
  BY <1>2 DEF Aside, printer, PackInv, PartIsKnown, NoBlindTuning, StartOnlyOnEmptyBed, VerifiedBigCoolsDown
<1> QED BY <1>3, <1>4, <1>5, <1>6, TypeParts, PTL DEF PackInv

(* publish_raw_state.                                                       *)
LEMMA FaultSteps ==
    ASSUME PackInv, PublishFault
    PROVE  PackInv'
<1>1. PrinterType /\ ObjectType /\ CycleType /\ TypeOK
  BY TypeParts DEF PackInv
<1>2. PICK d \in Drains(cache, future) : cache' = d.cache /\ future' = d.future
  BY DEF PublishFault
<1>3. cache' \in Payloads \cup {None} /\ future' \in 0 .. MaxJobs \cup {None}
  <2>1. d \in Drained
    BY <1>1, DrainsType DEF ObjectType
  <2> QED BY <1>2, <2>1 DEF Drained
<1>4. wb' \in Boards /\ ~wb'.ok /\ wb'.vision = None
  <2>1. (IF ReuseLastGood THEN wb.snap ELSE None) \in Snaps \cup {None}
    BY <1>1 DEF CycleType, Boards
  <2> QED BY <2>1 DEF PublishFault, FaultedRaw, Boards
<1>5. pc' \in {"compile", "close"} /\ UNCHANGED <<printer, result, recent, jobs, grace, cooldown, plan, seen, big>>
  BY DEF PublishFault, Published, Cycle
<1>6. pc' = "close" => pc = "verify"
  BY DEF PublishFault, Published
<1>7. wbPart' \in BOOLEAN \cup {None} /\ (wbPart = TRUE => wbPart' = TRUE)
  BY <1>1 DEF PublishFault, CycleType
<1>8. faults' \in 0 .. MaxFaults
  BY <1>1, PackAssumption DEF PublishFault, CycleType
<1>9. PrinterType' /\ ObjectType'
  BY <1>1, <1>3, <1>5, Zenon DEF printer, PrinterType, ObjectType
<1>10. CycleType'
  BY <1>1, <1>4, <1>5, <1>7, <1>8 DEF CycleType
<1>11. PlanInHand' /\ OkWasRead' /\ BigIsCooling' /\ PartIsKnown'
  BY <1>4, <1>5, <1>6, <1>7 DEF PackInv, PlanInHand, OkWasRead, BigIsCooling, PartIsKnown, printer
<1>12. VisionOfThisJob' /\ NoBlindTuning' /\ StartOnlyOnEmptyBed' /\ VerifiedBigCoolsDown'
  BY <1>4, <1>5 DEF VisionOfThisJob, NoBlindTuning, StartOnlyOnEmptyBed, VerifiedBigCoolsDown
<1> QED BY <1>9, <1>10, <1>11, <1>12, TypeParts, PTL DEF PackInv

LEMMA PublishSteps ==
    ASSUME PackInv, Publish
    PROVE  PackInv'
<1>1. PrinterType /\ ObjectType /\ CycleType /\ TypeOK
  BY TypeParts DEF PackInv
<1>2. PICK serial \in SerialReads, cold \in BOOLEAN : \E v \in VisionOf(SnapshotNow(serial, cold)) :
         /\ cache' = v.cache /\ future' = v.future
         /\ wb' = [snap |-> SnapshotNow(serial, cold), read |-> TRUE, ok |-> TRUE, drained |-> v.drained, vision |-> v.vision]
         /\ wbPart' = InferPartPresent(SnapshotNow(serial, cold))
         /\ seen' = (seen \/ SnapshotNow(serial, cold).life \in {"PRINTING", "PAUSED"})
  BY DEF Publish
<1>3. PICK s \in Snaps : s = SnapshotNow(serial, cold)
  BY <1>1, SnapshotType DEF SerialReads
<1>4. PICK v \in VisionOf(s) :
         /\ cache' = v.cache /\ future' = v.future
         /\ wb' = [snap |-> s, read |-> TRUE, ok |-> TRUE, drained |-> v.drained, vision |-> v.vision]
         /\ wbPart' = InferPartPresent(s)
         /\ seen' = (seen \/ s.life \in {"PRINTING", "PAUSED"})
  BY <1>2, <1>3
<1>5. /\ v.cache \in Payloads \cup {None} /\ v.future \in 0 .. MaxJobs \cup {None}
      /\ v.vision \in Payloads \cup {None} /\ v.drained \in BOOLEAN
      /\ v.vision # None /\ v.vision.of # Context(s) => v.drained
  BY <1>1, VisionType
<1>6. pc' \in {"compile", "close"} /\ UNCHANGED <<printer, result, recent, jobs, cooldown, plan, big, faults>>
  BY DEF Publish, Published, Cycle
<1>7. pc' = "close" => pc = "verify"
  BY DEF Publish, Published
<1>8. wb' \in Boards
  BY <1>4, <1>5 DEF Boards
<1>9. wbPart' \in BOOLEAN \cup {None} /\ seen' \in BOOLEAN
  <2>1. (s.life \in {"FINISHED", "ATTENTION"}) \in BOOLEAN
    OBVIOUS
  <2>2. seen' \in BOOLEAN
    BY <1>4, Zenon
  <2> QED BY <1>1, <1>4, <2>1, <2>2, Zenon DEF InferPartPresent, CycleType
<1>10. PartIsKnown'
  <2>1. SUFFICES ASSUME part, seen' PROVE wbPart' = TRUE
    BY <1>6 DEF PartIsKnown, printer
  <2>2. CASE s.life \in {"PRINTING", "PAUSED"}
    BY <1>4, <2>2, Zenon DEF InferPartPresent
  <2>3. CASE s.life \notin {"PRINTING", "PAUSED"}
    <3>1. wbPart = TRUE
      BY <1>4, <2>1, <2>3 DEF PackInv, PartIsKnown
    <3>2. wbPart # None
      BY <3>1, PackAssumption
    <3> QED BY <1>4, <2>3, <3>1, <3>2, Zenon DEF InferPartPresent
  <2> QED BY <2>2, <2>3
<1>11. PrinterType' /\ ObjectType'
  <2>1. grace' \in BOOLEAN
    BY Zenon DEF Publish
  <2> QED BY <1>1, <1>4, <1>5, <1>6, <2>1, Zenon DEF printer, PrinterType, ObjectType
<1>12. CycleType'
  BY <1>1, <1>6, <1>8, <1>9, Zenon DEF CycleType
<1>13. PlanInHand' /\ OkWasRead' /\ BigIsCooling'
  BY <1>4, <1>6, <1>7 DEF PackInv, PlanInHand, OkWasRead, BigIsCooling
<1>14. VisionOfThisJob'
  <2>1. wb'.snap = s /\ wb'.vision = v.vision /\ wb'.drained = v.drained
    BY <1>4
  <2> QED BY <1>5, <2>1 DEF VisionOfThisJob, Context, VisionActive
<1>15. NoBlindTuning' /\ StartOnlyOnEmptyBed' /\ VerifiedBigCoolsDown'
  BY <1>6 DEF NoBlindTuning, StartOnlyOnEmptyBed, VerifiedBigCoolsDown
<1> QED BY <1>10, <1>11, <1>12, <1>13, <1>14, <1>15, TypeParts, PTL DEF PackInv

(* candidate_actions, and the planner's choice among them.                  *)
LEMMA CompileSteps ==
    ASSUME PackInv, Compile
    PROVE  PackInv'
<1>1. PrinterType /\ ObjectType /\ CycleType /\ TypeOK /\ OkWasRead
  BY TypeParts DEF PackInv
<1>2. UNCHANGED <<printer, result, recent, jobs, packVars, wbPart, seen, big, faults>>
  BY DEF Compile, Cycle
<1>3. PrinterType' /\ ObjectType'
  BY <1>1, <1>2, Zenon DEF printer, packVars, PrinterType, ObjectType
<1>4. BigIsCooling' /\ PartIsKnown'
  BY <1>2 DEF PackInv, BigIsCooling, PartIsKnown, printer, packVars
<1>5. CASE plan' = None /\ pc' = "publish" /\ wb' = Used
  <2>1. CycleType'
    BY <1>1, <1>2, <1>5, UsedType DEF CycleType
  <2>2. PlanInHand' /\ OkWasRead' /\ VisionOfThisJob'
    BY <1>1, <1>5, UsedType DEF PlanInHand, OkWasRead, VisionOfThisJob
  <2>3. NoBlindTuning' /\ StartOnlyOnEmptyBed' /\ VerifiedBigCoolsDown'
    BY <1>5 DEF NoBlindTuning, StartOnlyOnEmptyBed, VerifiedBigCoolsDown
  <2> QED BY <1>3, <1>4, <2>1, <2>2, <2>3, TypeParts, PTL DEF PackInv
<1>6. CASE /\ plan' \in UNION {CandidateActions(grave) : grave \in BOOLEAN} /\ pc' = "act"
           /\ wb' = IF plan'.kind = "tune" THEN Shown ELSE Used
  <2>1. PICK grave \in BOOLEAN : plan' \in CandidateActions(grave)
    BY <1>6
  <2>2. /\ plan' \in Plans
        /\ plan'.kind = "tune" => plan' \in LiveTuning(grave)
        /\ plan'.kind = "start" => wbPart # TRUE
    BY <1>1, <2>1, CandidatePlans
  <2>3. plan'.kind = "tune" => wb.ok /\ plan'.family \notin cooldown
    BY <1>1, <2>2, TuningPlans
  <2>4. wb' \in Boards /\ wb'.vision = None
    BY <1>1, <1>6, ShownType, UsedType
  <2>5. plan'.kind = "tune" => wb'.ok = wb.ok /\ wb'.read = wb.read /\ wb'.snap = wb.snap
    BY <1>1, <1>6, ShownType
  <2>6. plan'.kind # "tune" => ~wb'.ok
    BY <1>1, <1>6, UsedType
  <2>7. CycleType'
    BY <1>1, <1>2, <1>6, <2>2, <2>4 DEF CycleType
  <2>8. PlanInHand' /\ OkWasRead' /\ VisionOfThisJob'
    BY <1>1, <2>2, <2>4, <2>5, <2>6 DEF PlanInHand, OkWasRead, VisionOfThisJob
  <2>9. NoBlindTuning' /\ VerifiedBigCoolsDown'
    BY <1>1, <1>2, <2>3, <2>5 DEF PackInv, OkWasRead, BigIsCooling, NoBlindTuning, VerifiedBigCoolsDown
  <2>10. StartOnlyOnEmptyBed'
    BY <1>2, <2>2 DEF PackInv, PartIsKnown, StartOnlyOnEmptyBed, printer
  <2> QED BY <1>3, <1>4, <2>7, <2>8, <2>9, <2>10, TypeParts, PTL DEF PackInv
<1> QED BY <1>5, <1>6 DEF Compile

(* _realize returned: what the driver promises has happened.                *)
LEMMA RealizedSteps ==
    ASSUME PackInv, Realized
    PROVE  PackInv'
<1>1. PrinterType /\ ObjectType /\ CycleType /\ TypeOK /\ plan \in Plans
  BY TypeParts DEF PackInv, PlanInHand, Realized
<1>2. /\ pc' = "verify"
      /\ UNCHANGED <<grace, cache, future, wb, plan, result, recent, faults>>
  BY DEF Realized
<1>3. PrinterType'
  BY <1>1, EffectType DEF Realized
<1>4. plan.size = "big" => plan.family \in Families
  <2>1. plan \in Tunings => plan.family \in Families
    BY DEF Tunings
  <2>2. plan \notin Tunings => plan.size = None
    BY <1>1 DEF Plans, Simple
  <2> QED BY <2>1, <2>2, PackAssumption
<1>5. /\ cooldown' \subseteq Families /\ big' \subseteq Families
      /\ big' \subseteq cooldown'
  BY <1>1, <1>4 DEF Realized, ActivateCooldown, ObjectType, PackInv, BigIsCooling
<1>6. ObjectType' /\ BigIsCooling'
  BY <1>1, <1>2, <1>5, Zenon DEF ObjectType, BigIsCooling
<1>7. wbPart' \in BOOLEAN \cup {None} /\ seen' \in BOOLEAN
  BY <1>1, Zenon DEF Realized, CycleType
<1>8. CycleType'
  BY <1>1, <1>2, <1>7, Zenon DEF CycleType
<1>9. PartIsKnown'
  <2>1. CASE plan.kind = "start"
    BY <2>1, Zenon DEF Realized, PartIsKnown
  <2>2. CASE plan.kind # "start"
    <3>1. part' = part
      BY <1>1, <2>2 DEF Realized, Effect
    <3>2. (seen' => seen) /\ (wbPart = TRUE => wbPart' = TRUE)
      BY <2>2, Zenon DEF Realized
    <3> QED BY <3>1, <3>2 DEF PackInv, PartIsKnown
  <2> QED BY <2>1, <2>2
<1>10. PlanInHand' /\ OkWasRead' /\ VisionOfThisJob'
  BY <1>1, <1>2 DEF PackInv, PlanInHand, OkWasRead, VisionOfThisJob, Context, VisionActive
<1>11. NoBlindTuning' /\ StartOnlyOnEmptyBed' /\ VerifiedBigCoolsDown'
  BY <1>2 DEF NoBlindTuning, StartOnlyOnEmptyBed, VerifiedBigCoolsDown
<1> QED BY <1>3, <1>6, <1>8, <1>9, <1>10, <1>11, TypeParts, PTL DEF PackInv

(* The action is over: raised, a builtin, or verified.                      *)
LEMMA EndSteps ==
    ASSUME PackInv, RealizeRaises \/ RunBuiltin \/ CloseAction
    PROVE  PackInv'
<1>1. PrinterType /\ ObjectType /\ CycleType /\ TypeOK /\ plan \in Plans
  BY TypeParts DEF PackInv, PlanInHand, RealizeRaises, RunBuiltin, CloseAction
<1>2. /\ pc' = "publish" /\ plan' = None
      /\ UNCHANGED <<packVars, wbPart, big>>
  BY DEF RealizeRaises, RunBuiltin, CloseAction
<1>3. PrinterType'
  BY <1>1, EffectType DEF RealizeRaises, RunBuiltin, CloseAction, NoEffect, printer, PrinterType
<1>4. NoResult \in Results
  BY DEF NoResult, Results
<1>5. plan.kind = "tune" => plan.family \in Families /\ plan.target \in Lo .. Hi
  BY <1>1 DEF Plans, Tunings, Simple, Kinds
<1>6. result' \in Results
  <2>1. CASE CloseAction /\ plan.kind = "tune" /\ VerifyHolds
    <3>1. result' \in [family : {plan.family}, settled : {FALSE}, same : {FALSE, Symptom}]
      BY <2>1 DEF CloseAction
    <3>2. {FALSE, Symptom} \subseteq BOOLEAN
      BY Zenon DEF Symptom
    <3> QED BY <1>5, <2>1, <3>1, <3>2 DEF Results
  <2>2. CASE result' = NoResult
    BY <1>4, <2>2
  <2> QED BY <2>1, <2>2 DEF RealizeRaises, RunBuiltin, CloseAction
<1>7. recent' \in [Relative -> (Lo .. Hi) \cup {None}]
  BY <1>1, <1>5 DEF RealizeRaises, RunBuiltin, CloseAction, ObjectType
<1>8. ObjectType' /\ BigIsCooling'
  BY <1>1, <1>2, <1>6, <1>7, Zenon DEF ObjectType, BigIsCooling, PackInv, packVars
<1>9. wb' \in Boards /\ (wb' = wb \/ (~wb'.ok /\ wb'.vision = None))
  BY <1>1, UsedType DEF RealizeRaises, RunBuiltin, CloseAction, CycleType
<1>10. faults' \in 0 .. MaxFaults
  <2>1. faults' = faults \/ (faults < MaxFaults /\ faults' = faults + 1)
    BY DEF RealizeRaises, RunBuiltin, CloseAction
  <2> QED BY <1>1, <2>1, PackAssumption DEF CycleType
<1>11. seen' \in BOOLEAN
  BY <1>1, Zenon DEF RealizeRaises, RunBuiltin, CloseAction, CycleType
<1>12. CycleType'
  BY <1>1, <1>2, <1>9, <1>10, <1>11 DEF CycleType
<1>13. PartIsKnown'
  <2>1. part' /\ seen' => part /\ seen
    <3>1. CASE RealizeRaises /\ plan.kind = "start" /\ Effect
      BY <3>1, Zenon DEF RealizeRaises, NoEffect, printer
    <3>2. CASE RealizeRaises /\ plan.kind # "start" /\ Effect
      BY <3>2 DEF RealizeRaises, Effect, NoEffect, printer
    <3>3. CASE UNCHANGED <<part, seen>>
      BY <3>3
    <3> QED BY <3>1, <3>2, <3>3 DEF RealizeRaises, RunBuiltin, CloseAction, NoEffect, printer
  <2> QED BY <1>2, <2>1 DEF PackInv, PartIsKnown
<1>14. PlanInHand' /\ OkWasRead' /\ VisionOfThisJob'
  BY <1>2, <1>9 DEF PackInv, PlanInHand, OkWasRead, VisionOfThisJob, Context, VisionActive
<1>15. NoBlindTuning' /\ StartOnlyOnEmptyBed' /\ VerifiedBigCoolsDown'
  BY <1>2 DEF NoBlindTuning, StartOnlyOnEmptyBed, VerifiedBigCoolsDown
<1> QED BY <1>3, <1>8, <1>12, <1>13, <1>14, <1>15, TypeParts, PTL DEF PackInv

(* A new process knows of nothing.                                          *)
LEMMA RestartSteps ==
    ASSUME PackInv, Restart
    PROVE  PackInv'
<1>1. PrinterType /\ ObjectType /\ CycleType
  BY TypeParts DEF PackInv
<1>2. NotPublished \in Boards /\ ~NotPublished.ok /\ NotPublished.vision = None
  BY DEF NotPublished, Boards
<1>3. faults' \in 0 .. MaxFaults
  BY <1>1, PackAssumption DEF Restart, CycleType
<1>4. PrinterType' /\ ObjectType' /\ BigIsCooling'
  BY <1>1, Zenon DEF Restart, printer, PrinterType, ObjectType, BigIsCooling
<1>5. CycleType'
  BY <1>2, <1>3, Zenon DEF Restart, CycleType
<1>6. PlanInHand' /\ OkWasRead' /\ VisionOfThisJob' /\ PartIsKnown'
  BY <1>2 DEF Restart, PlanInHand, OkWasRead, VisionOfThisJob, PartIsKnown
<1>7. NoBlindTuning' /\ StartOnlyOnEmptyBed' /\ VerifiedBigCoolsDown'
  BY DEF Restart, NoBlindTuning, StartOnlyOnEmptyBed, VerifiedBigCoolsDown
<1> QED BY <1>4, <1>5, <1>6, <1>7, TypeParts, PTL DEF PackInv

(* Every step keeps the invariant.                                          *)
LEMMA PackInductive == PackInv /\ [Next]_vars => PackInv'
<1> SUFFICES ASSUME PackInv, [Next]_vars PROVE PackInv'
  OBVIOUS
<1>1. CASE CycleStep
  BY <1>1, FaultSteps, PublishSteps, CompileSteps, RealizedSteps, EndSteps DEF CycleStep
<1>2. CASE Beside
  BY <1>2, MachineSteps, ClockSteps DEF Beside
<1>3. CASE Restart
  BY <1>3, RestartSteps
<1>4. CASE UNCHANGED vars
  <2>1. PrinterType /\ ObjectType /\ CycleType
    BY TypeParts DEF PackInv
  <2>2. PrinterType' /\ ObjectType' /\ CycleType'
    BY <1>4, <2>1, Zenon DEF vars, printer, packVars, PrinterType, ObjectType, CycleType
  <2>3. PlanInHand' /\ OkWasRead' /\ BigIsCooling' /\ PartIsKnown'
    BY <1>4 DEF vars, printer, packVars, PackInv, PlanInHand, OkWasRead, BigIsCooling, PartIsKnown
  <2>4. VisionOfThisJob' /\ NoBlindTuning' /\ StartOnlyOnEmptyBed' /\ VerifiedBigCoolsDown'
    BY <1>4 DEF vars, printer, packVars, PackInv, VisionOfThisJob, NoBlindTuning, StartOnlyOnEmptyBed,
       VerifiedBigCoolsDown, Context, VisionActive
  <2> QED BY <2>2, <2>3, <2>4, TypeParts, PTL DEF PackInv
<1> QED BY <1>1, <1>2, <1>3, <1>4 DEF Next

(* The pack's caches, whiteboard and plan fit together in every state.      *)
THEOREM PackInvariance == Spec => []PackInv
BY PackInit, PackInductive, PTL DEF Spec

-----------------------------------------------------------------------------
(* pack.py:770, 869: another job's vision payload is shown with a state     *)
(* only by the publish that drained it a moment ago, however the refreshes  *)
(* overlap with the jobs.                                                   *)
THEOREM VisionFitsItsState == Spec => []VisionOfThisJob
<1>1. PackInv => VisionOfThisJob
  BY DEF PackInv
<1> QED BY <1>1, PackInvariance, PTL

(* pack.py:1436, 2627: START is planned only on a bed without the part of a *)
(* job this process knows of, for any number of jobs, outages and restarts. *)
THEOREM StartsOnEmptyBeds == Spec => []StartOnlyOnEmptyBed
<1>1. PackInv => StartOnlyOnEmptyBed
  BY DEF PackInv
<1> QED BY <1>1, PackInvariance, PTL

(* pack.py:248, 497, 1979: tuning is planned on what was really read, not   *)
(* while the family cools down, and no sequence of steps of whatever size   *)
(* leaves the envelope.                                                     *)
THEOREM TuningIsBounded == Spec => []TuningInv
<1>1. PackInv => TuningInv
  BY DEF PackInv, TuningInv, EnvelopeKept, TypeOK, Values
<1> QED BY <1>1, PackInvariance, PTL

=============================================================================
