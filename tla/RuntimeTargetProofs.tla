------------------------ MODULE RuntimeTargetProofs ------------------------
(***************************************************************************)
(* What holds of RuntimeTarget for every set of packages and operations    *)
(* and any number of worker starts, frames, crashes and failures.          *)
(***************************************************************************)
EXTENDS RuntimeTarget, SequenceTheorems, TLAPS

-----------------------------------------------------------------------------
(* Types. *)

StoreTyped ==
  /\ desired \in Target /\ previous \subseteq Target /\ lastGood \subseteq Target
  /\ ack \subseteq Target \X Nat /\ failure \subseteq Target /\ putBack \subseteq Target \X Target

LEMMA TargetsAreRows ==
  ASSUME NEW T \in SUBSET Target
  PROVE  UNION T \in Target
BY DEF Target

LEMMA WithoutIsTarget ==
  ASSUME NEW t \in Target, NEW P
  PROVE  Without(t, P) \in Target
BY DEF Target, Without

\* The store's transactions store targets.
LEMMA StoreKeepsType ==
  ASSUME TypeOK
  PROVE  /\ \A t \in Target : PublishDesired(t) => StoreTyped'
         /\ \A t \in Target, g \in Nat : QualifyConverged(t, g) => StoreTyped'
         /\ \A t \in Target : QualifyFailed(t) => StoreTyped'
         /\ \A t \in Target : RevertDesired(t) => StoreTyped'
         /\ \A P : Revoked(P) => StoreTyped'
<1>1. ASSUME NEW t \in Target, PublishDesired(t) PROVE StoreTyped'
  BY <1>1 DEF PublishDesired, RetireSuspicion, StoreTyped, TypeOK
<1>2. ASSUME NEW t \in Target, NEW g \in Nat, QualifyConverged(t, g) PROVE StoreTyped'
  BY <1>2 DEF QualifyConverged, RetireSuspicion, StoreTyped, TypeOK
<1>3. ASSUME NEW t \in Target, QualifyFailed(t) PROVE StoreTyped'
  BY <1>3 DEF QualifyFailed, StoreTyped, TypeOK
<1>4. ASSUME NEW t \in Target, RevertDesired(t) PROVE StoreTyped'
  <2>1. putBack' \subseteq Target \X Target
    BY <1>4 DEF RevertDesired, TypeOK
  <2>2. QED
    BY <1>4, <2>1 DEF RevertDesired, StoreTyped, TypeOK
<1>5. ASSUME NEW P, Revoked(P) PROVE StoreTyped'
  <2>1. CASE UNCHANGED storeVars
    BY <2>1 DEF storeVars, StoreTyped, TypeOK
  <2>2. CASE /\ desired' = Without(desired, P)
             /\ previous' = Sanitized(previous, P) /\ lastGood' = Sanitized(lastGood, P)
             /\ ack' = {} /\ failure' = {} /\ RetireSuspicion
    <3>1. \A t \in Target : Without(t, P) \in Target
      BY WithoutIsTarget
    <3>2. Sanitized(previous, P) \subseteq Target /\ Sanitized(lastGood, P) \subseteq Target
      BY <3>1 DEF Sanitized, TypeOK
    <3>3. QED
      BY <2>2, <3>1, <3>2 DEF RetireSuspicion, StoreTyped, TypeOK
  <2>3. QED
    BY <1>5, <2>1, <2>2 DEF Revoked
<1>6. QED
  BY <1>1, <1>2, <1>3, <1>4, <1>5

SlotType == [active : SUBSET Target, pending : SUBSET Target, applied : SUBSET Target]

LEMMA OfferedIsSlot ==
  ASSUME NEW s \in SlotType, NEW t \in Target
  PROVE  Offered(s, t) \in SlotType
BY DEF Offered, SlotType

LEMMA OfferedAllIsSlot ==
  ASSUME NEW s \in SlotType, NEW offers \in Seq(Target)
  PROVE  OfferedAll(s, offers) \in SlotType
<1>1. CASE offers = <<>>
  BY <1>1 DEF OfferedAll
<1>2. CASE offers # <<>>
  <2>1. Head(offers) \in Target /\ offers[Len(offers)] \in Target
    BY <1>2
  <2>2. Offered(s, Head(offers)) \in SlotType
    BY <2>1, OfferedIsSlot
  <2> DEFINE first == IF s.active = {} THEN Offered(s, Head(offers)) ELSE s
  <2>3. first \in SlotType
    BY <2>2
  <2>4. Offered(first, offers[Len(offers)]) \in SlotType
    <3> HIDE DEF first
    <3>1. QED
      BY <2>1, <2>3, OfferedIsSlot
  <2>5. QED
    BY <1>2, <2>4 DEF OfferedAll
<1>3. QED
  BY <1>1, <1>2

\* What became desired is staged, offered or kept for a worker that starts.
LEMMA AnnounceKeepsType ==
  ASSUME TypeOK, NEW t \in Target
  PROVE  /\ Deliver(t) => slot' \in SlotType /\ deferred' \in Seq(Target)
         /\ Announce(t) => slot' \in SlotType /\ deferred' \in Seq(Target) /\ staged' \subseteq Target
<1>1. slot \in SlotType /\ deferred \in Seq(Target) /\ staged \subseteq Target
  BY DEF TypeOK, SlotType
<1>2. Offered(slot, t) \in SlotType /\ Append(deferred, t) \in Seq(Target)
  BY <1>1, OfferedIsSlot
<1>3. Deliver(t) => slot' \in SlotType /\ deferred' \in Seq(Target)
  BY <1>1, <1>2 DEF Deliver
<1>4. Announce(t) => slot' \in SlotType /\ deferred' \in Seq(Target) /\ staged' \subseteq Target
  BY <1>1, <1>3 DEF Announce
<1>5. QED
  BY <1>3, <1>4

InventoryTyped ==
  /\ installed \in [Package -> {1, 2}] /\ versions \in [Package -> SUBSET {1, 2}]
  /\ trusted \subseteq Package /\ enabled \subseteq Package /\ lapsed \subseteq Package
DaemonTyped ==
  /\ daemon \in {"down", "starting", "started", "serving"}
  /\ staged \subseteq Target /\ preferred \subseteq Target
RevertingType ==
  [wanted : BOOLEAN, reading : BOOLEAN, target : Target, loadable : Target, dropped : BOOLEAN]
LaneTyped ==
  /\ lane \subseteq Op /\ retiring \subseteq Row /\ pins \subseteq Row
  /\ reverting \in RevertingType /\ op \in [Op -> OpType]
LinkTyped ==
  /\ phase \in {"down", "spawned", "booting", "live"} /\ gen \in Nat
  /\ boot \in [env : Sources, source : Sources, target : SUBSET Target]
WorkerTyped ==
  /\ slot \in SlotType /\ hosted \in BOOLEAN /\ deferred \in Seq(Target)
  /\ frames \in Seq(FrameType) /\ ran \subseteq Target
BoundTyped == starts \in Nat /\ faults \in Nat

LEMMA TypeParts ==
  TypeOK <=> /\ StoreTyped /\ InventoryTyped /\ DaemonTyped /\ LaneTyped
             /\ LinkTyped /\ WorkerTyped /\ BoundTyped
BY DEF TypeOK, StoreTyped, InventoryTyped, DaemonTyped, LaneTyped, LinkTyped, WorkerTyped,
       BoundTyped, SlotType, RevertingType

\* The parts in the next state.
LEMMA NextTypeParts ==
  ASSUME StoreTyped', InventoryTyped', DaemonTyped', LaneTyped', LinkTyped', WorkerTyped', BoundTyped'
  PROVE  TypeOK'
BY DEF TypeOK, StoreTyped, InventoryTyped, DaemonTyped, LaneTyped, LinkTyped, WorkerTyped,
       BoundTyped, SlotType, RevertingType

\* What a step leaves alone keeps its type.
LEMMA UnchangedKeepsType ==
  ASSUME TypeOK
  PROVE  /\ UNCHANGED storeVars => StoreTyped'
         /\ UNCHANGED inventoryVars => InventoryTyped'
         /\ UNCHANGED daemonVars => DaemonTyped'
         /\ UNCHANGED laneVars => LaneTyped'
         /\ UNCHANGED linkVars => LinkTyped'
         /\ UNCHANGED workerVars => WorkerTyped'
         /\ UNCHANGED boundVars => BoundTyped'
<1>1. StoreTyped /\ InventoryTyped /\ DaemonTyped /\ LaneTyped /\ LinkTyped /\ WorkerTyped /\ BoundTyped
  BY TypeParts
<1>2. UNCHANGED storeVars => StoreTyped'
  BY <1>1 DEF StoreTyped, storeVars
<1>3. UNCHANGED inventoryVars => InventoryTyped'
  BY <1>1 DEF InventoryTyped, inventoryVars
<1>4. UNCHANGED daemonVars => DaemonTyped'
  BY <1>1 DEF DaemonTyped, daemonVars
<1>5. UNCHANGED laneVars => LaneTyped'
  BY <1>1 DEF LaneTyped, laneVars
<1>6. UNCHANGED linkVars => LinkTyped'
  BY <1>1 DEF LinkTyped, linkVars
<1>7. UNCHANGED workerVars => WorkerTyped'
  BY <1>1 DEF WorkerTyped, workerVars
<1>8. UNCHANGED boundVars => BoundTyped'
  BY <1>1 DEF BoundTyped, boundVars
<1>9. QED
  BY <1>2, <1>3, <1>4, <1>5, <1>6, <1>7, <1>8

LEMMA ReferencedAreRows ==
  ASSUME TypeOK
  PROVE  Referenced \subseteq Row
<1>1. desired \in Target /\ previous \in SUBSET Target /\ lastGood \in SUBSET Target
  BY DEF TypeOK
<1>2. UNION previous \in Target /\ UNION lastGood \in Target
  BY <1>1, TargetsAreRows
<1>3. QED
  BY <1>1, <1>2 DEF Target, Referenced

LEMMA AskKeepsType ==
  ASSUME TypeOK
  PROVE  /\ Asked \in RevertingType /\ Dropped \in RevertingType
         /\ Ask => reverting' \in RevertingType
         /\ \A d \in BOOLEAN : [reverting EXCEPT !.dropped = d] \in RevertingType
<1>1. reverting \in RevertingType
  BY TypeParts DEF LaneTyped
<1>2. \A w, d \in BOOLEAN : [reverting EXCEPT !.wanted = w, !.dropped = d] \in RevertingType
  BY <1>1 DEF RevertingType
<1>3. (reverting.wanted \/ desired \in failure) \in BOOLEAN
  BY <1>1 DEF RevertingType
<1>4. Asked \in RevertingType
  BY <1>2, <1>3 DEF Asked
<1>5. Ask => reverting' \in RevertingType
  BY <1>2 DEF Ask
<1>6. \A d \in BOOLEAN : [reverting EXCEPT !.dropped = d] \in RevertingType
  BY <1>1 DEF RevertingType
<1>7. QED
  BY <1>4, <1>5, <1>6 DEF Dropped

LEMMA NotRevertingIsTyped ==
  ASSUME TypeOK
  PROVE  /\ NotReverting \in RevertingType
         /\ \A w, d \in BOOLEAN : [NotReverting EXCEPT !.wanted = w, !.dropped = d] \in RevertingType
         /\ \A t \in Target, l \in Target :
              [NotReverting EXCEPT !.reading = TRUE, !.target = t, !.loadable = l] \in RevertingType
         /\ reverting.wanted \in BOOLEAN /\ reverting.dropped \in BOOLEAN
<1>1. {} \in Target
  BY DEF Target
<1>2. NotReverting \in RevertingType
  BY <1>1 DEF NotReverting, RevertingType
<1>3. reverting \in RevertingType
  BY TypeParts DEF LaneTyped
<1>4. QED
  BY <1>2, <1>3 DEF RevertingType

Stages == {"revoke", "await", "derive", "enter", "probe", "publish", "deliver", "settle", "over"}

LEMMA IdleIsOp == Idle \in OpType
<1>1. {} \in Target
  BY DEF Target
<1>2. QED
  BY <1>1 DEF Idle, OpType

LEMMA FieldsKeepType ==
  ASSUME NEW r \in OpType
  PROVE  /\ \A s \in Stages : [r EXCEPT !.stage = s] \in OpType
         /\ \A k \in Works \cup {""} : [r EXCEPT !.kind = k] \in OpType
         /\ \A P \in SUBSET Package : [r EXCEPT !.package = P] \in OpType
         /\ \A t \in Target : [r EXCEPT !.base = t] \in OpType /\ [r EXCEPT !.next = t] \in OpType
         /\ [r EXCEPT !.fresh = FALSE] \in OpType
BY DEF OpType, Stages

LEMMA FromIsOp ==
  ASSUME TypeOK, NEW o \in Op, NEW s \in Stages
  PROVE  From(o, s) \in OpType
<1>1. op[o].kind \in Works \cup {""} /\ op[o].package \in SUBSET Package
  BY DEF TypeOK, OpType
<1>2. [Idle EXCEPT !.stage = s] \in OpType
  BY IdleIsOp, FieldsKeepType
<1>3. [[Idle EXCEPT !.stage = s] EXCEPT !.kind = op[o].kind] \in OpType
  BY <1>1, <1>2, FieldsKeepType
<1>4. QED
  BY <1>1, <1>3, FieldsKeepType DEF From

LEMMA OpKeepsType ==
  ASSUME TypeOK, NEW o \in Op, NEW new \in OpType
  PROVE  [op EXCEPT ![o] = new] \in [Op -> OpType]
BY DEF TypeOK

LEMMA StageKeepsType ==
  ASSUME TypeOK, NEW o \in Op
  PROVE  /\ \A s \in Stages : Stage(o, s) => op' \in [Op -> OpType]
         /\ Over(o) => op' \in [Op -> OpType]
         /\ Again(o) => op' \in [Op -> OpType]
<1>1. op[o] \in OpType /\ "over" \in Stages /\ "derive" \in Stages
  BY DEF TypeOK, Stages
<1>2. [Idle EXCEPT !.stage = "over"] \in OpType /\ From(o, "derive") \in OpType
  BY <1>1, IdleIsOp, FieldsKeepType, FromIsOp
<1>3. \A s \in Stages : [op[o] EXCEPT !.stage = s] \in OpType
  BY <1>1, FieldsKeepType
<1>4. \A s \in Stages : Stage(o, s) => op' \in [Op -> OpType]
  BY <1>3, OpKeepsType DEF Stage
<1>5. QED
  BY <1>2, <1>4, OpKeepsType DEF Over, Again

LEMMA InitTyped ==
  ASSUME Init
  PROVE  TypeOK
<1>1. {<<p, 1>> : p \in Package} \in Target /\ {} \in Target
  BY DEF Target, Row
<1>2. StoreTyped /\ pins \subseteq Row
  BY <1>1 DEF Init, StoreTyped, Target
<1>3. InventoryTyped
  BY DEF Init, InventoryTyped
<1>4. DaemonTyped
  BY DEF Init, DaemonTyped
<1>5. op \in [Op -> OpType]
  BY IdleIsOp DEF Init
<1>6. reverting \in RevertingType
  <2>1. NotReverting \in RevertingType
    BY <1>1 DEF NotReverting, RevertingType
  <2>2. QED
    BY <2>1 DEF Init
<1>7. LaneTyped
  BY <1>2, <1>5, <1>6 DEF Init, LaneTyped
<1>8. LinkTyped
  BY DEF Init, LinkTyped, Sources
<1>9. WorkerTyped
  <2>1. slot \in SlotType
    BY DEF Init, EmptySlot, SlotType
  <2>2. <<>> \in Seq(Target) /\ <<>> \in Seq(FrameType)
    OBVIOUS
  <2>3. deferred \in Seq(Target) /\ frames \in Seq(FrameType)
    BY <2>2 DEF Init
  <2>4. QED
    BY <2>1, <2>3 DEF Init, WorkerTyped
<1>10. BoundTyped
  BY DEF Init, BoundTyped
<1>11. QED
  BY <1>2, <1>3, <1>4, <1>7, <1>8, <1>9, <1>10, TypeParts

-----------------------------------------------------------------------------
(* Type correctness, action by action. *)

LEMMA SwitchedIsTyped ==
  ASSUME TypeOK, NEW p \in Package, NEW v \in {1, 2}, Switched(p, v)
  PROVE  InventoryTyped'
<1>1. installed' \in [Package -> {1, 2}] /\ versions' \in [Package -> SUBSET {1, 2}]
  BY DEF Switched, TypeOK
<1>2. trusted' \subseteq Package /\ enabled' \subseteq Package /\ lapsed' \subseteq Package
  BY DEF Switched, TypeOK
<1>3. QED
  BY <1>1, <1>2 DEF InventoryTyped

LEMMA OutdatedIsTyped ==
  ASSUME TypeOK
  PROVE  Outdated \in [Op -> OpType]
<1>1. \A x \in Op : op[x] \in OpType /\ [op[x] EXCEPT !.fresh = FALSE] \in OpType
  BY FieldsKeepType DEF TypeOK
<1>2. QED
  BY <1>1 DEF Outdated

LEMMA CommitTyped ==
  ASSUME TypeOK, NEW o \in Op, NEW p \in Package, NEW k \in Work[o], Commit(o, p, k)
  PROVE  TypeOK'
<1>0. k \in Works
  BY BoundAssumption
<1>1. InventoryTyped'
  <2>1. Change(p, k) /\ InventoryTyped
    BY TypeParts DEF Commit
  <2>2. OtherVersion(installed[p]) \in {1, 2}
    BY DEF OtherVersion, TypeOK
  <2>3. CASE k = "update" \/ k = "rollback"
    BY <2>1, <2>2, <2>3, SwitchedIsTyped DEF Change
  <2>4. CASE ~(k = "update" \/ k = "rollback")
    <3>1. UNCHANGED <<installed, versions, lapsed>>
      BY <2>1, <2>4 DEF Change, inventoryVars
    <3>2. trusted' \subseteq Package /\ enabled' \subseteq Package
      BY <2>1, <2>4 DEF Change, inventoryVars, InventoryTyped
    <3>3. QED
      BY <2>1, <3>1, <3>2 DEF InventoryTyped
  <2>5. QED
    BY <2>3, <2>4
<1>2. op' \in [Op -> OpType]
  <2>1. PICK t \in IF k = "tree" THEN TreeTargets(p) ELSE {{}} :
          op' = [Outdated EXCEPT ![o] = [Idle EXCEPT !.kind = k, !.package = {p}, !.next = t,
                                           !.stage = IF k = "untrust" THEN "revoke" ELSE "await"]]
    BY DEF Commit
  <2>2. t \in Target
    BY <2>1, WithoutIsTarget DEF TreeTargets, TypeOK, Target
  <2> DEFINE new == [Idle EXCEPT !.kind = k, !.package = {p}, !.next = t,
                                 !.stage = IF k = "untrust" THEN "revoke" ELSE "await"]
  <2>3. new \in OpType
    <3>1. {p} \in SUBSET Package
      OBVIOUS
    <3>2. [[Idle EXCEPT !.kind = k] EXCEPT !.package = {p}] \in OpType
      BY <1>0, <3>1, IdleIsOp, FieldsKeepType
    <3>3. [[[Idle EXCEPT !.kind = k] EXCEPT !.package = {p}] EXCEPT !.next = t] \in OpType
      BY <2>2, <3>2, FieldsKeepType
    <3>4. (IF k = "untrust" THEN "revoke" ELSE "await") \in Stages
      BY DEF Stages
    <3>5. QED
      BY <3>3, <3>4, FieldsKeepType
  <2>4. QED
    <3> HIDE DEF new
    <3>1. QED
      BY <2>1, <2>3, OutdatedIsTyped DEF new
<1>3. LaneTyped'
  BY <1>2, AskKeepsType DEF Commit, LaneTyped, TypeOK, RevertingType
<1>4. QED
  BY <1>1, <1>3, UnchangedKeepsType, NextTypeParts DEF Commit

LEMMA RescanTyped ==
  ASSUME TypeOK, NEW p \in Package, Rescan(p)
  PROVE  TypeOK'
<1>1. InventoryTyped'
  <2>1. installed' \in [Package -> {1, 2}] /\ versions' \in [Package -> SUBSET {1, 2}]
    BY DEF Rescan, TypeOK
  <2>2. trusted' \subseteq Package /\ enabled' \subseteq Package /\ lapsed' \subseteq Package
    BY DEF Rescan, TypeOK
  <2>3. QED
    BY <2>1, <2>2 DEF InventoryTyped
<1>2. LaneTyped'
  BY OutdatedIsTyped, AskKeepsType DEF Rescan, LaneTyped, TypeOK
<1>3. QED
  BY <1>1, <1>2, UnchangedKeepsType, NextTypeParts DEF Rescan

LEMMA RevokeTyped ==
  ASSUME TypeOK, NEW o \in Op, Revoke(o)
  PROVE  TypeOK'
<1>1. StoreTyped'
  BY StoreKeepsType DEF Revoke
<1>2. desired' \in Target
  BY <1>1 DEF StoreTyped
<1>3. slot' \in SlotType /\ deferred' \in Seq(Target) /\ staged' \subseteq Target
  <2>1. CASE Announce(desired')
    BY <1>2, <2>1, AnnounceKeepsType
  <2>2. CASE UNCHANGED <<staged, slot, deferred>>
    BY <2>2 DEF TypeOK, SlotType
  <2>3. QED
    BY <2>1, <2>2 DEF Revoke
<1>4. WorkerTyped' /\ DaemonTyped'
  BY <1>3 DEF Revoke, WorkerTyped, DaemonTyped, TypeOK
<1>5. LaneTyped'
  BY ReferencedAreRows, AskKeepsType, StageKeepsType DEF Revoke, LaneTyped, TypeOK, Stages
<1>6. QED
  BY <1>1, <1>4, <1>5, UnchangedKeepsType, NextTypeParts DEF Revoke

LEMMA RebuiltIsTarget ==
  ASSUME TypeOK, NEW p \in Package, NEW k
  PROVE  Rebuilt(p, k) \in Target
<1>1. Without(desired, {p}) \in Target
  BY WithoutIsTarget DEF TypeOK
<1>2. <<p, installed[p]>> \in Row
  BY DEF TypeOK, Row
<1>3. QED
  BY <1>1, <1>2 DEF Rebuilt, Target

LEMMA DeriveTyped ==
  ASSUME TypeOK, NEW o \in Op, Derive(o)
  PROVE  TypeOK'
<1> DEFINE targets == IF op[o].kind = "tree" THEN {op[o].next}
                      ELSE UNION {Derived(p, op[o].kind) : p \in op[o].package}
<1>1. targets \subseteq Target
  <2>1. op[o].package \subseteq Package
    BY DEF TypeOK, OpType
  <2>2. \A p \in Package : Derived(p, op[o].kind) \subseteq Target
    <3>1. \A p \in Package : Rebuilt(p, op[o].kind) \in Target
      BY RebuiltIsTarget
    <3>2. previous \subseteq Target
      BY DEF TypeOK
    <3>3. QED
      BY <3>1, <3>2 DEF Derived
  <2>3. op[o].next \in Target
    BY DEF TypeOK, OpType
  <2>4. QED
    BY <2>1, <2>2, <2>3
<1>2. op' \in [Op -> OpType]
  <2>1. CASE Over(o)
    BY <2>1, StageKeepsType
  <2>2. CASE \E t \in targets :
               op' = [op EXCEPT ![o].stage = "enter", ![o].base = desired, ![o].next = t]
    <3>1. PICK t \in targets :
            op' = [op EXCEPT ![o].stage = "enter", ![o].base = desired, ![o].next = t]
      BY <2>2
    <3>2. desired \in Target /\ t \in Target /\ "enter" \in Stages /\ op[o] \in OpType
      BY <1>1 DEF TypeOK, Stages
    <3>3. op' = [op EXCEPT ![o] = [[[op[o] EXCEPT !.stage = "enter"] EXCEPT !.base = desired] EXCEPT !.next = t]]
      BY <3>1 DEF TypeOK
    <3>4. [op[o] EXCEPT !.stage = "enter"] \in OpType
      BY <3>2, FieldsKeepType
    <3>5. [[op[o] EXCEPT !.stage = "enter"] EXCEPT !.base = desired] \in OpType
      BY <3>2, <3>4, FieldsKeepType
    <3>6. [[[op[o] EXCEPT !.stage = "enter"] EXCEPT !.base = desired] EXCEPT !.next = t] \in OpType
      BY <3>2, <3>5, FieldsKeepType
    <3>7. QED
      BY <3>3, <3>6, OpKeepsType
  <2>3. QED
    BY <2>1, <2>2 DEF Derive
<1>3. LaneTyped'
  BY <1>2 DEF Derive, LaneTyped, TypeOK, RevertingType
<1>4. QED
  BY <1>3, UnchangedKeepsType, NextTypeParts DEF Derive

LEMMA EnterTyped ==
  ASSUME TypeOK, NEW o \in Op, Enter(o)
  PROVE  TypeOK'
<1>1. op[o].next \subseteq Row
  BY DEF TypeOK, OpType, Target
<1>2. op' \in [Op -> OpType]
  <2>1. "probe" \in Stages
    BY DEF Stages
  <2>2. CASE op' = [op EXCEPT ![o].stage = "probe"]
    BY <2>1, <2>2, StageKeepsType DEF Stage
  <2>3. QED
    BY <2>2, StageKeepsType DEF Enter
<1>3. pins' \subseteq Row /\ lane' \subseteq Op
  BY <1>1 DEF Enter, Collect, TypeOK
<1>4. LaneTyped'
  BY <1>2, <1>3 DEF Enter, LaneTyped, TypeOK, RevertingType
<1>5. QED
  BY <1>4, UnchangedKeepsType, NextTypeParts DEF Enter

LEMMA ProbeTyped ==
  ASSUME TypeOK, NEW o \in Op, Probe(o)
  PROVE  TypeOK'
<1>1. op' \in [Op -> OpType]
  <2>1. "publish" \in Stages
    BY DEF Stages
  <2>2. QED
    BY <2>1, StageKeepsType DEF Probe
<1>2. pins' \subseteq Row /\ lane' \subseteq Op
  BY DEF Probe, Leave, Collect, TypeOK
<1>3. LaneTyped'
  BY <1>1, <1>2 DEF Probe, LaneTyped, TypeOK, RevertingType
<1>4. QED
  BY <1>3, UnchangedKeepsType, NextTypeParts DEF Probe

LEMMA PublishTyped ==
  ASSUME TypeOK, NEW o \in Op, Publish(o)
  PROVE  TypeOK'
<1>1. op[o].next \in Target /\ op[o] \in OpType
  BY DEF TypeOK, OpType
<1>2. StoreTyped'
  BY <1>1, StoreKeepsType DEF Publish
<1>3. WorkerTyped' /\ DaemonTyped'
  BY <1>1, AnnounceKeepsType DEF Publish, WorkerTyped, DaemonTyped, TypeOK
<1>4. op' \in [Op -> OpType]
  <2>1. {} \in Target /\ "deliver" \in Stages
    BY DEF Target, Stages
  <2>2. [op[o] EXCEPT !.stage = "deliver"] \in OpType
    BY <1>1, <2>1, FieldsKeepType
  <2>3. [[op[o] EXCEPT !.stage = "deliver"] EXCEPT !.base = {}] \in OpType
    BY <2>1, <2>2, FieldsKeepType
  <2>4. \/ Over(o)
        \/ op' = [op EXCEPT ![o] = [[op[o] EXCEPT !.stage = "deliver"] EXCEPT !.base = {}]]
    BY DEF Publish, TypeOK
  <2>5. QED
    BY <2>3, <2>4, OpKeepsType, StageKeepsType
<1>5. LaneTyped'
  <2>1. reverting' \in RevertingType
    BY AskKeepsType DEF Publish
  <2>2. lane' \subseteq Op /\ pins' \subseteq Row /\ retiring' \subseteq Row
    BY DEF Publish, Leave, Collect, TypeOK
  <2>3. QED
    BY <1>4, <2>1, <2>2 DEF LaneTyped
<1>6. QED
  BY <1>2, <1>3, <1>5, UnchangedKeepsType, NextTypeParts DEF Publish

LEMMA DeliverAgainTyped ==
  ASSUME TypeOK, NEW o \in Op, DeliverAgain(o)
  PROVE  TypeOK'
<1>1. op[o].next \in Target
  BY DEF TypeOK, OpType
<1>2. WorkerTyped'
  BY <1>1, AnnounceKeepsType DEF DeliverAgain, WorkerTyped, TypeOK
<1>3. LaneTyped'
  <2>1. "settle" \in Stages
    BY DEF Stages
  <2>2. QED
    BY <2>1, StageKeepsType DEF DeliverAgain, LaneTyped, TypeOK, RevertingType
<1>4. QED
  BY <1>2, <1>3, UnchangedKeepsType, NextTypeParts DEF DeliverAgain

LEMMA OpFailsTyped ==
  ASSUME TypeOK, NEW o \in Op, OpFails(o)
  PROVE  TypeOK'
<1>1. InventoryTyped'
  BY DEF OpFails, InventoryTyped, TypeOK, OpType
<1>2. LaneTyped'
  <2>1. reverting' \in RevertingType
    BY AskKeepsType DEF OpFails, TypeOK, RevertingType
  <2>2. op' \in [Op -> OpType]
    BY StageKeepsType DEF OpFails
  <2>3. QED
    BY <2>1, <2>2 DEF OpFails, LaneTyped, TypeOK
<1>3. BoundTyped'
  BY DEF OpFails, BoundTyped, TypeOK
<1>4. QED
  BY <1>1, <1>2, <1>3, UnchangedKeepsType, NextTypeParts DEF OpFails

LEMMA SettleTyped ==
  ASSUME TypeOK, NEW o \in Op, Settle(o)
  PROVE  TypeOK'
<1>1. op' \in [Op -> OpType]
  BY StageKeepsType DEF Settle
<1>2. reverting' \in RevertingType
  BY AskKeepsType DEF Settle, TypeOK, RevertingType
<1>3. retiring' \subseteq Row /\ pins' \subseteq Row
  BY DEF Settle, Collect, TypeOK
<1>4. LaneTyped'
  BY <1>1, <1>2, <1>3 DEF Settle, LaneTyped, TypeOK
<1>5. QED
  BY <1>4, UnchangedKeepsType, NextTypeParts DEF Settle

LEMMA RevertStartTyped ==
  ASSUME TypeOK, RevertStart
  PROVE  TypeOK'
<1>1. Loadable \in Target /\ desired \in Target /\ {} \in Target
  BY DEF Loadable, TypeOK, Target
<1>2. reverting' \in RevertingType
  BY <1>1, NotRevertingIsTyped DEF RevertStart
<1>3. LaneTyped'
  BY <1>2 DEF RevertStart, LaneTyped, TypeOK
<1>4. QED
  BY <1>3, UnchangedKeepsType, NextTypeParts DEF RevertStart

LEMMA FallbackIsTarget ==
  ASSUME TypeOK, NEW loadable \in Target
  PROVE  Fallback(loadable) \in Target
BY DEF Fallback, Target

LEMMA RevertEndsTyped ==
  ASSUME TypeOK, RevertEnds
  PROVE  TypeOK'
<1>1. reverting.loadable \in Target
  BY DEF TypeOK, Target
<1>2. Fallback(reverting.loadable) \in Target
  BY <1>1, FallbackIsTarget
<1>3. reverting' \in RevertingType
  BY NotRevertingIsTyped DEF RevertEnds
<1>4. StoreTyped' /\ slot' \in SlotType /\ deferred' \in Seq(Target) /\ staged' \subseteq Target
  <2>1. CASE RevertDesired(Fallback(reverting.loadable)) /\ Announce(Fallback(reverting.loadable))
    BY <1>2, <2>1, StoreKeepsType, AnnounceKeepsType
  <2>2. CASE UNCHANGED <<storeVars, staged, slot, deferred>>
    <3>1. UNCHANGED storeVars /\ UNCHANGED <<staged, slot, deferred>>
      BY <2>2
    <3>2. QED
      BY <3>1, UnchangedKeepsType DEF TypeOK, SlotType
  <2>3. QED
    BY <2>1, <2>2 DEF RevertEnds
<1>5. WorkerTyped' /\ DaemonTyped'
  BY <1>4 DEF RevertEnds, WorkerTyped, DaemonTyped, TypeOK
<1>6. LaneTyped'
  BY <1>3 DEF RevertEnds, Collect, LaneTyped, TypeOK
<1>7. QED
  BY <1>4, <1>5, <1>6, UnchangedKeepsType, NextTypeParts DEF RevertEnds

LEMMA RevertFailsTyped ==
  ASSUME TypeOK, RevertFails
  PROVE  TypeOK'
<1>1. reverting' \in RevertingType
  BY NotRevertingIsTyped DEF RevertFails
<1>2. LaneTyped'
  BY <1>1 DEF RevertFails, LaneTyped, TypeOK
<1>3. BoundTyped'
  BY DEF RevertFails, BoundTyped, TypeOK
<1>4. QED
  BY <1>2, <1>3, UnchangedKeepsType, NextTypeParts DEF RevertFails

BootType == [env : Sources, source : Sources, target : SUBSET Target]

LEMMA BootIsTyped ==
  ASSUME TypeOK
  PROVE  /\ BootSource \in Sources /\ BootTarget \in SUBSET Target
         /\ [env |-> "", source |-> "", target |-> {}] \in BootType
         /\ EmptySlot \in SlotType
<1>1. desired \in Target /\ lastGood \subseteq Target
  BY DEF TypeOK
<1>2. BootSource \in Sources /\ BootTarget \in SUBSET Target
  BY <1>1 DEF BootSource, BootTarget, Sources
<1>3. [env |-> "", source |-> "", target |-> {}] \in BootType
  BY DEF BootType, Sources
<1>4. EmptySlot \in SlotType
  BY DEF EmptySlot, SlotType
<1>5. QED
  BY <1>2, <1>3, <1>4

LEMMA SpawnTyped ==
  ASSUME TypeOK, Spawn
  PROVE  TypeOK'
<1>1. boot' \in BootType
  BY BootIsTyped DEF Spawn, BootType, Sources
<1>2. LinkTyped'
  <2>1. phase' = "spawned" /\ gen' = gen + 1
    BY DEF Spawn
  <2>2. QED
    BY <1>1, <2>1 DEF LinkTyped, TypeOK, BootType
<1>3. BoundTyped'
  <2>1. starts' = starts + 1 /\ faults' = faults
    BY DEF Spawn
  <2>2. QED
    BY <2>1 DEF BoundTyped, TypeOK
<1>4. QED
  BY <1>2, <1>3, UnchangedKeepsType, NextTypeParts DEF Spawn

LEMMA HelloTyped ==
  ASSUME TypeOK, Hello
  PROVE  TypeOK'
<1>1. boot' \in BootType
  <2>1. boot \in BootType
    BY DEF TypeOK, BootType
  <2>2. QED
    BY <2>1, BootIsTyped DEF Hello, BootType
<1>2. slot' \in SlotType
  BY BootIsTyped DEF Hello, SlotType
<1>3. LinkTyped' /\ WorkerTyped'
  BY <1>1, <1>2 DEF Hello, LinkTyped, WorkerTyped, TypeOK, BootType
<1>4. QED
  BY <1>3, UnchangedKeepsType, NextTypeParts DEF Hello

LEMMA FrameIsTyped ==
  ASSUME TypeOK, NEW t \in Target, NEW kind \in {"boot_ready", "converged", "apply_failed"}
  PROVE  Frame(kind, t) \in FrameType
BY DEF TypeOK, Frame, FrameType

LEMMA ApplyTyped ==
  ASSUME TypeOK, Apply
  PROVE  TypeOK'
<1>1. PICK t \in slot.active :
        /\ slot' = Drained(slot, {t}) /\ ran' = ran \cup {t} /\ hosted' = TRUE
        /\ frames' = frames \o (IF hosted THEN <<>> ELSE <<Frame("boot_ready", t)>>)
                            \o <<Frame("converged", t)>>
  BY DEF Apply
<1>2. slot \in SlotType /\ t \in Target
  BY DEF TypeOK, SlotType
<1>3. slot' \in SlotType
  BY <1>1, <1>2 DEF Drained, SlotType
<1>4. Frame("boot_ready", t) \in FrameType /\ Frame("converged", t) \in FrameType
  BY <1>2, FrameIsTyped
<1>5. frames' \in Seq(FrameType)
  <2> DEFINE first == IF hosted THEN <<>> ELSE <<Frame("boot_ready", t)>>
  <2>1. first \in Seq(FrameType) /\ <<Frame("converged", t)>> \in Seq(FrameType)
    BY <1>4
  <2>2. frames \in Seq(FrameType) /\ frames' = frames \o first \o <<Frame("converged", t)>>
    BY <1>1 DEF TypeOK
  <2> HIDE DEF first
  <2>3. QED
    BY <2>1, <2>2
<1>6. WorkerTyped'
  <2>1. deferred' \in Seq(Target)
    BY DEF Apply, TypeOK
  <2>2. ran' \subseteq Target /\ hosted' \in BOOLEAN
    BY <1>1, <1>2 DEF TypeOK
  <2>3. QED
    BY <1>3, <1>5, <2>1, <2>2 DEF WorkerTyped
<1>7. QED
  BY <1>6, UnchangedKeepsType, NextTypeParts DEF Apply

LEMMA ApplyFailsTyped ==
  ASSUME TypeOK, ApplyFails
  PROVE  TypeOK'
<1>1. PICK t \in slot.active : slot' = Drained(slot, slot.applied)
                               /\ frames' = Append(frames, Frame("apply_failed", t))
  BY DEF ApplyFails
<1>2. slot \in SlotType /\ t \in Target /\ frames \in Seq(FrameType)
  BY DEF TypeOK, SlotType
<1>3. slot' \in SlotType
  BY <1>1, <1>2 DEF Drained, SlotType
<1>4. frames' \in Seq(FrameType)
  <2>1. Frame("apply_failed", t) \in FrameType
    BY <1>2, FrameIsTyped
  <2>2. QED
    BY <1>1, <1>2, <2>1
<1>5. WorkerTyped'
  BY <1>3, <1>4 DEF ApplyFails, WorkerTyped, TypeOK
<1>6. QED
  BY <1>5, UnchangedKeepsType, NextTypeParts DEF ApplyFails

LEMMA NoWorkerTyped ==
  ASSUME TypeOK, NoWorker
  PROVE  /\ LinkTyped'
         /\ slot' \in SlotType /\ hosted' \in BOOLEAN /\ deferred' \in Seq(Target) /\ ran' \subseteq Target
<1>1. <<>> \in Seq(Target)
  OBVIOUS
<1>2. boot' \in BootType
  BY BootIsTyped DEF NoWorker
<1>3. slot' \in SlotType
  BY BootIsTyped DEF NoWorker
<1>4. QED
  BY <1>1, <1>2, <1>3 DEF NoWorker, LinkTyped, BootType, TypeOK

LEMMA BootReadyTyped ==
  ASSUME TypeOK, NEW f, BootReady(f)
  PROVE  /\ LinkTyped'
         /\ slot' \in SlotType /\ hosted' \in BOOLEAN /\ deferred' \in Seq(Target) /\ ran' \subseteq Target
<1>1. CASE UNCHANGED <<linkVars, slot, deferred, hosted, ran>>
  <2>1. UNCHANGED linkVars /\ UNCHANGED <<slot, deferred, hosted, ran>>
    BY <1>1
  <2>2. QED
    BY <2>1, UnchangedKeepsType DEF TypeOK, SlotType
<1>2. CASE /\ phase' = "live" /\ deferred' = <<>>
           /\ slot' = OfferedAll(slot, (IF desired \in boot.target THEN <<>> ELSE <<desired>>) \o deferred)
           /\ UNCHANGED <<gen, boot, hosted, ran>>
  <2> DEFINE late == IF desired \in boot.target THEN <<>> ELSE <<desired>>
  <2>1. desired \in Target /\ deferred \in Seq(Target) /\ slot \in SlotType
    BY DEF TypeOK, SlotType
  <2>2. late \in Seq(Target)
    BY <2>1
  <2>3. late \o deferred \in Seq(Target)
    <3> HIDE DEF late
    <3>1. QED
      BY <2>1, <2>2
  <2>4. slot' \in SlotType
    BY <1>2, <2>1, <2>3, OfferedAllIsSlot
  <2>5. <<>> \in Seq(Target)
    OBVIOUS
  <2>6. deferred' \in Seq(Target)
    BY <1>2, <2>5
  <2>7. LinkTyped'
    BY <1>2 DEF LinkTyped, TypeOK
  <2>8. QED
    BY <1>2, <2>4, <2>6, <2>7 DEF TypeOK
<1>3. QED
  BY <1>1, <1>2 DEF BootReady

LEMMA WorkerDiesTyped ==
  ASSUME TypeOK, WorkerDies
  PROVE  TypeOK'
<1>1. LinkTyped' /\ slot' \in SlotType /\ hosted' \in BOOLEAN /\ deferred' \in Seq(Target) /\ ran' \subseteq Target
  BY NoWorkerTyped DEF WorkerDies
<1>2. WorkerTyped'
  BY <1>1 DEF WorkerDies, WorkerTyped, TypeOK
<1>3. BoundTyped'
  BY DEF WorkerDies, BoundTyped, TypeOK
<1>4. StoreTyped' /\ reverting' \in RevertingType
  <2>1. CASE QualifyFailed(desired) /\ Ask
    BY <2>1, StoreKeepsType, AskKeepsType DEF TypeOK
  <2>2. CASE UNCHANGED <<storeVars, reverting>>
    <3>1. UNCHANGED storeVars /\ UNCHANGED reverting
      BY <2>2
    <3>2. QED
      BY <3>1, UnchangedKeepsType DEF TypeOK, RevertingType
  <2>3. QED
    BY <2>1, <2>2 DEF WorkerDies
<1>5. LaneTyped'
  BY <1>4 DEF WorkerDies, LaneTyped, TypeOK
<1>6. QED
  BY <1>1, <1>2, <1>3, <1>4, <1>5, UnchangedKeepsType, NextTypeParts DEF WorkerDies

LEMMA HandleTyped ==
  ASSUME TypeOK, Handle
  PROVE  TypeOK'
<1> DEFINE f == Head(frames)
<1>1. f \in FrameType /\ frames' \in Seq(FrameType)
  BY DEF Handle, TypeOK
<1>2. f.target \in Target /\ f.gen \in Nat /\ desired \in Target
  BY <1>1 DEF FrameType, TypeOK
<1>3. UNCHANGED storeVars /\ UNCHANGED reverting => StoreTyped' /\ reverting' \in RevertingType
  BY UnchangedKeepsType DEF TypeOK, RevertingType
<1>4. UNCHANGED linkVars /\ UNCHANGED <<slot, hosted, deferred, ran>>
        => /\ LinkTyped' /\ slot' \in SlotType /\ hosted' \in BOOLEAN
           /\ deferred' \in Seq(Target) /\ ran' \subseteq Target
  BY UnchangedKeepsType DEF TypeOK, SlotType
<1>5. /\ StoreTyped' /\ reverting' \in RevertingType
      /\ LinkTyped' /\ slot' \in SlotType /\ hosted' \in BOOLEAN
      /\ deferred' \in Seq(Target) /\ ran' \subseteq Target
  <2>1. CASE BootReady(f) /\ UNCHANGED <<storeVars, reverting>>
    BY <1>3, <2>1, BootReadyTyped
  <2>2. CASE /\ IF Confirms(f) THEN QualifyConverged(desired, f.gen) ELSE UNCHANGED storeVars
             /\ UNCHANGED <<reverting, linkVars, slot, hosted, deferred, ran>>
    <3>1. UNCHANGED linkVars /\ UNCHANGED <<slot, hosted, deferred, ran>> /\ UNCHANGED reverting
      BY <2>2
    <3>2. StoreTyped'
      BY <1>2, <2>2, StoreKeepsType, UnchangedKeepsType
    <3>3. QED
      BY <1>4, <3>1, <3>2 DEF TypeOK, RevertingType
  <2>3. CASE /\ Failed(f.target)
             /\ NoWorker \/ UNCHANGED <<linkVars, slot, hosted, deferred, ran>>
    <3>1. StoreTyped' /\ reverting' \in RevertingType
      BY <1>2, <1>3, <2>3, StoreKeepsType, AskKeepsType DEF Failed
    <3>2. UNCHANGED <<linkVars, slot, hosted, deferred, ran>>
            => UNCHANGED linkVars /\ UNCHANGED <<slot, hosted, deferred, ran>>
      OBVIOUS
    <3>3. QED
      BY <1>4, <2>3, <3>1, <3>2, NoWorkerTyped
  <2>4. QED
    BY <2>1, <2>2, <2>3 DEF Handle
<1>6. WorkerTyped'
  BY <1>1, <1>5 DEF WorkerTyped
<1>7. LaneTyped'
  BY <1>5 DEF Handle, LaneTyped, TypeOK
<1>8. QED
  BY <1>5, <1>6, <1>7, UnchangedKeepsType, NextTypeParts DEF Handle

LEMMA CrashTyped ==
  ASSUME TypeOK, Crash
  PROVE  TypeOK'
<1>1. {} \in Target /\ <<>> \in Seq(Target) /\ <<>> \in Seq(FrameType)
  BY DEF Target
<1>2. op' \in [Op -> OpType]
  <2>1. "await" \in Stages /\ \A o \in Op : op[o] \in OpType
    BY DEF Stages, TypeOK
  <2>2. \A o \in Op : From(o, "await") \in OpType
    BY <2>1, FromIsOp
  <2>3. [Idle EXCEPT !.stage = "over"] \in OpType
    BY IdleIsOp, FieldsKeepType DEF Stages
  <2>4. QED
    BY <2>1, <2>2, <2>3 DEF Crash
<1>3. reverting' \in RevertingType
  BY NotRevertingIsTyped DEF Crash
<1>4. LaneTyped'
  BY <1>2, <1>3 DEF Crash, LaneTyped, TypeOK
<1>5. LinkTyped' /\ DaemonTyped'
  BY BootIsTyped DEF Crash, LinkTyped, DaemonTyped, BootType
<1>6. WorkerTyped'
  BY <1>1, BootIsTyped DEF Crash, WorkerTyped
<1>7. BoundTyped'
  <2>1. faults' = faults + 1 /\ starts' = starts
    BY DEF Crash
  <2>2. QED
    BY <2>1 DEF BoundTyped, TypeOK
<1>8. QED
  BY <1>4, <1>5, <1>6, <1>7, UnchangedKeepsType, NextTypeParts DEF Crash

LEMMA RestartTyped ==
  ASSUME TypeOK, Restart
  PROVE  TypeOK'
<1>1. StoreTyped'
  BY StoreKeepsType DEF Restart
<1>2. Referenced' \subseteq Row
  <2>1. desired' \in Target /\ previous' \in SUBSET Target /\ lastGood' \in SUBSET Target
    BY <1>1 DEF StoreTyped
  <2>2. (UNION previous') \in Target /\ (UNION lastGood') \in Target
    BY <2>1, TargetsAreRows
  <2>3. QED
    BY <2>1, <2>2 DEF Referenced, Target
<1>3. DaemonTyped'
  BY <1>1 DEF Restart, DaemonTyped, StoreTyped, TypeOK
<1>4. LaneTyped'
  BY <1>2 DEF Restart, LaneTyped, RevertingType, TypeOK
<1>5. InventoryTyped'
  BY DEF Restart, InventoryTyped, TypeOK
<1>6. QED
  BY <1>1, <1>3, <1>4, <1>5, UnchangedKeepsType, NextTypeParts DEF Restart

LEMMA StartupPublishTyped ==
  ASSUME TypeOK, NEW p \in Package, StartupPublish(p)
  PROVE  TypeOK'
<1>1. StoreTyped'
  BY RebuiltIsTarget, StoreKeepsType DEF StartupPublish
<1>2. DaemonTyped'
  BY <1>1 DEF StartupPublish, DaemonTyped, StoreTyped, TypeOK
<1>3. desired' \subseteq Row
  BY <1>1 DEF StoreTyped, Target
<1>4. LaneTyped'
  BY <1>3 DEF StartupPublish, LaneTyped, RevertingType, TypeOK
<1>5. QED
  BY <1>1, <1>2, <1>4, UnchangedKeepsType, NextTypeParts DEF StartupPublish

LEMMA StartupRevertTyped ==
  ASSUME TypeOK, StartupRevert
  PROVE  TypeOK'
<1>1. DaemonTyped' /\ LaneTyped'
  BY AskKeepsType DEF StartupRevert, DaemonTyped, LaneTyped, TypeOK
<1>2. QED
  BY <1>1, UnchangedKeepsType, NextTypeParts DEF StartupRevert

LEMMA CompleteStartupTyped ==
  ASSUME TypeOK, CompleteStartup
  PROVE  TypeOK'
<1>1. DaemonTyped' /\ WorkerTyped'
  BY UnchangedKeepsType DEF CompleteStartup, DaemonTyped, TypeOK
<1>2. QED
  BY <1>1, UnchangedKeepsType, NextTypeParts DEF CompleteStartup

LEMMA StutterTyped ==
  ASSUME TypeOK, UNCHANGED vars
  PROVE  TypeOK'
BY UnchangedKeepsType, NextTypeParts DEF vars

LEMMA StepTyped ==
  ASSUME TypeOK, [Next]_vars
  PROVE  TypeOK'
<1>1. ASSUME NEW o \in Op, OpStep(o) PROVE TypeOK'
  BY <1>1, CommitTyped, RevokeTyped, DeriveTyped, EnterTyped, ProbeTyped, PublishTyped,
     DeliverAgainTyped, SettleTyped, OpFailsTyped DEF OpStep
<1>2. CASE WorkerStep
  BY <1>2, SpawnTyped, HelloTyped, ApplyTyped, ApplyFailsTyped, HandleTyped, WorkerDiesTyped DEF WorkerStep
<1>3. CASE DaemonStep
  BY <1>3, CrashTyped, RestartTyped, StartupPublishTyped, StartupRevertTyped, CompleteStartupTyped DEF DaemonStep
<1>4. CASE RevertStart \/ RevertEnds \/ RevertFails
  BY <1>4, RevertStartTyped, RevertEndsTyped, RevertFailsTyped
<1>5. QED
  BY <1>1, <1>2, <1>3, <1>4, RescanTyped, StutterTyped DEF Next

\* What a publication, a put-back, a revocation or a rollback stores is a target, and
\* the slot, the operations and the frames hold targets only, for every set of packages
\* and operations.
THEOREM TypeCorrect == Spec => []TypeOK
<1>1. Init => TypeOK
  BY InitTyped
<1>2. TypeOK /\ [Next]_vars => TypeOK'
  BY StepTyped
<1>3. QED
  BY <1>1, <1>2, PTL DEF Spec

-----------------------------------------------------------------------------
(* Confirmations. A daemon that crashed counts its workers from one again, so *)
(* a generation number alone does not say whose confirmation is stored: what  *)
(* keeps an old confirmation true is that the target it names is the desired  *)
(* and the last good one, which is what the next worker boots from.           *)

\* A report of the worker that is there names a target it ran.
FrameIsTrue(f) ==
  /\ f.gen <= gen
  /\ f.gen = gen /\ phase # "down" /\ f.kind \in {"boot_ready", "converged"} => f.target \in ran
FramesAreTrue == \A i \in DOMAIN frames : FrameIsTrue(frames[i])

One(T) == \A x, y \in T : x = y
AckIsDesired == \A a \in ack : a[1] = desired /\ lastGood = {desired}
AckIsBooted == phase = "booting" => \A a \in ack : a[2] = gen => a[1] \in ran \cup boot.target

AckInv ==
  /\ FramesAreTrue /\ One(lastGood) /\ One(boot.target)
  /\ AckIsDesired /\ AckIsBooted /\ AckedIsApplied

\* A store transaction other than a confirmation, or none.
StoreStep ==
  \/ UNCHANGED storeVars
  \/ \E t \in Target : PublishDesired(t) \/ RevertDesired(t) \/ QualifyFailed(t)
  \/ \E P \in SUBSET Package : Revoked(P)

LEMMA StoreStepKeepsAck ==
  ASSUME TypeOK, One(lastGood), AckIsDesired, StoreStep
  PROVE  One(lastGood)' /\ AckIsDesired' /\ ack' \subseteq ack
<1>1. CASE UNCHANGED storeVars
  BY <1>1 DEF storeVars, One, AckIsDesired
<1>2. ASSUME NEW t \in Target, PublishDesired(t)
      PROVE  One(lastGood)' /\ AckIsDesired' /\ ack' \subseteq ack
  BY <1>2 DEF PublishDesired, One, AckIsDesired
<1>3. ASSUME NEW t \in Target, RevertDesired(t)
      PROVE  One(lastGood)' /\ AckIsDesired' /\ ack' \subseteq ack
  BY <1>3 DEF RevertDesired, One, AckIsDesired
<1>4. ASSUME NEW t \in Target, QualifyFailed(t)
      PROVE  One(lastGood)' /\ AckIsDesired' /\ ack' \subseteq ack
  BY <1>4 DEF QualifyFailed, One, AckIsDesired
<1>5. ASSUME NEW P \in SUBSET Package, Revoked(P)
      PROVE  One(lastGood)' /\ AckIsDesired' /\ ack' \subseteq ack
  <2>1. CASE UNCHANGED storeVars
    BY <1>1, <2>1
  <2>2. CASE lastGood' = Sanitized(lastGood, P) /\ ack' = {}
    BY <2>2 DEF Sanitized, One, AckIsDesired
  <2>3. QED
    BY <1>5, <2>1, <2>2 DEF Revoked
<1>6. QED
  BY <1>1, <1>2, <1>3, <1>4, <1>5 DEF StoreStep

\* What leaves the worker and its frames alone.
LEMMA WorkerAloneKeepsAck ==
  ASSUME TypeOK, AckInv, StoreStep, UNCHANGED <<phase, gen, boot, frames, ran>>
  PROVE  AckInv'
<1>1. One(lastGood)' /\ AckIsDesired' /\ ack' \subseteq ack
  BY StoreStepKeepsAck DEF AckInv
<1>2. FramesAreTrue' /\ One(boot.target)'
  BY DEF AckInv, FramesAreTrue, FrameIsTrue, One
<1>3. AckIsBooted' /\ AckedIsApplied'
  BY <1>1 DEF AckInv, AckIsBooted, AckedIsApplied, Live
<1>4. QED
  BY <1>1, <1>2, <1>3 DEF AckInv

LEMMA OpStepKeepsAck ==
  ASSUME TypeOK, AckInv, NEW o \in Op, OpStep(o)
  PROVE  AckInv'
<1>1. op[o].next \in Target /\ op[o].package \in SUBSET Package
  BY DEF TypeOK, OpType
<1>2. ASSUME NEW p \in Package, NEW k \in Work[o], Commit(o, p, k) PROVE AckInv'
  <2>1. StoreStep /\ UNCHANGED <<phase, gen, boot, frames, ran>>
    BY <1>2 DEF Commit, StoreStep, linkVars, workerVars
  <2>2. QED
    BY <2>1, WorkerAloneKeepsAck
<1>3. CASE Revoke(o)
  <2>1. StoreStep /\ UNCHANGED <<phase, gen, boot, frames, ran>>
    BY <1>1, <1>3 DEF Revoke, StoreStep, linkVars
  <2>2. QED
    BY <2>1, WorkerAloneKeepsAck
<1>4. CASE Derive(o) \/ Enter(o) \/ Probe(o) \/ Settle(o) \/ OpFails(o)
  <2>1. StoreStep /\ UNCHANGED <<phase, gen, boot, frames, ran>>
    BY <1>4 DEF Derive, Enter, Probe, Settle, OpFails, StoreStep, linkVars, workerVars
  <2>2. QED
    BY <2>1, WorkerAloneKeepsAck
<1>5. CASE Publish(o)
  <2>1. StoreStep /\ UNCHANGED <<phase, gen, boot, frames, ran>>
    BY <1>1, <1>5 DEF Publish, StoreStep, linkVars
  <2>2. QED
    BY <2>1, WorkerAloneKeepsAck
<1>6. CASE DeliverAgain(o)
  <2>1. StoreStep /\ UNCHANGED <<phase, gen, boot, frames, ran>>
    BY <1>6 DEF DeliverAgain, StoreStep, linkVars
  <2>2. QED
    BY <2>1, WorkerAloneKeepsAck
<1>7. QED
  BY <1>2, <1>3, <1>4, <1>5, <1>6 DEF OpStep

LEMMA ReverterKeepsAck ==
  ASSUME TypeOK, AckInv, RevertStart \/ RevertEnds \/ RevertFails
  PROVE  AckInv'
<1>1. CASE RevertStart \/ RevertFails
  <2>1. StoreStep /\ UNCHANGED <<phase, gen, boot, frames, ran>>
    BY <1>1 DEF RevertStart, RevertFails, StoreStep, linkVars, workerVars
  <2>2. QED
    BY <2>1, WorkerAloneKeepsAck
<1>2. CASE RevertEnds
  <2>1. Fallback(reverting.loadable) \in Target
    BY FallbackIsTarget DEF TypeOK
  <2>2. RevertDesired(Fallback(reverting.loadable)) \/ UNCHANGED storeVars
    BY <1>2 DEF RevertEnds
  <2>3. UNCHANGED <<phase, gen, boot, frames, ran>>
    BY <1>2 DEF RevertEnds, linkVars
  <2>4. QED
    BY <2>1, <2>2, <2>3, WorkerAloneKeepsAck DEF StoreStep
<1>3. QED
  BY <1>1, <1>2

LEMMA FramesAreFrames ==
  ASSUME TypeOK
  PROVE  \A i \in DOMAIN frames : frames[i] \in FrameType
<1>1. frames \in Seq(FrameType)
  BY DEF TypeOK
<1>2. QED
  BY <1>1

LEMMA SpawnKeepsAck ==
  ASSUME TypeOK, AckInv, Spawn
  PROVE  AckInv'
<1>1. phase' = "spawned" /\ gen' = gen + 1 /\ UNCHANGED <<desired, lastGood, ack, frames, ran>> /\ boot'.target = {}
  BY DEF Spawn, storeVars, workerVars
<1>2. FramesAreTrue'
  <2>1. \A i \in DOMAIN frames : frames[i].gen \in Nat /\ frames[i].gen <= gen /\ gen \in Nat
    <3>1. \A i \in DOMAIN frames : frames[i] \in FrameType
      BY FramesAreFrames
    <3>2. \A i \in DOMAIN frames : frames[i].gen \in Nat
      BY <3>1 DEF FrameType
    <3>3. \A i \in DOMAIN frames : frames[i].gen <= gen
      BY DEF AckInv, FramesAreTrue, FrameIsTrue
    <3>4. QED
      BY <3>2, <3>3 DEF TypeOK
  <2>2. \A i \in DOMAIN frames : frames[i].gen <= gen + 1 /\ frames[i].gen # gen + 1
    BY <2>1
  <2>3. QED
    BY <1>1, <2>2 DEF FramesAreTrue, FrameIsTrue
<1>3. One(lastGood)' /\ One(boot.target)' /\ AckIsDesired'
  BY <1>1 DEF AckInv, One, AckIsDesired
<1>4. AckIsBooted' /\ AckedIsApplied'
  BY <1>1 DEF AckIsBooted, AckedIsApplied, Live
<1>5. QED
  BY <1>2, <1>3, <1>4 DEF AckInv

\* Whatever a worker boots from is the target an old confirmation names.
LEMMA HelloKeepsAck ==
  ASSUME TypeOK, AckInv, Hello
  PROVE  AckInv'
<1>1. /\ phase = "spawned" /\ phase' = "booting" /\ UNCHANGED <<desired, lastGood, ack, gen, frames, ran>>
      /\ boot'.target = BootTarget
  <2>1. boot \in BootType
    BY DEF TypeOK, BootType
  <2>2. QED
    BY <2>1 DEF Hello, storeVars, BootType
<1>2. FramesAreTrue'
  BY <1>1 DEF AckInv, FramesAreTrue, FrameIsTrue
<1>3. One(lastGood)' /\ AckIsDesired'
  BY <1>1 DEF AckInv, One, AckIsDesired
<1>4. One(boot.target)'
  BY <1>1 DEF AckInv, One, BootTarget
<1>5. AckIsBooted'
  BY <1>1 DEF AckInv, AckIsDesired, AckIsBooted, BootTarget, BootSource
<1>6. AckedIsApplied'
  BY <1>1 DEF AckedIsApplied, Live
<1>7. QED
  BY <1>2, <1>3, <1>4, <1>5, <1>6 DEF AckInv

LEMMA ApplyKeepsAck ==
  ASSUME TypeOK, AckInv, Apply
  PROVE  AckInv'
<1>1. PICK t \in slot.active :
        /\ ran' = ran \cup {t}
        /\ frames' = frames \o (IF hosted THEN <<>> ELSE <<Frame("boot_ready", t)>>)
                            \o <<Frame("converged", t)>>
  BY DEF Apply
<1>2. UNCHANGED <<desired, lastGood, ack, phase, gen, boot>>
  BY DEF Apply, storeVars, linkVars
<1>3. t \in Target /\ gen \in Nat
  BY DEF TypeOK
<1>4. FramesAreTrue'
  <2> DEFINE first == IF hosted THEN <<>> ELSE <<Frame("boot_ready", t)>>
             new == {Frame("boot_ready", t), Frame("converged", t)}
  <2>1. \A f \in new : f.gen = gen /\ f.target = t
    BY DEF Frame
  <2>2. first \in Seq(new) /\ <<Frame("converged", t)>> \in Seq(new)
    <3>1. Frame("boot_ready", t) \in new /\ Frame("converged", t) \in new
      OBVIOUS
    <3> HIDE DEF new
    <3>2. <<>> \in Seq(new) /\ <<Frame("boot_ready", t)>> \in Seq(new) /\ <<Frame("converged", t)>> \in Seq(new)
      BY <3>1
    <3>3. QED
      BY <3>2
  <2>3. frames \in Seq(FrameType) /\ frames' = (frames \o first) \o <<Frame("converged", t)>>
    BY <1>1 DEF TypeOK
  <2>4. \A i \in DOMAIN frames' : frames'[i] \in new \/ \E j \in DOMAIN frames : frames'[i] = frames[j]
    <3> HIDE DEF first, new
    <3>1. QED
      BY <2>2, <2>3
  <2>5. \A f \in new : FrameIsTrue(f)'
    BY <1>1, <1>2, <1>3, <2>1 DEF FrameIsTrue
  <2>6. \A j \in DOMAIN frames : FrameIsTrue(frames[j])
    BY DEF AckInv, FramesAreTrue
  <2>7. \A f : FrameIsTrue(f) => f.gen <= gen' /\ (f.gen = gen' /\ phase' # "down" /\ f.kind \in {"boot_ready", "converged"} => f.target \in ran')
    BY <1>1, <1>2 DEF FrameIsTrue
  <2>8. \A f \in new : f.gen <= gen' /\ (f.gen = gen' /\ phase' # "down" /\ f.kind \in {"boot_ready", "converged"} => f.target \in ran')
    BY <1>1, <1>2, <1>3, <2>1
  <2>9. \A i \in DOMAIN frames' :
          /\ frames'[i].gen <= gen'
          /\ frames'[i].gen = gen' /\ phase' # "down" /\ frames'[i].kind \in {"boot_ready", "converged"}
               => frames'[i].target \in ran'
    <3> HIDE DEF new
    <3>1. QED
      BY <2>4, <2>6, <2>7, <2>8
  <2>10. QED
    BY <2>9 DEF FramesAreTrue, FrameIsTrue
<1>5. One(lastGood)' /\ One(boot.target)' /\ AckIsDesired'
  BY <1>2 DEF AckInv, One, AckIsDesired
<1>6. AckIsBooted' /\ AckedIsApplied'
  BY <1>1, <1>2 DEF AckInv, AckIsBooted, AckedIsApplied, Live
<1>7. QED
  BY <1>4, <1>5, <1>6 DEF AckInv

LEMMA ApplyFailsKeepsAck ==
  ASSUME TypeOK, AckInv, ApplyFails
  PROVE  AckInv'
<1>1. PICK t \in slot.active : frames' = Append(frames, Frame("apply_failed", t))
  BY DEF ApplyFails
<1>2. UNCHANGED <<desired, lastGood, ack, phase, gen, boot, ran>>
  BY DEF ApplyFails, storeVars, linkVars
<1>3. FramesAreTrue'
  <2>1. Frame("apply_failed", t).gen = gen /\ Frame("apply_failed", t).kind = "apply_failed" /\ gen \in Nat
    BY DEF Frame, TypeOK
  <2>2. frames \in Seq(FrameType)
    BY DEF TypeOK
  <2>3. \A i \in DOMAIN frames' :
          frames'[i] = Frame("apply_failed", t) \/ \E j \in DOMAIN frames : frames'[i] = frames[j]
    BY <1>1, <2>2
  <2>4. QED
    BY <1>2, <2>1, <2>3 DEF AckInv, FramesAreTrue, FrameIsTrue
<1>4. One(lastGood)' /\ One(boot.target)' /\ AckIsDesired'
  BY <1>2 DEF AckInv, One, AckIsDesired
<1>5. AckIsBooted' /\ AckedIsApplied'
  BY <1>2 DEF AckInv, AckIsBooted, AckedIsApplied, Live
<1>6. QED
  BY <1>3, <1>4, <1>5 DEF AckInv

\* A worker that is gone confirms nothing about itself.
LEMMA GoneKeepsAck ==
  ASSUME TypeOK, AckInv, StoreStep, phase' = "down", gen' = gen, boot'.target = {}, ran' = {},
         \A i \in DOMAIN frames' : \E j \in DOMAIN frames : frames'[i] = frames[j]
  PROVE  AckInv'
<1>1. One(lastGood)' /\ AckIsDesired'
  BY StoreStepKeepsAck DEF AckInv
<1>2. FramesAreTrue'
  BY DEF AckInv, FramesAreTrue, FrameIsTrue
<1>3. One(boot.target)' /\ AckIsBooted' /\ AckedIsApplied'
  BY DEF One, AckIsBooted, AckedIsApplied, Live
<1>4. QED
  BY <1>1, <1>2, <1>3 DEF AckInv

LEMMA WorkerDiesKeepsAck ==
  ASSUME TypeOK, AckInv, WorkerDies
  PROVE  AckInv'
<1>1. phase' = "down" /\ gen' = gen /\ boot'.target = {} /\ ran' = {} /\ frames' = frames
  BY DEF WorkerDies, NoWorker
<1>2. StoreStep
  <2>1. QualifyFailed(desired) \/ UNCHANGED storeVars
    BY DEF WorkerDies
  <2>2. desired \in Target
    BY DEF TypeOK
  <2>3. QED
    BY <2>1, <2>2 DEF StoreStep
<1>3. QED
  BY <1>1, <1>2, GoneKeepsAck

LEMMA CrashKeepsAck ==
  ASSUME TypeOK, AckInv, Crash
  PROVE  AckInv'
<1>1. phase' = "down" /\ boot'.target = {} /\ frames' = <<>> /\ UNCHANGED <<desired, lastGood, ack>>
  BY DEF Crash, storeVars
<1>2. FramesAreTrue'
  BY <1>1 DEF FramesAreTrue
<1>3. One(lastGood)' /\ AckIsDesired'
  BY <1>1 DEF AckInv, One, AckIsDesired
<1>4. One(boot.target)' /\ AckIsBooted' /\ AckedIsApplied'
  BY <1>1 DEF One, AckIsBooted, AckedIsApplied, Live
<1>5. QED
  BY <1>2, <1>3, <1>4 DEF AckInv

LEMMA DaemonStepKeepsAck ==
  ASSUME TypeOK, AckInv, DaemonStep
  PROVE  AckInv'
<1>1. CASE Restart
  <2>1. StoreStep /\ UNCHANGED <<phase, gen, boot, frames, ran>>
    BY <1>1 DEF Restart, StoreStep, linkVars, workerVars
  <2>2. QED
    BY <2>1, WorkerAloneKeepsAck
<1>2. ASSUME NEW p \in Package, StartupPublish(p) PROVE AckInv'
  <2>1. StoreStep /\ UNCHANGED <<phase, gen, boot, frames, ran>>
    BY <1>2, RebuiltIsTarget DEF StartupPublish, StoreStep, linkVars, workerVars
  <2>2. QED
    BY <2>1, WorkerAloneKeepsAck
<1>3. CASE StartupRevert \/ CompleteStartup
  <2>1. StoreStep /\ UNCHANGED <<phase, gen, boot, frames, ran>>
    BY <1>3 DEF StartupRevert, CompleteStartup, StoreStep, linkVars, workerVars
  <2>2. QED
    BY <2>1, WorkerAloneKeepsAck
<1>4. QED
  BY <1>1, <1>2, <1>3, CrashKeepsAck DEF DaemonStep

\* Of the frames the daemon reads, only a confirmation of the desired target is stored,
\* and only the announcement of the target offered at boot makes a worker the live one.
LEMMA HandleKeepsAck ==
  ASSUME TypeOK, AckInv, Handle
  PROVE  AckInv'
<1> DEFINE f == Head(frames)
<1>1. frames # <<>> /\ frames' = Tail(frames) /\ frames \in Seq(FrameType)
  BY DEF Handle, TypeOK
<1>2. \A i \in DOMAIN frames' : \E j \in DOMAIN frames : frames'[i] = frames[j]
  BY <1>1
<1>3. FrameIsTrue(f) /\ f \in FrameType
  <2>1. f = frames[1] /\ 1 \in DOMAIN frames
    BY <1>1
  <2>2. QED
    BY <2>1, FramesAreFrames DEF AckInv, FramesAreTrue
<1>4. f.target \in Target /\ f.gen \in Nat /\ desired \in Target
  BY <1>3 DEF FrameType, TypeOK
<1>5. ASSUME UNCHANGED <<phase, gen, boot, ran>>, One(lastGood)', AckIsDesired',
             \A a \in ack' : a \in ack \/ (a[2] = gen /\ phase # "down" => a[1] \in ran)
      PROVE  AckInv'
  <2>1. FramesAreTrue' /\ One(boot.target)'
    BY <1>2, <1>5 DEF AckInv, FramesAreTrue, FrameIsTrue, One
  <2>2. AckIsBooted' /\ AckedIsApplied'
    BY <1>5 DEF AckInv, AckIsBooted, AckedIsApplied, Live
  <2>3. QED
    BY <1>5, <2>1, <2>2 DEF AckInv
<1>6. CASE f.kind = "boot_ready" /\ BootReady(f) /\ UNCHANGED <<storeVars, reverting>>
  <2>1. UNCHANGED <<desired, lastGood, ack>>
    BY <1>6 DEF storeVars
  <2>2. One(lastGood)' /\ AckIsDesired'
    BY <2>1 DEF AckInv, One, AckIsDesired
  <2>3. CASE UNCHANGED <<linkVars, slot, deferred, hosted, ran>>
    <3>1. UNCHANGED <<phase, gen, boot, ran>>
      BY <2>3 DEF linkVars
    <3>2. QED
      BY <1>5, <2>1, <2>2, <3>1
  <2>4. CASE /\ phase = "booting" /\ f.gen = gen /\ f.target \in boot.target
             /\ phase' = "live" /\ UNCHANGED <<gen, boot, hosted, ran>>
    <3>1. f.target \in ran /\ \A x \in boot.target : x = f.target
      BY <1>3, <1>6, <2>4 DEF AckInv, FrameIsTrue, One
    <3>2. AckedIsApplied' /\ AckIsBooted'
      BY <2>1, <2>4, <3>1 DEF AckInv, AckIsBooted, AckedIsApplied, Live
    <3>3. FramesAreTrue' /\ One(boot.target)'
      BY <1>2, <2>4 DEF AckInv, FramesAreTrue, FrameIsTrue, One
    <3>4. QED
      BY <2>2, <3>2, <3>3 DEF AckInv
  <2>5. QED
    BY <1>6, <2>3, <2>4 DEF BootReady
<1>7. CASE /\ f.kind = "converged"
           /\ IF Confirms(f) THEN QualifyConverged(desired, f.gen) ELSE UNCHANGED storeVars
           /\ UNCHANGED <<reverting, linkVars, slot, hosted, deferred, ran>>
  <2>1. UNCHANGED <<phase, gen, boot, ran>>
    BY <1>7 DEF linkVars
  <2>2. CASE UNCHANGED storeVars
    <3>1. One(lastGood)' /\ AckIsDesired' /\ ack' = ack
      BY <2>2 DEF AckInv, One, AckIsDesired, storeVars
    <3>2. QED
      BY <1>5, <2>1, <3>1
  <2>3. CASE Confirms(f) /\ QualifyConverged(desired, f.gen)
    <3>1. lastGood' = {desired} /\ ack' = {<<desired, f.gen>>} /\ desired' = desired
      BY <2>3 DEF QualifyConverged
    <3>2. One(lastGood)' /\ AckIsDesired'
      BY <3>1 DEF One, AckIsDesired
    <3>3. f.gen = gen /\ phase # "down" => desired \in ran
      BY <1>3, <1>7, <2>3 DEF Confirms, FrameIsTrue
    <3>4. \A a \in ack' : a[2] = gen /\ phase # "down" => a[1] \in ran
      BY <3>1, <3>3
    <3>5. QED
      BY <1>5, <2>1, <3>2, <3>4
  <2>4. QED
    BY <1>7, <2>2, <2>3
<1>8. CASE /\ f.kind = "apply_failed" /\ Failed(f.target)
           /\ NoWorker \/ UNCHANGED <<linkVars, slot, hosted, deferred, ran>>
  <2>1. StoreStep
    BY <1>4, <1>8 DEF Failed, StoreStep
  <2>2. CASE NoWorker
    <3>1. phase' = "down" /\ gen' = gen /\ boot'.target = {} /\ ran' = {}
      BY <2>2 DEF NoWorker
    <3>2. QED
      BY <1>2, <2>1, <3>1, GoneKeepsAck
  <2>3. CASE UNCHANGED <<linkVars, slot, hosted, deferred, ran>>
    <3>1. UNCHANGED <<phase, gen, boot, ran>>
      BY <2>3 DEF linkVars
    <3>2. One(lastGood)' /\ AckIsDesired' /\ ack' \subseteq ack
      BY <2>1, StoreStepKeepsAck DEF AckInv
    <3>3. QED
      BY <1>5, <3>1, <3>2
  <2>4. QED
    BY <1>8, <2>2, <2>3
<1>9. QED
  BY <1>6, <1>7, <1>8 DEF Handle

LEMMA StepKeepsAck ==
  ASSUME TypeOK, AckInv, [Next]_vars
  PROVE  AckInv'
<1>1. ASSUME NEW o \in Op, OpStep(o) PROVE AckInv'
  BY <1>1, OpStepKeepsAck
<1>2. CASE RevertStart \/ RevertEnds \/ RevertFails
  BY <1>2, ReverterKeepsAck
<1>3. CASE WorkerStep
  BY <1>3, SpawnKeepsAck, HelloKeepsAck, ApplyKeepsAck, ApplyFailsKeepsAck, HandleKeepsAck, WorkerDiesKeepsAck
     DEF WorkerStep
<1>4. CASE DaemonStep
  BY <1>4, DaemonStepKeepsAck
<1>5. CASE UNCHANGED vars
  <2>1. StoreStep /\ UNCHANGED <<phase, gen, boot, frames, ran>>
    BY <1>5 DEF vars, StoreStep, linkVars, workerVars
  <2>2. QED
    BY <2>1, WorkerAloneKeepsAck
<1>6. ASSUME NEW p \in Package, Rescan(p) PROVE AckInv'
  <2>1. StoreStep /\ UNCHANGED <<phase, gen, boot, frames, ran>>
    BY <1>6 DEF Rescan, StoreStep, linkVars, workerVars
  <2>2. QED
    BY <2>1, WorkerAloneKeepsAck
<1>7. QED
  BY <1>1, <1>2, <1>3, <1>4, <1>5, <1>6 DEF Next

\* A confirmation stored under the live worker's generation names a target that worker
\* applied, however often the daemon crashed and numbered its workers from one again,
\* and whatever frames of workers that are gone it still reads.
THEOREM AckedIsAppliedAlways == Spec => []AckedIsApplied
<1>1. Init => AckInv
  <2>1. SUFFICES ASSUME Init PROVE AckInv
    OBVIOUS
  <2>2. frames = <<>> /\ lastGood = {} /\ boot.target = {} /\ ack = {} /\ phase = "down"
    BY <2>1 DEF Init
  <2>3. QED
    BY <2>2 DEF AckInv, FramesAreTrue, One, AckIsDesired, AckIsBooted, AckedIsApplied, Live
<1>2. TypeOK /\ AckInv /\ [Next]_vars => AckInv'
  BY StepKeepsAck
<1>3. AckInv => AckedIsApplied
  BY DEF AckInv
<1>4. QED
  BY <1>1, <1>2, <1>3, TypeCorrect, PTL DEF Spec

-----------------------------------------------------------------------------
(* What the store may mount or fall back to stays pinned and trusted. An      *)
(* operation past its probe keeps the lane, so no collection and no          *)
(* revocation comes between its probe and its publication.                   *)

InLane ==
  \A o \in Op : op[o].stage \in {"probe", "publish"} => lane = {o} /\ op[o].next \subseteq pins
LaneIsServing == lane # {} => Serving
ReadingIsFree == reverting.reading => lane = {}
Pinned == Referenced \subseteq pins

Trusted(r) == r[1] \in trusted \cup lapsed \/ \E o \in Op : op[o].stage = "revoke" /\ op[o].package = {r[1]}
TargetsTrusted ==
  Up => /\ \A r \in Referenced : Trusted(r)
        /\ \A o \in Op : op[o].stage = "publish" => \A r \in op[o].next : Trusted(r)

LoadInv == InLane /\ LaneIsServing /\ ReadingIsFree /\ Pinned /\ TargetsTrusted

\* Steps that leave the operations, the lane and what is trusted alone.
LEMMA QuietKeepsLoad ==
  ASSUME LoadInv, UNCHANGED <<trusted, lapsed, op, lane>>,
         Referenced' \subseteq Referenced, Referenced' \subseteq pins',
         lane = {} \/ pins' = pins,
         reverting'.reading => lane = {}, Up' => Up, Serving => Serving'
  PROVE  LoadInv'
<1>1. InLane'
  BY DEF LoadInv, InLane
<1>2. LaneIsServing' /\ ReadingIsFree' /\ Pinned'
  BY DEF LoadInv, LaneIsServing, ReadingIsFree, Pinned
<1>3. TargetsTrusted'
  BY DEF LoadInv, TargetsTrusted, Trusted
<1>4. QED
  BY <1>1, <1>2, <1>3 DEF LoadInv

LEMMA SameReferences ==
  ASSUME UNCHANGED <<desired, previous, lastGood>>
  PROVE  Referenced' = Referenced
BY DEF Referenced

LEMMA WorkerStepKeepsLoad ==
  ASSUME TypeOK, LoadInv, WorkerStep
  PROVE  LoadInv'
<1>1. UNCHANGED <<trusted, lapsed, op, lane, pins, daemon>>
  BY DEF WorkerStep, Spawn, Hello, Apply, ApplyFails, Handle, WorkerDies, inventoryVars, laneVars, daemonVars
<1>2. reverting'.reading = reverting.reading
  <2>1. UNCHANGED reverting \/ Ask
    BY DEF WorkerStep, Spawn, Hello, Apply, ApplyFails, Handle, Failed, WorkerDies, laneVars
  <2>2. QED
    BY <2>1 DEF Ask, TypeOK
<1>3. /\ desired' = desired /\ previous' = previous
      /\ lastGood' = lastGood \/ lastGood' = {desired}
  BY DEF WorkerStep, Spawn, Hello, Apply, ApplyFails, Handle, Failed, WorkerDies, storeVars,
         QualifyFailed, QualifyConverged
<1>4. Referenced' \subseteq Referenced
  BY <1>3 DEF Referenced
<1>5. QED
  BY <1>1, <1>2, <1>4, QuietKeepsLoad DEF LoadInv, ReadingIsFree, Pinned, Up, Serving

LEMMA ReverterKeepsLoad ==
  ASSUME TypeOK, LoadInv, RevertStart \/ RevertEnds \/ RevertFails
  PROVE  LoadInv'
<1>1. CASE RevertStart \/ RevertFails
  <2>1. /\ UNCHANGED <<trusted, lapsed, op, lane, pins, daemon, desired, previous, lastGood>>
        /\ lane = {}
    BY <1>1 DEF RevertStart, RevertFails, inventoryVars, daemonVars, storeVars, Free, LoadInv, ReadingIsFree
  <2>2. QED
    BY <2>1, SameReferences, QuietKeepsLoad DEF LoadInv, Pinned, Up, Serving
<1>2. CASE RevertEnds
  <2>1. UNCHANGED <<trusted, lapsed, op, lane, daemon>> /\ lane = {} /\ pins' = pins \cap (Referenced' \cup retiring')
    BY <1>2 DEF RevertEnds, inventoryVars, Collect, ReferencedRows, LoadInv, ReadingIsFree
  <2>2. Referenced' \subseteq Referenced
    <3>1. CASE RevertDesired(Fallback(reverting.loadable))
      <4>1. Fallback(reverting.loadable) \subseteq UNION previous
        BY DEF Fallback
      <4>2. QED
        BY <3>1, <4>1 DEF RevertDesired, Referenced
    <3>2. CASE UNCHANGED storeVars
      BY <3>2, SameReferences DEF storeVars
    <3>3. QED
      BY <1>2, <3>1, <3>2 DEF RevertEnds
  <2>3. QED
    BY <2>1, <2>2, QuietKeepsLoad DEF LoadInv, Pinned, Up, Serving
<1>3. QED
  BY <1>1, <1>2

\* The operations other than o are where they were.
OthersStay(o) ==
  \A x \in Op \ {o} :
    op'[x].stage = op[x].stage /\ op'[x].package = op[x].package /\ op'[x].next = op[x].next

LEMMA UpdateLeavesOthers ==
  ASSUME TypeOK, NEW o \in Op, NEW new, op' = [op EXCEPT ![o] = new]
  PROVE  OthersStay(o) /\ op'[o] = new
BY DEF TypeOK, OthersStay

LEMMA StageLeavesOthers ==
  ASSUME TypeOK, NEW o \in Op
  PROVE  /\ \A s \in Stages : Stage(o, s) =>
              /\ OthersStay(o) /\ op'[o].stage = s
              /\ op'[o].next = op[o].next /\ op'[o].package = op[o].package
         /\ Over(o) => OthersStay(o) /\ op'[o].stage = "over"
         /\ Again(o) => OthersStay(o) /\ op'[o].stage = "derive"
<1>1. op[o] \in OpType
  BY DEF TypeOK
<1>2. \A s \in Stages : /\ [op[o] EXCEPT !.stage = s].stage = s
                        /\ [op[o] EXCEPT !.stage = s].next = op[o].next
                        /\ [op[o] EXCEPT !.stage = s].package = op[o].package
  BY <1>1 DEF OpType
<1>3. \A s \in Stages : Stage(o, s) => OthersStay(o) /\ op'[o] = [op[o] EXCEPT !.stage = s]
  BY UpdateLeavesOthers DEF Stage
<1>4. Over(o) => OthersStay(o) /\ op'[o] = [Idle EXCEPT !.stage = "over"]
  BY UpdateLeavesOthers DEF Over
<1>5. Again(o) => OthersStay(o) /\ op'[o] = From(o, "derive")
  BY UpdateLeavesOthers DEF Again
<1>6. [Idle EXCEPT !.stage = "over"].stage = "over" /\ From(o, "derive").stage = "derive"
  BY DEF Idle, From
<1>7. QED
  BY <1>2, <1>3, <1>4, <1>5, <1>6

\* A publication is over for the plugin tree and goes on to its delivery for an operation.
LEMMA PublishedIs ==
  ASSUME TypeOK, NEW o \in Op, Publish(o)
  PROVE  /\ OthersStay(o)
         /\ IF op[o].kind = "tree" THEN Over(o) /\ op'[o].stage = "over"
            ELSE /\ op'[o].stage = "deliver" /\ op'[o].next = op[o].next
                 /\ op' = [op EXCEPT ![o] = [[op[o] EXCEPT !.stage = "deliver"] EXCEPT !.base = {}]]
<1>1. CASE op[o].kind = "tree"
  BY <1>1, StageLeavesOthers DEF Publish
<1>2. CASE op[o].kind # "tree"
  <2> DEFINE new == [[op[o] EXCEPT !.stage = "deliver"] EXCEPT !.base = {}]
  <2>1. op' = [op EXCEPT ![o] = new]
    BY <1>2 DEF Publish, TypeOK
  <2>2. op[o] \in OpType
    BY DEF TypeOK
  <2>3. new.stage = "deliver" /\ new.next = op[o].next
    BY <2>2 DEF OpType
  <2> HIDE DEF new
  <2>4. OthersStay(o) /\ op'[o] = new
    BY <2>1, UpdateLeavesOthers
  <2>5. QED
    BY <1>2, <2>1, <2>3, <2>4 DEF new
<1>3. QED
  BY <1>1, <1>2

\* An operation that holds no lane afterwards; one that was withdrawing trust leaves it lapsed.
LEMMA MoveKeepsLoad ==
  ASSUME TypeOK, LoadInv, NEW o \in Op, OthersStay(o),
         op[o].stage # "revoke" \/ op[o].package \subseteq lapsed',
         op'[o].stage \notin {"probe", "publish"},
         UNCHANGED <<trusted, daemon>>, lapsed \subseteq lapsed',
         lane' = lane \/ (lane = {o} /\ lane' = {}),
         Referenced' \subseteq Referenced, Referenced' \subseteq pins',
         pins \subseteq pins' \/ lane' = {},
         reverting'.reading = reverting.reading
  PROVE  LoadInv'
<1>1. ASSUME NEW x \in Op, op'[x].stage \in {"probe", "publish"}
      PROVE  x # o /\ lane = {x} /\ lane' = lane /\ op[x].stage = op'[x].stage
             /\ op'[x].next = op[x].next /\ op[x].next \subseteq pins'
  BY <1>1 DEF OthersStay, LoadInv, InLane
<1>2. InLane'
  BY <1>1 DEF InLane
<1>3. LaneIsServing' /\ ReadingIsFree' /\ Pinned'
  BY DEF LoadInv, LaneIsServing, ReadingIsFree, Pinned, Serving
<1>4. \A r : Trusted(r) => Trusted(r)'
  BY DEF Trusted, OthersStay
<1>5. TargetsTrusted'
  <2>1. ASSUME NEW x \in Op, op'[x].stage = "publish", Up, NEW r \in op'[x].next PROVE Trusted(r)
    BY <1>1, <2>1 DEF LoadInv, TargetsTrusted
  <2>2. \A r \in Referenced' : Up => Trusted(r)
    BY DEF LoadInv, TargetsTrusted
  <2>3. Up' => Up
    BY DEF Up
  <2>4. QED
    BY <1>4, <2>1, <2>2, <2>3 DEF TargetsTrusted
<1>6. QED
  BY <1>2, <1>3, <1>5 DEF LoadInv

\* A collection by an operation that leaves the store alone.
LEMMA CollectKeepsPinned ==
  ASSUME LoadInv, UNCHANGED storeVars, Collect
  PROVE  Referenced' = Referenced /\ Referenced' \subseteq pins'
<1>1. Referenced' = Referenced
  BY SameReferences DEF storeVars
<1>2. QED
  BY <1>1 DEF LoadInv, Pinned, Collect, ReferencedRows

LEMMA DeriveKeepsLoad ==
  ASSUME TypeOK, LoadInv, NEW o \in Op, Derive(o)
  PROVE  LoadInv'
<1>1. /\ UNCHANGED <<trusted, lapsed, daemon, lane, pins, reverting>> /\ Referenced' = Referenced
      /\ op[o].stage \in {"derive", "await"}
  BY SameReferences DEF Derive, storeVars, inventoryVars, daemonVars
<1>2. OthersStay(o) /\ op'[o].stage \notin {"probe", "publish"}
  <2>1. CASE Over(o)
    BY <2>1, StageLeavesOthers
  <2>2. CASE \E t : op' = [op EXCEPT ![o].stage = "enter", ![o].base = desired, ![o].next = t]
    <3>1. PICK t : op' = [op EXCEPT ![o].stage = "enter", ![o].base = desired, ![o].next = t]
      BY <2>2
    <3>2. op' = [op EXCEPT ![o] = [[[op[o] EXCEPT !.stage = "enter"] EXCEPT !.base = desired] EXCEPT !.next = t]]
      BY <3>1 DEF TypeOK
    <3>3. op[o] \in OpType
      BY DEF TypeOK
    <3>4. [[[op[o] EXCEPT !.stage = "enter"] EXCEPT !.base = desired] EXCEPT !.next = t].stage = "enter"
      BY <3>3 DEF OpType
    <3>5. QED
      BY <3>2, <3>4, UpdateLeavesOthers
  <2>3. QED
    BY <2>1, <2>2 DEF Derive
<1>3. QED
  BY <1>1, <1>2, MoveKeepsLoad DEF LoadInv, Pinned

LEMMA EnterKeepsLoad ==
  ASSUME TypeOK, LoadInv, NEW o \in Op, Enter(o)
  PROVE  LoadInv'
<1>1. /\ UNCHANGED <<trusted, lapsed, daemon, reverting>> /\ UNCHANGED storeVars /\ UNCHANGED retiring
      /\ Referenced' = Referenced
      /\ op[o].stage = "enter" /\ Serving /\ lane = {} /\ ~reverting.reading
  BY SameReferences DEF Enter, storeVars, inventoryVars, daemonVars, Free
<1>2. CASE Again(o) /\ UNCHANGED <<lane, pins>>
  BY <1>1, <1>2, StageLeavesOthers, MoveKeepsLoad DEF LoadInv, Pinned
<1>3. CASE Over(o) /\ Collect /\ UNCHANGED lane
  BY <1>1, <1>3, StageLeavesOthers, CollectKeepsPinned, MoveKeepsLoad
<1>4. CASE pins' = pins \cup op[o].next /\ lane' = {o} /\ op' = [op EXCEPT ![o].stage = "probe"]
  <2>1. OthersStay(o) /\ op'[o].stage = "probe" /\ op'[o].next = op[o].next
    BY <1>4, StageLeavesOthers DEF Stage, Stages
  <2>2. \A x \in Op \ {o} : op'[x].stage \notin {"probe", "publish"}
    BY <1>1, <2>1 DEF OthersStay, LoadInv, InLane
  <2>3. InLane'
    BY <1>4, <2>1, <2>2 DEF InLane
  <2>4. LaneIsServing' /\ ReadingIsFree' /\ Pinned'
    BY <1>1, <1>4 DEF LoadInv, LaneIsServing, ReadingIsFree, Pinned, Serving
  <2>5. \A r : Trusted(r) => Trusted(r)'
    BY <1>1, <2>1 DEF Trusted, OthersStay
  <2>6. Up' => Up
    BY <1>1 DEF Up
  <2>7. \A x \in Op : op'[x].stage # "publish"
    BY <2>1, <2>2
  <2>8. TargetsTrusted'
    BY <1>1, <2>5, <2>6, <2>7 DEF LoadInv, TargetsTrusted
  <2>9. QED
    BY <2>3, <2>4, <2>8 DEF LoadInv
<1>5. QED
  BY <1>2, <1>3, <1>4 DEF Enter

LEMMA ProbeKeepsLoad ==
  ASSUME TypeOK, LoadInv, NEW o \in Op, Probe(o)
  PROVE  LoadInv'
<1>1. /\ UNCHANGED <<trusted, lapsed, daemon, reverting>> /\ UNCHANGED storeVars /\ Referenced' = Referenced
      /\ op[o].stage = "probe" /\ lane = {o} /\ op[o].next \subseteq pins
  BY SameReferences DEF Probe, storeVars, inventoryVars, daemonVars, LoadInv, InLane
<1>2. CASE (Over(o) \/ Again(o)) /\ Leave
  BY <1>1, <1>2, StageLeavesOthers, CollectKeepsPinned, MoveKeepsLoad DEF Leave
<1>3. CASE Accepted(o) /\ Stage(o, "publish") /\ UNCHANGED <<lane, pins>>
  <2>1. OthersStay(o) /\ op'[o].stage = "publish" /\ op'[o].next = op[o].next
    BY <1>3, StageLeavesOthers DEF Stages
  <2>2. \A x \in Op \ {o} : op'[x].stage \notin {"probe", "publish"}
    BY <1>1, <2>1 DEF OthersStay, LoadInv, InLane
  <2>3. InLane'
    BY <1>1, <1>3, <2>1, <2>2 DEF InLane
  <2>4. LaneIsServing' /\ ReadingIsFree' /\ Pinned'
    BY <1>1, <1>3 DEF LoadInv, LaneIsServing, ReadingIsFree, Pinned, Serving
  <2>5. \A r : Trusted(r) => Trusted(r)'
    BY <1>1, <2>1 DEF Trusted, OthersStay
  <2>6. \A r \in op[o].next : Trusted(r)
    BY <1>3 DEF Accepted, Eligible, Trusted
  <2>7. Up' => Up
    BY <1>1 DEF Up
  <2>8. TargetsTrusted'
    BY <1>1, <2>1, <2>2, <2>5, <2>6, <2>7 DEF LoadInv, TargetsTrusted
  <2>9. QED
    BY <2>3, <2>4, <2>8 DEF LoadInv
<1>4. QED
  BY <1>2, <1>3 DEF Probe

LEMMA PublishKeepsLoad ==
  ASSUME TypeOK, LoadInv, NEW o \in Op, Publish(o)
  PROVE  LoadInv'
<1>1. /\ UNCHANGED <<trusted, lapsed, daemon>> /\ reverting'.reading = reverting.reading
      /\ op[o].stage = "publish" /\ lane = {o} /\ op[o].next \subseteq pins
      /\ lane' = {} /\ pins' = pins \cap (Referenced' \cup retiring')
  <2>1. reverting'.reading = reverting.reading
    BY DEF Publish, TypeOK
  <2>2. QED
    BY <2>1 DEF Publish, inventoryVars, Leave, Collect, ReferencedRows, LoadInv, InLane
<1>2. Referenced' = op[o].next \cup desired \cup (UNION lastGood)
  BY DEF Publish, PublishDesired, Referenced
<1>3. OthersStay(o) /\ op'[o].stage \in {"deliver", "over"}
  BY PublishedIs
<1>4. \A x \in Op : op'[x].stage \notin {"probe", "publish"}
  BY <1>1, <1>3 DEF OthersStay, LoadInv, InLane
<1>5. InLane'
  BY <1>4 DEF InLane
<1>6. LaneIsServing' /\ ReadingIsFree' /\ Pinned'
  BY <1>1, <1>2 DEF LoadInv, LaneIsServing, ReadingIsFree, Pinned, Serving, Referenced
<1>7. \A r : Trusted(r) => Trusted(r)'
  BY <1>1, <1>3 DEF Trusted, OthersStay
<1>8. TargetsTrusted'
  <2>1. ASSUME Up PROVE \A r \in Referenced' : Trusted(r)
    BY <1>1, <1>2, <2>1 DEF LoadInv, TargetsTrusted, Referenced
  <2>2. Up' => Up
    BY <1>1 DEF Up
  <2>3. QED
    BY <1>4, <1>7, <2>1, <2>2 DEF TargetsTrusted
<1>9. QED
  BY <1>5, <1>6, <1>8 DEF LoadInv

LEMMA DeliverAgainKeepsLoad ==
  ASSUME TypeOK, LoadInv, NEW o \in Op, DeliverAgain(o)
  PROVE  LoadInv'
<1>1. /\ UNCHANGED <<trusted, lapsed, daemon, lane, pins, reverting>> /\ Referenced' = Referenced
      /\ op[o].stage = "deliver" /\ Stage(o, "settle")
  BY SameReferences DEF DeliverAgain, storeVars, inventoryVars, daemonVars
<1>2. OthersStay(o) /\ op'[o].stage = "settle"
  BY <1>1, StageLeavesOthers DEF Stages
<1>3. QED
  BY <1>1, <1>2, MoveKeepsLoad DEF LoadInv, Pinned

LEMMA SettleKeepsLoad ==
  ASSUME TypeOK, LoadInv, NEW o \in Op, Settle(o)
  PROVE  LoadInv'
<1>1. /\ UNCHANGED <<trusted, lapsed, daemon, lane>> /\ UNCHANGED storeVars /\ Referenced' = Referenced
      /\ op[o].stage = "settle" /\ Over(o)
  BY SameReferences DEF Settle, storeVars, inventoryVars, daemonVars
<1>2. OthersStay(o) /\ op'[o].stage = "over"
  BY <1>1, StageLeavesOthers
<1>3. reverting'.reading = reverting.reading
  <2>1. Asked.reading = reverting.reading
    BY DEF Asked, TypeOK
  <2>2. QED
    BY <2>1 DEF Settle
<1>4. UNCHANGED pins \/ (lane = {} /\ Collect)
  BY DEF Settle, Free
<1>5. Referenced' \subseteq pins'
  BY <1>1, <1>4, CollectKeepsPinned DEF LoadInv, Pinned
<1>6. QED
  BY <1>1, <1>2, <1>3, <1>4, <1>5, MoveKeepsLoad

\* An operation that fails in the middle leaves what it withdrew lapsed.
LEMMA OpFailsKeepsLoad ==
  ASSUME TypeOK, LoadInv, NEW o \in Op, OpFails(o)
  PROVE  LoadInv'
<1>1. /\ UNCHANGED <<trusted, daemon, lane, pins>> /\ Referenced' = Referenced
      /\ op[o].stage \in {"revoke", "deliver"} /\ lapsed \subseteq lapsed'
      /\ op[o].stage = "revoke" => op[o].package \subseteq lapsed'
  BY SameReferences DEF OpFails, storeVars, daemonVars
<1>2. OthersStay(o) /\ op'[o].stage = "over"
  BY StageLeavesOthers DEF OpFails
<1>3. reverting'.reading = reverting.reading
  BY DEF OpFails, Dropped, TypeOK
<1>4. QED
  BY <1>1, <1>2, <1>3, MoveKeepsLoad DEF LoadInv, Pinned

\* What a change of the inventory makes of the operations.
LEMMA OutdatedIs ==
  ASSUME TypeOK, NEW x \in Op
  PROVE  /\ Outdated[x].stage = op[x].stage /\ Outdated[x].kind = op[x].kind
         /\ Outdated[x].package = op[x].package
         /\ Outdated[x].base = op[x].base /\ Outdated[x].next = op[x].next
<1>1. op[x] \in OpType
  BY DEF TypeOK
<1>2. LET b == [op[x] EXCEPT !.fresh = FALSE] IN
        /\ b.stage = op[x].stage /\ b.kind = op[x].kind /\ b.package = op[x].package
        /\ b.base = op[x].base /\ b.next = op[x].next
  BY <1>1 DEF OpType
<1>3. Outdated[x] = op[x] \/ Outdated[x] = [op[x] EXCEPT !.fresh = FALSE]
  BY DEF Outdated
<1>4. QED
  BY <1>2, <1>3

\* An operation begins, and leaves the others where they were.
LEMMA CommitBegins ==
  ASSUME TypeOK, NEW o \in Op, NEW p \in Package, NEW k \in Work[o], Commit(o, p, k)
  PROVE  /\ op'[o].stage = IF k = "untrust" THEN "revoke" ELSE "await"
         /\ op'[o].package = {p}
         /\ \A x \in Op \ {o} : op'[x] = Outdated[x]
<1>1. PICK t \in IF k = "tree" THEN TreeTargets(p) ELSE {{}} :
        op' = [Outdated EXCEPT ![o] = [Idle EXCEPT !.kind = k, !.package = {p}, !.next = t,
                                         !.stage = IF k = "untrust" THEN "revoke" ELSE "await"]]
  BY DEF Commit
<1> DEFINE begun == [Idle EXCEPT !.kind = k, !.package = {p}, !.next = t,
                                 !.stage = IF k = "untrust" THEN "revoke" ELSE "await"]
<1>2. /\ begun.stage = IF k = "untrust" THEN "revoke" ELSE "await"
      /\ begun.package = {p}
  BY DEF Idle
<1>3. DOMAIN Outdated = Op
  BY DEF Outdated
<1> HIDE DEF begun
<1>4. op' = [Outdated EXCEPT ![o] = begun]
  BY <1>1 DEF begun
<1>5. op'[o] = begun /\ \A x \in Op \ {o} : op'[x] = Outdated[x]
  BY <1>3, <1>4
<1>6. QED
  BY <1>2, <1>5

\* An operation that withdraws trust is there to say so until it has revoked.
LEMMA CommitKeepsLoad ==
  ASSUME TypeOK, LoadInv, NEW o \in Op, NEW p \in Package, NEW k \in Work[o], Commit(o, p, k)
  PROVE  LoadInv'
<1>1. /\ UNCHANGED <<daemon, lane, pins>> /\ Referenced' = Referenced
      /\ op[o].stage = "idle" /\ reverting'.reading = reverting.reading
  <2>1. Asked.reading = reverting.reading
    BY DEF Asked, TypeOK
  <2>2. QED
    BY <2>1, SameReferences DEF Commit, storeVars, daemonVars
<1>2. OthersStay(o)
  BY CommitBegins, OutdatedIs DEF OthersStay
<1>3. /\ op'[o].stage = IF k = "untrust" THEN "revoke" ELSE "await"
      /\ op'[o].package = {p}
  BY CommitBegins
<1>4. InLane'
  BY <1>1, <1>2, <1>3 DEF InLane, LoadInv, OthersStay
<1>5. LaneIsServing' /\ ReadingIsFree' /\ Pinned'
  BY <1>1 DEF LoadInv, LaneIsServing, ReadingIsFree, Pinned, Serving
<1>6. \/ trusted \cup lapsed \subseteq trusted' \cup lapsed'
      \/ k = "untrust" /\ trusted' = trusted \ {p} /\ lapsed' = lapsed
  BY DEF Commit, Change, Switched, inventoryVars
<1>7. ASSUME NEW r, Trusted(r) PROVE Trusted(r)'
  <2>1. CASE r[1] \in trusted \cup lapsed
    <3>1. r[1] \in trusted' \cup lapsed' \/ (k = "untrust" /\ r[1] = p)
      BY <1>6, <2>1
    <3>2. QED
      BY <1>3, <3>1 DEF Trusted
  <2>2. CASE \E x \in Op : op[x].stage = "revoke" /\ op[x].package = {r[1]}
    BY <1>1, <1>2, <2>2 DEF Trusted, OthersStay
  <2>3. QED
    BY <1>7, <2>1, <2>2 DEF Trusted
<1>8. TargetsTrusted'
  <2>1. \A x \in Op : op'[x].stage = "publish" => op[x].stage = "publish" /\ op'[x].next = op[x].next
    BY <1>2, <1>3 DEF OthersStay
  <2>2. Up' => Up
    BY <1>1 DEF Up
  <2>3. QED
    BY <1>1, <1>7, <2>1, <2>2 DEF LoadInv, TargetsTrusted
<1>9. QED
  BY <1>4, <1>5, <1>8 DEF LoadInv

\* A rescan that finds a package changed leaves its lost trust lapsed.
LEMMA RescanKeepsLoad ==
  ASSUME TypeOK, LoadInv, NEW p \in Package, Rescan(p)
  PROVE  LoadInv'
<1>1. /\ UNCHANGED <<daemon, lane, pins>> /\ Referenced' = Referenced /\ op' = Outdated
      /\ trusted \cup lapsed \subseteq trusted' \cup lapsed'
  BY SameReferences DEF Rescan, storeVars, daemonVars
<1>2. \A x \in Op : op'[x].stage = op[x].stage /\ op'[x].package = op[x].package /\ op'[x].next = op[x].next
  BY <1>1, OutdatedIs
<1>3. reverting'.reading = reverting.reading
  BY DEF Rescan, Dropped, TypeOK
<1>4. InLane' /\ LaneIsServing' /\ ReadingIsFree' /\ Pinned'
  BY <1>1, <1>2, <1>3 DEF LoadInv, InLane, LaneIsServing, ReadingIsFree, Pinned, Serving
<1>5. \A r : Trusted(r) => Trusted(r)'
  BY <1>1, <1>2 DEF Trusted
<1>6. TargetsTrusted'
  BY <1>1, <1>2, <1>5 DEF LoadInv, TargetsTrusted, Up
<1>7. QED
  BY <1>4, <1>6 DEF LoadInv

LEMMA RevokedReferences ==
  ASSUME TypeOK, NEW P, Revoked(P)
  PROVE  Referenced' \subseteq {r \in Referenced : r[1] \notin P}
<1>1. CASE /\ desired' = Without(desired, P)
           /\ previous' = Sanitized(previous, P) /\ lastGood' = Sanitized(lastGood, P)
  BY <1>1 DEF Referenced, Without, Sanitized
<1>2. CASE /\ UNCHANGED storeVars
           /\ \A t \in {desired} \cup previous \cup lastGood : Without(t, P) = t
  <2>1. \A t \in {desired} \cup previous \cup lastGood : \A r \in t : r[1] \notin P
    BY <1>2 DEF Without
  <2>2. QED
    BY <1>2, <2>1 DEF Referenced, storeVars
<1>3. QED
  BY <1>1, <1>2 DEF Revoked

LEMMA RevokeKeepsLoad ==
  ASSUME TypeOK, LoadInv, NEW o \in Op, Revoke(o)
  PROVE  LoadInv'
<1>1. /\ UNCHANGED <<trusted, lapsed, daemon, lane, pins>> /\ lane = {} /\ reverting'.reading = reverting.reading
  <2>1. Asked.reading = reverting.reading
    BY DEF Asked, TypeOK
  <2>2. QED
    BY <2>1 DEF Revoke, Free, inventoryVars
<1>2. OthersStay(o) /\ op'[o].stage = "await"
  BY StageLeavesOthers DEF Revoke, Stages
<1>3. Referenced' \subseteq {r \in Referenced : r[1] \notin op[o].package}
  BY RevokedReferences DEF Revoke
<1>4. \A x \in Op : op'[x].stage \notin {"probe", "publish"}
  BY <1>1, <1>2 DEF OthersStay, LoadInv, InLane
<1>5. InLane' /\ LaneIsServing' /\ ReadingIsFree' /\ Pinned'
  BY <1>1, <1>3, <1>4 DEF LoadInv, InLane, LaneIsServing, ReadingIsFree, Pinned, Serving
<1>6. \A r : Trusted(r) /\ r[1] \notin op[o].package => Trusted(r)'
  BY <1>1, <1>2 DEF Trusted, OthersStay
<1>7. TargetsTrusted'
  BY <1>1, <1>3, <1>4, <1>6 DEF LoadInv, TargetsTrusted, Up
<1>8. QED
  BY <1>5, <1>7 DEF LoadInv

LEMMA OpStepKeepsLoad ==
  ASSUME TypeOK, LoadInv, NEW o \in Op, OpStep(o)
  PROVE  LoadInv'
BY CommitKeepsLoad, RevokeKeepsLoad, DeriveKeepsLoad, EnterKeepsLoad, ProbeKeepsLoad, PublishKeepsLoad,
   DeliverAgainKeepsLoad, SettleKeepsLoad, OpFailsKeepsLoad DEF OpStep

LEMMA CrashKeepsLoad ==
  ASSUME TypeOK, LoadInv, Crash
  PROVE  LoadInv'
<1>1. \A o \in Op : op'[o].stage \notin {"probe", "publish"}
  <2>1. /\ [Idle EXCEPT !.stage = "over"].stage = "over"
        /\ \A o \in Op : From(o, "await").stage = "await"
    BY DEF From, Idle
  <2>2. QED
    BY <2>1 DEF Crash
<1>2. /\ daemon' = "down" /\ lane' = {} /\ reverting' = NotReverting
      /\ UNCHANGED storeVars /\ UNCHANGED pins
  BY DEF Crash
<1>3. InLane' /\ LaneIsServing' /\ ReadingIsFree'
  BY <1>1, <1>2 DEF InLane, LaneIsServing, ReadingIsFree, NotReverting
<1>4. Pinned' /\ TargetsTrusted'
  BY <1>2, SameReferences DEF LoadInv, Pinned, TargetsTrusted, Up, storeVars
<1>5. QED
  BY <1>3, <1>4 DEF LoadInv

\* A restart withdraws what lost its trust, also where the crash came before the
\* operation could.
LEMMA RestartKeepsLoad ==
  ASSUME TypeOK, LoadInv, Restart
  PROVE  LoadInv'
<1>1. /\ UNCHANGED <<trusted, lane, op, reverting>> /\ daemon = "down"
      /\ Revoked(Package \ trusted)
      /\ pins' = {r \in Referenced' : r \in pins \/ r[2] \in versions[r[1]]}
  BY DEF Restart, inventoryVars
<1>2. Referenced' \subseteq {r \in Referenced : r[1] \notin Package \ trusted}
  BY <1>1, RevokedReferences
<1>3. lane = {} /\ \A o \in Op : op[o].stage \notin {"probe", "publish"}
  BY <1>1 DEF LoadInv, LaneIsServing, InLane, Serving
<1>4. InLane' /\ LaneIsServing' /\ ReadingIsFree'
  BY <1>1, <1>3 DEF InLane, LaneIsServing, ReadingIsFree
<1>5. Pinned'
  BY <1>1, <1>2 DEF LoadInv, Pinned
<1>6. \A r \in Referenced' : r[1] \in Package
  BY <1>2, ReferencedAreRows DEF Row
<1>7. TargetsTrusted'
  BY <1>1, <1>2, <1>3, <1>6 DEF TargetsTrusted, Trusted
<1>8. QED
  BY <1>4, <1>5, <1>7 DEF LoadInv

LEMMA StartupPublishKeepsLoad ==
  ASSUME TypeOK, LoadInv, NEW p \in Package, StartupPublish(p)
  PROVE  LoadInv'
<1>1. /\ UNCHANGED <<trusted, lapsed, lane, op, reverting, daemon>> /\ daemon = "starting"
      /\ desired' = Rebuilt(p, "enable") /\ previous' = {desired} /\ lastGood' = lastGood
      /\ pins' = (pins \cup desired') \cap Referenced'
  BY DEF StartupPublish, inventoryVars, PublishDesired, ReferencedRows
<1>2. lane = {} /\ \A o \in Op : op[o].stage \notin {"probe", "publish"}
  BY <1>1 DEF LoadInv, LaneIsServing, InLane, Serving
<1>3. InLane' /\ LaneIsServing' /\ ReadingIsFree'
  BY <1>1, <1>2 DEF LoadInv, InLane, LaneIsServing, ReadingIsFree
<1>4. Referenced' = desired' \cup desired \cup (UNION lastGood)
  BY <1>1 DEF Referenced
<1>5. Pinned'
  BY <1>1, <1>4 DEF LoadInv, Pinned, Referenced
<1>6. \A r \in desired' : r \in desired \/ r[1] \in trusted
  BY <1>1 DEF Rebuilt, Without, RuntimeEligible, Eligible
<1>7. TargetsTrusted'
  <2>1. Up
    BY <1>1 DEF Up
  <2>2. \A r \in Referenced' : Trusted(r)
    BY <1>4, <1>6, <2>1 DEF LoadInv, TargetsTrusted, Referenced, Trusted
  <2>3. QED
    BY <1>1, <1>2, <2>2 DEF TargetsTrusted, Trusted
<1>8. QED
  BY <1>3, <1>5, <1>7 DEF LoadInv

LEMMA DaemonStepKeepsLoad ==
  ASSUME TypeOK, LoadInv, DaemonStep
  PROVE  LoadInv'
<1>1. CASE StartupRevert
  <2>1. Asked.reading = reverting.reading
    BY DEF Asked, TypeOK
  <2>2. /\ UNCHANGED <<trusted, lapsed, op, lane, pins, desired, previous, lastGood>> /\ daemon = "starting" /\ daemon' = "started"
        /\ reverting'.reading = reverting.reading
    BY <1>1, <2>1 DEF StartupRevert, inventoryVars, storeVars
  <2>3. QED
    BY <2>2, SameReferences, QuietKeepsLoad DEF LoadInv, ReadingIsFree, Pinned, Up, Serving
<1>2. CASE CompleteStartup
  <2>1. /\ UNCHANGED <<trusted, lapsed, op, lane, pins, reverting, desired, previous, lastGood>>
        /\ daemon = "started" /\ daemon' = "serving"
    BY <1>2 DEF CompleteStartup, inventoryVars, storeVars, laneVars
  <2>2. QED
    BY <2>1, SameReferences, QuietKeepsLoad DEF LoadInv, ReadingIsFree, Pinned, Up, Serving
<1>3. QED
  BY <1>1, <1>2, CrashKeepsLoad, RestartKeepsLoad, StartupPublishKeepsLoad DEF DaemonStep

LEMMA StepKeepsLoad ==
  ASSUME TypeOK, LoadInv, [Next]_vars
  PROVE  LoadInv'
<1>1. CASE UNCHANGED vars
  <2>1. UNCHANGED <<trusted, lapsed, op, lane, pins, reverting, daemon, desired, previous, lastGood>>
    BY <1>1 DEF vars, inventoryVars, storeVars, laneVars, daemonVars
  <2>2. QED
    BY <2>1, SameReferences, QuietKeepsLoad DEF LoadInv, ReadingIsFree, Pinned, Up, Serving
<1>2. QED
  BY <1>1, OpStepKeepsLoad, RescanKeepsLoad, ReverterKeepsLoad, WorkerStepKeepsLoad, DaemonStepKeepsLoad DEF Next

LEMMA InitLoadInv ==
  ASSUME Init
  PROVE  LoadInv
<1>1. /\ \A o \in Op : op[o].stage = "idle"
      /\ lane = {} /\ reverting.reading = FALSE
  BY DEF Init, Idle, NotReverting
<1>2. Referenced = desired /\ pins = desired /\ \A r \in desired : r[1] \in trusted
  <2>1. desired = {<<p, 1>> : p \in Package} /\ previous = {} /\ lastGood = {} /\ pins = desired /\ trusted = Package
    BY DEF Init
  <2>2. QED
    BY <2>1 DEF Referenced
<1>3. InLane /\ LaneIsServing /\ ReadingIsFree /\ Pinned
  BY <1>1, <1>2 DEF InLane, LaneIsServing, ReadingIsFree, Pinned
<1>4. TargetsTrusted
  BY <1>1, <1>2 DEF TargetsTrusted, Trusted
<1>5. QED
  BY <1>3, <1>4 DEF LoadInv

\* The desired, previous and last good targets can be mounted whenever the daemon is
\* there: their snapshots are pinned, and nothing they name was untrusted but for an
\* operation that is about to revoke it. Trust that lapsed without an untrust (an update or
\* a rollback without activation, a rescan), or whose revocation failed, is excepted: the
\* code leaves its rows in the targets until the next start.
THEOREM TargetsAreLoadableAlways == Spec => []TargetsAreLoadable
<1>1. Init => LoadInv
  BY InitLoadInv
<1>2. TypeOK /\ LoadInv /\ [Next]_vars => LoadInv'
  BY StepKeepsLoad
<1>3. LoadInv => TargetsAreLoadable
  BY DEF LoadInv, Pinned, TargetsTrusted, Trusted, TargetsAreLoadable
<1>4. QED
  BY <1>1, <1>2, <1>3, TypeCorrect, PTL DEF Spec

-----------------------------------------------------------------------------
(* No publication loses another: from the comparison with its base to its     *)
(* publication an operation keeps the lane, and whatever else would change    *)
(* what is desired has to wait for it.                                        *)

Draft(o) ==
  op[o].kind # "tree" =>
    /\ op[o].stage \in {"enter", "probe", "publish"} /\ op[o].kind # "rollback" =>
         Without(op[o].next, op[o].package) = Without(op[o].base, op[o].package)
    /\ op[o].stage \in {"probe", "publish"} => op[o].base = desired
Drafts == \A o \in Op : Draft(o)

Settled(x) == x.stage \notin {"enter", "probe", "publish"}
Alike(x, y) == x.stage = y.stage /\ x.kind = y.kind /\ x.package = y.package /\ x.base = y.base /\ x.next = y.next

\* What a step makes of an operation other than deriving its target and entering the lane.
Kept(o) ==
  \/ Settled(op'[o])
  \/ op[o].stage = "probe" /\ op'[o] = [op[o] EXCEPT !.stage = "publish"]
  \/ Alike(op'[o], op[o])

LEMMA KeptStaysDraft ==
  ASSUME TypeOK, NEW o \in Op, Draft(o), Kept(o),
         op[o].stage \in {"probe", "publish"} => desired' = desired
  PROVE  Draft(o)'
<1>1. CASE Settled(op'[o])
  BY <1>1 DEF Settled, Draft
<1>2. CASE Alike(op'[o], op[o])
  BY <1>2 DEF Alike, Draft, Without
<1>3. CASE op[o].stage = "probe" /\ op'[o] = [op[o] EXCEPT !.stage = "publish"]
  <2>1. op[o] \in OpType
    BY DEF TypeOK
  <2>2. /\ op'[o].kind = op[o].kind /\ op'[o].package = op[o].package
        /\ op'[o].base = op[o].base /\ op'[o].next = op[o].next
    BY <1>3, <2>1 DEF OpType
  <2>3. QED
    BY <1>3, <2>2 DEF Draft, Without
<1>4. QED
  BY <1>1, <1>2, <1>3 DEF Kept

\* Nothing changes the desired target while an operation holds the lane, but its own publication.
LEMMA LaneKeepsDesired ==
  ASSUME TypeOK, LoadInv, Next, NEW o \in Op, op[o].stage \in {"probe", "publish"}, ~Publish(o)
  PROVE  desired' = desired
<1>1. lane = {o} /\ Serving /\ ~reverting.reading /\ ~Free
  BY DEF LoadInv, InLane, LaneIsServing, ReadingIsFree, Free, TypeOK
<1>2. ASSUME NEW x \in Op, OpStep(x) PROVE desired' = desired
  <2>1. ~Revoke(x) /\ ~Publish(x)
    BY <1>1 DEF Revoke, Publish, LoadInv, InLane
  <2>2. UNCHANGED storeVars
    BY <1>2, <2>1 DEF OpStep, Commit, Derive, Enter, Probe, DeliverAgain, Settle, OpFails
  <2>3. QED
    BY <2>2 DEF storeVars
<1>3. CASE RevertStart \/ RevertEnds \/ RevertFails \/ \E p \in Package : Rescan(p)
  BY <1>1, <1>3 DEF RevertStart, RevertEnds, RevertFails, Rescan, storeVars
<1>4. CASE WorkerStep
  BY <1>4 DEF WorkerStep, Spawn, Hello, Apply, ApplyFails, Handle, Failed, WorkerDies, storeVars,
              QualifyFailed, QualifyConverged
<1>5. CASE DaemonStep
  BY <1>1, <1>5 DEF DaemonStep, Crash, Restart, StartupPublish, StartupRevert, CompleteStartup, Serving, storeVars
<1>6. QED
  BY <1>2, <1>3, <1>4, <1>5 DEF Next

LEMMA UpdateKeepsOthers ==
  ASSUME TypeOK, NEW o \in Op, NEW new, op' = [op EXCEPT ![o] = new]
  PROVE  op'[o] = new /\ \A x \in Op \ {o} : Kept(x)
<1>1. op'[o] = new /\ \A x \in Op \ {o} : op'[x] = op[x]
  BY DEF TypeOK
<1>2. QED
  BY <1>1 DEF Kept, Alike

\* An operation that goes to a stage without a draft, or from its probe to its publication.
LEMMA MoveIsKept ==
  ASSUME TypeOK, NEW o \in Op,
         \/ Over(o) \/ Again(o) \/ \E s \in Stages \ {"enter", "probe", "publish"} : Stage(o, s)
         \/ op[o].stage = "probe" /\ Stage(o, "publish")
  PROVE  \A x \in Op : Kept(x)
<1>1. op[o] \in OpType
  BY DEF TypeOK
<1>2. CASE Over(o)
  <2>1. Settled([Idle EXCEPT !.stage = "over"])
    BY DEF Settled, Idle
  <2>2. QED
    BY <1>2, <2>1, UpdateKeepsOthers DEF Over, Kept
<1>3. CASE Again(o)
  <2>1. Settled(From(o, "derive"))
    BY DEF Settled, From, Idle
  <2>2. QED
    BY <1>3, <2>1, UpdateKeepsOthers DEF Again, Kept
<1>4. CASE \E s \in Stages \ {"enter", "probe", "publish"} : Stage(o, s)
  <2>1. PICK s \in Stages \ {"enter", "probe", "publish"} : Stage(o, s)
    BY <1>4
  <2>2. op' = [op EXCEPT ![o] = [op[o] EXCEPT !.stage = s]]
    BY <2>1 DEF Stage
  <2>3. Settled([op[o] EXCEPT !.stage = s])
    BY <1>1, <2>1 DEF Settled, OpType
  <2>4. QED
    BY <2>2, <2>3, UpdateKeepsOthers DEF Kept
<1>5. CASE op[o].stage = "probe" /\ Stage(o, "publish")
  <2>1. op' = [op EXCEPT ![o] = [op[o] EXCEPT !.stage = "publish"]]
    BY <1>5 DEF Stage
  <2>2. QED
    BY <1>5, <2>1, UpdateKeepsOthers DEF Kept
<1>6. QED
  BY <1>2, <1>3, <1>4, <1>5

LEMMA CommitIsKept ==
  ASSUME TypeOK, NEW o \in Op, NEW p \in Package, NEW k \in Work[o], Commit(o, p, k)
  PROVE  \A x \in Op : Kept(x)
<1>1. Settled(op'[o])
  BY CommitBegins DEF Settled
<1>2. \A x \in Op \ {o} : Alike(op'[x], op[x])
  BY CommitBegins, OutdatedIs DEF Alike
<1>3. QED
  BY <1>1, <1>2 DEF Kept

\* Every step but a derivation and an admission to the lane.
LEMMA StepIsKept ==
  ASSUME TypeOK, LoadInv, Next, \A o \in Op : ~Derive(o) /\ ~Enter(o)
  PROVE  \A x \in Op : Kept(x)
<1>1. UNCHANGED op => \A x \in Op : Kept(x)
  BY DEF Kept, Alike
<1>2. ASSUME NEW o \in Op, OpStep(o) PROVE \A x \in Op : Kept(x)
  <2>1. ASSUME NEW p \in Package, NEW k \in Work[o], Commit(o, p, k) PROVE \A x \in Op : Kept(x)
    BY <2>1, CommitIsKept
  <2>2. CASE Revoke(o)
    BY <2>2, MoveIsKept DEF Revoke, Stages
  <2>3. CASE Probe(o)
    BY <2>3, MoveIsKept DEF Probe
  <2>4. CASE Publish(o)
    <3>1. CASE Over(o)
      BY <3>1, MoveIsKept
    <3>2. CASE op'[o].stage = "deliver" /\ op' = [op EXCEPT ![o] = [[op[o] EXCEPT !.stage = "deliver"] EXCEPT !.base = {}]]
      BY <3>2, UpdateKeepsOthers DEF Kept, Settled
    <3>3. QED
      BY <2>4, <3>1, <3>2, PublishedIs
  <2>5. CASE DeliverAgain(o)
    BY <2>5, MoveIsKept DEF DeliverAgain, Stages
  <2>6. CASE Settle(o)
    BY <2>6, MoveIsKept DEF Settle
  <2>7. CASE OpFails(o)
    BY <2>7, MoveIsKept DEF OpFails
  <2>8. QED
    BY <1>2, <2>1, <2>2, <2>3, <2>4, <2>5, <2>6, <2>7 DEF OpStep
<1>3. CASE RevertStart \/ RevertEnds \/ RevertFails
  BY <1>1, <1>3 DEF RevertStart, RevertEnds, RevertFails
<1>4. CASE WorkerStep
  BY <1>1, <1>4 DEF WorkerStep, Spawn, Hello, Apply, ApplyFails, Handle, WorkerDies, laneVars
<1>5. CASE DaemonStep
  <2>1. CASE Crash
    <3>1. Settled([Idle EXCEPT !.stage = "over"]) /\ \A x \in Op : Settled(From(x, "await"))
      BY DEF Settled, From, Idle
    <3>2. \A x \in Op : Settled(op'[x])
      BY <2>1, <3>1 DEF Crash, Settled
    <3>3. QED
      BY <3>2 DEF Kept
  <2>2. QED
    BY <1>1, <1>5, <2>1 DEF DaemonStep, Restart, StartupPublish, StartupRevert, CompleteStartup, laneVars
<1>6. ASSUME NEW p \in Package, Rescan(p) PROVE \A x \in Op : Kept(x)
  BY <1>6, OutdatedIs DEF Rescan, Kept, Alike
<1>7. QED
  BY <1>2, <1>3, <1>4, <1>5, <1>6 DEF Next

LEMMA KeptStayDrafts ==
  ASSUME TypeOK, LoadInv, Drafts, Next, NEW o \in Op, Kept(o)
  PROVE  Draft(o)'
<1>1. Draft(o)
  BY DEF Drafts
<1>2. CASE Publish(o)
  <2>1. op'[o].stage \in {"deliver", "over"}
    BY <1>2, PublishedIs
  <2>2. QED
    BY <2>1 DEF Draft
<1>3. CASE ~Publish(o)
  <2>1. op[o].stage \in {"probe", "publish"} => desired' = desired
    BY <1>3, LaneKeepsDesired
  <2>2. QED
    BY <1>1, <2>1, KeptStaysDraft
<1>4. QED
  BY <1>2, <1>3

LEMMA DeriveKeepsDrafts ==
  ASSUME TypeOK, LoadInv, Drafts, Next, NEW o \in Op, Derive(o)
  PROVE  Drafts'
<1>1. CASE Over(o)
  BY <1>1, MoveIsKept, KeptStayDrafts DEF Drafts
<1>2. CASE ~Over(o)
  <2>1. PICK t \in IF op[o].kind = "tree" THEN {op[o].next}
                ELSE UNION {Derived(p, op[o].kind) : p \in op[o].package} :
          op' = [op EXCEPT ![o].stage = "enter", ![o].base = desired, ![o].next = t]
    BY <1>2 DEF Derive
  <2> DEFINE draft == [[[op[o] EXCEPT !.stage = "enter"] EXCEPT !.base = desired] EXCEPT !.next = t]
  <2>2. op' = [op EXCEPT ![o] = draft]
    BY <2>1 DEF TypeOK
  <2>3. op[o] \in OpType
    BY DEF TypeOK
  <2>4. /\ draft.stage = "enter" /\ draft.kind = op[o].kind /\ draft.package = op[o].package
        /\ draft.base = desired /\ draft.next = t
    BY <2>3 DEF OpType
  <2> HIDE DEF draft
  <2>5. op'[o] = draft /\ \A x \in Op \ {o} : Kept(x)
    BY <2>2, UpdateKeepsOthers
  <2>6. op[o].kind \notin {"rollback", "tree"} => Without(t, op[o].package) = Without(desired, op[o].package)
    <3>1. SUFFICES ASSUME op[o].kind \notin {"rollback", "tree"}
                   PROVE  Without(t, op[o].package) = Without(desired, op[o].package)
      OBVIOUS
    <3>2. PICK p \in op[o].package : t = Rebuilt(p, op[o].kind)
      BY <2>1, <3>1 DEF Derived
    <3>3. \A r \in t : r \in desired \/ r[1] = p
      BY <3>2 DEF Rebuilt, Without
    <3>4. \A r \in desired : r[1] # p => r \in t
      BY <3>2 DEF Rebuilt, Without
    <3>5. QED
      BY <3>3, <3>4 DEF Without
  <2>7. Draft(o)'
    BY <2>4, <2>5, <2>6 DEF Draft, Without
  <2>8. QED
    BY <2>5, <2>7, KeptStayDrafts DEF Drafts
<1>3. QED
  BY <1>1, <1>2

LEMMA EnterKeepsDrafts ==
  ASSUME TypeOK, LoadInv, Drafts, Next, NEW o \in Op, Enter(o)
  PROVE  Drafts'
<1>1. CASE Over(o) \/ Again(o)
  BY <1>1, MoveIsKept, KeptStayDrafts DEF Drafts
<1>2. CASE ~Stale(o) /\ op' = [op EXCEPT ![o].stage = "probe"]
  <2>1. op' = [op EXCEPT ![o] = [op[o] EXCEPT !.stage = "probe"]]
    BY <1>2 DEF TypeOK
  <2>2. op[o] \in OpType
    BY DEF TypeOK
  <2>3. /\ [op[o] EXCEPT !.stage = "probe"].kind = op[o].kind
        /\ [op[o] EXCEPT !.stage = "probe"].package = op[o].package
        /\ [op[o] EXCEPT !.stage = "probe"].base = op[o].base
        /\ [op[o] EXCEPT !.stage = "probe"].next = op[o].next
    BY <2>2 DEF OpType
  <2>4. op'[o] = [op[o] EXCEPT !.stage = "probe"] /\ \A x \in Op \ {o} : Kept(x)
    BY <2>1, UpdateKeepsOthers
  <2>5. Draft(o) /\ op[o].stage = "enter" /\ desired' = desired
    BY DEF Drafts, Enter, storeVars
  <2>6. Draft(o)'
    BY <1>2, <2>3, <2>4, <2>5 DEF Draft, Without, Stale
  <2>7. QED
    BY <2>4, <2>6, KeptStayDrafts DEF Drafts
<1>3. QED
  BY <1>1, <1>2 DEF Enter

LEMMA DraftsStep ==
  ASSUME TypeOK, LoadInv, Drafts, [Next]_vars
  PROVE  Drafts'
<1>1. CASE UNCHANGED vars
  <2>1. UNCHANGED <<op, desired>>
    BY <1>1 DEF vars, laneVars, storeVars
  <2>2. QED
    BY <2>1 DEF Drafts, Draft, Without
<1>2. CASE Next /\ \A o \in Op : ~Derive(o) /\ ~Enter(o)
  BY <1>2, StepIsKept, KeptStayDrafts DEF Drafts
<1>3. QED
  BY <1>1, <1>2, DeriveKeepsDrafts, EnterKeepsDrafts

\* Whatever is published, revoked or put back while an operation derives and waits, its
\* publication replaces the very target it derived from, and changes the rows of its own
\* package only; a rollback, which goes back to the previous target as a whole, is excepted,
\* and so is a publication of the plugin tree, which names no base.
THEOREM OthersAreAlwaysKept == Spec => OthersAreKept
<1>1. Init => LoadInv /\ Drafts
  <2>1. Init => \A o \in Op : op[o].stage = "idle"
    <3>1. Idle.stage = "idle"
      BY DEF Idle
    <3>2. Init => \A o \in Op : op[o] = Idle
      BY DEF Init
    <3>3. QED
      BY <3>1, <3>2
  <2>2. Init => Drafts
    BY <2>1 DEF Drafts, Draft
  <2>3. QED
    BY <2>2, InitLoadInv
<1>2. TypeOK /\ LoadInv /\ Drafts /\ [Next]_vars => (LoadInv /\ Drafts)'
  BY StepKeepsLoad, DraftsStep
<1>3. ASSUME TypeOK, Drafts, NEW o \in Op, Publish(o), op[o].kind # "tree"
      PROVE  /\ op[o].base = desired
             /\ op[o].kind # "rollback" =>
                  Without(desired', op[o].package) = Without(desired, op[o].package)
  <2>1. op[o].stage = "publish" /\ desired' = op[o].next
    BY <1>3 DEF Publish, PublishDesired
  <2>2. Draft(o)
    BY <1>3 DEF Drafts
  <2>3. QED
    BY <1>3, <2>1, <2>2 DEF Draft
<1>4. TypeOK /\ Drafts /\ [Next]_vars
        => [\A o \in Op : Publish(o) /\ op[o].kind # "tree" =>
              /\ op[o].base = desired
              /\ op[o].kind # "rollback" =>
                   Without(desired', op[o].package) = Without(desired, op[o].package)]_vars
  BY <1>3
<1>5. QED
  BY <1>1, <1>2, <1>4, TypeCorrect, PTL DEF Spec, OthersAreKept

-----------------------------------------------------------------------------
(* A failed target is put back. The reverter reads what can be loaded before  *)
(* its await and acts on it afterwards: whatever changes in between asks for  *)
(* another run, and pins that come and go do not change what it read, since   *)
(* the previous target stays pinned.                                          *)

\* Nobody is there to fail anything before the daemon put back what failed earlier.
QuietBeforeStart ==
  daemon \in {"down", "starting"} =>
    /\ phase = "down" /\ slot.active = {} /\ frames = <<>>
    /\ ~reverting.wanted /\ ~reverting.reading

Revoking == \E o \in Op : op[o].stage = "revoke"
ReadIsCurrent ==
  reverting.reading =>
    /\ lane = {} /\ reverting.target = desired
    /\ \/ reverting.wanted
       \/ desired \notin failure
       \/ reverting.dropped
       \/ Revoking
       \/ (UNION previous) \cap reverting.loadable = (UNION previous) \cap Loadable

Publishing == \E o \in Op : op[o].stage \in {"deliver", "settle"} /\ op[o].next = desired
Due == reverting.wanted \/ reverting.reading \/ Revoking \/ Publishing
FailureIsDue == KnownFailed /\ ~reverting.dropped /\ Fallback(Loadable) # desired => Due

PutBackInv == QuietBeforeStart /\ ReadIsCurrent /\ FailureIsDue

LEMMA FallbackStays ==
  ASSUME LoadInv, LoadInv', UNCHANGED <<desired, previous, putBack, trusted, enabled>>
  PROVE  /\ ((UNION previous) \cap Loadable)' = (UNION previous) \cap Loadable
         /\ Fallback(Loadable)' = Fallback(Loadable)
<1>1. (UNION previous) \subseteq pins /\ (UNION previous) \subseteq pins'
  BY DEF LoadInv, Pinned, Referenced
<1>2. \A p : RuntimeEligible(p)' = RuntimeEligible(p)
  BY DEF RuntimeEligible, Eligible
<1>3. ((UNION previous) \cap Loadable)' = (UNION previous) \cap Loadable
  BY <1>1, <1>2 DEF Loadable
<1>4. QED
  BY <1>3 DEF Fallback, IsRevertTarget

\* Steps that leave the targets and the packages alone, and that end the failure, ask
\* for a run of the reverter, drop it, or change nothing about who owes one.
LEMMA QuietKeepsPutBack ==
  ASSUME LoadInv, LoadInv', PutBackInv, QuietBeforeStart',
         UNCHANGED <<daemon, trusted, enabled, desired, previous>>,
         reverting'.reading = reverting.reading, reverting'.target = reverting.target,
         reverting'.loadable = reverting.loadable, reverting.wanted => reverting'.wanted,
         reverting.reading => lane' = {},
         \/ failure' = {}
         \/ reverting'.wanted
         \/ reverting'.dropped
         \/ /\ failure' = failure /\ putBack' = putBack /\ reverting'.dropped = reverting.dropped
            /\ Revoking => Revoking'
            /\ Publishing => Publishing'
  PROVE  PutBackInv'
<1>1. CASE failure' = {}
  BY <1>1 DEF PutBackInv, ReadIsCurrent, FailureIsDue, KnownFailed
<1>2. CASE reverting'.wanted \/ reverting'.dropped
  BY <1>2 DEF PutBackInv, ReadIsCurrent, FailureIsDue, Due
<1>3. CASE /\ failure' = failure /\ putBack' = putBack /\ reverting'.dropped = reverting.dropped
           /\ Revoking => Revoking'
           /\ Publishing => Publishing'
  <2>1. /\ ((UNION previous) \cap Loadable)' = (UNION previous) \cap Loadable
        /\ Fallback(Loadable)' = Fallback(Loadable)
    BY <1>3, FallbackStays
  <2>2. ReadIsCurrent'
    BY <1>3, <2>1 DEF PutBackInv, ReadIsCurrent
  <2>3. FailureIsDue'
    BY <1>3, <2>1 DEF PutBackInv, FailureIsDue, Due, KnownFailed
  <2>4. QED
    BY <2>2, <2>3 DEF PutBackInv
<1>4. QED
  BY <1>1, <1>2, <1>3

LEMMA WorkerStepKeepsPutBack ==
  ASSUME TypeOK, LoadInv, LoadInv', PutBackInv, WorkerStep
  PROVE  PutBackInv'
<1>1. UNCHANGED <<daemon, trusted, enabled, desired, previous, op, lane>>
  BY DEF WorkerStep, Spawn, Hello, Apply, ApplyFails, Handle, Failed, WorkerDies, QualifyFailed, QualifyConverged,
         storeVars, inventoryVars, laneVars, daemonVars
<1>2. daemon \notin {"down", "starting"}
  BY DEF WorkerStep, Spawn, Hello, Apply, ApplyFails, Handle, WorkerDies, Serving, PutBackInv, QuietBeforeStart
<1>3. \/ UNCHANGED reverting /\ UNCHANGED <<failure, putBack>>
      \/ UNCHANGED reverting /\ failure' = {}
      \/ Ask
  BY DEF WorkerStep, Spawn, Hello, Apply, ApplyFails, Handle, Failed, WorkerDies, QualifyConverged, storeVars, laneVars
<1>4. Ask => /\ reverting'.wanted /\ reverting'.reading = reverting.reading
             /\ reverting'.target = reverting.target /\ reverting'.loadable = reverting.loadable
  BY DEF Ask, TypeOK
<1>5. QuietBeforeStart'
  BY <1>1, <1>2 DEF QuietBeforeStart
<1>6. (Publishing => Publishing') /\ (Revoking => Revoking')
  BY <1>1 DEF Publishing, Revoking
<1>7. reverting.reading => lane' = {}
  BY <1>1 DEF PutBackInv, ReadIsCurrent
<1>8. QED
  BY <1>1, <1>3, <1>4, <1>5, <1>6, <1>7, QuietKeepsPutBack

LEMMA RevertStartKeepsPutBack ==
  ASSUME TypeOK, LoadInv, LoadInv', PutBackInv, RevertStart
  PROVE  PutBackInv'
<1>1. /\ UNCHANGED <<daemon, trusted, enabled, desired, previous, failure, putBack, pins, lane>>
      /\ reverting.wanted /\ lane = {}
  BY DEF RevertStart, storeVars, inventoryVars, daemonVars, Free
<1>2. QuietBeforeStart'
  BY <1>1 DEF PutBackInv, QuietBeforeStart
<1>3. CASE desired \in failure
  <2>1. reverting'.reading /\ reverting'.target = desired /\ reverting'.loadable = Loadable
    BY <1>3 DEF RevertStart, NotReverting
  <2>2. Loadable' = Loadable
    BY <1>1 DEF Loadable, RuntimeEligible, Eligible
  <2>3. ReadIsCurrent' /\ FailureIsDue'
    BY <1>1, <2>1, <2>2 DEF ReadIsCurrent, FailureIsDue, Due
  <2>4. QED
    BY <1>2, <2>3 DEF PutBackInv
<1>4. CASE desired \notin failure
  <2>1. reverting'.reading = FALSE
    BY <1>4 DEF RevertStart, NotReverting
  <2>2. ReadIsCurrent' /\ FailureIsDue'
    BY <1>1, <1>4, <2>1 DEF ReadIsCurrent, FailureIsDue, KnownFailed
  <2>3. QED
    BY <1>2, <2>2 DEF PutBackInv
<1>5. QED
  BY <1>3, <1>4

LEMMA RevertEndsKeepsPutBack ==
  ASSUME TypeOK, LoadInv, LoadInv', PutBackInv, RevertEnds
  PROVE  PutBackInv'
<1>1. /\ UNCHANGED <<daemon, trusted, enabled, lane>> /\ reverting.reading /\ reverting.target = desired
      /\ reverting'.reading = FALSE /\ reverting'.wanted = reverting.wanted
      /\ reverting'.dropped = reverting.dropped /\ UNCHANGED op
  BY DEF RevertEnds, inventoryVars, NotReverting, PutBackInv, ReadIsCurrent
<1>2. daemon \notin {"down", "starting"}
  BY <1>1 DEF PutBackInv, QuietBeforeStart
<1>3. QuietBeforeStart' /\ ReadIsCurrent'
  BY <1>1, <1>2 DEF QuietBeforeStart, ReadIsCurrent
<1>4. FailureIsDue'
  <2>1. CASE RevertDesired(Fallback(reverting.loadable))
    BY <2>1 DEF RevertDesired, FailureIsDue, KnownFailed
  <2>2. CASE Fallback(reverting.loadable) = desired /\ UNCHANGED storeVars
    <3>1. UNCHANGED <<desired, previous, failure, putBack>>
      BY <2>2 DEF storeVars
    <3>2. Fallback(Loadable)' = Fallback(Loadable)
      BY <1>1, <3>1, FallbackStays
    <3>3. CASE reverting.wanted \/ desired \notin failure \/ reverting.dropped \/ Revoking
      BY <1>1, <3>1, <3>3 DEF FailureIsDue, KnownFailed, Due, Revoking
    <3>4. CASE (UNION previous) \cap reverting.loadable = (UNION previous) \cap Loadable
      <4>1. Fallback(Loadable) = Fallback(reverting.loadable)
        BY <3>4 DEF Fallback
      <4>2. QED
        BY <2>2, <3>1, <3>2, <4>1 DEF FailureIsDue
    <3>5. QED
      BY <1>1, <3>3, <3>4 DEF PutBackInv, ReadIsCurrent
  <2>3. QED
    BY <1>1, <2>1, <2>2 DEF RevertEnds
<1>5. QED
  BY <1>3, <1>4 DEF PutBackInv

\* A run that fails drops what it should have put back.
LEMMA RevertFailsKeepsPutBack ==
  ASSUME TypeOK, PutBackInv, RevertFails
  PROVE  PutBackInv'
<1>1. /\ UNCHANGED <<daemon, phase, slot, frames>> /\ reverting.reading
      /\ reverting'.reading = FALSE /\ reverting'.dropped = TRUE
  BY DEF RevertFails, NotReverting, daemonVars, linkVars, workerVars
<1>2. QuietBeforeStart' /\ ReadIsCurrent' /\ FailureIsDue'
  BY <1>1 DEF PutBackInv, QuietBeforeStart, ReadIsCurrent, FailureIsDue
<1>3. QED
  BY <1>2 DEF PutBackInv

LEMMA AskedIs ==
  ASSUME TypeOK
  PROVE  /\ Asked.reading = reverting.reading /\ Asked.target = reverting.target
         /\ Asked.loadable = reverting.loadable
         /\ Asked.wanted = (reverting.wanted \/ desired \in failure)
BY DEF Asked, TypeOK

LEMMA DroppedIs ==
  ASSUME TypeOK
  PROVE  /\ Dropped.reading = reverting.reading /\ Dropped.target = reverting.target
         /\ Dropped.loadable = reverting.loadable /\ Dropped.wanted = reverting.wanted
         /\ Dropped.dropped = TRUE
BY DEF Dropped, TypeOK

LEMMA ServingIsQuiet ==
  ASSUME Serving, UNCHANGED daemon
  PROVE  QuietBeforeStart'
BY DEF Serving, QuietBeforeStart

\* What may run where the lane is taken runs while the daemon serves.
LEMMA LaneIsQuiet ==
  ASSUME LoadInv, NEW o \in Op, op[o].stage \in {"probe", "publish"}, UNCHANGED daemon
  PROVE  QuietBeforeStart' /\ ~reverting.reading
BY DEF LoadInv, InLane, LaneIsServing, ReadingIsFree, Serving, QuietBeforeStart

\* An operation that has published and withdrawn nothing.
LEMMA OthersPublish ==
  ASSUME NEW o \in Op, OthersStay(o), op[o].stage \notin {"revoke", "deliver", "settle"}, desired' = desired
  PROVE  (Publishing => Publishing') /\ (Revoking => Revoking')
BY DEF OthersStay, Publishing, Revoking

LEMMA CommitKeepsPutBack ==
  ASSUME TypeOK, PutBackInv, NEW o \in Op, NEW p \in Package, NEW k \in Work[o], Commit(o, p, k)
  PROVE  PutBackInv'
<1>1. Serving /\ UNCHANGED <<daemon, lane, desired, failure>>
  BY DEF Commit, storeVars, daemonVars
<1>2. QuietBeforeStart'
  BY <1>1, ServingIsQuiet
<1>3. CASE k = "untrust"
  <2>1. Revoking' /\ UNCHANGED reverting
    BY <1>3, CommitBegins DEF Revoking, Commit
  <2>2. QED
    BY <1>1, <1>2, <2>1 DEF PutBackInv, ReadIsCurrent, FailureIsDue, Due
<1>4. CASE k # "untrust"
  <2>1. reverting' = Asked
    BY <1>4 DEF Commit
  <2>2. reverting'.wanted \/ desired \notin failure
    BY <2>1, AskedIs
  <2>3. ReadIsCurrent' /\ FailureIsDue'
    BY <1>1, <2>1, <2>2, AskedIs DEF PutBackInv, ReadIsCurrent, FailureIsDue, KnownFailed, Due
  <2>4. QED
    BY <1>2, <2>3 DEF PutBackInv
<1>5. QED
  BY <1>3, <1>4

\* A rescan changes what can be loaded, and asks nobody.
LEMMA RescanKeepsPutBack ==
  ASSUME TypeOK, PutBackInv, NEW p \in Package, Rescan(p)
  PROVE  PutBackInv'
<1>1. UNCHANGED <<daemon, lane, desired, phase, slot, frames>> /\ reverting' = Dropped
  BY DEF Rescan, storeVars, daemonVars, linkVars, workerVars
<1>2. QuietBeforeStart'
  BY <1>1, DroppedIs DEF PutBackInv, QuietBeforeStart
<1>3. ReadIsCurrent' /\ FailureIsDue'
  BY <1>1, DroppedIs DEF PutBackInv, ReadIsCurrent, FailureIsDue
<1>4. QED
  BY <1>2, <1>3 DEF PutBackInv

\* An operation that fails on its way to asking drops what it owed.
LEMMA OpFailsKeepsPutBack ==
  ASSUME TypeOK, LoadInv, LoadInv', PutBackInv, NEW o \in Op, OpFails(o)
  PROVE  PutBackInv'
<1>1. /\ UNCHANGED <<trusted, enabled, daemon, lane, desired, previous, failure, putBack>>
      /\ Serving /\ op[o].stage \in {"revoke", "deliver"}
  BY DEF OpFails, storeVars, daemonVars
<1>2. OthersStay(o)
  BY StageLeavesOthers DEF OpFails
<1>3. reverting.reading => lane' = {}
  BY <1>1 DEF PutBackInv, ReadIsCurrent
<1>4. CASE reverting' = Dropped
  BY <1>1, <1>3, <1>4, DroppedIs, ServingIsQuiet, QuietKeepsPutBack
<1>5. CASE op[o].stage = "deliver" /\ op[o].next # desired /\ UNCHANGED reverting
  <2>1. (Publishing => Publishing') /\ (Revoking => Revoking')
    BY <1>1, <1>2, <1>5 DEF OthersStay, Publishing, Revoking
  <2>2. QED
    BY <1>1, <1>3, <1>5, <2>1, ServingIsQuiet, QuietKeepsPutBack
<1>6. QED
  BY <1>1, <1>4, <1>5 DEF OpFails

LEMMA RevokeKeepsPutBack ==
  ASSUME TypeOK, PutBackInv, NEW o \in Op, Revoke(o)
  PROVE  PutBackInv'
<1>1. Serving /\ UNCHANGED daemon /\ ~reverting.reading /\ reverting' = Asked
  BY DEF Revoke, Free
<1>2. QuietBeforeStart'
  BY <1>1, ServingIsQuiet
<1>3. ReadIsCurrent'
  BY <1>1, AskedIs DEF ReadIsCurrent
<1>4. failure' = {} \/ UNCHANGED storeVars
  BY DEF Revoke, Revoked
<1>5. FailureIsDue'
  BY <1>1, <1>4, AskedIs DEF FailureIsDue, KnownFailed, Due, storeVars
<1>6. QED
  BY <1>2, <1>3, <1>5 DEF PutBackInv

LEMMA DeriveKeepsPutBack ==
  ASSUME TypeOK, LoadInv, LoadInv', PutBackInv, NEW o \in Op, Derive(o)
  PROVE  PutBackInv'
<1>1. /\ UNCHANGED <<trusted, enabled, daemon, lane, reverting, desired, previous, failure, putBack>>
      /\ op[o].stage \in {"derive", "await"} /\ Serving
  BY DEF Derive, storeVars, inventoryVars, daemonVars
<1>2. OthersStay(o)
  <2>1. CASE Over(o)
    BY <2>1, StageLeavesOthers
  <2>2. CASE \E t : op' = [op EXCEPT ![o].stage = "enter", ![o].base = desired, ![o].next = t]
    BY <2>2 DEF TypeOK, OthersStay
  <2>3. QED
    BY <2>1, <2>2 DEF Derive
<1>3. (Publishing => Publishing') /\ (Revoking => Revoking')
  BY <1>1, <1>2, OthersPublish
<1>4. reverting.reading => lane' = {}
  BY <1>1 DEF PutBackInv, ReadIsCurrent
<1>5. QED
  BY <1>1, <1>3, <1>4, ServingIsQuiet, QuietKeepsPutBack

LEMMA EnterKeepsPutBack ==
  ASSUME TypeOK, LoadInv, LoadInv', PutBackInv, NEW o \in Op, Enter(o)
  PROVE  PutBackInv'
<1>1. /\ UNCHANGED <<trusted, enabled, daemon, reverting, desired, previous, failure, putBack>>
      /\ op[o].stage = "enter" /\ Serving /\ ~reverting.reading
  BY DEF Enter, storeVars, inventoryVars, daemonVars, Free
<1>2. OthersStay(o)
  BY StageLeavesOthers DEF Enter, Stage, Stages
<1>3. (Publishing => Publishing') /\ (Revoking => Revoking')
  BY <1>1, <1>2, OthersPublish
<1>4. QED
  BY <1>1, <1>3, ServingIsQuiet, QuietKeepsPutBack

LEMMA ProbeKeepsPutBack ==
  ASSUME TypeOK, LoadInv, LoadInv', PutBackInv, NEW o \in Op, Probe(o)
  PROVE  PutBackInv'
<1>1. /\ UNCHANGED <<trusted, enabled, daemon, reverting, desired, previous, failure, putBack>>
      /\ op[o].stage = "probe"
  BY DEF Probe, storeVars, inventoryVars, daemonVars
<1>2. OthersStay(o)
  BY StageLeavesOthers DEF Probe, Stages
<1>3. (Publishing => Publishing') /\ (Revoking => Revoking')
  BY <1>1, <1>2, OthersPublish
<1>4. QED
  BY <1>1, <1>3, LaneIsQuiet, QuietKeepsPutBack

\* A target that failed before may be published again: the operation that did so asks
\* when it settles, and the plugin tree asks nobody.
LEMMA PublishKeepsPutBack ==
  ASSUME TypeOK, LoadInv, PutBackInv, NEW o \in Op, Publish(o)
  PROVE  PutBackInv'
<1>1. /\ UNCHANGED daemon /\ op[o].stage = "publish" /\ desired' = op[o].next
      /\ reverting'.reading = reverting.reading
      /\ op[o].kind = "tree" => reverting'.dropped
  BY DEF Publish, PublishDesired, TypeOK
<1>2. QuietBeforeStart' /\ ~reverting.reading
  BY <1>1, LaneIsQuiet
<1>3. op[o].kind = "tree" \/ (op'[o].stage = "deliver" /\ op'[o].next = op[o].next)
  BY PublishedIs
<1>4. reverting'.dropped \/ Publishing'
  BY <1>1, <1>3 DEF Publishing
<1>5. QED
  BY <1>1, <1>2, <1>4 DEF PutBackInv, ReadIsCurrent, FailureIsDue, Due

LEMMA DeliverAgainKeepsPutBack ==
  ASSUME TypeOK, LoadInv, LoadInv', PutBackInv, NEW o \in Op, DeliverAgain(o)
  PROVE  PutBackInv'
<1>1. /\ UNCHANGED <<trusted, enabled, daemon, lane, reverting, desired, previous, failure, putBack>>
      /\ op[o].stage = "deliver" /\ Serving /\ Stage(o, "settle")
  BY DEF DeliverAgain, storeVars, inventoryVars, daemonVars
<1>2. OthersStay(o) /\ op'[o].stage = "settle" /\ op'[o].next = op[o].next
  BY <1>1, StageLeavesOthers DEF Stages
<1>3. (Publishing => Publishing') /\ (Revoking => Revoking')
  BY <1>1, <1>2 DEF OthersStay, Publishing, Revoking
<1>4. reverting.reading => lane' = {}
  BY <1>1 DEF PutBackInv, ReadIsCurrent
<1>5. QED
  BY <1>1, <1>3, <1>4, ServingIsQuiet, QuietKeepsPutBack

LEMMA SettleKeepsPutBack ==
  ASSUME TypeOK, LoadInv, LoadInv', PutBackInv, NEW o \in Op, Settle(o)
  PROVE  PutBackInv'
<1>1. /\ UNCHANGED <<trusted, enabled, daemon, lane, desired, previous, failure, putBack>>
      /\ op[o].stage = "settle" /\ Serving /\ Over(o)
  BY DEF Settle, storeVars, inventoryVars, daemonVars
<1>2. OthersStay(o)
  BY <1>1, StageLeavesOthers
<1>3. reverting.reading => lane' = {}
  BY <1>1 DEF PutBackInv, ReadIsCurrent
<1>4. CASE reverting' = Asked /\ desired \in failure
  BY <1>1, <1>3, <1>4, AskedIs, ServingIsQuiet, QuietKeepsPutBack
<1>5. CASE desired \notin failure /\ (reverting' = Asked \/ UNCHANGED reverting)
  <2>1. reverting'.reading = reverting.reading /\ reverting'.target = reverting.target
    BY <1>5, AskedIs
  <2>2. QED
    BY <1>1, <1>3, <1>5, <2>1, ServingIsQuiet DEF PutBackInv, ReadIsCurrent, FailureIsDue, KnownFailed
<1>6. CASE op[o].next \notin failure /\ UNCHANGED reverting /\ desired \in failure
  <2>1. (Publishing => Publishing') /\ (Revoking => Revoking')
    BY <1>1, <1>2, <1>6 DEF OthersStay, Publishing, Revoking
  <2>2. QED
    BY <1>1, <1>3, <1>6, <2>1, ServingIsQuiet, QuietKeepsPutBack
<1>7. QED
  BY <1>4, <1>5, <1>6 DEF Settle

LEMMA DaemonStepKeepsPutBack ==
  ASSUME TypeOK, LoadInv, LoadInv', PutBackInv, DaemonStep
  PROVE  PutBackInv'
<1>1. CASE Crash
  BY <1>1 DEF Crash, EmptySlot, NotReverting, PutBackInv, QuietBeforeStart, ReadIsCurrent, FailureIsDue, KnownFailed
<1>2. CASE Restart \/ \E p \in Package : StartupPublish(p)
  <2>1. daemon \in {"down", "starting"} /\ daemon' = "starting" /\ UNCHANGED <<phase, slot, frames, reverting>>
    BY <1>2 DEF Restart, StartupPublish, linkVars, workerVars
  <2>2. QED
    BY <2>1 DEF PutBackInv, QuietBeforeStart, ReadIsCurrent, FailureIsDue, KnownFailed
<1>3. CASE StartupRevert
  <2>1. daemon = "starting" /\ daemon' = "started" /\ UNCHANGED <<desired, failure>> /\ reverting' = Asked
    BY <1>3 DEF StartupRevert, storeVars
  <2>2. QED
    BY <2>1, AskedIs DEF PutBackInv, QuietBeforeStart, ReadIsCurrent, FailureIsDue, KnownFailed, Due
<1>4. CASE CompleteStartup
  <2>1. /\ UNCHANGED <<trusted, enabled, op, lane, reverting, desired, previous, failure, putBack>>
        /\ daemon = "started" /\ daemon' = "serving"
    BY <1>4 DEF CompleteStartup, storeVars, inventoryVars, laneVars
  <2>2. /\ ((UNION previous) \cap Loadable)' = (UNION previous) \cap Loadable
        /\ Fallback(Loadable)' = Fallback(Loadable)
    BY <2>1, FallbackStays
  <2>3. QED
    BY <2>1, <2>2 DEF PutBackInv, QuietBeforeStart, ReadIsCurrent, FailureIsDue, KnownFailed, Due, Publishing, Revoking
<1>5. QED
  BY <1>1, <1>2, <1>3, <1>4 DEF DaemonStep

LEMMA StepKeepsPutBack ==
  ASSUME TypeOK, LoadInv, LoadInv', PutBackInv, [Next]_vars
  PROVE  PutBackInv'
<1>1. ASSUME NEW o \in Op, OpStep(o) PROVE PutBackInv'
  BY <1>1, CommitKeepsPutBack, RevokeKeepsPutBack, DeriveKeepsPutBack, EnterKeepsPutBack, ProbeKeepsPutBack,
     PublishKeepsPutBack, DeliverAgainKeepsPutBack, SettleKeepsPutBack, OpFailsKeepsPutBack DEF OpStep
<1>2. CASE UNCHANGED vars
  <2>1. UNCHANGED <<trusted, enabled, op, lane, reverting, daemon, desired, previous, failure, putBack,
                    phase, slot, frames>>
    BY <1>2 DEF vars, inventoryVars, storeVars, laneVars, daemonVars, linkVars, workerVars
  <2>2. /\ QuietBeforeStart' /\ (Publishing => Publishing') /\ (Revoking => Revoking')
        /\ reverting.reading => lane' = {}
    BY <2>1 DEF PutBackInv, QuietBeforeStart, Publishing, Revoking, ReadIsCurrent
  <2>3. QED
    BY <2>1, <2>2, QuietKeepsPutBack
<1>3. QED
  BY <1>1, <1>2, RescanKeepsPutBack, RevertStartKeepsPutBack, RevertEndsKeepsPutBack, RevertFailsKeepsPutBack,
     WorkerStepKeepsPutBack, DaemonStepKeepsPutBack DEF Next

\* A desired target that failed is put back by somebody, in every order of failing
\* frames, boots that time out, publications, withdrawals, crashes and restarts; and a
\* fallback that failed is given up instead of being put back to itself. Excepted is what
\* was dropped since the reverter was last asked: its run failed, the operation that owed
\* the question failed, a rescan changed what can be loaded, or the plugin tree published.
THEOREM FailedIsPutBackAlways == Spec => []FailedIsPutBack
<1>1. Init => LoadInv /\ PutBackInv
  <2>1. SUFFICES ASSUME Init PROVE LoadInv /\ PutBackInv
    OBVIOUS
  <2>2. LoadInv
    BY <2>1, InitLoadInv
  <2>3. daemon = "serving" /\ failure = {} /\ reverting.reading = FALSE
    BY <2>1 DEF Init, NotReverting
  <2>4. PutBackInv
    BY <2>3 DEF PutBackInv, QuietBeforeStart, ReadIsCurrent, FailureIsDue, KnownFailed
  <2>5. QED
    BY <2>2, <2>4
<1>2. TypeOK /\ LoadInv /\ [Next]_vars => LoadInv'
  BY StepKeepsLoad
<1>3. TypeOK /\ LoadInv /\ LoadInv' /\ PutBackInv /\ [Next]_vars => PutBackInv'
  BY StepKeepsPutBack
<1>4. PutBackInv => FailedIsPutBack
  BY DEF PutBackInv, FailureIsDue, Due, Publishing, Revoking, PutBackIsDue, FailedIsPutBack, Fallback
<1>5. QED
  BY <1>1, <1>2, <1>3, <1>4, TypeCorrect, PTL DEF Spec
=============================================================================
