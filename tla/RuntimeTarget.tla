--------------------------- MODULE RuntimeTarget ---------------------------
(* Publication of the runtime target: what the daemon wants the shared       *)
(* worker to run (composite-target-store.ts), the package operations that    *)
(* derive, probe and publish a target in the publication lane                *)
(* (composite-target-activation.ts, runtime-pin-coordinator.ts), the reverter *)
(* that puts a failed target back (composite-target-revert.ts), and the      *)
(* worker that boots from a target, is offered newer ones and reports what    *)
(* became of them (composite-runtime-delivery.ts, worker-pool.ts,            *)
(* runtime-target-slot.ts).                                                  *)
(*                                                                           *)
(* Package operations, publications of the plugin tree, rescans of local      *)
(* sources, frames of a worker, worker deaths, daemon crashes and the failure *)
(* of an operation, a revocation or the reverter interleave at every await of *)
(* the code.                                                                  *)
EXTENDS Integers, Sequences

CONSTANTS
  Package,      \* installed packages
  Op,           \* package operations
  Work,         \* what an operation may be
  MaxStarts,    \* worker starts (a bound of the model)
  MaxFaults,    \* worker deaths, daemon crashes and failures (a bound of the model)
  MaxFrames     \* frames a worker has in flight (a bound of the model)

Works == {"enable", "disable", "update", "rollback", "untrust", "tree"}
ASSUME BoundAssumption ==
  /\ Work \in [Op -> SUBSET Works]
  /\ MaxStarts \in Nat /\ MaxFaults \in Nat /\ MaxFrames \in Nat

\* A row is the snapshot a package has at one of its two versions; a target is the
\* set of rows it mounts, and its digest is a function of that set.
Row == Package \X {1, 2}
Target == SUBSET Row
RowsOf(p) == {r \in Row : r[1] = p}

VARIABLES
  desired, previous, lastGood,   \* the stored targets; the last two hold at most one
  ack,        \* acknowledged_json: a target and the generation that confirmed it
  failure,    \* last_failure_json: the target that failed
  putBack,    \* live rows of composite_target_reverts: <<failed, fallback>>
  pins,       \* rows whose snapshot is pinned
  installed, versions, trusted, enabled,   \* the package inventory
  lapsed,     \* history: packages that lost their trust and were not revoked for it
  daemon,     \* "down", "starting", "started" or "serving"
  staged,     \* the publication staged until the daemon serves
  preferred,  \* #bootTargetDigest
  lane,       \* the operation that holds the publication lane
  retiring,   \* rows kept pinned for a revoked package
  reverting,  \* the reverter: asked for, what it read before its await; and as history,
              \* whether the failed target was dropped since it was last asked
  op,         \* package operations
  phase,      \* the worker: "down", "spawned", "booting" or "live"
  gen,        \* its generation
  boot,       \* the boot offer: source given at spawn, source and target offered
  slot,       \* its slot: active, pending and applied target
  hosted,     \* it announced boot_ready
  deferred,   \* targets to offer once the worker is live
  frames,     \* its frames on their way to the daemon
  ran,        \* history: targets the worker applied
  starts, faults

storeVars == <<desired, previous, lastGood, ack, failure, putBack>>
inventoryVars == <<installed, versions, trusted, enabled, lapsed>>
daemonVars == <<daemon, staged, preferred>>
laneVars == <<lane, retiring, pins, reverting, op>>
linkVars == <<phase, gen, boot>>
workerVars == <<slot, hosted, deferred, frames, ran>>
boundVars == <<starts, faults>>
vars == <<storeVars, inventoryVars, daemonVars, laneVars, linkVars, workerVars, boundVars>>

Free == lane = {} /\ ~reverting.reading
Up == daemon # "down"
Serving == daemon = "serving"
Live == phase = "live"

\* `fresh`: the inventory is the one the operation pinned its snapshots from.
Idle == [stage |-> "idle", kind |-> "", package |-> {}, base |-> {}, next |-> {}, fresh |-> TRUE]
EmptySlot == [active |-> {}, pending |-> {}, applied |-> {}]
NotReverting == [wanted |-> FALSE, reading |-> FALSE, target |-> {}, loadable |-> {}, dropped |-> FALSE]

Init ==
  /\ installed = [p \in Package |-> 1] /\ versions = [p \in Package |-> {1}]
  /\ trusted = Package /\ enabled = Package /\ lapsed = {}
  /\ desired = {<<p, 1>> : p \in Package} /\ previous = {} /\ lastGood = {}
  /\ ack = {} /\ failure = {} /\ putBack = {} /\ pins = desired
  /\ daemon = "serving" /\ staged = {} /\ preferred = {} /\ faults = 0
  /\ lane = {} /\ retiring = {} /\ reverting = NotReverting
  /\ op = [o \in Op |-> Idle]
  /\ phase = "down" /\ gen = 0 /\ starts = 0
  /\ boot = [env |-> "", source |-> "", target |-> {}]
  /\ slot = EmptySlot /\ hosted = FALSE /\ deferred = <<>> /\ frames = <<>>
  /\ ran = {}

-----------------------------------------------------------------------------
(* Delivery: what the onDesired listener, a boot and an operation offer. *)

\* offer of the slot: an idle slot takes it on, a repeat of the target being applied
\* drops a queued one, any other target replaces the queued one.
Offered(s, t) ==
  IF s.active = {} THEN [s EXCEPT !.active = {t}]
  ELSE IF t \in s.active THEN [s EXCEPT !.pending = {}]
  ELSE [s EXCEPT !.pending = {t}]

\* Of several offers the last one is queued; an idle slot takes the first one on.
OfferedAll(s, offers) ==
  IF offers = <<>> THEN s
  ELSE Offered(IF s.active = {} THEN Offered(s, Head(offers)) ELSE s, offers[Len(offers)])

\* deliverDesiredToWorkers: to the live worker, or after the start it waits for.
Deliver(t) ==
  IF Live THEN slot' = Offered(slot, t) /\ UNCHANGED deferred
  ELSE /\ deferred' = IF deferred # <<>> /\ deferred[Len(deferred)] = t THEN deferred ELSE Append(deferred, t)
       /\ UNCHANGED slot

\* The onDesired listener: staged while the daemon starts, delivered afterwards.
Announce(t) ==
  IF Serving THEN Deliver(t) /\ UNCHANGED staged
  ELSE staged' = {t} /\ UNCHANGED <<slot, deferred>>

-----------------------------------------------------------------------------
(* The store's transactions. *)

\* A publish or a confirmation ends the doubt about a fallback.
RetireSuspicion == putBack' = {}

PublishDesired(next) ==
  /\ desired' = next /\ previous' = {desired}
  /\ ack' = {a \in ack : a[1] = next}
  /\ RetireSuspicion
  /\ UNCHANGED <<lastGood, failure>>

QualifyConverged(t, g) ==
  /\ lastGood' = {t} /\ ack' = {<<t, g>>} /\ failure' = {}
  /\ RetireSuspicion
  /\ UNCHANGED <<desired, previous>>

QualifyFailed(t) ==
  /\ failure' = {t}
  /\ UNCHANGED <<desired, previous, lastGood, ack, putBack>>

Without(t, P) == {r \in t : r[1] \notin P}
Sanitized(T, P) == {Without(t, P) : t \in T}

\* revokePackage, for the packages it is called for: nothing happens unless one of
\* the three targets changes.
Revoked(P) ==
  IF \E t \in {desired} \cup previous \cup lastGood : Without(t, P) # t
  THEN /\ desired' = Without(desired, P)
       /\ previous' = Sanitized(previous, P) /\ lastGood' = Sanitized(lastGood, P)
       /\ ack' = {} /\ failure' = {} /\ RetireSuspicion
  ELSE UNCHANGED storeVars

RevertDesired(t) ==
  /\ desired' = t /\ ack' = {} /\ failure' = {}
  /\ putBack' = {b \in putBack : b[1] # desired} \cup {<<desired, t>>}
  /\ UNCHANGED <<previous, lastGood>>

IsRevertTarget(t) == \E b \in putBack : b[2] = t

-----------------------------------------------------------------------------
(* Pins. *)

Referenced == desired \cup (UNION previous) \cup (UNION lastGood)

\* Variant: what rollback reads is not counted.
ReferencedLive == desired \cup (UNION lastGood)
ReferencedRows == Referenced

\* sweepPins and collect at the end of whatever held the lane.
Collect == pins' = pins \cap (ReferencedRows' \cup retiring')

Eligible(p) == p \in trusted
RuntimeEligible(p) == Eligible(p) /\ p \in enabled

\* ensure: every row's package is eligible, and its snapshot is pinned or can be.
Ensurable(t) == \A r \in t : Eligible(r[1]) /\ (r \in pins \/ r[2] \in versions[r[1]])

-----------------------------------------------------------------------------
(* The reverter. *)

\* A run of the reverter matters when the desired target failed before it: a later
\* failure asks for a run of its own.
AskedNever == reverting   \* Variant: a failure is left to whoever recorded it.
Asked == [reverting EXCEPT !.wanted = @ \/ desired \in failure, !.dropped = FALSE]
Ask == reverting' = [reverting EXCEPT !.wanted = TRUE, !.dropped = FALSE]
\* Something that would have asked does not.
Dropped == [reverting EXCEPT !.dropped = TRUE]

\* What a worker started now could import.
Loadable == {r \in pins : RuntimeEligible(r[1])}

RevertStart ==
  /\ Up /\ reverting.wanted /\ Free
  /\ reverting' = IF desired \in failure
                  THEN [NotReverting EXCEPT !.reading = TRUE, !.target = desired, !.loadable = Loadable]
                  ELSE NotReverting
  /\ UNCHANGED <<storeVars, inventoryVars, daemonVars, lane, retiring, pins, op, linkVars, workerVars, boundVars>>

\* Variant: a fallback that failed is worked out again from what came before.
FallbackAlways(loadable) == (UNION previous) \cap loadable
\* revertTarget: what was desired before, as far as a worker can load it; emptyTarget
\* when the fallback itself failed.
Fallback(loadable) ==
  IF IsRevertTarget(desired) THEN {} ELSE (UNION previous) \cap loadable

RevertEnds ==
  /\ reverting.reading
  /\ reverting' = [NotReverting EXCEPT !.wanted = reverting.wanted, !.dropped = reverting.dropped]
  /\ LET target == Fallback(reverting.loadable) IN
     IF desired = reverting.target /\ target # desired
     THEN RevertDesired(target) /\ Announce(target)
     ELSE UNCHANGED <<storeVars, staged, slot, deferred>>
  /\ UNCHANGED retiring /\ Collect
  /\ UNCHANGED <<inventoryVars, daemon, preferred, lane, op, linkVars, hosted, frames, ran, boundVars>>

\* The inventory cannot be read, or the store not written: the failure is logged, and
\* the target stays until somebody asks again.
RevertFails ==
  /\ reverting.reading /\ faults < MaxFaults /\ faults' = faults + 1
  /\ reverting' = [NotReverting EXCEPT !.wanted = reverting.wanted, !.dropped = TRUE]
  /\ UNCHANGED <<storeVars, inventoryVars, daemonVars, lane, retiring, pins, op, linkVars, workerVars, starts>>

-----------------------------------------------------------------------------
(* Package operations. *)

Stage(o, s) == op' = [op EXCEPT ![o].stage = s]
Over(o) == op' = [op EXCEPT ![o] = [Idle EXCEPT !.stage = "over"]]
\* reconcile from the stage on: "await" the reverter, or "derive" once more.
From(o, s) == [Idle EXCEPT !.stage = s, !.kind = op[o].kind, !.package = op[o].package]
Again(o) == op' = [op EXCEPT ![o] = From(o, "derive")]

\* Variant: a rollback goes on to the next version.
NextVersion(v) == v + 1
OtherVersion(v) == 3 - v

\* Another version takes the place of the installed one: activated, if the package was
\* trusted and the request says so, or neither trusted nor enabled.
Switched(p, v) ==
  /\ installed' = [installed EXCEPT ![p] = v] /\ versions' = [versions EXCEPT ![p] = {1, 2}]
  /\ \/ Eligible(p) /\ enabled' = enabled \cup {p} /\ UNCHANGED <<trusted, lapsed>>
     \/ /\ trusted' = trusted \ {p} /\ enabled' = enabled \ {p}
        /\ lapsed' = lapsed \cup (trusted \cap {p})

\* The package manager's part of an operation; a rollback swaps the two versions. The
\* plugin tree is published without one.
Change(p, k) ==
  \/ k = "tree" /\ UNCHANGED inventoryVars
  \/ k = "enable" /\ Eligible(p) /\ enabled' = enabled \cup {p}
     /\ UNCHANGED <<installed, versions, trusted, lapsed>>
  \/ k = "disable" /\ enabled' = enabled \ {p}
     /\ UNCHANGED <<installed, versions, trusted, lapsed>>
  \/ k = "update" /\ versions[p] = {1} /\ Switched(p, 2)
  \/ k = "rollback" /\ versions[p] = {1, 2} /\ Switched(p, OtherVersion(installed[p]))
  \/ k = "untrust" /\ Eligible(p)
     /\ trusted' = trusted \ {p} /\ enabled' = enabled \ {p}
     /\ UNCHANGED <<installed, versions, lapsed>>

\* A probe that is under way pinned its snapshots from an inventory of before.
Outdated ==
  [x \in Op |-> IF op[x].stage = "probe" /\ inventoryVars' # inventoryVars
                THEN [op[x] EXCEPT !.fresh = FALSE] ELSE op[x]]

\* What the plugin tree publishes: the desired target without a package, or the previous one.
TreeTargets(p) == {Without(desired, {p})} \cup previous

\* An untrust asks the reverter after its revocation only.
Commit(o, p, k) ==
  /\ Serving /\ op[o].stage = "idle"
  /\ Change(p, k)
  /\ \E t \in IF k = "tree" THEN TreeTargets(p) ELSE {{}} :
       op' = [Outdated EXCEPT ![o] = [Idle EXCEPT !.kind = k, !.package = {p}, !.next = t,
                                        !.stage = IF k = "untrust" THEN "revoke" ELSE "await"]]
  /\ reverting' = IF k = "untrust" THEN reverting ELSE Asked
  /\ UNCHANGED <<storeVars, daemonVars, lane, retiring, pins, linkVars, workerVars, boundVars>>

\* scanLocal, of the watcher, an explicit reload or a start: a changed local source is
\* installed, and trusted no longer when it needs a new decision; one that is gone is
\* switched off.
Rescan(p) ==
  /\ daemon \in {"down", "serving"} /\ versions[p] = {1}
  /\ \/ /\ p \in enabled /\ enabled' = enabled \ {p}
        /\ UNCHANGED <<installed, versions, trusted, lapsed>>
     \/ /\ installed' = [installed EXCEPT ![p] = 2] /\ versions' = [versions EXCEPT ![p] = {1, 2}]
        /\ \/ UNCHANGED <<trusted, enabled, lapsed>>
           \/ /\ trusted' = trusted \ {p} /\ enabled' = enabled \ {p}
              /\ lapsed' = lapsed \cup (trusted \cap {p})
  /\ op' = Outdated /\ reverting' = Dropped
  /\ UNCHANGED <<storeVars, daemonVars, lane, retiring, pins, linkVars, workerVars, boundVars>>

\* revokePackage of the coordinator: the rows stay pinned for a worker that runs them.
Revoke(o) ==
  /\ Serving /\ op[o].stage = "revoke" /\ Free
  /\ Revoked(op[o].package)
  /\ retiring' = retiring \cup {r \in Referenced : r[1] \in op[o].package}
  /\ IF desired' # desired THEN Announce(desired') ELSE UNCHANGED <<staged, slot, deferred>>
  /\ Stage(o, "await") /\ reverting' = Asked
  /\ UNCHANGED <<inventoryVars, daemon, preferred, lane, pins, linkVars, hosted, frames, ran, boundVars>>

\* desiredFor: the desired target with the package's rows rebuilt. Rows a disable
\* keeps, switched off, mount nothing and are left out.
Rebuilt(p, k) ==
  Without(desired, {p}) \cup
    (IF k \in {"enable", "update"} /\ RuntimeEligible(p) THEN {<<p, installed[p]>>} ELSE {})

\* A rollback replays the previous target.
Derived(p, k) ==
  IF k # "rollback" THEN {Rebuilt(p, k)} ELSE IF RuntimeEligible(p) THEN previous ELSE {}

\* A reconciliation asks the reverter first and waits for it; a repeated derivation
\* does not. The tree publishes what was chosen before the wait.
Derive(o) ==
  /\ Serving
  /\ \/ op[o].stage = "derive"
     \/ op[o].stage = "await" /\ ~reverting.wanted /\ ~reverting.reading
  /\ LET targets == IF op[o].kind = "tree" THEN {op[o].next}
                    ELSE UNION {Derived(p, op[o].kind) : p \in op[o].package} IN
     IF targets = {} THEN Over(o)
     ELSE \E t \in targets :
            op' = [op EXCEPT ![o].stage = "enter", ![o].base = desired, ![o].next = t]
  /\ UNCHANGED <<storeVars, inventoryVars, daemonVars, lane, retiring, pins, reverting,
                 linkVars, workerVars, boundVars>>

\* What an operation derived from another target is stale; the tree names no base.
Stale(o) == desired # op[o].base /\ op[o].kind # "tree"

\* publish of the coordinator enters the lane: what is stale is derived once more; its
\* snapshots are pinned, or the publication fails.
Enter(o) ==
  /\ Serving /\ op[o].stage = "enter" /\ Free
  /\ UNCHANGED <<storeVars, inventoryVars, daemonVars, retiring, reverting, linkVars, workerVars, boundVars>>
  /\ \/ Stale(o) /\ Again(o) /\ UNCHANGED <<lane, pins>>
     \/ /\ ~Stale(o) /\ ~Ensurable(op[o].next)
        /\ Over(o) /\ Collect /\ UNCHANGED lane
     \/ /\ ~Stale(o) /\ Ensurable(op[o].next)
        /\ pins' = pins \cup op[o].next /\ lane' = {o}
        /\ op' = [op EXCEPT ![o].stage = "probe"]

Leave == lane' = {} /\ Collect

\* Variant: the probe's answer is not checked against the inventory.
AcceptedAnyway(o) == TRUE
\* The inventory did not change during the probe and every package is eligible still.
Accepted(o) ==
  op[o].fresh /\ \A r \in op[o].next : Eligible(r[1])

\* The isolated worker's probe: it refuses the target, the inventory changed
\* meanwhile, or the target may be published.
Probe(o) ==
  /\ op[o].stage = "probe"
  /\ UNCHANGED <<storeVars, inventoryVars, daemonVars, retiring, reverting, linkVars, workerVars, boundVars>>
  /\ \/ Over(o) /\ Leave
     \/ ~Accepted(o) /\ op[o].kind # "tree" /\ Again(o) /\ Leave
     \/ Accepted(o) /\ Stage(o, "publish") /\ UNCHANGED <<lane, pins>>

\* The second half of publishProbedRuntimeTarget, behind the awaits of its admission.
\* Nobody waits for what becomes of a target the tree publishes.
Publish(o) ==
  /\ op[o].stage = "publish"
  /\ PublishDesired(op[o].next) /\ Announce(op[o].next)
  /\ IF op[o].kind = "tree" THEN Over(o)
     ELSE op' = [op EXCEPT ![o] = [@ EXCEPT !.stage = "deliver", !.base = {}]]
  /\ reverting' = [reverting EXCEPT !.dropped = op[o].kind = "tree"]
  /\ UNCHANGED retiring /\ Leave
  /\ UNCHANGED <<inventoryVars, daemon, preferred, linkVars, hosted, frames, ran, boundVars>>

\* reconcile delivers what it published once more, behind another await.
DeliverAgain(o) ==
  /\ Serving /\ op[o].stage = "deliver"
  /\ Deliver(op[o].next) /\ Stage(o, "settle")
  /\ UNCHANGED <<storeVars, inventoryVars, daemonVars, lane, retiring, pins, reverting,
                 linkVars, hosted, frames, ran, boundVars>>

\* A revocation that rejects after its untrust was committed, or anything between the
\* publication and the settlement (the collection of pins, an admission that is withdrawn,
\* the delivery), ends in fail: nobody revokes, settles or asks the reverter. A failure at
\* another step ends the operation as a refused probe does.
OpFails(o) ==
  /\ Serving /\ op[o].stage \in {"revoke", "deliver"}
  /\ faults < MaxFaults /\ faults' = faults + 1
  /\ Over(o)
  /\ lapsed' = IF op[o].stage = "revoke" THEN lapsed \cup op[o].package ELSE lapsed
  /\ reverting' = IF op[o].stage = "revoke" \/ op[o].next = desired THEN Dropped ELSE reverting
  /\ UNCHANGED <<storeVars, installed, versions, trusted, enabled, daemonVars, lane, retiring, pins,
                 linkVars, workerVars, starts>>

\* Nothing of the package runs or is about to: the desired target wants it off, and
\* no worker is alive or the live one confirmed the desired target.
PackageStopped(p) ==
  /\ RowsOf(p) \cap desired = {}
  /\ Live => <<desired, gen>> \in ack

\* settle, which may also run out of time: a failed target is put back, and pins of a
\* stopped package are released.
Settle(o) ==
  /\ Serving /\ op[o].stage = "settle" /\ Over(o)
  /\ UNCHANGED <<storeVars, inventoryVars, daemonVars, lane, linkVars, workerVars, boundVars>>
  /\ LET failed == op[o].next \in failure \/ \E b \in putBack : b[1] = op[o].next IN
     \/ failed /\ reverting' = Asked /\ UNCHANGED <<retiring, pins>>
     \/ /\ ~failed /\ \E p \in op[o].package : ~PackageStopped(p)
        /\ UNCHANGED <<reverting, retiring, pins>>
     \/ /\ ~failed /\ Free /\ \A p \in op[o].package : PackageStopped(p)
        /\ retiring' = {r \in retiring : r[1] \notin op[o].package}
        /\ Collect /\ UNCHANGED reverting

-----------------------------------------------------------------------------
(* The worker and its frames. *)

BootSource == IF desired \in preferred \/ lastGood = {} THEN "bootstrap" ELSE "lastGood"
BootTarget == IF BootSource = "bootstrap" THEN {desired} ELSE lastGood

\* A start tells the worker the source of its boot target before it chooses it.
Spawn ==
  /\ Serving /\ phase = "down" /\ starts < MaxStarts
  /\ phase' = "spawned" /\ gen' = gen + 1 /\ starts' = starts + 1 /\ UNCHANGED faults
  /\ boot' = [env |-> BootSource, source |-> "", target |-> {}]
  /\ UNCHANGED <<storeVars, inventoryVars, daemonVars, laneVars, workerVars>>

Hello ==
  /\ phase = "spawned" /\ phase' = "booting"
  /\ boot' = [boot EXCEPT !.source = BootSource, !.target = BootTarget]
  /\ slot' = [EmptySlot EXCEPT !.active = BootTarget]
  /\ UNCHANGED <<storeVars, inventoryVars, daemonVars, laneVars, gen,
                 hosted, deferred, frames, ran, boundVars>>

Frame(kind, t) == [kind |-> kind, target |-> t, gen |-> gen, source |-> boot.env]
\* The drain loop goes on with the queued target.
Drained(s, applied) == [active |-> s.pending, pending |-> {}, applied |-> applied]

\* The first target the worker runs makes it announce boot_ready.
Apply ==
  /\ Len(frames) < MaxFrames
  /\ \E t \in slot.active :
       /\ slot' = Drained(slot, {t}) /\ ran' = ran \cup {t} /\ hosted' = TRUE
       /\ frames' = frames \o (IF hosted THEN <<>> ELSE <<Frame("boot_ready", t)>>)
                           \o <<Frame("converged", t)>>
  /\ UNCHANGED <<storeVars, inventoryVars, daemonVars, laneVars, linkVars, deferred, boundVars>>

\* A target that is applied already is not applied again.
ApplyFails ==
  /\ Len(frames) < MaxFrames
  /\ \E t \in slot.active \ slot.applied :
       /\ slot' = Drained(slot, slot.applied)
       /\ frames' = Append(frames, Frame("apply_failed", t))
  /\ UNCHANGED <<storeVars, inventoryVars, daemonVars, laneVars, linkVars, hosted, deferred, ran, boundVars>>

NoWorker ==
  /\ phase' = "down" /\ boot' = [env |-> "", source |-> "", target |-> {}]
  /\ slot' = EmptySlot /\ hosted' = FALSE /\ deferred' = <<>> /\ ran' = {}
  /\ UNCHANGED gen

\* Admission: the worker becomes the live one and is offered what became desired
\* since, then what waited for it.
BootReady(f) ==
  IF phase = "booting" /\ f.gen = gen /\ f.target \in boot.target /\ f.source = boot.source
  THEN /\ phase' = "live" /\ deferred' = <<>>
       /\ LET offers == (IF desired \in boot.target THEN <<>> ELSE <<desired>>) \o deferred
          IN slot' = OfferedAll(slot, offers)
       /\ UNCHANGED <<gen, boot, hosted, ran>>
  ELSE UNCHANGED <<linkVars, slot, deferred, hosted, ran>>

\* Variant: any report confirms the desired target.
ConfirmsAny(f) == TRUE
\* A report about a target that is no longer the desired one says nothing.
Confirms(f) == f.target = desired

Failed(t) ==
  IF t = desired THEN QualifyFailed(t) /\ Ask ELSE UNCHANGED <<storeVars, reverting>>

\* handleWorkerFrame. Frames of a worker that is gone are read all the same.
Handle ==
  /\ Up /\ frames # <<>> /\ frames' = Tail(frames)
  /\ LET f == Head(frames) IN
     \/ /\ f.kind = "boot_ready" /\ BootReady(f)
        /\ UNCHANGED <<storeVars, reverting>>
     \/ /\ f.kind = "converged"
        /\ IF Confirms(f) THEN QualifyConverged(desired, f.gen) ELSE UNCHANGED storeVars
        /\ UNCHANGED <<reverting, linkVars, slot, hosted, deferred, ran>>
     \/ /\ f.kind = "apply_failed" /\ Failed(f.target)
        /\ IF phase = "booting" /\ f.gen = gen /\ f.target \in boot.target THEN NoWorker
           ELSE UNCHANGED <<linkVars, slot, hosted, deferred, ran>>
  /\ UNCHANGED <<inventoryVars, daemonVars, lane, retiring, pins, op, boundVars>>

\* The worker dies, or its start runs out of time: a start that was given the
\* desired target as bootstrap blames that target.
WorkerDies ==
  /\ phase # "down" /\ NoWorker
  /\ faults < MaxFaults /\ faults' = faults + 1 /\ UNCHANGED starts
  /\ IF phase = "booting" /\ boot.source = "bootstrap" /\ desired \in boot.target
     THEN QualifyFailed(desired) /\ Ask
     ELSE UNCHANGED <<storeVars, reverting>>
  /\ UNCHANGED <<inventoryVars, daemonVars, lane, retiring, pins, op, frames>>

-----------------------------------------------------------------------------
(* The daemon. *)

\* Memory is lost, and the worker with it; the journal brings a committed operation
\* back to its reconciliation. The tree keeps no journal.
Crash ==
  /\ Up /\ faults < MaxFaults /\ faults' = faults + 1
  /\ daemon' = "down" /\ staged' = {} /\ preferred' = {}
  /\ lane' = {} /\ retiring' = {} /\ reverting' = NotReverting
  /\ op' = [o \in Op |-> IF op[o].stage \in {"idle", "over"} THEN op[o]
                         ELSE IF op[o].kind = "tree" THEN [Idle EXCEPT !.stage = "over"]
                         ELSE From(o, "await")]
  /\ phase' = "down" /\ gen' = 0 /\ boot' = [env |-> "", source |-> "", target |-> {}]
  /\ slot' = EmptySlot /\ hosted' = FALSE /\ deferred' = <<>> /\ frames' = <<>> /\ ran' = {}
  /\ UNCHANGED <<storeVars, inventoryVars, pins, starts>>

\* recover: targets lose the packages that are not eligible, and are pinned again.
Restart ==
  /\ daemon = "down" /\ daemon' = "starting"
  /\ Revoked(Package \ trusted)
  /\ staged' = IF desired' # desired THEN {desired'} ELSE {}
  /\ pins' = {r \in Referenced' : r \in pins \/ r[2] \in versions[r[1]]}
  /\ lapsed' = {}
  /\ UNCHANGED <<installed, versions, trusted, enabled, preferred, lane, retiring, reverting, op,
                 linkVars, workerVars, boundVars>>

\* Local packages are published as the inventory has them before anything is served.
StartupPublish(p) ==
  /\ daemon = "starting" /\ Rebuilt(p, "enable") # desired
  /\ PublishDesired(Rebuilt(p, "enable")) /\ staged' = {desired'}
  /\ pins' = (pins \cup desired') \cap ReferencedRows'
  /\ UNCHANGED <<inventoryVars, daemon, preferred, lane, retiring, reverting, op,
                 linkVars, workerVars, boundVars>>

\* A target that failed in an earlier life of the daemon is put back.
StartupRevert ==
  /\ daemon = "starting" /\ daemon' = "started" /\ reverting' = Asked
  /\ UNCHANGED <<storeVars, inventoryVars, staged, preferred, lane, retiring, pins, op,
                 linkVars, workerVars, boundVars>>

CompleteStartup ==
  /\ daemon = "started" /\ daemon' = "serving"
  /\ preferred' = staged /\ staged' = {}
  /\ UNCHANGED <<storeVars, inventoryVars, laneVars, linkVars, workerVars, boundVars>>

OpStep(o) ==
  \/ \E p \in Package, k \in Work[o] : Commit(o, p, k)
  \/ Revoke(o) \/ Derive(o) \/ Enter(o) \/ Probe(o) \/ Publish(o) \/ DeliverAgain(o) \/ Settle(o)
  \/ OpFails(o)
WorkerStep == Spawn \/ Hello \/ Apply \/ ApplyFails \/ Handle \/ WorkerDies
DaemonStep == Crash \/ Restart \/ (\E p \in Package : StartupPublish(p)) \/ StartupRevert \/ CompleteStartup

Next ==
  \/ \E o \in Op : OpStep(o)
  \/ \E p \in Package : Rescan(p)
  \/ RevertStart \/ RevertEnds \/ RevertFails \/ WorkerStep \/ DaemonStep

Spec == Init /\ [][Next]_vars

-----------------------------------------------------------------------------
(* Properties. *)

Sources == {"", "bootstrap", "lastGood"}
FrameType == [kind : {"boot_ready", "converged", "apply_failed"}, target : Target,
              gen : Nat, source : Sources]
OpType == [stage : {"idle", "revoke", "await", "derive", "enter", "probe", "publish", "deliver", "settle", "over"},
           kind : Works \cup {""}, package : SUBSET Package, base : Target, next : Target, fresh : BOOLEAN]

\* Targets, pins, packages, operations, slot, frames and counters keep their types:
\* what a publication, a put-back or a rollback stores is a target.
TypeOK ==
  /\ desired \in Target /\ previous \subseteq Target /\ lastGood \subseteq Target
  /\ ack \subseteq Target \X Nat /\ failure \subseteq Target /\ putBack \subseteq Target \X Target
  /\ pins \subseteq Row /\ retiring \subseteq Row
  /\ installed \in [Package -> {1, 2}] /\ versions \in [Package -> SUBSET {1, 2}]
  /\ trusted \subseteq Package /\ enabled \subseteq Package /\ lapsed \subseteq Package
  /\ daemon \in {"down", "starting", "started", "serving"}
  /\ staged \subseteq Target /\ preferred \subseteq Target
  /\ reverting \in [wanted : BOOLEAN, reading : BOOLEAN, target : Target, loadable : Target, dropped : BOOLEAN]
  /\ lane \subseteq Op /\ op \in [Op -> OpType]
  /\ phase \in {"down", "spawned", "booting", "live"} /\ hosted \in BOOLEAN
  /\ boot \in [env : Sources, source : Sources, target : SUBSET Target]
  /\ slot \in [active : SUBSET Target, pending : SUBSET Target, applied : SUBSET Target]
  /\ deferred \in Seq(Target) /\ frames \in Seq(FrameType) /\ ran \subseteq Target
  /\ gen \in Nat /\ starts \in Nat /\ faults \in Nat

\* A confirmation of the live worker's generation names a target that worker applied:
\* late, replayed and superseded reports (handleWorkerFrame, qualifyConverged) confirm
\* nothing, so an operation that settles on it, or a release of pins, is not misled.
AckedIsApplied ==
  Live => \A a \in ack : a[2] = gen => a[1] \in ran

\* Whatever the store may still mount or fall back to (desired, previous, last good)
\* has its snapshots pinned, and names no package whose trust was withdrawn, except
\* while the operation that withdrew it waits for the lane: collection, revocation,
\* restarts and put-backs keep to that. Only two things leave an untrusted package in the
\* targets, until the next start revokes it: trust that is lost otherwise than by an
\* untrust (an update or a rollback without activation, a rescan of a local source) is
\* never revoked, and a revocation may fail after its untrust was committed.
TargetsAreLoadable ==
  Up => \A r \in Referenced :
    /\ r \in pins
    /\ \/ r[1] \in trusted \cup lapsed
       \/ \E o \in Op : op[o].stage = "revoke" /\ op[o].package = {r[1]}

\* No operation's publication loses another one: what it publishes it derived from the target
\* it replaces, whatever was published, revoked or put back while it was under way; so every
\* package but its own stays mounted as it was, unless the operation rolls back (publish of
\* the coordinator compares bases and keeps the lane through the probe). The plugin tree names
\* no base, and its publications are left out.
OthersAreKept ==
  [][\A o \in Op : Publish(o) /\ op[o].kind # "tree" =>
       /\ op[o].base = desired
       /\ op[o].kind # "rollback" =>
            Without(desired', op[o].package) = Without(desired, op[o].package)]_vars

\* A target that failed is put back by somebody: a run of the reverter is asked for or
\* under way, or an operation asks for one when its revocation is done or when it settles
\* that very target.
PutBackIsDue ==
  \/ reverting.wanted \/ reverting.reading
  \/ \E o \in Op :
       \/ op[o].stage = "revoke"
       \/ op[o].stage \in {"deliver", "settle"} /\ op[o].next = desired

KnownFailed == daemon \in {"started", "serving"} /\ desired \in failure

\* A desired target that is known to have failed is not left alone while what was
\* desired before it can still be loaded (revertFailedDesired), in every order of
\* failing frames, boots that time out, publications of a target that failed before,
\* crashes and restarts; and a fallback that failed as well is given up for no packages
\* at all (isRevertTarget, emptyTarget), not put back to itself and not kept. It is left
\* alone only when it was dropped since the reverter was last asked: the reverter's run
\* failed, the operation that would have asked failed before it did, a rescan changed what
\* can be loaded, or the plugin tree published the target, for which nobody asks.
FailedIsPutBack ==
  KnownFailed /\ ~reverting.dropped =>
    /\ (~IsRevertTarget(desired) /\ (UNION previous) \cap Loadable # desired) => PutBackIsDue
    /\ (IsRevertTarget(desired) /\ desired # {}) => PutBackIsDue
=============================================================================
