# A TLA+ verification of the Agnes harness

The harness runs agent sessions: a model is asked, its tool calls are executed, and everything that
happened is kept in a ledger from which a session can be resumed after a crash. This directory holds
TLA+ models of the parts where interleavings, crashes and lost answers decide whether that works,
the TLC configurations that check them on small instances, and TLAPS proofs of what matters most for
every instance. `PROJECT.json` maps each definition to the source lines it stands for, and lists the
runs, the mutants that show each property can fail, the hazards and the theorems.

    tlc -workers 2 -config SessionLedger_writers.cfg MCSessionLedger
    tlc -workers 2 -config HistoryVerification_evidence.cfg HistoryVerification
    tlapm SessionLedgerProofs.tla

## 1. The system

Paths are below `src/packages/`.

| part | state | operations | hard behaviour | what makes it correct |
|---|---|---|---|---|
| session ledger (`core-ledger`, `host-infrastructure`) | rows, registers, one writer claim per session; per open a cached view, a queue, a fault | open, append, claimLease, renew, close, abandon | two processes write one session; a writer sleeps past its lease; a commit's answer is lost | one unforked history; no acknowledged row lost; no lost update; a log is refused only if it was replaced |
| reclaimer (`daemon-foundation/src/lease`) | one pass over lapsed claims | list, claimForReclaim, openForResume | races the writer it reclaims from and clients that open the session | a crashed turn is resumed; a live writer's claim is not deleted |
| history verification (`core-ledger/src/log`) | checkpoint, failure row; per log a scan, rechecks, audits, waiters | open, scan, recheck, audit, attesting append, close | verification runs beside appends, rechecks replace scans, damage at any time | evidence is never based on unhashed rows; damage stays recorded |
| nested tool admission (`core-effects/src/effects/scheduler.ts`) | leases, suspension counts, queues | run, abort | unsafe calls nested in calls that are running | unsafe calls run alone; everybody is admitted in the end |
| tool execution (`core/src/execution/turn/tools.ts`, `resume.ts`) | per call a status, attempt and phase; effects; approvals | approve, dispatch, settle, park, resume | crash between intent, dispatch and answer; cancel and timeout against a late answer | a mutation crosses at most once; every call gets one result; "not sent" is true |
| turn machine (`core/src/step`) | op.state, decisions, queued input | transition, inference, decide | parked decisions, expiry, steering | a decision is used once |
| tree budget (`child-control-sqlite.ts`, its callers in `core` and `host`) | budget scopes, reservations, cost origins; per call its permit and cost row | delegate, reserve, settle, reconcile, release | calls of a turn and its children in nested scopes, failed and unanswered settlements, crashes | no cap is overspent, no cost charged twice, no hold lost without a failure |
| runtime targets (`composite-target-store.ts`, `daemon/src/supervisor/publication`) | desired, previous, last good, acknowledgement, failure; the publication lane; the worker's slot | derive, probe, publish, offer, confirm, put back, revoke | late reports, failures during a publication, trust withdrawn meanwhile, restarts | a confirmation is about what the worker runs; targets stay loadable; a failed target is put back |
| command submission (`sdk/src/submit.ts`, `daemon-rpc` `methods/agnes.ts`, `command-journal.ts`) | the client's pending journal, the daemon's receipts and queue, the session's inbox | submit, replay, check, recover, abandon, acknowledge, gc | lost answers, reconnects, retries beside a late dispatch, crashes of client, daemon and worker | one effect per command; one answer; nothing is forgotten before its outcome is known |

The other packages (providers, protocol, extensions, clients, web, vendored code) are listed in
`PROJECT.json` with the reason they are not modelled: they are pure input and output, presentation,
generated schemas or third-party code.

How the parts interact: a session's step machine appends to its log; the log commits through one
storage call at a time; storage checks lease, register expectations and seqs in one transaction;
the daemon's supervisor opens sessions for clients and runs the reclaimer, which opens sessions as
another writer would; a viewer's `session/load` makes the log of a live session recheck itself; the
tools of a turn are admitted by the nested scheduler and may call tools themselves.


## 2. Modules

| module | models | proofs |
|---|---|---|
| `AppendLog` | what a ledger promises its callers: an append-only log, and who has seen how much of it | |
| `SessionLedger` (+ `MCSessionLedger`) | storage, claims, the logs of several runs, the crash reclaimer | `SessionLedgerProofs` |
| `HistoryVerification` | one session's rows, checkpoint and failure row; the verifications of the log that has it open | `HistoryVerificationProofs` |
| `NestedTools` (+ `MCNestedTools`) | the admission of the tool calls of a batch and of those they invoke | `NestedToolsProofs` |
| `EffectOnce` | what a batch promises about the world: how often a call acts, and that its answer is true | |
| `ToolTurn` | the calls of one batch: approvals, intents, attempts, settlement, park, Stop, crash, recovery | `ToolTurnProofs`, `ToolTurnEffects` |
| `RuntimeTarget` (+ `MCRuntimeTarget`) | what the daemon wants its worker to run: store, lane, package operations, reverter, worker, daemon restarts | `RuntimeTargetProofs` |
| `BudgetTree` | what a tree of caps promises those who spend from it: a list of every call, and what is left for it | |
| `TreeBudget` (+ `MCTreeBudget`) | the budget scopes a turn shares with its children, and the callers that reserve, settle and release | `TreeBudgetProofs` |
| `Mailbox` | what a client that submits a command is promised: kept until known, carried out once, one answer | |
| `CommandSubmission` (+ `MCCommandSubmission`) | one client's commands to one session: its journal and retries, the daemon's receipts and queue, the inbox | `CommandSubmissionProofs` |

`SessionLedger` composes two components that meet only in storage: the writers and the daemon's
reclaimer. `HistoryVerification` looks at one log of it in detail, with a single process at a time
because the lease, checked in `SessionLedger`, sees to that. `ToolTurn` in turn takes one append for
one step that either is on the ledger or is not, which is what `AppendLog` promises it.

Four modules are abstract: `AppendLog`, `EffectOnce`, `BudgetTree` and `Mailbox` say what `SessionLedger`,
`ToolTurn`, `TreeBudget` and `CommandSubmission` promise to those who use them, in a few dozen lines each, and
each of these implements its abstract module under the mapping given at its end (`LogSpec`, `EffectSpec`,
`BooksSpec`, `BoxSpec`). All four implementations are proved; `LogSpec` and `EffectSpec` are checked by runs too.

### SessionLedger

A *run* is one open of the session (`writerRunId`), so a process that opens it again is another run,
and `Run` bounds the number of opens. The state is storage's (`claim`, `ledger`, `reg`, `opOpen`: the
tables `writer_claims`, `events` and two rows of `registers`), each log's (`phase`, `fault`,
`lastSeq`, `head`, `regCache`, `turn`, `queue`, `call`, `renewal`: fields of
`SessionLogImpl`) and the reclaimer's (`pass`). `lastHolder` and `owed` are history variables.

- `StorageCommit`, `StorageRenew`, `ReclaimClaim` and the claim taken by `TakeSession` are the
  `BEGIN IMMEDIATE` transactions of `storage-sqlite.ts`, each one step. Storage's answer is a separate
  step (`Return`, `RenewReturn`), and `CommitApplied` may leave the answer `unknown`.
- `Admit`, `Send`, `Return`, `RefuseQueued` are `append`/`claimLease` of `session-log.ts`, cut where
  they wait for the drain and for storage. The compare-and-set expectation is read at `Admit`.
- `OpenClaim`/`FinishOpen`/`FailOpen` are `open`, cut at the history check; `Close`, `Abandon`,
  `Release` are `close` and `abandon`; `Crash` drops a log and leaves its claim.
- `ReclaimList`, `ReclaimClaim`, `ReclaimOpen`, `ReclaimSkip` are one pass of `reclaimExpired`.

A batch is one row, a digest is the sequence of authors it hashes. Sleeping needs no action: a run
that takes no step while `Tick` moves the clock sleeps.

### HistoryVerification

`rows` says of each row whether its body is intact and what it attests; `head` is the checkpoint,
`failed` the failure row. `scan`, `check`, `audit` and `attest` are the background scan, the live
recheck, an audit and an attesting append, each with its place in the code's awaits; `ops` is the
chain of checkpoint writes and seals (`checkpointOperations`). `hashed` is a history variable: the
rows this process has hashed since the last scan began, or appended since.

A page of a scan is one row. At most one recheck, one audit and one attesting append are under way
at a time; the code allows more, and they would do the same. `CloseEnd` forgets the waiters: close
turns them away, and no row of theirs can land. A damaged row changes its body, not its stored digest.

### NestedTools

`phase` follows a call from the batch through its caller's queue (`siblings`), the queue of leases
(`waiting`), its lease (`active`), back through `close`, `resume` and the end of its promise.
`suspended` is `suspendCount`, `owes` the leases whose return an unsafe call awaits. `StartRoot` and
`SkipRoot` are `scheduleBatch`, `StartChild`/`CancelSibling` the sibling queue, `EnterInherited`,
`EnterSafe` and `EnterUnsafe` `runChild` up to its first wait, `CancelAsking` an abort while queued,
`Return`, `Close`, `Resume`, `Leave` its way out; `Pump` is `pump`, part of every action that calls it.

What an admission resolves runs before anything else does, so it is part of the admission. Leases
that return together are queued in some order: `pump` admits them alike.

### ToolTurn

The durable state is what the ledger reduces to: `phase`, `control` and `call` are the fields of
`op.state` a batch uses, `pending`, `outcome` and `answer` the intents, settlements and results,
`decision` and `question` the approval of each call and "did it happen?". A crash keeps these and
forgets the rest: `proc` (where the session's loop is), `pc` and `seen` (where each call's promise
is, and what ended its wait), `parked`, `skipped`, `failed`, `signal`. `live` and `acted` are the
world: an attempt that was invoked may act at any later time, also after the kernel has answered for
it or died.

- Each action is one commit (`transition`, `transitionChain`) or the code between two awaits.
  `Intent` is the chain that consumes the approval, writes the intent and, for a workspace call,
  records it as dispatched, with the checks that run under the writer's lock.
- `Ask` .. `Prepare` are `approveAndExecute` up to the intent; `Invoke` .. `HostRecord` its dispatch
  loop; `SettleResult` .. `SettleUnknown` what follows; `StartBatch`, `Turn`, `Skip`, `SkipParked`
  `runToolsPhase` with `scheduleBatch`; `Throw` what the tool runtime does with a call that fails.
  Calls begin without a limit on how many run at a time; those a recovery left begun start again
  with the batch, as many as had started before the crash.
- `EndParked`, `EndAborted`, `VerifyStep`/`EndStep`, `EndThrown` are the four ends of a batch,
  `DrainAborted`/`CloseAborted` the exit of a cancelled one.
- `Stop`, `RecordStop`, `DeliverStop` are `abortSession`, cut at its awaits: the scope of the
  decisions is revoked first, then the cancel and the closed decisions are committed, then the signal
  is pulled. `StopIdle` and `RunIdle` are a Stop without a turn.
- `Open`, `RecoverCancelled`, `RecoverRetry`, `RecoverUnknown`, `Inquire` .. are `resumeSession`
  with `classifyToolRecovery` and `askUnknownOutcome`; `CloseInterrupted` closes a turn that cannot be
  resumed. `ReopenParked`, `ReopenAnswered` are `continueParked`.

A result is reduced to what it says about the world: that the call ran, did not run, had no effect,
stopped, was cut, is of unknown outcome. A second result, or a second settlement, of one call stays
visible as `twice`. Why a hook or a policy refuses, what a person is shown and how often a parked
turn may go on are left out.

`ToolTurn` implements `EffectOnce` with `Stage` as the mapping of answers. Two are mapped to "nobody
knows" although they say more: the result of a read, which may have been tried twice, and `recalled`,
the answer of recovery that a call was cancelled before its dispatch (see section 6).

### TreeBudget

The store's tables are `chain` (`ancestorScopeIds`: the scopes a task spends from), `active` (children in an
active state), `cap`, `settled` and `held` (the columns of a budget scope), `res` (a reservation's
status) and `origin` (the cost a call was settled with). A store call is one transaction and one
step. `pc`, `actual`, `sent`, `row` follow one provider call in its caller: the permit, the cost the provider
reported, whether it was called and whether its cost row is in the ledger.

- `CreateChild`, `EndChild` are delegation: the fan-out, and a cap that fits into every ancestor.
- `Hold`, `Charge`, `GiveBack` are the bodies of `reserve`, `settleOrigin` and `releaseReservation`.
- `Reserve` .. `Append` are what all callers do; `AppendFails`, `Settled`, `Reconcile` and `Release` differ
  with `Kind`. A `request` is `accountedSideCall`, which releases in its `finally` block what is still held.
  A `core` call is `executeSideCall` and the maintenance calls, which reconcile a failed settlement
  once. A `turn` is the primary inference: a cost row that was not written is left to the transaction
  that closes the turn (`CloseTurn`). The Host's title and auxiliary calls behave as a turn that defers nothing.
- `ReserveLost`, `SettleFails`, `ReleaseFails` are transactions that fail before their commit or lose the
  answer after it; `Crash` ends every call under way. `faults` counts the failures a call has met.

`BudgetTree` has no columns: a scope's load is the sum over all calls below it. `Fate` maps a reservation and its
cost origin to what became of the call (`new`, `open`, `paid`, `freed`), `CostOf` to its cost. A call that was settled
without a cost stays `open`, since its quote still counts, until a later settlement that names a cost pays it.

### RuntimeTarget

A target is the set of rows it mounts: a package at one of its two versions. `desired`, `previous`,
`lastGood`, `ack`, `failure` and `putBack` are the columns of `composite_targets` and the live rows of
`composite_target_reverts`; each operator under "The store's transactions" is one transaction of
`composite-target-store.ts`. `pins` and `retiring` are what keeps snapshots on disk, `installed` ..
`enabled` the package inventory. `ran` is a history variable.

- `Commit` .. `Settle` are one package operation: the package manager's commit (`invoke` of
  `handler.ts`), for `untrust` the revocation, then `reconcile` of `composite-target-activation.ts`, cut at
  its awaits: the reverter, the derivation, the lane, the probe, the admission before the
  publication, the second delivery, the settlement. `lane` is the coordinator's promise chain
  (`exclusive`); any waiter may be the next one.
- `RevertStart`/`RevertEnds` are one run of `revertFailedDesired`, cut at its reading of the inventory.
- `Spawn`, `Hello`, `BootReady` are `startWorker`; `Offered`, `Apply`, `ApplyFails` the worker's slot
  and the frames it sends; `Handle` is `handleWorkerFrame`. Frames outlive their worker. `WorkerDies`
  covers the death of a worker and a start that runs out of time.
- `Crash` .. `CompleteStartup` are the daemon: `recover`, the publication of local packages, the
  first call of the reverter, the staged target that becomes the preferred boot target.

Waits for an idle or settled target may run out at any time, and so end at once; an operation that
is retried three times is retried without limit; an offer reaches the slot when it is sent; a
publication and the collection after it are one step, as are the check that a package stopped and
the release of its pins. Rows that a disable keeps, switched off, mount nothing and are left out.

### CommandSubmission

A command is an id; `payload` says whether it queues an input (`{}`) or withdraws the queued item `i` (`{i}`).
The client's file is `pending`; `replays` is the rest of `resendPending`'s loop. `Call` are slots: `pc` and
`mode` are a call as the client sees it, `at`, `answer` and `seq` the same call in the daemon, which goes on
when nobody waits any more (`neverAbort`). `line` is the session's `CommandQueue`, `entry`, `receipt` and
`acked` the columns of `command_journal`, `rows` the ledger rows about the inbox, each with the inbox after it.
`heard`, `refused` and `released` are history variables.

- `Submit`, `Post`, `GiveUp`, `Deliver`, `Acknowledge` are `submitCompactAware` and `dispatch` of `submit.ts`, cut
  where they wait; `Reconnect` and `Replay` the reconnect loop with `resendPending`; `Check` is `checkCommand`.
- `Begin`, `Enqueue`, `Hand`, `Abandon`, `Recover`, `Complete` are `submit` of `methods/agnes.ts`, cut at its
  awaits; each access of the journal is one transaction of `command-journal.ts`. An input is recovered outside
  the queue, a withdrawal in it.
- `Work` is the append of `enqueue` or `removeQueuedInput` in the worker, `Return` its reply (for a steer with
  the read-back of `enqueueFollowUp`), `Reject` a refusal before the append. `InboxMoves` stands for turns that
  claim items and for others who queue some.
- `Drop`, `TimeOut`, `ClientRestart`, `WorkerCrash`, `DaemonCrash` are the failures. A command that was with the
  worker when the daemon died may still be carried out (`orphan`).

`AppliedOnce` exempts commands whose row was deleted although they had been carried out (`released`): by `gc`,
a day after the client acknowledged, and by `abandon`, see section 6.

`Mailbox` keeps what the client knows and what the session did, and nothing in between: a command is `kept` while
it is in the client's journal, `carried` out by its rows. A caller is told a row that carried the command out
or, after a recovery of an input, a later one; `AnswersShowEffect` says that this row still shows the effect.

## 3. Runs

| run | checks | bounds |
|---|---|---|
| writers | `TypeOK` `ChainIsLinear` `NoLostUpdate` `HolderIsUpToDate` `RefusedOnlyIfReplaced` `LogSpec` `ClaimsAreNotStolen` | 2 writers and the reclaimer's deletions, compare-and-set and claim appends, a turn begins, 2 rows, queue of 2, ttl 1, clock 2 |
| resume | `CrashedTurnIsPickedUp` | 1 writer, 2 runs of the reclaimer, turns begin and end, 2 rows, queue of 1, clock 2 |
| evidence | `TypeOK` `EvidenceWasHashed` `DamagedLedgerStaysShut` `DroppedCheckpointStays` `WaitersAreReleased` | tail of 1, 3 rows, 1 damage, 1 check, 1 failure |
| stacked | `TypeOK` `UnsafeRunsAlone` `LeaseHeldWhileWorking` `SuspensionsAreOwed` `NothingOutlivesItsCaller` `StopEndsTheBatch` | 8 calls, three levels, 2 in parallel |
| turn | `TypeOK` `IntentSpendsApproval` `UninterruptedTurnsAreSettled` `EffectSpec` `NoIntentAfterStop` `AnswersAreFinal` `UnknownIsAsked` `TurnsEnd` | 3 calls, 1 crash, any number of stops and continuations |
| tree | `TypeOK` `BooksBalance` `CapHolds` `BooksClose` `HoldsAreResolved` | a turn, a child, a grandchild, one call of each kind; cap 5 over cap 3, quotes 2, costs 1, 3 or unreported; 2 failures per call |
| target | `TypeOK` `AckedIsApplied` `TargetsAreLoadable` `FailedIsPutBack` | 1 package, 2 versions, 2 operations (enable or update; disable, rollback or untrust), 2 worker starts, 1 frame in flight, 1 worker death or daemon crash |
| submit | `TypeOK` `AppliedOnce` `AnswersAgree` `NothingIsForgotten` | 1 command, 2 calls at a time, 3 rows; any number of retries, drops and crashes |
| retry, crossed, stop, unsettled | one property each, violated: see section 6 | smallest instance that shows it |

Why the bounds are enough to be interesting. With two runs, ttl 1 and a clock that goes on to 2, a
writer sleeps past its lease, is replaced, wakes up with a commit in flight and an append queued
behind it, in all orders with the listing and deleting of the reclaimer. The resuming half of
the reclaimer is in `resume`, with two runs it may mint: the first one lets go of the session, a writer that slept takes it
back with a commit that was under way, crashes, and has to be picked up again. Tail 1 with three rows gives an open that hashes a tail and one that
trusts a checkpoint below it; one damaged row suffices, as the first one found seals the log. The tree of
`stacked` has an unsafe call below a safe one, one below a safe one below a safe one, an unsafe
one below an unsafe one and one in the other branch of the batch, with an unsafe call of the batch
behind them. The three calls of `turn` are a guarded workspace mutation, which runs alone, then a
safe read and a Host mutation, which overlap: every path of dispatch and recovery has a call that
takes it, and the guarded call's park meets siblings that have not started. An attempt is the first or
the second by the code; one crash is enough for every recovery from every state of the batch.

In `tree` two quotes fit under the root's cap and a third only after a call settled below its quote;
a cost of 3 overruns its quote; the child's own cap binds before the root's; two failures let a
settlement fail and its reconciliation fail as well.

In `target` the second operation undoes or overtakes the first, so that targets are derived from a base
that is published over, probed while trust is withdrawn, published while an older one fails, and put
back while the next one waits for the lane; a second start of the worker brings reports of the first
one's generation, and one fault covers every recovery of the daemon. Packages do not interact in the
store, so one suffices.

In `submit` two calls of one command are enough for a replay beside a late dispatch, a check beside either and a
recovery beside a completion; what different commands do to each other they do through the queue, which the
second call also passes, and through the inbox, which `InboxMoves` changes. Three rows let an input be queued
twice and claimed, and an item be queued, withdrawn and asked for once more.

`writers` takes the runs as symmetric, `submit` the calls. The runs do not check for deadlock, because every one of these
systems may stop for good: all logs are gone, or the batch is over.

### Fairness

- `SessionLedger!Fairness`: the clock moves on; the reclaimer's interval fires again and goes through
  with its pass; an open that took the claim reads its history. Writers, and storage's answers to
  them, get none: the crashed turn must be picked up whatever they do.
- `HistoryVerification!Fairness`: awaits end. Storage reads are raced with timeouts and the abort
  signal, the continuations run, the queue of checkpoint writes moves on. Appends, checks, opens and
  closes are not fair.
- `NestedTools!Fairness`: a tool's callback returns (the kernel's timeout and the abort end it), what
  an await waits for is taken up, and a signal that is aborted reaches whoever listens to it. Starting
  calls is not fair, nor is cancelling one that nobody stops.
- `ToolTurn!FairSpec`: the session's own steps, in the calls and between them, and the deadlines of
  decisions (`expiresAt`, checked by a timer). A wait for a tool ends with its timeout, which
  is a step of the call. Nothing makes a person answer, an attempt act, a Stop arrive or a
  crashed session be opened again; `TurnsEnd` allows for a crash.
- `TreeBudget!FairSpec`: a call that is under way goes on. Providers' answers end by their timeout or
  the abort, store calls end, the caller's code continues. Failures and delegation get no fairness.

## 4. What is proved

`SessionLedgerProofs`, from `ConstantsAssumption` (any finite or infinite set of runs, any ttl and
bounds): `TypeCorrect`, `ChainStaysLinear`, `ViewsStayPrefixes`, and `LedgerIsAppendLog`, that the
ledger implements `AppendLog`. The inductive invariant is `Typed /\ Chained`. That the chain is
linear is not inductive by itself: a stale log may send a row chained to an old digest at any time.
What keeps it out is that a call in flight carries the digest of exactly the rows before its own
seq, whenever storage still accepts that seq; and that follows from every view being a prefix.

Its second half is about leases, on top of that invariant: `NoUpdateIsLost`, `HolderStaysUpToDate`,
`OnlyReplacedAreRefused`, `NoClaimIsStolen`. The strengthening, `Lease`, says of storage that the
claim in the table is that of the last holder, that the cell's seq is that of the last row that wrote
it, and that a pass began in the past; and of each run (`RunOK`) that a log which knows the last row
knows the cells (`CellsAreCurrent`), also once it takes the answer on its way (`AnswerIsCurrent`), and
that the last holder knows every row as long as it may still write (`HolderSawAll`). The last one
needs "may still write" to include a batch in flight of a log that a failed renewal sealed after it
was sent: storage may accept that batch, on the strength of the claim alone (`GrantedSawAll`). Every
step is the step of one run, so the others are dealt with once: whoever adds a row has taken the claim
from them, and a log that is behind promises nothing about the cells (`RunFrame`).

`HistoryVerificationProofs`, from `BoundsAssumption`: `TypeCorrect`, `EvidenceIsSound`,
`DamagedStaysShut`, `DroppedStays`, `FoundDamageIsRecorded`, `CheckpointsMoveForward`. The invariant has five parts. `Covered`
relates progress to `hashed`: a log that is done has hashed everything it holds, a scan everything up to its
position and, together with what was appended, everything past its cut. `Verified` says this of
what leaves the process: attesting rows, the stored checkpoint, and the checkpoint writes that are
still queued. `Shut` follows a seal from the moment it is chained until the failure row is stored:
the log that chained it is sealed, nothing is queued behind a seal, and so no write of a head can
land after the deletion. `DamageIsRecorded` is the other direction: damage that a log knows of is stored or
has its seal in the queue as long as no storage call failed, so a log that closes in order leaves none
unrecorded (`CloseRecordsDamage`). `Ordered` says that the checkpoint, the queued writes and the log's head cover
rows that exist, each no fewer than the one before it: hence a checkpoint never moves back but to be
dropped (`CheckpointNeverMovesBack`), although writes of scans, appends and the close are chained independently.

`NestedToolsProofs`, from `TreeAssumption` (any finite tree of calls, any mix of safe and unsafe
ones): `TypeCorrect`, `UnsafeIsAlone`, `NothingOutlives`, `SuspensionsStayOwed`, `LeaseStaysHeld`. `Safety` holds
unconditionally: unsafe leases are alone, suspensions are paid for, what is queued is a sibling, and
a returning call has suspended. The exact count of suspensions holds as long as `release` has not
failed, because after that leases stay suspended for good (section 6); the theorem says so.
`AfterIsRest` says that what `pump` admits is exactly the head of the queue it removes. `Held` says
where the lease of a call that works may be: with it, suspended, or asked for again by an unsafe call
below that does not return before it is back; a call without a lease of its own is below an unsafe
call with one (`OwnerAbove`), which nobody can suspend. Two consequences speak of the calls instead of
the leases. `UnsafeExcludes` (`UnsafeWorksAlone`): beside an admitted unsafe call only what it invoked works, until
`release` has failed. `BatchStaysInOrder` (`BatchInOrder`), without that condition: the calls of the batch begin in
order, an unsafe one by itself, no more than `MaxParallel` at a time. It is inductive beside `Inv`: only
`StartRoot` and `SkipRoot` take a call of the batch from `new`, and nothing takes one back (`BatchStays`).

`ToolTurnProofs`, from `CallsAssumption` (any batch of calls, of any kinds, any number of crashes):
`TypeCorrect`, `AnswersStayFinal`, `ApprovalIsSpentOnce`, `StopBeatsApproval`,
`TurnsEndSettled`, `NobodyIsPassedOver`. None of these is inductive. The invariant `Inv` is a conjunction per call, so a step of one call needs to be
followed for that call only (`SameKeeps` covers the others). `Placed` ties `pc` to the ledger: a call
before its intent is planned or approved there, one past it is pending or dispatched. `Untouched` and
`Owed` say that a call without an intent has nothing written about it, and that an open effect is
unanswered and unsettled; so whoever answers is the first. `Gated` ties an intent to its approval.
`Listed` keeps the recovery's worklist within what is open. `Sent` and `Truthful` relate the world to
the ledger: which attempts may be alive or have acted, given what the ledger and the batch say of the
call (before an attempt is made nothing of it is alive; a second attempt of anything but a safe read
is only made after a first that is known to have done nothing). The last two theorems are about turns
without a crash and need `SmoothInv` beside `Inv`: an effect is open only while its call is
dispatching in a running batch; a call without a result is held by the batch or waits for its
approval; a batch leaves a call behind only if it parks, fails or is stopped; and one that leaves an
outcome nobody was asked about is bound to park or to be drained. A step of one call is `Steady` for
the others: it never takes back that the batch parks or failed.

`ToolTurnEffects`, from the same assumption: `EffectsOnce`, that `ToolTurn` implements `EffectOnce`.
The intent of a call maps to `Start`, an attempt that acts to `Act`, and every other step to `Tell` or a
stutter: `CallTells`, `TurnTells` and `OutsideTells` show of each what it makes of a call's stage.

`TreeBudgetProofs`, from `TreeAssumption` and `CallAssumption` (any tree of tasks and caps, any finite set of
calls, any quotes and costs): `TypeCorrect`, `BooksAlwaysBalance`, `CapsHold`,
`BooksAlwaysClose`. The columns are related to sums over calls, written as cardinalities of sets of
units, so that a step of one call adds or removes the units of that call (`UnitsAdd`, `UnitsRemove`)
without induction. That the columns equal their sums is not inductive by itself. `Scopes` says that
a call holds nothing before its task has scopes, so a new child brings no charge with it; `Binding` relates
a reservation's status to its origin; `LiveSpends` gives every task that may start a call its scopes; and `Stages` says for
each place of a caller what the store knows of its call, which is why no settlement is refused.

`BooksAreKept`, from the same assumptions: `TreeBudget` implements `BudgetTree`. Given that the columns balance, what
a scope has settled and holds is its load in `BudgetTree`, so `fitsCap` admits exactly what `HasRoom` does. Each action
changes the fate of at most one call, along `new`, `open`, `paid` or `freed`: that a
repeated settlement, a late release or a crash is a stutter is what `Binding` and `Stages` are needed for.

`RuntimeTargetProofs`, from `BoundAssumption` (any packages and operations, any bounds): `TypeCorrect`,
`AckedIsAppliedAlways`, `TargetsAreLoadableAlways`, `OthersAreAlwaysKept`, `FailedIsPutBackAlways`, each from an
invariant of its own.
A daemon that crashed counts its workers from one again, so the generation in a stored confirmation may
be the new worker's; `AckInv` keeps it true because a confirmation names the desired target, which is
the last good one as well (`AckIsDesired`), and that is what the next worker boots from (`AckIsBooted`). `LoadInv` says
that an operation between its probe and its publication keeps the lane (`InLane`), so neither a
collection nor a revocation comes between, and keeps apart what is trusted from what an operation is
about to withdraw (`Trusted`). On top of it, `Drafts` follows a target from its derivation to its publication: outside
the operation's package it equals its base, and once it is in the lane its base is the desired target, because
everything else that moves that target needs the lane, a free lane or a daemon that does not serve
(`LaneKeepsDesired`). So no publication loses another one (`OthersAreKept`). Rollbacks replay the previous target as
a whole and are excepted from its second half. `PutBackInv` says what the reverter knows at the end of its await
(`ReadIsCurrent`): either another run is wanted, or the failure is over, or what it read can still be
loaded, as pins come and go but never those of the previous target (`Pinned`); and that before the
daemon looked at what failed in its earlier life nobody else can be waiting for it (`QuietBeforeStart`).

`CommandSubmissionProofs`, for any commands, calls and rows: `TypeCorrect`, `CommandsApplyOnce`,
`AnswersStayAgreed`, `NothingGetsForgotten`. The invariant is a conjunction per command (`CommandInv`). `Once`: as long as
the command's row was not deleted too early, one call at a time dispatches it, that call has opened a row, and
nothing was carried out while it is on its way. `Truth` and `Agreed`: a success that was told, or is on its way, or
is in the receipt, has a row in the ledger, and all of them are the receipt, which is why a late `complete` has to
compare. `Unsent`: a command the client has no record of was never sent. `Refused`: what a refused withdrawal
asked for is out of the inbox and does not come back, as items are named by their rows. A step about one
command leaves every other's calls alone (`Harmless`, `Frame`), and a step that writes no row and no receipt
needs to be looked at only for what it does to its own call (`Quiet`).

`CommandsAreMailed`: `CommandSubmission` implements `Mailbox`. Besides `Inv` it takes two invariants. `Acknowledged`: a row
that `gc` may delete is complete. `Shown`: a row that a receipt, a call on its way or a caller names shows the
command's effect. It gives `AnswersShow` at once; that no row shows an effect before one carried the command out
(`m <= n` in `Tell`) follows from `InboxesAreRows`, as an inbox holds only items of rows up to its own.
Appends carry out, answers tell, a refusal refuses, `abandon` and `gc` of a row release; dropped connections, time-outs,
replays and crashes are stutters, which is the point.

`BooksSpec`, `BoxSpec`, `AnswersShowEffect`, `UnsafeWorksAlone`, `BatchInOrder`, `DamageIsRecorded`, `CloseRecordsDamage`,
`CheckpointIsOfRows`, `CheckpointNeverMovesBack` and `OthersAreKept` are in no run's list, as their theorems cover
every instance. TLC agreed with each of them on the instance of the component's run (for the two refinements with
`Nat` cut down to a range, as the abstract modules quantify over it; for `OthersAreKept` also with two packages and
one worker start).

Not proved, only model-checked: everything temporal under fairness (`CrashedTurnIsPickedUp`,
`WaitersAreReleased`, `StopEndsTheBatch`, `TurnsEnd`, `HoldsAreResolved`), which is beyond the prover.

## 5. What is not modelled

- Session ledger: blobs, forks and the children of a live parent, `discardNewSession`, projections,
  the in-memory storage of the tests.
- History verification: removed tail rows, the `rehashPrefix` option (tests), an unreadable
  checkpoint row, forks of a history that is being verified.
- Nested tools: a handle used after its call ended is refused, which changes nothing here.
- Tool turn: nested calls (their admission is `NestedTools`), deferred jobs, receipts of queued
  input that interrupt a batch, permanent and session-wide grants, the close of a session and the loop
  deadline (which pull the signal without a Stop), a Stop whose write is refused, child sessions,
  parks for a changed policy, the limit on continuations and the check of their history.
- Tree budget: takeover of a root by another writer (`takeover`, `bumpWriterGeneration`: nothing outside
  the tests calls them, so a writer's generation never changes), admissions of auxiliary vision calls
  (declared, never minted), a reservation that is replayed under its effect id, forks.
- Runtime target: removal of a package, a configuration applied to the worker before it is published
  (`apply` of the coordinator), failure marks of packages, quarantine and back-off of starts, orphaned
  pins that an administrator releases, publication of child engines and default helpers.
- Command submission: `sendNow`, `control`, `editQueued`, `compact`, `undo`, `fork`, `setToolFilter` and jobs, which
  share the journal and the queue but recover each in its own way; a command id that is used again with other
  contents (`ID_CONFLICT`), corrupt rows, the owner and generation guards; several sessions and clients, whose
  rows are apart; `resendPending` stops at an error of the journal itself.
- The components `PROJECT.json` lists as not modelled, with the reason.

## 6. Where code and comments disagree

Four runs end in a counterexample, each a finding in `PROJECT.json`:

- **retry**: a resume that fails after its open took the claim deletes the claim; no later pass can list
  the session, whose turn stays open until a client opens it.
- **crossed**: an unsafe call below one safe call and a safe call below another wait for each other,
  until a timeout or a stop.
- **stop**: a Stop recorded while the step of a batch is verified is overwritten by the step's write,
  whose `op.state` was read before; only the pulled signal remembers it, and a crash forgets that.
- **unsettled**: a recovery that has to ask whether a mutation happened closes the turn at once. Calls
  of the batch that had not started get no result, effects not yet looked at no settlement.

Remarks that are not runs:

- An unsafe call may suspend a lease that was given back and is still queued behind another unsafe
  call (`scheduler.ts:235`). The assertion in `release` then fails outside the try block, and the leases suspended
  so far stay so. `NeverThrows` says it does not happen, which is true of the tree of `stacked` only.
- A second attempt of a Host call keeps the `not_sent` of the first one on the ledger; a Stop and a
  crash later, recovery answers that the call was cancelled before dispatch (`tools.ts:1406`).
- `leaseRemainingMs` is advisory and can report more than the stored deadline leaves, because its clock
  starts after storage computed the deadline.
- Recovery commits an unknown result before it asks about it (`resume.ts:508-535`): a second crash in
  between leaves an unknown outcome nobody is asked about, which is why `UnknownIsAsked` speaks of turns
  without a crash.
- A reservation whose answer is lost, and the hold of a call that died with its process, count against
  their scopes for good. That errs on the side of the cap, and `HoldsAreResolved` allows for it.
- `packageStopped` is documented as "nothing of this package runs or is about to", but takes a worker that
  is starting for no worker (`businessWorker()` is undefined until its admission), although it mounts the last
  good target, which may hold the package. `dormant` asks `workerStarting` as well.
- `reconcile` delivers its target once more after an await (`composite-target-activation.ts:357`). The slot
  takes the latest offer for the newest target, so a worker may go on to a target that was published over,
  even one with a package whose trust was withdrawn meanwhile, while the store still shows the desired one as
  confirmed; only the next publication offers it again. `AckedIsApplied` therefore says "applied", not "runs".
- The source of a boot is given to the worker when it is spawned and chosen again when it says hello; if it
  changed in between, `boot_ready` never matches, and the start that times out may blame a target that was applied.
- The reverter compares only digests after it read the inventory (`composite-target-revert.ts:41`), so a
  target that was confirmed meanwhile is put back as well.
- A rollback that is resumed after a crash between its publication and its completion reads `previous`
  again and publishes what it had rolled away from.
- Publishing the desired target once more makes it its own `previous`: if it fails, there is nothing to put back.

- The journal of commands is called "exactly-once" (`command-journal.ts:51`), and `docs/reference/api.md:58` says to
  "reuse the same command ID when retrying an unknown outcome". `submit` releases the row whenever `dispatch`
  throws (`agnes.ts:1900-1905`), also when the worker died between its append and its reply, or when
  `enqueueFollowUp` cannot read a steer's row back after it was appended (`follow-up-runner.ts:17`). The replay of
  that command finds no row and is carried out again: the input is queued twice, or the client is told that what it
  withdrew is gone. Hence `released` in `AppliedOnce` and `NothingIsForgotten`.
- A recovered input is answered with the newest inbox row that still has the item, not with the row that queued
  it. If the first dispatch is still on its way, its own `complete` then fails with a receipt conflict although
  the command was carried out.
- A replay that fails after another call of the same command has succeeded puts the command back into the client's
  journal as one that needs confirmation.

## 7. Plan

Built so far, in this order: the ledger and its reclaimer, history verification, nested admission,
the tool turn, the tree budget, the publication of runtime targets, command submission. Next:

1. `ChildTask` (`core/src/child`): the life of a delegated task, its control rows and its report to the
   caller, on top of `TreeBudget`'s scopes.
2. The other kinds of commands, under `Mailbox`'s promises.
3. Then: the turn machine's inference phases and queued input, the package store's journal, removal of
   packages, jobs and schedules, the skill journal, forks and discarded sessions.
