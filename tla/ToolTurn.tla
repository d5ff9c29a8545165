------------------------------ MODULE ToolTurn ------------------------------
(***************************************************************************)
(* The tool phase of a turn: the calls of one batch from their admission   *)
(* to their answer, with approvals, a Stop, a crash and the recovery.      *)
(*                                                                         *)
(* A call that needs approval asks a person.  Its effect begins with an    *)
(* intent on the ledger and ends with a settlement; what the model reads   *)
(* is the call's result.  An attempt of a call may act on the world at any *)
(* time while it lives, and it lives on when the kernel stops waiting.     *)
(* A change of a mutation nobody saw the end of is never replayed: a       *)
(* person is asked whether it happened.  A turn that waits for a person    *)
(* closes ("parked") and a continuation turn goes on.                      *)
(*                                                                         *)
(* The ledger survives a crash, memory does not, and the world goes on.    *)
(***************************************************************************)
EXTENDS Naturals, FiniteSets

CONSTANTS
  Call,         \* the calls of the batch, by ordinal
  Mutation,     \* destructive, not read-only, or replay "never"
  SafeRead,     \* read-only, not destructive, replay "safe"
  Host,         \* executionDomain host-computer-use; the others are workspace
  Guarded,      \* needs an approval
  Safe,         \* isConcurrencySafe
  MaxCrashes

ASSUME CallsAssumption ==
  /\ Call \subseteq Nat
  /\ Mutation \subseteq Call /\ SafeRead \subseteq Call \ Mutation
  /\ Host \subseteq Call /\ Guarded \subseteq Call /\ Safe \subseteq Call
  /\ MaxCrashes \in Nat

VARIABLES
  phase,      \* op.state: the tool batch, the checkpoint after it, or no turn
  control,    \* op.state: a cancel was requested
  call,       \* op.state: the calls of the batch
  pending,    \* effects with an intent and no settlement
  answer,     \* the tool/result of each call
  outcome,    \* the settlement of each call's effect
  decision,   \* the approval of each call
  question,   \* "did it happen?", per call
  proc,       \* what the session does
  signal,     \* how far a Stop is: the scope revoked, recorded, the signal pulled
  failed,     \* a call of the batch threw
  pc,         \* how far each call of the batch is
  seen,       \* what ended the wait for each call
  parked,     \* a call parks the turn
  skipped,    \* calls the parked batch did not start
  control0,   \* op.control, as read before the step is verified
  todo,       \* effects the recovery has not looked at
  live,       \* the attempts of each call that may still act on the world
  acted,      \* the attempts that did
  crashes,
  unasked     \* history: calls that went out and failed before their question

turn == <<phase, control, call>>
rows == <<pending, answer, outcome>>
gates == <<decision, question>>
batch == <<failed, pc, seen, parked, skipped, control0>>
memory == <<proc, signal, todo, batch>>
world == <<live, acted>>
past == <<crashes, unasked>>
vars == <<turn, rows, gates, memory, world, past>>

-----------------------------------------------------------------------------
(* Values.                                                                 *)

Attempt == {1, 2}

NoCall == [status |-> "none", attempt |-> 0, sent |-> "none"]
State(status) == [NoCall EXCEPT !.status = status]
Dispatch(status, attempt, sent) ==
  [status |-> status, attempt |-> attempt, sent |-> sent]

CallState ==
  {State(s) : s \in {"none", "planned", "approved", "completed"}}
    \cup {Dispatch("dispatch_pending", a, s) : a \in Attempt, s \in {"none", "not_sent"}}
    \cup {Dispatch("dispatched", a, "may_have_sent") : a \in Attempt}

\* What the model is told: the call's own result or error; that it did not
\* run; that it was dispatched to no effect; that recovery found it cancelled before
\* its dispatch, on the word of its first attempt, or of the first when it was in its
\* second; that it stopped, perhaps halfway; that it was cut off; that nobody knows.
\* The last is a broken ledger.
Answer == {"none", "result", "not_run", "no_effect", "recalled", "recalled_retry", "stopped",
           "cut", "unknown", "twice"}
Outcome == {"none", "known", "unknown", "twice"}

\* asked, answered, closed, or consumed by the effect's intent
Decision == {"none", "open", "allowed", "rejected", "closed", "spent"}
Question == {"none", "open", "answered", "closed"}

Pc == {"idle", "gate", "asked", "ready", "committing", "cancelling",
       "withdrawing", "loop", "running", "unsent", "record", "settle", "hook", "asking", "done"}

TypeOK ==
  /\ phase \in {"tools", "checkpoint", "none"} /\ control \in {"none", "cancel"}
  /\ call \in [Call -> CallState]
  /\ pending \subseteq Call
  /\ answer \in [Call -> Answer] /\ outcome \in [Call -> Outcome]
  /\ decision \in [Call -> Decision] /\ question \in [Call -> Question]
  /\ proc \in {"down", "recovering", "resting", "batch", "verifying", "aborting", "closing"}
  /\ signal \in {"none", "stopping", "recorded", "aborted"} /\ failed \in BOOLEAN /\ parked \in BOOLEAN
  /\ pc \in [Call -> Pc]
  /\ seen \in [Call -> {"none", "result", "threw", "timeout", "cut"}]
  /\ skipped \subseteq Call /\ todo \subseteq Call
  /\ control0 \in {"none", "cancel"}
  /\ live \in [Call -> SUBSET Attempt] /\ acted \in [Call -> SUBSET Attempt]
  /\ crashes \in Nat /\ unasked \subseteq Call

Init ==
  /\ phase = "tools" /\ control = "none"
  /\ call = [c \in Call |-> State("planned")]
  /\ pending = {}
  /\ answer = [c \in Call |-> "none"] /\ outcome = [c \in Call |-> "none"]
  /\ decision = [c \in Call |-> "none"] /\ question = [c \in Call |-> "none"]
  /\ proc = "resting" /\ signal = "none" /\ todo = {}
  /\ failed = FALSE /\ parked = FALSE /\ skipped = {} /\ control0 = "none"
  /\ pc = [c \in Call |-> "done"] /\ seen = [c \in Call |-> "none"]
  /\ live = [c \in Call |-> {}] /\ acted = [c \in Call |-> {}]
  /\ crashes = 0 /\ unasked = {}

-----------------------------------------------------------------------------
(* What the actions write.                                                 *)

InBatch(c) == call[c] # NoCall
PreDispatch(c) == call[c].status \in {"planned", "approved"}
HasIntent(c) == c \in pending \/ outcome[c] # "none"

\* What a call's abort signal shows: the session's, or the batch's own.
Aborted == signal = "aborted" \/ failed

\* `stopped` of unknownOutcomeRows: recorded, delivered, or its scope revoked.
Stopped == control = "cancel" \/ signal # "none"

At(c, p) == proc = "batch" /\ pc[c] = p
Goto(c, p) == pc' = [pc EXCEPT ![c] = p]

Put(c, state) == call' = [call EXCEPT ![c] = state]

\* A second result or settlement of a call stays visible.
First(old, new) == IF old = "none" THEN new ELSE "twice"
Say(c, code) == answer' = [answer EXCEPT ![c] = First(@, code)]
SayAll(S, code) == [c \in Call |-> IF c \in S THEN First(answer[c], code[c]) ELSE answer[c]]

Settle(c, o) ==
  /\ pending' = pending \ {c}
  /\ outcome' = [outcome EXCEPT ![c] = First(@, o)]

\* refuse: a result and no effect.
Refuse(c, code) ==
  /\ Say(c, code) /\ Put(c, State("completed")) /\ Goto(c, "done")
  /\ UNCHANGED <<pending, outcome>>

\* settleSyntheticDispatch, and the commit of an ordinary result.
Finish(c, code, o) ==
  /\ Say(c, code) /\ Settle(c, o) /\ Put(c, State("completed")) /\ Goto(c, "done")
  /\ seen' = [seen EXCEPT ![c] = "none"]

\* settledDecisionEvents: a refusal consumes the answer it acts on.
Consume(c) ==
  decision' = [decision EXCEPT ![c] = IF @ \in {"allowed", "rejected"} THEN "closed" ELSE @]

\* Mutant: what an intent has consumed is closed with the rest.
CloseGatesAll ==
  /\ decision' = [c \in Call |-> IF decision[c] = "none" THEN "none" ELSE "closed"]
  /\ question' = [c \in Call |-> IF question[c] = "none" THEN "none" ELSE "closed"]

\* stoppedEvents: a cancel closes what is asked or not yet consumed.
CloseGates ==
  /\ decision' = [c \in Call |-> IF decision[c] \in {"open", "allowed", "rejected"}
                                   THEN "closed" ELSE decision[c]]
  /\ question' = [c \in Call |-> IF question[c] \in {"open", "answered"}
                                   THEN "closed" ELSE question[c]]

\* The next run takes a new signal; a Stop not yet recorded goes on.
EndTurn ==
  /\ phase' = "none" /\ control' = "none"
  /\ call' = [c \in Call |-> NoCall]

EndRun ==
  /\ proc' = "resting"
  /\ signal' = IF signal = "stopping" THEN "stopping" ELSE "none"

\* What a batch knows beside the ledger, when there is none.
Forget ==
  /\ failed' = FALSE /\ parked' = FALSE /\ skipped' = {} /\ control0' = "none"
  /\ pc' = [c \in Call |-> "done"] /\ seen' = [c \in Call |-> "none"]

StillBatch == UNCHANGED <<phase, control, proc, signal, todo, control0, past>>

-----------------------------------------------------------------------------
(* The batch: scheduleBatch and the dispatch of runToolsPhase.             *)

StartBatch ==
  /\ proc = "resting" /\ phase = "tools" /\ control = "none" /\ signal # "aborted"
  /\ proc' = "batch" /\ failed' = FALSE /\ parked' = FALSE /\ skipped' = {}
  /\ pc' = [c \in Call |->
              IF InBatch(c) /\ call[c].status # "completed" THEN "idle" ELSE "done"]
  /\ seen' = [c \in Call |-> "none"]
  /\ UNCHANGED <<turn, rows, gates, signal, control0, todo, world, past>>

\* Safe calls overlap, an unsafe one is a barrier.
Turn(c) ==
  /\ At(c, "idle")
  /\ \A d \in Call : d < c =>
       pc[d] = "done" \/ (pc[d] # "idle" /\ {c, d} \subseteq Safe)

Skip(c) ==
  /\ Turn(c) /\ Aborted
  /\ Goto(c, "done")
  /\ UNCHANGED <<call, rows, gates, failed, seen, parked, skipped, world>> /\ StillBatch

\* A call that had its intent before a crash begins again with the batch, at
\* once, and not after a park: as many begin at a time as before.
SkipParked(c) ==
  /\ Turn(c) /\ ~Aborted /\ parked /\ PreDispatch(c)
  /\ Goto(c, "done") /\ skipped' = skipped \cup {c}
  /\ UNCHANGED <<call, rows, gates, failed, seen, parked, world>> /\ StillBatch

\* A call that recovery moved to its second attempt passes no gate again.
Begin(c) ==
  /\ Turn(c) /\ ~Aborted /\ (parked => ~PreDispatch(c))
  /\ Goto(c, IF PreDispatch(c) THEN "gate" ELSE "loop")
  /\ UNCHANGED <<call, rows, gates, failed, seen, parked, skipped, world>> /\ StillBatch

\* The Host's port is gone: a recovered dispatch settles as not sent.
BeginUnavailable(c) ==
  /\ Turn(c) /\ ~Aborted /\ c \in Host /\ ~PreDispatch(c)
  /\ Finish(c, "no_effect", "known")
  /\ UNCHANGED <<gates, failed, parked, skipped, world>> /\ StillBatch

-----------------------------------------------------------------------------
(* Admission: approveAndExecute up to the intent.                          *)

\* A hook, an authorization or a policy says no.
Deny(c) ==
  /\ At(c, "gate")
  /\ Refuse(c, "not_run")
  /\ UNCHANGED <<gates, failed, seen, parked, skipped, world>> /\ StillBatch

\* An abort is answered in two commits, which withdraw an approval in hand.
CancelEarly(c) ==
  /\ Aborted
  /\ \/ At(c, "gate") /\ Goto(c, "cancelling")
     \/ At(c, "ready") /\ Goto(c, "withdrawing")
  /\ Put(c, State("approved"))
  /\ UNCHANGED <<rows, gates, failed, seen, parked, skipped, world>> /\ StillBatch

RefuseCancelled(c) ==
  /\ \/ At(c, "cancelling") /\ UNCHANGED decision
     \/ At(c, "withdrawing") /\ Consume(c)
  /\ Refuse(c, "not_run")
  /\ UNCHANGED <<question, failed, seen, parked, skipped, world>> /\ StillBatch

\* The approval is asked, or was asked before the turn parked.
Ask(c) ==
  /\ At(c, "gate") /\ c \in Guarded /\ decision[c] \in {"none", "open"}
  /\ ~Stopped
  /\ decision' = [decision EXCEPT ![c] = "open"] /\ Goto(c, "asked")
  /\ UNCHANGED <<call, rows, question, failed, seen, parked, skipped, world>> /\ StillBatch

\* An answer on the ledger, from before or to the request under way.
Approved(c) ==
  /\ At(c, "gate") \/ (At(c, "asked") /\ ~Aborted)
  /\ c \in Guarded => decision[c] = "allowed"
  /\ Goto(c, "ready")
  /\ UNCHANGED <<call, rows, gates, failed, seen, parked, skipped, world>> /\ StillBatch

Rejected(c) ==
  /\ At(c, "gate") \/ (At(c, "asked") /\ ~Aborted)
  /\ decision[c] \in {"rejected", "closed"}
  /\ Refuse(c, "not_run") /\ Consume(c)
  /\ UNCHANGED <<question, failed, seen, parked, skipped, world>> /\ StillBatch

\* Nobody answers here: the request stays and the turn parks.
Park(c) ==
  /\ At(c, "asked") /\ decision[c] = "open" /\ ~Aborted
  /\ Goto(c, "done") /\ parked' = TRUE
  /\ UNCHANGED <<call, rows, gates, failed, seen, skipped, world>> /\ StillBatch

HostUnavailable(c) ==
  /\ At(c, "ready") /\ c \in Host
  /\ Refuse(c, "not_run") /\ Consume(c)
  /\ UNCHANGED <<question, failed, seen, parked, skipped, world>> /\ StillBatch

\* The last look at the signal before the intent is built.
Prepare(c) ==
  /\ At(c, "ready") /\ ~Aborted
  /\ Goto(c, "committing")
  /\ UNCHANGED <<call, rows, gates, failed, seen, parked, skipped, world>> /\ StillBatch

\* Mutant: the answer that was read is good enough.
MayConsumeAsRead(c) == TRUE

\* consumptionEvents and the recheck of the permission, inside the commit.
MayConsume(c) == decision[c] = "allowed" /\ ~Stopped

\* Approved, intent and, for a workspace call, dispatched are one commit.
Intent(c) ==
  /\ At(c, "committing") /\ PreDispatch(c)
  /\ c \in Guarded => MayConsume(c)
  /\ pending' = pending \cup {c}
  /\ decision' = [decision EXCEPT ![c] = IF c \in Guarded THEN "spent" ELSE @]
  /\ Put(c, IF c \in Host THEN Dispatch("dispatch_pending", 1, "none")
                          ELSE Dispatch("dispatched", 1, "may_have_sent"))
  /\ Goto(c, "loop")
  /\ UNCHANGED <<answer, outcome, question, failed, seen, parked, skipped, world>> /\ StillBatch

\* Mutant: the wait for a person does not end with the signal.
ThrowsButWaits(c) ==
  \/ At(c, "gate") /\ (Aborted \/ (c \in Guarded /\ Stopped))
  \/ At(c, "committing") /\ (~PreDispatch(c) \/ (c \in Guarded /\ ~MayConsume(c)))

\* What fails fails the batch: its other calls are aborted and awaited.
Throws(c) ==
  \/ At(c, "gate") /\ (Aborted \/ (c \in Guarded /\ Stopped))
  \/ At(c, "asked") /\ Aborted
  \/ At(c, "committing") /\ (~PreDispatch(c) \/ (c \in Guarded /\ ~MayConsume(c)))

Throw(c) ==
  /\ Throws(c)
  /\ failed' = TRUE /\ Goto(c, "done")
  /\ UNCHANGED <<call, rows, gates, seen, parked, skipped, world>> /\ StillBatch

-----------------------------------------------------------------------------
(* Dispatch: the attempts of a call that has its intent.                   *)

LoopCancelled(c) ==
  /\ At(c, "loop") /\ Aborted
  /\ Finish(c, "no_effect", "known")
  /\ UNCHANGED <<gates, failed, parked, skipped, world>> /\ StillBatch

\* A workspace call is on the ledger as dispatched before it runs.
Invoke(c) ==
  /\ At(c, "loop") /\ ~Aborted
  /\ Put(c, IF c \in Host THEN call[c]
                          ELSE Dispatch("dispatched", call[c].attempt, "may_have_sent"))
  /\ live' = [live EXCEPT ![c] = @ \cup {call[c].attempt}]
  /\ Goto(c, "running")
  /\ UNCHANGED <<rows, gates, failed, seen, parked, skipped, acted>> /\ StillBatch

\* A Host call is recorded as dispatched when its port has returned.
Observe(c, what) ==
  /\ seen' = [seen EXCEPT ![c] = what]
  /\ Goto(c, IF c \in Host THEN "record" ELSE "settle")
  /\ UNCHANGED <<call, rows, gates, failed, parked, skipped, acted>> /\ StillBatch

Over(c) == live' = [live EXCEPT ![c] = @ \ {call[c].attempt}]

Respond(c) == At(c, "running") /\ Observe(c, "result") /\ Over(c)
BodyThrows(c) == At(c, "running") /\ ~Aborted /\ Observe(c, "threw") /\ Over(c)
TimeOut(c) == At(c, "running") /\ Observe(c, "timeout") /\ UNCHANGED live
Cut(c) == At(c, "running") /\ Aborted /\ Observe(c, "cut") /\ UNCHANGED live

\* The tool or the preflight attests that nothing was done.
RejectBeforeEffect(c) ==
  /\ At(c, "running") /\ call[c].attempt \notin acted[c]
  /\ Over(c)
  /\ Finish(c, "no_effect", "known")
  /\ UNCHANGED <<gates, failed, parked, skipped, acted>> /\ StillBatch

\* The Host attests that no byte left: not_sent goes on the ledger.
Unsent(c) ==
  /\ At(c, "running") /\ c \in Host /\ call[c].attempt \notin acted[c]
  /\ Over(c)
  /\ Put(c, Dispatch("dispatch_pending", call[c].attempt, "not_sent"))
  /\ Goto(c, "unsent")
  /\ UNCHANGED <<rows, gates, failed, seen, parked, skipped, acted>> /\ StillBatch

GiveUpUnsent(c) ==
  /\ At(c, "unsent")
  /\ \/ call[c].attempt = 2 /\ Finish(c, "no_effect", "known")
     \/ call[c].attempt = 1 /\ Aborted /\ Finish(c, "no_effect", "known")
  /\ UNCHANGED <<gates, failed, parked, skipped, world>> /\ StillBatch

\* Mutant: retries are not counted.
RetryAgain(c) ==
  /\ At(c, "unsent") /\ ~Aborted
  /\ Put(c, Dispatch("dispatch_pending", call[c].attempt + 1, call[c].sent))
  /\ Goto(c, "loop")
  /\ UNCHANGED <<rows, gates, failed, seen, parked, skipped, world>> /\ StillBatch

\* The patch names no dispatch phase, and normalizedCallState keeps not_sent.
Retry(c) ==
  /\ At(c, "unsent") /\ call[c].attempt = 1 /\ ~Aborted
  /\ Put(c, Dispatch("dispatch_pending", 2, call[c].sent))
  /\ Goto(c, "loop")
  /\ UNCHANGED <<rows, gates, failed, seen, parked, skipped, world>> /\ StillBatch

HostRecord(c) ==
  /\ At(c, "record")
  /\ Put(c, Dispatch("dispatched", call[c].attempt, "may_have_sent"))
  /\ Goto(c, "settle")
  /\ UNCHANGED <<rows, gates, failed, seen, parked, skipped, world>> /\ StillBatch

-----------------------------------------------------------------------------
(* Settlement.                                                             *)

\* The result of a call, or the error of a call that changes nothing.
SettleResult(c) ==
  /\ At(c, "settle")
  /\ \/ /\ seen[c] = "result" \/ (seen[c] = "threw" /\ c \notin Mutation)
        /\ Finish(c, "result", "known")
     \/ seen[c] \in {"timeout", "cut"} /\ c \notin Mutation /\ Finish(c, "cut", "known")
  /\ UNCHANGED <<gates, failed, parked, skipped, world>> /\ StillBatch

\* A recorded Stop cut a workspace mutation, and it came to rest in time.
StoppedByRecord(c) ==
  /\ seen[c] = "cut" /\ c \notin Host /\ control = "cancel"
  /\ call[c].attempt \notin live[c]
SettleStopped(c) ==
  /\ At(c, "settle") /\ c \in Mutation
  /\ StoppedByRecord(c)
  /\ Finish(c, "stopped", "known")
  /\ UNCHANGED <<gates, failed, parked, skipped, world>> /\ StillBatch

\* Nobody saw the outcome of a mutation, or its rest in time.
Unseen(c) == At(c, "settle") /\ c \in Mutation /\ seen[c] # "result"

AskHook(c) ==
  /\ Unseen(c) /\ ~Stopped
  /\ Goto(c, "hook")
  /\ UNCHANGED <<call, rows, gates, failed, seen, parked, skipped, world>> /\ StillBatch

\* The approval_request hook fails closed, and what it throws, or the Stop that cuts it,
\* is not caught: the call fails although it went out.
HookThrows(c) ==
  /\ At(c, "hook")
  /\ failed' = TRUE /\ Goto(c, "done") /\ unasked' = unasked \cup {c}
  /\ UNCHANGED <<turn, rows, gates, proc, signal, todo, seen, parked, skipped, control0, world,
                 crashes>>

AskOutcome(c) ==
  /\ At(c, "hook") /\ ~Stopped
  /\ question' = [question EXCEPT ![c] = IF @ = "none" THEN "open" ELSE @]
  /\ Goto(c, "asking")
  /\ UNCHANGED <<call, rows, decision, failed, seen, parked, skipped, world>> /\ StillBatch

\* Mutant: the unknown outcome is settled and the turn goes on.
SettleUnknownQuietly(c) ==
  /\ Unseen(c)
  /\ Finish(c, "unknown", "unknown")
  /\ UNCHANGED <<gates, failed, parked, skipped, world>> /\ StillBatch

\* The answer is consumed with the settlement, or the turn parks on it.
SettleUnknown(c) ==
  /\ \/ /\ Unseen(c) \/ At(c, "hook")
        /\ Stopped
        /\ parked' = TRUE /\ UNCHANGED question
     \/ /\ At(c, "asking") /\ question[c] = "answered"
        /\ question' = [question EXCEPT ![c] = "closed"] /\ UNCHANGED parked
     \/ /\ At(c, "asking") /\ question[c] # "answered"
        /\ question' = [question EXCEPT ![c] = IF Stopped THEN "closed" ELSE @]
        /\ parked' = TRUE
  /\ Finish(c, "unknown", "unknown")
  /\ UNCHANGED <<decision, failed, skipped, world>> /\ StillBatch

-----------------------------------------------------------------------------
(* The end of the batch.                                                   *)

\* Mutant: a closing turn does not look for results.
UnansweredAll == Call

BatchOver == proc = "batch" /\ \A c \in Call : pc[c] = "done"
MustPark == parked \/ \E c \in Call : InBatch(c) /\ question[c] = "open"

\* Calls without a result on the ledger.
Unanswered == {c \in Call : answer[c] = "none"}

\* closeInterrupted: what is open is settled, the calls are answered, and the
\* turn ends, in one commit.
CloseInterrupted ==
  /\ answer' = SayAll({c \in Unanswered : InBatch(c) \/ c \in pending},
                      [c \in Call |-> IF InBatch(c) /\ PreDispatch(c) THEN "not_run"
                                                                     ELSE "unknown"])
  /\ outcome' = [c \in Call |-> IF c \in pending THEN First(outcome[c], "unknown") ELSE outcome[c]]
  /\ pending' = {} /\ unasked' = {}
  /\ EndTurn

\* A step that threw closes the turn, as a stop when the signal is pulled.
EndThrown ==
  /\ BatchOver /\ failed
  /\ IF signal = "aborted"
       THEN proc' = "aborting" /\ UNCHANGED <<turn, rows, signal, unasked>>
       ELSE CloseInterrupted /\ EndRun
  /\ Forget
  /\ UNCHANGED <<gates, todo, world, crashes>>

\* Mutant: the turn closes around what it waits for.
EndParkedAlone ==
  /\ BatchOver /\ ~failed /\ MustPark /\ signal # "aborted"
  /\ EndTurn /\ EndRun
  /\ Forget
  /\ UNCHANGED <<answer, pending, outcome, gates, todo, world, past>>

\* The turn closes around what it waits for; what was skipped is answered.
EndParked ==
  /\ BatchOver /\ ~failed /\ MustPark /\ signal # "aborted"
  /\ answer' = SayAll(skipped, [c \in Call |-> "not_run"])
  /\ EndTurn /\ EndRun
  /\ Forget
  /\ UNCHANGED <<pending, outcome, gates, todo, world, past>>

EndAborted ==
  /\ BatchOver /\ ~failed /\ signal = "aborted"
  /\ proc' = "aborting" /\ Forget
  /\ UNCHANGED <<turn, rows, gates, signal, todo, world, past>>

\* The op is read, the step is verified, and the op is written.
VerifyStep ==
  /\ BatchOver /\ ~failed /\ ~MustPark /\ signal # "aborted"
  /\ proc' = "verifying" /\ control0' = control
  /\ UNCHANGED <<turn, rows, gates, signal, todo, failed, pc, seen, parked, skipped, world, past>>

EndStep ==
  /\ proc = "verifying"
  /\ phase' = "checkpoint" /\ control' = control0
  /\ call' = [c \in Call |-> NoCall]
  /\ proc' = "resting" /\ Forget
  /\ UNCHANGED <<rows, gates, signal, todo, world, past>>

\* drainAborted answers what has not started, then the turn closes.
DrainAborted ==
  /\ proc = "aborting"
  /\ answer' = SayAll({c \in Call : PreDispatch(c)}, [c \in Call |-> "not_run"])
  /\ call' = [c \in Call |-> IF PreDispatch(c) THEN State("completed") ELSE call[c]]
  /\ proc' = "closing"
  /\ UNCHANGED <<phase, control, pending, outcome, gates, signal, todo, batch, world, past>>

CloseAborted ==
  /\ proc = "closing"
  /\ EndTurn /\ EndRun
  /\ UNCHANGED <<rows, gates, todo, batch, world, past>>

\* step() ends a turn that is marked; a run marks the turn whose signal is
\* pulled and that is not.
StepCancelled ==
  /\ proc = "resting" /\ phase # "none" /\ control = "cancel"
  /\ proc' = "aborting"
  /\ UNCHANGED <<turn, rows, gates, signal, todo, batch, world, past>>

RecordAgain ==
  /\ proc = "resting" /\ phase # "none" /\ control = "none" /\ signal = "aborted"
  /\ control' = "cancel" /\ CloseGates
  /\ UNCHANGED <<phase, call, rows, memory, world, past>>

\* What follows the checkpoint is not modelled; the turn completes.
FinishTurn ==
  /\ proc = "resting" /\ phase = "checkpoint" /\ control = "none" /\ signal # "aborted"
  /\ EndTurn
  /\ UNCHANGED <<rows, gates, memory, world, past>>

-----------------------------------------------------------------------------
(* The continuation of a parked turn: continueParked.                      *)

Continuable == proc = "resting" /\ phase = "none"

\* The answer to "did it happen?" goes to the model; the call stays as it is.
ReopenAnswered(c) ==
  /\ Continuable /\ question[c] = "answered"
  /\ question' = [question EXCEPT ![c] = "closed"]
  /\ phase' = "checkpoint"
  /\ UNCHANGED <<control, call, rows, decision, memory, world, past>>

\* A call whose approval is open or given is planned again, alone; any other
\* is answered.
ReopenParked(c) ==
  /\ Continuable /\ \A d \in Call : question[d] # "answered"
  /\ answer[c] = "none" /\ decision[c] \in {"open", "allowed", "rejected", "closed"}
  /\ phase' = "tools"
  /\ IF decision[c] \in {"open", "allowed"}
       THEN Put(c, State("planned")) /\ UNCHANGED <<answer, decision>>
       ELSE Put(c, State("completed")) /\ Say(c, "not_run") /\ Consume(c)
  /\ UNCHANGED <<control, pending, outcome, question, memory, world, past>>

-----------------------------------------------------------------------------
(* Crash and recovery.                                                     *)

Crash ==
  /\ proc # "down" /\ crashes < MaxCrashes
  /\ proc' = "down" /\ signal' = "none" /\ todo' = {} /\ Forget
  /\ crashes' = crashes + 1
  /\ UNCHANGED <<turn, rows, gates, world, unasked>>

\* A ledger whose tail was damaged is closed, any other one resumed.
Open ==
  /\ proc = "down"
  /\ \/ proc' = "recovering" /\ todo' = pending /\ UNCHANGED <<turn, rows, unasked>>
     \/ phase # "none" /\ CloseInterrupted /\ proc' = "resting" /\ UNCHANGED todo
  /\ UNCHANGED <<gates, signal, batch, world, crashes>>

Inquiring == \E c \in Call : pc[c] = "asking"

\* Mutant: a dispatch that is pending has not been sent.
RecoveredByStatus(c) ==
  IF control = "cancel"
    THEN IF c \in Host /\ call[c].status = "dispatch_pending" THEN "cancelled" ELSE "unknown"
    ELSE IF \/ call[c].status = "dispatch_pending" /\ call[c].attempt = 1 /\ c \in Host
            \/ call[c].status = "dispatched" /\ call[c].attempt = 1 /\ c \in SafeRead
           THEN "retry" ELSE "unknown"

\* classifyToolRecovery for a call past its intent.  A call the batch does
\* not hold is not trusted.
RecoveredAs(c) ==
  IF control = "cancel"
    THEN IF c \in Host /\ call[c].status = "dispatch_pending" /\ call[c].sent = "not_sent"
           THEN "cancelled" ELSE "unknown"
    ELSE IF \/ /\ call[c].status = "dispatch_pending" /\ call[c].attempt = 1
               /\ c \in Host /\ call[c].sent = "not_sent"
            \/ /\ call[c].status = "dispatched" /\ call[c].attempt = 1
               /\ c \in SafeRead
           THEN "retry" ELSE "unknown"

Recovering(c) ==
  /\ proc = "recovering" /\ phase # "none" /\ c \in todo /\ ~Inquiring
  /\ todo' = todo \ {c}

RecoverCancelled(c) ==
  /\ Recovering(c) /\ RecoveredAs(c) = "cancelled"
  /\ Say(c, IF call[c].attempt = 1 THEN "recalled" ELSE "recalled_retry")
  /\ Settle(c, "known") /\ Put(c, State("completed"))
  /\ UNCHANGED <<phase, control, gates, proc, signal, batch, world, past>>

\* The effect stays open; the phase of the first attempt is dropped.
RecoverRetry(c) ==
  /\ Recovering(c) /\ RecoveredAs(c) = "retry"
  /\ Put(c, Dispatch("dispatch_pending", 2, "none"))
  /\ UNCHANGED <<phase, control, rows, gates, proc, signal, batch, world, past>>

RecoverUnknown(c) ==
  /\ Recovering(c) /\ RecoveredAs(c) = "unknown"
  /\ Say(c, "unknown") /\ Settle(c, "unknown")
  /\ Put(c, IF InBatch(c) THEN State("completed") ELSE NoCall)
  /\ pc' = [pc EXCEPT ![c] = "asking"]
  /\ UNCHANGED <<phase, control, gates, proc, signal, failed, seen, parked, skipped, control0,
                 world, past>>

\* askUnknownOutcome: an answer is consumed and recovery goes on; while there
\* is none, or after a Stop, the turn is closed and recovery ends.
Inquire(c) ==
  /\ proc = "recovering" /\ pc[c] = "asking" /\ ~Stopped /\ question[c] = "none"
  /\ question' = [question EXCEPT ![c] = "open"]
  /\ UNCHANGED <<turn, rows, decision, memory, world, past>>

\* The same hook, or the request itself, fails: so does the open.
InquiryFails(c) ==
  /\ proc = "recovering" /\ pc[c] = "asking" /\ ~Stopped
  /\ proc' = "down" /\ todo' = {} /\ Forget
  /\ UNCHANGED <<turn, rows, gates, signal, world, past>>

InquiryAnswered(c) ==
  /\ proc = "recovering" /\ pc[c] = "asking" /\ ~Stopped /\ question[c] = "answered"
  /\ question' = [question EXCEPT ![c] = "closed"]
  /\ pc' = [pc EXCEPT ![c] = "done"]
  /\ UNCHANGED <<turn, rows, decision, proc, signal, todo, failed, seen, parked, skipped, control0,
                 world, past>>

InquiryParks(c) ==
  /\ proc = "recovering" /\ pc[c] = "asking"
  /\ Stopped \/ question[c] \in {"open", "closed"}
  /\ question' = [question EXCEPT ![c] = IF Stopped /\ @ \in {"open", "answered"} THEN "closed" ELSE @]
  /\ EndTurn
  /\ pc' = [pc EXCEPT ![c] = "done"]
  /\ UNCHANGED <<rows, decision, proc, signal, todo, failed, seen, parked, skipped, control0,
                 world, past>>

Recovered ==
  /\ proc = "recovering" /\ ~Inquiring /\ (todo = {} \/ phase = "none")
  /\ proc' = "resting" /\ todo' = {}
  /\ UNCHANGED <<turn, rows, gates, signal, batch, world, past>>

-----------------------------------------------------------------------------
(* The person, and the world.                                              *)

AnswerDecision(c) ==
  /\ proc # "down" /\ decision[c] = "open" /\ ~Stopped
  /\ \E d \in {"allowed", "rejected"} : decision' = [decision EXCEPT ![c] = d]
  /\ UNCHANGED <<turn, rows, question, memory, world, past>>

AnswerQuestion(c) ==
  /\ proc # "down" /\ question[c] = "open" /\ ~Stopped
  /\ question' = [question EXCEPT ![c] = "answered"]
  /\ UNCHANGED <<turn, rows, decision, memory, world, past>>

\* A deadline passes before the decision is consumed.
Expire(c) ==
  /\ proc # "down"
  /\ \/ /\ decision[c] \in {"open", "allowed", "rejected"}
        /\ decision' = [decision EXCEPT ![c] = "closed"] /\ UNCHANGED question
     \/ /\ question[c] \in {"open", "answered"}
        /\ question' = [question EXCEPT ![c] = "closed"] /\ UNCHANGED decision
  /\ UNCHANGED <<turn, rows, memory, world, past>>

\* abortSession: the scope of the decisions is revoked, the Stop recorded and
\* what waits for a person closed, the signal pulled.  Without a turn there is
\* nothing to record, and the signal is that of a run between turns, or of none.
Stop ==
  /\ proc \notin {"down", "recovering"} /\ signal = "none"
  /\ signal' = "stopping"
  /\ UNCHANGED <<turn, rows, gates, proc, todo, batch, world, past>>

RecordStop ==
  /\ signal = "stopping" /\ phase # "none"
  /\ control' = "cancel" /\ CloseGates /\ signal' = "recorded"
  /\ UNCHANGED <<phase, call, rows, proc, todo, batch, world, past>>

DeliverStop ==
  /\ signal = "recorded"
  /\ signal' = "aborted"
  /\ UNCHANGED <<turn, rows, gates, proc, todo, batch, world, past>>

StopIdle ==
  /\ signal = "stopping" /\ phase = "none"
  /\ CloseGates /\ signal' \in {"none", "aborted"}
  /\ UNCHANGED <<turn, rows, proc, todo, batch, world, past>>

RunIdle ==
  /\ proc = "resting" /\ phase = "none" /\ signal = "aborted"
  /\ signal' = "none"
  /\ UNCHANGED <<turn, rows, gates, proc, todo, batch, world, past>>

\* An attempt acts, also after the kernel stopped waiting and after a crash.
\* What comes to rest without acting matters where a cut call is waited for.
Act(c) ==
  /\ \E a \in live[c] :
       /\ acted' = [acted EXCEPT ![c] = @ \cup {a}]
       /\ live' = [live EXCEPT ![c] = @ \ {a}]
  /\ UNCHANGED <<turn, rows, gates, memory, past>>

ComeToRest(c) ==
  /\ At(c, "settle") /\ seen[c] = "cut"
  /\ call[c].attempt \in live[c] /\ Over(c)
  /\ UNCHANGED <<turn, rows, gates, memory, acted, past>>

-----------------------------------------------------------------------------
CallStep(c) ==
  \/ Skip(c) \/ SkipParked(c) \/ Begin(c) \/ BeginUnavailable(c)
  \/ Deny(c) \/ CancelEarly(c) \/ RefuseCancelled(c) \/ Ask(c) \/ Approved(c)
  \/ Rejected(c) \/ Park(c) \/ HostUnavailable(c) \/ Prepare(c) \/ Intent(c) \/ Throw(c)
  \/ LoopCancelled(c) \/ Invoke(c) \/ Respond(c) \/ BodyThrows(c) \/ TimeOut(c) \/ Cut(c)
  \/ RejectBeforeEffect(c) \/ Unsent(c) \/ GiveUpUnsent(c) \/ Retry(c) \/ HostRecord(c)
  \/ SettleResult(c) \/ SettleStopped(c) \/ AskHook(c) \/ HookThrows(c) \/ AskOutcome(c)
  \/ SettleUnknown(c)

EndOfBatch ==
  \/ EndThrown \/ EndParked \/ EndAborted \/ VerifyStep \/ EndStep
  \/ DrainAborted \/ CloseAborted

Recovery(c) ==
  \/ RecoverCancelled(c) \/ RecoverRetry(c) \/ RecoverUnknown(c)
  \/ Inquire(c) \/ InquiryFails(c) \/ InquiryAnswered(c) \/ InquiryParks(c)

Person(c) == AnswerDecision(c) \/ AnswerQuestion(c) \/ Expire(c)

Next ==
  \/ StartBatch \/ EndOfBatch
  \/ StepCancelled \/ RecordAgain \/ FinishTurn
  \/ Crash \/ Open \/ Recovered
  \/ Stop \/ RecordStop \/ DeliverStop \/ StopIdle \/ RunIdle
  \/ \E c \in Call :
       \/ CallStep(c) \/ Recovery(c) \/ Person(c)
       \/ ReopenAnswered(c) \/ ReopenParked(c)
       \/ Act(c) \/ ComeToRest(c)

Spec == Init /\ [][Next]_vars

-----------------------------------------------------------------------------
(* What the model is told and what happened, per call: EffectOnce.         *)

\* An answer is taken at its word, but for two.  What is said of the last of two attempts of
\* a read says nothing of the first.  And a recovery that finds a call cancelled in its second
\* attempt says so on the attestation of the first, which the retry has left on the ledger,
\* although the second may have acted: "recalled_retry" is the one untrue answer the code
\* gives (README, section 6), and here it stands for "nobody knows".
Stage(c) ==
  CASE answer[c] = "none" -> IF HasIntent(c) THEN "started" ELSE "new"
    [] answer[c] \in {"not_run", "recalled"} -> "never"
    [] answer[c] = "no_effect" -> IF c \in SafeRead THEN "unsure" ELSE "never"
    [] answer[c] = "result" -> IF c \in SafeRead THEN "unsure" ELSE "over"
    [] answer[c] = "stopped" -> "over"
    [] OTHER -> "unsure"

Effect == INSTANCE EffectOnce
  WITH Repeatable <- SafeRead,
       stage <- [c \in Call |-> Stage(c)],
       acts <- [c \in Call |-> Cardinality(acted[c])]

\* The batch keeps the promise of EffectOnce, through parks, stops, crashes, retries and
\* recoveries, but for the truth of a "recalled_retry".
EffectSpec == Effect!Spec

-----------------------------------------------------------------------------
(* Fairness: the session goes on.  Its own steps are taken, and a wait for  *)
(* a person, a tool or the end of a cut call has a deadline.  Nothing makes  *)
(* a person answer, an attempt act, a Stop arrive or a session be opened     *)
(* again.                                                                    *)

SessionStep ==
  \/ StartBatch \/ EndOfBatch \/ StepCancelled \/ RecordAgain \/ FinishTurn \/ Recovered
  \/ RecordStop \/ DeliverStop
  \/ proc = "batch" /\ \E c \in Call : pc[c] # "done" /\ CallStep(c)
  \/ proc = "recovering" /\ \E c \in Call : Recovery(c)
  \/ \E c \in Call : Expire(c)

FairSpec == Spec /\ WF_vars(SessionStep)

-----------------------------------------------------------------------------
(* Properties.                                                             *)

\* An approval is consumed by the intent of its call and by nothing else: no
\* crash, Stop, deadline or continuation leaves an intent without its
\* approval, or an approval that was used and can be used again.
IntentSpendsApproval ==
  \A c \in Guarded : HasIntent(c) <=> decision[c] = "spent"

\* A recorded Stop comes before an approval in hand: a call that was on its
\* way to its intent when the Stop was recorded does not get there.
NoIntentAfterStop ==
  [][\A c \in Guarded : control = "cancel" /\ HasIntent(c)' => HasIntent(c)]_vars

\* A call gets one result and its effect one settlement, whoever comes first: the call
\* itself, the abort of its batch, a closing turn or the recovery.  And once it is
\* answered no attempt of it starts.
StaysFinal(c) ==
  /\ "twice" \notin {answer'[c], outcome'[c]}
  /\ answer[c] # "none" => live'[c] \subseteq live[c]
AnswersAreFinal == [][\A c \in Call : StaysFinal(c)]_vars

\* A turn that ends leaves no effect open, and no call without a result but
\* one that waits for its approval ("so none is left planned without an answer").
ClosedTurnsAreSettled ==
  phase = "none" =>
    pending = {} /\ \A c \in Call : answer[c] = "none" => decision[c] # "none"

\* So it is, as long as nothing crashes, whatever parks, stops or fails the batch, but for
\* the calls of `unasked`: they went out, their question was kept from being asked, and a
\* Stop drained their turn, which answers only what was not dispatched (README, section 6).
\* A turn that fails without a Stop settles them as well.
UninterruptedTurnsAreSettled ==
  crashes = 0 /\ phase = "none" =>
    /\ pending \subseteq unasked
    /\ \A c \in Call \ unasked : answer[c] = "none" => decision[c] # "none"

\* Without a crash, a batch goes on past a call of unknown outcome only when a
\* person was asked about it.
UnknownIsAsked ==
  [][\A c \in Call :
       /\ crashes = 0 /\ phase = "tools" /\ phase' = "checkpoint"
       /\ InBatch(c) /\ answer[c] = "unknown"
       => question[c] # "none"]_vars

\* A turn ends: completed, parked, stopped or failed.
TurnsEnd == phase # "none" ~> (phase = "none" \/ proc = "down")

\* "A turn marked cancelled is ended from the row no matter which controller
\* is current": a recorded Stop stays on the ledger until the turn ends.
StopIsKept == [][control = "cancel" => control' = "cancel" \/ phase' = "none"]_vars
=============================================================================
