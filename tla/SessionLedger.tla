--------------------------- MODULE SessionLedger ---------------------------
(***************************************************************************)
(* One session's ledger and the processes that want to write it.           *)
(*                                                                         *)
(* Storage keeps the rows, one writer claim (the lease) and two register   *)
(* cells: a compare-and-set cell `reg` and the program counter `opOpen`    *)
(* (op.state, present while a turn is open).  A run is one open of the     *)
(* session: every open mints a fresh writer run id, keeps a cached view    *)
(* and commits through a queue, one storage call at a time.  The daemon's  *)
(* reclaimer looks for lapsed claims and resumes the turns it finds open.  *)
(*                                                                         *)
(* A batch is one row.  A row is its author and the digest it was chained  *)
(* to; a digest is the sequence of authors it hashes, so two digests are   *)
(* equal only when the histories behind them are.                          *)
(***************************************************************************)
EXTENDS Integers, Sequences, FiniteSets

CONSTANTS
  Run,         \* writer run ids, one per open of the session
  ResumeRun,   \* the runs minted by the daemon's reclaimer (openForResume)
  None,        \* no run
  Work,        \* the kinds of append the callers of this instance make
  Ttl,         \* the lease's ttl, in clock ticks
  MaxClock,    \* bound: no lease is granted after this time, except to a resume
  MaxRows,     \* bound: rows admitted
  MaxQueue,    \* bound: appends waiting in one log
  MayHold,     \* whether callers ask for the lease to be renewed with no turn open
  OpenMayFail  \* whether reading the history at open may fail

\* What an append does: "cas" writes `reg` if it is as the caller saw it,
\* "turn" and "end" write op.state, "claim" is claimLease (no row).
Kind == {"plain", "cas", "turn", "end", "claim"}

ASSUME ConstantsAssumption ==
  /\ ResumeRun \subseteq Run
  /\ None \notin Run
  /\ Work \subseteq Kind
  /\ Ttl \in Nat \ {0}
  /\ {MaxClock, MaxRows, MaxQueue} \subseteq Nat
  /\ {MayHold, OpenMayFail} \subseteq BOOLEAN

VARIABLES
  clock,       \* the wall clock of the machine
  claim,       \* writer_claims: the run that has the row and its deadline
  ledger,      \* events: the rows, in seq order
  reg,         \* registers: the seq that last wrote the compare-and-set cell
  opOpen,      \* registers: whether op.state holds a turn
  phase,       \* of each run's log: unborn, opening, open, closing or gone
  fault,       \* why a log sealed itself
  lastSeq, head, regCache, turn,  \* a log's view of the rows and the cells
  queue,       \* appends admitted and waiting for their turn on the drain
  call,        \* the storage call the head of the queue has in flight
  renewal,     \* the timer's renewal in flight
  pass,        \* the reclaimer: the claim it is working on, and how far it is
  lastHolder,  \* history: the run that last took or extended the claim
  owed,        \* history: a resume failed and was left for the next pass
  slept        \* history: the runs whose claim has lapsed since they last extended it

storage == <<claim, ledger, reg, opOpen, lastHolder>>
views == <<lastSeq, head, regCache, turn>>
logs == <<phase, fault, views, queue, call, renewal, slept>>
vars == <<clock, storage, logs, pass, owed>>

NoClaim == [run |-> None, until |-> 0]
NoCall == [st |-> "idle", kind |-> "plain", seq |-> 0, prev |-> <<>>, saw |-> 0]
NoPass == [st |-> "idle", run |-> None, until |-> 0, now |-> 0, by |-> None]

Digest == Seq(Run)
Row == [by: Run, prev: Digest, cas: BOOLEAN, saw: Nat]
Request == [kind: Kind, saw: Nat]
Call == [st: {"idle", "sent", "ok", "refused", "cas", "unknown"},
         kind: Kind, seq: Nat, prev: Digest, saw: Nat]
Claim == [run: Run \cup {None}, until: Nat]
Pass == [st: {"idle", "listed", "found", "opening"}, run: Run \cup {None},
         until: Nat, now: Nat, by: Run \cup {None}]

\* The authors of the first n rows: the digest a full hash of them gives.
Authors(n) == [i \in 1 .. n |-> ledger[i].by]

Live(w) == phase[w] \in {"opening", "open", "closing"}
Sealed(w) == fault[w] # "none"

\* The bound on time: after it, only a resume is still granted the claim.
InTime == clock <= MaxClock

StorageTyped ==
  /\ clock \in Nat
  /\ claim \in Claim
  /\ ledger \in Seq(Row)
  /\ reg \in Nat /\ opOpen \in BOOLEAN
  /\ lastHolder \in Run \cup {None}
ViewsTyped ==
  /\ lastSeq \in [Run -> Nat] /\ head \in [Run -> Digest]
  /\ regCache \in [Run -> Nat] /\ turn \in [Run -> BOOLEAN]
CallsTyped == queue \in [Run -> Seq(Request)] /\ call \in [Run -> Call]
LeaseTyped ==
  /\ phase \in [Run -> {"unborn", "opening", "open", "closing", "gone"}]
  /\ fault \in [Run -> {"none", "lease", "lapsed", "failed"}]
  /\ renewal \in [Run -> {"none", "sent", "refused", "failed"}]
  /\ slept \subseteq Run
PassTyped == pass \in Pass /\ owed \in BOOLEAN

TypeOK == StorageTyped /\ ViewsTyped /\ CallsTyped /\ LeaseTyped /\ PassTyped

Init ==
  /\ clock = 0
  /\ claim = NoClaim
  /\ ledger = <<>>
  /\ reg = 0 /\ opOpen = FALSE
  /\ phase = [w \in Run |-> "unborn"]
  /\ fault = [w \in Run |-> "none"]
  /\ lastSeq = [w \in Run |-> 0] /\ head = [w \in Run |-> <<>>]
  /\ regCache = [w \in Run |-> 0] /\ turn = [w \in Run |-> FALSE]
  /\ queue = [w \in Run |-> <<>>]
  /\ call = [w \in Run |-> NoCall]
  /\ renewal = [w \in Run |-> "none"]
  /\ pass = NoPass
  /\ lastHolder = None
  /\ owed = FALSE
  /\ slept = {}

-----------------------------------------------------------------------------
(* Storage: each of these is one BEGIN IMMEDIATE transaction.              *)

\* Variants: no lapsed claim is taken over; a lapsed lease is never taken back;
\* a lapsed lease is taken back without asking what was written meanwhile.
OpenGrantedNever(w) == claim.run \in {None, w}
LeaseGrantedIfHeld(w, expected) == claim.run = w /\ claim.until >= clock
LeaseGrantedUnlessTaken(w, expected) == claim.run \in {None, w}

\* open() refuses only a claim that another run holds and that has not lapsed.
OpenGranted(w) == claim.run \in {None, w} \/ claim.until < clock

\* holdLease: a held lease is extended; a lapsed or missing one is taken back
\* only while no other run has the row and nothing was written meanwhile.
LeaseGranted(w, expected) ==
  \/ claim.run = w /\ claim.until >= clock
  \/ claim.run \in {None, w} /\ Len(ledger) = expected

\* The integrity entries must carry the seqs storage is about to assign.
SeqsMatch(c) == c.seq = Len(ledger) + 1

\* Variant: the expectation is not compared.
CasIgnored(c) == TRUE

\* expectedRegisterSeq, for a batch that carries it.
CasHolds(c) == c.kind = "cas" => c.saw = reg

\* Variant: the deadline is set into the past.
TakeClaimLapsed(w) ==
  /\ claim' = [run |-> w, until |-> clock - Ttl]
  /\ lastHolder' = w

TakeClaim(w) ==
  /\ claim' = [run |-> w, until |-> clock + Ttl]
  /\ lastHolder' = w

\* release: the row is deleted only if it is still this run's.
DropClaim(w) == claim' = IF claim.run = w THEN NoClaim ELSE claim

\* The rows, the registers and the op cell of a batch, in one transaction.
ApplyBatch(w, c) ==
  /\ ledger' = Append(ledger, [by |-> w, prev |-> c.prev, cas |-> c.kind = "cas",
                               saw |-> IF c.kind = "cas" THEN c.saw ELSE 0])
  /\ reg' = IF c.kind = "cas" THEN c.seq ELSE reg
  /\ opOpen' = (c.kind = "turn" \/ (opOpen /\ c.kind # "end"))

Answer(w, st) == call' = [call EXCEPT ![w].st = st]

\* A log that extends its claim is awake again, unless it was told no before.
WakeUp(w) == slept' = IF Sealed(w) \/ renewal[w] = "refused" THEN slept ELSE slept \ {w}

\* Nothing is written: the lease is gone, the cell has changed, or the call
\* failed in some other way, a seq mismatch included.
CommitRefused(w, c) ==
  /\ \/ ~LeaseGranted(w, c.seq - 1) /\ Answer(w, "refused")
     \/ LeaseGranted(w, c.seq - 1) /\ ~CasHolds(c) /\ Answer(w, "cas")
     \/ Answer(w, "unknown")
  /\ UNCHANGED <<storage, slept>>

\* The lease is extended and the batch written; the answer may get lost.
CommitApplied(w, c) ==
  /\ LeaseGranted(w, c.seq - 1) /\ CasHolds(c)
  /\ \/ c.kind = "claim" /\ UNCHANGED <<ledger, reg, opOpen>>
     \/ c.kind # "claim" /\ SeqsMatch(c) /\ ApplyBatch(w, c)
  /\ TakeClaim(w) /\ WakeUp(w)
  /\ Answer(w, "ok") \/ Answer(w, "unknown")

StorageCommit(w) ==
  /\ call[w].st = "sent" /\ InTime
  /\ CommitRefused(w, call[w]) \/ CommitApplied(w, call[w])
  /\ UNCHANGED <<clock, phase, fault, views, queue, renewal, pass, owed>>

RenewAnswer(w, st) == renewal' = [renewal EXCEPT ![w] = st]

LeaseHeld(w) == claim.run = w /\ claim.until >= clock

\* renew without a claim: assertLease, then extend.  Unlike a batch, it takes
\* no lapsed lease back.  A success needs no answer; the answer may get lost.
StorageRenew(w) ==
  /\ renewal[w] = "sent" /\ InTime
  /\ \/ LeaseHeld(w) /\ TakeClaim(w) /\ WakeUp(w) /\ (RenewAnswer(w, "none") \/ RenewAnswer(w, "failed"))
     \/ ~LeaseHeld(w) /\ RenewAnswer(w, "refused") /\ UNCHANGED <<claim, lastHolder, slept>>
     \/ RenewAnswer(w, "failed") /\ UNCHANGED <<claim, lastHolder, slept>>
  /\ UNCHANGED <<clock, ledger, reg, opOpen, phase, fault, views, queue, call, pass, owed>>

-----------------------------------------------------------------------------
(* The log of one run.                                                     *)

\* SessionLogImpl.open takes the claim first; the history is read after it.
TakeSession(w) ==
  /\ phase[w] = "unborn"
  /\ OpenGranted(w)
  /\ TakeClaim(w)
  /\ phase' = [phase EXCEPT ![w] = "opening"]
  /\ lastSeq' = [lastSeq EXCEPT ![w] = Len(ledger)]
  /\ UNCHANGED <<clock, ledger, reg, opOpen, fault, head, regCache, turn, queue, call, renewal, slept>>

OpenClaim(w) ==
  /\ w \notin ResumeRun /\ InTime
  /\ TakeSession(w)
  /\ owed' = FALSE
  /\ UNCHANGED pass

\* The daemon's pass is over once the open it waits for has ended.
PassAfter(w) == IF pass.by = w THEN NoPass ELSE pass

\* The rows up to lastSeq were checked; the registers are read now.
FinishOpen(w) ==
  /\ phase[w] = "opening"
  /\ phase' = [phase EXCEPT ![w] = "open"]
  /\ head' = [head EXCEPT ![w] = Authors(lastSeq[w])]
  /\ regCache' = [regCache EXCEPT ![w] = reg]
  /\ turn' = [turn EXCEPT ![w] = opOpen]
  /\ pass' = PassAfter(w)
  /\ UNCHANGED <<clock, storage, fault, lastSeq, queue, call, renewal, slept, owed>>

\* A log that is gone: what it knew goes with it, but for what it told others.
Forget(w) ==
  /\ phase' = [phase EXCEPT ![w] = "gone"]
  /\ fault' = [fault EXCEPT ![w] = "none"]
  /\ regCache' = [regCache EXCEPT ![w] = 0] /\ turn' = [turn EXCEPT ![w] = FALSE]
  /\ queue' = [queue EXCEPT ![w] = <<>>] /\ call' = [call EXCEPT ![w] = NoCall]
  /\ renewal' = [renewal EXCEPT ![w] = "none"]
  /\ slept' = slept \ {w}
  /\ UNCHANGED <<lastSeq, head>>

\* A failed open hands the claim back; reclaimExpired records resumed: false.
FailOpen(w) ==
  /\ OpenMayFail
  /\ phase[w] = "opening"
  /\ Forget(w)
  /\ DropClaim(w)
  /\ pass' = PassAfter(w)
  /\ owed' = (owed \/ pass.by = w)
  /\ UNCHANGED <<clock, ledger, reg, opOpen, lastHolder>>

Admit(w, k) ==
  /\ phase[w] = "open" /\ ~Sealed(w)
  /\ Len(queue[w]) < MaxQueue /\ Len(ledger) + Len(queue[w]) < MaxRows
  /\ queue' = [queue EXCEPT ![w] = Append(@, [kind |-> k, saw |-> IF k = "cas" THEN regCache[w] ELSE 0])]
  /\ UNCHANGED <<clock, storage, phase, fault, views, call, renewal, slept, pass, owed>>

\* The head of the queue reaches storage.  `closed` is deliberately not
\* rechecked: close() drains what was admitted.
Send(w) ==
  /\ phase[w] \in {"open", "closing"} /\ ~Sealed(w)
  /\ queue[w] # <<>> /\ call[w].st = "idle"
  /\ call' = [call EXCEPT ![w] =
       [st |-> "sent", kind |-> Head(queue[w]).kind, seq |-> lastSeq[w] + 1,
        prev |-> head[w], saw |-> Head(queue[w]).saw]]
  /\ UNCHANGED <<clock, storage, phase, fault, views, queue, renewal, slept, pass, owed>>

\* A batch that queued behind the one that sealed the log is refused.
RefuseQueued(w) ==
  /\ phase[w] \in {"open", "closing"} /\ Sealed(w)
  /\ queue[w] # <<>> /\ call[w].st = "idle"
  /\ queue' = [queue EXCEPT ![w] = Tail(@)]
  /\ UNCHANGED <<clock, storage, phase, fault, views, call, renewal, slept, pass, owed>>

\* markFaulted keeps the first cause.
SealWith(w, why) == fault' = [fault EXCEPT ![w] = IF @ = "none" THEN why ELSE @]

\* Variant: the digest the next row is chained to is not advanced.
AdvanceWithoutDigest(w, c) ==
  /\ lastSeq' = [lastSeq EXCEPT ![w] = c.seq]
  /\ regCache' = [regCache EXCEPT ![w] = IF c.kind = "cas" THEN c.seq ELSE @]
  /\ turn' = [turn EXCEPT ![w] = c.kind = "turn" \/ (@ /\ c.kind # "end")]
  /\ UNCHANGED head

\* The view a log has after a batch of its own was committed.
Advance(w, c) ==
  /\ lastSeq' = [lastSeq EXCEPT ![w] = c.seq]
  /\ head' = [head EXCEPT ![w] = Append(c.prev, w)]
  /\ regCache' = [regCache EXCEPT ![w] = IF c.kind = "cas" THEN c.seq ELSE @]
  /\ turn' = [turn EXCEPT ![w] = c.kind = "turn" \/ (@ /\ c.kind # "end")]

\* Variant: an unknown outcome is taken for a success.
TakeAnswerOptimistic(w, c) ==
  \/ /\ c.st \in {"ok", "unknown"}
     /\ IF c.kind = "claim" THEN UNCHANGED views ELSE Advance(w, c)
     /\ UNCHANGED fault
  \/ c.st = "cas" /\ UNCHANGED <<views, fault>>
  \/ c.st = "refused" /\ SealWith(w, "lease") /\ UNCHANGED views

\* What append and claimLease do with storage's answer.
TakeAnswer(w, c) ==
  \/ /\ c.st = "ok"
     /\ IF c.kind = "claim" THEN UNCHANGED views ELSE Advance(w, c)
     /\ UNCHANGED fault
  \/ /\ c.st = "cas"
     /\ UNCHANGED <<views, fault>>
  \/ /\ c.st \in {"refused", "unknown"}
     /\ SealWith(w, IF c.st = "refused" THEN "lease" ELSE "failed")
     /\ UNCHANGED views

Return(w) ==
  /\ call[w].st \notin {"idle", "sent"} /\ Live(w)
  /\ TakeAnswer(w, call[w])
  /\ queue' = [queue EXCEPT ![w] = Tail(@)]
  /\ call' = [call EXCEPT ![w] = NoCall]
  /\ UNCHANGED <<clock, storage, phase, renewal, slept, pass, owed>>

\* The timer runs while the cached op.state says a turn is open, or while a hold
\* asks for it: callers take and release holds (holdRenewal) at any time.
RenewTimer(w) ==
  /\ phase[w] = "open" /\ ~Sealed(w) /\ (turn[w] \/ MayHold) /\ renewal[w] = "none"
  /\ renewal' = [renewal EXCEPT ![w] = "sent"]
  /\ UNCHANGED <<clock, storage, phase, fault, views, queue, call, slept, pass, owed>>

RenewReturn(w) ==
  /\ renewal[w] \in {"refused", "failed"}
  /\ renewal' = [renewal EXCEPT ![w] = "none"]
  /\ SealWith(w, IF renewal[w] = "refused" THEN "lapsed" ELSE "failed")
  /\ UNCHANGED <<clock, storage, phase, views, queue, call, slept, pass, owed>>

Close(w) ==
  /\ phase[w] = "open"
  /\ phase' = [phase EXCEPT ![w] = "closing"]
  /\ UNCHANGED <<clock, storage, fault, views, queue, call, renewal, slept, pass, owed>>

\* abandon(): an open whose session could not be assembled.
Abandon(w) ==
  /\ phase[w] = "open"
  /\ SealWith(w, "failed")
  /\ phase' = [phase EXCEPT ![w] = "closing"]
  /\ UNCHANGED <<clock, storage, views, queue, call, renewal, slept, pass, owed>>

\* close() has drained the queue and hands the lease back.
Release(w) ==
  /\ phase[w] = "closing" /\ queue[w] = <<>>
  /\ DropClaim(w)
  /\ Forget(w)
  /\ UNCHANGED <<clock, ledger, reg, opOpen, lastHolder, pass, owed>>

\* The process of a run dies; the claim row and the op cell stay as they are.
Crash(w) ==
  /\ w \notin ResumeRun /\ Live(w)
  /\ Forget(w)
  /\ UNCHANGED <<clock, storage, pass, owed>>

-----------------------------------------------------------------------------
(* The daemon's reclaimer.                                                 *)

ReclaimList ==
  /\ pass.st = "idle"
  /\ claim.run # None /\ claim.until < clock
  /\ pass' = [NoPass EXCEPT !.st = "listed", !.run = claim.run, !.until = claim.until, !.now = clock]
  /\ UNCHANGED <<clock, storage, logs, owed>>

\* Variant: the deadline is not rechecked when the claim is deleted.
StillListedByRun == claim.run = pass.run

\* The claim is still the lapsed one that was listed.
StillListed == claim.run = pass.run /\ claim.until = pass.until /\ claim.until < pass.now

\* claimForReclaim: recheck, read op.state, and delete an idle claim.
ReclaimClaim ==
  /\ pass.st = "listed"
  /\ \/ ~StillListed /\ pass' = NoPass /\ UNCHANGED claim
     \/ StillListed /\ opOpen /\ pass' = [pass EXCEPT !.st = "found"] /\ UNCHANGED claim
     \/ StillListed /\ ~opOpen /\ pass' = NoPass /\ claim' = NoClaim
  /\ UNCHANGED <<clock, ledger, reg, opOpen, lastHolder, logs, owed>>

\* registry.holds, and the entry an open of the same key would be handed.
DaemonHasSession == \E w \in ResumeRun : phase[w] \in {"opening", "open"}

\* openForResume: skip a session this daemon has, else open it as a new run.
ReclaimOpen(w) ==
  /\ pass.st = "found" /\ w \in ResumeRun /\ ~DaemonHasSession
  /\ TakeSession(w)
  /\ pass' = [pass EXCEPT !.st = "opening", !.by = w]
  /\ owed' = FALSE

\* The session is open in this daemon, or another writer has it by now.
ReclaimSkip ==
  /\ pass.st = "found"
  /\ DaemonHasSession \/ (\A w \in ResumeRun : ~OpenGranted(w))
  /\ pass' = NoPass
  /\ UNCHANGED <<clock, storage, logs, owed>>

Tick ==
  /\ clock <= MaxClock + Ttl
  /\ clock' = clock + 1
  /\ slept' = slept \cup {w \in Run : Live(w) /\ claim.run = w /\ claim.until < clock'}
  /\ UNCHANGED <<storage, phase, fault, views, queue, call, renewal, pass, owed>>

Next ==
  \/ Tick \/ ReclaimList \/ ReclaimClaim \/ ReclaimSkip
  \/ \E w \in Run :
       \/ OpenClaim(w) \/ FinishOpen(w) \/ FailOpen(w)
       \/ \E k \in Work : Admit(w, k)
       \/ Send(w) \/ StorageCommit(w) \/ Return(w) \/ RefuseQueued(w)
       \/ RenewTimer(w) \/ StorageRenew(w) \/ RenewReturn(w)
       \/ Close(w) \/ Abandon(w) \/ Release(w) \/ Crash(w)
       \/ ReclaimOpen(w)

Spec == Init /\ [][Next]_vars

-----------------------------------------------------------------------------
(* Properties.                                                             *)

\* The stored rows form one unbroken hash chain: every row was chained to the
\* digest of exactly the rows before it, whoever wrote them.  Storage never
\* compares digests; it is the seq check, the lease and the logs' views
\* together that keep two writers from forking the history.
ChainIsLinear == \A i \in 1 .. Len(ledger) : ledger[i].prev = Authors(i - 1)

\* What a log holds, and has told its callers was appended, is a prefix of
\* what is stored, also after it lost the session: an acknowledged append is
\* never missing, moved or replaced.
ViewsArePrefixes ==
  \A w \in Run :
    /\ lastSeq[w] <= Len(ledger)
    /\ phase[w] \in {"open", "closing"} => head[w] = Authors(lastSeq[w])

\* The state of a log that nobody replaced since it last held the claim, and
\* that waits for no answer, is the stored state: its head, its registers and
\* its idea of whether a turn is open, on which lease renewal depends.
UpToDate(w) ==
  /\ lastSeq[w] = Len(ledger)
  /\ phase[w] # "opening" => regCache[w] = reg /\ turn[w] = opOpen

HolderIsUpToDate ==
  \A w \in Run :
    lastHolder = w /\ Live(w) /\ ~Sealed(w) /\ call[w].st \notin {"ok", "unknown"} => UpToDate(w)

\* A compare-and-set row lands only if no other one was written since its
\* caller read the cell, however long it was queued: no update is lost.
NoLostUpdate ==
  \A i \in 1 .. Len(ledger) :
    ledger[i].cas => \A j \in ledger[i].saw + 1 .. i - 1 : ~ledger[j].cas

\* What a log can lose its lease for.  A batch or a claimLease is refused only if
\* another run really took the session after this one: a writer that slept past
\* its ttl, and whose claim the reclaimer deleted meanwhile, takes it back.  The
\* timer's renewal takes nothing back and seals the log, replaced or not; but
\* either refusal befalls only a writer that let its own claim lapse, and one
\* that extends its claim in time is never sealed for it, whatever a pass of
\* the reclaimer that listed it, a reader or another open does.
LeaseLostOnlyIfLapsed ==
  \A w \in Run :
    /\ call[w].st = "refused" \/ fault[w] = "lease" => lastHolder # w /\ w \in slept
    /\ renewal[w] = "refused" \/ fault[w] = "lapsed" => w \in slept

\* Only its own run's release, or a lapsed idle claim's reclaim, removes a
\* claim: a pass that listed a claim never deletes one renewed since, nor the
\* claim of a session with a turn open.
ClaimsAreNotStolen ==
  [][claim' = NoClaim /\ claim # NoClaim /\ phase' = phase => claim.until < clock /\ ~opOpen]_vars

\* The ledger is an append-only log: the authors of its rows are the log, and
\* what each run knows of it is its lastSeq.
Log == INSTANCE AppendLog WITH log <- Authors(Len(ledger)), seen <- lastSeq
LogSpec == Log!Spec

\* A turn left open by a crash is resumed: some log comes to have the session
\* open with that turn in view, or the turn is ended.
TurnOrphaned == opOpen /\ claim.run # None /\ ~Live(claim.run)
TurnAttended == ~opOpen \/ \E w \in Run : phase[w] = "open" /\ turn[w]
CrashedTurnIsPickedUp == TurnOrphaned ~> TurnAttended

\* What is scheduled again and again: the clock, the reclaimer's interval, and
\* the reading of the history once a session was taken.
Fairness ==
  /\ WF_vars(Tick)
  /\ WF_vars(ReclaimList) /\ WF_vars(ReclaimClaim) /\ WF_vars(ReclaimSkip)
  /\ \A w \in Run : WF_vars(ReclaimOpen(w)) /\ WF_vars(FinishOpen(w))

FairSpec == Spec /\ Fairness

\* reclaimExpired's comment: a resume that failed is left for the next pass,
\* its claim untouched, so that pass can list it.
FailedResumeIsListedAgain == owed => claim.run # None

=============================================================================
