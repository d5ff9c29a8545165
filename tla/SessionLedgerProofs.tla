------------------------ MODULE SessionLedgerProofs ------------------------
(* Theorems about SessionLedger, for every set of runs and every bound.    *)
EXTENDS SessionLedger, SequenceTheorems, TLAPS

\* A storage call in flight was made for the head of a queue that is not empty.
CallsAreQueued ==
  \A w \in Run : call[w].st # "idle" => queue[w] # <<>> /\ phase[w] \in {"open", "closing"}

\* No log is ahead of the rows, not even after the answer that is on its way.
SeqsFit ==
  \A w \in Run :
    /\ lastSeq[w] <= Len(ledger)
    /\ call[w].st = "ok" /\ call[w].kind # "claim" => call[w].seq <= Len(ledger)

Typed == TypeOK /\ CallsAreQueued /\ SeqsFit

LEMMA Nothings == NoClaim \in Claim /\ NoCall \in Call /\ NoPass \in Pass
BY DEF NoClaim, NoCall, NoPass, Claim, Call, Pass, Kind, Digest

LEMMA InitTyped == Init => Typed
<1> SUFFICES ASSUME Init PROVE Typed
  OBVIOUS
<1>1. <<>> \in Digest /\ \A S : <<>> \in Seq(S)
  BY EmptySeq DEF Digest
<1>2. StorageTyped
  BY <1>1, Nothings DEF Init, StorageTyped
<1>3. ViewsTyped
  BY <1>1 DEF Init, ViewsTyped
<1>4. CallsTyped
  BY <1>1, Nothings DEF Init, CallsTyped
<1>5. LeaseTyped
  BY DEF Init, LeaseTyped
<1>6. PassTyped
  BY Nothings DEF Init, PassTyped
<1>7. CallsAreQueued
  BY DEF Init, CallsAreQueued, NoCall
<1>8. SeqsFit
  BY DEF Init, SeqsFit, NoCall
<1>9. QED
  BY <1>2, <1>3, <1>4, <1>5, <1>6, <1>7, <1>8 DEF Typed, TypeOK

LEMMA AuthorsTyped == ASSUME StorageTyped, NEW n \in 0 .. Len(ledger) PROVE Authors(n) \in Digest
<1>1. n \in Nat /\ n <= Len(ledger) /\ Len(ledger) \in Nat
  BY LenProperties DEF StorageTyped
<1>a. ASSUME NEW i \in 1 .. n PROVE ledger[i].by \in Run
  <2>1. i \in 1 .. Len(ledger)
    BY <1>1
  <2>2. ledger[i] \in Row
    BY <2>1, ElementOfSeq DEF StorageTyped
  <2>3. QED
    BY <2>2 DEF Row
<1>2. Authors(n) \in [1 .. n -> Run]
  BY <1>1, <1>a DEF Authors
<1>3. QED
  BY <1>1, <1>2, SeqDef DEF Digest

\* A step that leaves every log as it is, and writes no row.
LEMMA TypedFrame ==
  ASSUME Typed, UNCHANGED <<ledger, reg, opOpen, phase, fault, views, queue, call, renewal>>, slept' \subseteq Run,
         clock' \in Nat, claim' \in Claim, lastHolder' \in Run \cup {None}, PassTyped'
  PROVE Typed'
BY DEF Typed, logs, views, TypeOK, StorageTyped, ViewsTyped, CallsTyped, LeaseTyped, CallsAreQueued, SeqsFit

\* A run's open takes the claim.
LEMMA TypedTake ==
  ASSUME Typed, NEW w \in Run, TakeSession(w), PassTyped' PROVE Typed'
<1> USE DEF Typed, TypeOK, TakeSession
<1>1. claim' \in Claim /\ lastHolder' \in Run
  BY ConstantsAssumption DEF TakeClaim, Claim, StorageTyped, ConstantsAssumption
<1>2. Len(ledger) \in Nat
  BY LenProperties DEF StorageTyped
<1>3. StorageTyped' /\ ViewsTyped'
  BY <1>1, <1>2 DEF StorageTyped, ViewsTyped
<1>4. CallsTyped' /\ LeaseTyped'
  BY DEF CallsTyped, LeaseTyped
<1>5. CallsAreQueued' /\ SeqsFit'
  BY <1>2 DEF CallsAreQueued, SeqsFit, LeaseTyped, ViewsTyped
<1>6. QED
  BY <1>3, <1>4, <1>5

\* A log goes, and its claim with it or not.
LEMMA TypedForget ==
  ASSUME Typed, NEW w \in Run, Forget(w), claim' \in Claim, PassTyped',
         UNCHANGED <<clock, ledger, reg, opOpen, lastHolder>>
  PROVE Typed'
<1> USE DEF Typed, TypeOK, Forget
<1>1. StorageTyped' /\ ViewsTyped'
  BY DEF StorageTyped, ViewsTyped
<1>2. CallsTyped' /\ LeaseTyped'
  BY Nothings, EmptySeq DEF CallsTyped, LeaseTyped
<1>3. CallsAreQueued' /\ SeqsFit'
  BY DEF CallsAreQueued, SeqsFit, NoCall, CallsTyped, LeaseTyped
<1>4. QED
  BY <1>1, <1>2, <1>3

LEMMA DropClaimTyped ==
  ASSUME StorageTyped, NEW w \in Run, DropClaim(w) PROVE claim' \in Claim
BY Nothings DEF StorageTyped, DropClaim

\* A log turns to storage, or hears from it.
LEMMA TypedCalls ==
  ASSUME Typed, NEW w \in Run, Send(w) \/ Return(w) PROVE Typed'
<1> USE DEF Typed, TypeOK
<1>1. CASE Send(w)
  <2>1. Head(queue[w]) \in Request
    BY <1>1, HeadTailProperties DEF Send, CallsTyped
  <2>2. [st |-> "sent", kind |-> Head(queue[w]).kind, seq |-> lastSeq[w] + 1, prev |-> head[w],
         saw |-> Head(queue[w]).saw] \in Call
    BY <2>1 DEF Call, Request, ViewsTyped, StorageTyped
  <2>3. StorageTyped' /\ ViewsTyped' /\ LeaseTyped' /\ PassTyped'
    BY <1>1 DEF Send, storage, views, StorageTyped, ViewsTyped, LeaseTyped, PassTyped
  <2>4. CallsTyped'
    BY <1>1, <2>2 DEF Send, CallsTyped
  <2>5. CallsAreQueued' /\ SeqsFit'
    BY <1>1 DEF Send, storage, views, CallsAreQueued, SeqsFit, CallsTyped
  <2>6. QED
    BY <2>3, <2>4, <2>5
<1>2. CASE Return(w)
  <2>1. call[w] \in Call /\ queue[w] # <<>> /\ Tail(queue[w]) \in Seq(Request)
    BY <1>2, HeadTailProperties DEF Return, CallsTyped, CallsAreQueued
  <2>2. Append(call[w].prev, w) \in Digest
    BY <2>1, AppendProperties DEF Call, Digest
  <2>3. ViewsTyped'
    <3>1. UNCHANGED views \/ Advance(w, call[w])
      BY <1>2 DEF Return, TakeAnswer
    <3>2. CASE UNCHANGED views
      BY <3>2 DEF views, ViewsTyped
    <3>3. CASE Advance(w, call[w])
      BY <2>1, <2>2, <3>3 DEF Advance, ViewsTyped, Call
    <3>4. QED
      BY <3>1, <3>2, <3>3
  <2>4. StorageTyped' /\ PassTyped'
    BY <1>2 DEF Return, storage, StorageTyped, PassTyped
  <2>5. LeaseTyped'
    BY <1>2, <2>1 DEF Return, TakeAnswer, SealWith, LeaseTyped, Call
  <2>6. CallsTyped' /\ CallsAreQueued'
    BY <1>2, <2>1, Nothings DEF Return, CallsTyped, CallsAreQueued, NoCall
  <2>7. SeqsFit'
    BY <1>2, <2>1 DEF Return, TakeAnswer, Advance, views, storage, SeqsFit, CallsTyped, ViewsTyped, NoCall
  <2>8. QED
    BY <2>3, <2>4, <2>5, <2>6, <2>7
<1>3. QED
  BY <1>1, <1>2

\* Storage commits a batch, or refuses it.
LEMMA TypedCommit ==
  ASSUME Typed, NEW w \in Run, StorageCommit(w) PROVE Typed'
<1> USE DEF Typed, TypeOK
<1> DEFINE c == call[w]
<1>0. c \in Call /\ c.st = "sent" /\ ledger \in Seq(Row) /\ Len(ledger) \in Nat
  BY LenProperties DEF StorageCommit, CallsTyped, StorageTyped
<1>1. PICK st \in {"ok", "refused", "cas", "unknown"} : Answer(w, st)
  BY DEF StorageCommit, CommitRefused, CommitApplied
<1>2. CallsTyped' /\ CallsAreQueued' /\ LeaseTyped' /\ PassTyped' /\ ViewsTyped'
  <2>1. [c EXCEPT !.st = st] \in Call
    BY <1>0 DEF Call
  <2>2. CallsTyped'
    BY <1>1, <2>1 DEF Answer, StorageCommit, CallsTyped
  <2>3. CallsAreQueued'
    BY <1>0, <1>1 DEF Answer, StorageCommit, CallsAreQueued, CallsTyped
  <2>4. QED
    BY <2>2, <2>3 DEF StorageCommit, CommitRefused, CommitApplied, WakeUp, views, LeaseTyped, PassTyped, ViewsTyped
<1>3. CASE CommitRefused(w, c)
  <2>1. PICK no \in {"refused", "cas", "unknown"} : Answer(w, no)
    BY <1>3 DEF CommitRefused
  <2>2. StorageTyped' /\ SeqsFit'
    BY <1>3, <2>1 DEF CommitRefused, Answer, storage, StorageCommit, StorageTyped, SeqsFit, views, CallsTyped
  <2>3. QED
    BY <1>2, <2>2
<1>4. CASE CommitApplied(w, c)
  <2>1. claim' \in Claim /\ lastHolder' \in Run
    BY <1>4, ConstantsAssumption DEF CommitApplied, TakeClaim, Claim, StorageTyped, ConstantsAssumption
  <2>2. CASE c.kind = "claim"
    <3>1. StorageTyped'
      BY <1>4, <2>1, <2>2 DEF CommitApplied, StorageCommit, StorageTyped
    <3>2. SeqsFit'
      BY <1>1, <1>4, <2>2 DEF CommitApplied, Answer, StorageCommit, SeqsFit, views, CallsTyped
    <3>3. QED
      BY <1>2, <3>1, <3>2
  <2>3. CASE c.kind # "claim"
    <3>1. SeqsMatch(c) /\ ApplyBatch(w, c)
      BY <1>4, <2>3 DEF CommitApplied
    <3>2. PICK row \in Row : ledger' = Append(ledger, row)
      <4> DEFINE row == [by |-> w, prev |-> c.prev, cas |-> c.kind = "cas",
                         saw |-> IF c.kind = "cas" THEN c.saw ELSE 0]
      <4>1. row \in Row
        BY <1>0 DEF Row, Call
      <4>2. ledger' = Append(ledger, row)
        BY <3>1 DEF ApplyBatch
      <4> HIDE DEF row
      <4>3. QED
        BY <4>1, <4>2
    <3>3. ledger' \in Seq(Row) /\ Len(ledger') = Len(ledger) + 1
      BY <1>0, <3>2, AppendProperties
    <3>4. reg' \in Nat /\ opOpen' \in BOOLEAN
      BY <1>0, <3>1 DEF ApplyBatch, StorageTyped, Call
    <3>5. StorageTyped'
      BY <2>1, <3>3, <3>4 DEF StorageCommit, StorageTyped
    <3>6. SeqsFit'
      BY <1>0, <1>1, <3>1, <3>3 DEF Answer, StorageCommit, SeqsMatch, SeqsFit, views, CallsTyped, ViewsTyped, Call
    <3>7. QED
      BY <1>2, <3>5, <3>6
  <2>4. QED
    BY <2>2, <2>3
<1>5. QED
  BY <1>3, <1>4 DEF StorageCommit

\* The queue is filled, or a sealed log empties it.
LEMMA TypedQueue ==
  ASSUME Typed, NEW w \in Run, (\E k \in Work : Admit(w, k)) \/ RefuseQueued(w) PROVE Typed'
<1> USE DEF Typed, TypeOK
<1>1. queue' \in [Run -> Seq(Request)] /\ \A v \in Run : call[v].st # "idle" => queue'[v] # <<>>
  <2>1. CASE RefuseQueued(w)
    <3>1. Tail(queue[w]) \in Seq(Request)
      BY <2>1, HeadTailProperties DEF RefuseQueued, CallsTyped
    <3>2. QED
      BY <2>1, <3>1 DEF RefuseQueued, CallsTyped, CallsAreQueued
  <2>2. ASSUME NEW k \in Work, Admit(w, k) PROVE <1>1
    <3> DEFINE r == [kind |-> k, saw |-> IF k = "cas" THEN regCache[w] ELSE 0]
    <3>1. r \in Request
      BY ConstantsAssumption DEF Request, ViewsTyped, ConstantsAssumption
    <3>2. Append(queue[w], r) \in Seq(Request) /\ Append(queue[w], r) # <<>>
      BY <3>1, AppendProperties, EmptySeq DEF CallsTyped
    <3>3. queue' = [queue EXCEPT ![w] = Append(queue[w], r)]
      BY <2>2 DEF Admit
    <3> HIDE DEF r
    <3>4. QED
      BY <3>2, <3>3 DEF CallsTyped, CallsAreQueued
  <2>3. QED
    BY <2>1, <2>2
<1>2. UNCHANGED <<clock, storage, phase, fault, views, call, renewal, slept, pass, owed>>
  BY DEF Admit, RefuseQueued
<1>3. QED
  BY <1>1, <1>2 DEF storage, views, StorageTyped, ViewsTyped, CallsTyped, LeaseTyped, PassTyped, CallsAreQueued, SeqsFit

\* What is left of a log's actions: its lease and its phase.
LEMMA TypedLease ==
  ASSUME Typed, NEW w \in Run,
         FinishOpen(w) \/ RenewTimer(w) \/ StorageRenew(w) \/ RenewReturn(w) \/ Close(w) \/ Abandon(w)
  PROVE Typed'
<1> USE DEF Typed, TypeOK
<1>1. CASE FinishOpen(w)
  <2>1. Authors(lastSeq[w]) \in Digest
    BY AuthorsTyped DEF SeqsFit, ViewsTyped
  <2>2. ViewsTyped'
    BY <1>1, <2>1 DEF FinishOpen, ViewsTyped, StorageTyped
  <2>3. LeaseTyped' /\ PassTyped'
    BY <1>1, Nothings DEF FinishOpen, PassAfter, LeaseTyped, PassTyped, StorageTyped
  <2>4. QED
    BY <1>1, <2>2, <2>3 DEF FinishOpen, storage, StorageTyped, CallsTyped, CallsAreQueued, SeqsFit, LeaseTyped
<1>2. CASE StorageRenew(w)
  <2>1. claim' \in Claim /\ lastHolder' \in Run \cup {None}
    BY <1>2, ConstantsAssumption DEF StorageRenew, TakeClaim, Claim, StorageTyped, ConstantsAssumption
  <2>2. LeaseTyped'
    BY <1>2 DEF StorageRenew, RenewAnswer, WakeUp, LeaseTyped
  <2>3. QED
    BY <1>2, <2>1, <2>2 DEF StorageRenew, views, StorageTyped, ViewsTyped, CallsTyped, PassTyped, CallsAreQueued, SeqsFit
<1>3. CASE RenewTimer(w) \/ RenewReturn(w) \/ Close(w) \/ Abandon(w)
  <2>1. LeaseTyped'
    BY <1>3 DEF RenewTimer, RenewReturn, Close, Abandon, SealWith, LeaseTyped, StorageTyped
  <2>2. CallsAreQueued'
    BY <1>3 DEF RenewTimer, RenewReturn, Close, Abandon, CallsAreQueued, LeaseTyped
  <2>3. UNCHANGED <<clock, storage, views, queue, call, pass, owed>>
    BY <1>3 DEF RenewTimer, RenewReturn, Close, Abandon
  <2>4. QED
    BY <2>1, <2>2, <2>3 DEF storage, views, StorageTyped, ViewsTyped, CallsTyped, PassTyped, SeqsFit
<1>4. QED
  BY <1>1, <1>2, <1>3

LEMMA TypedPass ==
  ASSUME Typed, ReclaimList \/ ReclaimClaim \/ ReclaimSkip \/ Tick PROVE Typed'
<1>1. PassTyped' /\ claim' \in Claim /\ clock' \in Nat
  <2>1. CASE ReclaimList
    BY <2>1 DEF ReclaimList, storage, Typed, TypeOK, NoPass, Pass, Claim, StorageTyped, PassTyped
  <2>2. CASE ReclaimClaim
    BY <2>2, Nothings DEF ReclaimClaim, Typed, TypeOK, Pass, StorageTyped, PassTyped
  <2>3. CASE ReclaimSkip \/ Tick
    BY <2>3, Nothings DEF ReclaimSkip, Tick, storage, Typed, TypeOK, StorageTyped, PassTyped
  <2>4. QED
    BY <2>1, <2>2, <2>3
<1>2. UNCHANGED <<ledger, reg, opOpen, phase, fault, views, queue, call, renewal, lastHolder>>
  BY DEF ReclaimList, ReclaimClaim, ReclaimSkip, Tick, storage, logs
<1>3. slept' \subseteq Run
  BY DEF ReclaimList, ReclaimClaim, ReclaimSkip, Tick, logs, Typed, TypeOK, LeaseTyped
<1>4. QED
  BY <1>1, <1>2, <1>3, TypedFrame DEF Typed, TypeOK, StorageTyped

LEMMA TypedStep == Typed /\ [Next]_vars => Typed'
<1> SUFFICES ASSUME Typed, [Next]_vars PROVE Typed'
  OBVIOUS
<1>1. ASSUME NEW w \in Run, OpenClaim(w) \/ ReclaimOpen(w) PROVE Typed'
  <2>1. TakeSession(w) /\ PassTyped'
    BY <1>1 DEF OpenClaim, ReclaimOpen, Typed, TypeOK, PassTyped, Pass
  <2>2. QED
    BY <2>1, TypedTake
<1>2. ASSUME NEW w \in Run, FailOpen(w) \/ Release(w) \/ Crash(w) PROVE Typed'
  <2>1. Forget(w) /\ PassTyped' /\ claim' \in Claim
    BY <1>2, Nothings, DropClaimTyped DEF FailOpen, Release, Crash, storage, PassAfter, Typed, TypeOK, PassTyped, StorageTyped
  <2>2. UNCHANGED <<clock, ledger, reg, opOpen, lastHolder>>
    BY <1>2 DEF FailOpen, Release, Crash, storage
  <2>3. QED
    BY <2>1, <2>2, TypedForget
<1>3. CASE UNCHANGED vars
  BY <1>3, TypedFrame DEF vars, storage, logs, Typed, TypeOK, StorageTyped, LeaseTyped, PassTyped
<1>4. QED
  BY <1>1, <1>2, <1>3, TypedPass, TypedLease, TypedQueue, TypedCommit, TypedCalls DEF Next

\* Every variable keeps its type, whatever the runs, the ttl and the bounds
\* are; on the way, no log is ever ahead of the rows, and every storage call in
\* flight belongs to an append that is still queued.
THEOREM TypeCorrect == Spec => []TypeOK
<1>1. Typed => TypeOK
  BY DEF Typed
<1>2. QED
  BY InitTyped, TypedStep, <1>1, PTL DEF Spec

-----------------------------------------------------------------------------
(* The rows, and what the logs know of them.                               *)

\* Authors, of any sequence of rows.
By(rows, n) == [i \in 1 .. n |-> rows[i].by]

LEMMA ByNext ==
  ASSUME NEW rows \in Seq(Row), NEW n \in Nat, n < Len(rows)
  PROVE By(rows, n + 1) = Append(By(rows, n), rows[n + 1].by)
<1>1. Len(rows) \in Nat /\ \A i \in 1 .. Len(rows) : rows[i].by \in Run
  <2>1. \A i \in 1 .. Len(rows) : rows[i] \in Row
    BY ElementOfSeq
  <2>2. QED
    BY <2>1, LenProperties DEF Row
<1>2. By(rows, n) \in [1 .. n -> Run] /\ By(rows, n + 1) \in [1 .. n + 1 -> Run]
  BY <1>1 DEF By
<1>3. By(rows, n) \in Seq(Run) /\ By(rows, n + 1) \in Seq(Run)
  BY <1>1, <1>2, SeqDef
<1>4. Len(By(rows, n)) = n /\ Len(By(rows, n + 1)) = n + 1
  <2>1. DOMAIN By(rows, n) = 1 .. n /\ DOMAIN By(rows, n + 1) = 1 .. n + 1
    BY DEF By
  <2> HIDE DEF By
  <2>2. QED
    BY <1>3, <2>1, LenProperties
<1> DEFINE t == Append(By(rows, n), rows[n + 1].by)
<1>5. t \in Seq(Run) /\ Len(t) = n + 1 /\ \A i \in 1 .. n + 1 : t[i] = rows[i].by
  BY <1>1, <1>3, <1>4, AppendProperties DEF By
<1>6. \A i \in 1 .. n + 1 : By(rows, n + 1)[i] = rows[i].by
  BY DEF By
<1> HIDE DEF t
<1>7. By(rows, n + 1) = t
  BY <1>3, <1>4, <1>5, <1>6, SeqEqual
<1>8. QED
  BY <1>7 DEF t

LEMMA ByKept ==
  ASSUME NEW rows \in Seq(Row), NEW row \in Row, NEW n \in 0 .. Len(rows)
  PROVE By(Append(rows, row), n) = By(rows, n)
<1>1. \A i \in 1 .. n : Append(rows, row)[i] = rows[i]
  BY AppendProperties, LenProperties
<1>2. QED
  BY <1>1 DEF By

\* A call carries the view its log had when it was made; the view is the same
\* until the answer is taken.
CallsFollowViews ==
  \A w \in Run : call[w].st # "idle" => call[w].seq = lastSeq[w] + 1 /\ call[w].prev = head[w]

\* A batch that storage has acknowledged is in the rows, where the log thinks.
OwnRowsLanded ==
  \A w \in Run :
    call[w].st = "ok" /\ call[w].kind # "claim" =>
      call[w].seq <= Len(ledger) /\ ledger[call[w].seq].by = w

Chained == ViewsArePrefixes /\ ChainIsLinear /\ CallsFollowViews /\ OwnRowsLanded

LEMMA InitChained == Init => Chained
BY DEF Init, Chained, ViewsArePrefixes, ChainIsLinear, CallsFollowViews, OwnRowsLanded, NoCall

\* No view is moved, no row is written: a call may end, and a log may go.
LEMMA ChainedFrame ==
  ASSUME Typed, Chained, UNCHANGED <<ledger, lastSeq, head>>,
         \A v \in Run : call'[v] = call[v] \/ call'[v].st = "idle",
         \A v \in Run : phase'[v] \in {"open", "closing"} => phase[v] \in {"open", "closing"}
  PROVE Chained'
<1>1. \A n : Authors(n)' = Authors(n)
  BY DEF Authors
<1>2. ViewsArePrefixes' /\ ChainIsLinear'
  BY <1>1 DEF Chained, ViewsArePrefixes, ChainIsLinear
<1>3. QED
  BY <1>2 DEF Chained, CallsFollowViews, OwnRowsLanded

LEMMA ChainedTake ==
  ASSUME Typed, Chained, NEW w \in Run, TakeSession(w) PROVE Chained'
<1>1. \A n : Authors(n)' = Authors(n)
  BY DEF Authors, TakeSession
<1>2. call[w].st = "idle"
  BY DEF TakeSession, Typed, CallsAreQueued
<1>3. Len(ledger) \in Nat /\ \A v \in Run : lastSeq'[v] = IF v = w THEN Len(ledger) ELSE lastSeq[v]
  BY LenProperties DEF TakeSession, Typed, TypeOK, StorageTyped, ViewsTyped
<1>4. \A v \in Run : phase'[v] \in {"open", "closing"} => v # w /\ phase[v] \in {"open", "closing"}
  BY DEF TakeSession, Typed, TypeOK, LeaseTyped
<1>5. ViewsArePrefixes' /\ ChainIsLinear'
  BY <1>1, <1>3, <1>4 DEF Chained, ViewsArePrefixes, ChainIsLinear, TakeSession
<1>6. CallsFollowViews' /\ OwnRowsLanded'
  BY <1>2, <1>3 DEF Chained, CallsFollowViews, OwnRowsLanded, TakeSession
<1>7. QED
  BY <1>5, <1>6 DEF Chained

LEMMA ChainedFinish ==
  ASSUME Typed, Chained, NEW w \in Run, FinishOpen(w) PROVE Chained'
<1>1. \A n : Authors(n)' = Authors(n)
  BY DEF Authors, FinishOpen, storage
<1>2. call[w].st = "idle"
  BY DEF FinishOpen, Typed, CallsAreQueued
<1>3. \A v \in Run : head'[v] = IF v = w THEN Authors(lastSeq[v]) ELSE head[v]
  BY DEF FinishOpen, Typed, TypeOK, ViewsTyped
<1>4. ViewsArePrefixes' /\ ChainIsLinear'
  BY <1>1, <1>3 DEF Chained, ViewsArePrefixes, ChainIsLinear, FinishOpen, storage, Typed, TypeOK, LeaseTyped
<1>5. CallsFollowViews' /\ OwnRowsLanded'
  BY <1>2, <1>3 DEF Chained, CallsFollowViews, OwnRowsLanded, FinishOpen, storage
<1>6. QED
  BY <1>4, <1>5 DEF Chained

LEMMA ChainedSend ==
  ASSUME Typed, Chained, NEW w \in Run, Send(w) PROVE Chained'
<1>1. \A n : Authors(n)' = Authors(n)
  BY DEF Authors, Send, storage
<1>2. ViewsArePrefixes' /\ ChainIsLinear'
  BY <1>1 DEF Chained, ViewsArePrefixes, ChainIsLinear, Send, storage, views
<1>3. CallsFollowViews' /\ OwnRowsLanded'
  BY DEF Chained, CallsFollowViews, OwnRowsLanded, Send, storage, views, Typed, TypeOK, CallsTyped
<1>4. QED
  BY <1>2, <1>3 DEF Chained

\* The log that hears of its own row knows one row more.
LEMMA ChainedReturn ==
  ASSUME Typed, Chained, NEW w \in Run, Return(w) PROVE Chained'
<1> DEFINE c == call[w]
<1>0. c \in Call /\ c.st \notin {"idle", "sent"} /\ c.seq = lastSeq[w] + 1 /\ c.prev = head[w]
  BY DEF Return, Typed, TypeOK, CallsTyped, Chained, CallsFollowViews
<1>1. call'[w].st = "idle" /\ \A v \in Run \ {w} : call'[v] = call[v]
  BY DEF Return, NoCall, Typed, TypeOK, CallsTyped
<1>2. CASE UNCHANGED views
  BY <1>1, <1>2, ChainedFrame DEF Return, views, storage
<1>3. CASE c.st = "ok" /\ c.kind # "claim" /\ Advance(w, c)
  <2>1. lastSeq[w] \in Nat /\ c.seq <= Len(ledger) /\ ledger[c.seq].by = w /\ Len(ledger) \in Nat
    BY <1>3, LenProperties DEF Chained, OwnRowsLanded, Typed, TypeOK, ViewsTyped, StorageTyped
  <2>2. phase[w] \in {"open", "closing"}
    BY <1>0 DEF Typed, CallsAreQueued
  <2>3. Authors(c.seq) = Append(c.prev, w)
    <3>1. c.prev = By(ledger, lastSeq[w])
      BY <1>0, <2>2 DEF Chained, ViewsArePrefixes, Authors, By
    <3>2. By(ledger, c.seq) = Append(c.prev, w)
      BY <1>0, <2>1, <3>1, ByNext DEF Typed, TypeOK, StorageTyped
    <3>3. QED
      BY <3>2 DEF Authors, By
  <2>4. /\ lastSeq'[w] = c.seq /\ head'[w] = Append(c.prev, w)
        /\ \A v \in Run \ {w} : lastSeq'[v] = lastSeq[v] /\ head'[v] = head[v]
    BY <1>3 DEF Advance, Typed, TypeOK, ViewsTyped
  <2>5. UNCHANGED <<ledger, phase>> /\ \A n : Authors(n)' = Authors(n)
    BY DEF Return, storage, Authors
  <2>6. ViewsArePrefixes' /\ ChainIsLinear'
    BY <2>1, <2>3, <2>4, <2>5 DEF Chained, ViewsArePrefixes, ChainIsLinear
  <2>7. CallsFollowViews' /\ OwnRowsLanded'
    BY <1>1, <2>4, <2>5 DEF Chained, CallsFollowViews, OwnRowsLanded
  <2>8. QED
    BY <2>6, <2>7 DEF Chained
<1>4. QED
  BY <1>2, <1>3 DEF Return, TakeAnswer, views

\* A row is only ever chained to all of the rows before it: storage takes the
\* batch of a log only if that log has seen the last row.
LEMMA ChainedCommit ==
  ASSUME Typed, Chained, NEW w \in Run, StorageCommit(w) PROVE Chained'
<1> DEFINE c == call[w]
<1>0. c \in Call /\ c.st = "sent" /\ c.seq = lastSeq[w] + 1 /\ c.prev = head[w]
  BY DEF StorageCommit, Typed, TypeOK, CallsTyped, Chained, CallsFollowViews
<1>1. UNCHANGED <<phase, lastSeq, head>>
  BY DEF StorageCommit, views
<1>2. PICK st \in {"ok", "refused", "cas", "unknown"} :
        Answer(w, st) /\ (st = "ok" => CommitApplied(w, c))
  BY DEF StorageCommit, CommitRefused, CommitApplied
<1>3. /\ \A v \in Run \ {w} : call'[v] = call[v]
      /\ call'[w].st = st /\ call'[w].kind = c.kind /\ call'[w].seq = c.seq /\ call'[w].prev = c.prev
  BY <1>0, <1>2 DEF Answer, Call, Typed, TypeOK, CallsTyped
<1>4. CallsFollowViews'
  BY <1>0, <1>1, <1>3 DEF Chained, CallsFollowViews, Call
<1>5. CASE ledger' = ledger /\ ~(c.kind # "claim" /\ CommitApplied(w, c))
  <2>1. \A n : Authors(n)' = Authors(n)
    BY <1>5 DEF Authors
  <2>2. ViewsArePrefixes' /\ ChainIsLinear'
    BY <1>1, <1>5, <2>1 DEF Chained, ViewsArePrefixes, ChainIsLinear
  <2>3. OwnRowsLanded'
    BY <1>2, <1>3, <1>5 DEF Chained, OwnRowsLanded
  <2>4. QED
    BY <1>4, <2>2, <2>3 DEF Chained
<1>6. CASE c.kind # "claim" /\ CommitApplied(w, c)
  <2> DEFINE row == [by |-> w, prev |-> c.prev, cas |-> c.kind = "cas",
                     saw |-> IF c.kind = "cas" THEN c.saw ELSE 0]
  <2>1. ledger' = Append(ledger, row) /\ c.seq = Len(ledger) + 1
    BY <1>6 DEF CommitApplied, SeqsMatch, ApplyBatch
  <2>2. row \in Row /\ row.by = w /\ row.prev = c.prev
    BY <1>0 DEF Row, Call
  <2> HIDE DEF row
  <2>3. ledger \in Seq(Row) /\ Len(ledger) \in Nat
    BY LenProperties DEF Typed, TypeOK, StorageTyped
  <2>4. /\ Len(ledger') = Len(ledger) + 1
        /\ ledger'[Len(ledger) + 1] = row
        /\ \A i \in 1 .. Len(ledger) : ledger'[i] = ledger[i]
    BY <2>1, <2>2, <2>3, AppendProperties
  <2>5. \A n \in 0 .. Len(ledger) : Authors(n)' = Authors(n)
    BY <2>1, <2>2, <2>3, ByKept DEF Authors, By
  <2>6. \A v \in Run : lastSeq[v] \in 0 .. Len(ledger)
    BY <2>3 DEF Typed, TypeOK, ViewsTyped, SeqsFit
  <2>7. ViewsArePrefixes'
    BY <1>1, <2>3, <2>4, <2>5, <2>6 DEF Chained, ViewsArePrefixes
  <2>8. ChainIsLinear'
    <3>1. lastSeq[w] = Len(ledger) /\ phase[w] \in {"open", "closing"}
      BY <1>0, <2>1, <2>3, <2>6 DEF Typed, CallsAreQueued
    <3>2. row.prev = Authors(Len(ledger))
      BY <1>0, <2>2, <3>1 DEF Chained, ViewsArePrefixes
    <3>3. ASSUME NEW i \in 1 .. Len(ledger') PROVE ledger'[i].prev = Authors(i - 1)'
      <4>1. CASE i = Len(ledger) + 1
        BY <2>3, <2>4, <2>5, <3>2, <4>1
      <4>2. CASE i \in 1 .. Len(ledger)
        BY <2>3, <2>4, <2>5, <4>2 DEF Chained, ChainIsLinear
      <4>3. QED
        BY <2>3, <2>4, <4>1, <4>2
    <3>4. QED
      BY <3>3 DEF ChainIsLinear
  <2>9. OwnRowsLanded'
    <3>1. \A v \in Run \ {w} : call[v].st = "ok" /\ call[v].kind # "claim" =>
            call[v].seq \in 1 .. Len(ledger) /\ ledger[call[v].seq].by = v
      <4>1. \A v \in Run : call[v].seq \in Nat /\ (call[v].st # "idle" => call[v].seq = lastSeq[v] + 1)
        BY DEF Typed, TypeOK, CallsTyped, Call, Chained, CallsFollowViews
      <4>2. QED
        BY <2>3, <2>6, <4>1 DEF Chained, OwnRowsLanded
    <3>2. QED
      BY <1>3, <2>1, <2>2, <2>3, <2>4, <3>1 DEF OwnRowsLanded
  <2>10. QED
    BY <1>4, <2>7, <2>8, <2>9 DEF Chained
<1>7. QED
  BY <1>5, <1>6 DEF StorageCommit, CommitRefused, CommitApplied, storage

Inv == Typed /\ Chained

\* The steps of Next other than those the lemmas above are about.
LEMMA QuietSteps ==
  ASSUME Typed, [Next]_vars,
         ~ \E w \in Run : TakeSession(w) \/ FinishOpen(w) \/ Send(w) \/ Return(w) \/ StorageCommit(w)
  PROVE /\ UNCHANGED <<ledger, lastSeq, head>>
        /\ \A v \in Run : call'[v] = call[v] \/ call'[v].st = "idle"
        /\ \A v \in Run : phase'[v] \in {"open", "closing"} => phase[v] \in {"open", "closing"}
<1> DEFINE Quiet == /\ UNCHANGED <<ledger, lastSeq, head>>
                    /\ \A v \in Run : call'[v] = call[v] \/ call'[v].st = "idle"
                    /\ \A v \in Run : phase'[v] \in {"open", "closing"} => phase[v] \in {"open", "closing"}
<1>1. ASSUME NEW w \in Run, FailOpen(w) \/ Release(w) \/ Crash(w) PROVE Quiet
  <2>1. Forget(w) /\ UNCHANGED ledger
    BY <1>1 DEF FailOpen, Release, Crash, storage
  <2>2. QED
    BY <2>1 DEF Forget, NoCall, Typed, TypeOK, CallsTyped, LeaseTyped
<1>2. ASSUME NEW w \in Run, Close(w) \/ Abandon(w) PROVE Quiet
  BY <1>2 DEF Close, Abandon, storage, views, Typed, TypeOK, LeaseTyped
<1>3. ASSUME NEW w \in Run, (\E k \in Work : Admit(w, k)) \/ RefuseQueued(w) PROVE Quiet
  BY <1>3 DEF Admit, RefuseQueued, storage, views
<1>4. ASSUME NEW w \in Run, RenewTimer(w) \/ StorageRenew(w) \/ RenewReturn(w) PROVE Quiet
  BY <1>4 DEF RenewTimer, StorageRenew, RenewReturn, storage, views
<1>5. CASE ReclaimList \/ ReclaimClaim \/ ReclaimSkip \/ Tick \/ UNCHANGED vars
  BY <1>5 DEF ReclaimList, ReclaimClaim, ReclaimSkip, Tick, vars, logs, storage, views
<1>6. QED
  BY <1>1, <1>2, <1>3, <1>4, <1>5 DEF Next, OpenClaim, ReclaimOpen

LEMMA InvStep == Inv /\ [Next]_vars => Inv'
<1> SUFFICES ASSUME Typed, Chained, [Next]_vars PROVE Inv'
  BY DEF Inv
<1>1. Typed'
  BY TypedStep
<1>2. Chained'
  BY QuietSteps, ChainedFrame, ChainedTake, ChainedFinish, ChainedSend, ChainedReturn, ChainedCommit
<1>3. QED
  BY <1>1, <1>2 DEF Inv

LEMMA Invariance == Spec => []Inv
<1>1. Init => Inv
  BY InitTyped, InitChained DEF Inv
<1>2. QED
  BY <1>1, InvStep, PTL DEF Spec

\* The stored rows form one unbroken hash chain, however many runs write them,
\* lapse, crash and are resumed: storage checks the lease and the seqs, and a
\* log that passes those checks has hashed all of the rows it chains its own to.
THEOREM ChainStaysLinear == Spec => []ChainIsLinear
BY Invariance, PTL DEF Inv, Chained

\* No acknowledged append is ever missing, moved or replaced: what a log holds
\* is a prefix of the rows, also after another run took its session.
THEOREM ViewsStayPrefixes == Spec => []ViewsArePrefixes
BY Invariance, PTL DEF Inv, Chained

-----------------------------------------------------------------------------
(* The ledger implements the append-only log.                              *)

LEMMA LogLen ==
  ASSUME Typed
  PROVE /\ Authors(Len(ledger)) \in Seq(Run)
        /\ Len(Authors(Len(ledger))) = Len(ledger)
        /\ Len(ledger) \in Nat
<1>1. Len(ledger) \in Nat
  BY LenProperties DEF Typed, TypeOK, StorageTyped
<1>2. Authors(Len(ledger)) \in Seq(Run)
  BY <1>1, AuthorsTyped DEF Typed, TypeOK, Digest
<1>3. DOMAIN Authors(Len(ledger)) = 1 .. Len(ledger)
  BY DEF Authors
<1>4. QED
  BY <1>1, <1>2, <1>3, LenProperties

LEMMA LogInit == Init => Log!Init
<1> SUFFICES ASSUME Init PROVE Log!Init
  OBVIOUS
<1>1. Len(ledger) = 0
  BY DEF Init
<1>2. Authors(Len(ledger)) = <<>>
  BY <1>1, InitTyped, LogLen, EmptySeq
<1>3. QED
  BY <1>2 DEF Init, Log!Init

\* Opening is Join; a batch that storage commits is Land; the answer that it
\* landed is Learn; nothing else moves the log or what a run knows of it.
LEMMA LogStep == Inv /\ [Next]_vars => [Log!Next]_<<Authors(Len(ledger)), lastSeq>>
<1> SUFFICES ASSUME Typed, Chained, [Next]_vars
             PROVE Log!Next \/ UNCHANGED <<Authors(Len(ledger)), lastSeq>>
  BY DEF Inv
<1>1. ASSUME NEW w \in Run, TakeSession(w) PROVE Log!Join(w)
  BY <1>1, LogLen DEF TakeSession, Authors, Log!Join
<1>2. ASSUME NEW w \in Run, StorageCommit(w), ledger' # ledger PROVE Log!Land(w)
  <2>0. call[w] \in Call /\ call[w].seq = lastSeq[w] + 1 /\ lastSeq[w] \in Nat
    BY <1>2 DEF StorageCommit, Typed, TypeOK, CallsTyped, ViewsTyped, Chained, CallsFollowViews
  <2> DEFINE row == [by |-> w, prev |-> call[w].prev, cas |-> call[w].kind = "cas",
                     saw |-> IF call[w].kind = "cas" THEN call[w].saw ELSE 0]
  <2>1. ledger' = Append(ledger, row) /\ call[w].seq = Len(ledger) + 1 /\ lastSeq' = lastSeq
    BY <1>2 DEF StorageCommit, CommitRefused, CommitApplied, SeqsMatch, ApplyBatch, storage, views
  <2>2. row \in Row /\ row.by = w
    BY <2>0 DEF Row, Call
  <2> HIDE DEF row
  <2>3. ledger \in Seq(Row) /\ ledger' \in Seq(Row) /\ Len(ledger') = Len(ledger) + 1 /\ ledger'[Len(ledger) + 1] = row
    BY <2>1, <2>2, AppendProperties DEF Typed, TypeOK, StorageTyped
  <2>4. By(ledger', Len(ledger) + 1) = Append(By(ledger', Len(ledger)), w)
    BY <2>2, <2>3, LogLen, ByNext
  <2>5. By(ledger', Len(ledger)) = By(ledger, Len(ledger))
    BY <2>1, <2>2, <2>3, LogLen, ByKept
  <2>6. Authors(Len(ledger))' = Append(Authors(Len(ledger)), w)
    BY <2>3, <2>4, <2>5 DEF Authors, By
  <2>7. QED
    BY <2>0, <2>1, <2>6, LogLen DEF Log!Land
<1>3. ASSUME NEW w \in Run, Return(w), lastSeq' # lastSeq PROVE Log!Learn(w)
  <2>1. /\ call[w].st = "ok" /\ call[w].kind # "claim" /\ Advance(w, call[w])
        /\ call[w].seq = lastSeq[w] + 1 /\ call[w] \in Call
    BY <1>3 DEF Return, TakeAnswer, views, Chained, CallsFollowViews, Typed, TypeOK, CallsTyped
  <2>2. call[w].seq <= Len(ledger) /\ ledger[lastSeq[w] + 1].by = w /\ lastSeq[w] \in Nat
    BY <2>1 DEF Chained, OwnRowsLanded, Typed, TypeOK, ViewsTyped
  <2>3. Authors(Len(ledger))[lastSeq[w] + 1] = w
    BY <2>1, <2>2, LogLen DEF Authors
  <2>4. UNCHANGED Authors(Len(ledger))
    BY <1>3 DEF Return, storage, Authors
  <2>5. QED
    BY <2>1, <2>2, <2>3, <2>4, LogLen DEF Advance, Log!Learn
<1>4. CASE UNCHANGED <<ledger, lastSeq>>
  BY <1>4 DEF Authors
<1>5. ASSUME NEW w \in Run, FinishOpen(w) \/ Send(w) PROVE UNCHANGED <<ledger, lastSeq>>
  BY <1>5 DEF FinishOpen, Send, storage, views
<1>6. ASSUME NEW w \in Run, StorageCommit(w) PROVE UNCHANGED lastSeq
  BY <1>6 DEF StorageCommit, views
<1>7. ASSUME NEW w \in Run, Return(w) PROVE UNCHANGED ledger
  BY <1>7 DEF Return, storage
<1>8. QED
  BY <1>1, <1>2, <1>3, <1>4, <1>5, <1>6, <1>7, QuietSteps DEF Log!Next

\* A session's ledger is an append-only log to its writers: each of them appends
\* only to a history it knows all of, and knows a prefix of the history.
THEOREM LedgerIsAppendLog == Spec => LogSpec
<1>1. Inv /\ [Next]_vars => [Log!Next]_<<Authors(Len(ledger)), lastSeq>>
  BY LogStep
<1>2. QED
  BY <1>1, LogInit, Invariance, PTL DEF Spec, LogSpec, Log!Spec

-----------------------------------------------------------------------------
(* The lease: what the run that holds it knows, and what can be taken from *)
(* it.                                                                     *)

(* The invariant: of storage, and of each run.                             *)

\* A claim is in the table for the run that last took or extended it, if at all.
ClaimIsHolders == claim.run \in {None, lastHolder}

\* The reclaimer compares deadlines with the time at which its pass began.
PassIsPast == pass.now <= clock

\* The cell's seq is that of the last row that wrote it.
RegIsLast == \A j \in 1 .. Len(ledger) : ledger[j].cas => j <= reg

StorageOK == ClaimIsHolders /\ PassIsPast /\ RegIsLast /\ NoLostUpdate

\* Nothing can fail before the open is over, and a lost lease is the last word.
FaultFits(w) ==
  /\ phase[w] \in {"unborn", "opening"} => fault[w] = "none" /\ renewal[w] = "none"
  /\ fault[w] = "lease" => call[w].st = "idle"

\* A log that knows the last row knows the cells.
CellsAreCurrent(w) ==
  phase[w] \in {"open", "closing"} /\ lastSeq[w] = Len(ledger) => regCache[w] = reg /\ turn[w] = opOpen

\* The same, once the log has taken the answer that is on its way.
AnswerIsCurrent(w) ==
  call[w].st = "ok" /\ call[w].kind # "claim" /\ call[w].seq = Len(ledger) =>
    /\ reg = IF call[w].kind = "cas" THEN call[w].seq ELSE regCache[w]
    /\ opOpen = (call[w].kind = "turn" \/ (turn[w] /\ call[w].kind # "end"))

\* The last row a log will know of when it has taken the answer on its way.
Expected(w) == IF call[w].st = "ok" /\ call[w].kind # "claim" THEN call[w].seq ELSE lastSeq[w]

\* A log that may still write is one that, if it has the claim, knows every row:
\* a batch in flight counts even when the log was sealed after it was sent.
MayWrite(w) ==
  /\ Live(w) /\ call[w].st # "unknown"
  /\ Sealed(w) => call[w].st \in {"sent", "ok"}
HolderSawAll(w) == lastHolder = w /\ MayWrite(w) => Expected(w) = Len(ledger)

RefusedIsReplaced(w) == call[w].st = "refused" \/ fault[w] = "lease" => lastHolder # w

RunOK(w) ==
  FaultFits(w) /\ CellsAreCurrent(w) /\ AnswerIsCurrent(w) /\ HolderSawAll(w) /\ RefusedIsReplaced(w)

Lease == StorageOK /\ \A w \in Run : RunOK(w)

LEMMA InitLease == Init => Lease
<1> SUFFICES ASSUME Init PROVE Lease
  OBVIOUS
<1>1. Len(ledger) = 0
  BY EmptySeq DEF Init
<1>2. StorageOK
  BY <1>1 DEF Init, NoClaim, NoPass, StorageOK, ClaimIsHolders, PassIsPast, RegIsLast, NoLostUpdate
<1>3. ASSUME NEW w \in Run PROVE RunOK(w)
  <2>1. phase[w] = "unborn" /\ fault[w] = "none" /\ renewal[w] = "none" /\ call[w].st = "idle"
    BY DEF Init, NoCall
  <2>2. QED
    BY <2>1 DEF RunOK, FaultFits, CellsAreCurrent, AnswerIsCurrent, HolderSawAll, MayWrite, Live, RefusedIsReplaced
<1>4. QED
  BY <1>2, <1>3 DEF Lease

-----------------------------------------------------------------------------
(* Frames.                                                                 *)

LEMMA StorageFrame ==
  ASSUME StorageOK, UNCHANGED <<ledger, reg>>, ClaimIsHolders', PassIsPast' PROVE StorageOK'
BY DEF StorageOK, RegIsLast, NoLostUpdate

\* A run goes on as it was, though its renewal may have failed, or it may close.
Kept(v) ==
  /\ call'[v] = call[v] /\ lastSeq'[v] = lastSeq[v] /\ regCache'[v] = regCache[v] /\ turn'[v] = turn[v]
  /\ phase'[v] = phase[v] \/ (phase[v] = "open" /\ phase'[v] = "closing")
  /\ \/ fault'[v] = fault[v] /\ renewal'[v] = renewal[v]
     \/ /\ phase[v] \notin {"unborn", "opening"}
        /\ fault'[v] = fault[v] \/ fault'[v] \notin {"none", "lease"}

Gone(v) == phase'[v] = "gone" /\ fault'[v] = "none" /\ call'[v].st = "idle"

\* Storage as it was; or the claim taken by another run, which may have added a row.
Undisturbed(v) ==
  \/ UNCHANGED <<ledger, reg, opOpen, lastHolder>>
  \/ /\ lastHolder' # v
     /\ UNCHANGED <<ledger, reg, opOpen>> \/ Len(ledger') = Len(ledger) + 1

LEMMA RunFrame ==
  ASSUME Typed, NEW v \in Run, RunOK(v), Kept(v), Undisturbed(v) PROVE RunOK(v)'
<1>0. Len(ledger) \in Nat /\ lastSeq[v] \in Nat /\ lastSeq[v] <= Len(ledger)
  BY LenProperties DEF Typed, TypeOK, StorageTyped, ViewsTyped, SeqsFit
<1>1. /\ call[v].seq \in Nat
      /\ call[v].st = "ok" /\ call[v].kind # "claim" => call[v].seq <= Len(ledger)
  BY DEF Typed, TypeOK, CallsTyped, Call, SeqsFit
<1>2. FaultFits(v)'
  BY DEF RunOK, FaultFits, Kept
<1>3. CellsAreCurrent(v)'
  BY <1>0 DEF RunOK, CellsAreCurrent, Kept, Undisturbed
<1>4. AnswerIsCurrent(v)'
  <2>1. CASE UNCHANGED <<ledger, reg, opOpen>>
    BY <2>1 DEF RunOK, AnswerIsCurrent, Kept
  <2>2. CASE Len(ledger') = Len(ledger) + 1
    BY <1>0, <1>1, <2>2 DEF AnswerIsCurrent, Kept
  <2>3. QED
    BY <2>1, <2>2 DEF Undisturbed
<1>5. HolderSawAll(v)'
  <2>1. CASE UNCHANGED <<ledger, lastHolder>>
    BY <2>1 DEF RunOK, HolderSawAll, MayWrite, Live, Sealed, Expected, Kept
  <2>2. CASE lastHolder' # v
    BY <2>2 DEF HolderSawAll
  <2>3. QED
    BY <2>1, <2>2 DEF Undisturbed
<1>6. RefusedIsReplaced(v)'
  BY DEF RunOK, RefusedIsReplaced, Kept, Undisturbed
<1>7. QED
  BY <1>2, <1>3, <1>4, <1>5, <1>6 DEF RunOK

LEMMA RunForgotten == ASSUME NEW v \in Run, Gone(v) PROVE RunOK(v)'
BY DEF Gone, RunOK, FaultFits, CellsAreCurrent, AnswerIsCurrent, HolderSawAll, MayWrite, Live, RefusedIsReplaced

\* Steps that touch neither the rows nor what a log knows of them.
LEMMA LeaseFrame ==
  ASSUME Typed, Lease, UNCHANGED <<ledger, reg, opOpen, lastHolder>>,
         claim' = claim \/ claim' = NoClaim, PassIsPast',
         \A v \in Run : Kept(v) \/ Gone(v)
  PROVE Lease'
<1>1. ClaimIsHolders'
  BY DEF Lease, StorageOK, ClaimIsHolders, NoClaim
<1>2. StorageOK'
  BY <1>1, StorageFrame DEF Lease
<1>3. ASSUME NEW v \in Run PROVE RunOK(v)'
  <2>1. Undisturbed(v) /\ RunOK(v)
    BY DEF Undisturbed, Lease
  <2>2. QED
    BY <2>1, RunFrame, RunForgotten
<1>4. QED
  BY <1>2, <1>3 DEF Lease

-----------------------------------------------------------------------------
(* The steps.                                                              *)

\* Storage gives the claim to a run that opens the session.
LEMMA LeaseTake ==
  ASSUME Typed, Lease, NEW w \in Run, TakeSession(w), pass'.now = pass.now, clock' = clock PROVE Lease'
<1>1. claim'.run = w /\ lastHolder' = w /\ UNCHANGED <<ledger, reg, opOpen>>
  BY DEF TakeSession, TakeClaim
<1>2. StorageOK'
  BY <1>1, StorageFrame DEF Lease, StorageOK, ClaimIsHolders, PassIsPast
<1>3. ASSUME NEW v \in Run, v # w PROVE RunOK(v)'
  <2>1. Kept(v)
    BY <1>3 DEF TakeSession, Kept, Typed, TypeOK, LeaseTyped, ViewsTyped
  <2>2. Undisturbed(v)
    BY <1>1, <1>3 DEF Undisturbed
  <2>3. QED
    BY <2>1, <2>2, RunFrame DEF Lease
<1>4. RunOK(w)'
  <2>1. phase[w] = "unborn" /\ fault[w] = "none" /\ renewal[w] = "none" /\ call[w].st = "idle"
    BY DEF TakeSession, Lease, RunOK, FaultFits, Typed, CallsAreQueued
  <2>2. phase'[w] = "opening" /\ lastSeq'[w] = Len(ledger) /\ UNCHANGED <<ledger, fault, renewal, call>>
    BY DEF TakeSession, Typed, TypeOK, LeaseTyped, ViewsTyped
  <2>3. QED
    BY <2>1, <2>2
    DEF RunOK, FaultFits, CellsAreCurrent, AnswerIsCurrent, HolderSawAll, MayWrite, Expected, RefusedIsReplaced
<1>5. QED
  BY <1>2, <1>3, <1>4 DEF Lease

\* A log reads the cells after its history: it may be behind the rows by then,
\* but it has the cells of now.
LEMMA LeaseFinish ==
  ASSUME Typed, Lease, NEW w \in Run, FinishOpen(w) PROVE Lease'
<1>0. UNCHANGED <<clock, claim, ledger, reg, opOpen, lastHolder, fault, lastSeq, call, renewal>>
  BY DEF FinishOpen, storage
<1>1. StorageOK'
  <2>1. PassIsPast'
    BY <1>0 DEF FinishOpen, PassAfter, NoPass, Lease, StorageOK, PassIsPast, Typed, TypeOK, StorageTyped
  <2>2. QED
    BY <1>0, <2>1, StorageFrame DEF Lease, StorageOK, ClaimIsHolders
<1>2. ASSUME NEW v \in Run, v # w PROVE RunOK(v)'
  <2>1. Kept(v) /\ Undisturbed(v)
    BY <1>0, <1>2 DEF FinishOpen, Kept, Undisturbed, Typed, TypeOK, LeaseTyped, ViewsTyped
  <2>2. QED
    BY <2>1, RunFrame DEF Lease
<1>3. RunOK(w)'
  <2>1. call[w].st = "idle" /\ phase[w] = "opening" /\ fault[w] = "none" /\ RunOK(w)
    BY DEF FinishOpen, Lease, RunOK, FaultFits, Typed, CallsAreQueued
  <2>2. phase'[w] = "open" /\ regCache'[w] = reg /\ turn'[w] = opOpen
    BY DEF FinishOpen, Typed, TypeOK, LeaseTyped, ViewsTyped
  <2>3. QED
    BY <1>0, <2>1, <2>2
    DEF RunOK, FaultFits, CellsAreCurrent, AnswerIsCurrent, HolderSawAll, MayWrite, Live, Sealed, Expected,
        RefusedIsReplaced
<1>4. QED
  BY <1>1, <1>2, <1>3 DEF Lease

LEMMA LeaseSend ==
  ASSUME Typed, Lease, NEW w \in Run, Send(w) PROVE Lease'
<1>0. UNCHANGED <<clock, claim, ledger, reg, opOpen, lastHolder, phase, fault, lastSeq, regCache, turn, renewal, pass>>
  BY DEF Send, storage, views
<1>1. StorageOK'
  BY <1>0, StorageFrame DEF Lease, StorageOK, ClaimIsHolders, PassIsPast
<1>2. ASSUME NEW v \in Run, v # w PROVE RunOK(v)'
  <2>1. Kept(v) /\ Undisturbed(v)
    BY <1>0, <1>2 DEF Send, Kept, Undisturbed, Typed, TypeOK, CallsTyped
  <2>2. QED
    BY <2>1, RunFrame DEF Lease
<1>3. RunOK(w)'
  <2>1. call[w].st = "idle" /\ phase[w] \in {"open", "closing"} /\ fault[w] = "none" /\ RunOK(w)
    BY DEF Send, Sealed, Lease
  <2>2. call'[w].st = "sent"
    BY DEF Send, Typed, TypeOK, CallsTyped
  <2>3. QED
    BY <1>0, <2>1, <2>2
    DEF RunOK, FaultFits, CellsAreCurrent, AnswerIsCurrent, HolderSawAll, MayWrite, Live, Sealed, Expected,
        RefusedIsReplaced
<1>4. QED
  BY <1>1, <1>2, <1>3 DEF Lease

\* A log takes storage's answer: the view it has then is the one that was
\* expected of it, or the log seals itself.
LEMMA LeaseReturn ==
  ASSUME Typed, Chained, Lease, NEW w \in Run, Return(w) PROVE Lease'
<1> DEFINE c == call[w]
<1>0. UNCHANGED <<clock, claim, ledger, reg, opOpen, lastHolder, phase, renewal, pass>>
  BY DEF Return, storage
<1>1. StorageOK'
  BY <1>0, StorageFrame DEF Lease, StorageOK, ClaimIsHolders, PassIsPast
<1>2. UNCHANGED views \/ Advance(w, c)
  BY DEF Return, TakeAnswer
<1>3. ASSUME NEW v \in Run, v # w PROVE RunOK(v)'
  <2>1. lastSeq'[v] = lastSeq[v] /\ regCache'[v] = regCache[v] /\ turn'[v] = turn[v]
    BY <1>2, <1>3 DEF views, Advance, Typed, TypeOK, ViewsTyped
  <2>2. call'[v] = call[v] /\ fault'[v] = fault[v]
    BY <1>3 DEF Return, TakeAnswer, SealWith, Typed, TypeOK, CallsTyped, LeaseTyped
  <2>3. Kept(v) /\ Undisturbed(v)
    BY <1>0, <2>1, <2>2 DEF Kept, Undisturbed
  <2>4. QED
    BY <2>3, RunFrame DEF Lease
<1>4. RunOK(w)'
  <2>1. /\ RunOK(w) /\ c \in Call /\ phase[w] \in {"open", "closing"}
        /\ c.st \in {"ok", "cas", "refused", "unknown"} /\ c.seq = lastSeq[w] + 1 /\ lastSeq[w] \in Nat
    BY DEF Return, Lease, Typed, TypeOK, CallsTyped, ViewsTyped, CallsAreQueued, Chained, CallsFollowViews, Call
  <2>2. call'[w].st = "idle"
    BY DEF Return, NoCall, Typed, TypeOK, CallsTyped
  <2>3. AnswerIsCurrent(w)'
    BY <2>2 DEF AnswerIsCurrent
  <2>4. FaultFits(w)'
    BY <1>0, <2>1, <2>2 DEF FaultFits
  <2>5. CASE c.st = "ok" /\ c.kind # "claim"
    <3>1. fault' = fault /\ Advance(w, c)
      BY <2>5 DEF Return, TakeAnswer
    <3>2. /\ lastSeq'[w] = c.seq
          /\ regCache'[w] = IF c.kind = "cas" THEN c.seq ELSE regCache[w]
          /\ turn'[w] = (c.kind = "turn" \/ (turn[w] /\ c.kind # "end"))
      BY <3>1 DEF Advance, Typed, TypeOK, ViewsTyped
    <3>3. CellsAreCurrent(w)'
      BY <1>0, <2>1, <2>5, <3>2 DEF RunOK, AnswerIsCurrent, CellsAreCurrent
    <3>4. HolderSawAll(w)'
      BY <1>0, <2>1, <2>2, <2>5, <3>1, <3>2 DEF RunOK, HolderSawAll, MayWrite, Live, Sealed, Expected
    <3>5. RefusedIsReplaced(w)'
      BY <1>0, <2>1, <2>2, <3>1 DEF RunOK, RefusedIsReplaced
    <3>6. QED
      BY <2>3, <2>4, <3>3, <3>4, <3>5 DEF RunOK
  <2>6. CASE ~(c.st = "ok" /\ c.kind # "claim")
    <3>1. UNCHANGED <<lastSeq, regCache, turn>>
      BY <2>6 DEF Return, TakeAnswer, views
    <3>2. CellsAreCurrent(w)'
      BY <1>0, <2>1, <3>1 DEF RunOK, CellsAreCurrent
    <3>3. /\ c.st \in {"ok", "cas"} => fault'[w] = fault[w]
          /\ c.st \in {"refused", "unknown"} => fault'[w] # "none"
          /\ fault'[w] = "lease" => c.st = "refused" \/ fault[w] = "lease"
      BY <2>1 DEF Return, TakeAnswer, SealWith, Typed, TypeOK, LeaseTyped
    <3>4. HolderSawAll(w)'
      BY <1>0, <2>1, <2>2, <2>6, <3>1, <3>3 DEF RunOK, HolderSawAll, MayWrite, Live, Sealed, Expected
    <3>5. RefusedIsReplaced(w)'
      BY <1>0, <2>1, <2>2, <3>3 DEF RunOK, RefusedIsReplaced
    <3>6. QED
      BY <2>3, <2>4, <3>2, <3>4, <3>5 DEF RunOK
  <2>7. QED
    BY <2>5, <2>6
<1>5. QED
  BY <1>1, <1>3, <1>4 DEF Lease

\* The lease is only ever granted to a log that knows the last row: a run whose
\* claim is in the table knew it when it took the claim, and a lapsed one is
\* asked for the seq it expects.
LEMMA GrantedSawAll ==
  ASSUME Typed, Chained, Lease, NEW w \in Run, call[w].st = "sent", LeaseGranted(w, call[w].seq - 1)
  PROVE lastSeq[w] = Len(ledger)
<1>1. call[w].seq = lastSeq[w] + 1 /\ lastSeq[w] \in Nat /\ phase[w] \in {"open", "closing"} /\ w # None
  BY ConstantsAssumption
  DEF Chained, CallsFollowViews, Typed, TypeOK, ViewsTyped, CallsAreQueued, ConstantsAssumption
<1>2. CASE claim.run = w
  <2>1. lastHolder = w /\ RunOK(w)
    BY <1>1, <1>2 DEF Lease, StorageOK, ClaimIsHolders
  <2>2. QED
    BY <1>1, <2>1 DEF RunOK, HolderSawAll, MayWrite, Live, Expected
<1>3. CASE Len(ledger) = call[w].seq - 1
  BY <1>1, <1>3
<1>4. QED
  BY <1>2, <1>3 DEF LeaseGranted

\* And it is refused to nobody that was not replaced.
LEMMA RefusedWasReplaced ==
  ASSUME Typed, Chained, Lease, NEW w \in Run, call[w].st = "sent", ~LeaseGranted(w, call[w].seq - 1)
  PROVE lastHolder # w
<1> SUFFICES ASSUME lastHolder = w PROVE FALSE
  OBVIOUS
<1>1. call[w].seq = lastSeq[w] + 1 /\ lastSeq[w] \in Nat /\ phase[w] \in {"open", "closing"}
  BY DEF Chained, CallsFollowViews, Typed, TypeOK, ViewsTyped, CallsAreQueued
<1>2. Len(ledger) = call[w].seq - 1
  BY <1>1 DEF Lease, RunOK, HolderSawAll, MayWrite, Live, Expected
<1>3. QED
  BY <1>2 DEF LeaseGranted, Lease, StorageOK, ClaimIsHolders

LEMMA LeaseRefuse ==
  ASSUME Typed, Chained, Lease, NEW w \in Run, StorageCommit(w), CommitRefused(w, call[w]) PROVE Lease'
<1>0. UNCHANGED <<clock, claim, ledger, reg, opOpen, lastHolder, phase, fault, lastSeq, regCache, turn, renewal, pass>>
  BY DEF StorageCommit, CommitRefused, storage, views
<1>1. PICK st \in {"refused", "cas", "unknown"} :
        Answer(w, st) /\ (st = "refused" => ~LeaseGranted(w, call[w].seq - 1))
  BY DEF CommitRefused
<1>2. StorageOK'
  BY <1>0, StorageFrame DEF Lease, StorageOK, ClaimIsHolders, PassIsPast
<1>3. ASSUME NEW v \in Run, v # w PROVE RunOK(v)'
  <2>1. Kept(v) /\ Undisturbed(v)
    BY <1>0, <1>1, <1>3 DEF Answer, Kept, Undisturbed, Typed, TypeOK, CallsTyped
  <2>2. QED
    BY <2>1, RunFrame DEF Lease
<1>4. RunOK(w)'
  <2>1. /\ call[w].st = "sent" /\ phase[w] \in {"open", "closing"} /\ fault[w] # "lease" /\ RunOK(w)
        /\ call'[w].st = st
    BY <1>1 DEF StorageCommit, Answer, Lease, RunOK, FaultFits, Typed, CallsAreQueued, TypeOK, CallsTyped, Call
  <2>2. FaultFits(w)' /\ CellsAreCurrent(w)' /\ AnswerIsCurrent(w)'
    BY <1>0, <2>1 DEF RunOK, FaultFits, CellsAreCurrent, AnswerIsCurrent
  <2>3. HolderSawAll(w)'
    BY <1>0, <2>1 DEF RunOK, HolderSawAll, MayWrite, Live, Sealed, Expected
  <2>4. RefusedIsReplaced(w)'
    BY <1>0, <1>1, <2>1, RefusedWasReplaced DEF RefusedIsReplaced
  <2>5. QED
    BY <2>2, <2>3, <2>4 DEF RunOK
<1>5. QED
  BY <1>2, <1>3, <1>4 DEF Lease

LEMMA BatchLength ==
  ASSUME Typed, NEW w \in Run, NEW c \in Call, ApplyBatch(w, c) PROVE Len(ledger') = Len(ledger) + 1
<1> DEFINE row == [by |-> w, prev |-> c.prev, cas |-> c.kind = "cas",
                   saw |-> IF c.kind = "cas" THEN c.saw ELSE 0]
<1>1. row \in Row /\ ledger' = Append(ledger, row)
  BY DEF Row, Call, ApplyBatch
<1> HIDE DEF row
<1>2. QED
  BY <1>1, AppendProperties DEF Typed, TypeOK, StorageTyped

\* A row that was written where it was expected keeps the cells in order.
LEMMA BatchStorage ==
  ASSUME Typed, StorageOK, NEW w \in Run, NEW c \in Call,
         SeqsMatch(c), CasHolds(c), ApplyBatch(w, c), ClaimIsHolders', PassIsPast'
  PROVE StorageOK'
<1> DEFINE row == [by |-> w, prev |-> c.prev, cas |-> c.kind = "cas",
                   saw |-> IF c.kind = "cas" THEN c.saw ELSE 0]
<1>1. row \in Row /\ (row.cas <=> c.kind = "cas") /\ (row.cas => row.saw = reg)
  BY DEF Row, Call, CasHolds
<1>2. ledger' = Append(ledger, row)
  BY DEF ApplyBatch
<1> HIDE DEF row
<1>3. /\ Len(ledger) \in Nat /\ Len(ledger') = Len(ledger) + 1
      /\ ledger'[Len(ledger) + 1] = row
      /\ \A i \in 1 .. Len(ledger) : ledger'[i] = ledger[i]
  BY <1>1, <1>2, AppendProperties, LenProperties DEF Typed, TypeOK, StorageTyped
<1>4. RegIsLast'
  <2>1. reg' = IF c.kind = "cas" THEN Len(ledger) + 1 ELSE reg
    BY DEF ApplyBatch, SeqsMatch
  <2>2. ASSUME NEW j \in 1 .. Len(ledger'), ledger'[j].cas PROVE j <= reg'
    <3>1. CASE j = Len(ledger) + 1
      BY <1>1, <1>3, <2>1, <2>2, <3>1
    <3>2. CASE j \in 1 .. Len(ledger)
      BY <1>3, <2>1, <2>2, <3>2 DEF StorageOK, RegIsLast
    <3>3. QED
      BY <1>3, <3>1, <3>2
  <2>3. QED
    BY <2>2 DEF RegIsLast
<1>5. NoLostUpdate'
  <2>1. ASSUME NEW i \in 1 .. Len(ledger'), ledger'[i].cas, NEW j \in ledger'[i].saw + 1 .. i - 1
        PROVE ~ledger'[j].cas
    <3>1. reg \in Nat /\ \A k \in 1 .. Len(ledger) : ledger[k] \in Row
      BY ElementOfSeq DEF Typed, TypeOK, StorageTyped
    <3>2. CASE i = Len(ledger) + 1
      <4>1. j \in 1 .. Len(ledger) /\ j > reg
        BY <1>1, <1>3, <2>1, <3>1, <3>2
      <4>2. QED
        BY <1>3, <3>1, <4>1 DEF StorageOK, RegIsLast
    <3>3. CASE i \in 1 .. Len(ledger)
      <4>1. ledger'[i] = ledger[i] /\ ledger[i].saw \in Nat
        BY <1>3, <3>1, <3>3 DEF Row
      <4>2. j \in 1 .. Len(ledger) /\ j \in ledger[i].saw + 1 .. i - 1
        BY <1>3, <2>1, <3>3, <4>1
      <4>3. QED
        BY <1>3, <2>1, <3>3, <4>1, <4>2 DEF StorageOK, NoLostUpdate
    <3>4. QED
      BY <1>3, <3>2, <3>3
  <2>2. QED
    BY <2>1 DEF NoLostUpdate
<1>6. QED
  BY <1>4, <1>5 DEF StorageOK

LEMMA LeaseApply ==
  ASSUME Typed, Chained, Lease, NEW w \in Run, StorageCommit(w), CommitApplied(w, call[w]) PROVE Lease'
<1> DEFINE c == call[w]
<1>0. /\ UNCHANGED <<clock, phase, fault, lastSeq, regCache, turn, renewal, pass>>
      /\ claim'.run = w /\ lastHolder' = w
  BY DEF StorageCommit, CommitApplied, TakeClaim, views
<1>1. /\ c \in Call /\ c.st = "sent" /\ c.seq = lastSeq[w] + 1 /\ phase[w] \in {"open", "closing"}
      /\ Len(ledger) \in Nat /\ lastSeq[w] = Len(ledger)
  BY GrantedSawAll, LenProperties
  DEF StorageCommit, CommitApplied, Chained, CallsFollowViews, Typed, TypeOK, StorageTyped, CallsTyped, CallsAreQueued
<1>2. PICK st \in {"ok", "unknown"} : Answer(w, st)
  BY DEF CommitApplied
<1>3. /\ \A v \in Run \ {w} : call'[v] = call[v]
      /\ call'[w].st = st /\ call'[w].kind = c.kind /\ call'[w].seq = c.seq
  BY <1>1, <1>2 DEF Answer, Typed, TypeOK, CallsTyped, Call
<1>4. \/ c.kind = "claim" /\ UNCHANGED <<ledger, reg, opOpen>>
      \/ c.kind # "claim" /\ SeqsMatch(c) /\ ApplyBatch(w, c)
  BY DEF CommitApplied
<1>5. UNCHANGED <<ledger, reg, opOpen>> \/ Len(ledger') = Len(ledger) + 1
  BY <1>1, <1>4, BatchLength
<1>6. StorageOK'
  <2>1. ClaimIsHolders' /\ PassIsPast'
    BY <1>0 DEF Lease, StorageOK, ClaimIsHolders, PassIsPast
  <2>2. CasHolds(c) /\ StorageOK
    BY DEF CommitApplied, Lease
  <2>3. QED
    BY <1>1, <1>4, <2>1, <2>2, StorageFrame, BatchStorage
<1>7. ASSUME NEW v \in Run, v # w PROVE RunOK(v)'
  <2>1. Kept(v) /\ Undisturbed(v)
    BY <1>0, <1>3, <1>5, <1>7 DEF Kept, Undisturbed
  <2>2. QED
    BY <2>1, RunFrame DEF Lease
<1>8. RunOK(w)'
  <2>1. RunOK(w) /\ fault[w] # "lease" /\ regCache[w] = reg /\ turn[w] = opOpen
    BY <1>1 DEF Lease, RunOK, FaultFits, CellsAreCurrent
  <2>2. FaultFits(w)' /\ RefusedIsReplaced(w)'
    BY <1>0, <1>1, <1>3, <2>1 DEF FaultFits, RefusedIsReplaced
  <2>3. CASE c.kind = "claim"
    <3>1. UNCHANGED <<ledger, reg, opOpen>>
      BY <1>4, <2>3
    <3>2. CellsAreCurrent(w)' /\ AnswerIsCurrent(w)' /\ HolderSawAll(w)'
      BY <1>0, <1>1, <1>3, <2>1, <2>3, <3>1 DEF CellsAreCurrent, AnswerIsCurrent, HolderSawAll, Expected
    <3>3. QED
      BY <2>2, <3>2 DEF RunOK
  <2>4. CASE c.kind # "claim"
    <3>1. c.seq = Len(ledger) + 1 /\ Len(ledger') = Len(ledger) + 1
      BY <1>1, <1>4, <2>4, BatchLength DEF SeqsMatch
    <3>2. /\ reg' = IF c.kind = "cas" THEN c.seq ELSE reg
          /\ opOpen' = (c.kind = "turn" \/ (opOpen /\ c.kind # "end"))
      BY <1>4, <2>4 DEF ApplyBatch
    <3>3. CellsAreCurrent(w)'
      BY <1>0, <1>1, <3>1 DEF CellsAreCurrent
    <3>4. AnswerIsCurrent(w)'
      BY <1>0, <1>3, <2>1, <3>2 DEF AnswerIsCurrent
    <3>5. HolderSawAll(w)'
      BY <1>3, <2>4, <3>1 DEF HolderSawAll, MayWrite, Expected
    <3>6. QED
      BY <2>2, <3>3, <3>4, <3>5 DEF RunOK
  <2>5. QED
    BY <2>3, <2>4
<1>9. QED
  BY <1>6, <1>7, <1>8 DEF Lease

\* The timer's renewal reaches storage: it extends a claim, and gives none.
LEMMA LeaseRenew ==
  ASSUME Typed, Lease, NEW w \in Run, StorageRenew(w) PROVE Lease'
<1>0. UNCHANGED <<clock, ledger, reg, opOpen, phase, fault, lastSeq, regCache, turn, call, pass>>
  BY DEF StorageRenew, views
<1>1. lastHolder' = lastHolder /\ claim'.run = claim.run
  <2>1. CASE claim.run = w /\ TakeClaim(w)
    <3>1. lastHolder = w
      BY <2>1, ConstantsAssumption DEF Lease, StorageOK, ClaimIsHolders, ConstantsAssumption
    <3>2. QED
      BY <2>1, <3>1 DEF TakeClaim
  <2>2. QED
    BY <2>1 DEF StorageRenew, LeaseHeld
<1>2. StorageOK'
  BY <1>0, <1>1, StorageFrame DEF Lease, StorageOK, ClaimIsHolders, PassIsPast
<1>3. ASSUME NEW v \in Run PROVE RunOK(v)'
  <2>1. \A u \in Run : phase[u] \in {"unborn", "opening"} => renewal[u] = "none"
    BY DEF Lease, RunOK, FaultFits
  <2>2. renewal'[v] = renewal[v] \/ phase[v] \notin {"unborn", "opening"}
    BY <2>1 DEF StorageRenew, RenewAnswer, Typed, TypeOK, LeaseTyped
  <2>3. Kept(v) /\ Undisturbed(v)
    BY <1>0, <1>1, <2>2 DEF Kept, Undisturbed
  <2>4. QED
    BY <2>3, RunFrame DEF Lease
<1>4. QED
  BY <1>2, <1>3 DEF Lease

\* A log goes: released, crashed, or never opened.
LEMMA LeaseForget ==
  ASSUME Typed, Lease, NEW w \in Run, FailOpen(w) \/ Release(w) \/ Crash(w) PROVE Lease'
<1>1. /\ Forget(w) /\ UNCHANGED <<clock, ledger, reg, opOpen, lastHolder>>
      /\ claim' = claim \/ claim' = NoClaim
      /\ pass' = pass \/ pass' = NoPass
  BY DEF FailOpen, Release, Crash, storage, DropClaim, PassAfter
<1>2. PassIsPast'
  BY <1>1 DEF NoPass, Lease, StorageOK, PassIsPast, Typed, TypeOK, StorageTyped
<1>3. \A v \in Run : Kept(v) \/ Gone(v)
  BY <1>1 DEF Forget, Kept, Gone, NoCall, Typed, TypeOK, LeaseTyped, CallsTyped, ViewsTyped
<1>4. QED
  BY <1>1, <1>2, <1>3, LeaseFrame

\* What a log does without storage.
LEMMA LeaseQuietLog ==
  ASSUME Typed, Lease, NEW w \in Run,
         \/ (\E k \in Work : Admit(w, k)) \/ RefuseQueued(w)
         \/ RenewTimer(w) \/ RenewReturn(w) \/ Close(w) \/ Abandon(w)
  PROVE Lease'
<1>1. UNCHANGED <<clock, claim, ledger, reg, opOpen, lastHolder, lastSeq, regCache, turn, call, pass>>
  BY DEF Admit, RefuseQueued, RenewTimer, RenewReturn, Close, Abandon, storage, views
<1>2. PassIsPast'
  BY <1>1 DEF Lease, StorageOK, PassIsPast
<1>3. \A v \in Run : Kept(v)
  <2>1. CASE (\E k \in Work : Admit(w, k)) \/ RefuseQueued(w)
    BY <1>1, <2>1 DEF Admit, RefuseQueued, Kept
  <2>2. CASE RenewTimer(w) \/ Close(w) \/ Abandon(w)
    BY <1>1, <2>2 DEF RenewTimer, Close, Abandon, SealWith, Kept, Typed, TypeOK, LeaseTyped
  <2>3. CASE RenewReturn(w)
    <3>1. phase[w] \notin {"unborn", "opening"}
      BY <2>3 DEF RenewReturn, Lease, RunOK, FaultFits
    <3>2. QED
      BY <1>1, <2>3, <3>1 DEF RenewReturn, SealWith, Kept, Typed, TypeOK, LeaseTyped
  <2>4. QED
    BY <2>1, <2>2, <2>3
<1>4. QED
  BY <1>1, <1>2, <1>3, LeaseFrame

\* What the reclaimer and the clock do.
LEMMA LeaseQuietPass ==
  ASSUME Typed, Lease, ReclaimList \/ ReclaimClaim \/ ReclaimSkip \/ Tick PROVE Lease'
<1>1. UNCHANGED <<ledger, reg, opOpen, lastHolder, phase, fault, lastSeq, regCache, turn, call, renewal>>
  BY DEF ReclaimList, ReclaimClaim, ReclaimSkip, Tick, storage, logs, views
<1>2. claim' = claim \/ claim' = NoClaim
  BY DEF ReclaimList, ReclaimClaim, ReclaimSkip, Tick, storage
<1>3. PassIsPast'
  <2>1. CASE ReclaimList
    BY <2>1 DEF ReclaimList, NoPass, PassIsPast, Typed, TypeOK, StorageTyped
  <2>2. CASE ReclaimClaim \/ ReclaimSkip
    <3>1. pass'.now = pass.now \/ pass'.now = 0
      BY <2>2 DEF ReclaimClaim, ReclaimSkip, NoPass, Typed, TypeOK, PassTyped, Pass
    <3>2. clock' = clock /\ clock \in Nat
      BY <2>2 DEF ReclaimClaim, ReclaimSkip, Typed, TypeOK, StorageTyped
    <3>3. QED
      BY <3>1, <3>2 DEF Lease, StorageOK, PassIsPast
  <2>3. CASE Tick
    BY <2>3 DEF Tick, Lease, StorageOK, PassIsPast, Typed, TypeOK, StorageTyped, PassTyped, Pass
  <2>4. QED
    BY <2>1, <2>2, <2>3
<1>4. \A v \in Run : Kept(v)
  BY <1>1 DEF Kept
<1>5. QED
  BY <1>1, <1>2, <1>3, <1>4, LeaseFrame

LEMMA LeaseStep == Inv /\ Lease /\ [Next]_vars => Lease'
<1> SUFFICES ASSUME Typed, Chained, Lease, [Next]_vars PROVE Lease'
  BY DEF Inv
<1>1. ASSUME NEW w \in Run, OpenClaim(w) \/ ReclaimOpen(w) PROVE Lease'
  <2>1. TakeSession(w) /\ clock' = clock
    BY <1>1 DEF OpenClaim, ReclaimOpen, TakeSession
  <2>2. pass'.now = pass.now
    BY <1>1 DEF OpenClaim, ReclaimOpen, Typed, TypeOK, PassTyped, Pass
  <2>3. QED
    BY <2>1, <2>2, LeaseTake
<1>2. ASSUME NEW w \in Run, StorageCommit(w) PROVE Lease'
  BY <1>2, LeaseRefuse, LeaseApply DEF StorageCommit
<1>3. CASE UNCHANGED vars
  <2>1. /\ UNCHANGED <<ledger, reg, opOpen, lastHolder>> /\ claim' = claim /\ PassIsPast'
        /\ \A v \in Run : Kept(v)
    BY <1>3 DEF vars, storage, logs, views, Kept, Lease, StorageOK, PassIsPast
  <2>2. QED
    BY <2>1, LeaseFrame
<1>4. QED
  BY <1>1, <1>2, <1>3, LeaseFinish, LeaseSend, LeaseReturn, LeaseRenew, LeaseForget, LeaseQuietLog, LeaseQuietPass
  DEF Next

LEMMA LeaseInvariance == Spec => [](Inv /\ Lease)
<1>1. Init => Inv /\ Lease
  BY InitTyped, InitChained, InitLease DEF Inv
<1>2. Inv /\ Lease /\ [Next]_vars => (Inv /\ Lease)'
  BY InvStep, LeaseStep
<1>3. QED
  BY <1>1, <1>2, PTL DEF Spec

-----------------------------------------------------------------------------
(* What a log loses its lease for.                                         *)

\* A log that has not slept past its deadline holds the claim.
Awake(w) == Live(w) /\ w \notin slept => LeaseHeld(w)

\* And only one that has is refused anything; a renewal is a live log's.
RefusedSlept(w) ==
  /\ call[w].st = "refused" \/ renewal[w] = "refused" \/ fault[w] \in {"lease", "lapsed"} => w \in slept
  /\ renewal[w] # "none" => Live(w)

Lapse == \A w \in Run : Awake(w) /\ RefusedSlept(w)

\* A run that goes on, with nothing new refused to it, and the claim as it was
\* or as an awake log keeps it.
LEMMA LapseFrame ==
  ASSUME Lapse, NEW v \in Run, Live(v)' => Live(v), Live(v) => Live(v)', v \in slept => v \in slept',
         Live(v)' /\ v \notin slept' /\ LeaseHeld(v) => LeaseHeld(v)',
         call'[v].st = "refused" => call[v].st = "refused",
         renewal'[v] \in {"none", renewal[v]} \/ (renewal'[v] \in {"sent", "failed"} /\ Live(v)),
         fault'[v] \in {"lease", "lapsed"} =>
           fault[v] \in {"lease", "lapsed"} \/ call[v].st = "refused" \/ renewal[v] = "refused"
  PROVE Awake(v)' /\ RefusedSlept(v)'
BY DEF Lapse, Awake, RefusedSlept

LEMMA LapseTake ==
  ASSUME Typed, Lease, Lapse, NEW w \in Run, TakeSession(w) PROVE Lapse'
<1>1. /\ claim' = [run |-> w, until |-> clock + Ttl] /\ clock' = clock /\ clock + Ttl >= clock
      /\ UNCHANGED <<fault, call, renewal, slept>>
  BY ConstantsAssumption DEF TakeSession, TakeClaim, ConstantsAssumption, Typed, TypeOK, StorageTyped
<1>2. ASSUME NEW v \in Run, v # w PROVE Awake(v)' /\ RefusedSlept(v)'
  <2>1. phase'[v] = phase[v] /\ v # None
    BY <1>2, ConstantsAssumption DEF TakeSession, Typed, TypeOK, LeaseTyped, ConstantsAssumption
  <2>2. ~LeaseHeld(v)
    BY <1>2, <2>1 DEF TakeSession, OpenGranted, LeaseHeld, Typed, TypeOK, StorageTyped, Claim
  <2>3. QED
    BY <1>1, <2>1, <2>2 DEF Lapse, Awake, RefusedSlept, Live
<1>3. Awake(w)' /\ RefusedSlept(w)'
  <2>1. phase[w] = "unborn" /\ fault[w] = "none" /\ renewal[w] = "none" /\ call[w].st = "idle"
    BY DEF TakeSession, Lease, RunOK, FaultFits, Typed, CallsAreQueued
  <2>2. QED
    BY <1>1, <2>1 DEF Awake, RefusedSlept, LeaseHeld
<1>4. QED
  BY <1>2, <1>3 DEF Lapse

\* A log that goes takes its own claim with it, if any, and nobody else's.
LEMMA LapseForget ==
  ASSUME Typed, Lapse, NEW w \in Run, FailOpen(w) \/ Release(w) \/ Crash(w) PROVE Lapse'
<1>1. Forget(w) /\ clock' = clock /\ (claim' = claim \/ DropClaim(w))
  BY DEF FailOpen, Release, Crash, storage
<1>2. Awake(w)' /\ RefusedSlept(w)'
  BY <1>1 DEF Forget, NoCall, Awake, RefusedSlept, Live, Typed, TypeOK, LeaseTyped, CallsTyped
<1>3. ASSUME NEW v \in Run, v # w PROVE Awake(v)' /\ RefusedSlept(v)'
  <2>1. /\ phase'[v] = phase[v] /\ fault'[v] = fault[v] /\ renewal'[v] = renewal[v] /\ call'[v] = call[v]
        /\ v \in slept <=> v \in slept'
    BY <1>1, <1>3 DEF Forget, Typed, TypeOK, LeaseTyped, CallsTyped
  <2>2. LeaseHeld(v) => LeaseHeld(v)'
    BY <1>1, <1>3 DEF DropClaim, LeaseHeld
  <2>3. QED
    BY <2>1, <2>2 DEF Lapse, Awake, RefusedSlept, Live
<1>4. QED
  BY <1>2, <1>3 DEF Lapse

\* Storage's transactions: an awake log's claim is extended or left alone, and
\* what is refused is refused to one that does not hold it.
LEMMA LapseStorage ==
  ASSUME Typed, Lease, Lapse, NEW w \in Run, StorageCommit(w) \/ StorageRenew(w) PROVE Lapse'
<1>1. clock' = clock /\ UNCHANGED <<phase, fault>> /\ clock + Ttl >= clock /\ Live(w) /\ w # None
  BY ConstantsAssumption
  DEF StorageCommit, StorageRenew, ConstantsAssumption, Typed, TypeOK, StorageTyped, CallsAreQueued, Live,
      Lapse, RefusedSlept
<1>2. \/ claim' = claim /\ slept' = slept
      \/ TakeClaim(w) /\ WakeUp(w) /\ (LeaseHeld(w) \/ claim.run \in {None, w})
  BY DEF StorageCommit, StorageRenew, CommitRefused, CommitApplied, storage, LeaseGranted, LeaseHeld
<1>3. ASSUME NEW v \in Run, LeaseHeld(v) PROVE LeaseHeld(v)'
  <2>1. v # None
    BY ConstantsAssumption DEF ConstantsAssumption
  <2>2. QED
    BY <1>1, <1>2, <1>3, <2>1 DEF LeaseHeld, TakeClaim
<1>4. ASSUME NEW v \in Run
      PROVE /\ call'[v].st = "refused" => call[v].st = "refused" \/ v \in slept
            /\ renewal'[v] = "refused" => renewal[v] = "refused" \/ v \in slept
            /\ renewal'[v] # "none" => renewal[v] # "none"
  <2>1. CASE StorageCommit(w)
    <3>1. \/ call'[v] = call[v]
          \/ v = w /\ (call'[v].st = "refused" => ~LeaseGranted(w, call[w].seq - 1))
      BY <2>1 DEF StorageCommit, CommitRefused, CommitApplied, Answer, Typed, TypeOK, CallsTyped, Call
    <3>2. ~LeaseGranted(w, call[w].seq - 1) => w \in slept
      BY <1>1 DEF LeaseGranted, LeaseHeld, Lapse, Awake
    <3>3. QED
      BY <2>1, <3>1, <3>2 DEF StorageCommit
  <2>2. CASE StorageRenew(w)
    <3>1. ~LeaseHeld(w) => w \in slept
      BY <1>1 DEF Lapse, Awake
    <3>2. QED
      BY <2>2, <3>1 DEF StorageRenew, RenewAnswer, Typed, TypeOK, LeaseTyped
  <2>3. QED
    BY <2>1, <2>2
<1>5. CASE slept' = slept
  BY <1>1, <1>3, <1>4, <1>5 DEF Lapse, Awake, RefusedSlept, Live
\* It extends its claim, so it holds it, and it was refused nothing before.
<1>6. CASE w \in slept /\ slept' = slept \ {w} /\ TakeClaim(w) /\ ~Sealed(w) /\ renewal[w] # "refused"
  <2>1. LeaseHeld(w)'
    BY <1>1, <1>6 DEF TakeClaim, LeaseHeld
  <2>2. call'[w].st # "refused" /\ renewal'[w] # "refused"
    <3>1. CASE StorageCommit(w)
      <4>1. call'[w].st \in {"ok", "unknown"}
        BY <1>6, <3>1 DEF StorageCommit, CommitRefused, CommitApplied, Answer, Typed, TypeOK, CallsTyped, Call
      <4>2. QED
        BY <1>6, <3>1, <4>1 DEF StorageCommit
    <3>2. CASE StorageRenew(w)
      <4>1. renewal'[w] \in {"none", "failed"} /\ LeaseHeld(w) /\ call' = call
        BY <1>6, <3>2 DEF StorageRenew, RenewAnswer, Typed, TypeOK, LeaseTyped
      <4>2. lastHolder = w
        BY <4>1, ConstantsAssumption DEF LeaseHeld, Lease, StorageOK, ClaimIsHolders, ConstantsAssumption
      <4>3. QED
        BY <4>1, <4>2 DEF Lease, RunOK, RefusedIsReplaced
    <3>3. QED
      BY <1>6, <3>1, <3>2
  <2>3. Awake(w)' /\ RefusedSlept(w)'
    BY <1>1, <1>4, <1>6, <2>1, <2>2 DEF Lapse, Awake, RefusedSlept, Live, Sealed
  <2>4. ASSUME NEW v \in Run, v # w PROVE Awake(v)' /\ RefusedSlept(v)'
    BY <1>1, <1>3, <1>4, <1>6, <2>4 DEF Lapse, Awake, RefusedSlept, Live
  <2>5. QED
    BY <2>3, <2>4 DEF Lapse
<1>7. slept \ {w} = slept \/ w \in slept
  OBVIOUS
<1>8. QED
  BY <1>2, <1>5, <1>6, <1>7 DEF WakeUp

\* What a log does without storage.
LEMMA LapseQuietLog ==
  ASSUME Typed, Lease, Lapse, NEW w \in Run,
         \/ FinishOpen(w) \/ Send(w) \/ Return(w) \/ (\E k \in Work : Admit(w, k)) \/ RefuseQueued(w)
         \/ RenewTimer(w) \/ RenewReturn(w) \/ Close(w) \/ Abandon(w)
  PROVE Lapse'
<1>1. UNCHANGED <<clock, claim, slept>>
  BY DEF FinishOpen, Send, Return, Admit, RefuseQueued, RenewTimer, RenewReturn, Close, Abandon, storage
<1>2. ASSUME NEW v \in Run PROVE Awake(v)' /\ RefusedSlept(v)'
  <2>1. Live(v) <=> Live(v)'
    BY DEF FinishOpen, Send, Return, Admit, RefuseQueued, RenewTimer, RenewReturn, Close, Abandon, Live,
           Typed, TypeOK, LeaseTyped
  <2>2. call'[v].st = "refused" => call[v].st = "refused"
    <3>1. CASE Send(w)
      BY <3>1 DEF Send, Typed, TypeOK, CallsTyped
    <3>2. CASE Return(w)
      BY <3>2 DEF Return, NoCall, Typed, TypeOK, CallsTyped
    <3>3. QED
      BY <3>1, <3>2 DEF FinishOpen, Admit, RefuseQueued, RenewTimer, RenewReturn, Close, Abandon
  <2>3. renewal'[v] \in {"none", renewal[v]} \/ (renewal'[v] = "sent" /\ Live(v))
    BY DEF FinishOpen, Send, Return, Admit, RefuseQueued, RenewTimer, RenewReturn, Close, Abandon, Live,
           Typed, TypeOK, LeaseTyped
  <2>4. fault'[v] \in {"lease", "lapsed"} =>
          fault[v] \in {"lease", "lapsed"} \/ call[v].st = "refused" \/ renewal[v] = "refused"
    BY DEF FinishOpen, Send, Return, TakeAnswer, Admit, RefuseQueued, RenewTimer, RenewReturn, Close, Abandon,
           SealWith, Typed, TypeOK, LeaseTyped
  <2>5. LeaseHeld(v) => LeaseHeld(v)'
    BY <1>1 DEF LeaseHeld
  <2>6. QED
    BY <1>1, <2>1, <2>2, <2>3, <2>4, <2>5, LapseFrame
<1>3. QED
  BY <1>2 DEF Lapse

\* The clock puts a log to sleep; a pass of the reclaimer deletes no awake
\* log's claim, because it looks at the deadline again.
LEMMA LapsePass ==
  ASSUME Typed, Lease, Lapse, ReclaimList \/ ReclaimClaim \/ ReclaimSkip \/ Tick \/ UNCHANGED vars PROVE Lapse'
<1>1. UNCHANGED <<phase, fault, call, renewal>>
  BY DEF ReclaimList, ReclaimClaim, ReclaimSkip, Tick, storage, logs, vars
<1>2. slept \subseteq slept'
  BY DEF ReclaimList, ReclaimClaim, ReclaimSkip, Tick, storage, logs, vars
<1>3. ASSUME NEW v \in Run, Live(v), v \notin slept', LeaseHeld(v) PROVE LeaseHeld(v)'
  <2>1. CASE Tick
    <3>1. claim' = claim /\ claim.run = v /\ claim.until \in Nat /\ clock' \in Nat
      BY <1>3, <2>1 DEF Tick, storage, LeaseHeld, Typed, TypeOK, StorageTyped, Claim
    <3>2. ~(claim.until < clock')
      BY <1>3, <2>1, <3>1 DEF Tick
    <3>3. QED
      BY <3>1, <3>2 DEF LeaseHeld
  <2>2. CASE ReclaimClaim
    <3>1. ~StillListed
      BY <1>3, <2>2 DEF StillListed, LeaseHeld, Lease, StorageOK, PassIsPast, Typed, TypeOK, StorageTyped, Claim,
                        PassTyped, Pass
    <3>2. QED
      BY <1>3, <2>2, <3>1 DEF ReclaimClaim, LeaseHeld
  <2>3. CASE ReclaimList \/ ReclaimSkip \/ UNCHANGED vars
    BY <1>3, <2>3 DEF ReclaimList, ReclaimSkip, vars, storage, LeaseHeld
  <2>4. QED
    BY <2>1, <2>2, <2>3
<1>4. QED
  BY <1>1, <1>2, <1>3 DEF Lapse, Awake, RefusedSlept, Live

LEMMA LapseInvariance == Spec => []Lapse
<1>1. Init => Lapse
  BY DEF Init, NoCall, Lapse, Awake, RefusedSlept, Live
<1>2. Inv /\ Lease /\ Lapse /\ [Next]_vars => Lapse'
  <2> SUFFICES ASSUME Typed, Lease, Lapse, [Next]_vars PROVE Lapse'
    BY DEF Inv
  <2>1. QED
    BY LapseTake, LapseForget, LapseStorage, LapseQuietLog, LapsePass DEF Next, OpenClaim, ReclaimOpen
<1>3. QED
  BY <1>1, <1>2, LeaseInvariance, PTL DEF Spec

-----------------------------------------------------------------------------
(* The theorems.                                                           *)

\* No compare-and-set is lost: storage compares the cell's seq in the transaction
\* that writes it, and that seq is the one of the last row that wrote the cell.
THEOREM NoUpdateIsLost == Spec => []NoLostUpdate
BY LeaseInvariance, PTL DEF Lease, StorageOK

\* A log that nobody replaced and that waits for no answer has the stored state
\* in its view, its idea of an open turn included, whatever it slept through:
\* nobody else can have written without taking the claim from it.
THEOREM HolderStaysUpToDate == Spec => []HolderIsUpToDate
<1>1. Inv /\ Lease => HolderIsUpToDate
  <2> SUFFICES ASSUME Lease, NEW w \in Run, lastHolder = w, Live(w), ~Sealed(w), call[w].st \notin {"ok", "unknown"}
               PROVE UpToDate(w)
    BY DEF HolderIsUpToDate
  <2>1. lastSeq[w] = Len(ledger)
    BY DEF Lease, RunOK, HolderSawAll, MayWrite, Expected
  <2>2. phase[w] # "opening" => regCache[w] = reg /\ turn[w] = opOpen
    BY <2>1 DEF Live, Lease, RunOK, CellsAreCurrent
  <2>3. QED
    BY <2>1, <2>2 DEF UpToDate
<1>2. QED
  BY <1>1, LeaseInvariance, PTL

\* A batch is refused for the lease only to a log that another run replaced,
\* and neither a batch nor the timer's renewal to one that extended its claim
\* in time: what makes the timer seal a log nobody replaced is its own sleep.
THEOREM LeaseIsLostOnlyIfLapsed == Spec => []LeaseLostOnlyIfLapsed
<1>1. Lease /\ Lapse => LeaseLostOnlyIfLapsed
  BY DEF Lease, RunOK, RefusedIsReplaced, Lapse, RefusedSlept, LeaseLostOnlyIfLapsed
<1>2. QED
  BY <1>1, LeaseInvariance, LapseInvariance, PTL

\* Outside a log's own end, a claim is deleted only when it has lapsed by the
\* clock of now and no turn is open: the reclaimer rechecks what it listed, and
\* the time its pass began is not ahead of the clock.
THEOREM NoClaimIsStolen == Spec => ClaimsAreNotStolen
<1> DEFINE Stolen == claim' = NoClaim /\ claim # NoClaim /\ phase' = phase
           Allowed == claim.until < clock /\ ~opOpen
<1>1. Inv /\ Lease /\ [Next]_vars => [Stolen => Allowed]_vars
  <2> SUFFICES ASSUME Typed, Lease, [Next]_vars, Stolen PROVE Allowed \/ UNCHANGED vars
    BY DEF Inv
  <2>1. CASE ReclaimClaim
    <3>1. claim.until < pass.now /\ ~opOpen
      BY <2>1 DEF ReclaimClaim, StillListed
    <3>2. QED
      BY <3>1 DEF Lease, StorageOK, PassIsPast, Typed, TypeOK, StorageTyped, PassTyped, Claim, Pass
  <2>2. ASSUME NEW w \in Run, TakeClaim(w) PROVE FALSE
    BY <2>2, ConstantsAssumption DEF TakeClaim, NoClaim, ConstantsAssumption
  <2>3. ASSUME NEW w \in Run, Forget(w), phase[w] # "gone" PROVE FALSE
    BY <2>3 DEF Forget, Typed, TypeOK, LeaseTyped
  <2>4. ASSUME NEW w \in Run, StorageCommit(w) \/ StorageRenew(w) \/ OpenClaim(w) \/ ReclaimOpen(w) PROVE FALSE
    BY <2>2, <2>4
    DEF StorageCommit, CommitRefused, CommitApplied, StorageRenew, OpenClaim, ReclaimOpen, TakeSession, storage
  <2>5. ASSUME NEW w \in Run, FailOpen(w) \/ Release(w) \/ Crash(w) PROVE FALSE
    BY <2>3, <2>5 DEF FailOpen, Release, Crash, Live
  <2>6. ASSUME NEW w \in Run,
               \/ FinishOpen(w) \/ (\E k \in Work : Admit(w, k)) \/ Send(w) \/ Return(w) \/ RefuseQueued(w)
               \/ RenewTimer(w) \/ RenewReturn(w) \/ Close(w) \/ Abandon(w)
        PROVE FALSE
    BY <2>6 DEF FinishOpen, Admit, Send, Return, RefuseQueued, RenewTimer, RenewReturn, Close, Abandon, storage
  <2>7. CASE Tick \/ ReclaimList \/ ReclaimSkip
    BY <2>7 DEF Tick, ReclaimList, ReclaimSkip, storage
  <2>8. QED
    BY <2>1, <2>4, <2>5, <2>6, <2>7 DEF Next
<1>2. QED
  BY <1>1, LeaseInvariance, PTL DEF Spec, ClaimsAreNotStolen
=============================================================================
