------------------------ MODULE HistoryVerification ------------------------
(***************************************************************************)
(* What one session's history may be used as evidence for, and when.       *)
(*                                                                         *)
(* An open does not hash the whole history: a checkpoint (the verified     *)
(* head) stands for the prefix, and without one only the last rows are     *)
(* hashed.  The full history is hashed in the background, again on an      *)
(* audit, and after each live recheck.  Ordinary appends go on meanwhile;  *)
(* an append that attests the history has to wait.  A row that does not    *)
(* hash seals the log and leaves a failure row, which refuses every later  *)
(* open.                                                                   *)
(*                                                                         *)
(* Rows may be damaged in storage at any time: the body of a row changes,  *)
(* its stored digest does not.  One process has the session at a time; a   *)
(* page of the scan is one row.                                            *)
(***************************************************************************)
EXTENDS Integers, Sequences, FiniteSets

CONSTANTS
  TailRows,       \* COLD_TAIL_ROWS: rows an open without a checkpoint hashes
  MaxRows,        \* bound: rows appended
  MaxDamage,      \* bound: rows damaged
  MaxChecks,      \* bound: rechecks and audits of one log
  MaxFailures     \* bound: storage calls that fail or time out

ASSUME BoundsAssumption == {TailRows, MaxRows, MaxDamage, MaxChecks, MaxFailures} \subseteq Nat

VARIABLES
  rows,        \* events: is the body of each row intact, and what it attests
  failed,      \* ledger_integrity_failure_v1 has a row
  head,        \* ledger_verified_head_v1: through_seq, 0 when absent
  phase,       \* the log of the process that has the session
  aborted,     \* verifyAbort
  fault,       \* why the log sealed itself
  lastSeq,     \* lastSeqValue
  state,       \* fullVerifyState
  scan,        \* the background hash of the rows up to a cut
  check,       \* the live recheck of the tail (historyChecks)
  audit,       \* auditHistory
  attest,      \* an append that attests history
  ops,         \* checkpointOperations, in the order they were chained
  hashed,      \* history: rows hashed since the last scan began, or appended since
  checks, failures  \* counters of the bounds

stored == <<rows, failed, head>>
vars == <<stored, phase, aborted, fault, lastSeq, state, scan, check, audit, attest, ops, hashed, checks, failures>>

NoScan == [st |-> "none", at |-> 0, cut |-> 0]
NoCheck == [st |-> "none", expected |-> 0]
NoHead == [through |-> 0, verified |-> TRUE]

RowT == [intact: BOOLEAN, attests: BOOLEAN, verified: BOOLEAN]
HeadT == [through: Nat, verified: BOOLEAN]
ScanT == [st: {"none", "reading", "clean", "damaged", "error", "writing"}, at: Nat, cut: Nat]
CheckT == [st: {"none", "reading", "clean", "damaged", "error"}, expected: Nat]
Op == [kind: {"write", "seal"}, head: HeadT, force: BOOLEAN]

TypeOK ==
  /\ rows \in Seq(RowT) /\ failed \in BOOLEAN /\ head \in HeadT
  /\ phase \in {"closed", "open", "closing", "flushing"}
  /\ aborted \in BOOLEAN /\ fault \in {"none", "damage", "other"}
  /\ lastSeq \in Nat
  /\ state \in {"pending", "done", "failed", "stopped"}
  /\ scan \in ScanT /\ check \in CheckT
  /\ audit \in {"none", "waiting", "scanning"}
  /\ attest \in {"none", "waiting", "queued"}
  /\ ops \in Seq(Op)
  /\ hashed \subseteq Nat
  /\ checks \in Nat /\ failures \in Nat

Init ==
  /\ rows = <<>> /\ failed = FALSE /\ head = NoHead
  /\ phase = "closed" /\ aborted = FALSE /\ fault = "none"
  /\ lastSeq = 0 /\ state = "done"
  /\ scan = NoScan /\ check = NoCheck /\ audit = "none" /\ attest = "none"
  /\ ops = <<>> /\ hashed = {}
  /\ checks = 0 /\ failures = 0

Closed == phase # "open"
Sealed == fault # "none"

\* historyVerified: no verification runs, none has failed.
HistoryVerified == state = "done" /\ check.st = "none" /\ ~Sealed /\ ~Closed

\* Everything the log has is hashed, or was appended since.
AllHashed == 1 .. lastSeq \subseteq hashed

-----------------------------------------------------------------------------
(* Verification.                                                           *)

\* Variant: the scan begins one row too early.
StartScanEarly(cut) ==
  /\ state' = "pending"
  /\ scan' = [st |-> "reading", at |-> 0 - 1, cut |-> cut]
  /\ hashed' = {i \in hashed : i > cut}

\* startBackgroundVerify: hash every row up to the cut, from the first on.
StartScan(cut) ==
  /\ state' = "pending"
  /\ scan' = [st |-> "reading", at |-> 0, cut |-> cut]
  /\ hashed' = {i \in hashed : i > cut}

\* An open verifies in the background, unless there is nothing to verify.
VerifyOnOpen ==
  IF rows = <<>>
  THEN state' = "done" /\ scan' = NoScan /\ hashed' = {}
  ELSE /\ state' = "pending" /\ hashed' = {}
       /\ scan' = [st |-> "reading", at |-> 0, cut |-> Len(rows)]

\* The rows a cold open or a live recheck hashes: those past the checkpoint.
Tail0(n) == IF head.through \in 1 .. n THEN head.through ELSE n - TailRows
TailIntact(n) == \A i \in 1 .. n : i > Tail0(n) => rows[i].intact

Forget ==
  /\ phase' = "closed" /\ aborted' = FALSE /\ fault' = "none"
  /\ lastSeq' = 0 /\ state' = "done"
  /\ scan' = NoScan /\ check' = NoCheck /\ audit' = "none" /\ attest' = "none"
  /\ ops' = <<>> /\ hashed' = {} /\ checks' = 0

\* Variant: the failure row is not asked for.
OpenRefusedNever == FALSE

OpenRefused == failed

Open ==
  /\ phase = "closed" /\ ~OpenRefused
  /\ TailIntact(Len(rows))
  /\ phase' = "open" /\ lastSeq' = Len(rows)
  /\ VerifyOnOpen
  /\ UNCHANGED <<stored, aborted, fault, check, audit, attest, ops, checks, failures>>

Fails == failures < MaxFailures /\ failures' = failures + 1

\* A cold open that finds damage, or the mark of damage found before, records it
\* and drops the checkpoint; what either write does not manage is ignored.
OpenFindsDamage ==
  /\ phase = "closed"
  /\ OpenRefused \/ ~TailIntact(Len(rows))
  /\ \/ failed' = TRUE /\ head' = NoHead /\ UNCHANGED failures
     \/ Fails /\ failed' \in {failed, TRUE} /\ head' \in {head, NoHead}
  /\ UNCHANGED <<rows, phase, aborted, fault, lastSeq, state, scan, check, audit, attest, ops, hashed, checks>>

\* The next page: its row hashes, or not, or cannot be read in time.
ScanPage ==
  /\ scan.st = "reading" /\ ~aborted
  /\ IF scan.at = scan.cut
     THEN scan' = [scan EXCEPT !.st = "clean"] /\ UNCHANGED <<hashed, failures>>
     ELSE \/ /\ rows[scan.at + 1].intact
             /\ scan' = [scan EXCEPT !.at = @ + 1]
             /\ hashed' = hashed \cup {scan.at + 1}
             /\ UNCHANGED failures
          \/ /\ ~rows[scan.at + 1].intact
             /\ scan' = [scan EXCEPT !.st = "damaged"]
             /\ UNCHANGED <<hashed, failures>>
          \/ Fails /\ scan' = [scan EXCEPT !.st = "error"] /\ UNCHANGED hashed
  /\ UNCHANGED <<stored, phase, aborted, fault, lastSeq, state, check, audit, attest, ops, checks>>

\* An aborted scan ends at its next await.
ScanAbort ==
  /\ scan.st = "reading" /\ aborted
  /\ scan' = [scan EXCEPT !.st = "error"]
  /\ UNCHANGED <<stored, phase, aborted, fault, lastSeq, state, check, audit, attest, ops, hashed, checks, failures>>

HeadNow == [through |-> lastSeq, verified |-> AllHashed]
Write(h, force) == [kind |-> "write", head |-> h, force |-> force]
Seal == [kind |-> "seal", head |-> NoHead, force |-> FALSE]

\* writeHead: only a log that is verified, and not sealed, writes one.
WriteHead(force) ==
  ops' = IF state = "done" /\ ~Sealed /\ lastSeq > 0 THEN Append(ops, Write(HeadNow, force)) ELSE ops

\* Variant: the seal overtakes the head writes that are still in storage.
ChainSealFirst == ops' = <<Seal>> \o ops

\* The failure row is written, and the head deleted, after them.
ChainSeal == ops' = Append(ops, Seal)

\* markFaulted keeps the first cause.
SealWith(why) == fault' = IF Sealed THEN fault ELSE why

\* failVerification, for what a scan or a recheck ended with.
FailVerification(why) ==
  \/ /\ why = "error" /\ (Closed \/ aborted)
     /\ state' = "stopped" /\ UNCHANGED <<fault, ops>>
  \/ /\ why = "error" /\ ~Closed /\ ~aborted
     /\ state' = "failed" /\ SealWith("other") /\ UNCHANGED ops
  \/ /\ why = "damaged"
     /\ state' = "failed" /\ SealWith("damage") /\ ChainSeal

\* The handlers of startBackgroundVerify.  A log that sealed itself meanwhile
\* stays pending: guard() throws before the state is set.
ScanSettle ==
  /\ \/ /\ scan.st = "clean" /\ ~Closed /\ ~Sealed
        /\ state' = "done"
        /\ ops' = IF lastSeq > 0 THEN Append(ops, Write(HeadNow, TRUE)) ELSE ops
        /\ scan' = [scan EXCEPT !.st = "writing"]
        /\ UNCHANGED fault
     \/ /\ scan.st = "clean" /\ ~Closed /\ Sealed
        /\ scan' = NoScan /\ UNCHANGED <<state, fault, ops>>
     \/ /\ scan.st = "clean" /\ Closed
        /\ FailVerification("error") /\ scan' = NoScan
     \/ /\ scan.st \in {"damaged", "error"}
        /\ FailVerification(scan.st) /\ scan' = NoScan
  /\ UNCHANGED <<stored, phase, aborted, lastSeq, check, audit, attest, hashed, checks, failures>>

\* fullVerifyPromise settles when the head has been written.
ScanWritten ==
  /\ scan.st = "writing" /\ ops = <<>>
  /\ scan' = NoScan
  /\ UNCHANGED <<stored, phase, aborted, fault, lastSeq, state, check, audit, attest, ops, hashed, checks, failures>>

\* The live recheck of session/load, of the rows the log has now.
CheckStart ==
  /\ ~Closed /\ ~Sealed /\ check.st = "none" /\ checks < MaxChecks
  /\ check' = [st |-> "reading", expected |-> lastSeq]
  /\ checks' = checks + 1
  /\ UNCHANGED <<stored, phase, aborted, fault, lastSeq, state, scan, audit, attest, ops, hashed, failures>>

CheckRead ==
  /\ check.st = "reading"
  /\ \/ /\ ~aborted
        /\ check' = [check EXCEPT !.st = IF TailIntact(check.expected) THEN "clean" ELSE "damaged"]
        /\ UNCHANGED failures
     \/ aborted /\ check' = [check EXCEPT !.st = "error"] /\ UNCHANGED failures
     \/ Fails /\ check' = [check EXCEPT !.st = "error"]
  /\ UNCHANGED <<stored, phase, aborted, fault, lastSeq, state, scan, audit, attest, ops, hashed, checks>>

\* The viewer that asked for the recheck has gone.  The log does not change, not
\* even for damage just found, but who waits for the recheck is turned away.
CheckCancel ==
  /\ check.st \in {"reading", "damaged", "error"}
  /\ check' = NoCheck
  /\ audit' \in {audit, "none"}
  /\ attest' \in IF attest = "waiting" THEN {"waiting", "none"} ELSE {attest}
  /\ UNCHANGED <<stored, phase, aborted, fault, lastSeq, state, scan, ops, hashed, checks, failures>>

\* A clean recheck starts a full scan, unless one is running; on a log that has
\* been sealed or closed meanwhile it fails as guard() does.
CheckSettle ==
  /\ check.st \in {"clean", "damaged", "error"}
  /\ check' = NoCheck
  /\ IF check.st = "clean" /\ ~Closed /\ ~Sealed
     THEN /\ IF state = "pending" THEN UNCHANGED <<state, scan, hashed>> ELSE StartScan(check.expected)
          /\ UNCHANGED <<fault, ops>>
     ELSE /\ FailVerification(IF check.st = "damaged" \/ (check.st = "clean" /\ fault = "damage")
                              THEN "damaged" ELSE "error")
          /\ UNCHANGED <<scan, hashed>>
  /\ UNCHANGED <<stored, phase, aborted, lastSeq, audit, attest, checks, failures>>

\* fullVerified: every verification has ended, the newer ones included.
Settled == scan.st = "none" /\ check.st = "none"
Refused == state # "done" \/ Sealed \/ Closed

AuditRequest ==
  /\ ~Closed /\ audit = "none" /\ checks < MaxChecks
  /\ audit' = "waiting"
  /\ checks' = checks + 1
  /\ UNCHANGED <<stored, phase, aborted, fault, lastSeq, state, scan, check, attest, ops, hashed, failures>>

\* The audit's own scan starts after it arrived, never an older one.
AuditScan ==
  /\ audit = "waiting" /\ Settled /\ ~Refused
  /\ StartScan(lastSeq)
  /\ audit' = "scanning"
  /\ UNCHANGED <<stored, phase, aborted, fault, lastSeq, check, attest, ops, checks, failures>>

AuditEnd ==
  /\ \/ audit = "waiting" /\ Settled /\ Refused
     \/ audit = "scanning" /\ Settled
  /\ audit' = "none"
  /\ UNCHANGED <<stored, phase, aborted, fault, lastSeq, state, scan, check, attest, ops, hashed, checks, failures>>

-----------------------------------------------------------------------------
(* Appends.                                                                *)

Room == Len(rows) < MaxRows

Land(attests, verified) ==
  rows' = Append(rows, [intact |-> TRUE, attests |-> attests, verified |-> verified])

\* The log hears that its row landed; a batch that ends a turn publishes a head.
Hear ==
  /\ lastSeq' = lastSeq + 1
  /\ hashed' = hashed \cup {lastSeq + 1}
  /\ \/ UNCHANGED ops
     \/ state = "done" /\ ops' = Append(ops, Write(HeadNow', FALSE))
  /\ UNCHANGED <<fault, failures>>

\* A commit whose answer does not come seals the log; its row may be there.
Lost ==
  /\ Fails
  /\ fault' = "other"
  /\ UNCHANGED <<lastSeq, hashed, ops>>

Commit(attests, verified) ==
  \/ Land(attests, verified) /\ (Hear \/ Lost)
  \/ UNCHANGED rows /\ Lost

\* An ordinary batch.  One that was admitted before close() lands after it.
AppendRow ==
  /\ phase \in {"open", "closing"} /\ ~Sealed /\ Room
  /\ Commit(FALSE, TRUE)
  /\ UNCHANGED <<failed, head, phase, aborted, state, scan, check, audit, attest, checks>>

\* "refuse" is turned away at once, "allow" waits for fullVerified.
AttestRequest ==
  /\ ~Closed /\ ~Sealed /\ attest = "none" /\ Room
  /\ attest' \in IF HistoryVerified THEN {"waiting", "queued"} ELSE {"waiting"}
  /\ UNCHANGED <<stored, phase, aborted, fault, lastSeq, state, scan, check, audit, ops, hashed, checks, failures>>

\* Variant: a wait ends only when there is something to proceed with.
AttestProceedVerified ==
  /\ attest = "waiting" /\ Settled /\ ~Refused
  /\ attest' = "queued"
  /\ UNCHANGED <<stored, phase, aborted, fault, lastSeq, state, scan, check, audit, ops, hashed, checks, failures>>

AttestProceed ==
  /\ attest = "waiting" /\ Settled
  /\ attest' = IF Refused THEN "none" ELSE "queued"
  /\ UNCHANGED <<stored, phase, aborted, fault, lastSeq, state, scan, check, audit, ops, hashed, checks, failures>>

\* Variant: what was found on entry is taken to hold still.
AttestAllowedOnEntry == ~Sealed

\* Its turn in the drain: what was asked on entry is asked again.
AttestAllowed == HistoryVerified

AttestCommit ==
  /\ attest = "queued" /\ AttestAllowed /\ Room
  /\ attest' = "none"
  /\ Commit(TRUE, AllHashed /\ check.st = "none")
  /\ UNCHANGED <<failed, head, phase, aborted, state, scan, check, audit, checks>>

AttestRefuse ==
  /\ attest = "queued" /\ (~AttestAllowed \/ ~Room)
  /\ attest' = "none"
  /\ UNCHANGED <<stored, phase, aborted, fault, lastSeq, state, scan, check, audit, ops, hashed, checks, failures>>

-----------------------------------------------------------------------------
(* Closing, crashing, storage.                                             *)

\* cancelHistoryVerification, before the session drains its work.
Cancel ==
  /\ ~Closed /\ ~aborted
  /\ aborted' = TRUE
  /\ UNCHANGED <<stored, phase, fault, lastSeq, state, scan, check, audit, attest, ops, hashed, checks, failures>>

Close ==
  /\ phase = "open"
  /\ phase' = "closing" /\ aborted' = TRUE
  /\ UNCHANGED <<stored, fault, lastSeq, state, scan, check, audit, attest, ops, hashed, checks, failures>>

\* The drain is empty and the background scan has ended: a last checkpoint.
CloseHead ==
  /\ phase = "closing" /\ attest # "queued" /\ scan.st = "none"
  /\ phase' = "flushing"
  /\ WriteHead(FALSE)
  /\ UNCHANGED <<stored, aborted, fault, lastSeq, state, scan, check, audit, attest, hashed, checks, failures>>

\* The lease is handed back.  Waiters are turned away; a recheck that has ended
\* was settled before storage could answer.
CloseEnd ==
  /\ phase = "flushing" /\ ops = <<>> /\ check.st \notin {"clean", "damaged"}
  /\ Forget
  /\ UNCHANGED <<stored, failures>>

Crash ==
  /\ phase # "closed"
  /\ Forget
  /\ UNCHANGED <<stored, failures>>

\* One checkpoint operation in storage: the head only moves forward, unless it
\* was written by a scan that has just hashed everything.
StoreHead(o) ==
  head' = IF o.force \/ o.head.through >= head.through THEN o.head ELSE head

\* What a failed operation leaves behind is ignored, by each of its callers.
RunOp ==
  /\ ops # <<>>
  /\ ops' = Tail(ops)
  /\ LET o == Head(ops)
     IN \/ o.kind = "write" /\ StoreHead(o) /\ UNCHANGED <<failed, failures>>
        \/ o.kind = "seal" /\ failed' = TRUE /\ head' = NoHead /\ UNCHANGED failures
        \/ o.kind = "write" /\ Fails /\ UNCHANGED <<failed, head>>
        \/ o.kind = "seal" /\ Fails /\ failed' \in {failed, TRUE} /\ head' \in {head, NoHead}
  /\ UNCHANGED <<rows, phase, aborted, fault, lastSeq, state, scan, check, audit, attest, hashed, checks>>

Damage(i) ==
  /\ rows[i].intact
  /\ Cardinality({j \in DOMAIN rows : ~rows[j].intact}) < MaxDamage
  /\ rows' = [rows EXCEPT ![i].intact = FALSE]
  /\ UNCHANGED <<failed, head, phase, aborted, fault, lastSeq, state, scan, check, audit, attest, ops, hashed, checks, failures>>

Next ==
  \/ Open \/ OpenFindsDamage
  \/ ScanPage \/ ScanAbort \/ ScanSettle \/ ScanWritten
  \/ CheckStart \/ CheckRead \/ CheckCancel \/ CheckSettle
  \/ AuditRequest \/ AuditScan \/ AuditEnd
  \/ AppendRow \/ AttestRequest \/ AttestProceed \/ AttestCommit \/ AttestRefuse
  \/ Cancel \/ Close \/ CloseHead \/ CloseEnd \/ Crash
  \/ RunOp \/ \E i \in DOMAIN rows : Damage(i)

Spec == Init /\ [][Next]_vars

-----------------------------------------------------------------------------
(* Properties.                                                             *)

\* Nothing is used as evidence on the word of a checkpoint or of an earlier
\* process: when a row that attests the history was committed, this process had
\* hashed, or itself appended, every row before it, since it last began to check
\* them, and no check was running.  So a row that was damaged when the session
\* was opened is never attested.
AttestedHistoryWasHashed == \A i \in DOMAIN rows : rows[i].attests => rows[i].verified

\* A stored checkpoint covers only rows that its writer had hashed in full, or
\* appended on top of them: a closing log that was not done leaves none.
CheckpointsAreVerified == head.verified

\* Evidence is hashed before it is relied on: by a row that attests, by a checkpoint.
EvidenceWasHashed == AttestedHistoryWasHashed /\ CheckpointsAreVerified

\* A ledger found damaged stays shut: no process works on it, but for a log that
\* sealed itself and has yet to close.
DamagedLedgerStaysShut == failed /\ phase # "closed" => Sealed

\* A checkpoint dropped with its damaged ledger does not come back: the write of
\* an older head that was under way is not left to land after the deletion.
DroppedCheckpointStays == [][failed /\ head = NoHead => head' = NoHead]_vars

\* Damage that a log found is on its way to the failure row or there, as long as storage
\* answers: so a log that closes in order leaves none unrecorded (failVerification).
SealIsQueued == \E i \in DOMAIN ops : ops[i].kind = "seal"
DamageIsRecorded == fault = "damage" /\ failures = 0 => failed \/ SealIsQueued
CloseRecordsDamage == [][CloseEnd /\ fault = "damage" /\ failures = 0 => failed]_vars

\* A checkpoint covers rows that are there, and never moves back but to be dropped: the
\* writes of one log, forced or not, are chained in the order of their heads.
CheckpointIsOfRows == head.through <= Len(rows)
CheckpointNeverMovesBack == [][head'.through >= head.through \/ head' = NoHead]_vars

\* An append that waits for verification is committed or refused in the end, and
\* a closing log closes: a verification that was stopped, failed or overtaken by
\* a recheck leaves nobody waiting for it.
WaitersAreReleased ==
  /\ attest # "none" ~> attest = "none"
  /\ phase \in {"closing", "flushing"} ~> phase = "closed"

\* Awaits end: reads time out, and callbacks and queued work run.
Fairness ==
  /\ WF_vars(ScanPage) /\ WF_vars(ScanAbort) /\ WF_vars(ScanSettle) /\ WF_vars(ScanWritten)
  /\ WF_vars(CheckRead) /\ WF_vars(CheckSettle) /\ WF_vars(AuditScan) /\ WF_vars(AuditEnd)
  /\ WF_vars(AttestProceed) /\ WF_vars(AttestCommit \/ AttestRefuse)
  /\ WF_vars(RunOp) /\ WF_vars(CloseHead) /\ WF_vars(CloseEnd)

FairSpec == Spec /\ Fairness
=============================================================================
