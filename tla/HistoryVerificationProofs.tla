--------------------- MODULE HistoryVerificationProofs ---------------------
(* Theorems about HistoryVerification, for every bound.                    *)
EXTENDS HistoryVerification, SequenceTheorems, TLAPS

-----------------------------------------------------------------------------
(* Types.                                                                  *)

LEMMA Nothings == NoScan \in ScanT /\ NoCheck \in CheckT /\ NoHead \in HeadT /\ Seal \in Op
BY DEF NoScan, ScanT, NoCheck, CheckT, NoHead, HeadT, Seal, Op

LEMMA InitTyped == Init => TypeOK
<1> SUFFICES ASSUME Init PROVE TypeOK
  OBVIOUS
<1>1. rows \in Seq(RowT) /\ ops \in Seq(Op)
  BY EmptySeq DEF Init
<1>2. scan \in ScanT /\ check \in CheckT /\ head \in HeadT
  BY Nothings DEF Init
<1>3. QED
  BY <1>1, <1>2 DEF Init, TypeOK

LEMMA ScanTyped ==
  ASSUME TypeOK
  PROVE /\ \A st \in {"reading", "clean", "damaged", "error", "writing"} : [scan EXCEPT !.st = st] \in ScanT
        /\ [scan EXCEPT !.at = @ + 1] \in ScanT
        /\ scan.at + 1 \in Nat
BY DEF TypeOK, ScanT

LEMMA StartTyped ==
  ASSUME TypeOK, NEW cut \in Nat, StartScan(cut)
  PROVE state' = "pending" /\ scan' \in ScanT /\ hashed' \subseteq Nat
BY DEF TypeOK, StartScan, ScanT

\* A checkpoint operation is chained after those that are there.
LEMMA OpsTyped ==
  ASSUME ops \in Seq(Op), NEW o \in Op PROVE Append(ops, o) \in Seq(Op)
BY AppendProperties

LEMMA HeadTyped ==
  ASSUME TypeOK PROVE /\ \A f \in BOOLEAN : Write(HeadNow, f) \in Op
                      /\ HeadNow \in HeadT
BY DEF TypeOK, HeadNow, HeadT, Write, Op, AllHashed

LEMMA HearTyped ==
  ASSUME TypeOK, Hear
  PROVE /\ lastSeq' \in Nat /\ hashed' \subseteq Nat /\ ops' \in Seq(Op)
        /\ fault' = fault /\ failures' = failures
<1>1. lastSeq' \in Nat /\ hashed' \subseteq Nat
  BY DEF TypeOK, Hear
<1>2. Write(HeadNow', FALSE) \in Op
  BY <1>1 DEF HeadNow, HeadT, Write, Op, AllHashed
<1>3. QED
  BY <1>1, <1>2, OpsTyped DEF TypeOK, Hear

LEMMA CommitTyped ==
  ASSUME TypeOK, NEW a \in BOOLEAN, NEW v \in BOOLEAN, Commit(a, v)
  PROVE /\ rows' \in Seq(RowT) /\ lastSeq' \in Nat /\ hashed' \subseteq Nat /\ ops' \in Seq(Op)
        /\ fault' \in {"none", "damage", "other"} /\ failures' \in Nat
<1>1. rows' \in Seq(RowT)
  <2> DEFINE row == [intact |-> TRUE, attests |-> a, verified |-> v]
  <2>1. row \in RowT
    BY DEF RowT
  <2>2. Append(rows, row) \in Seq(RowT)
    BY <2>1, AppendProperties DEF TypeOK
  <2>3. QED
    BY <2>2 DEF Commit, Land, TypeOK
<1>2. CASE Hear
  BY <1>1, <1>2, HearTyped DEF TypeOK
<1>3. CASE Lost
  BY <1>1, <1>3 DEF Lost, Fails, TypeOK
<1>4. QED
  BY <1>2, <1>3 DEF Commit

LEMMA FailTyped ==
  ASSUME TypeOK, NEW why, FailVerification(why)
  PROVE /\ state' \in {"pending", "done", "failed", "stopped"}
        /\ fault' \in {"none", "damage", "other"} /\ ops' \in Seq(Op)
BY Nothings, OpsTyped DEF TypeOK, FailVerification, SealWith, ChainSeal

LEMMA TypedStep == TypeOK /\ [Next]_vars => TypeOK'
<1> SUFFICES ASSUME TypeOK, [Next]_vars PROVE TypeOK'
  OBVIOUS
<1>1. CASE Open
  <2>1. Len(rows) \in Nat
    BY LenProperties DEF TypeOK
  <2>2. QED
    BY <1>1, <2>1, Nothings DEF Open, VerifyOnOpen, ScanT, stored, TypeOK
<1>2. CASE OpenFindsDamage
  <2>1. failed' \in BOOLEAN /\ head' \in HeadT /\ failures' \in Nat
    <3>1. head \in HeadT /\ NoHead \in HeadT /\ failed \in BOOLEAN /\ failures \in Nat
      BY Nothings DEF TypeOK
    <3>2. head' \in HeadT
      BY <1>2, <3>1 DEF OpenFindsDamage
    <3>3. failed' \in BOOLEAN
      BY <1>2, <3>1 DEF OpenFindsDamage
    <3>4. failures' \in Nat
      <4>1. UNCHANGED failures \/ Fails
        BY <1>2 DEF OpenFindsDamage
      <4>2. QED
        BY <3>1, <4>1 DEF Fails
    <3>5. QED
      BY <3>2, <3>3, <3>4
  <2>2. QED
    BY <1>2, <2>1 DEF OpenFindsDamage, TypeOK
<1>3. CASE ScanPage \/ ScanAbort \/ ScanWritten
  <2>1. scan' \in ScanT
    BY <1>3, ScanTyped, Nothings DEF ScanPage, ScanAbort, ScanWritten
  <2>2. hashed' \subseteq Nat /\ failures' \in Nat
    BY <1>3, ScanTyped DEF ScanPage, ScanAbort, ScanWritten, Fails, TypeOK
  <2>3. QED
    BY <1>3, <2>1, <2>2 DEF ScanPage, ScanAbort, ScanWritten, stored, TypeOK
<1>4. CASE ScanSettle
  <2>1. state' \in {"pending", "done", "failed", "stopped"} /\ fault' \in {"none", "damage", "other"} /\ ops' \in Seq(Op)
    BY <1>4, FailTyped, HeadTyped, OpsTyped DEF ScanSettle, TypeOK
  <2>2. scan' \in ScanT
    BY <1>4, ScanTyped, Nothings DEF ScanSettle
  <2>3. QED
    BY <1>4, <2>1, <2>2 DEF ScanSettle, stored, TypeOK
<1>5. CASE CheckStart \/ CheckRead \/ CheckCancel
  <2>1. check' \in CheckT
    BY <1>5, Nothings DEF CheckStart, CheckRead, CheckCancel, TypeOK, CheckT
  <2>2. CASE CheckStart \/ CheckRead
    BY <2>1, <2>2 DEF CheckStart, CheckRead, Fails, stored, TypeOK
  <2>3. CASE CheckCancel
    BY <2>1, <2>3 DEF CheckCancel, stored, TypeOK
  <2>4. QED
    BY <1>5, <2>2, <2>3
<1>6. CASE CheckSettle
  <2>1. state' \in {"pending", "done", "failed", "stopped"} /\ fault' \in {"none", "damage", "other"} /\ ops' \in Seq(Op)
    BY <1>6, FailTyped DEF CheckSettle, StartScan, TypeOK
  <2>2. scan' \in ScanT /\ hashed' \subseteq Nat
    BY <1>6, StartTyped DEF CheckSettle, TypeOK, CheckT
  <2>3. QED
    BY <1>6, <2>1, <2>2, Nothings DEF CheckSettle, stored, TypeOK
<1>7. CASE AuditRequest \/ AuditScan \/ AuditEnd
  <2>1. CASE AuditScan
    <3>1. state' = "pending" /\ scan' \in ScanT /\ hashed' \subseteq Nat
      BY <2>1, StartTyped DEF AuditScan, TypeOK
    <3>2. QED
      BY <2>1, <3>1 DEF AuditScan, stored, TypeOK
  <2>2. CASE AuditRequest
    BY <2>2 DEF AuditRequest, stored, TypeOK
  <2>4. CASE AuditEnd
    BY <2>4 DEF AuditEnd, stored, TypeOK
  <2>3. QED
    BY <1>7, <2>1, <2>2, <2>4
<1>8. CASE AppendRow \/ AttestCommit
  <2>1. PICK a \in BOOLEAN, v \in BOOLEAN : Commit(a, v)
    BY <1>8 DEF AppendRow, AttestCommit, AllHashed
  <2>2. /\ failed' = failed /\ head' = head /\ phase' = phase /\ aborted' = aborted /\ state' = state
        /\ scan' = scan /\ check' = check /\ audit' = audit /\ checks' = checks
        /\ attest' \in {"none", attest}
    BY <1>8 DEF AppendRow, AttestCommit
  <2>3. QED
    BY <2>1, <2>2, CommitTyped DEF TypeOK
<1>9. CASE AttestRequest \/ AttestProceed \/ AttestRefuse
  BY <1>9 DEF AttestRequest, AttestProceed, AttestRefuse, stored, TypeOK
<1>10. CASE Cancel \/ Close
  BY <1>10 DEF Cancel, Close, stored, TypeOK
<1>11. CASE CloseHead
  BY <1>11, HeadTyped, OpsTyped DEF CloseHead, WriteHead, stored, TypeOK
<1>12. CASE CloseEnd \/ Crash
  <2>1. ops' \in Seq(Op)
    BY <1>12, EmptySeq DEF CloseEnd, Crash, Forget
  <2>2. scan' \in ScanT /\ check' \in CheckT
    BY <1>12, Nothings DEF CloseEnd, Crash, Forget
  <2>3. rows' = rows /\ failed' = failed /\ head' = head /\ failures' = failures /\ Forget
    BY <1>12 DEF CloseEnd, Crash, stored
  <2>4. QED
    BY <2>1, <2>2, <2>3 DEF Forget, TypeOK
<1>13. CASE RunOp
  <2>1. Head(ops) \in Op /\ Tail(ops) \in Seq(Op)
    BY <1>13, HeadTailProperties DEF RunOp, TypeOK
  <2>2. head' \in HeadT /\ failed' \in BOOLEAN /\ failures' \in Nat
    <3>1. Head(ops).head \in HeadT
      BY <2>1 DEF Op
    <3>2. head \in HeadT /\ NoHead \in HeadT /\ failed \in BOOLEAN /\ failures \in Nat
      BY Nothings DEF TypeOK
    <3>3. head' \in HeadT
      BY <1>13, <3>1, <3>2 DEF RunOp, StoreHead
    <3>4. failed' \in BOOLEAN
      BY <1>13, <3>2 DEF RunOp
    <3>5. failures' \in Nat
      <4>1. UNCHANGED failures \/ Fails
        BY <1>13 DEF RunOp
      <4>2. QED
        BY <3>2, <4>1 DEF Fails
    <3>6. QED
      BY <3>3, <3>4, <3>5
  <2>3. QED
    BY <1>13, <2>1, <2>2 DEF RunOp, TypeOK
<1>14. ASSUME NEW i \in DOMAIN rows, Damage(i) PROVE TypeOK'
  <2>1. rows[i] \in RowT /\ i \in 1 .. Len(rows)
    BY LenProperties, ElementOfSeq DEF TypeOK
  <2>2. [rows[i] EXCEPT !.intact = FALSE] \in RowT
    BY <2>1 DEF RowT
  <2>3. rows' \in Seq(RowT)
    BY <1>14, <2>1, <2>2, ExceptSeq DEF Damage, TypeOK
  <2>4. QED
    BY <1>14, <2>3 DEF Damage, TypeOK
<1>15. CASE UNCHANGED vars
  BY <1>15 DEF vars, stored, TypeOK
<1>16. QED
  BY <1>1, <1>2, <1>3, <1>4, <1>5, <1>6, <1>7, <1>8, <1>9, <1>10, <1>11, <1>12, <1>13, <1>14, <1>15 DEF Next

\* Every variable keeps its type, whatever the bounds are.
THEOREM TypeCorrect == Spec => []TypeOK
BY InitTyped, TypedStep, PTL DEF Spec

-----------------------------------------------------------------------------
(* The inductive invariant.                                                *)

\* No head waits to be written that its log had not verified.
OpsVerified == \A i \in DOMAIN ops : ops[i].head.verified

\* What the states of the verification stand for: a log that is done has hashed
\* all it has, a scan is short of the rows before its cut only, and a recheck of
\* the rows after those it was asked for.
DoneIsHashed == state = "done" => AllHashed

ScanCovers ==
  /\ scan.st = "reading" => /\ scan.at <= scan.cut
                            /\ \A i \in 1 .. lastSeq : i <= scan.at \/ i > scan.cut => i \in hashed
  /\ scan.st = "clean" => AllHashed

CheckCovers == check.st # "none" => \A i \in 1 .. lastSeq : i > check.expected => i \in hashed

Covered == DoneIsHashed /\ ScanCovers /\ CheckCovers
Verified == AttestedHistoryWasHashed /\ CheckpointsAreVerified /\ OpsVerified

\* Only a log that is sealed asks for a failure row, after which it writes nothing.
SealsAreSealed == \A i \in DOMAIN ops : ops[i].kind = "seal" => Sealed
SealsComeLast == \A i, j \in DOMAIN ops : i < j /\ ops[i].kind = "seal" => ops[j].kind = "seal"
FailedWritesNothing == failed => \A i \in DOMAIN ops : ops[i].kind = "seal"
ClosedIsIdle == phase = "closed" => ops = <<>> /\ scan.st = "none" /\ check.st = "none"

Shut == DamagedLedgerStaysShut /\ SealsAreSealed /\ SealsComeLast /\ FailedWritesNothing /\ ClosedIsIdle

LEMMA InitSafe == Init => Covered /\ Verified /\ Shut
<1> SUFFICES ASSUME Init PROVE Covered /\ Verified /\ Shut
  OBVIOUS
<1>1. AllHashed
  BY DEF Init, AllHashed
<1>2. Covered
  BY <1>1 DEF Init, Covered, DoneIsHashed, ScanCovers, CheckCovers, NoScan, NoCheck
<1>3. DOMAIN rows = {} /\ DOMAIN ops = {}
  BY DEF Init
<1>4. Verified
  BY <1>3 DEF Init, Verified, AttestedHistoryWasHashed, CheckpointsAreVerified, OpsVerified, NoHead
<1>5. Shut
  BY <1>3 DEF Init, Shut, DamagedLedgerStaysShut, SealsAreSealed, SealsComeLast, FailedWritesNothing,
              ClosedIsIdle, NoScan, NoCheck
<1>6. QED
  BY <1>2, <1>4, <1>5

-----------------------------------------------------------------------------
(* What has been hashed.                                                   *)

\* A scan that starts keeps what is known of the rows after its cut.
LEMMA StartCovers ==
  ASSUME TypeOK, Covered, NEW cut \in Nat, StartScan(cut), UNCHANGED lastSeq,
         \A i \in 1 .. lastSeq : i > cut => i \in hashed
  PROVE DoneIsHashed' /\ ScanCovers'
<1>1. scan' = [st |-> "reading", at |-> 0, cut |-> cut] /\ hashed' = {i \in hashed : i > cut} /\ state' = "pending"
  BY DEF StartScan
<1>2. \A i \in 1 .. lastSeq' : i <= 0 \/ i > cut => i \in hashed'
  BY <1>1 DEF TypeOK
<1>3. QED
  BY <1>1, <1>2 DEF DoneIsHashed, ScanCovers

\* An append adds its own row to what has been hashed.
LEMMA CommitCovers ==
  ASSUME TypeOK, Covered, NEW a \in BOOLEAN, NEW v \in BOOLEAN, Commit(a, v),
         UNCHANGED <<state, scan, check>>
  PROVE Covered'
<1>1. CASE Hear
  <2>1. lastSeq' = lastSeq + 1 /\ hashed' = hashed \cup {lastSeq + 1} /\ lastSeq \in Nat
    BY <1>1 DEF Hear, TypeOK
  <2>2. \A i \in 1 .. lastSeq' : i \in 1 .. lastSeq \/ i \in hashed'
    BY <2>1
  <2>3. hashed \subseteq hashed'
    BY <2>1
  <2>4. AllHashed => AllHashed'
    BY <2>2, <2>3 DEF AllHashed
  <2>5. QED
    BY <2>2, <2>3, <2>4 DEF Covered, DoneIsHashed, ScanCovers, CheckCovers
<1>2. CASE Lost
  BY <1>2 DEF Lost, Covered, DoneIsHashed, ScanCovers, CheckCovers, AllHashed
<1>3. QED
  BY <1>1, <1>2 DEF Commit

\* What the log knows it keeps, when only other things change.
LEMMA CoveredKept ==
  ASSUME Covered, UNCHANGED <<lastSeq, hashed, state, scan, check>> PROVE Covered'
BY DEF Covered, DoneIsHashed, ScanCovers, CheckCovers, AllHashed

\* A verification that fails leaves its log not done.
LEMMA FailCovers ==
  ASSUME NEW why, FailVerification(why) PROVE state' # "done"
BY DEF FailVerification

LEMMA CoveredStep == TypeOK /\ Covered /\ ClosedIsIdle /\ [Next]_vars => Covered'
<1> SUFFICES ASSUME TypeOK, Covered, ClosedIsIdle, [Next]_vars PROVE Covered'
  OBVIOUS
<1>1. CASE Open
  <2>1. Len(rows) \in Nat /\ lastSeq' = Len(rows)
    BY <1>1, LenProperties DEF Open, TypeOK
  <2>2. CheckCovers'
    BY <1>1 DEF Open, ClosedIsIdle, CheckCovers
  <2>3. CASE rows = <<>>
    <3>1. AllHashed' /\ scan' = NoScan
      BY <1>1, <2>1, <2>3 DEF Open, VerifyOnOpen, AllHashed
    <3>2. QED
      BY <2>2, <3>1 DEF Covered, DoneIsHashed, ScanCovers, NoScan
  <2>4. CASE rows # <<>>
    <3>1. state' = "pending" /\ scan' = [st |-> "reading", at |-> 0, cut |-> Len(rows)]
      BY <1>1, <2>4 DEF Open, VerifyOnOpen
    <3>2. QED
      BY <2>1, <2>2, <3>1 DEF Covered, DoneIsHashed, ScanCovers
  <2>5. QED
    BY <2>3, <2>4
<1>2. CASE ScanPage
  <2>1. hashed \subseteq hashed' /\ UNCHANGED <<lastSeq, state, check>>
    BY <1>2 DEF ScanPage
  <2>2. DoneIsHashed' /\ CheckCovers'
    BY <2>1 DEF Covered, DoneIsHashed, CheckCovers, AllHashed
  <2>3. scan.at \in Nat /\ scan.cut \in Nat /\ lastSeq \in Nat
    BY DEF TypeOK, ScanT
  <2>4. CASE scan.at = scan.cut /\ scan' = [scan EXCEPT !.st = "clean"]
    <3>1. scan'.st = "clean" /\ AllHashed
      BY <1>2, <2>3, <2>4 DEF ScanPage, Covered, ScanCovers, AllHashed, TypeOK, ScanT
    <3>2. QED
      BY <2>1, <2>2, <3>1 DEF Covered, ScanCovers, AllHashed
  <2>5. CASE scan.at # scan.cut /\ scan' = [scan EXCEPT !.at = @ + 1] /\ hashed' = hashed \cup {scan.at + 1}
    <3>1. scan'.st = "reading" /\ scan'.at = scan.at + 1 /\ scan'.cut = scan.cut
      BY <1>2, <2>5 DEF ScanPage, TypeOK, ScanT
    <3>2. /\ scan.at <= scan.cut
          /\ \A i \in 1 .. lastSeq : i <= scan.at \/ i > scan.cut => i \in hashed
      BY <1>2 DEF ScanPage, Covered, ScanCovers
    <3>3. \A i \in 1 .. lastSeq : i <= scan.at + 1 => i <= scan.at \/ i = scan.at + 1
      BY <2>3
    <3>4. \A i \in 1 .. lastSeq' : i <= scan'.at \/ i > scan'.cut => i \in hashed'
      BY <2>1, <2>5, <3>1, <3>2, <3>3
    <3>5. scan'.at <= scan'.cut
      BY <2>3, <2>5, <3>1, <3>2
    <3>6. QED
      BY <2>2, <3>1, <3>4, <3>5 DEF Covered, ScanCovers
  <2>6. CASE scan'.st \in {"damaged", "error"}
    BY <2>2, <2>6 DEF Covered, ScanCovers
  <2>7. scan \in ScanT
    BY DEF TypeOK
  <2>8. QED
    BY <1>2, <2>4, <2>5, <2>6, <2>7 DEF ScanPage, ScanT
<1>3. CASE ScanAbort
  <2>1. scan'.st = "error" /\ UNCHANGED <<lastSeq, hashed, state, check>>
    BY <1>3 DEF ScanAbort, TypeOK, ScanT
  <2>2. QED
    BY <2>1 DEF Covered, DoneIsHashed, ScanCovers, CheckCovers, AllHashed
<1>4. CASE ScanSettle
  <2>1. UNCHANGED <<lastSeq, hashed, check>>
    BY <1>4 DEF ScanSettle
  <2>2. scan'.st \in {"none", "writing"}
    <3>1. scan' = NoScan \/ scan' = [scan EXCEPT !.st = "writing"]
      BY <1>4 DEF ScanSettle
    <3>2. QED
      BY <3>1 DEF NoScan, TypeOK, ScanT
  <2>3. state' = "done" => state = "done" \/ scan.st = "clean"
    BY <1>4, FailCovers DEF ScanSettle
  <2>4. QED
    BY <2>1, <2>2, <2>3 DEF Covered, DoneIsHashed, ScanCovers, CheckCovers, AllHashed
<1>5. CASE ScanWritten
  BY <1>5 DEF ScanWritten, Covered, DoneIsHashed, ScanCovers, CheckCovers, AllHashed, NoScan
<1>6. CASE CheckStart
  <2>1. check'.expected = lastSeq /\ UNCHANGED <<lastSeq, hashed, state, scan>>
    BY <1>6 DEF CheckStart
  <2>2. CheckCovers'
    BY <2>1 DEF CheckCovers, TypeOK
  <2>3. QED
    BY <2>1, <2>2 DEF Covered, DoneIsHashed, ScanCovers, AllHashed
<1>7. CASE CheckRead
  <2>1. check.st = "reading" /\ check'.expected = check.expected /\ UNCHANGED <<lastSeq, hashed, state, scan>>
    BY <1>7 DEF CheckRead, TypeOK, CheckT
  <2>2. QED
    BY <2>1 DEF Covered, DoneIsHashed, ScanCovers, CheckCovers, AllHashed
<1>8. CASE CheckCancel
  BY <1>8 DEF CheckCancel, Covered, DoneIsHashed, ScanCovers, CheckCovers, AllHashed, NoCheck
<1>9. CASE CheckSettle
  <2>1. check'.st = "none" /\ UNCHANGED lastSeq
    BY <1>9 DEF CheckSettle, NoCheck
  <2>2. CheckCovers'
    BY <2>1 DEF CheckCovers
  <2>3. CASE StartScan(check.expected)
    <3>1. check.expected \in Nat
      BY DEF TypeOK, CheckT
    <3>2. \A i \in 1 .. lastSeq : i > check.expected => i \in hashed
      BY <1>9 DEF CheckSettle, Covered, CheckCovers
    <3>3. QED
      BY <2>1, <2>2, <2>3, <3>1, <3>2, StartCovers DEF Covered
  <2>4. CASE UNCHANGED <<scan, hashed>> /\ (state' = state \/ state' # "done")
    BY <2>1, <2>2, <2>4 DEF Covered, DoneIsHashed, ScanCovers, AllHashed
  <2>5. QED
    BY <1>9, <2>3, <2>4, FailCovers DEF CheckSettle
<1>10. CASE AuditScan
  <2>1. StartScan(lastSeq) /\ lastSeq \in Nat /\ UNCHANGED <<lastSeq, check>>
    BY <1>10 DEF AuditScan, TypeOK
  <2>2. check.st = "none" /\ \A i \in 1 .. lastSeq : ~(i > lastSeq)
    BY <1>10, <2>1 DEF AuditScan, Settled
  <2>3. QED
    BY <2>1, <2>2, StartCovers DEF Covered, CheckCovers
<1>11. CASE AppendRow \/ AttestCommit
  <2>1. PICK a \in BOOLEAN, v \in BOOLEAN : Commit(a, v)
    BY <1>11 DEF AppendRow, AttestCommit, AllHashed
  <2>2. UNCHANGED <<state, scan, check>>
    BY <1>11 DEF AppendRow, AttestCommit
  <2>3. QED
    BY <2>1, <2>2, CommitCovers
<1>12. CASE CloseEnd \/ Crash
  <2>1. AllHashed' /\ scan' = NoScan /\ check' = NoCheck
    BY <1>12 DEF CloseEnd, Crash, Forget, AllHashed
  <2>2. QED
    BY <2>1 DEF Covered, DoneIsHashed, ScanCovers, CheckCovers, NoScan, NoCheck
<1>13. CASE UNCHANGED <<lastSeq, hashed, state, scan, check>>
  BY <1>13, CoveredKept
<1>14. UNCHANGED <<lastSeq, hashed, state, scan, check>>
       \/ Open \/ ScanPage \/ ScanAbort \/ ScanSettle \/ ScanWritten
       \/ CheckStart \/ CheckRead \/ CheckCancel \/ CheckSettle \/ AuditScan
       \/ AppendRow \/ AttestCommit \/ CloseEnd \/ Crash
  BY DEF Next, OpenFindsDamage, AuditRequest, AuditEnd, AttestRequest, AttestProceed, AttestRefuse,
         Cancel, Close, CloseHead, RunOp, Damage, vars
<1>15. QED
  BY <1>1, <1>2, <1>3, <1>4, <1>5, <1>6, <1>7, <1>8, <1>9, <1>10, <1>11, <1>12, <1>13, <1>14

-----------------------------------------------------------------------------
(* What is chained after the checkpoint operations that wait.              *)

\* A log that is done verified the head it writes, with the rows it has just heard of.
LEMMA HeadVerified ==
  ASSUME TypeOK, Covered, state = "done" \/ scan.st = "clean"
  PROVE /\ \A f \in BOOLEAN : Write(HeadNow, f).head.verified
        /\ Hear => Write(HeadNow', FALSE).head.verified
<1>1. AllHashed
  BY DEF Covered, DoneIsHashed, ScanCovers
<1>2. ASSUME Hear PROVE AllHashed'
  BY <1>1, <1>2 DEF Hear, AllHashed, TypeOK
<1>3. QED
  BY <1>1, <1>2 DEF Write, HeadNow

LEMMA OpsStep ==
  ASSUME TypeOK, Covered, ClosedIsIdle, Next
  PROVE \/ UNCHANGED ops
        \/ RunOp
        \/ ops' = <<>> /\ phase' = "closed" /\ fault' = "none"
        \/ ops' = Append(ops, Seal) /\ Sealed' /\ phase # "closed"
        \/ \E o \in Op : /\ ops' = Append(ops, o) /\ o.kind = "write" /\ o.head.verified
                         /\ o.head.through = lastSeq' /\ ~Sealed /\ phase # "closed"
<1> DEFINE Writes == \E o \in Op : /\ ops' = Append(ops, o) /\ o.kind = "write" /\ o.head.verified
                                   /\ o.head.through = lastSeq' /\ ~Sealed /\ phase # "closed"
           Seals == ops' = Append(ops, Seal) /\ Sealed' /\ phase # "closed"
<1>1. \A f \in BOOLEAN : /\ Write(HeadNow, f) \in Op /\ Write(HeadNow, f).kind = "write"
                         /\ Write(HeadNow, f).head.through = lastSeq
  BY HeadTyped DEF Write, HeadNow
<1>2. ASSUME NEW why, FailVerification(why) PROVE UNCHANGED ops \/ (ops' = Append(ops, Seal) /\ Sealed')
  <2>1. UNCHANGED ops \/ ops' = Append(ops, Seal)
    BY <1>2 DEF FailVerification, ChainSeal
  <2>2. UNCHANGED ops \/ fault' = (IF fault # "none" THEN fault ELSE "damage")
    BY <1>2 DEF FailVerification, SealWith, Sealed
  <2>3. UNCHANGED ops \/ fault' # "none"
    BY <2>2
  <2>4. QED
    BY <2>1, <2>3 DEF Sealed
<1>3. CASE ScanSettle
  <2>1. phase # "closed"
    BY <1>3 DEF ScanSettle, ClosedIsIdle
  <2>2. CASE scan.st = "clean" /\ ~Sealed /\ ops' = Append(ops, Write(HeadNow, TRUE))
    <3>1. lastSeq' = lastSeq
      BY <1>3 DEF ScanSettle
    <3>2. QED
      BY <1>1, <2>1, <2>2, <3>1, HeadVerified
  <2>3. CASE \E why : FailVerification(why)
    BY <1>2, <2>1, <2>3
  <2>4. QED
    BY <1>3, <2>2, <2>3 DEF ScanSettle
<1>4. CASE CheckSettle
  <2>1. phase # "closed"
    BY <1>4 DEF CheckSettle, ClosedIsIdle
  <2>2. UNCHANGED ops \/ \E why : FailVerification(why)
    BY <1>4 DEF CheckSettle
  <2>3. QED
    BY <1>2, <2>1, <2>2
<1>5. CASE AppendRow \/ AttestCommit
  <2>1. ~Sealed /\ phase # "closed"
    BY <1>5 DEF AppendRow, AttestCommit, AttestAllowed, HistoryVerified, Closed
  <2>2. UNCHANGED ops \/ (Hear /\ state = "done" /\ ops' = Append(ops, Write(HeadNow', FALSE)))
    BY <1>5 DEF AppendRow, AttestCommit, Commit, Hear, Lost
  <2>3. ASSUME Hear PROVE /\ Write(HeadNow', FALSE) \in Op /\ Write(HeadNow', FALSE).kind = "write"
                          /\ Write(HeadNow', FALSE).head.through = lastSeq'
    BY <2>3, HearTyped DEF HeadNow, HeadT, Write, Op, AllHashed
  <2>4. QED
    BY <2>1, <2>2, <2>3, HeadVerified
<1>6. CASE CloseHead
  <2>1. UNCHANGED ops \/ (state = "done" /\ ~Sealed /\ ops' = Append(ops, Write(HeadNow, FALSE)))
    BY <1>6 DEF CloseHead, WriteHead
  <2>2. phase # "closed" /\ lastSeq' = lastSeq
    BY <1>6 DEF CloseHead
  <2>3. QED
    BY <1>1, <2>1, <2>2, HeadVerified
<1>7. CASE CloseEnd \/ Crash
  BY <1>7 DEF CloseEnd, Crash, Forget
<1>8. UNCHANGED ops \/ ScanSettle \/ CheckSettle \/ AppendRow \/ AttestCommit \/ CloseHead \/ CloseEnd \/ Crash \/ RunOp
  BY DEF Next, Open, OpenFindsDamage, ScanPage, ScanAbort, ScanWritten, CheckStart, CheckRead, CheckCancel,
         AuditRequest, AuditScan, AuditEnd, AttestRequest, AttestProceed, AttestRefuse, Cancel, Close, Damage
<1>9. QED
  BY <1>3, <1>4, <1>5, <1>6, <1>7, <1>8

-----------------------------------------------------------------------------
(* Evidence and checkpoints.                                               *)

LEMMA VerifiedStep == TypeOK /\ Covered /\ ClosedIsIdle /\ Verified /\ [Next]_vars => Verified'
<1> SUFFICES ASSUME TypeOK, Covered, ClosedIsIdle, Verified, [Next]_vars PROVE Verified'
  OBVIOUS
<1>1. OpsVerified'
  <2>1. CASE UNCHANGED ops
    BY <2>1 DEF Verified, OpsVerified
  <2>2. CASE RunOp
    <3>1. ops' = Tail(ops) /\ ops # <<>> /\ ops \in Seq(Op)
      BY <2>2 DEF RunOp, TypeOK
    <3>2. \A i \in DOMAIN ops' : i + 1 \in DOMAIN ops /\ ops'[i] = ops[i + 1]
      BY <3>1, HeadTailProperties, LenProperties
    <3>3. QED
      BY <3>2 DEF Verified, OpsVerified
  <2>3. CASE ops' = <<>>
    BY <2>3 DEF OpsVerified
  <2>4. ASSUME NEW o \in Op, ops' = Append(ops, o), o.head.verified PROVE OpsVerified'
    <3>1. \A i \in DOMAIN ops' : (i \in DOMAIN ops /\ ops'[i] = ops[i]) \/ ops'[i] = o
      BY <2>4, AppendProperties, LenProperties DEF TypeOK
    <3>2. QED
      BY <2>4, <3>1 DEF Verified, OpsVerified
  <2>5. Seal \in Op /\ Seal.head.verified
    BY Nothings DEF Seal, NoHead
  <2>6. CASE UNCHANGED vars
    BY <2>1, <2>6 DEF vars
  <2>7. QED
    BY <2>1, <2>2, <2>3, <2>4, <2>5, <2>6, OpsStep
<1>2. CheckpointsAreVerified'
  <2>1. CASE RunOp
    <3>1. ops # <<>> /\ ops \in Seq(Op)
      BY <2>1 DEF RunOp, TypeOK
    <3>2. Head(ops).head.verified
      BY <3>1, HeadTailProperties, LenProperties DEF Verified, OpsVerified
    <3>3. head' \in {head, NoHead, Head(ops).head}
      BY <2>1 DEF RunOp, StoreHead
    <3>4. QED
      BY <3>2, <3>3 DEF Verified, CheckpointsAreVerified, NoHead
  <2>2. CASE OpenFindsDamage
    <3>1. head' \in {head, NoHead}
      BY <2>2 DEF OpenFindsDamage
    <3>2. QED
      BY <3>1 DEF Verified, CheckpointsAreVerified, NoHead
  <2>3. UNCHANGED head \/ RunOp \/ OpenFindsDamage
    BY DEF Next, Open, ScanPage, ScanAbort, ScanSettle, ScanWritten, CheckStart, CheckRead, CheckCancel, CheckSettle,
           AuditRequest, AuditScan, AuditEnd, AppendRow, AttestRequest, AttestProceed, AttestCommit, AttestRefuse,
           Cancel, Close, CloseHead, CloseEnd, Crash, Damage, vars, stored
  <2>4. QED
    BY <2>1, <2>2, <2>3 DEF Verified, CheckpointsAreVerified
<1>3. AttestedHistoryWasHashed'
  <2>1. ASSUME NEW a \in BOOLEAN, NEW v \in BOOLEAN, Commit(a, v), a => v PROVE AttestedHistoryWasHashed'
    <3> DEFINE row == [intact |-> TRUE, attests |-> a, verified |-> v]
    <3>1. row \in RowT /\ (row.attests => row.verified)
      BY <2>1 DEF RowT
    <3> HIDE DEF row
    <3>2. rows' = rows \/ rows' = Append(rows, row)
      BY <2>1 DEF Commit, Land, row
    <3>3. rows' = Append(rows, row) => \A i \in DOMAIN rows' : (i \in DOMAIN rows /\ rows'[i] = rows[i]) \/ rows'[i] = row
      BY <3>1, AppendProperties, LenProperties DEF TypeOK
    <3>4. QED
      BY <3>1, <3>2, <3>3 DEF Verified, AttestedHistoryWasHashed
  <2>2. CASE AppendRow
    BY <2>1, <2>2 DEF AppendRow
  <2>3. CASE AttestCommit
    <3>1. AllHashed /\ check.st = "none"
      BY <2>3 DEF AttestCommit, AttestAllowed, HistoryVerified, Covered, DoneIsHashed
    <3>2. QED
      BY <2>1, <2>3, <3>1 DEF AttestCommit
  <2>4. ASSUME NEW i \in DOMAIN rows, Damage(i) PROVE AttestedHistoryWasHashed'
    <3>1. rows \in Seq(RowT) /\ i \in 1 .. Len(rows) /\ rows[i] \in RowT
      BY LenProperties, ElementOfSeq DEF TypeOK
    <3> DEFINE row == [rows[i] EXCEPT !.intact = FALSE]
    <3>2. row.attests = rows[i].attests /\ row.verified = rows[i].verified
      BY <3>1 DEF RowT
    <3>3. rows' = [rows EXCEPT ![i] = row]
      BY <2>4 DEF Damage
    <3> HIDE DEF row
    <3>4. \A j \in DOMAIN rows' : j \in DOMAIN rows /\ rows'[j] = IF j = i THEN row ELSE rows[j]
      BY <3>1, <3>3
    <3>5. QED
      BY <3>2, <3>4 DEF Verified, AttestedHistoryWasHashed
  <2>5. UNCHANGED rows \/ AppendRow \/ AttestCommit \/ \E i \in DOMAIN rows : Damage(i)
    BY DEF Next, Open, OpenFindsDamage, ScanPage, ScanAbort, ScanSettle, ScanWritten, CheckStart, CheckRead, CheckCancel,
           CheckSettle, AuditRequest, AuditScan, AuditEnd, AttestRequest, AttestProceed, AttestRefuse,
           Cancel, Close, CloseHead, CloseEnd, Crash, RunOp, vars, stored
  <2>6. QED
    BY <2>2, <2>3, <2>4, <2>5 DEF Verified, AttestedHistoryWasHashed
<1>4. QED
  BY <1>1, <1>2, <1>3 DEF Verified

-----------------------------------------------------------------------------
(* Damaged ledgers.                                                        *)

\* A log that has sealed itself stays sealed until its process has left.
LEMMA SealedStays ==
  ASSUME Sealed, [Next]_vars PROVE Sealed' \/ (phase' = "closed" /\ ops' = <<>>)
<1>1. CASE CloseEnd \/ Crash
  BY <1>1 DEF CloseEnd, Crash, Forget
<1>2. ASSUME NEW why, FailVerification(why) PROVE fault' \in {fault, "damage", "other"}
  BY <1>2 DEF FailVerification, SealWith
<1>3. fault' \in {fault, "damage", "other"} \/ CloseEnd \/ Crash
  <2>1. CASE ScanSettle \/ CheckSettle
    BY <1>2, <2>1 DEF ScanSettle, CheckSettle
  <2>2. CASE AppendRow \/ AttestCommit
    BY <2>2 DEF AppendRow, AttestCommit, Commit, Hear, Lost
  <2>3. UNCHANGED fault \/ ScanSettle \/ CheckSettle \/ AppendRow \/ AttestCommit \/ CloseEnd \/ Crash
    BY DEF Next, Open, OpenFindsDamage, ScanPage, ScanAbort, ScanWritten, CheckStart, CheckRead, CheckCancel,
           AuditRequest, AuditScan, AuditEnd, AttestRequest, AttestProceed, AttestRefuse, Cancel, Close, CloseHead,
           RunOp, Damage, vars
  <2>4. QED
    BY <2>1, <2>2, <2>3
<1>4. QED
  BY <1>1, <1>3 DEF Sealed

\* A process joins a session that has no failure row, and leaves with nothing chained.
LEMMA PhaseStep ==
  ASSUME ClosedIsIdle, [Next]_vars
  PROVE /\ phase = "closed" /\ phase' # "closed" => ~failed' /\ ops' = <<>>
        /\ phase' = "closed" => ops' = <<>> /\ scan'.st = "none" /\ check'.st = "none"
<1>1. CASE Open
  BY <1>1 DEF Open, OpenRefused, ClosedIsIdle, stored
<1>2. CASE CloseEnd \/ Crash
  BY <1>2 DEF CloseEnd, Crash, Forget, NoScan, NoCheck
<1>3. CASE phase # "closed" /\ phase' # "closed"
  BY <1>3
<1>4. CASE UNCHANGED <<phase, ops, scan, check>>
  BY <1>4 DEF ClosedIsIdle
<1>5. Open \/ CloseEnd \/ Crash \/ (phase # "closed" /\ phase' # "closed") \/ UNCHANGED <<phase, ops, scan, check>>
  <2>1. CASE phase = "closed"
    <3>1. ops = <<>> /\ scan.st = "none" /\ check.st = "none"
      BY <2>1 DEF ClosedIsIdle
    <3>2. ~ScanPage /\ ~ScanAbort /\ ~ScanSettle /\ ~ScanWritten /\ ~CheckStart /\ ~CheckRead /\ ~CheckCancel /\ ~CheckSettle
      BY <2>1, <3>1 DEF ScanPage, ScanAbort, ScanSettle, ScanWritten, CheckStart, CheckRead, CheckCancel, CheckSettle, Closed
    <3>3. ~AuditScan /\ ~AppendRow /\ ~AttestCommit /\ ~Close /\ ~CloseHead /\ ~RunOp
      BY <2>1, <3>1 DEF AuditScan, AppendRow, AttestCommit, AttestAllowed, HistoryVerified, Refused, Closed, Close, CloseHead, RunOp
    <3>4. QED
      BY <3>2, <3>3 DEF Next, OpenFindsDamage, AuditRequest, AuditEnd, AttestRequest, AttestProceed, AttestRefuse,
                        Cancel, Damage, vars
  <2>2. CASE phase # "closed"
    BY <2>2 DEF Next, Open, OpenFindsDamage, ScanPage, ScanAbort, ScanSettle, ScanWritten, CheckStart, CheckRead,
                CheckCancel, CheckSettle, AuditRequest, AuditScan, AuditEnd, AppendRow, AttestRequest, AttestProceed,
                AttestCommit, AttestRefuse, Cancel, Close, CloseHead, RunOp, Damage, vars
  <2>3. QED
    BY <2>1, <2>2
<1>6. QED
  BY <1>1, <1>2, <1>3, <1>4, <1>5

LEMMA FailedStep ==
  ASSUME [Next]_vars
  PROVE failed' = failed \/ (RunOp /\ Head(ops).kind = "seal") \/ OpenFindsDamage
<1>1. CASE RunOp
  BY <1>1 DEF RunOp
<1>2. failed' = failed \/ RunOp \/ OpenFindsDamage
  BY DEF Next, Open, ScanPage, ScanAbort, ScanSettle, ScanWritten, CheckStart, CheckRead, CheckCancel, CheckSettle,
         AuditRequest, AuditScan, AuditEnd, AppendRow, AttestRequest, AttestProceed, AttestCommit, AttestRefuse,
         Cancel, Close, CloseHead, CloseEnd, Crash, Damage, vars, stored
<1>3. QED
  BY <1>1, <1>2

LEMMA ShutStep == TypeOK /\ Covered /\ Shut /\ [Next]_vars => Shut'
<1> SUFFICES ASSUME TypeOK, Covered, Shut, [Next]_vars PROVE Shut'
  OBVIOUS
<1>1. /\ SealsAreSealed /\ SealsComeLast /\ FailedWritesNothing /\ ClosedIsIdle /\ DamagedLedgerStaysShut
      /\ ops \in Seq(Op) /\ Len(ops) \in Nat /\ DOMAIN ops = 1 .. Len(ops)
  BY LenProperties DEF Shut, TypeOK
<1>2. \/ UNCHANGED ops
      \/ RunOp
      \/ ops' = <<>>
      \/ ops' = Append(ops, Seal) /\ Sealed' /\ phase # "closed"
      \/ \E o \in Op : ops' = Append(ops, o) /\ o.kind = "write" /\ ~Sealed /\ phase # "closed"
  BY <1>1, OpsStep DEF vars
<1>3. RunOp => /\ ops # <<>> /\ Head(ops) = ops[1] /\ 1 \in DOMAIN ops
               /\ \A i \in DOMAIN ops' : i + 1 \in DOMAIN ops /\ 1 < i + 1 /\ ops'[i] = ops[i + 1]
               /\ UNCHANGED <<fault, phase>>
  BY <1>1, HeadTailProperties, LenProperties DEF RunOp
<1>4. \A o \in Op : ops' = Append(ops, o) =>
        /\ DOMAIN ops' = 1 .. Len(ops) + 1 /\ ops'[Len(ops) + 1] = o
        /\ \A i \in DOMAIN ops : ops'[i] = ops[i]
  BY <1>1, AppendProperties, LenProperties
<1>5. Seal \in Op /\ Seal.kind = "seal"
  BY Nothings DEF Seal
<1>6. SealsAreSealed'
  <2>1. CASE Sealed
    BY <2>1, SealedStays DEF SealsAreSealed
  <2>2. CASE ~Sealed /\ UNCHANGED ops
    BY <1>1, <2>2 DEF SealsAreSealed
  <2>3. CASE ~Sealed /\ RunOp
    BY <1>1, <1>3, <2>3 DEF SealsAreSealed
  <2>4. CASE Sealed' \/ ops' = <<>>
    BY <2>4 DEF SealsAreSealed
  <2>5. ASSUME ~Sealed, NEW o \in Op, ops' = Append(ops, o), o.kind = "write" PROVE SealsAreSealed'
    BY <1>1, <1>4, <2>5 DEF SealsAreSealed
  <2>6. QED
    BY <1>2, <2>1, <2>2, <2>3, <2>4, <2>5
<1>7. SealsComeLast'
  <2>1. CASE UNCHANGED ops
    BY <1>1, <2>1 DEF SealsComeLast
  <2>2. CASE RunOp
    <3>1. \A i, j \in DOMAIN ops' : i < j => i + 1 < j + 1
      BY <1>1, <1>3, <2>2
    <3>2. QED
      BY <1>1, <1>3, <2>2, <3>1 DEF SealsComeLast
  <2>3. CASE ops' = <<>>
    BY <2>3 DEF SealsComeLast
  <2>4. CASE ops' = Append(ops, Seal)
    BY <1>1, <1>4, <1>5, <2>4 DEF SealsComeLast
  <2>5. ASSUME ~Sealed, NEW o \in Op, ops' = Append(ops, o), o.kind = "write" PROVE SealsComeLast'
    BY <1>1, <1>4, <2>5 DEF SealsAreSealed, SealsComeLast
  <2>6. QED
    BY <1>2, <2>1, <2>2, <2>3, <2>4, <2>5
<1>8. FailedWritesNothing'
  <2>1. CASE failed
    <3>1. \A i \in DOMAIN ops : ops[i].kind = "seal"
      BY <1>1, <2>1 DEF FailedWritesNothing
    <3>2. phase # "closed" => Sealed
      BY <1>1, <2>1 DEF DamagedLedgerStaysShut
    <3>3. ops' = Append(ops, Seal) => \A i \in DOMAIN ops' : ops'[i].kind = "seal"
      BY <1>1, <1>4, <1>5, <3>1
    <3>4. RunOp => \A i \in DOMAIN ops' : ops'[i].kind = "seal"
      BY <1>3, <3>1
    <3>5. QED
      BY <1>2, <3>1, <3>2, <3>3, <3>4 DEF FailedWritesNothing
  <2>2. CASE RunOp /\ Head(ops).kind = "seal"
    BY <1>1, <1>3, <2>2 DEF SealsComeLast, FailedWritesNothing
  <2>3. CASE OpenFindsDamage
    BY <1>1, <2>3 DEF OpenFindsDamage, ClosedIsIdle, FailedWritesNothing
  <2>4. QED
    BY <2>1, <2>2, <2>3, FailedStep DEF FailedWritesNothing
<1>9. DamagedLedgerStaysShut'
  <2>1. CASE phase = "closed"
    BY <1>1, <2>1, PhaseStep DEF DamagedLedgerStaysShut
  <2>2. CASE phase # "closed" /\ failed
    BY <1>1, <2>2, SealedStays DEF DamagedLedgerStaysShut
  <2>3. CASE RunOp /\ Head(ops).kind = "seal"
    BY <1>1, <1>3, <2>3 DEF SealsAreSealed, DamagedLedgerStaysShut, Sealed
  <2>4. OpenFindsDamage => phase = "closed"
    BY DEF OpenFindsDamage
  <2>5. QED
    BY <2>1, <2>2, <2>3, <2>4, FailedStep DEF DamagedLedgerStaysShut
<1>10. ClosedIsIdle'
  BY <1>1, PhaseStep DEF ClosedIsIdle
<1>11. QED
  BY <1>6, <1>7, <1>8, <1>9, <1>10 DEF Shut

LEMMA HeadStays == TypeOK /\ Shut /\ [Next]_vars => (failed /\ head = NoHead => head' = NoHead)
<1> SUFFICES ASSUME TypeOK, Shut, [Next]_vars, failed, head = NoHead PROVE head' = NoHead
  OBVIOUS
<1>1. CASE RunOp
  <2>1. ops # <<>> /\ ops \in Seq(Op) /\ Head(ops) = ops[1] /\ 1 \in DOMAIN ops
    BY <1>1, HeadTailProperties, LenProperties DEF RunOp, TypeOK
  <2>2. Head(ops).kind = "seal"
    BY <2>1 DEF Shut, FailedWritesNothing
  <2>3. QED
    BY <1>1, <2>2 DEF RunOp
<1>2. CASE OpenFindsDamage
  BY <1>2 DEF OpenFindsDamage
<1>3. UNCHANGED head \/ RunOp \/ OpenFindsDamage
  BY DEF Next, Open, ScanPage, ScanAbort, ScanSettle, ScanWritten, CheckStart, CheckRead, CheckCancel, CheckSettle,
         AuditRequest, AuditScan, AuditEnd, AppendRow, AttestRequest, AttestProceed, AttestCommit, AttestRefuse,
         Cancel, Close, CloseHead, CloseEnd, Crash, Damage, vars, stored
<1>4. QED
  BY <1>1, <1>2, <1>3

-----------------------------------------------------------------------------
(* Damage that was found.                                                  *)

\* Seals are chained whenever the cause becomes damage.
LEMMA DamageQueuesSeal ==
  ASSUME TypeOK, fault # "damage", fault' = "damage", [Next]_vars
  PROVE  ops' = Append(ops, Seal)
<1>1. ASSUME NEW why, FailVerification(why) PROVE ops' = Append(ops, Seal)
  BY <1>1 DEF FailVerification, SealWith, ChainSeal
<1>2. CASE ScanSettle \/ CheckSettle
  BY <1>1, <1>2 DEF ScanSettle, CheckSettle
<1>3. ~AppendRow /\ ~AttestCommit
  BY DEF AppendRow, AttestCommit, Commit, Hear, Lost
<1>4. ~CloseEnd /\ ~Crash
  BY DEF CloseEnd, Crash, Forget
<1>5. ScanSettle \/ CheckSettle
  BY <1>3, <1>4 DEF Next, Open, OpenFindsDamage, ScanPage, ScanAbort, ScanWritten, CheckStart, CheckRead, CheckCancel,
         AuditRequest, AuditScan, AuditEnd, AttestRequest, AttestProceed, AttestRefuse, Cancel, Close, CloseHead,
         RunOp, Damage, vars
<1>6. QED
  BY <1>2, <1>5

LEMMA FailuresStay == ASSUME TypeOK, [Next]_vars, failures' = 0 PROVE failures = 0
<1>1. ~Fails
  BY DEF Fails, TypeOK
<1>2. CASE AppendRow \/ AttestCommit
  BY <1>1, <1>2 DEF AppendRow, AttestCommit, Commit, Hear, Lost
<1>3. CASE OpenFindsDamage \/ ScanPage \/ CheckRead \/ RunOp
  BY <1>1, <1>3 DEF OpenFindsDamage, ScanPage, CheckRead, RunOp
<1>4. failures' = failures \/ AppendRow \/ AttestCommit \/ OpenFindsDamage \/ ScanPage \/ CheckRead \/ RunOp
  BY DEF Next, Open, ScanAbort, ScanSettle, ScanWritten, CheckStart, CheckCancel, CheckSettle,
         AuditRequest, AuditScan, AuditEnd, AttestRequest, AttestProceed, AttestRefuse,
         Cancel, Close, CloseHead, CloseEnd, Crash, Damage, vars
<1>5. QED
  BY <1>2, <1>3, <1>4

LEMMA DamageStep ==
  ASSUME TypeOK, Covered, ClosedIsIdle, DamageIsRecorded, [Next]_vars PROVE DamageIsRecorded'
<1> SUFFICES ASSUME fault' = "damage", failures' = 0, ~failed' PROVE SealIsQueued'
  BY DEF DamageIsRecorded
<1>0. ops \in Seq(Op) /\ Len(ops) \in Nat /\ DOMAIN ops = 1 .. Len(ops) /\ Seal \in Op /\ Seal.kind = "seal"
  BY Nothings, LenProperties DEF TypeOK, Seal
<1>1. \A o \in Op : ops' = Append(ops, o) =>
        /\ Len(ops) + 1 \in DOMAIN ops' /\ ops'[Len(ops) + 1] = o
        /\ \A i \in DOMAIN ops : i \in DOMAIN ops' /\ ops'[i] = ops[i]
  BY <1>0, AppendProperties, LenProperties
<1>2. CASE fault # "damage"
  BY <1>0, <1>1, <1>2, DamageQueuesSeal DEF SealIsQueued
<1>3. CASE fault = "damage"
  <2>1. ~failed
    <3>1. CASE RunOp \/ OpenFindsDamage
      BY <3>1 DEF RunOp, OpenFindsDamage
    <3>2. CASE failed' = failed
      BY <3>2
    <3>3. QED
      BY <3>1, <3>2, FailedStep
  <2>2. SealIsQueued
    BY <1>3, <2>1, FailuresStay DEF DamageIsRecorded
  <2>3. CASE RunOp
    <3>1. Head(ops) = ops[1] /\ ops # <<>> /\ 1 \in DOMAIN ops /\ ops' = Tail(ops) /\ Len(ops') = Len(ops) - 1
      BY <1>0, <2>3, HeadTailProperties, LenProperties DEF RunOp
    <3>2. \A i \in DOMAIN ops : i # 1 => i - 1 \in DOMAIN ops' /\ ops'[i - 1] = ops[i]
      <4>1. DOMAIN ops' = 1 .. Len(ops) - 1 /\ \A k \in 1 .. Len(ops) - 1 : ops'[k] = ops[k + 1]
        BY <1>0, <3>1, HeadTailProperties, LenProperties
      <4>2. ASSUME NEW i \in DOMAIN ops, i # 1 PROVE i - 1 \in DOMAIN ops' /\ ops'[i - 1] = ops[i]
        <5> DEFINE k == i - 1
        <5>1. k \in 1 .. Len(ops) - 1 /\ k + 1 = i
          BY <1>0, <4>2
        <5> HIDE DEF k
        <5>2. k \in DOMAIN ops' /\ ops'[k] = ops[i]
          BY <4>1, <5>1
        <5>3. QED
          BY <5>2 DEF k
      <4>3. QED
        BY <4>2
    <3>3. Head(ops).kind # "seal"
      <4>1. failures = 0
        BY FailuresStay
      <4>2. ~Fails
        BY <4>1 DEF Fails
      <4>3. QED
        BY <2>3, <4>2 DEF RunOp
    <3>4. QED
      BY <2>2, <3>1, <3>2, <3>3 DEF SealIsQueued
  <2>4. CASE UNCHANGED ops
    BY <2>2, <2>4 DEF SealIsQueued
  <2>5. CASE \E o \in Op : ops' = Append(ops, o)
    BY <1>1, <2>2, <2>5 DEF SealIsQueued
  <2>6. QED
    BY <1>0, <2>3, <2>4, <2>5, OpsStep DEF vars
<1>4. QED
  BY <1>2, <1>3

-----------------------------------------------------------------------------
(* Checkpoints move forward.                                               *)

HeadsWithin ==
  /\ lastSeq <= Len(rows) /\ CheckpointIsOfRows
  /\ phase # "closed" => head.through <= lastSeq
WritesWithin ==
  \A i \in DOMAIN ops : ops[i].kind = "write" =>
    head.through <= ops[i].head.through /\ ops[i].head.through <= lastSeq
WritesInOrder ==
  \A i, j \in DOMAIN ops : i < j /\ ops[i].kind = "write" /\ ops[j].kind = "write" =>
    ops[i].head.through <= ops[j].head.through

Ordered == HeadsWithin /\ WritesWithin /\ WritesInOrder

\* The rows only grow, and the log's head follows them.
LEMMA LengthStep ==
  ASSUME TypeOK, [Next]_vars
  PROVE  /\ Len(rows) \in Nat /\ Len(rows') \in Nat /\ Len(rows) <= Len(rows')
         /\ \/ lastSeq' = lastSeq
            \/ lastSeq' = lastSeq + 1 /\ Len(rows') = Len(rows) + 1
            \/ lastSeq' = Len(rows) /\ phase = "closed"
            \/ lastSeq' = 0 /\ phase' = "closed"
         /\ phase = "closed" /\ phase' # "closed" => lastSeq' = Len(rows)
<1>0. rows \in Seq(RowT) /\ Len(rows) \in Nat
  BY LenProperties DEF TypeOK
<1>1. ASSUME NEW a \in BOOLEAN, NEW v \in BOOLEAN, Land(a, v) PROVE Len(rows') = Len(rows) + 1
  <2> DEFINE row == [intact |-> TRUE, attests |-> a, verified |-> v]
  <2>1. row \in RowT
    BY DEF RowT
  <2>2. QED
    BY <1>0, <1>1, <2>1, AppendProperties DEF Land
<1>2. ASSUME NEW a \in BOOLEAN, NEW v \in BOOLEAN, Commit(a, v)
      PROVE \/ lastSeq' = lastSeq + 1 /\ Len(rows') = Len(rows) + 1
            \/ lastSeq' = lastSeq /\ Len(rows') \in {Len(rows), Len(rows) + 1}
  BY <1>1, <1>2 DEF Commit, Hear, Lost
<1>3. CASE AppendRow \/ AttestCommit
  <2>1. PICK a \in BOOLEAN, v \in BOOLEAN : Commit(a, v)
    BY <1>3 DEF AppendRow, AttestCommit, AllHashed
  <2>2. \/ lastSeq' = lastSeq + 1 /\ Len(rows') = Len(rows) + 1
        \/ lastSeq' = lastSeq /\ Len(rows') \in {Len(rows), Len(rows) + 1}
    BY <1>2, <2>1
  <2>3. phase' = phase
    BY <1>3 DEF AppendRow, AttestCommit
  <2>4. QED
    BY <1>0, <2>2, <2>3
<1>5. CASE \E i \in DOMAIN rows : Damage(i)
  <2>1. Len(rows') = Len(rows)
    BY <1>0, <1>5 DEF Damage
  <2>2. QED
    BY <1>0, <1>5, <2>1 DEF Damage
<1>6. CASE Open \/ CloseEnd \/ Crash
  BY <1>0, <1>6 DEF Open, CloseEnd, Crash, Forget, stored
<1>7. AppendRow \/ AttestCommit \/ (\E i \in DOMAIN rows : Damage(i)) \/ Open \/ CloseEnd \/ Crash
        \/ (UNCHANGED <<rows, lastSeq>> /\ (phase = "closed" => phase' = "closed"))
  BY DEF Next, OpenFindsDamage, ScanPage, ScanAbort, ScanSettle, ScanWritten, CheckStart, CheckRead, CheckCancel,
         CheckSettle, AuditRequest, AuditScan, AuditEnd, AttestRequest, AttestProceed, AttestRefuse, Cancel, Close,
         CloseHead, RunOp, vars, stored
<1>8. QED
  BY <1>0, <1>3, <1>5, <1>6, <1>7

LEMMA HeadStep ==
  ASSUME [Next]_vars
  PROVE head' = head \/ head' = NoHead \/ (RunOp /\ Head(ops).kind = "write" /\ head' = Head(ops).head)
<1>1. CASE RunOp
  BY <1>1 DEF RunOp, StoreHead
<1>2. CASE OpenFindsDamage
  BY <1>2 DEF OpenFindsDamage
<1>3. UNCHANGED head \/ RunOp \/ OpenFindsDamage
  BY DEF Next, Open, ScanPage, ScanAbort, ScanSettle, ScanWritten, CheckStart, CheckRead, CheckCancel, CheckSettle,
         AuditRequest, AuditScan, AuditEnd, AppendRow, AttestRequest, AttestProceed, AttestCommit, AttestRefuse,
         Cancel, Close, CloseHead, CloseEnd, Crash, Damage, vars, stored
<1>4. QED
  BY <1>1, <1>2, <1>3

LEMMA OrderedStep ==
  ASSUME TypeOK, Covered, ClosedIsIdle, Ordered, [Next]_vars
  PROVE  Ordered' /\ (head'.through >= head.through \/ head' = NoHead)
<1>0. /\ HeadsWithin /\ WritesWithin /\ WritesInOrder
      /\ ops \in Seq(Op) /\ Len(ops) \in Nat /\ DOMAIN ops = 1 .. Len(ops)
      /\ lastSeq \in Nat /\ head.through \in Nat /\ NoHead.through = 0
      /\ \A o \in Op : o.head.through \in Nat
      /\ \A i \in DOMAIN ops : ops[i] \in Op /\ ops[i].head.through \in Nat
  <2>1. ops \in Seq(Op) /\ Len(ops) \in Nat /\ DOMAIN ops = 1 .. Len(ops)
    BY LenProperties DEF TypeOK
  <2>2. \A i \in DOMAIN ops : ops[i] \in Op
    BY <2>1, ElementOfSeq
  <2>3. \A o \in Op : o.head.through \in Nat
    BY DEF Op, HeadT
  <2>4. lastSeq \in Nat /\ head.through \in Nat /\ NoHead.through = 0
    BY DEF TypeOK, HeadT, NoHead
  <2>5. QED
    BY <2>1, <2>2, <2>3, <2>4 DEF Ordered
<1>1. /\ Len(rows) \in Nat /\ Len(rows') \in Nat /\ Len(rows) <= Len(rows')
      /\ \/ lastSeq' = lastSeq
         \/ lastSeq' = lastSeq + 1 /\ Len(rows') = Len(rows) + 1
         \/ lastSeq' = Len(rows) /\ phase = "closed"
         \/ lastSeq' = 0 /\ phase' = "closed"
      /\ phase = "closed" /\ phase' # "closed" => lastSeq' = Len(rows)
  BY LengthStep
<1>2. lastSeq' \in Nat /\ lastSeq' <= Len(rows')
  BY <1>0, <1>1 DEF HeadsWithin
<1>3. phase # "closed" /\ phase' # "closed" => lastSeq <= lastSeq'
  BY <1>0, <1>1
<1>4. RunOp => /\ Head(ops) = ops[1] /\ 1 \in DOMAIN ops
               /\ \A i \in DOMAIN ops' : i + 1 \in DOMAIN ops /\ 1 < i + 1 /\ ops'[i] = ops[i + 1]
               /\ UNCHANGED <<rows, lastSeq, phase>>
  BY <1>0, HeadTailProperties, LenProperties DEF RunOp
<1>5. RunOp => \A i, j \in DOMAIN ops' : i < j => i + 1 < j + 1
  <2>1. RunOp => DOMAIN ops' \subseteq Nat
    BY <1>0, HeadTailProperties, LenProperties DEF RunOp
  <2>2. QED
    BY <2>1
<1>6. CASE RunOp /\ Head(ops).kind = "write" /\ head' = Head(ops).head
  <2>1. /\ head'.through = ops[1].head.through /\ ops[1].kind = "write"
        /\ head.through <= head'.through /\ head'.through <= lastSeq /\ head'.through \in Nat
    BY <1>0, <1>4, <1>6 DEF WritesWithin
  <2>2. HeadsWithin'
    BY <1>0, <1>2, <1>4, <1>6, <2>1 DEF HeadsWithin, CheckpointIsOfRows
  <2>3. WritesWithin'
    BY <1>0, <1>4, <1>6, <2>1 DEF WritesWithin, WritesInOrder
  <2>4. WritesInOrder'
    <3>1. \A i, j \in DOMAIN ops' : i < j => i + 1 < j + 1
      BY <1>5, <1>6
    <3>2. QED
      BY <1>0, <1>4, <1>6, <3>1 DEF WritesInOrder
  <2>5. QED
    BY <1>0, <2>1, <2>2, <2>3, <2>4 DEF Ordered
<1>7. CASE head' = head \/ head' = NoHead
  <2>1. head'.through \in Nat /\ head'.through <= head.through
    BY <1>0, <1>7
  <2>2. HeadsWithin'
    BY <1>0, <1>1, <1>2, <1>3, <2>1 DEF HeadsWithin, CheckpointIsOfRows
  <2>3. CASE RunOp
    <3>1. WritesWithin'
      BY <1>0, <1>4, <2>1, <2>3 DEF WritesWithin
    <3>2. WritesInOrder'
      <4>1. \A i, j \in DOMAIN ops' : i < j => i + 1 < j + 1
        BY <1>5, <2>3
      <4>2. QED
        BY <1>0, <1>4, <2>3, <4>1 DEF WritesInOrder
    <3>3. QED
      BY <1>0, <1>7, <2>1, <2>2, <3>1, <3>2 DEF Ordered
  <2>4. CASE ops' = <<>>
    BY <1>0, <1>7, <2>1, <2>2, <2>4 DEF Ordered, WritesWithin, WritesInOrder
  <2>5. CASE phase # "closed" /\ phase' # "closed" /\ UNCHANGED ops
    <3>1. WritesWithin'
      BY <1>0, <1>2, <1>3, <2>1, <2>5 DEF WritesWithin
    <3>2. WritesInOrder'
      BY <1>0, <2>5 DEF WritesInOrder
    <3>3. QED
      BY <1>0, <1>7, <2>1, <2>2, <3>1, <3>2 DEF Ordered
  <2>6. ASSUME phase # "closed", phase' # "closed", NEW o \in Op, ops' = Append(ops, o),
               o.kind = "write" => o.head.through = lastSeq'
        PROVE  Ordered' /\ (head'.through >= head.through \/ head' = NoHead)
    <3>1. /\ DOMAIN ops' = 1 .. Len(ops) + 1 /\ ops'[Len(ops) + 1] = o
          /\ \A i \in DOMAIN ops : ops'[i] = ops[i]
      BY <1>0, <2>6, AppendProperties, LenProperties
    <3>2. lastSeq <= lastSeq' /\ head'.through <= lastSeq'
      BY <1>3, <2>2, <2>6 DEF HeadsWithin
    <3>3. ASSUME NEW i \in DOMAIN ops', ops'[i].kind = "write"
          PROVE  head'.through <= ops'[i].head.through /\ ops'[i].head.through <= lastSeq'
      <4>1. CASE i \in DOMAIN ops
        BY <1>0, <1>2, <2>1, <3>1, <3>2, <3>3, <4>1 DEF WritesWithin
      <4>2. CASE i = Len(ops) + 1
        BY <1>2, <2>1, <2>6, <3>1, <3>2, <3>3, <4>2
      <4>3. QED
        BY <1>0, <3>1, <4>1, <4>2
    <3>4. ASSUME NEW i \in DOMAIN ops', NEW j \in DOMAIN ops', i < j,
                 ops'[i].kind = "write", ops'[j].kind = "write"
          PROVE  ops'[i].head.through <= ops'[j].head.through
      <4>1. CASE j \in DOMAIN ops
        <5>1. i \in DOMAIN ops
          BY <1>0, <3>1, <3>4, <4>1
        <5>2. QED
          BY <1>0, <3>1, <3>4, <4>1, <5>1 DEF WritesInOrder
      <4>2. CASE j = Len(ops) + 1
        <5>1. ops'[j].head.through = lastSeq'
          BY <2>6, <3>1, <3>4, <4>2
        <5>2. QED
          BY <3>3, <3>4, <5>1
      <4>3. QED
        BY <1>0, <3>1, <4>1, <4>2
    <3>5. QED
      BY <1>0, <1>7, <2>1, <2>2, <3>3, <3>4 DEF Ordered, WritesWithin, WritesInOrder
  <2>7. phase = "closed" \/ phase' = "closed" => ops' = <<>>
    BY PhaseStep
  <2>8. \/ UNCHANGED ops \/ RunOp \/ ops' = <<>>
        \/ \E o \in Op : ops' = Append(ops, o) /\ (o.kind = "write" => o.head.through = lastSeq')
    <3>1. Seal \in Op /\ Seal.kind = "seal"
      BY Nothings DEF Seal
    <3>2. QED
      BY <3>1, OpsStep DEF vars
  <2>9. QED
    BY <2>3, <2>4, <2>5, <2>6, <2>7, <2>8
<1>8. QED
  BY <1>6, <1>7, HeadStep

-----------------------------------------------------------------------------
(* Theorems.                                                               *)

Inv == TypeOK /\ Covered /\ Verified /\ Shut /\ DamageIsRecorded /\ Ordered

LEMMA Invariance == Spec => []Inv
<1>1. Init => Inv
  <2>1. Init => DamageIsRecorded
    BY DEF Init, DamageIsRecorded
  <2>2. Init => Ordered
    BY DEF Init, Ordered, HeadsWithin, CheckpointIsOfRows, WritesWithin, WritesInOrder, NoHead
  <2>3. QED
    BY <2>1, <2>2, InitTyped, InitSafe DEF Inv
<1>2. Inv /\ [Next]_vars => Inv'
  <2> SUFFICES ASSUME Inv, [Next]_vars PROVE Inv'
    OBVIOUS
  <2>1. TypeOK /\ Covered /\ Verified /\ Shut /\ ClosedIsIdle /\ DamageIsRecorded /\ Ordered
    BY DEF Inv, Shut
  <2>2. TypeOK' /\ Covered' /\ Verified' /\ Shut' /\ DamageIsRecorded' /\ Ordered'
    BY <2>1, TypedStep, CoveredStep, VerifiedStep, ShutStep, DamageStep, OrderedStep
  <2>3. QED
    BY <2>2 DEF Inv
<1>3. QED
  BY <1>1, <1>2, PTL DEF Spec

\* A row that attests the history is committed only when the log has hashed, or
\* itself appended, every row before it: AttestAllowed is asked when the append's
\* turn in the drain has come.  And no checkpoint covers a row that its writer had
\* not verified.
THEOREM EvidenceIsSound == Spec => []EvidenceWasHashed
<1>1. Inv => EvidenceWasHashed
  BY DEF Inv, Verified, EvidenceWasHashed
<1>2. QED
  BY <1>1, Invariance, PTL

\* No process works on a ledger that has a failure row.
THEOREM DamagedStaysShut == Spec => []DamagedLedgerStaysShut
<1>1. Inv => DamagedLedgerStaysShut
  BY DEF Inv, Shut
<1>2. QED
  BY <1>1, Invariance, PTL

\* checkpointOperations keeps a head write from landing after the deletion of the
\* head that a failure row comes with.
THEOREM DroppedStays == Spec => DroppedCheckpointStays
<1>1. Inv /\ [Next]_vars => [failed /\ head = NoHead => head' = NoHead]_vars
  BY HeadStays DEF Inv
<1>2. QED
  BY <1>1, Invariance, PTL DEF Spec, DroppedCheckpointStays

\* failVerification chains the failure row with the fault: while storage answers, a log
\* that found damage and closes in order has left the row that shuts the ledger.
THEOREM FoundDamageIsRecorded == Spec => []DamageIsRecorded /\ CloseRecordsDamage
<1>1. Inv => DamageIsRecorded
  BY DEF Inv
<1>2. Inv /\ [Next]_vars => [CloseEnd /\ fault = "damage" /\ failures = 0 => failed]_vars
  BY DEF Inv, DamageIsRecorded, SealIsQueued, CloseEnd
<1>3. QED
  BY <1>1, <1>2, Invariance, PTL DEF Spec, CloseRecordsDamage

\* putVerifiedHead: whatever appends, scans and closes write, and in whatever order their
\* writes fail or land, a checkpoint covers rows that exist and never moves back.
THEOREM CheckpointsMoveForward == Spec => []CheckpointIsOfRows /\ CheckpointNeverMovesBack
<1>1. Inv => CheckpointIsOfRows
  BY DEF Inv, Ordered, HeadsWithin
<1>2. Inv /\ [Next]_vars => [head'.through >= head.through \/ head' = NoHead]_vars
  BY OrderedStep DEF Inv, Shut
<1>3. QED
  BY <1>1, <1>2, Invariance, PTL DEF Spec, CheckpointNeverMovesBack
=============================================================================
