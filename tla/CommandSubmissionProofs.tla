---------------------- MODULE CommandSubmissionProofs ----------------------
(* Theorems about CommandSubmission, for any commands, calls and rows.     *)
EXTENDS CommandSubmission, TLAPS

-----------------------------------------------------------------------------
(* The invariant.                                                          *)

\* A command in the worker is the active one of its session's queue.
InLine == \A r \in Call : at[r] \in InWorker => Active(r)

\* What is done has a row, and what failed is no success.
Outcomes ==
  \A r \in Call : /\ at[r] \in {"applied", "done"} => seq[r] # 0
                  /\ at[r] = "failed" => answer[r] # "ok"

\* Whatever is under way about a command, the command was made; what it withdraws was
\* queued before.
Known ==
  /\ replays \subseteq made /\ refused \subseteq made
  /\ \A c \in Command : pending[c] # "none" => c \in made
  /\ \A r \in Call : at[r] # "none" \/ pc[r] # "idle" => cmd[r] \in made
  /\ Inbox \subseteq 1 .. Len(rows)
  /\ \A c \in Command : payload[c] \subseteq 1 .. Len(rows)

\* Where a dispatch of a command is, and where it has not been carried out.
Dispatched == {"begun", "queued", "working", "applied", "gone", "failed", "orphan"}
Before == {"begun", "queued", "working", "gone", "orphan"}

\* One call at a time dispatches the command, and only while it has a row.
Once(c) ==
  c \notin released =>
    /\ \A q, r \in Call : /\ cmd[q] = c /\ at[q] \in Dispatched
                          /\ cmd[r] = c /\ at[r] \in Dispatched
                          => q = r
    /\ \A r \in Call : cmd[r] = c /\ at[r] \in Dispatched => entry[c] # "none"
    /\ \A r \in Call : cmd[r] = c /\ at[r] \in Before => Applied(c) = {}
    /\ entry[c] = "none" => Applied(c) = {}
    /\ \A m, n \in Applied(c) : m = n

\* Nobody is told that a command was carried out unless it was.
Truth(c) ==
  /\ \A r \in Call : /\ cmd[r] = c
                     /\ at[r] \in {"applied", "done"} \/ (at[r] = "replied" /\ answer[r] = "ok")
                     => Applied(c) # {}
  /\ entry[c] = "complete" => Applied(c) # {}
  /\ heard[c] # {} => Applied(c) # {}

\* The answers are the receipt.
Agreed(c) ==
  c \notin released =>
    /\ \A n \in heard[c] : entry[c] = "complete" /\ n = receipt[c]
    /\ \A r \in Call : cmd[r] = c /\ at[r] = "replied" /\ answer[r] = "ok"
                       => entry[c] = "complete" /\ seq[r] = receipt[c]

\* A command that is not in the client's journal and of which nothing was heard has
\* not been sent.
Unheard(c) == pending[c] = "none" /\ heard[c] = {} /\ c \notin refused
Unsent(c) ==
  Unheard(c) => /\ c \notin replays /\ Applied(c) = {}
                /\ \A r \in Call : cmd[r] = c => at[r] = "none"

\* A withdrawal that is refused will never be carried out: what it withdraws is not
\* in the inbox and does not come back.
Lost(c) == c \in made /\ payload[c] # {} /\ IsGone(c) /\ (c \notin released => Applied(c) = {})
SaysGone(r) == at[r] = "gone" \/ (at[r] \in {"failed", "replied"} /\ answer[r] = "gone")
Refused(c) ==
  /\ \A r \in Call : cmd[r] = c /\ SaysGone(r) => Lost(c)
  /\ c \in refused => Lost(c)

CommandInv(c) == Once(c) /\ Truth(c) /\ Agreed(c) /\ Unsent(c) /\ Refused(c)
Inv == TypeOK /\ InLine /\ Outcomes /\ Known /\ \A c \in Command : CommandInv(c)

-----------------------------------------------------------------------------
(* The rows.                                                               *)

\* What does not write a row changes neither the inbox nor what was carried out.
LEMMA RowsStay ==
  ASSUME UNCHANGED rows
  PROVE  Inbox' = Inbox /\ \A c \in Command : Applied(c)' = Applied(c)
BY DEF Inbox, Applied

\* One more row: its inbox is the inbox, and it may carry one command out.
LEMMA RowsGrow ==
  ASSUME TypeOK, NEW kind \in RowKind, NEW by \in SUBSET Command, NEW inbox \in SUBSET Nat,
         rows' = Append(rows, Row(kind, by, inbox))
  PROVE  /\ Len(rows') = NewSeq /\ Inbox' = inbox
         /\ rows' \in Seq([kind : RowKind, by : SUBSET Command, inbox : SUBSET Nat])
         /\ \A c \in Command :
              Applied(c)' = IF by = {c} /\ kind \in {"queued", "withdrawn"}
                              THEN Applied(c) \cup {NewSeq} ELSE Applied(c)
<1> DEFINE row == Row(kind, by, inbox)
<1>1. row \in [kind : RowKind, by : SUBSET Command, inbox : SUBSET Nat]
  BY DEF Row
<1>2. rows \in Seq([kind : RowKind, by : SUBSET Command, inbox : SUBSET Nat])
  BY DEF TypeOK
<1> HIDE DEF row
<1>3. rows' = Append(rows, row)
  BY DEF row
<1>4. /\ Len(rows') = NewSeq /\ NewSeq \in Nat \ {0} /\ Len(rows) \in Nat
      /\ rows' \in Seq([kind : RowKind, by : SUBSET Command, inbox : SUBSET Nat])
      /\ \A n \in 1 .. Len(rows) : rows'[n] = rows[n]
      /\ rows'[NewSeq] = row
      /\ DOMAIN rows' = 1 .. NewSeq /\ DOMAIN rows = 1 .. Len(rows)
  BY <1>1, <1>2, <1>3 DEF NewSeq
<1>5. row.kind = kind /\ row.by = by /\ row.inbox = inbox
  BY DEF row, Row
<1>6. Inbox' = inbox
  BY <1>4, <1>5 DEF Inbox
<1>7. ASSUME NEW c \in Command
      PROVE  Applied(c)' = IF by = {c} /\ kind \in {"queued", "withdrawn"}
                             THEN Applied(c) \cup {NewSeq} ELSE Applied(c)
  <2>1. Applied(c)' = {n \in DOMAIN rows' : rows'[n].by = {c} /\ rows'[n].kind \in {"queued", "withdrawn"}}
    BY DEF Applied
  <2>2. ASSUME NEW n
        PROVE  n \in Applied(c)' <=> \/ n \in Applied(c)
                                     \/ n = NewSeq /\ by = {c} /\ kind \in {"queued", "withdrawn"}
    <3>1. n \in DOMAIN rows' <=> n \in DOMAIN rows \/ n = NewSeq
      BY <1>4 DEF NewSeq
    <3>2. NewSeq \notin DOMAIN rows
      BY <1>4 DEF NewSeq
    <3>3. QED
      BY <2>1, <3>1, <3>2, <1>4, <1>5 DEF Applied
  <2>3. QED
    BY <2>2
<1>8. QED
  BY <1>4, <1>6, <1>7

LEMMA LastElement == ASSUME NEW S, NEW s \in Seq(S), s # <<>> PROVE Len(s) \in 1 .. Len(s) /\ s[Len(s)] \in S
OBVIOUS

LEMMA InboxTyped == TypeOK => Inbox \in SUBSET Nat /\ Len(rows) \in Nat /\ NewSeq \in Nat \ {0}
<1> SUFFICES ASSUME TypeOK PROVE Inbox \in SUBSET Nat /\ Len(rows) \in Nat /\ NewSeq \in Nat \ {0}
  OBVIOUS
<1>1. rows \in Seq([kind : RowKind, by : SUBSET Command, inbox : SUBSET Nat])
  BY DEF TypeOK
<1>2. Len(rows) \in Nat /\ (rows # <<>> => Len(rows) \in DOMAIN rows)
  BY <1>1
<1>3. ASSUME rows # <<>> PROVE rows[Len(rows)].inbox \in SUBSET Nat
  <2>1. rows[Len(rows)] \in [kind : RowKind, by : SUBSET Command, inbox : SUBSET Nat]
    BY <1>1, <1>3, LastElement
  <2>2. QED
    BY <2>1
<1>4. QED
  BY <1>2, <1>3 DEF Inbox, NewSeq

\* The row the worker writes for a command.
LEMMA WorkersRow ==
  ASSUME TypeOK, NEW c \in Command
  PROVE  \E kind \in {"queued", "withdrawn", "refused"}, inbox \in SUBSET Nat :
           /\ RowOf(c) = Row(kind, {c}, inbox) /\ inbox \subseteq Inbox \cup {NewSeq}
           /\ kind = "refused" <=> IsGone(c)
<1>1. Inbox \in SUBSET Nat /\ NewSeq \in Nat
  BY InboxTyped
<1>2. CASE ~Withdraws(c)
  BY <1>1, <1>2 DEF RowOf, Withdraws, IsGone
<1>3. CASE Withdraws(c) /\ IsGone(c)
  BY <1>1, <1>3 DEF RowOf
<1>4. CASE Withdraws(c) /\ ~IsGone(c)
  BY <1>1, <1>4 DEF RowOf
<1>5. QED
  BY <1>2, <1>3, <1>4

-----------------------------------------------------------------------------
(* Types.                                                                  *)

Place == {"none", "sent", "begun", "doubted", "queued", "working", "applied", "gone", "orphan",
          "failed", "recovering", "done", "replied"}
Verdict == {"none", "ok", "gone", "uncertain", "error"}

JournalTyped ==
  /\ pending \in [Command -> {"none", "pending", "needs-confirmation"}]
  /\ made \subseteq Command /\ payload \in [Command -> SUBSET Nat] /\ linked \in BOOLEAN /\ replays \subseteq Command
CallerTyped ==
  /\ pc \in [Call -> {"idle", "checked", "waiting", "failed", "uncertain", "acking"}]
  /\ cmd \in [Call -> Command] /\ mode \in [Call -> {"none", "submit", "replay", "check"}]
CallTyped == at \in [Call -> Place] /\ answer \in [Call -> Verdict] /\ seq \in [Call -> Nat]
TableTyped ==
  /\ entry \in [Command -> {"none", "open", "complete"}] /\ receipt \in [Command -> Nat]
  /\ \A c \in Command : receipt[c] # 0 <=> entry[c] = "complete"
  /\ acked \subseteq Command
RowsTyped == rows \in Seq([kind : RowKind, by : SUBSET Command, inbox : SUBSET Nat])
ToldTyped == heard \in [Command -> SUBSET Nat] /\ refused \subseteq Command /\ released \subseteq Command

LEMMA TypeParts ==
  /\ TypeOK <=> /\ JournalTyped /\ CallerTyped /\ CallTyped /\ line \in Seq(Call)
                /\ TableTyped /\ RowsTyped /\ ToldTyped
  /\ TypeOK' <=> /\ JournalTyped' /\ CallerTyped' /\ CallTyped' /\ line' \in Seq(Call)
                 /\ TableTyped' /\ RowsTyped' /\ ToldTyped'
<1> USE DEF TypeOK, JournalTyped, CallerTyped, CallTyped, TableTyped, RowsTyped, ToldTyped, Place, Verdict
<1>1. TypeOK <=> /\ JournalTyped /\ CallerTyped /\ CallTyped /\ line \in Seq(Call)
                 /\ TableTyped /\ RowsTyped /\ ToldTyped
  OBVIOUS
<1>2. TypeOK' <=> /\ JournalTyped' /\ CallerTyped' /\ CallTyped' /\ line' \in Seq(Call)
                  /\ TableTyped' /\ RowsTyped' /\ ToldTyped'
  OBVIOUS
<1>3. QED
  BY <1>1, <1>2

\* One call moves in the daemon.
LEMMA StepMoves ==
  ASSUME CallTyped, NEW r \in Call, NEW s \in Place, NEW a \in Verdict, NEW n \in Nat, Step(r, s, a, n)
  PROVE  /\ CallTyped' /\ at'[r] = s /\ answer'[r] = a /\ seq'[r] = n
         /\ \A q \in Call \ {r} : at'[q] = at[q] /\ answer'[q] = answer[q] /\ seq'[q] = seq[q]
BY DEF CallTyped, Step

\* One call moves in the client.
LEMMA CallerMoves ==
  ASSUME CallerTyped, NEW r \in Call, UNCHANGED cmd,
         NEW p \in {"idle", "checked", "waiting", "failed", "uncertain", "acking"},
         NEW m \in {"none", "submit", "replay", "check"}, Caller(r, p, m)
  PROVE  CallerTyped' /\ pc'[r] = p /\ \A q \in Call \ {r} : pc'[q] = pc[q]
BY DEF CallerTyped, Caller

\* An answer is delivered to the connection, or to nobody.
LEMMA ReplyMoves ==
  ASSUME CallTyped, NEW r \in Call, NEW a \in Verdict, NEW n \in Nat, Reply(r, a, n)
  PROVE  /\ CallTyped'
         /\ \A q \in Call \ {r} : at'[q] = at[q] /\ answer'[q] = answer[q] /\ seq'[q] = seq[q]
         /\ \/ at'[r] = "replied" /\ answer'[r] = a /\ seq'[r] = n
            \/ at'[r] = "none" /\ answer'[r] = "none" /\ seq'[r] = 0
<1>1. CASE Step(r, "replied", a, n)
  BY <1>1, StepMoves DEF Place
<1>2. CASE Step(r, "none", "none", 0)
  BY <1>2, StepMoves DEF Place, Verdict
<1>3. QED
  BY <1>1, <1>2 DEF Reply

\* A call leaves for the daemon.
LEMMA TransmitMoves ==
  ASSUME CallerTyped, CallTyped, NEW r \in Call, NEW c \in Command, NEW m \in {"submit", "replay", "check"},
         Transmit(r, c, m)
  PROVE  /\ CallerTyped' /\ CallTyped'
         /\ cmd'[r] = c /\ at'[r] \in {"none", "sent"} /\ answer'[r] = "none" /\ seq'[r] = 0
         /\ \A q \in Call \ {r} : /\ at'[q] = at[q] /\ answer'[q] = answer[q] /\ seq'[q] = seq[q]
                                  /\ pc'[q] = pc[q] /\ cmd'[q] = cmd[q]
<1>1. /\ CallTyped' /\ at'[r] \in {"none", "sent"} /\ answer'[r] = "none" /\ seq'[r] = 0
      /\ \A q \in Call \ {r} : at'[q] = at[q] /\ answer'[q] = answer[q] /\ seq'[q] = seq[q]
  BY StepMoves DEF Transmit, Place, Verdict
<1>2. /\ CallerTyped' /\ cmd'[r] = c
      /\ \A q \in Call \ {r} : pc'[q] = pc[q] /\ cmd'[q] = cmd[q]
  BY DEF Transmit, Caller, CallerTyped
<1>3. QED
  BY <1>1, <1>2

\* Frames and answers are lost.
LEMMA LossMoves ==
  ASSUME CallTyped, LoseFrames
  PROVE  /\ CallTyped'
         /\ \A q \in Call : \/ at'[q] = at[q] /\ answer'[q] = answer[q] /\ seq'[q] = seq[q]
                            \/ at'[q] = "none"
BY DEF CallTyped, LoseFrames, Place, Verdict

LEMMA FailMoves ==
  ASSUME CallerTyped, UNCHANGED cmd, FailCalls
  PROVE  CallerTyped' /\ \A q \in Call : pc'[q] = "idle" \/ pc[q] # "idle"
BY DEF CallerTyped, FailCalls

-----------------------------------------------------------------------------
(* Every step keeps the types.                                             *)

LEMMA TypeInit == Init => TypeOK
BY DEF Init, TypeOK

LEMMA TypeStep == ASSUME TypeOK, InLine, Outcomes, [Next]_vars PROVE TypeOK'
<1>0. /\ JournalTyped /\ CallerTyped /\ CallTyped /\ line \in Seq(Call) /\ TableTyped /\ RowsTyped /\ ToldTyped
      /\ (line # <<>> => Tail(line) \in Seq(Call))
  BY TypeParts
<1>1. ASSUME NEW r \in Call, NEW c \in Command, Submit(r, c) PROVE TypeOK'
  <2>1. JournalTyped'
    BY <1>0, <1>1, InboxTyped DEF Submit, JournalTyped
  <2>2. CallerTyped'
    BY <1>0, <1>1 DEF Submit, CallerTyped, Caller
  <2>3. UNCHANGED <<at, answer, seq, line, entry, receipt, acked, rows, heard, refused, released>>
    BY <1>1 DEF Submit, daemon, table, told
  <2>4. QED
    BY <1>0, <2>1, <2>2, <2>3, TypeParts DEF CallTyped, TableTyped, RowsTyped, ToldTyped
<1>2. ASSUME NEW r \in Call, Post(r) PROVE TypeOK'
  <2>1. JournalTyped'
    BY <1>0, <1>2 DEF Post, Marked, JournalTyped, CallerTyped
  <2>2. CallerTyped' /\ CallTyped'
    BY <1>0, <1>2, TransmitMoves DEF Post, CallerTyped
  <2>3. UNCHANGED <<line, entry, receipt, acked, rows, heard, refused, released>>
    BY <1>2 DEF Post, table, told
  <2>4. QED
    BY <1>0, <2>1, <2>2, <2>3, TypeParts DEF TableTyped, RowsTyped, ToldTyped
<1>3. CASE Reconnect
  BY <1>0, <1>3, TypeParts
  DEF Reconnect, daemon, table, told, JournalTyped, CallerTyped, CallTyped, TableTyped, RowsTyped, ToldTyped
<1>4. ASSUME NEW r \in Call, NEW c \in Command, Replay(r, c) \/ Check(r, c) PROVE TypeOK'
  <2>1. JournalTyped'
    BY <1>0, <1>4 DEF Replay, Check, JournalTyped
  <2>2. CallerTyped' /\ CallTyped'
    BY <1>0, <1>4, TransmitMoves DEF Replay, Check
  <2>3. UNCHANGED <<line, entry, receipt, acked, rows, heard, refused, released>>
    BY <1>4 DEF Replay, Check, table, told
  <2>4. QED
    BY <1>0, <2>1, <2>2, <2>3, TypeParts DEF TableTyped, RowsTyped, ToldTyped
<1>5. CASE Drop \/ ClientRestart
  <2>1. JournalTyped'
    BY <1>0, <1>5 DEF Drop, ClientRestart, JournalTyped
  <2>2. CallerTyped'
    BY <1>0, <1>5, FailMoves DEF Drop, ClientRestart, CallerTyped
  <2>3. CallTyped'
    BY <1>0, <1>5, LossMoves DEF Drop, ClientRestart
  <2>4. UNCHANGED <<line, entry, receipt, acked, rows, heard, refused, released>>
    BY <1>5 DEF Drop, ClientRestart, table, told
  <2>5. QED
    BY <1>0, <2>1, <2>2, <2>3, <2>4, TypeParts DEF TableTyped, RowsTyped, ToldTyped
<1>6. ASSUME NEW r \in Call, TimeOut(r) \/ GiveUp(r) \/ Acknowledge(r) PROVE TypeOK'
  <2>1. JournalTyped'
    BY <1>0, <1>6 DEF TimeOut, GiveUp, Acknowledge, Marked, JournalTyped, CallerTyped
  <2>2. CallerTyped'
    BY <1>0, <1>6 DEF TimeOut, GiveUp, Acknowledge, Caller, CallerTyped
  <2>3. acked' \subseteq Command
    BY <1>0, <1>6 DEF TimeOut, GiveUp, Acknowledge, table, TableTyped, CallerTyped
  <2>4. UNCHANGED <<at, answer, seq, line, entry, receipt, rows, heard, refused, released>>
    BY <1>6 DEF TimeOut, GiveUp, Acknowledge, daemon, table, told
  <2>5. QED
    BY <1>0, <2>1, <2>2, <2>3, <2>4, TypeParts DEF CallTyped, TableTyped, RowsTyped, ToldTyped
<1>7. ASSUME NEW r \in Call, Deliver(r) PROVE TypeOK'
  <2>1. JournalTyped'
    BY <1>0, <1>7 DEF Deliver, JournalTyped, CallerTyped
  <2>2. CallerTyped'
    BY <1>0, <1>7 DEF Deliver, Caller, CallerTyped
  <2>3. CallTyped'
    BY <1>0, <1>7, StepMoves DEF Deliver, Place, Verdict
  <2>4. ToldTyped'
    <3>1. /\ cmd[r] \in Command /\ seq[r] \in Nat /\ UNCHANGED released
          /\ UNCHANGED heard \/ heard' = [heard EXCEPT ![cmd[r]] = @ \cup {seq[r]}]
          /\ UNCHANGED refused \/ refused' = refused \cup {cmd[r]}
      BY <1>0, <1>7 DEF Deliver, told, CallTyped, CallerTyped
    <3>2. QED
      BY <1>0, <3>1 DEF ToldTyped
  <2>5. UNCHANGED <<line, entry, receipt, acked, rows>>
    BY <1>7 DEF Deliver, table
  <2>6. QED
    BY <1>0, <2>1, <2>2, <2>3, <2>4, <2>5, TypeParts DEF TableTyped, RowsTyped
<1>8. ASSUME NEW r \in Call, Begin(r) PROVE TypeOK'
  <2>1. TableTyped'
    BY <1>0, <1>8 DEF Begin, IsNew, TableTyped, CallerTyped
  <2>2. CallTyped'
    BY <1>0, <1>8, StepMoves, ReplyMoves DEF Begin, Place, Verdict, TableTyped, CallerTyped
  <2>3. UNCHANGED <<pending, made, payload, linked, replays, pc, cmd, mode, line, rows, heard, refused, released>>
    BY <1>8 DEF Begin, client, told
  <2>4. QED
    BY <1>0, <2>1, <2>2, <2>3, TypeParts DEF JournalTyped, CallerTyped, RowsTyped, ToldTyped
<1>9. ASSUME NEW r \in Call,
             Enqueue(r) \/ Hand(r) \/ (Reject(r) \/ Return(r)) \/ Recover(r)
      PROVE  TypeOK'
  <2>1. line' \in Seq(Call)
    <3>1. at[r] \in InWorker \/ Active(r) => line # <<>>
      BY DEF InLine, Active
    <3>2. line' \in {line, Append(line, r)} \/ (line' = Tail(line) /\ line # <<>>)
      BY <1>9, <3>1 DEF Enqueue, Hand, Reject, Return, Recover, InWorker
    <3>3. QED
      BY <1>0, <3>2
  <2>2. CallTyped'
    <3>1. CASE Enqueue(r) \/ Hand(r)
      BY <1>0, <3>1, StepMoves, ReplyMoves DEF Enqueue, Hand, Place, Verdict
    <3>2. CASE Reject(r) \/ Return(r)
      <4>1. seq[r] \in Nat /\ 0 \in Nat
        BY <1>0 DEF CallTyped
      <4>2. PICK s \in {"failed", "none", "done"}, a \in {"error", "none", "gone"}, n \in {0, seq[r]} :
              Step(r, s, a, n)
        BY <3>2 DEF Reject, Return
      <4>3. s \in Place /\ a \in Verdict /\ n \in Nat
        BY <4>1 DEF Place, Verdict
      <4>4. QED
        BY <1>0, <4>2, <4>3, StepMoves
    <3>3. CASE Recover(r)
      <4>1. Traces(cmd[r]) \subseteq Nat
        BY <1>0 DEF Traces, Applied, RowsTyped
      <4>2. QED
        BY <1>0, <3>3, <4>1, StepMoves, ReplyMoves DEF Recover, Place, Verdict
    <3>4. QED
      BY <1>9, <3>1, <3>2, <3>3
  <2>3. UNCHANGED <<client, table, rows, told, released>>
    BY <1>9 DEF Enqueue, Hand, Reject, Return, Recover
  <2>4. QED
    BY <1>0, <2>1, <2>2, <2>3, TypeParts
    DEF client, table, told, JournalTyped, CallerTyped, TableTyped, RowsTyped, ToldTyped
<1>10. ASSUME NEW r \in Call, Work(r) PROVE TypeOK'
  <2>1. RowsTyped'
    <3>1. PICK kind \in {"queued", "withdrawn", "refused"} : \E inbox \in SUBSET Nat : RowOf(cmd[r]) = Row(kind, {cmd[r]}, inbox)
      BY <1>0, WorkersRow DEF CallerTyped
    <3>2. PICK inbox \in SUBSET Nat : RowOf(cmd[r]) = Row(kind, {cmd[r]}, inbox)
      BY <3>1
    <3>3. kind \in RowKind /\ {cmd[r]} \in SUBSET Command
      BY <1>0 DEF RowKind, CallerTyped
    <3>4. rows' = Append(rows, Row(kind, {cmd[r]}, inbox))
      BY <1>10, <3>2 DEF Work
    <3>5. QED
      BY <3>3, <3>4, RowsGrow DEF RowsTyped
  <2>2. CallTyped'
    BY <1>0, <1>10, StepMoves, InboxTyped DEF Work, Place, Verdict
  <2>3. UNCHANGED <<client, line, table, told, released>>
    BY <1>10 DEF Work
  <2>4. QED
    BY <1>0, <2>1, <2>2, <2>3, TypeParts DEF client, table, told, JournalTyped, CallerTyped, TableTyped, ToldTyped
<1>11. ASSUME NEW r \in Call, Abandon(r) PROVE TypeOK'
  <2>1. TableTyped' /\ ToldTyped'
    <3>1. /\ cmd[r] \in Command /\ UNCHANGED <<receipt, acked, heard, refused>>
          /\ \/ /\ entry[cmd[r]] = "open" /\ entry' = [entry EXCEPT ![cmd[r]] = "none"]
                /\ released' \in {released, released \cup {cmd[r]}}
             \/ UNCHANGED <<entry, released>>
      BY <1>0, <1>11 DEF Abandon, CallerTyped, told
    <3>2. QED
      BY <1>0, <3>1 DEF TableTyped, ToldTyped
  <2>2. CallTyped'
    BY <1>0, <1>11, ReplyMoves DEF Abandon, CallTyped
  <2>3. UNCHANGED <<client, line, rows>>
    BY <1>11 DEF Abandon
  <2>4. QED
    BY <1>0, <2>1, <2>2, <2>3, TypeParts DEF client, JournalTyped, CallerTyped, RowsTyped
<1>12. ASSUME NEW r \in Call, Complete(r) PROVE TypeOK'
  <2>1. TableTyped'
    <3>1. cmd[r] \in Command /\ seq[r] \in Nat \ {0} /\ UNCHANGED acked
      BY <1>0, <1>12 DEF Complete, CallerTyped, CallTyped, Outcomes
    <3>2. \/ /\ entry' = [entry EXCEPT ![cmd[r]] = "complete"]
             /\ receipt' = [receipt EXCEPT ![cmd[r]] = seq[r]]
          \/ UNCHANGED <<entry, receipt>>
      BY <1>12 DEF Complete
    <3>3. QED
      BY <1>0, <3>1, <3>2 DEF TableTyped
  <2>2. CallTyped'
    BY <1>0, <1>12, ReplyMoves DEF Complete, CallTyped, Verdict
  <2>3. UNCHANGED <<client, line, rows, told, released>>
    BY <1>12 DEF Complete
  <2>4. QED
    BY <1>0, <2>1, <2>2, <2>3, TypeParts DEF client, told, JournalTyped, CallerTyped, RowsTyped, ToldTyped
<1>13. ASSUME NEW c \in Command, Collect(c) PROVE TypeOK'
  <2>1. TableTyped' /\ ToldTyped'
    BY <1>0, <1>13 DEF Collect, TableTyped, ToldTyped, told
  <2>2. UNCHANGED <<client, daemon, rows>>
    BY <1>13 DEF Collect
  <2>3. QED
    BY <1>0, <2>1, <2>2, TypeParts DEF client, daemon, JournalTyped, CallerTyped, CallTyped, RowsTyped
<1>14. CASE InboxMoves
  <2>1. RowsTyped'
    <3>1. PICK kind \in {"claimed", "queued"} : \E inbox \in SUBSET Nat : rows' = Append(rows, Row(kind, {}, inbox))
      BY <1>14, InboxTyped DEF InboxMoves
    <3>2. QED
      BY <3>1, RowsGrow DEF RowsTyped, RowKind
  <2>2. UNCHANGED <<client, daemon, table, told, released>>
    BY <1>14 DEF InboxMoves
  <2>3. QED
    BY <1>0, <2>1, <2>2, TypeParts
    DEF client, daemon, table, told, JournalTyped, CallerTyped, CallTyped, TableTyped, ToldTyped
<1>15. CASE WorkerCrash
  <2>1. CallTyped' /\ line' \in Seq(Call)
    BY <1>0, <1>15 DEF WorkerCrash, CallTyped, Place, Verdict
  <2>2. UNCHANGED <<client, table, rows, told, released>>
    BY <1>15 DEF WorkerCrash
  <2>3. QED
    BY <1>0, <2>1, <2>2, TypeParts
    DEF client, table, told, JournalTyped, CallerTyped, TableTyped, RowsTyped, ToldTyped
<1>16. CASE DaemonCrash
  <2>1. CallTyped' /\ line' \in Seq(Call)
    BY <1>0, <1>16 DEF DaemonCrash, CallTyped, Place, Verdict
  <2>2. JournalTyped' /\ CallerTyped'
    BY <1>0, <1>16, FailMoves DEF DaemonCrash, JournalTyped
  <2>3. UNCHANGED <<table, rows, told, released>>
    BY <1>16 DEF DaemonCrash
  <2>4. QED
    BY <1>0, <2>1, <2>2, <2>3, TypeParts DEF table, told, TableTyped, RowsTyped, ToldTyped
<1>17. CASE UNCHANGED vars
  BY <1>0, <1>17, TypeParts
  DEF vars, client, daemon, table, told, JournalTyped, CallerTyped, CallTyped, TableTyped, RowsTyped, ToldTyped
<1>18. QED
  BY <1>1, <1>2, <1>3, <1>4, <1>5, <1>6, <1>7, <1>8, <1>9, <1>10, <1>11, <1>12, <1>13, <1>14, <1>15,
     <1>16, <1>17 DEF Next

-----------------------------------------------------------------------------
(* What a step leaves as it was.                                           *)

\* A call moves, as far as the command c is concerned, to where nothing new is claimed.
Harmless(q, c) ==
  cmd'[q] = c =>
    \/ at'[q] = "none"
    \/ at'[q] = "sent" /\ ~Unheard(c)'
    \/ /\ cmd[q] = c /\ at[q] # "none"
       /\ at'[q] \in Dispatched => at[q] \in Dispatched
       /\ at'[q] \in Before => at[q] \in Before
       /\ at'[q] \in {"applied", "done"} => Applied(c) # {}
       /\ at'[q] = "replied" /\ answer'[q] = "ok" =>
            Applied(c) # {} /\ (c \notin released => entry[c] = "complete" /\ seq'[q] = receipt[c])
       /\ SaysGone(q)' => Lost(c)

\* A call that stays where it is.
LEMMA Resting ==
  ASSUME NEW c \in Command, CommandInv(c), NEW q \in Call,
         cmd'[q] = cmd[q], at'[q] = at[q], answer'[q] = answer[q], seq'[q] = seq[q]
  PROVE  Harmless(q, c)
BY DEF CommandInv, Truth, Agreed, Refused, Harmless, SaysGone

\* What nobody knows of stays so only if it was so.
LEMMA Frame ==
  ASSUME NEW c \in Command, CommandInv(c),
         Applied(c)' = Applied(c), entry'[c] = entry[c], receipt'[c] = receipt[c], heard'[c] = heard[c],
         c \in released' <=> c \in released, c \in refused' <=> c \in refused,
         Unheard(c)' => Unheard(c) /\ c \notin replays',
         Lost(c) => Lost(c)',
         \A q \in Call : Harmless(q, c)
  PROVE  CommandInv(c)'
<1>1. Once(c)'
  BY DEF CommandInv, Once, Harmless, Dispatched, Before
<1>2. Truth(c)'
  BY DEF CommandInv, Truth, Harmless
<1>3. Agreed(c)'
  BY DEF CommandInv, Agreed, Harmless
<1>4. Unsent(c)'
  BY DEF CommandInv, Unsent, Harmless
<1>5. Refused(c)'
  BY DEF CommandInv, Refused, Harmless, SaysGone
<1>6. QED
  BY <1>1, <1>2, <1>3, <1>4, <1>5 DEF CommandInv

\* What is lost stays lost as long as the inbox only gains new items.
LEMMA LostStays ==
  ASSUME NEW c \in Command, Known, TypeOK, Inbox' \subseteq Inbox \cup {NewSeq},
         made \subseteq made', c \in made => payload'[c] = payload[c], released \subseteq released',
         Applied(c)' = Applied(c)
  PROVE  Lost(c) => Lost(c)'
<1>1. NewSeq \notin 1 .. Len(rows)
  BY InboxTyped DEF NewSeq
<1>2. ASSUME Lost(c) PROVE Lost(c)'
  <2>1. payload[c] \subseteq 1 .. Len(rows) /\ ~(payload[c] \subseteq Inbox) /\ payload'[c] = payload[c]
    BY <1>2 DEF Known, Lost, IsGone
  <2>2. ~(payload'[c] \subseteq Inbox')
    BY <1>1, <2>1
  <2>3. QED
    BY <1>2, <2>1, <2>2 DEF Lost, IsGone
<1>3. QED
  BY <1>2

\* A step that writes no row.
LEMMA Quiet ==
  ASSUME NEW c \in Command, TypeOK, Known, UNCHANGED rows,
         made \subseteq made', c \in made => payload'[c] = payload[c], released \subseteq released'
  PROVE  Applied(c)' = Applied(c) /\ Inbox' = Inbox /\ (Lost(c) => Lost(c)')
BY RowsStay, LostStays

-----------------------------------------------------------------------------
(* Every step keeps what the invariant says of a command.                  *)

\* The steps of the client, but for the answer it receives.
LEMMA ClientSteps ==
  ASSUME Inv, NEW c \in Command,
         \/ \E r \in Call, d \in Command : Submit(r, d) \/ Replay(r, d) \/ Check(r, d)
         \/ \E r \in Call : Post(r) \/ TimeOut(r) \/ GiveUp(r) \/ Acknowledge(r)
         \/ Reconnect \/ Drop \/ ClientRestart
  PROVE  CommandInv(c)'
<1>0. /\ JournalTyped /\ CallerTyped /\ CallTyped /\ Known /\ TypeOK /\ CommandInv(c)
  BY TypeParts DEF Inv
<1>1. ASSUME NEW r \in Call, NEW d \in Command, Submit(r, d) PROVE CommandInv(c)'
  <2>1. /\ UNCHANGED <<pending, replays, at, answer, seq, entry, receipt, rows, heard, refused, released>>
        /\ made \subseteq made' /\ (c \in made => payload'[c] = payload[c]) /\ at[r] = "none"
        /\ \A q \in Call \ {r} : cmd'[q] = cmd[q]
    BY <1>0, <1>1 DEF Submit, daemon, table, told, Free, CallerTyped, JournalTyped
  <2>2. Harmless(r, c)
    BY <2>1 DEF Harmless
  <2>3. \A q \in Call : Harmless(q, c)
    BY <1>0, <2>1, <2>2, Resting
  <2>4. Unheard(c)' => Unheard(c) /\ c \notin replays'
    BY <1>0, <2>1 DEF Unheard, CommandInv, Unsent
  <2>5. QED
    BY <1>0, <2>1, <2>3, <2>4, Quiet, Frame
<1>2. ASSUME NEW r \in Call, NEW d \in Command, Replay(r, d) \/ Check(r, d) \/ (Post(r) /\ d = cmd[r])
      PROVE  CommandInv(c)'
  <2>1. /\ UNCHANGED <<made, payload, entry, receipt, rows, heard, refused, released>>
        /\ replays' \subseteq replays /\ (pending'[c] = "none" => pending[c] = "none")
        /\ ~Unheard(d)'
    <3>1. CASE Replay(r, d)
      BY <1>0, <3>1 DEF Replay, table, told, Unheard, CommandInv, Unsent, Inv
    <3>2. CASE Check(r, d)
      BY <3>2 DEF Check, table, told, Unheard
    <3>3. CASE Post(r) /\ d = cmd[r]
      BY <1>0, <3>3 DEF Post, Marked, table, told, Unheard, JournalTyped
    <3>4. QED
      BY <1>2, <3>1, <3>2, <3>3
  <2>2. \E m \in {"submit", "replay", "check"} : Transmit(r, d, m)
    BY <1>2 DEF Replay, Check, Post
  <2>3. /\ cmd'[r] = d /\ at'[r] \in {"none", "sent"}
        /\ \A q \in Call \ {r} : /\ at'[q] = at[q] /\ answer'[q] = answer[q] /\ seq'[q] = seq[q]
                                 /\ cmd'[q] = cmd[q]
    BY <1>0, <2>2, TransmitMoves
  <2>4. Harmless(r, c)
    BY <2>1, <2>3 DEF Harmless
  <2>5. \A q \in Call : Harmless(q, c)
    BY <1>0, <2>3, <2>4, Resting
  <2>6. Unheard(c)' => Unheard(c) /\ c \notin replays'
    BY <1>0, <2>1 DEF Unheard, CommandInv, Unsent
  <2>7. QED
    BY <1>0, <2>1, <2>5, <2>6, Quiet, Frame
<1>3. ASSUME NEW r \in Call, TimeOut(r) \/ GiveUp(r) \/ Acknowledge(r) PROVE CommandInv(c)'
  <2>1. /\ UNCHANGED <<made, payload, replays, cmd, at, answer, seq, entry, receipt, rows, heard, refused, released>>
        /\ (pending'[c] = "none" => pending[c] = "none")
    BY <1>0, <1>3 DEF TimeOut, GiveUp, Acknowledge, Marked, daemon, table, told, JournalTyped
  <2>2. \A q \in Call : Harmless(q, c)
    BY <1>0, <2>1, Resting
  <2>3. Unheard(c)' => Unheard(c) /\ c \notin replays'
    BY <1>0, <2>1 DEF Unheard, CommandInv, Unsent
  <2>4. QED
    BY <1>0, <2>1, <2>2, <2>3, Quiet, Frame
<1>4. CASE Reconnect
  <2>1. /\ UNCHANGED <<pending, made, payload, cmd, at, answer, seq, entry, receipt, rows, heard, refused, released>>
        /\ replays' = {d \in Command : pending[d] = "pending"}
    BY <1>4 DEF Reconnect, daemon, table, told
  <2>2. \A q \in Call : Harmless(q, c)
    BY <1>0, <2>1, Resting
  <2>3. Unheard(c)' => Unheard(c) /\ c \notin replays'
    BY <2>1 DEF Unheard
  <2>4. QED
    BY <1>0, <2>1, <2>2, <2>3, Quiet, Frame
<1>5. CASE Drop \/ ClientRestart
  <2>1. /\ UNCHANGED <<pending, made, payload, cmd, entry, receipt, rows, heard, refused, released>>
        /\ replays' \subseteq replays /\ LoseFrames
    BY <1>5 DEF Drop, ClientRestart, table, told
  <2>2. ASSUME NEW q \in Call PROVE Harmless(q, c)
    <3>1. CASE at'[q] = "none"
      BY <3>1 DEF Harmless
    <3>2. CASE at'[q] = at[q] /\ answer'[q] = answer[q] /\ seq'[q] = seq[q]
      BY <1>0, <2>1, <3>2, Resting
    <3>3. QED
      BY <1>0, <2>1, <3>1, <3>2, LossMoves
  <2>3. Unheard(c)' => Unheard(c) /\ c \notin replays'
    BY <1>0, <2>1 DEF Unheard, CommandInv, Unsent
  <2>4. QED
    BY <1>0, <2>1, <2>2, <2>3, Quiet, Frame
<1>6. ASSUME NEW r \in Call, Post(r) PROVE CommandInv(c)'
  BY <1>0, <1>2, <1>6 DEF CallerTyped
<1>7. QED
  BY <1>1, <1>2, <1>3, <1>4, <1>5, <1>6

\* The steps of the daemon that touch neither table nor rows.
LEMMA DaemonSteps ==
  ASSUME Inv, NEW c \in Command, NEW r \in Call,
         UNCHANGED <<client, entry, receipt, rows, told, released>>,
         \/ Begin(r) \/ Enqueue(r) \/ Hand(r)
         \/ Reject(r) \/ Return(r) \/ Abandon(r) \/ Recover(r) \/ Complete(r)
  PROVE  CommandInv(c)'
<1>0. /\ JournalTyped /\ CallerTyped /\ CallTyped /\ Known /\ TypeOK /\ CommandInv(c) /\ Outcomes
      /\ TableTyped
  BY TypeParts DEF Inv
<1>1. UNCHANGED <<pending, made, payload, replays, cmd, entry, receipt, rows, heard, refused, released>>
  BY DEF client, told
<1>2. \A q \in Call \ {r} : at'[q] = at[q] /\ answer'[q] = answer[q] /\ seq'[q] = seq[q]
  BY <1>0 DEF Begin, Enqueue, Hand, Reject, Return, Abandon, Recover, Complete, Reply, Step, CallTyped
<1>3. ASSUME cmd[r] = c PROVE Harmless(r, c)
  <2> DEFINE Told(a, n) == \/ at'[r] = "replied" /\ answer'[r] = a /\ seq'[r] = n
                           \/ at'[r] = "none"
             Goes(p, a) == at'[r] = p /\ answer'[r] = a
  <2>1. \/ at[r] = "sent" /\ Goes("recovering", "none")
        \/ at[r] = "sent" /\ Goes("doubted", "none")
        \/ at[r] = "sent" /\ entry[c] = "complete" /\ Told("ok", receipt[c])
        \/ at[r] = "begun" /\ (Goes("queued", "none") \/ Goes("failed", "error"))
        \/ at[r] = "doubted" /\ (Goes("recovering", "none") \/ Told("error", 0))
        \/ at[r] = "queued" /\ (Goes("working", "none") \/ Goes("failed", "error"))
        \/ at[r] = "working" /\ Goes("failed", "error")
        \/ at[r] = "orphan" /\ Goes("none", "none")
        \/ at[r] = "applied" /\ (Goes("done", "none") \/ Goes("failed", "error"))
        \/ at[r] = "gone" /\ Goes("failed", "gone")
        \/ at[r] = "failed" /\ Told(answer[r], 0)
        \/ at[r] = "recovering" /\ Traces(c) # {} /\ Goes("done", "none")
        \/ at[r] = "recovering" /\ (Told("uncertain", 0) \/ Told("error", 0))
        \/ at[r] = "done" /\ entry[c] = "complete" /\ receipt[c] = seq[r] /\ Told("ok", seq[r])
        \/ at[r] = "done" /\ Told("error", 0)
    <3>1. CASE Begin(r)
      BY <1>0, <1>1, <1>3, <3>1 DEF Begin, IsNew, Step, Reply, CallTyped, TableTyped
    <3>2. CASE Enqueue(r) \/ Hand(r) \/ (Reject(r) \/ Return(r))
      BY <1>0, <3>2 DEF Enqueue, Hand, Reject, Return, Step, Reply, CallTyped
    <3>3. CASE Abandon(r)
      BY <1>0, <3>3 DEF Abandon, Step, Reply, CallTyped
    <3>4. CASE Recover(r)
      BY <1>0, <1>3, <3>4 DEF Recover, Step, Reply, CallTyped
    <3>5. CASE Complete(r)
      BY <1>0, <1>1, <1>3, <3>5 DEF Complete, Agrees, Step, Reply, CallTyped, TableTyped
    <3>6. QED
      BY <3>1, <3>2, <3>3, <3>4, <3>5
  <2>2. Traces(c) # {} => Applied(c) # {}
    BY DEF Traces
  <2>3. /\ at[r] \in {"applied", "done"} => Applied(c) # {}
        /\ entry[c] = "complete" => Applied(c) # {}
        /\ SaysGone(r) => Lost(c)
        /\ at[r] = "failed" => answer[r] # "ok"
    BY <1>0, <1>3 DEF CommandInv, Truth, Refused, Outcomes
  <2>4. QED
    BY <1>1, <1>3, <2>1, <2>2, <2>3 DEF Harmless, SaysGone, Dispatched, Before
<1>4. \A q \in Call : Harmless(q, c)
  <2>1. cmd[r] # c => Harmless(r, c)
    BY <1>1 DEF Harmless
  <2>2. QED
    BY <1>0, <1>1, <1>2, <1>3, <2>1, Resting
<1>5. Unheard(c)' => Unheard(c) /\ c \notin replays'
  BY <1>0, <1>1 DEF Unheard, CommandInv, Unsent
<1>6. QED
  BY <1>0, <1>1, <1>4, <1>5, Quiet, Frame

\* A new command gets its row.
LEMMA BeginsNew ==
  ASSUME Inv, NEW c \in Command, NEW r \in Call, Begin(r), IsNew(cmd[r])
  PROVE  CommandInv(c)'
<1>0. /\ CallerTyped /\ CallTyped /\ Known /\ TypeOK /\ CommandInv(c) /\ TableTyped /\ cmd[r] \in Command
  BY TypeParts DEF Inv, CallerTyped
<1>1. /\ UNCHANGED <<pending, made, payload, replays, cmd, receipt, rows, heard, refused, released>>
      /\ at[r] = "sent" /\ at'[r] = "begun" /\ answer'[r] = "none" /\ entry[cmd[r]] = "none"
      /\ entry' = [entry EXCEPT ![cmd[r]] = "open"]
      /\ \A q \in Call \ {r} : at'[q] = at[q] /\ answer'[q] = answer[q] /\ seq'[q] = seq[q]
  BY <1>0, StepMoves DEF Begin, IsNew, client, told, Place, Verdict
<1>2. Applied(c)' = Applied(c) /\ (Lost(c) => Lost(c)')
  BY <1>0, <1>1, Quiet
<1>3. CASE cmd[r] # c
  <2>1. \A q \in Call : Harmless(q, c)
    BY <1>0, <1>1, <1>3, Resting DEF Harmless
  <2>2. entry'[c] = entry[c]
    BY <1>0, <1>1, <1>3 DEF TableTyped
  <2>3. Unheard(c)' => Unheard(c) /\ c \notin replays'
    BY <1>0, <1>1 DEF Unheard, CommandInv, Unsent
  <2>4. QED
    BY <1>0, <1>1, <1>2, <2>1, <2>2, <2>3, Frame
<1>4. CASE cmd[r] = c
  <2>0. entry[c] = "none" /\ entry'[c] = "open"
    BY <1>0, <1>1, <1>4 DEF TableTyped
  <2>1. Once(c)'
    BY <1>0, <1>1, <1>2, <1>4, <2>0 DEF CommandInv, Once, Dispatched, Before
  <2>2. Truth(c)' /\ Agreed(c)'
    BY <1>0, <1>1, <1>2, <1>4, <2>0 DEF CommandInv, Truth, Agreed
  <2>3. Unsent(c)' /\ Refused(c)'
    BY <1>0, <1>1, <1>2, <1>4 DEF CommandInv, Unsent, Unheard, Refused, SaysGone
  <2>4. QED
    BY <2>1, <2>2, <2>3 DEF CommandInv
<1>5. QED
  BY <1>3, <1>4

\* A dispatch that threw releases its row.
LEMMA Releases ==
  ASSUME Inv, NEW c \in Command, NEW r \in Call, Abandon(r), entry[cmd[r]] = "open"
  PROVE  CommandInv(c)'
<1>0. /\ CallerTyped /\ CallTyped /\ Known /\ TypeOK /\ CommandInv(c) /\ TableTyped /\ cmd[r] \in Command
      /\ Outcomes
  BY TypeParts DEF Inv, CallerTyped
<1>1. /\ UNCHANGED <<pending, made, payload, replays, cmd, receipt, rows, heard, refused>>
      /\ at[r] = "failed" /\ at'[r] \in {"none", "replied"} /\ answer[r] # "ok"
      /\ at'[r] = "replied" => answer'[r] = answer[r]
      /\ entry' = [entry EXCEPT ![cmd[r]] = "none"]
      /\ released' = IF Applied(cmd[r]) # {} THEN released \cup {cmd[r]} ELSE released
      /\ \A q \in Call \ {r} : at'[q] = at[q] /\ answer'[q] = answer[q] /\ seq'[q] = seq[q]
  BY <1>0, ReplyMoves DEF Abandon, client, told, CallTyped, Outcomes
<1>2. Applied(c)' = Applied(c) /\ (Lost(c) => Lost(c)')
  BY <1>0, <1>1, Quiet
<1>3. CASE cmd[r] # c
  <2>1. \A q \in Call : Harmless(q, c)
    BY <1>0, <1>1, <1>3, Resting DEF Harmless
  <2>2. entry'[c] = entry[c] /\ (c \in released' <=> c \in released)
    BY <1>0, <1>1, <1>3 DEF TableTyped
  <2>3. Unheard(c)' => Unheard(c) /\ c \notin replays'
    BY <1>0, <1>1 DEF Unheard, CommandInv, Unsent
  <2>4. QED
    BY <1>0, <1>1, <1>2, <2>1, <2>2, <2>3, Frame
<1>4. CASE cmd[r] = c
  <2>0. entry[c] = "open" /\ entry'[c] = "none" /\ (c \notin released' => c \notin released /\ Applied(c) = {})
    BY <1>0, <1>1, <1>4 DEF TableTyped
  <2>1. Once(c)'
    BY <1>0, <1>1, <1>2, <1>4, <2>0 DEF CommandInv, Once, Dispatched, Before
  <2>2. Truth(c)' /\ Agreed(c)'
    BY <1>0, <1>1, <1>2, <1>4, <2>0 DEF CommandInv, Truth, Agreed
  <2>3. Unsent(c)' /\ Refused(c)'
    BY <1>0, <1>1, <1>2, <1>4 DEF CommandInv, Unsent, Unheard, Refused, SaysGone
  <2>4. QED
    BY <2>1, <2>2, <2>3 DEF CommandInv
<1>5. QED
  BY <1>3, <1>4

\* A result is written.
LEMMA WritesResult ==
  ASSUME Inv, NEW c \in Command, NEW r \in Call, Complete(r), entry[cmd[r]] = "open"
  PROVE  CommandInv(c)'
<1>0. /\ CallerTyped /\ CallTyped /\ Known /\ TypeOK /\ CommandInv(c) /\ TableTyped /\ cmd[r] \in Command
  BY TypeParts DEF Inv, CallerTyped
<1>1. /\ UNCHANGED <<pending, made, payload, replays, cmd, rows, heard, refused, released>>
      /\ at[r] = "done" /\ at'[r] \in {"none", "replied"}
      /\ at'[r] = "replied" => answer'[r] = "ok" /\ seq'[r] = seq[r]
      /\ entry' = [entry EXCEPT ![cmd[r]] = "complete"] /\ receipt' = [receipt EXCEPT ![cmd[r]] = seq[r]]
      /\ \A q \in Call \ {r} : at'[q] = at[q] /\ answer'[q] = answer[q] /\ seq'[q] = seq[q]
  BY <1>0, ReplyMoves DEF Complete, client, told, CallTyped, Verdict
<1>2. Applied(c)' = Applied(c) /\ (Lost(c) => Lost(c)')
  BY <1>0, <1>1, Quiet
<1>3. CASE cmd[r] # c
  <2>1. \A q \in Call : Harmless(q, c)
    BY <1>0, <1>1, <1>3, Resting DEF Harmless
  <2>2. entry'[c] = entry[c] /\ receipt'[c] = receipt[c]
    BY <1>0, <1>1, <1>3 DEF TableTyped
  <2>3. Unheard(c)' => Unheard(c) /\ c \notin replays'
    BY <1>0, <1>1 DEF Unheard, CommandInv, Unsent
  <2>4. QED
    BY <1>0, <1>1, <1>2, <2>1, <2>2, <2>3, Frame
<1>4. CASE cmd[r] = c
  <2>0. entry[c] = "open" /\ entry'[c] = "complete" /\ receipt'[c] = seq[r] /\ Applied(c) # {}
    BY <1>0, <1>1, <1>4 DEF TableTyped, CommandInv, Truth
  <2>1. Once(c)'
    BY <1>0, <1>1, <1>2, <1>4, <2>0 DEF CommandInv, Once, Dispatched, Before
  <2>2. Truth(c)' /\ Agreed(c)'
    BY <1>0, <1>1, <1>2, <1>4, <2>0 DEF CommandInv, Truth, Agreed
  <2>3. Unsent(c)' /\ Refused(c)'
    BY <1>0, <1>1, <1>2, <1>4 DEF CommandInv, Unsent, Unheard, Refused, SaysGone
  <2>4. QED
    BY <2>1, <2>2, <2>3 DEF CommandInv
<1>5. QED
  BY <1>3, <1>4

\* An acknowledged row is deleted.
LEMMA Collects ==
  ASSUME Inv, NEW c \in Command, NEW d \in Command, Collect(d)
  PROVE  CommandInv(c)'
<1>0. CallTyped /\ Known /\ TypeOK /\ CommandInv(c) /\ TableTyped
  BY TypeParts DEF Inv
<1>1. /\ UNCHANGED <<pending, made, payload, replays, cmd, at, answer, seq, rows, heard, refused>>
      /\ entry' = [entry EXCEPT ![d] = "none"] /\ receipt' = [receipt EXCEPT ![d] = 0]
      /\ released' = released \cup {d}
  BY DEF Collect, client, daemon, told
<1>2. Applied(c)' = Applied(c) /\ (Lost(c) => Lost(c)')
  BY <1>0, <1>1, Quiet
<1>3. CASE d # c
  <2>1. \A q \in Call : Harmless(q, c)
    BY <1>0, <1>1, Resting
  <2>2. entry'[c] = entry[c] /\ receipt'[c] = receipt[c] /\ (c \in released' <=> c \in released)
    BY <1>0, <1>1, <1>3 DEF TableTyped
  <2>3. Unheard(c)' => Unheard(c) /\ c \notin replays'
    BY <1>0, <1>1 DEF Unheard, CommandInv, Unsent
  <2>4. QED
    BY <1>0, <1>1, <1>2, <2>1, <2>2, <2>3, Frame
<1>4. CASE d = c
  <2>0. entry'[c] = "none" /\ c \in released'
    BY <1>0, <1>1, <1>4 DEF TableTyped
  <2>1. QED
    BY <1>0, <1>1, <1>2, <2>0 DEF CommandInv, Once, Truth, Agreed, Unsent, Unheard, Refused, SaysGone
<1>5. QED
  BY <1>3, <1>4

\* The worker writes its row: only here a command is carried out.
LEMMA Works ==
  ASSUME Inv, NEW c \in Command, NEW r \in Call, Work(r)
  PROVE  CommandInv(c)'
<1>0. /\ CallerTyped /\ CallTyped /\ Known /\ TypeOK /\ CommandInv(c) /\ cmd[r] \in Command
  BY TypeParts DEF Inv, CallerTyped
<1>1. UNCHANGED <<pending, made, payload, replays, cmd, entry, receipt, heard, refused, released>>
  BY DEF Work, client, table, told
<1>2. /\ \/ at[r] = "working" /\ ~IsGone(cmd[r]) /\ at'[r] = "applied"
         \/ at[r] = "working" /\ IsGone(cmd[r]) /\ at'[r] = "gone"
         \/ at[r] = "orphan" /\ at'[r] = "none"
      /\ answer'[r] = "none"
      /\ \A q \in Call \ {r} : at'[q] = at[q] /\ answer'[q] = answer[q] /\ seq'[q] = seq[q]
  BY <1>0, StepMoves, InboxTyped DEF Work, Place, Verdict
<1>3. /\ Inbox' \subseteq Inbox \cup {NewSeq}
      /\ Applied(c)' = IF cmd[r] = c /\ ~IsGone(c) THEN Applied(c) \cup {NewSeq} ELSE Applied(c)
  <2>1. PICK kind \in {"queued", "withdrawn", "refused"} :
          \E inbox \in SUBSET Nat : /\ RowOf(cmd[r]) = Row(kind, {cmd[r]}, inbox)
                                    /\ inbox \subseteq Inbox \cup {NewSeq}
                                    /\ kind = "refused" <=> IsGone(cmd[r])
    BY <1>0, WorkersRow
  <2>2. PICK inbox \in SUBSET Nat : /\ RowOf(cmd[r]) = Row(kind, {cmd[r]}, inbox)
                                    /\ inbox \subseteq Inbox \cup {NewSeq}
                                    /\ kind = "refused" <=> IsGone(cmd[r])
    BY <2>1
  <2>3. rows' = Append(rows, Row(kind, {cmd[r]}, inbox)) /\ kind \in RowKind /\ {cmd[r]} \in SUBSET Command
    BY <1>0, <2>2 DEF Work, RowKind
  <2>4. /\ Inbox' = inbox
        /\ Applied(c)' = IF {cmd[r]} = {c} /\ kind \in {"queued", "withdrawn"}
                           THEN Applied(c) \cup {NewSeq} ELSE Applied(c)
    BY <1>0, <2>3, RowsGrow
  <2>5. QED
    BY <2>2, <2>4
<1>4. ASSUME Applied(c)' = Applied(c), Harmless(r, c) PROVE CommandInv(c)'
  <2>1. \A q \in Call : Harmless(q, c)
    BY <1>0, <1>1, <1>2, <1>4, Resting
  <2>2. Lost(c) => Lost(c)'
    BY <1>0, <1>1, <1>3, <1>4, LostStays
  <2>3. Unheard(c)' => Unheard(c) /\ c \notin replays'
    BY <1>0, <1>1 DEF Unheard, CommandInv, Unsent
  <2>4. QED
    BY <1>0, <1>1, <1>4, <2>1, <2>2, <2>3, Frame
<1>5. CASE cmd[r] # c
  BY <1>1, <1>3, <1>4, <1>5 DEF Harmless
<1>6. CASE cmd[r] = c /\ IsGone(c)
  <2>1. c \in made /\ payload[c] # {}
    BY <1>0, <1>2, <1>6 DEF Known, IsGone
  <2>2. Lost(c)
    BY <1>0, <1>2, <1>6, <2>1 DEF CommandInv, Once, Before, Lost
  <2>3. Harmless(r, c)
    BY <1>2, <1>6, <2>2 DEF Harmless, Dispatched, Before
  <2>4. QED
    BY <1>3, <1>4, <1>6, <2>3
<1>7. CASE cmd[r] = c /\ ~IsGone(c)
  <2>0. ~Lost(c) /\ Applied(c)' = Applied(c) \cup {NewSeq} /\ at'[r] \in {"applied", "none"}
    BY <1>2, <1>3, <1>7 DEF Lost
  <2>1. Once(c)'
    BY <1>0, <1>1, <1>2, <1>7, <2>0 DEF CommandInv, Once, Dispatched, Before
  <2>2. Truth(c)' /\ Agreed(c)'
    BY <1>0, <1>1, <1>2, <1>7, <2>0 DEF CommandInv, Truth, Agreed
  <2>3. Unsent(c)' /\ Refused(c)'
    BY <1>0, <1>1, <1>2, <1>7, <2>0 DEF CommandInv, Unsent, Unheard, Refused, SaysGone
  <2>4. QED
    BY <2>1, <2>2, <2>3 DEF CommandInv
<1>8. QED
  BY <1>5, <1>6, <1>7

\* The session goes on.
LEMMA Moves ==
  ASSUME Inv, NEW c \in Command, InboxMoves
  PROVE  CommandInv(c)'
<1>0. Known /\ TypeOK /\ CommandInv(c)
  BY DEF Inv
<1>1. UNCHANGED <<pending, made, payload, replays, cmd, at, answer, seq, entry, receipt, heard, refused, released>>
  BY DEF InboxMoves, client, daemon, table, told
<1>2. Inbox' \subseteq Inbox \cup {NewSeq} /\ Applied(c)' = Applied(c)
  <2>1. PICK kind \in {"claimed", "queued"} :
          \E inbox \in SUBSET Nat : /\ rows' = Append(rows, Row(kind, {}, inbox))
                                    /\ inbox \subseteq Inbox \cup {NewSeq}
    BY <1>0, InboxTyped DEF InboxMoves
  <2>2. kind \in RowKind /\ {} \in SUBSET Command
    BY DEF RowKind
  <2>3. QED
    BY <1>0, <2>1, <2>2, RowsGrow
<1>3. \A q \in Call : Harmless(q, c)
  BY <1>0, <1>1, Resting
<1>4. Unheard(c)' => Unheard(c) /\ c \notin replays'
  BY <1>0, <1>1 DEF Unheard, CommandInv, Unsent
<1>5. QED
  BY <1>0, <1>1, <1>2, <1>3, <1>4, LostStays, Frame

\* Crashes of the worker and of the daemon.
LEMMA Crashes ==
  ASSUME Inv, NEW c \in Command, WorkerCrash \/ DaemonCrash
  PROVE  CommandInv(c)'
<1>0. CallTyped /\ Known /\ TypeOK /\ CommandInv(c)
  BY TypeParts DEF Inv
<1>1. UNCHANGED <<pending, made, payload, replays, cmd, entry, receipt, rows, heard, refused, released>>
  BY DEF WorkerCrash, DaemonCrash, client, table, told
<1>2. ASSUME NEW q \in Call PROVE Harmless(q, c)
  <2>1. \/ at'[q] = "none"
        \/ at'[q] = at[q] /\ answer'[q] = answer[q] /\ seq'[q] = seq[q]
        \/ at[q] \in InWorker /\ at'[q] = "failed" /\ answer'[q] = "error"
        \/ at[q] \in {"working", "orphan"} /\ at'[q] = "orphan"
    BY <1>0 DEF WorkerCrash, DaemonCrash, CallTyped
  <2>2. CASE at[q] \in InWorker /\ at'[q] = "failed" /\ answer'[q] = "error"
    BY <1>1, <2>2 DEF Harmless, InWorker, Dispatched, Before, SaysGone
  <2>3. CASE at[q] \in {"working", "orphan"} /\ at'[q] = "orphan"
    BY <1>1, <2>3 DEF Harmless, Dispatched, Before, SaysGone
  <2>4. CASE at'[q] = at[q] /\ answer'[q] = answer[q] /\ seq'[q] = seq[q]
    BY <1>0, <1>1, <2>4, Resting
  <2>5. QED
    BY <2>1, <2>2, <2>3, <2>4 DEF Harmless
<1>3. Unheard(c)' => Unheard(c) /\ c \notin replays'
  BY <1>0, <1>1 DEF Unheard, CommandInv, Unsent
<1>4. QED
  BY <1>0, <1>1, <1>2, <1>3, Quiet, Frame

\* The client receives an answer.
LEMMA Delivers ==
  ASSUME Inv, NEW c \in Command, NEW r \in Call, Deliver(r)
  PROVE  CommandInv(c)'
<1>0. /\ JournalTyped /\ CallerTyped /\ CallTyped /\ Known /\ TypeOK /\ CommandInv(c) /\ ToldTyped
      /\ cmd[r] \in Command
  BY TypeParts DEF Inv, CallerTyped
<1>1. /\ UNCHANGED <<made, payload, replays, cmd, entry, receipt, rows, released>>
      /\ at[r] = "replied" /\ at'[r] = "none"
      /\ \A q \in Call \ {r} : at'[q] = at[q] /\ answer'[q] = answer[q] /\ seq'[q] = seq[q]
      /\ \/ /\ answer[r] = "ok" /\ pending' = [pending EXCEPT ![cmd[r]] = "none"]
            /\ heard' = [heard EXCEPT ![cmd[r]] = @ \cup {seq[r]}] /\ UNCHANGED refused
         \/ /\ answer[r] = "gone" /\ pending' = [pending EXCEPT ![cmd[r]] = "none"]
            /\ refused' = refused \cup {cmd[r]} /\ UNCHANGED heard
         \/ UNCHANGED <<pending, heard, refused>>
  BY <1>0, StepMoves DEF Deliver, Definitive, table, told, Place, Verdict
<1>2. Applied(c)' = Applied(c) /\ (Lost(c) => Lost(c)')
  BY <1>0, <1>1, Quiet
<1>3. \A q \in Call : Harmless(q, c)
  BY <1>0, <1>1, Resting DEF Harmless
<1>4. CASE pending'[c] = pending[c] /\ heard'[c] = heard[c] /\ (c \in refused' <=> c \in refused)
  <2>1. Unheard(c)' => Unheard(c) /\ c \notin replays'
    BY <1>0, <1>1, <1>4 DEF Unheard, CommandInv, Unsent
  <2>2. QED
    BY <1>0, <1>1, <1>2, <1>3, <1>4, <2>1, Frame
<1>5. CASE cmd[r] = c /\ answer[r] = "ok" /\ heard'[c] = heard[c] \cup {seq[r]} /\ UNCHANGED refused
  <2>1. /\ Applied(c) # {}
        /\ c \notin released => entry[c] = "complete" /\ seq[r] = receipt[c]
    BY <1>0, <1>1, <1>5 DEF CommandInv, Truth, Agreed
  <2>2. Once(c)' /\ Truth(c)'
    BY <1>0, <1>1, <1>2, <1>5, <2>1 DEF CommandInv, Once, Truth, Dispatched, Before
  <2>3. Agreed(c)'
    BY <1>0, <1>1, <1>2, <1>5, <2>1 DEF CommandInv, Agreed
  <2>4. Unsent(c)' /\ Refused(c)'
    BY <1>0, <1>1, <1>2, <1>5 DEF CommandInv, Unsent, Unheard, Refused, SaysGone
  <2>5. QED
    BY <2>2, <2>3, <2>4 DEF CommandInv
<1>6. CASE cmd[r] = c /\ answer[r] = "gone" /\ c \in refused' /\ UNCHANGED heard
  <2>1. Lost(c)
    BY <1>0, <1>1, <1>6 DEF CommandInv, Refused, SaysGone
  <2>2. Once(c)' /\ Truth(c)'
    BY <1>0, <1>1, <1>2, <1>6 DEF CommandInv, Once, Truth, Dispatched, Before
  <2>3. Agreed(c)' /\ Unsent(c)'
    BY <1>0, <1>1, <1>2, <1>6 DEF CommandInv, Agreed, Unsent, Unheard
  <2>4. Refused(c)'
    BY <1>0, <1>1, <1>2, <1>6, <2>1 DEF CommandInv, Refused, SaysGone
  <2>5. QED
    BY <2>2, <2>3, <2>4 DEF CommandInv
<1>7. QED
  BY <1>0, <1>1, <1>4, <1>5, <1>6 DEF JournalTyped, ToldTyped

LEMMA CommandStep == ASSUME Inv, [Next]_vars, NEW c \in Command PROVE CommandInv(c)'
<1>0. CommandInv(c) /\ TypeOK /\ Known /\ CallTyped /\ CallerTyped /\ TableTyped
  BY TypeParts DEF Inv
<1>1. ASSUME NEW r \in Call, Begin(r) PROVE CommandInv(c)'
  <2>1. CASE IsNew(cmd[r])
    BY <1>1, <2>1, BeginsNew
  <2>2. CASE ~IsNew(cmd[r])
    BY <1>1, <2>2, DaemonSteps DEF Begin
  <2>3. QED
    BY <2>1, <2>2
<1>2. ASSUME NEW r \in Call, Abandon(r) PROVE CommandInv(c)'
  <2>1. CASE entry[cmd[r]] = "open"
    BY <1>2, <2>1, Releases
  <2>2. CASE entry[cmd[r]] # "open"
    BY <1>2, <2>2, DaemonSteps DEF Abandon
  <2>3. QED
    BY <2>1, <2>2
<1>3. ASSUME NEW r \in Call, Complete(r) PROVE CommandInv(c)'
  <2>1. CASE entry[cmd[r]] = "open"
    BY <1>3, <2>1, WritesResult
  <2>2. CASE entry[cmd[r]] # "open"
    BY <1>3, <2>2, DaemonSteps DEF Complete
  <2>3. QED
    BY <2>1, <2>2
<1>4. ASSUME NEW r \in Call, Enqueue(r) \/ Hand(r) \/ (Reject(r) \/ Return(r)) \/ Recover(r) PROVE CommandInv(c)'
  <2>1. UNCHANGED <<client, entry, receipt, rows, told, released>>
    BY <1>4 DEF Enqueue, Hand, Reject, Return, Recover, table
  <2>2. QED
    BY <1>4, <2>1, DaemonSteps
<1>5. CASE UNCHANGED vars
  <2>1. UNCHANGED <<pending, made, payload, replays, cmd, at, answer, seq, entry, receipt, rows, heard, refused, released>>
    BY <1>5 DEF vars, client, daemon, table, told
  <2>2. \A q \in Call : Harmless(q, c)
    BY <1>0, <2>1, Resting
  <2>3. Unheard(c)' => Unheard(c) /\ c \notin replays'
    BY <1>0, <2>1 DEF Unheard, CommandInv, Unsent
  <2>4. QED
    BY <1>0, <2>1, <2>2, <2>3, Quiet, Frame
<1>6. QED
  BY <1>1, <1>2, <1>3, <1>4, <1>5, ClientSteps, Collects, Works, Moves, Crashes, Delivers DEF Next

-----------------------------------------------------------------------------
(* Every step keeps the rest of the invariant.                             *)

LEMMA KnownStep == ASSUME Inv, [Next]_vars PROVE Known'
<1>0. /\ JournalTyped /\ CallerTyped /\ CallTyped /\ Known /\ TypeOK
  BY TypeParts DEF Inv
<1>1. ASSUME NEW r \in Call, NEW d \in Command, Submit(r, d) PROVE Known'
  <2>1. /\ UNCHANGED <<pending, replays, at, rows, refused>>
        /\ made' = made \cup {d} /\ cmd' = [cmd EXCEPT ![r] = d] /\ \A q \in Call \ {r} : pc'[q] = pc[q]
        /\ UNCHANGED payload \/ \E items \in {{}} \cup {{i} : i \in Inbox} : payload' = [payload EXCEPT ![d] = items]
    BY <1>0, <1>1 DEF Submit, Caller, daemon, told, CallerTyped
  <2>2. Inbox' = Inbox
    BY <2>1, RowsStay
  <2>3. \A c \in Command : payload'[c] \subseteq 1 .. Len(rows)
    BY <1>0, <2>1 DEF Known, JournalTyped
  <2>4. QED
    BY <1>0, <2>1, <2>2, <2>3 DEF Known, CallerTyped
<1>2. ASSUME NEW r \in Call, NEW d \in Command, Replay(r, d) \/ Check(r, d) \/ (Post(r) /\ d = cmd[r])
      PROVE  Known'
  <2>1. /\ UNCHANGED <<made, payload, rows, refused>> /\ replays' \subseteq replays /\ d \in made
        /\ \A c \in Command : pending'[c] # "none" => pending[c] # "none" \/ c = d
    BY <1>0, <1>2 DEF Replay, Check, Post, Marked, told, Known, JournalTyped
  <2>2. \E m \in {"submit", "replay", "check"} : Transmit(r, d, m)
    BY <1>2 DEF Replay, Check, Post
  <2>3. cmd'[r] = d /\ \A q \in Call \ {r} : at'[q] = at[q] /\ pc'[q] = pc[q] /\ cmd'[q] = cmd[q]
    BY <1>0, <2>2, TransmitMoves
  <2>4. QED
    BY <1>0, <2>1, <2>3, RowsStay DEF Known
<1>3. ASSUME NEW r \in Call, Post(r) PROVE Known'
  BY <1>0, <1>2, <1>3 DEF CallerTyped
<1>4. ASSUME /\ UNCHANGED <<made, payload, cmd, rows>>
             /\ replays' \subseteq made /\ refused' \subseteq made
             /\ \A c \in Command : pending'[c] # "none" => c \in made
             /\ \A q \in Call : at'[q] # "none" => at[q] # "none"
             /\ \A q \in Call : pc'[q] # "idle" => pc[q] # "idle" \/ at[q] # "none"
      PROVE  Known'
  BY <1>0, <1>4, RowsStay DEF Known
<1>5. CASE Reconnect \/ Drop \/ ClientRestart
  <2>1. \A q \in Call : at'[q] # "none" => at[q] # "none"
    BY <1>0, <1>5, LossMoves DEF Reconnect, Drop, ClientRestart, daemon
  <2>2. \A q \in Call : pc'[q] # "idle" => pc[q] # "idle"
    BY <1>0, <1>5, FailMoves DEF Reconnect, Drop, ClientRestart
  <2>3. /\ UNCHANGED <<pending, made, payload, cmd, rows, refused>> /\ replays' \subseteq made
    BY <1>0, <1>5 DEF Reconnect, Drop, ClientRestart, told, Known
  <2>4. QED
    BY <1>0, <1>4, <2>1, <2>2, <2>3 DEF Known
<1>6. ASSUME NEW r \in Call, TimeOut(r) \/ GiveUp(r) \/ Acknowledge(r) \/ Deliver(r) PROVE Known'
  <2>1. cmd[r] \in made
    BY <1>0, <1>6 DEF TimeOut, GiveUp, Acknowledge, Deliver, Known
  <2>2. UNCHANGED <<made, payload, cmd, rows, replays>> /\ refused' \subseteq refused \cup {cmd[r]}
    BY <1>6 DEF TimeOut, GiveUp, Acknowledge, Deliver, told
  <2>3. \A c \in Command : pending'[c] # "none" => pending[c] # "none" \/ c = cmd[r]
    BY <1>0, <1>6 DEF TimeOut, GiveUp, Acknowledge, Deliver, Marked, JournalTyped
  <2>4. \A q \in Call : at'[q] # "none" => at[q] # "none"
    <3>1. CASE Deliver(r)
      <4>1. Step(r, "none", "none", 0) /\ "none" \in Place /\ "none" \in Verdict /\ 0 \in Nat
        BY <3>1 DEF Deliver, Place, Verdict
      <4>2. at'[r] = "none" /\ \A q \in Call \ {r} : at'[q] = at[q]
        BY <1>0, <4>1, StepMoves
      <4>3. QED
        BY <4>2
    <3>2. CASE TimeOut(r) \/ GiveUp(r) \/ Acknowledge(r)
      BY <3>2 DEF TimeOut, GiveUp, Acknowledge, daemon
    <3>3. QED
      BY <1>6, <3>1, <3>2
  <2>5. \A q \in Call : pc'[q] # "idle" => pc[q] # "idle" \/ at[q] # "none"
    BY <1>0, <1>6 DEF TimeOut, GiveUp, Acknowledge, Deliver, Caller, CallerTyped
  <2>6. QED
    BY <1>0, <1>4, <2>1, <2>2, <2>3, <2>4, <2>5 DEF Known
<1>7. ASSUME NEW r \in Call,
             \/ Begin(r) \/ Enqueue(r) \/ Hand(r)
             \/ Reject(r) \/ Return(r) \/ Abandon(r) \/ Recover(r) \/ Complete(r)
      PROVE  Known'
  <2>1. UNCHANGED <<client, rows, told>> /\ at[r] # "none" /\ \A q \in Call \ {r} : at'[q] = at[q]
    BY <1>0, <1>7
    DEF Begin, Enqueue, Hand, Reject, Return, Abandon, Recover, Complete, Reply, Step, CallTyped, told
  <2>2. QED
    BY <1>0, <1>4, <2>1 DEF client, told, Known
<1>8. ASSUME NEW c \in Command, Collect(c) PROVE Known'
  BY <1>0, <1>4, <1>8 DEF Collect, client, daemon, told, Known
<1>9. CASE WorkerCrash \/ DaemonCrash
  <2>1. \A q \in Call : at'[q] # "none" => at[q] # "none"
    BY <1>0, <1>9 DEF WorkerCrash, DaemonCrash, CallTyped, InWorker
  <2>2. \A q \in Call : pc'[q] # "idle" => pc[q] # "idle"
    BY <1>0, <1>9, FailMoves DEF WorkerCrash, DaemonCrash, client
  <2>3. UNCHANGED <<pending, made, payload, cmd, rows, refused, replays>>
    BY <1>9 DEF WorkerCrash, DaemonCrash, client, told
  <2>4. QED
    BY <1>0, <1>4, <2>1, <2>2, <2>3 DEF Known
<1>10. ASSUME /\ UNCHANGED <<made, payload, cmd, replays, refused, pending, pc>>
              /\ Len(rows') = NewSeq /\ Inbox' \subseteq Inbox \cup {NewSeq}
              /\ \A q \in Call : at'[q] # "none" => at[q] # "none"
       PROVE  Known'
  <2>1. 1 .. Len(rows') = (1 .. Len(rows)) \cup {NewSeq}
    BY <1>0, <1>10, InboxTyped DEF NewSeq
  <2>2. QED
    BY <1>0, <1>10, <2>1 DEF Known
<1>11. ASSUME NEW r \in Call, Work(r) PROVE Known'
  <2>1. PICK kind \in {"queued", "withdrawn", "refused"} :
          \E inbox \in SUBSET Nat : RowOf(cmd[r]) = Row(kind, {cmd[r]}, inbox) /\ inbox \subseteq Inbox \cup {NewSeq}
    BY <1>0, WorkersRow DEF CallerTyped
  <2>2. kind \in RowKind /\ {cmd[r]} \in SUBSET Command
    BY <1>0 DEF RowKind, CallerTyped
  <2>3. Len(rows') = NewSeq /\ Inbox' \subseteq Inbox \cup {NewSeq}
    BY <1>0, <1>11, <2>1, <2>2, RowsGrow DEF Work
  <2>4. \A q \in Call : at'[q] # "none" => at[q] # "none"
    BY <1>0, <1>11 DEF Work, Step, CallTyped
  <2>5. UNCHANGED <<made, payload, cmd, replays, refused, pending, pc>>
    BY <1>11 DEF Work, client, told
  <2>6. QED
    BY <1>10, <2>3, <2>4, <2>5
<1>12. CASE InboxMoves
  <2>1. PICK kind \in {"claimed", "queued"} :
          \E inbox \in SUBSET Nat : rows' = Append(rows, Row(kind, {}, inbox)) /\ inbox \subseteq Inbox \cup {NewSeq}
    BY <1>0, <1>12, InboxTyped DEF InboxMoves
  <2>2. kind \in RowKind /\ {} \in SUBSET Command
    BY DEF RowKind
  <2>3. Len(rows') = NewSeq /\ Inbox' \subseteq Inbox \cup {NewSeq}
    BY <1>0, <2>1, <2>2, RowsGrow
  <2>4. UNCHANGED <<made, payload, cmd, replays, refused, pending, pc, at>>
    BY <1>12 DEF InboxMoves, client, daemon, told
  <2>5. QED
    BY <1>10, <2>3, <2>4
<1>13. CASE UNCHANGED vars
  BY <1>0, <1>4, <1>13 DEF vars, client, daemon, told, Known
<1>14. QED
  BY <1>1, <1>2, <1>3, <1>5, <1>6, <1>7, <1>8, <1>9, <1>11, <1>12, <1>13 DEF Next

LEMMA OutcomesStep == ASSUME TypeOK, Outcomes, [Next]_vars PROVE Outcomes'
<1>0. /\ CallTyped /\ CallerTyped /\ TableTyped /\ RowsTyped
  BY TypeParts
<1>1. ASSUME \A q \in Call : \/ at'[q] = at[q] /\ answer'[q] = answer[q] /\ seq'[q] = seq[q]
                             \/ at'[q] \notin {"applied", "done", "failed"}
                             \/ at'[q] \in {"applied", "done"} /\ seq'[q] # 0
                             \/ at'[q] = "failed" /\ answer'[q] # "ok"
      PROVE  Outcomes'
  BY <1>1 DEF Outcomes
<1>2. ASSUME UNCHANGED <<at, answer, seq>> PROVE Outcomes'
  BY <1>1, <1>2
<1>3. ASSUME NEW r \in Call, NEW c \in Command, NEW m \in {"submit", "replay", "check"}, Transmit(r, c, m)
      PROVE  Outcomes'
  BY <1>0, <1>1, <1>3, TransmitMoves
<1>4. ASSUME NEW r \in Call, NEW a \in Verdict, NEW n \in Nat, Reply(r, a, n) PROVE Outcomes'
  BY <1>0, <1>1, <1>4, ReplyMoves
<1>5. ASSUME NEW r \in Call, NEW s \in Place, NEW a \in Verdict, NEW n \in Nat, Step(r, s, a, n),
             s \in {"applied", "done"} => n # 0, s = "failed" => a # "ok"
      PROVE  Outcomes'
  BY <1>0, <1>1, <1>5, StepMoves
<1>6. ASSUME NEW r \in Call, NEW c \in Command, Submit(r, c) \/ Replay(r, c) \/ Check(r, c) \/ Post(r)
      PROVE  Outcomes'
  <2>1. CASE Submit(r, c)
    BY <1>2, <2>1 DEF Submit, daemon
  <2>2. CASE Replay(r, c) \/ Check(r, c)
    BY <1>3, <2>2 DEF Replay, Check
  <2>3. CASE Post(r)
    BY <1>0, <1>3, <2>3 DEF Post, CallerTyped
  <2>4. QED
    BY <1>6, <2>1, <2>2, <2>3
<1>7. ASSUME NEW r \in Call, Post(r) PROVE Outcomes'
  BY <1>0, <1>6, <1>7 DEF CallerTyped
<1>8. CASE Drop \/ ClientRestart
  BY <1>0, <1>1, <1>8, LossMoves DEF Drop, ClientRestart
<1>9. CASE Reconnect \/ InboxMoves
  BY <1>2, <1>9 DEF Reconnect, InboxMoves, daemon
<1>10. ASSUME NEW r \in Call, TimeOut(r) \/ GiveUp(r) \/ Acknowledge(r) PROVE Outcomes'
  BY <1>2, <1>10 DEF TimeOut, GiveUp, Acknowledge, daemon
<1>11. ASSUME NEW r \in Call, Deliver(r) PROVE Outcomes'
  BY <1>5, <1>11 DEF Deliver, Place, Verdict
<1>12. ASSUME NEW c \in Command, Collect(c) PROVE Outcomes'
  BY <1>2, <1>12 DEF Collect, daemon
<1>13. ASSUME NEW r \in Call, Begin(r) PROVE Outcomes'
  <2>1. receipt[cmd[r]] \in Nat
    BY <1>0 DEF TableTyped, CallerTyped
  <2>2. \/ Reply(r, "ok", receipt[cmd[r]]) \/ \E s \in {"begun", "doubted", "recovering"} : Step(r, s, "none", 0)
    BY <1>13 DEF Begin
  <2>3. QED
    BY <1>4, <1>5, <2>1, <2>2 DEF Place, Verdict
<1>14. ASSUME NEW r \in Call, Enqueue(r) \/ Hand(r) \/ Reject(r) PROVE Outcomes'
  <2>1. \/ Reply(r, "error", 0) \/ Step(r, "failed", "error", 0)
        \/ \E s \in {"queued", "recovering", "working", "none"} : Step(r, s, "none", 0)
    BY <1>14 DEF Enqueue, Hand, Reject
  <2>2. QED
    BY <1>4, <1>5, <2>1 DEF Place, Verdict
<1>15. ASSUME NEW r \in Call, Work(r) PROVE Outcomes'
  <2>1. NewSeq \in Nat \ {0}
    BY InboxTyped
  <2>2. Step(r, "applied", "none", NewSeq) \/ \E s \in {"gone", "none"} : Step(r, s, "none", 0)
    BY <1>15 DEF Work
  <2>3. QED
    BY <1>5, <2>1, <2>2 DEF Place, Verdict
<1>16. ASSUME NEW r \in Call, Return(r) PROVE Outcomes'
  <2>1. \/ at[r] = "applied" /\ Step(r, "done", "none", seq[r])
        \/ \E a \in {"error", "gone"} : Step(r, "failed", a, 0)
    BY <1>16 DEF Return
  <2>2. seq[r] \in Nat /\ (at[r] = "applied" => seq[r] # 0)
    BY <1>0 DEF CallTyped, Outcomes
  <2>3. QED
    BY <1>5, <2>1, <2>2 DEF Place, Verdict
<1>17. ASSUME NEW r \in Call, Abandon(r) \/ Complete(r) PROVE Outcomes'
  <2>1. answer[r] \in Verdict /\ seq[r] \in Nat
    BY <1>0 DEF CallTyped
  <2>2. Reply(r, answer[r], 0) \/ Reply(r, "ok", seq[r]) \/ Reply(r, "error", 0)
    BY <1>17 DEF Abandon, Complete
  <2>3. QED
    BY <1>4, <2>1, <2>2 DEF Verdict
<1>18. ASSUME NEW r \in Call, Recover(r) PROVE Outcomes'
  <2>1. \/ \E n \in Traces(cmd[r]) : Step(r, "done", "none", n)
        \/ Reply(r, "uncertain", 0) \/ Reply(r, "error", 0)
    BY <1>18 DEF Recover
  <2>2. ASSUME NEW n \in Traces(cmd[r]) PROVE n \in Nat \ {0}
    <3>1. n \in DOMAIN rows
      BY <2>2 DEF Traces, Applied
    <3>2. QED
      BY <1>0, <3>1 DEF RowsTyped
  <2>3. QED
    BY <1>4, <1>5, <2>1, <2>2 DEF Place, Verdict
<1>19. CASE WorkerCrash \/ DaemonCrash
  <2>1. CASE WorkerCrash
    BY <1>0, <1>1, <2>1 DEF WorkerCrash, CallTyped, InWorker
  <2>2. CASE DaemonCrash
    BY <1>0, <1>1, <2>2 DEF DaemonCrash, CallTyped
  <2>3. QED
    BY <1>19, <2>1, <2>2
<1>20. CASE UNCHANGED vars
  BY <1>2, <1>20 DEF vars, daemon
<1>21. QED
  BY <1>6, <1>7, <1>8, <1>9, <1>10, <1>11, <1>12, <1>13, <1>14, <1>15, <1>16, <1>17, <1>18, <1>19, <1>20
  DEF Next

\* A queue with one more at its end begins as before.
LEMMA AppendKeepsFirst ==
  ASSUME NEW S, NEW s \in Seq(S), NEW e \in S, s # <<>>
  PROVE  Append(s, e) # <<>> /\ Append(s, e)[1] = s[1]
OBVIOUS

LEMMA InLineStep == ASSUME TypeOK, InLine, [Next]_vars PROVE InLine'
<1>0. CallTyped /\ CallerTyped /\ TableTyped /\ line \in Seq(Call)
  BY TypeParts
<1>1. ASSUME UNCHANGED line, \A q \in Call : at'[q] \in InWorker => at[q] \in InWorker \/ Active(q)
      PROVE  InLine'
  BY <1>1 DEF InLine, Active
<1>2. ASSUME NEW r \in Call, line' = Append(line, r), \A q \in Call : at'[q] \in InWorker => at[q] \in InWorker
      PROVE  InLine'
  <2>1. ASSUME NEW q \in Call, at'[q] \in InWorker PROVE Active(q)'
    <3>1. line # <<>> /\ line[1] = q
      BY <1>2, <2>1 DEF InLine, Active
    <3>2. QED
      BY <1>0, <1>2, <3>1, AppendKeepsFirst DEF Active
  <2>2. QED
    BY <2>1 DEF InLine
<1>3. ASSUME NEW r \in Call, Active(r), at'[r] \notin InWorker, \A q \in Call \ {r} : at'[q] = at[q]
      PROVE  InLine'
  BY <1>3 DEF InLine, Active
<1>4. ASSUME UNCHANGED line, NEW r \in Call, \A q \in Call \ {r} : at'[q] = at[q],
             at'[r] \in InWorker => at[r] \in InWorker \/ Active(r)
      PROVE  InLine'
  BY <1>1, <1>4
<1>5. ASSUME NEW r \in Call, NEW c \in Command, Submit(r, c) \/ Replay(r, c) \/ Check(r, c) \/ Post(r)
      PROVE  InLine'
  <2>1. UNCHANGED line
    BY <1>5 DEF Submit, Replay, Check, Post, daemon
  <2>2. CASE Submit(r, c)
    BY <1>1, <2>1, <2>2 DEF Submit, daemon
  <2>3. CASE Replay(r, c) \/ Check(r, c)
    BY <1>0, <1>4, <2>1, <2>3, TransmitMoves DEF Replay, Check, InWorker
  <2>4. CASE Post(r)
    BY <1>0, <1>4, <2>1, <2>4, TransmitMoves DEF Post, CallerTyped, InWorker
  <2>5. QED
    BY <1>5, <2>2, <2>3, <2>4
<1>6. ASSUME NEW r \in Call, Post(r) PROVE InLine'
  BY <1>0, <1>5, <1>6 DEF CallerTyped
<1>7. CASE Drop \/ ClientRestart
  BY <1>0, <1>1, <1>7, LossMoves DEF Drop, ClientRestart, InWorker
<1>8. CASE Reconnect \/ InboxMoves \/ UNCHANGED vars
  BY <1>1, <1>8 DEF Reconnect, InboxMoves, daemon, vars
<1>9. ASSUME NEW r \in Call, TimeOut(r) \/ GiveUp(r) \/ Acknowledge(r) PROVE InLine'
  BY <1>1, <1>9 DEF TimeOut, GiveUp, Acknowledge, daemon
<1>10. ASSUME NEW c \in Command, Collect(c) PROVE InLine'
  BY <1>1, <1>10 DEF Collect, daemon
<1>11. ASSUME NEW r \in Call, NEW a \in Verdict, NEW n \in Nat, Reply(r, a, n)
       PROVE  at'[r] \notin InWorker /\ \A q \in Call \ {r} : at'[q] = at[q]
  BY <1>0, <1>11, ReplyMoves DEF InWorker
<1>12. ASSUME NEW r \in Call, NEW s \in Place, NEW a, NEW n, Step(r, s, a, n)
       PROVE  at'[r] = s /\ \A q \in Call \ {r} : at'[q] = at[q]
  BY <1>0, <1>12 DEF Step, CallTyped
<1>13. ASSUME NEW r \in Call, Deliver(r) \/ Begin(r) \/ Abandon(r) \/ Complete(r) PROVE InLine'
  <2>1. receipt[cmd[r]] \in Nat /\ answer[r] \in Verdict /\ seq[r] \in Nat
    BY <1>0 DEF CallTyped, TableTyped, CallerTyped
  <2>2. UNCHANGED line
    BY <1>13 DEF Deliver, Begin, Abandon, Complete
  <2>3. at'[r] \notin InWorker /\ \A q \in Call \ {r} : at'[q] = at[q]
    <3>1. CASE Deliver(r)
      BY <1>12, <3>1 DEF Deliver, Place, InWorker
    <3>2. CASE Begin(r)
      <4>1. \/ Reply(r, "ok", receipt[cmd[r]]) \/ \E s \in {"begun", "doubted", "recovering"} : Step(r, s, "none", 0)
        BY <3>2 DEF Begin
      <4>2. QED
        BY <1>11, <1>12, <2>1, <4>1 DEF Place, Verdict, InWorker
    <3>3. CASE Abandon(r) \/ Complete(r)
      <4>1. Reply(r, answer[r], 0) \/ Reply(r, "ok", seq[r]) \/ Reply(r, "error", 0)
        BY <3>3 DEF Abandon, Complete
      <4>2. QED
        BY <1>11, <2>1, <4>1 DEF Verdict
    <3>4. QED
      BY <1>13, <3>1, <3>2, <3>3
  <2>4. QED
    BY <1>4, <2>2, <2>3
<1>14. ASSUME NEW r \in Call, Enqueue(r) PROVE InLine'
  <2>1. at'[r] \notin InWorker /\ \A q \in Call \ {r} : at'[q] = at[q]
    <3>1. \/ Reply(r, "error", 0) \/ Step(r, "failed", "error", 0)
          \/ \E s \in {"queued", "recovering"} : Step(r, s, "none", 0)
      BY <1>14 DEF Enqueue
    <3>2. QED
      BY <1>11, <1>12, <3>1 DEF Place, Verdict, InWorker
  <2>2. UNCHANGED line \/ line' = Append(line, r)
    BY <1>14 DEF Enqueue
  <2>3. \A q \in Call : at'[q] \in InWorker => at[q] \in InWorker
    BY <2>1
  <2>4. QED
    BY <1>1, <1>2, <2>2, <2>3
<1>15. ASSUME NEW r \in Call, Hand(r) PROVE InLine'
  <2>1. CASE Step(r, "working", "none", 0) /\ UNCHANGED line
    BY <1>4, <1>12, <1>15, <2>1 DEF Hand, Place
  <2>2. CASE Step(r, "failed", "error", 0)
    BY <1>3, <1>12, <1>15, <2>2 DEF Hand, Place, InWorker
  <2>3. QED
    BY <1>15, <2>1, <2>2 DEF Hand
<1>16. ASSUME NEW r \in Call, Work(r) PROVE InLine'
  <2>1. /\ UNCHANGED line
        /\ \/ at[r] \in InWorker /\ \E s \in {"applied", "gone"} : \E n : Step(r, s, "none", n)
           \/ Step(r, "none", "none", 0)
    BY <1>16 DEF Work, InWorker
  <2>2. (at'[r] \in InWorker => at[r] \in InWorker) /\ \A q \in Call \ {r} : at'[q] = at[q]
    BY <1>12, <2>1 DEF Place, InWorker
  <2>3. QED
    BY <1>4, <2>1, <2>2
<1>17. ASSUME NEW r \in Call, Reject(r) PROVE InLine'
  <2>1. CASE at[r] = "working" /\ Step(r, "failed", "error", 0)
    <3>1. Active(r)
      BY <2>1 DEF InLine, InWorker
    <3>2. QED
      BY <1>3, <1>12, <2>1, <3>1 DEF Place, InWorker
  <2>2. CASE Step(r, "none", "none", 0) /\ UNCHANGED line
    BY <1>4, <1>12, <2>2 DEF Place, InWorker
  <2>3. QED
    BY <1>17, <2>1, <2>2 DEF Reject
<1>18. ASSUME NEW r \in Call, Return(r) PROVE InLine'
  <2>1. at[r] \in InWorker /\ \E s \in {"done", "failed"} : \E a, n : Step(r, s, a, n)
    BY <1>18 DEF Return, InWorker
  <2>2. Active(r)
    BY <2>1 DEF InLine
  <2>3. QED
    BY <1>3, <1>12, <2>1, <2>2 DEF Place, InWorker
<1>19. ASSUME NEW r \in Call, Recover(r) PROVE InLine'
  <2>1. at'[r] \notin InWorker /\ \A q \in Call \ {r} : at'[q] = at[q]
    <3>1. (\E n : Step(r, "done", "none", n)) \/ Reply(r, "uncertain", 0) \/ Reply(r, "error", 0)
      BY <1>19 DEF Recover
    <3>2. CASE \E n : Step(r, "done", "none", n)
      <4>1. "done" \in Place \ InWorker
        BY DEF Place, InWorker
      <4>2. QED
        BY <1>12, <3>2, <4>1
    <3>3. CASE Reply(r, "uncertain", 0) \/ Reply(r, "error", 0)
      <4>1. {"uncertain", "error"} \subseteq Verdict
        BY DEF Verdict
      <4>2. QED
        BY <1>11, <3>3, <4>1
    <3>4. QED
      BY <3>1, <3>2, <3>3
  <2>2. CASE Withdraws(cmd[r])
    BY <1>3, <1>19, <2>1, <2>2 DEF Recover
  <2>3. CASE ~Withdraws(cmd[r])
    BY <1>4, <1>19, <2>1, <2>3 DEF Recover
  <2>4. QED
    BY <2>2, <2>3
<1>20. CASE WorkerCrash \/ DaemonCrash
  <2>1. \A q \in Call : at'[q] \notin InWorker
    <3>1. CASE WorkerCrash
      BY <1>0, <3>1 DEF WorkerCrash, InWorker, CallTyped
    <3>2. CASE DaemonCrash
      BY <1>0, <3>2 DEF DaemonCrash, InWorker, CallTyped
    <3>3. QED
      BY <1>20, <3>1, <3>2
  <2>2. QED
    BY <2>1 DEF InLine
<1>21. QED
  BY <1>5, <1>6, <1>7, <1>8, <1>9, <1>10, <1>13, <1>14, <1>15, <1>16, <1>17, <1>18, <1>19, <1>20 DEF Next

-----------------------------------------------------------------------------
(* The theorems.                                                           *)

LEMMA InitInv == Init => Inv
<1> SUFFICES ASSUME Init PROVE Inv
  OBVIOUS
<1>1. rows = <<>> /\ Inbox = {} /\ \A c \in Command : Applied(c) = {}
  BY DEF Init, Inbox, Applied
<1>2. InLine /\ Outcomes
  BY DEF Init, InLine, Outcomes, InWorker
<1>3. Known
  BY <1>1 DEF Init, Known
<1>4. ASSUME NEW c \in Command PROVE CommandInv(c)
  BY <1>1 DEF Init, CommandInv, Once, Truth, Agreed, Unsent, Refused, Dispatched, Before, SaysGone
<1>5. QED
  BY <1>2, <1>3, <1>4, TypeInit DEF Inv

LEMMA InvStep == Inv /\ [Next]_vars => Inv'
<1> SUFFICES ASSUME Inv, [Next]_vars PROVE Inv'
  OBVIOUS
<1>1. TypeOK /\ InLine /\ Outcomes
  BY DEF Inv
<1>2. TypeOK' /\ InLine' /\ Outcomes'
  BY <1>1, TypeStep, InLineStep, OutcomesStep
<1>3. Known' /\ \A c \in Command : CommandInv(c)'
  BY KnownStep, CommandStep
<1>4. QED
  BY <1>2, <1>3 DEF Inv

LEMMA Invariance == Spec => []Inv
BY InitInv, InvStep, PTL DEF Spec

\* Every variable keeps its type, and a journal row has a result exactly when it is
\* complete (command-journal.ts, complete).
THEOREM TypeCorrect == Spec => []TypeOK
<1>1. Inv => TypeOK
  BY DEF Inv
<1>2. QED
  BY <1>1, Invariance, PTL

\* A command takes effect once, however often submit.ts sends it and whatever crashes,
\* unless its row in command_journal was deleted after it had been carried out.
THEOREM CommandsApplyOnce == Spec => []AppliedOnce
<1>1. Inv => AppliedOnce
  BY DEF Inv, CommandInv, Once, AppliedOnce
<1>2. QED
  BY <1>1, Invariance, PTL

\* Whoever is told by _agnes/v1/submit that a command was carried out is told the truth,
\* and the same row as everybody else.
THEOREM AnswersStayAgreed == Spec => []AnswersAgree
<1>1. Inv => AnswersAgree
  BY DEF Inv, CommandInv, Truth, Agreed, AnswersAgree
<1>2. QED
  BY <1>1, Invariance, PTL

\* Who acknowledges a result was told it, so a row that is acknowledged has been heard of.
Receivers == \A r \in Call : pc[r] = "acking" => heard[cmd[r]] # {}
AckedAreHeard == \A c \in acked : heard[c] # {}

LEMMA ReceiversStep ==
  ASSUME TypeOK, Receivers, AckedAreHeard, [Next]_vars PROVE Receivers' /\ AckedAreHeard'
<1>0. CallerTyped /\ ToldTyped /\ acked \subseteq Command
  BY TypeParts DEF TypeOK
<1>1. ASSUME NEW r \in Call, Deliver(r) PROVE Receivers' /\ AckedAreHeard'
  <2>1. /\ cmd[r] \in Command /\ UNCHANGED <<cmd, acked>>
        /\ \A c \in Command : heard[c] \subseteq heard'[c]
    <3>1. cmd[r] \in Command /\ UNCHANGED <<cmd, acked>>
      BY <1>0, <1>1 DEF Deliver, CallerTyped, table
    <3>2. heard' = heard \/ heard' = [heard EXCEPT ![cmd[r]] = @ \cup {seq[r]}]
      BY <1>1 DEF Deliver, told
    <3>3. QED
      BY <1>0, <3>1, <3>2 DEF ToldTyped
  <2>2. \A q \in Call \ {r} : pc'[q] = pc[q]
    BY <1>0, <1>1 DEF Deliver, Caller, CallerTyped
  <2>3. pc'[r] = "acking" => heard'[cmd[r]] # {}
    <3>1. CASE answer[r] = "ok" /\ heard' = [heard EXCEPT ![cmd[r]] = @ \cup {seq[r]}]
      BY <1>0, <2>1, <3>1 DEF ToldTyped
    <3>2. CASE \E p \in {"idle", "uncertain", "failed"}, m \in {"none", mode[r]} : Caller(r, p, m)
      BY <1>0, <3>2 DEF Caller, CallerTyped
    <3>3. QED
      BY <1>1, <3>1, <3>2 DEF Deliver
  <2>4. QED
    BY <1>0, <2>1, <2>2, <2>3 DEF Receivers, AckedAreHeard, CallerTyped
<1>2. ASSUME NEW r \in Call, Acknowledge(r) PROVE Receivers' /\ AckedAreHeard'
  <2>1. /\ pc[r] = "acking" /\ UNCHANGED <<cmd, heard>>
        /\ acked' \subseteq acked \cup {cmd[r]}
    BY <1>2 DEF Acknowledge, told
  <2>2. \A q \in Call : pc'[q] = "acking" => pc[q] = "acking"
    BY <1>0, <1>2 DEF Acknowledge, Caller, CallerTyped
  <2>3. QED
    BY <2>1, <2>2 DEF Receivers, AckedAreHeard
<1>3. ASSUME heard' = heard, acked' \subseteq acked,
             \A q \in Call : pc'[q] = "acking" => pc[q] = "acking" /\ cmd'[q] = cmd[q]
      PROVE  Receivers' /\ AckedAreHeard'
  BY <1>3 DEF Receivers, AckedAreHeard
<1>4. ASSUME NEW r \in Call, NEW c \in Command,
             \/ Submit(r, c) \/ Replay(r, c) \/ Check(r, c) \/ Post(r) \/ TimeOut(r) \/ GiveUp(r)
      PROVE  Receivers' /\ AckedAreHeard'
  <2>1. heard' = heard /\ acked' = acked
    BY <1>4 DEF Submit, Replay, Check, Post, TimeOut, GiveUp, table, told
  <2>2. \A q \in Call \ {r} : pc'[q] = pc[q] /\ cmd'[q] = cmd[q]
    BY <1>0, <1>4 DEF Submit, Replay, Check, Post, TimeOut, GiveUp, Transmit, Caller, CallerTyped
  <2>3. pc'[r] # "acking"
    BY <1>0, <1>4 DEF Submit, Replay, Check, Post, TimeOut, GiveUp, Transmit, Caller, CallerTyped
  <2>4. QED
    BY <1>3, <2>1, <2>2, <2>3
<1>5. ASSUME UNCHANGED <<client, told>>, acked' \subseteq acked PROVE Receivers' /\ AckedAreHeard'
  BY <1>3, <1>5 DEF client, told
<1>6. ASSUME NEW r \in Call,
             \/ Begin(r) \/ Enqueue(r) \/ Hand(r) \/ Work(r) \/ Reject(r) \/ Return(r)
             \/ Abandon(r) \/ Recover(r) \/ Complete(r)
      PROVE  Receivers' /\ AckedAreHeard'
  BY <1>5, <1>6 DEF Begin, Enqueue, Hand, Work, Reject, Return, Abandon, Recover, Complete, table
<1>7. ASSUME NEW c \in Command, Collect(c) PROVE Receivers' /\ AckedAreHeard'
  BY <1>5, <1>7 DEF Collect
<1>8. CASE WorkerCrash \/ InboxMoves \/ UNCHANGED vars
  BY <1>5, <1>8 DEF WorkerCrash, InboxMoves, vars, table
<1>9. CASE Reconnect \/ Drop \/ ClientRestart \/ DaemonCrash
  <2>1. heard' = heard /\ acked' = acked /\ cmd' = cmd
    BY <1>9 DEF Reconnect, Drop, ClientRestart, DaemonCrash, daemon, table, told
  <2>2. \A q \in Call : pc'[q] = "acking" => pc[q] = "acking"
    BY <1>0, <1>9 DEF Reconnect, Drop, ClientRestart, DaemonCrash, FailCalls, CallerTyped
  <2>3. QED
    BY <1>3, <2>1, <2>2
<1>10. ASSUME NEW r \in Call, Post(r) \/ TimeOut(r) \/ GiveUp(r) PROVE Receivers' /\ AckedAreHeard'
  <2>1. cmd[r] \in Command
    BY <1>0 DEF CallerTyped
  <2>2. QED
    BY <1>4, <1>10, <2>1
<1>11. QED
  BY <1>1, <1>2, <1>4, <1>6, <1>7, <1>8, <1>9, <1>10 DEF Next

\* The client's journal keeps a command until dispatch knows what came of it. What it takes
\* for refused (definitive) was not carried out, unless the row of the command was deleted
\* after it had been: by abandon if nobody was told, since a row is collected only after
\* the client was told its result.
THEOREM NothingGetsForgotten == Spec => []NothingIsForgotten
<1>1. Inv /\ AckedAreHeard => NothingIsForgotten
  BY DEF Inv, CommandInv, Unsent, Unheard, Refused, Lost, AckedAreHeard, NothingIsForgotten
<1>2. Init => Receivers /\ AckedAreHeard
  BY DEF Init, Receivers, AckedAreHeard
<1>3. Inv /\ Receivers /\ AckedAreHeard /\ [Next]_vars => Receivers' /\ AckedAreHeard'
  BY ReceiversStep DEF Inv
<1>4. QED
  BY <1>1, <1>2, <1>3, Invariance, PTL DEF Spec

-----------------------------------------------------------------------------
(* What a client is promised.                                              *)

\* Only a row with a result is acknowledged.
Acknowledged == \A c \in acked : entry[c] = "complete"

LEMMA AcknowledgedStep == ASSUME TypeOK, Acknowledged, [Next]_vars PROVE Acknowledged'
<1>0. acked \subseteq Command /\ TableTyped /\ cmd \in [Call -> Command]
  BY TypeParts DEF TypeOK
<1>1. ASSUME NEW r \in Call, Acknowledge(r) PROVE Acknowledged'
  BY <1>0, <1>1 DEF Acknowledge, Acknowledged
<1>2. ASSUME NEW r \in Call, Begin(r) PROVE Acknowledged'
  <2>1. acked' = acked /\ (entry' = entry \/ (IsNew(cmd[r]) /\ entry' = [entry EXCEPT ![cmd[r]] = "open"]))
    BY <1>2 DEF Begin
  <2>2. IsNew(cmd[r]) => cmd[r] \notin acked
    BY DEF IsNew, Acknowledged
  <2>3. QED
    BY <1>0, <2>1, <2>2 DEF Acknowledged, TableTyped
<1>3. ASSUME NEW r \in Call, Abandon(r) PROVE Acknowledged'
  <2>1. /\ acked' = acked
        /\ entry' = entry \/ (entry[cmd[r]] = "open" /\ entry' = [entry EXCEPT ![cmd[r]] = "none"])
    BY <1>3 DEF Abandon
  <2>2. QED
    BY <1>0, <2>1 DEF Acknowledged, TableTyped
<1>4. ASSUME NEW r \in Call, Complete(r) PROVE Acknowledged'
  <2>1. acked' = acked /\ (entry' = entry \/ entry' = [entry EXCEPT ![cmd[r]] = "complete"])
    BY <1>4 DEF Complete
  <2>2. QED
    BY <1>0, <2>1 DEF Acknowledged, TableTyped
<1>5. ASSUME NEW c \in Command, Collect(c) PROVE Acknowledged'
  BY <1>0, <1>5 DEF Collect, Acknowledged, TableTyped
<1>6. ASSUME UNCHANGED table PROVE Acknowledged'
  BY <1>6 DEF table, Acknowledged
<1>7. ASSUME NEW r \in Call, NEW c \in Command,
             \/ Submit(r, c) \/ Replay(r, c) \/ Check(r, c) \/ Post(r) \/ TimeOut(r) \/ GiveUp(r)
             \/ Deliver(r) \/ Enqueue(r) \/ Hand(r) \/ Work(r) \/ Reject(r) \/ Return(r) \/ Recover(r)
      PROVE  Acknowledged'
  BY <1>6, <1>7 DEF Submit, Replay, Check, Post, TimeOut, GiveUp, Deliver, Enqueue, Hand, Work, Reject,
                    Return, Recover
<1>8. CASE Reconnect \/ Drop \/ ClientRestart \/ WorkerCrash \/ DaemonCrash \/ InboxMoves
  BY <1>6, <1>8 DEF Reconnect, Drop, ClientRestart, WorkerCrash, DaemonCrash, InboxMoves
<1>9. ASSUME NEW r \in Call,
             \/ Post(r) \/ TimeOut(r) \/ GiveUp(r) \/ Deliver(r) \/ Enqueue(r) \/ Hand(r) \/ Work(r)
             \/ Reject(r) \/ Return(r) \/ Recover(r)
      PROVE  Acknowledged'
  <2>1. cmd[r] \in Command
    BY <1>0
  <2>2. QED
    BY <1>7, <1>9, <2>1
<1>10. CASE UNCHANGED vars
  BY <1>6, <1>10 DEF vars
<1>11. QED
  BY <1>1, <1>2, <1>3, <1>4, <1>5, <1>7, <1>8, <1>9, <1>10 DEF Next

\* What a row shows.  A row's inbox holds items of that row and of earlier ones; a call that
\* says that its command was carried out, the receipt and what was heard name a row that shows it.
Tells(r) == at[r] \in {"applied", "done"} \/ (at[r] = "replied" /\ answer[r] = "ok")

InboxesAreRows == \A n \in DOMAIN rows : rows[n].inbox \subseteq 1 .. n
CallsShow == \A r \in Call : Tells(r) => seq[r] \in Traces(cmd[r])
ReceiptsShow == \A c \in Command : entry[c] = "complete" => c \in made /\ receipt[c] \in Traces(c)
HeardShow == \A c \in Command : heard[c] \subseteq Traces(c) /\ (heard[c] # {} => c \in made)

Shown == InboxesAreRows /\ CallsShow /\ ReceiptsShow /\ HeardShow

LEMMA RowsLengthen ==
  ASSUME TypeOK, Known, [Next]_vars
  PROVE  \/ rows' = rows
         \/ \E row \in [kind : RowKind, by : SUBSET Command, inbox : SUBSET Nat] :
              rows' = Append(rows, row) /\ row.inbox \subseteq 1 .. NewSeq
<1>0. /\ CallerTyped /\ Len(rows) \in Nat /\ NewSeq = Len(rows) + 1
      /\ Inbox \subseteq 1 .. Len(rows) /\ Inbox \cup {NewSeq} \subseteq 1 .. NewSeq
  <2>1. CallerTyped /\ Len(rows) \in Nat /\ NewSeq = Len(rows) + 1
    BY TypeParts, InboxTyped DEF NewSeq
  <2>2. Inbox \subseteq 1 .. Len(rows)
    BY DEF Known
  <2>3. 1 .. Len(rows) \subseteq 1 .. NewSeq /\ NewSeq \in 1 .. NewSeq
    BY <2>1
  <2>4. QED
    BY <2>1, <2>2, <2>3
<1>1. ASSUME NEW kind \in RowKind, NEW by \in SUBSET Command, NEW inbox \in SUBSET Nat,
             rows' = Append(rows, Row(kind, by, inbox)), inbox \subseteq Inbox \cup {NewSeq}
      PROVE  \E row \in [kind : RowKind, by : SUBSET Command, inbox : SUBSET Nat] :
               rows' = Append(rows, row) /\ row.inbox \subseteq 1 .. NewSeq
  <2> DEFINE row == Row(kind, by, inbox)
  <2>1. row \in [kind : RowKind, by : SUBSET Command, inbox : SUBSET Nat] /\ row.inbox = inbox
    BY DEF Row
  <2>2. rows' = Append(rows, row) /\ inbox \subseteq 1 .. NewSeq
    BY <1>0, <1>1
  <2> HIDE DEF row
  <2>3. QED
    BY <2>1, <2>2
<1>2. ASSUME NEW r \in Call, Work(r)
      PROVE  \E row \in [kind : RowKind, by : SUBSET Command, inbox : SUBSET Nat] :
               rows' = Append(rows, row) /\ row.inbox \subseteq 1 .. NewSeq
  <2>1. PICK kind \in {"queued", "withdrawn", "refused"}, inbox \in SUBSET Nat :
          RowOf(cmd[r]) = Row(kind, {cmd[r]}, inbox) /\ inbox \subseteq Inbox \cup {NewSeq}
    BY <1>0, WorkersRow DEF CallerTyped
  <2>2. kind \in RowKind /\ {cmd[r]} \in SUBSET Command
    BY <1>0 DEF RowKind, CallerTyped
  <2>3. rows' = Append(rows, Row(kind, {cmd[r]}, inbox))
    BY <1>2, <2>1 DEF Work
  <2>4. QED
    BY <1>1, <2>1, <2>2, <2>3
<1>3. CASE InboxMoves
  <2>1. PICK kind \in {"claimed", "queued"}, inbox \in SUBSET Nat :
          rows' = Append(rows, Row(kind, {}, inbox)) /\ inbox \subseteq Inbox \cup {NewSeq}
    BY <1>3, InboxTyped DEF InboxMoves
  <2>2. kind \in RowKind /\ {} \in SUBSET Command
    BY DEF RowKind
  <2>3. QED
    BY <1>1, <2>1, <2>2
<1>4. rows' = rows \/ InboxMoves \/ \E r \in Call : Work(r)
  BY DEF Next, Submit, Post, Reconnect, Replay, Check, Drop, ClientRestart, TimeOut, GiveUp, Deliver, Acknowledge,
         Begin, Enqueue, Hand, Reject, Return, Abandon, Recover, Complete, Collect, WorkerCrash, DaemonCrash, vars
<1>5. QED
  BY <1>2, <1>3, <1>4

\* What was made stays as it was made.
LEMMA MadeStays ==
  ASSUME TypeOK, [Next]_vars, NEW c \in made
  PROVE  c \in made' /\ payload'[c] = payload[c]
<1>0. c \in Command /\ payload \in [Command -> SUBSET Nat]
  BY DEF TypeOK
<1>1. ASSUME NEW r \in Call, NEW d \in Command, Submit(r, d) PROVE c \in made' /\ payload'[c] = payload[c]
  BY <1>0, <1>1 DEF Submit
<1>2. UNCHANGED <<made, payload>> \/ \E r \in Call, d \in Command : Submit(r, d)
  BY DEF Next, Post, Reconnect, Replay, Check, Drop, ClientRestart, TimeOut, GiveUp, Deliver, Acknowledge, Begin,
         Enqueue, Hand, Work, Reject, Return, Abandon, Recover, Complete, Collect, InboxMoves, WorkerCrash,
         DaemonCrash, vars, client
<1>3. QED
  BY <1>1, <1>2

\* A row that shows an effect goes on showing it.
LEMMA TracesStay ==
  ASSUME TypeOK, Known, [Next]_vars, NEW c \in made
  PROVE  Traces(c) \subseteq Traces(c)'
<1>1. \A n \in DOMAIN rows : n \in DOMAIN rows' /\ rows'[n] = rows[n]
  <2>1. CASE rows' = rows
    BY <2>1
  <2>2. ASSUME NEW row \in [kind : RowKind, by : SUBSET Command, inbox : SUBSET Nat], rows' = Append(rows, row)
        PROVE  \A n \in DOMAIN rows : n \in DOMAIN rows' /\ rows'[n] = rows[n]
    BY <2>2 DEF TypeOK
  <2>3. QED
    BY <2>1, <2>2, RowsLengthen
<1>2. Applied(c) \subseteq Applied(c)'
  BY <1>1 DEF Applied
<1>3. payload'[c] = payload[c]
  BY MadeStays
<1>4. QED
  BY <1>1, <1>2, <1>3 DEF Traces, Withdraws

LEMMA InboxesStep == ASSUME TypeOK, Known, InboxesAreRows, [Next]_vars PROVE InboxesAreRows'
<1>1. CASE rows' = rows
  BY <1>1 DEF InboxesAreRows
<1>2. ASSUME NEW row \in [kind : RowKind, by : SUBSET Command, inbox : SUBSET Nat],
             rows' = Append(rows, row), row.inbox \subseteq 1 .. NewSeq
      PROVE  InboxesAreRows'
  <2>1. /\ DOMAIN rows' = (DOMAIN rows) \cup {NewSeq} /\ rows'[NewSeq] = row
        /\ \A n \in DOMAIN rows : rows'[n] = rows[n]
    BY <1>2 DEF TypeOK, NewSeq
  <2>2. QED
    BY <1>2, <2>1 DEF InboxesAreRows
<1>3. QED
  BY <1>1, <1>2, RowsLengthen

LEMMA HeardStep == ASSUME TypeOK, Known, CallsShow, HeardShow, [Next]_vars PROVE HeardShow'
<1>0. heard \in [Command -> SUBSET Nat] /\ cmd \in [Call -> Command]
  BY DEF TypeOK
<1>1. ASSUME NEW c \in Command, NEW n \in heard'[c] PROVE c \in made /\ n \in Traces(c)
  <2>1. CASE n \in heard[c]
    BY <2>1 DEF HeardShow
  <2>2. ASSUME NEW r \in Call, Deliver(r), n \notin heard[c] PROVE c \in made /\ n \in Traces(c)
    <3>1. at[r] = "replied" /\ answer[r] = "ok" /\ c = cmd[r] /\ n = seq[r]
      BY <1>0, <1>1, <2>2 DEF Deliver, told
    <3>2. QED
      BY <3>1 DEF Tells, CallsShow, Known
  <2>3. heard' = heard \/ \E r \in Call : Deliver(r)
    BY DEF Next, Submit, Post, Reconnect, Replay, Check, Drop, ClientRestart, TimeOut, GiveUp, Acknowledge,
           Begin, Enqueue, Hand, Work, Reject, Return, Abandon, Recover, Complete, Collect, InboxMoves,
           WorkerCrash, DaemonCrash, vars, told
  <2>4. QED
    BY <1>1, <2>1, <2>2, <2>3
<1>2. QED
  BY <1>1, MadeStays, TracesStay DEF HeardShow

LEMMA ReceiptsStep == ASSUME TypeOK, Known, CallsShow, ReceiptsShow, [Next]_vars PROVE ReceiptsShow'
<1>0. TableTyped /\ cmd \in [Call -> Command]
  BY TypeParts DEF TypeOK
<1>1. ASSUME NEW c \in Command, entry'[c] = "complete" PROVE c \in made /\ receipt'[c] \in Traces(c)
  <2>1. CASE entry[c] = "complete" /\ receipt'[c] = receipt[c]
    BY <2>1 DEF ReceiptsShow
  <2>2. ASSUME NEW r \in Call, Complete(r) PROVE c \in made /\ receipt'[c] \in Traces(c)
    <3>1. \/ entry[c] = "complete" /\ receipt'[c] = receipt[c]
          \/ at[r] = "done" /\ c = cmd[r] /\ receipt'[c] = seq[r]
      BY <1>0, <1>1, <2>2 DEF Complete, TableTyped
    <3>2. QED
      BY <2>1, <3>1 DEF Tells, CallsShow, Known
  <2>3. ASSUME NEW r \in Call, Begin(r) \/ Abandon(r) PROVE entry[c] = "complete" /\ receipt'[c] = receipt[c]
    BY <1>0, <1>1, <2>3 DEF Begin, Abandon, TableTyped
  <2>4. ASSUME NEW d \in Command, Collect(d) PROVE entry[c] = "complete" /\ receipt'[c] = receipt[c]
    BY <1>0, <1>1, <2>4 DEF Collect, TableTyped
  <2>5. \/ UNCHANGED <<entry, receipt>> \/ \E d \in Command : Collect(d)
        \/ \E r \in Call : Begin(r) \/ Abandon(r) \/ Complete(r)
    BY DEF Next, Submit, Post, Reconnect, Replay, Check, Drop, ClientRestart, TimeOut, GiveUp, Deliver, Acknowledge,
           Enqueue, Hand, Work, Reject, Return, Recover, InboxMoves, WorkerCrash, DaemonCrash, vars, table
  <2>6. QED
    BY <1>1, <2>1, <2>2, <2>3, <2>4, <2>5
<1>2. QED
  BY <1>1, MadeStays, TracesStay DEF ReceiptsShow

\* A step of one call: what it says from then on has to be shown.
LEMMA CallMoves ==
  ASSUME TypeOK, Known, CallsShow, [Next]_vars,
         \A q \in Call : Tells(q)' => \/ Tells(q) /\ seq'[q] = seq[q] /\ cmd'[q] = cmd[q]
                                      \/ \E c \in made : c = cmd'[q] /\ seq'[q] \in Traces(c)
                                      \/ \E c \in made : c = cmd'[q] /\ seq'[q] \in Traces(c)'
  PROVE  CallsShow'
<1>1. ASSUME NEW q \in Call, Tells(q)' PROVE (seq[q] \in Traces(cmd[q]))'
  <2>1. ASSUME NEW c \in made, c = cmd'[q], seq'[q] \in Traces(c)' PROVE (seq[q] \in Traces(cmd[q]))'
    BY <2>1 DEF Traces, Applied, Withdraws
  <2>2. ASSUME NEW c \in made, c = cmd'[q], seq'[q] \in Traces(c) PROVE (seq[q] \in Traces(cmd[q]))'
    BY <2>1, <2>2, TracesStay
  <2>3. CASE Tells(q) /\ seq'[q] = seq[q] /\ cmd'[q] = cmd[q]
    <3>1. cmd[q] \in made /\ seq[q] \in Traces(cmd[q])
      BY <2>3 DEF Tells, CallsShow, Known
    <3>2. PICK c \in made : c = cmd[q]
      BY <3>1
    <3>3. QED
      BY <2>2, <2>3, <3>1, <3>2
  <2>4. QED
    BY <1>1, <2>1, <2>2, <2>3
<1>2. QED
  BY <1>1 DEF CallsShow

LEMMA CallsStep == ASSUME TypeOK, Outcomes, Known, CallsShow, ReceiptsShow, [Next]_vars PROVE CallsShow'
<1>0. /\ CallTyped /\ CallerTyped /\ TableTyped /\ RowsTyped /\ cmd \in [Call -> Command]
      /\ \A r \in Call : at[r] # "none" => cmd[r] \in made
  BY TypeParts DEF CallerTyped, Known
<1>1. ASSUME \A q \in Call : \/ /\ at'[q] = at[q] /\ answer'[q] = answer[q]
                                /\ seq'[q] = seq[q] /\ cmd'[q] = cmd[q]
                             \/ at'[q] \notin {"applied", "done", "replied"}
                             \/ at'[q] = "replied" /\ answer'[q] # "ok"
                             \/ at[q] \in {"applied", "done"} /\ seq'[q] = seq[q] /\ cmd'[q] = cmd[q]
                             \/ cmd[q] \in made /\ cmd'[q] = cmd[q] /\ seq'[q] \in Traces(cmd[q])
      PROVE  CallsShow'
  <2>1. \A q \in Call : Tells(q)' => \/ Tells(q) /\ seq'[q] = seq[q] /\ cmd'[q] = cmd[q]
                                     \/ \E c \in made : c = cmd'[q] /\ seq'[q] \in Traces(c)
    BY <1>1 DEF Tells
  <2>2. QED
    BY <2>1, CallMoves
<1>2. ASSUME UNCHANGED <<at, answer, seq, cmd>> PROVE CallsShow'
  BY <1>1, <1>2
<1>3. ASSUME NEW r \in Call, NEW c \in Command, NEW m \in {"submit", "replay", "check"}, Transmit(r, c, m)
      PROVE  CallsShow'
  BY <1>0, <1>1, <1>3, TransmitMoves
<1>4. ASSUME NEW r \in Call, NEW a \in Verdict, NEW n \in Nat, Reply(r, a, n), UNCHANGED cmd,
             a = "ok" => cmd[r] \in made /\ n \in Traces(cmd[r])
      PROVE  CallsShow'
  BY <1>0, <1>1, <1>4, ReplyMoves
<1>5. ASSUME NEW r \in Call, NEW s \in Place, NEW a \in Verdict, NEW n \in Nat, Step(r, s, a, n), UNCHANGED cmd,
             \/ s \notin {"applied", "done", "replied"}
             \/ cmd[r] \in made /\ n \in Traces(cmd[r])
             \/ at[r] = "applied" /\ n = seq[r]
      PROVE  CallsShow'
  BY <1>0, <1>1, <1>5, StepMoves
<1>6. ASSUME NEW r \in Call, NEW c \in Command, Submit(r, c) \/ Replay(r, c) \/ Check(r, c) \/ Post(r)
      PROVE  CallsShow'
  <2>1. CASE Submit(r, c)
    <3>1. /\ UNCHANGED <<at, answer, seq>> /\ at[r] = "none"
          /\ \A q \in Call \ {r} : cmd'[q] = cmd[q]
      BY <1>0, <2>1 DEF Submit, Free, daemon
    <3>2. QED
      BY <1>1, <3>1
  <2>2. CASE Replay(r, c) \/ Check(r, c)
    BY <1>3, <2>2 DEF Replay, Check
  <2>3. CASE Post(r)
    BY <1>0, <1>3, <2>3 DEF Post
  <2>4. QED
    BY <1>6, <2>1, <2>2, <2>3
<1>7. ASSUME NEW r \in Call, Post(r) PROVE CallsShow'
  BY <1>0, <1>6, <1>7
<1>8. CASE Drop \/ ClientRestart
  BY <1>0, <1>1, <1>8, LossMoves DEF Drop, ClientRestart
<1>9. CASE Reconnect \/ InboxMoves \/ UNCHANGED vars
  BY <1>2, <1>9 DEF Reconnect, InboxMoves, vars, daemon, client
<1>10. ASSUME NEW r \in Call, TimeOut(r) \/ GiveUp(r) \/ Acknowledge(r) PROVE CallsShow'
  BY <1>2, <1>10 DEF TimeOut, GiveUp, Acknowledge, daemon
<1>11. ASSUME NEW r \in Call, Deliver(r) PROVE CallsShow'
  BY <1>5, <1>11 DEF Deliver, Place, Verdict
<1>12. ASSUME NEW c \in Command, Collect(c) PROVE CallsShow'
  BY <1>2, <1>12 DEF Collect, daemon, client
<1>13. ASSUME NEW r \in Call, Begin(r) PROVE CallsShow'
  <2>1. receipt[cmd[r]] \in Nat /\ UNCHANGED cmd
    BY <1>0, <1>13 DEF TableTyped, Begin, client
  <2>2. \/ entry[cmd[r]] = "complete" /\ Reply(r, "ok", receipt[cmd[r]])
        \/ \E s \in {"begun", "doubted", "recovering"} : Step(r, s, "none", 0)
    BY <1>13 DEF Begin
  <2>3. entry[cmd[r]] = "complete" => cmd[r] \in made /\ receipt[cmd[r]] \in Traces(cmd[r])
    BY <1>0 DEF ReceiptsShow
  <2>4. QED
    BY <1>4, <1>5, <2>1, <2>2, <2>3 DEF Place, Verdict
<1>14. ASSUME NEW r \in Call, Enqueue(r) \/ Hand(r) \/ Reject(r) PROVE CallsShow'
  <2>1. /\ UNCHANGED cmd
        /\ \/ Reply(r, "error", 0) \/ Step(r, "failed", "error", 0)
           \/ \E s \in {"queued", "recovering", "working", "none"} : Step(r, s, "none", 0)
    BY <1>14 DEF Enqueue, Hand, Reject, client
  <2>2. QED
    BY <1>4, <1>5, <2>1 DEF Place, Verdict
<1>15. ASSUME NEW r \in Call, Work(r) PROVE CallsShow'
  <2>a. cmd[r] \in made /\ cmd[r] \in Command
    BY <1>0, <1>15 DEF Work
  <2>b. PICK c \in made : c = cmd[r] /\ c \in Command
    BY <2>a
  <2>0. c \in made /\ c \in Command /\ NewSeq \in Nat \ {0} /\ UNCHANGED <<cmd, payload>> /\ rows' = Append(rows, RowOf(c))
    BY <1>15, <2>b, InboxTyped DEF Work, client
  <2>1. \/ at[r] = "working" /\ ~IsGone(c) /\ Step(r, "applied", "none", NewSeq)
        \/ \E s \in {"gone", "none"} : Step(r, s, "none", 0)
    BY <1>15, <2>b DEF Work
  <2>2. CASE \E s \in {"gone", "none"} : Step(r, s, "none", 0)
    BY <1>5, <2>0, <2>2 DEF Place, Verdict
  <2>3. CASE at[r] = "working" /\ ~IsGone(c) /\ Step(r, "applied", "none", NewSeq)
    <3>1. NewSeq \in Traces(c)'
      <4>2. PICK kind \in {"queued", "withdrawn", "refused"}, inbox \in SUBSET Nat :
              RowOf(c) = Row(kind, {c}, inbox) /\ (kind = "refused" <=> IsGone(c))
        BY <2>0, WorkersRow
      <4>3. kind \in RowKind /\ {c} \in SUBSET Command /\ kind \in {"queued", "withdrawn"}
        BY <2>0, <2>3, <4>2 DEF RowKind
      <4>4. NewSeq \in Applied(c)'
        BY <2>0, <4>2, <4>3, RowsGrow
      <4>5. Withdraws(c)' = Withdraws(c)
        BY <2>0 DEF Withdraws
      <4>6. CASE ~Withdraws(c)
        <5>1. Inbox' = Inbox \cup {NewSeq} /\ Len(rows') = NewSeq
          <6>1. rows' = Append(rows, Row("queued", {c}, Inbox \cup {NewSeq}))
            BY <2>0, <4>6 DEF RowOf
          <6>2. "queued" \in RowKind /\ {c} \in SUBSET Command /\ Inbox \cup {NewSeq} \in SUBSET Nat
            BY <2>0, InboxTyped DEF RowKind
          <6>3. QED
            BY <6>1, <6>2, RowsGrow
        <5>2. NewSeq \in rows'[NewSeq].inbox
          BY <2>0, <4>4, <5>1 DEF Inbox, Applied
        <5>3. rows'[NewSeq].kind # "refused" /\ NewSeq \in DOMAIN rows'
          BY <4>4 DEF Applied
        <5>4. QED
          BY <4>4, <4>5, <4>6, <5>2, <5>3 DEF Traces
      <4>7. QED
        BY <4>4, <4>5, <4>6 DEF Traces
    <3>2. /\ seq'[r] = NewSeq /\ cmd'[r] = c
          /\ \A q \in Call \ {r} : /\ at'[q] = at[q] /\ answer'[q] = answer[q]
                                  /\ seq'[q] = seq[q] /\ cmd'[q] = cmd[q]
      BY <1>0, <2>0, <2>b, <2>3, StepMoves DEF Place, Verdict
    <3>3. \A q \in Call : Tells(q)' => \/ Tells(q) /\ seq'[q] = seq[q] /\ cmd'[q] = cmd[q]
                                       \/ \E d \in made : d = cmd'[q] /\ seq'[q] \in Traces(d)'
      BY <2>0, <3>1, <3>2 DEF Tells
    <3>4. QED
      BY <3>3, CallMoves
  <2>4. QED
    BY <2>1, <2>2, <2>3
<1>16. ASSUME NEW r \in Call, Return(r) PROVE CallsShow'
  <2>1. /\ UNCHANGED cmd
        /\ \/ at[r] = "applied" /\ Step(r, "done", "none", seq[r])
           \/ \E a \in {"error", "gone"} : Step(r, "failed", a, 0)
    BY <1>16 DEF Return, client
  <2>2. seq[r] \in Nat
    BY <1>0 DEF CallTyped
  <2>3. QED
    BY <1>5, <2>1, <2>2 DEF Place, Verdict
<1>17. ASSUME NEW r \in Call, Abandon(r) PROVE CallsShow'
  <2>1. answer[r] \in Verdict /\ answer[r] # "ok" /\ UNCHANGED cmd /\ Reply(r, answer[r], 0)
    BY <1>0, <1>17 DEF CallTyped, Abandon, client, Outcomes
  <2>2. QED
    BY <1>4, <2>1
<1>18. ASSUME NEW r \in Call, Complete(r) PROVE CallsShow'
  <2>1. seq[r] \in Nat /\ at[r] = "done" /\ UNCHANGED cmd /\ (Reply(r, "ok", seq[r]) \/ Reply(r, "error", 0))
    BY <1>0, <1>18 DEF CallTyped, Complete, client
  <2>2. cmd[r] \in made /\ seq[r] \in Traces(cmd[r])
    BY <1>0, <2>1 DEF CallsShow, Tells
  <2>3. QED
    BY <1>4, <2>1, <2>2 DEF Verdict
<1>19. ASSUME NEW r \in Call, Recover(r) PROVE CallsShow'
  <2>1. /\ UNCHANGED cmd /\ cmd[r] \in made
        /\ \/ \E n \in Traces(cmd[r]) : Step(r, "done", "none", n)
           \/ Reply(r, "uncertain", 0) \/ Reply(r, "error", 0)
    BY <1>0, <1>19 DEF Recover, client
  <2>2. ASSUME NEW n \in Traces(cmd[r]) PROVE n \in Nat
    <3>1. n \in DOMAIN rows
      BY <2>2 DEF Traces, Applied
    <3>2. QED
      BY <1>0, <3>1 DEF RowsTyped
  <2>3. QED
    BY <1>4, <1>5, <2>1, <2>2 DEF Place, Verdict
<1>20. CASE WorkerCrash
  BY <1>0, <1>1, <1>20 DEF WorkerCrash, CallTyped, InWorker, client
<1>21. CASE DaemonCrash
  BY <1>0, <1>1, <1>21 DEF DaemonCrash, CallTyped
<1>22. QED
  BY <1>6, <1>7, <1>8, <1>9, <1>10, <1>11, <1>12, <1>13, <1>14, <1>15, <1>16, <1>17, <1>18, <1>19, <1>20, <1>21
  DEF Next

LEMMA ShownStep == ASSUME TypeOK, Outcomes, Known, Shown, [Next]_vars PROVE Shown'
BY InboxesStep, CallsStep, ReceiptsStep, HeardStep DEF Shown

\* A step that neither the client's journal nor the history shows.
LEMMA BoxRests ==
  ASSUME UNCHANGED <<pending, heard, refused, released>>, \A c \in Command : Applied(c)' = Applied(c)
  PROVE  UNCHANGED Box!vars
<1>1. /\ {c \in Command : pending[c] # "none"}' = {c \in Command : pending[c] # "none"}
      /\ [c \in Command |-> Applied(c)]' = [c \in Command |-> Applied(c)]
  OBVIOUS
<1>2. QED
  BY <1>1 DEF Box!vars

\* markPending, and what dispatch's catch makes of a command.
LEMMA BoxKeeps ==
  ASSUME JournalTyped, NEW c \in Command, NEW state \in {"pending", "needs-confirmation"},
         pending' = Marked(c, state), UNCHANGED <<rows, heard, refused, released>>
  PROVE  Box!Next
<1>1. {d \in Command : pending[d] # "none"}' = {d \in Command : pending[d] # "none"} \cup {c}
  BY DEF Marked, JournalTyped
<1>2. [d \in Command |-> Applied(d)]' = [d \in Command |-> Applied(d)]
  BY RowsStay
<1>3. Box!Keep(c)
  BY <1>1, <1>2 DEF Box!Keep
<1>4. QED
  BY <1>3 DEF Box!Next

\* The worker carries the command out, or another row is written.
LEMMA BoxCarries ==
  ASSUME Inv, NEW r \in Call, Work(r)
  PROVE  Box!Next \/ UNCHANGED Box!vars
<1> DEFINE c == cmd[r]
<1>0. /\ CallerTyped /\ CallTyped /\ Known /\ TypeOK /\ c \in Command /\ CommandInv(c) /\ NewSeq \in Nat
  BY TypeParts, InboxTyped DEF Inv, CallerTyped
<1> HIDE DEF c
<1>1. /\ UNCHANGED <<pending, heard, refused, released>> /\ at[r] \in {"working", "orphan"}
      /\ rows' = Append(rows, RowOf(c))
  BY DEF Work, client, table, told, c
<1>2. \A d \in Command : Applied(d)' = IF c = d /\ ~IsGone(c) THEN Applied(d) \cup {NewSeq} ELSE Applied(d)
  <2>1. PICK kind \in {"queued", "withdrawn", "refused"} :
          \E inbox \in SUBSET Nat : /\ RowOf(c) = Row(kind, {c}, inbox)
                                    /\ kind = "refused" <=> IsGone(c)
    BY <1>0, WorkersRow
  <2>2. PICK inbox \in SUBSET Nat : RowOf(c) = Row(kind, {c}, inbox) /\ (kind = "refused" <=> IsGone(c))
    BY <2>1
  <2>3. rows' = Append(rows, Row(kind, {c}, inbox)) /\ kind \in RowKind /\ {c} \in SUBSET Command
    BY <1>0, <1>1, <2>2 DEF RowKind
  <2>4. \A d \in Command : Applied(d)' = IF {c} = {d} /\ kind \in {"queued", "withdrawn"}
                                           THEN Applied(d) \cup {NewSeq} ELSE Applied(d)
    BY <1>0, <2>3, RowsGrow
  <2>5. QED
    BY <2>2, <2>4
<1>3. CASE IsGone(c)
  BY <1>1, <1>2, <1>3, BoxRests
<1>4. CASE ~IsGone(c)
  <2>1. ~Unheard(c)
    BY <1>0, <1>1 DEF CommandInv, Unsent, c
  <2>2. c \notin released => Applied(c) = {}
    BY <1>0, <1>1 DEF CommandInv, Once, Before, c
  <2>3. c \notin refused
    BY <1>0, <1>4 DEF CommandInv, Refused, Lost
  <2>4. \A d \in Command : NewSeq \notin Applied(d)
    BY <1>0 DEF Applied, NewSeq, TypeOK
  <2>5. [d \in Command |-> Applied(d)]'
          = [[d \in Command |-> Applied(d)] EXCEPT ![c] = Applied(c) \cup {NewSeq}]
    BY <1>0, <1>2, <1>4
  <2>6. {d \in Command : pending[d] # "none"}' = {d \in Command : pending[d] # "none"}
    BY <1>1
  <2>7. Box!Carry(c, NewSeq)
    BY <1>0, <1>1, <2>1, <2>2, <2>3, <2>4, <2>5, <2>6 DEF Box!Carry, Box!Known, Unheard
  <2>8. QED
    BY <1>0, <2>7 DEF Box!Next
<1>5. QED
  BY <1>3, <1>4

\* An answer arrives: an effect, a refusal, or neither.
LEMMA BoxTells ==
  ASSUME Inv, Shown, NEW r \in Call, Deliver(r)
  PROVE  Box!Next \/ UNCHANGED Box!vars
<1>a. JournalTyped /\ ToldTyped /\ cmd[r] \in Command /\ seq[r] \in Nat
  BY TypeParts DEF Inv, CallerTyped, CallTyped
<1>b. PICK c \in Command, n \in Nat : c = cmd[r] /\ n = seq[r]
  BY <1>a
<1>0. JournalTyped /\ ToldTyped /\ CommandInv(c)
  BY <1>a DEF Inv
<1>1. /\ UNCHANGED <<rows, released>> /\ at[r] = "replied"
      /\ \/ /\ answer[r] = "ok" /\ pending' = [pending EXCEPT ![c] = "none"]
            /\ heard' = [heard EXCEPT ![c] = @ \cup {n}] /\ UNCHANGED refused
         \/ /\ answer[r] = "gone" /\ pending' = [pending EXCEPT ![c] = "none"]
            /\ refused' = refused \cup {c} /\ UNCHANGED heard
         \/ UNCHANGED <<pending, heard, refused>>
  BY <1>b DEF Deliver, Definitive, told
<1>2. [d \in Command |-> Applied(d)]' = [d \in Command |-> Applied(d)]
  BY <1>1, RowsStay
<1>3. ASSUME pending' = [pending EXCEPT ![c] = "none"]
      PROVE  {d \in Command : pending[d] # "none"}' = {d \in Command : pending[d] # "none"} \ {c}
  BY <1>0, <1>3 DEF JournalTyped
<1>4. CASE /\ answer[r] = "ok" /\ pending' = [pending EXCEPT ![c] = "none"]
           /\ heard' = [heard EXCEPT ![c] = @ \cup {n}] /\ UNCHANGED refused
  <2>1. c \notin released => heard[c] \subseteq {n}
    BY <1>0, <1>1, <1>4, <1>b DEF CommandInv, Agreed
  <2>2. \E m \in Applied(c) : m <= n
    <3>1. n \in Traces(c)
      BY <1>1, <1>4, <1>b DEF Shown, CallsShow, Tells
    <3>2. QED
      BY <3>1 DEF Shown, InboxesAreRows, Traces
  <2>3. \E m \in [d \in Command |-> Applied(d)][c] : m <= n
    BY <2>2
  <2>4. Box!Tell(c, n)
    BY <1>0, <1>1, <1>2, <1>3, <1>4, <2>1, <2>3 DEF Box!Tell
  <2>5. QED
    BY <2>4 DEF Box!Next
<1>5. CASE /\ answer[r] = "gone" /\ pending' = [pending EXCEPT ![c] = "none"]
           /\ refused' = refused \cup {c} /\ UNCHANGED heard
  <2>1. c \notin released => Applied(c) = {}
    BY <1>0, <1>1, <1>5, <1>b DEF CommandInv, Refused, SaysGone, Lost
  <2>2. Box!Refuse(c)
    BY <1>0, <1>1, <1>2, <1>3, <1>5, <2>1 DEF Box!Refuse
  <2>3. QED
    BY <2>2 DEF Box!Next
<1>6. CASE UNCHANGED <<pending, heard, refused>>
  BY <1>1, <1>6, BoxRests, RowsStay
<1>7. QED
  BY <1>1, <1>4, <1>5, <1>6

\* abandon and gc delete the row of a command that was carried out.
LEMMA BoxReleases ==
  ASSUME NEW c \in Command, Applied(c) # {}, released' = released \cup {c},
         UNCHANGED <<pending, rows, heard, refused>>
  PROVE  Box!Next
<1>1. [d \in Command |-> Applied(d)]' = [d \in Command |-> Applied(d)]
  BY RowsStay
<1>2. Box!Release(c)
  BY <1>1 DEF Box!Release
<1>3. QED
  BY <1>2 DEF Box!Next

LEMMA BoxStep == ASSUME Inv, Acknowledged, Shown, [Next]_vars PROVE Box!Next \/ UNCHANGED Box!vars
<1>0. /\ JournalTyped /\ CallerTyped /\ TypeOK /\ cmd \in [Call -> Command]
      /\ \A c \in Command : CommandInv(c)
  BY TypeParts DEF Inv, CallerTyped
<1>1. ASSUME NEW r \in Call, Post(r) PROVE Box!Next
  BY <1>0, <1>1, BoxKeeps DEF Post, told
<1>2. ASSUME NEW r \in Call, GiveUp(r) PROVE Box!Next \/ UNCHANGED Box!vars
  <2>1. /\ pending' = Marked(cmd[r], "needs-confirmation") \/ pending' = pending
        /\ UNCHANGED <<rows, heard, refused, released>>
    BY <1>2 DEF GiveUp, told
  <2>2. QED
    BY <1>0, <2>1, BoxKeeps, BoxRests, RowsStay
<1>3. ASSUME NEW r \in Call, Abandon(r) PROVE Box!Next \/ UNCHANGED Box!vars
  <2>1. /\ UNCHANGED <<pending, rows, heard, refused>>
        /\ released' = released \/ (Applied(cmd[r]) # {} /\ released' = released \cup {cmd[r]})
    BY <1>3 DEF Abandon, client, told
  <2>2. QED
    BY <1>0, <2>1, BoxReleases, BoxRests, RowsStay
<1>4. ASSUME NEW c \in Command, Collect(c) PROVE Box!Next
  <2>1. entry[c] = "complete"
    BY <1>4 DEF Collect, Acknowledged
  <2>2. Applied(c) # {}
    BY <1>0, <2>1 DEF CommandInv, Truth
  <2>3. QED
    BY <1>4, <2>2, BoxReleases DEF Collect, client, told
<1>5. CASE InboxMoves
  <2>1. UNCHANGED <<pending, heard, refused, released>>
    BY <1>5 DEF InboxMoves, client, told
  <2>2. PICK kind \in {"claimed", "queued"} :
          \E inbox \in SUBSET Nat : rows' = Append(rows, Row(kind, {}, inbox))
    BY <1>0, <1>5, InboxTyped DEF InboxMoves
  <2>3. kind \in RowKind /\ {} \in SUBSET Command /\ \A c \in Command : {} # {c}
    BY DEF RowKind
  <2>4. \A c \in Command : Applied(c)' = Applied(c)
    BY <1>0, <2>2, <2>3, RowsGrow
  <2>5. QED
    BY <2>1, <2>4, BoxRests
<1>6. ASSUME UNCHANGED <<pending, rows, heard, refused, released>> PROVE UNCHANGED Box!vars
  BY <1>6, BoxRests, RowsStay
<1>7. ASSUME NEW r \in Call, NEW c \in Command, Submit(r, c) \/ Replay(r, c) \/ Check(r, c)
      PROVE  UNCHANGED Box!vars
  BY <1>6, <1>7 DEF Submit, Replay, Check, told
<1>8. ASSUME NEW r \in Call,
             \/ TimeOut(r) \/ Acknowledge(r) \/ Begin(r) \/ Enqueue(r) \/ Hand(r) \/ Reject(r)
             \/ Return(r) \/ Recover(r) \/ Complete(r)
      PROVE  UNCHANGED Box!vars
  BY <1>6, <1>8 DEF TimeOut, Acknowledge, Begin, Enqueue, Hand, Reject, Return, Recover, Complete,
                    client, told
<1>9. CASE Reconnect \/ Drop \/ ClientRestart \/ WorkerCrash \/ DaemonCrash \/ UNCHANGED vars
  BY <1>6, <1>9 DEF Reconnect, Drop, ClientRestart, WorkerCrash, DaemonCrash, vars, client, told
<1>10. QED
  BY <1>1, <1>2, <1>3, <1>4, <1>5, <1>7, <1>8, <1>9, BoxCarries, BoxTells DEF Next

LEMMA BoxInit == Init => Box!Init
<1> SUFFICES ASSUME Init PROVE Box!Init
  OBVIOUS
<1>1. rows = <<>> /\ \A c \in Command : Applied(c) = {}
  BY DEF Init, Applied
<1>2. \A c \in Command : pending[c] = "none"
  BY DEF Init
<1>3. QED
  BY <1>1, <1>2 DEF Init, Box!Init

LEMMA ShownAlways == Spec => []Shown
<1>1. Init => Shown
  <2> SUFFICES ASSUME Init PROVE Shown
    OBVIOUS
  <2>1. rows = <<>> /\ DOMAIN rows = {}
    BY DEF Init
  <2>2. QED
    BY <2>1 DEF Init, Shown, InboxesAreRows, CallsShow, ReceiptsShow, HeardShow, Tells
<1>2. Inv /\ Shown /\ [Next]_vars => Shown'
  BY ShownStep DEF Inv
<1>3. QED
  BY <1>1, <1>2, Invariance, PTL DEF Spec

\* recover and the receipt: whichever row a caller is told, it shows that the command was carried
\* out, and none earlier than the one that did it can.
THEOREM AnswersShow == Spec => []AnswersShowEffect
<1>1. Shown => AnswersShowEffect
  BY DEF Shown, HeardShow, AnswersShowEffect
<1>2. QED
  BY <1>1, ShownAlways, PTL

\* Through lost, repeated and late calls, recoveries from the ledger and crashes of client, daemon
\* and worker a client has what Mailbox promises: its journal keeps a command until its outcome is
\* known, the session carries it out once and never after a refusal, and every caller is told the
\* same row; only a row of command_journal that abandon or gc deletes ends that.
THEOREM CommandsAreMailed == Spec => BoxSpec
<1>1. Init => Acknowledged
  BY DEF Init, Acknowledged
<1>2. Inv /\ Acknowledged /\ [Next]_vars => Acknowledged'
  BY AcknowledgedStep DEF Inv
<1>3. Inv /\ Acknowledged /\ Shown /\ [Next]_vars => [Box!Next]_(Box!vars)
  BY BoxStep
<1>4. QED
  BY <1>1, <1>2, <1>3, BoxInit, Invariance, ShownAlways, PTL DEF Spec, BoxSpec, Box!Spec
=============================================================================
