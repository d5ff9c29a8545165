------------------------- MODULE CommandSubmission -------------------------
(***************************************************************************)
(* One client's commands to one session: the SDK's journal of unresolved   *)
(* commands and its retries (sdk/src/submit.ts), the daemon's journal of   *)
(* receipts and its queue (daemon-rpc local/methods/agnes.ts,              *)
(* daemon-foundation storage/command-journal.ts), and the session's inbox  *)
(* behind the worker link.  Connections drop, calls time out, the client,  *)
(* the daemon and the worker crash; a command is sent again under the same *)
(* id.  A command is an input (steer, followUp) or the withdrawal of a     *)
(* queued one (removeQueued).                                              *)
(***************************************************************************)
EXTENDS Naturals, Sequences

CONSTANTS
  Command,  \* the command ids the client uses
  Call,     \* the client's calls that may be under way at once
  MaxRows   \* bound: rows of the session's ledger

ASSUME ConstantsAssumption == MaxRows \in Nat

VARIABLES
  pending,    \* the client's journal: none, pending or needs-confirmation
  made,       \* the commands made so far
  payload,    \* and what they ask: {} to queue an input, {i} to withdraw the item i
  linked,     \* whether the client's connection is up
  replays,    \* what resendPending has read from the journal and has yet to send again
  pc,         \* each call, as its caller sees it
  cmd, mode,  \* the command it is about (arbitrary for a call not yet made); what it is for
  at,         \* the same call in the daemon
  answer,     \* what the daemon is about to say of it, or says
  seq,        \* and the row that goes with it
  line,       \* the session's CommandQueue: the first one is active
  entry,      \* command_journal: no row, a row without a result, or with one
  receipt,    \* its result; 0 for none
  acked,      \* the commands whose row has acked_at
  rows,       \* the ledger's rows about the inbox, each with the inbox after it
  heard, refused, \* history: the seqs callers were told; commands they were told are refused
  released    \* history: commands whose row was deleted although they had been applied

client == <<pending, made, payload, linked, replays, pc, cmd, mode>>
daemon == <<at, answer, seq, line>>
table == <<entry, receipt, acked>>
told == <<heard, refused>>
vars == <<client, daemon, table, rows, told, released>>

-----------------------------------------------------------------------------
(* The session.  An item is named by the row that queued it.               *)

RowKind == {"queued", "withdrawn", "claimed", "refused"}
Inbox == IF rows = <<>> THEN {} ELSE rows[Len(rows)].inbox

Row(kind, c, inbox) == [kind |-> kind, by |-> c, inbox |-> inbox]

Withdraws(c) == payload[c] # {}

\* Mutant: the row before the one that is written.
NewSeqBefore == Len(rows)

\* The seq of the next row, which names the item it may queue.
NewSeq == Len(rows) + 1

\* The rows that carried the command out.
Applied(c) == {n \in DOMAIN rows : rows[n].by = {c} /\ rows[n].kind \in {"queued", "withdrawn"}}

\* The rows recover finds for it: for an input every inbox that still has the item.
Traces(c) ==
  IF Withdraws(c) THEN Applied(c)
  ELSE {n \in DOMAIN rows : rows[n].kind # "refused" /\ rows[n].inbox \cap Applied(c) # {}}

-----------------------------------------------------------------------------
(* Parts of the actions.                                                   *)

\* upsertPending keeps needs-confirmation.
Marked(c, state) ==
  [pending EXCEPT ![c] = IF @ = "needs-confirmation" THEN @ ELSE state]

\* The caller of r is at p, for m.
Caller(r, p, m) == pc' = [pc EXCEPT ![r] = p] /\ mode' = [mode EXCEPT ![r] = m]

\* The daemon is at s with r, with the answer a and the row n.
Step(r, s, a, n) ==
  /\ at' = [at EXCEPT ![r] = s]
  /\ answer' = [answer EXCEPT ![r] = a] /\ seq' = [seq EXCEPT ![r] = n]

\* It answers; if nobody waits any more, that is the end of it.
Reply(r, a, n) ==
  IF pc[r] = "waiting" THEN Step(r, "replied", a, n) ELSE Step(r, "none", "none", 0)

\* A call leaves for the daemon, or fails on a connection that is down.
Transmit(r, c, m) ==
  /\ cmd' = [cmd EXCEPT ![r] = c]
  /\ Caller(r, IF linked THEN "waiting" ELSE "failed", m)
  /\ Step(r, IF linked THEN "sent" ELSE "none", "none", 0)

Free(r) == pc[r] = "idle" /\ at[r] = "none"
Active(r) == line # <<>> /\ line[1] = r

-----------------------------------------------------------------------------
(* The client.                                                             *)

\* submitCommand: the command is new, or made again under its id and not uncertain.
Submit(r, c) ==
  /\ Free(r) /\ pending[c] # "needs-confirmation"
  /\ made' = made \cup {c}
  /\ IF c \in made THEN UNCHANGED payload
     ELSE \E items \in {{}} \cup {{i} : i \in Inbox} : payload' = [payload EXCEPT ![c] = items]
  /\ cmd' = [cmd EXCEPT ![r] = c] /\ Caller(r, "checked", "submit")
  /\ UNCHANGED <<pending, linked, replays, daemon, table, rows, told, released>>

\* markPending, then the call.
Post(r) ==
  /\ pc[r] = "checked"
  /\ pending' = Marked(cmd[r], "pending")
  /\ Transmit(r, cmd[r], "submit")
  /\ UNCHANGED <<made, payload, linked, replays, line, table, rows, told, released>>

\* The reconnect loop: connect, then resendPending, one command after the other.
Reconnect ==
  /\ ~linked /\ replays = {} /\ \A r \in Call : mode[r] # "replay"
  /\ linked' = TRUE
  /\ replays' = {c \in Command : pending[c] = "pending"}
  /\ UNCHANGED <<pending, made, payload, pc, cmd, mode, daemon, table, rows, told, released>>

Replay(r, c) ==
  /\ c \in replays /\ \A q \in Call : mode[q] # "replay"
  /\ replays' = replays \ {c}
  /\ Free(r) /\ Transmit(r, c, "replay")
  /\ UNCHANGED <<pending, made, payload, linked, line, table, rows, told, released>>

\* checkCommand: the user has one command reconciled.
Check(r, c) ==
  /\ pending[c] # "none"
  /\ Free(r) /\ Transmit(r, c, "check")
  /\ UNCHANGED <<pending, made, payload, linked, replays, line, table, rows, told, released>>

\* Frames not yet received and answers not yet delivered are lost with the connection;
\* what the daemon has begun goes on (neverAbort).
LoseFrames ==
  /\ at' = [r \in Call |-> IF at[r] \in {"sent", "replied"} THEN "none" ELSE at[r]]
  /\ answer' = [r \in Call |-> IF at[r] = "replied" THEN "none" ELSE answer[r]]
  /\ seq' = [r \in Call |-> IF at[r] = "replied" THEN 0 ELSE seq[r]]

\* The calls under way fail; a lost acknowledgement is nobody's concern.
FailCalls ==
  /\ pc' = [r \in Call |-> CASE pc[r] = "waiting" -> "failed"
                              [] pc[r] = "acking" -> "idle"
                              [] OTHER -> pc[r]]
  /\ mode' = [r \in Call |-> IF pc[r] = "acking" THEN "none" ELSE mode[r]]

Drop ==
  /\ linked /\ linked' = FALSE
  /\ FailCalls /\ LoseFrames
  /\ UNCHANGED <<pending, made, payload, replays, cmd, line, table, rows, told, released>>

\* The client dies; its journal is a file.  The next one connects and replays nothing.
ClientRestart ==
  /\ linked' = TRUE /\ replays' = {}
  /\ pc' = [r \in Call |-> "idle"] /\ mode' = [r \in Call |-> "none"]
  /\ LoseFrames
  /\ UNCHANGED <<pending, made, payload, cmd, line, table, rows, told, released>>

\* The request's deadline passes before it is answered; the daemon goes on with it.
TimeOut(r) ==
  /\ pc[r] = "waiting" /\ at[r] # "replied" /\ Caller(r, "failed", mode[r])
  /\ UNCHANGED <<pending, made, payload, linked, replays, cmd, daemon, table, rows, told, released>>

\* dispatch's catch: a replay that fails, or an uncertain answer, needs confirmation.
GiveUp(r) ==
  /\ pc[r] \in {"failed", "uncertain"}
  /\ pending' = IF pc[r] = "uncertain" \/ mode[r] # "submit"
                  THEN Marked(cmd[r], "needs-confirmation") ELSE pending
  /\ Caller(r, "idle", "none")
  /\ UNCHANGED <<made, payload, linked, replays, cmd, daemon, table, rows, told, released>>

\* Mutant: what the daemon throws settles the command.
DefinitiveIfThrown(a) == a \in {"gone", "error"}

\* definitive: what the client takes for a refusal (QUEUED_INPUT_GONE, of these kinds).
Definitive(a) == a = "gone"

\* The answer arrives.  Success and a definitive refusal clear the command.
Deliver(r) ==
  LET c == cmd[r] IN
  /\ at[r] = "replied" /\ Step(r, "none", "none", 0)
  /\ \/ /\ answer[r] = "ok" /\ Caller(r, "acking", mode[r])
        /\ pending' = [pending EXCEPT ![c] = "none"]
        /\ heard' = [heard EXCEPT ![c] = @ \cup {seq[r]}] /\ UNCHANGED refused
     \/ /\ Definitive(answer[r]) /\ Caller(r, "idle", "none")
        /\ pending' = [pending EXCEPT ![c] = "none"]
        /\ refused' = refused \cup {c} /\ UNCHANGED heard
     \/ answer[r] = "uncertain" /\ Caller(r, "uncertain", mode[r]) /\ UNCHANGED <<pending, told>>
     \/ /\ answer[r] \in {"gone", "error"} /\ ~Definitive(answer[r])
        /\ Caller(r, "failed", mode[r]) /\ UNCHANGED <<pending, told>>
  /\ UNCHANGED <<made, payload, linked, replays, cmd, line, table, rows, released>>

\* acknowledge: submit.ack notes that the result was received, or the call is lost.
Acknowledge(r) ==
  /\ pc[r] = "acking" /\ Caller(r, "idle", "none")
  /\ \/ acked' = IF entry[cmd[r]] = "complete" THEN acked \cup {cmd[r]} ELSE acked
     \/ UNCHANGED acked
  /\ UNCHANGED <<pending, made, payload, linked, replays, cmd, daemon, entry, receipt, rows, told, released>>

-----------------------------------------------------------------------------
(* The daemon: _agnes/v1/submit.                                           *)

\* Mutant: a row without a result is no obstacle.
IsNewIfOpen(c) == entry[c] # "complete"

\* CommandJournal.begin: a command is new if it has no row.
IsNew(c) == entry[c] = "none"
Begin(r) ==
  LET c == cmd[r] IN
  /\ at[r] = "sent"
  /\ \/ /\ IsNew(c) /\ entry' = [entry EXCEPT ![c] = "open"]
        /\ Step(r, "begun", "none", 0)
     \/ /\ entry[c] = "open" /\ UNCHANGED entry
        /\ Step(r, IF Withdraws(c) THEN "doubted" ELSE "recovering", "none", 0)
     \/ /\ entry[c] = "complete" /\ UNCHANGED entry
        /\ Reply(r, "ok", receipt[c])
  /\ UNCHANGED <<client, line, receipt, acked, rows, told, released>>

\* runQueued, for a dispatch and for the recovery of a withdrawal: behind the session's
\* other commands, or not at all when the queue is full or closed.
Enqueue(r) ==
  /\ \/ at[r] = "begun" /\ Step(r, "queued", "none", 0) /\ line' = Append(line, r)
     \/ at[r] = "begun" /\ Step(r, "failed", "error", 0) /\ UNCHANGED line
     \/ at[r] = "doubted" /\ Step(r, "recovering", "none", 0) /\ line' = Append(line, r)
     \/ at[r] = "doubted" /\ Reply(r, "error", 0) /\ UNCHANGED line
  /\ UNCHANGED <<client, table, rows, told, released>>

\* Its turn: the command goes to the session's worker, or dispatch throws before that
\* (no such session, references that do not resolve, no worker).
Hand(r) ==
  /\ Active(r) /\ at[r] = "queued"
  /\ \/ Step(r, "working", "none", 0) /\ UNCHANGED line
     \/ Step(r, "failed", "error", 0) /\ line' = Tail(line)
  /\ UNCHANGED <<client, table, rows, told, released>>

\* The row the worker writes under the session's lock: enqueue appends the item, whether
\* or not one of this command was queued before; removeQueuedInput takes the item out,
\* or notes that it is gone.
IsGone(c) == ~(payload[c] \subseteq Inbox)
RowOf(c) ==
  IF ~Withdraws(c) THEN Row("queued", {c}, Inbox \cup {NewSeq})
  ELSE Row(IF IsGone(c) THEN "refused" ELSE "withdrawn", {c}, Inbox \ payload[c])

Work(r) ==
  /\ Len(rows) < MaxRows /\ rows' = Append(rows, RowOf(cmd[r]))
  /\ \/ at[r] = "working" /\ ~IsGone(cmd[r]) /\ Step(r, "applied", "none", NewSeq)
     \/ at[r] = "working" /\ IsGone(cmd[r]) /\ Step(r, "gone", "none", 0)
     \/ at[r] = "orphan" /\ Step(r, "none", "none", 0)
  /\ UNCHANGED <<client, line, table, told, released>>

\* The worker refuses what it cannot take: the session is closed, the inbox too large.
Reject(r) ==
  /\ \/ at[r] = "working" /\ Step(r, "failed", "error", 0) /\ line' = Tail(line)
     \/ at[r] = "orphan" /\ Step(r, "none", "none", 0) /\ UNCHANGED line
  /\ UNCHANGED <<client, table, rows, told, released>>

\* The worker's reply.  enqueueFollowUp reads the row of a steer back, which may fail.
Return(r) ==
  /\ \/ at[r] = "applied" /\ Step(r, "done", "none", seq[r])
     \/ at[r] = "applied" /\ ~Withdraws(cmd[r]) /\ Step(r, "failed", "error", 0)
     \/ at[r] = "gone" /\ Step(r, "failed", "gone", 0)
  /\ line' = Tail(line)
  /\ UNCHANGED <<client, table, rows, told, released>>

\* dispatch threw: abandon deletes the row, so that the id is not burnt.
Abandon(r) ==
  LET c == cmd[r] IN
  /\ at[r] = "failed" /\ Reply(r, answer[r], 0)
  /\ IF entry[c] = "open"
       THEN /\ entry' = [entry EXCEPT ![c] = "none"]
            /\ released' = IF Applied(c) # {} THEN released \cup {c} ELSE released
       ELSE UNCHANGED <<entry, released>>
  /\ UNCHANGED <<client, line, receipt, acked, rows, told>>

\* recover: a row was begun and has no result, so the ledger is asked for one.
Recover(r) ==
  LET c == cmd[r] IN
  /\ at[r] = "recovering" /\ (Withdraws(c) => Active(r))
  /\ \/ \E n \in Traces(c) : (\A m \in Traces(c) : m <= n) /\ Step(r, "done", "none", n)
     \/ Reply(r, "uncertain", 0)   \* nothing found, which includes no open session
     \/ Reply(r, "error", 0)       \* the scan fails
  /\ line' = IF Withdraws(c) THEN Tail(line) ELSE line
  /\ UNCHANGED <<client, table, rows, told, released>>

\* Mutant: what the row holds already is not looked at.
AgreesAlways(r) == TRUE

\* CommandJournal.complete, then the answer: a result is written once, and has to agree.
Agrees(r) == receipt[cmd[r]] = seq[r]
Complete(r) ==
  LET c == cmd[r] IN
  /\ at[r] = "done"
  /\ \/ /\ entry[c] = "open"
        /\ entry' = [entry EXCEPT ![c] = "complete"] /\ receipt' = [receipt EXCEPT ![c] = seq[r]]
        /\ Reply(r, "ok", seq[r])
     \/ /\ entry[c] = "complete" /\ Agrees(r) /\ UNCHANGED <<entry, receipt>>
        /\ Reply(r, "ok", seq[r])
     \/ /\ entry[c] = "none" \/ (entry[c] = "complete" /\ ~Agrees(r))
        /\ Reply(r, "error", 0) /\ UNCHANGED <<entry, receipt>>
  /\ UNCHANGED <<client, line, acked, rows, told, released>>

\* gc: rows whose result was acknowledged a day ago.
Collect(c) ==
  /\ c \in acked /\ acked' = acked \ {c}
  /\ entry' = [entry EXCEPT ![c] = "none"] /\ receipt' = [receipt EXCEPT ![c] = 0]
  /\ released' = released \cup {c}
  /\ UNCHANGED <<client, daemon, rows, told>>

-----------------------------------------------------------------------------
(* The session goes on, and processes crash.                               *)

\* A turn claims a queued item, or somebody else queues one.
InboxMoves ==
  /\ Len(rows) < MaxRows
  /\ \/ \E i \in Inbox : rows' = Append(rows, Row("claimed", {}, Inbox \ {i}))
     \/ rows' = Append(rows, Row("queued", {}, Inbox \cup {NewSeq}))
  /\ UNCHANGED <<client, daemon, table, told, released>>

\* markDead: the worker link closes, and every command in it is rejected.
InWorker == {"working", "applied", "gone"}
WorkerCrash ==
  /\ \E r \in Call : at[r] \in InWorker \cup {"orphan"}
  /\ at' = [r \in Call |-> CASE at[r] \in InWorker -> "failed" [] at[r] = "orphan" -> "none"
                              [] OTHER -> at[r]]
  /\ answer' = [r \in Call |-> IF at[r] \in InWorker THEN "error" ELSE answer[r]]
  /\ seq' = [r \in Call |-> IF at[r] \in InWorker THEN 0 ELSE seq[r]]
  /\ line' = IF line # <<>> /\ at[line[1]] \in InWorker THEN Tail(line) ELSE line
  /\ UNCHANGED <<client, table, rows, told, released>>

\* The daemon dies and starts again.  Its journal is a table; a command that reached the
\* worker may still be carried out before that worker is gone.
DaemonCrash ==
  /\ linked' = FALSE /\ FailCalls
  /\ at' = [r \in Call |-> IF at[r] \in {"working", "orphan"} THEN "orphan" ELSE "none"]
  /\ answer' = [r \in Call |-> "none"] /\ seq' = [r \in Call |-> 0]
  /\ line' = <<>>
  /\ UNCHANGED <<pending, made, payload, replays, cmd, table, rows, told, released>>

-----------------------------------------------------------------------------

Init ==
  /\ pending = [c \in Command |-> "none"] /\ made = {} /\ payload = [c \in Command |-> {}]
  /\ linked = TRUE /\ replays = {}
  /\ pc = [r \in Call |-> "idle"] /\ mode = [r \in Call |-> "none"]
  /\ cmd \in [Call -> Command]
  /\ at = [r \in Call |-> "none"] /\ answer = [r \in Call |-> "none"] /\ seq = [r \in Call |-> 0]
  /\ line = <<>>
  /\ entry = [c \in Command |-> "none"] /\ receipt = [c \in Command |-> 0] /\ acked = {}
  /\ rows = <<>>
  /\ heard = [c \in Command |-> {}] /\ refused = {} /\ released = {}

Next ==
  \/ Reconnect \/ Drop \/ ClientRestart \/ WorkerCrash \/ DaemonCrash \/ InboxMoves
  \/ \E c \in Command : Collect(c)
  \/ \E r \in Call :
       \/ \E c \in Command : Submit(r, c) \/ Replay(r, c) \/ Check(r, c)
       \/ Post(r) \/ TimeOut(r) \/ GiveUp(r) \/ Deliver(r) \/ Acknowledge(r)
       \/ Begin(r) \/ Enqueue(r) \/ Hand(r) \/ Work(r) \/ Reject(r) \/ Return(r)
       \/ Abandon(r) \/ Recover(r) \/ Complete(r)

Spec == Init /\ [][Next]_vars

-----------------------------------------------------------------------------
(* Properties.                                                             *)

\* Every variable keeps its type, and a row of the journal has a result once it is complete.
TypeOK ==
  /\ pending \in [Command -> {"none", "pending", "needs-confirmation"}]
  /\ made \subseteq Command /\ payload \in [Command -> SUBSET Nat] /\ linked \in BOOLEAN /\ replays \subseteq Command
  /\ pc \in [Call -> {"idle", "checked", "waiting", "failed", "uncertain", "acking"}]
  /\ cmd \in [Call -> Command] /\ mode \in [Call -> {"none", "submit", "replay", "check"}]
  /\ at \in [Call -> {"none", "sent", "begun", "doubted", "queued", "working", "applied", "gone",
                       "orphan", "failed", "recovering", "done", "replied"}]
  /\ answer \in [Call -> {"none", "ok", "gone", "uncertain", "error"}] /\ seq \in [Call -> Nat]
  /\ line \in Seq(Call)
  /\ entry \in [Command -> {"none", "open", "complete"}] /\ receipt \in [Command -> Nat]
  /\ \A c \in Command : receipt[c] # 0 <=> entry[c] = "complete"
  /\ acked \subseteq Command
  /\ rows \in Seq([kind : RowKind, by : SUBSET Command, inbox : SUBSET Nat])
  /\ heard \in [Command -> SUBSET Nat] /\ refused \subseteq Command /\ released \subseteq Command

\* A command is carried out once, however often it is sent and whatever crashes, unless
\* its row in command_journal was deleted after it had been ("exactly-once admission
\* journal", command-journal.ts:51; README, section 6).
AppliedOnce == \A c \in Command \ released : \A m, n \in Applied(c) : m = n

\* All who are told that a command was carried out are told the truth, also when a recovery
\* and a late dispatch both come to complete it, and the same row, unless its row in
\* command_journal was deleted in between: the journal then knows nothing of the first answer.
AnswersAgree ==
  \A c \in Command :
    /\ heard[c] # {} => Applied(c) # {}
    /\ c \notin released => \A m, n \in heard[c] : m = n

\* The client forgets a command only when it knows what came of it ("Persisted
\* uncertainty", submit.ts:241), with one exception: dispatch threw after the command had
\* been applied, abandon deleted its row (agnes.ts:1900-1905), and when it was sent again
\* its effect was there already and it was refused. So a command that was carried out
\* without anyone being told is in the client's journal or was refused after its row was
\* deleted, no other refused command was carried out, and a row is acknowledged, and then
\* collected, only after the client was told its result.
NothingIsForgotten ==
  \A c \in Command :
    /\ Applied(c) # {} /\ heard[c] = {} => pending[c] # "none" \/ c \in refused \cap released
    /\ Applied(c) # {} /\ c \in refused => c \in released
    /\ c \in acked => heard[c] # {}

\* A row that a caller is told shows the effect: it withdrew the item, or the inbox it
\* leaves holds the item that the command queued, also when recover found another row
\* than the one that was written for the command.
AnswersShowEffect == \A c \in Command : heard[c] \subseteq Traces(c)

\* Through lost and repeated calls, recoveries and crashes a client has what Mailbox
\* promises of each command (submitCommand, _agnes/v1/submit, CommandJournal).
Box == INSTANCE Mailbox WITH kept <- {c \in Command : pending[c] # "none"},
                             carried <- [c \in Command |-> Applied(c)]
BoxSpec == Box!Spec
=============================================================================
