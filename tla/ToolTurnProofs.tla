---------------------------- MODULE ToolTurnProofs ---------------------------
(***************************************************************************)
(* What holds of ToolTurn for every batch of calls: its states are well    *)
(* typed, each call is answered and settled once, an approval is spent by  *)
(* the intent of its call and by nothing else, no intent follows a         *)
(* recorded Stop, no attempt starts of a call that is answered, and turns  *)
(* that nothing interrupts end settled and pass over nobody's answer.      *)
(***************************************************************************)
EXTENDS ToolTurn, TLAPS

USE DEF past

-----------------------------------------------------------------------------
(* The states of a call.                                                   *)

\* What the proofs use of the records that op.state keeps of a call.
LEMMA CallValues ==
  /\ NoCall \in CallState /\ NoCall.status = "none"
  /\ \A s \in {"none", "planned", "approved", "completed"} :
       State(s) \in CallState /\ State(s).status = s
  /\ \A a \in Attempt, s \in {"none", "not_sent"} :
       /\ Dispatch("dispatch_pending", a, s) \in CallState
       /\ Dispatch("dispatch_pending", a, s).status = "dispatch_pending"
       /\ Dispatch("dispatch_pending", a, s).attempt = a
       /\ Dispatch("dispatch_pending", a, s).sent = s
  /\ \A a \in Attempt :
       /\ Dispatch("dispatched", a, "may_have_sent") \in CallState
       /\ Dispatch("dispatched", a, "may_have_sent").status = "dispatched"
       /\ Dispatch("dispatched", a, "may_have_sent").attempt = a
       /\ Dispatch("dispatched", a, "may_have_sent").sent = "may_have_sent"
  /\ \A x \in CallState :
       /\ x.status \in {"none", "planned", "approved", "completed", "dispatch_pending", "dispatched"}
       /\ x.status \in {"dispatch_pending", "dispatched"} => x.attempt \in Attempt
       /\ x.status = "dispatch_pending" => x.sent \in {"none", "not_sent"}
       /\ x.status = "none" => x = NoCall
<1>1. NoCall = State("none")
  BY DEF NoCall, State
<1>2. \A s \in {"none", "planned", "approved", "completed"} :
        State(s) \in CallState /\ State(s).status = s
  BY DEF NoCall, State, CallState
<1>3. \A a \in Attempt, s \in {"none", "not_sent"} :
        /\ Dispatch("dispatch_pending", a, s) \in CallState
        /\ Dispatch("dispatch_pending", a, s).status = "dispatch_pending"
        /\ Dispatch("dispatch_pending", a, s).attempt = a
        /\ Dispatch("dispatch_pending", a, s).sent = s
  BY DEF Dispatch, CallState
<1>4. ASSUME NEW a \in Attempt
      PROVE  /\ Dispatch("dispatched", a, "may_have_sent") \in CallState
             /\ Dispatch("dispatched", a, "may_have_sent").status = "dispatched"
             /\ Dispatch("dispatched", a, "may_have_sent").attempt = a
             /\ Dispatch("dispatched", a, "may_have_sent").sent = "may_have_sent"
  <2>1. Dispatch("dispatched", a, "may_have_sent")
          \in {Dispatch("dispatched", b, "may_have_sent") : b \in Attempt}
    OBVIOUS
  <2>2. QED
    BY <2>1 DEF Dispatch, CallState
<1>5. ASSUME NEW x \in CallState
      PROVE  /\ x.status \in {"none", "planned", "approved", "completed",
                              "dispatch_pending", "dispatched"}
             /\ x.status \in {"dispatch_pending", "dispatched"} => x.attempt \in Attempt
             /\ x.status = "dispatch_pending" => x.sent \in {"none", "not_sent"}
             /\ x.status = "none" => x = NoCall
  <2>1. CASE \E s \in {"none", "planned", "approved", "completed"} : x = State(s)
    BY <1>1, <1>2, <2>1 DEF NoCall, State
  <2>2. CASE \E a \in Attempt, s \in {"none", "not_sent"} : x = Dispatch("dispatch_pending", a, s)
    BY <2>2 DEF Dispatch
  <2>3. CASE \E a \in Attempt : x = Dispatch("dispatched", a, "may_have_sent")
    BY <2>3 DEF Dispatch
  <2>4. QED
    BY <2>1, <2>2, <2>3 DEF CallState
<1>6. QED
  BY <1>1, <1>2, <1>3, <1>4, <1>5

-----------------------------------------------------------------------------
(* The invariant, call by call.                                            *)

\* Between its intent and its settlement.
Begun(c) == call[c].status \in {"dispatch_pending", "dispatched"}

\* Where a call of a running batch is agrees with what the ledger says of it.
Placed(c) ==
  /\ call[c].status # "none" => phase = "tools"
  /\ proc = "batch" =>
       /\ pc[c] = "idle" => PreDispatch(c) \/ Begun(c)
       /\ pc[c] \in {"gate", "asked", "ready", "committing", "cancelling", "withdrawing"}
            => PreDispatch(c)
       /\ pc[c] \in {"loop", "running", "unsent", "record", "settle", "hook", "asking"} => Begun(c)
       /\ pc[c] = "unsent" => call[c].status = "dispatch_pending"
       /\ c \in skipped => pc[c] = "done" /\ PreDispatch(c)

\* Nothing is told or done of a call that has no intent yet.
Untouched(c) ==
  PreDispatch(c) => answer[c] = "none" /\ outcome[c] = "none" /\ c \notin pending

\* An effect is open from its intent on, and no longer than its call.
Owed(c) ==
  /\ Begun(c) => c \in pending
  /\ c \in pending => answer[c] = "none" /\ outcome[c] = "none"

\* An approval is asked of guarded calls and spent by their intents.
Gated(c) ==
  /\ decision[c] # "none" => c \in Guarded
  /\ c \in Guarded => (HasIntent(c) <=> decision[c] = "spent")

Single(c) == answer[c] # "twice" /\ outcome[c] # "twice"

\* What the recovery has not looked at is open.
Listed(c) == c \in todo => proc = "recovering" /\ c \in pending

\* Its attempt has not been made; one made before did nothing, or was a read.
Ready(c) ==
  /\ call[c].attempt \notin live[c] \cup acted[c]
  /\ c \notin SafeRead => live[c] = {} /\ acted[c] = {}

\* What an attempt may have done by the time the ledger or the batch says so.
Sent(c) ==
  Begun(c) =>
    /\ call[c].attempt = 1 => live[c] \subseteq {1} /\ acted[c] \subseteq {1}
    /\ call[c].attempt = 1 /\ call[c].sent = "not_sent" => live[c] = {} /\ acted[c] = {}
    /\ proc = "resting" \/ (proc = "recovering" /\ c \notin todo) \/ (proc = "batch" /\ pc[c] = "idle")
         => Ready(c) /\ call[c].attempt = 2
    /\ proc = "batch" =>
         /\ pc[c] \in {"loop", "unsent"} => Ready(c)
         /\ pc[c] \in {"loop", "running"} /\ call[c].attempt = 1 => call[c].sent # "not_sent"
         /\ pc[c] \in {"running", "record", "settle", "hook", "asking"} /\ c \notin SafeRead
              => live[c] \subseteq {call[c].attempt} /\ acted[c] \subseteq {call[c].attempt}
         /\ pc[c] \in {"record", "settle"} /\ seen[c] \in {"result", "threw"}
              => call[c].attempt \notin live[c]

\* What is told of a call leaves no attempt that could make it untrue.
Truthful(c) ==
  /\ ~HasIntent(c) => live[c] = {} /\ acted[c] = {}
  /\ answer[c] = "not_run" => ~HasIntent(c)
  /\ answer[c] \in {"stopped", "recalled"} => live[c] = {}
  /\ answer[c] \in {"no_effect", "result"} /\ c \notin SafeRead => live[c] = {}
  /\ live[c] \cap acted[c] = {}
  /\ live[c] # {} /\ c \notin SafeRead => acted[c] = {} /\ \E a \in Attempt : live[c] = {a}
  /\ call[c].status = "completed" => answer[c] # "none"

CallInv(c) ==
  /\ Placed(c) /\ Untouched(c) /\ Owed(c) /\ Gated(c) /\ Single(c) /\ Listed(c)
  /\ Sent(c) /\ Truthful(c)

Inv == TypeOK /\ \A c \in Call : CallInv(c)

\* A step that does not concern a call.
Same(c) ==
  /\ call'[c] = call[c] /\ pc'[c] = pc[c]
  /\ answer'[c] = answer[c] /\ outcome'[c] = outcome[c] /\ decision'[c] = decision[c]
  /\ c \in pending' <=> c \in pending
  /\ c \in skipped' <=> c \in skipped
  /\ c \in todo' <=> c \in todo
  /\ seen'[c] = seen[c] /\ live'[c] = live[c] /\ acted'[c] = acted[c]
  /\ proc' = proc /\ phase' = phase

LEMMA SameKeeps ==
  ASSUME NEW c \in Call, CallInv(c), Same(c)
  PROVE  CallInv(c)'
BY DEF CallInv, Same, Placed, Untouched, Owed, Gated, Single, Listed, Sent, Ready, Truthful,
       Begun, PreDispatch, HasIntent

\* A step of one call keeps the types and what is known of it, and does not
\* concern the others.
Kept(c) == TypeOK' /\ CallInv(c)' /\ \A d \in Call \ {c} : Same(d)

-----------------------------------------------------------------------------
(* The steps of a call.                                                    *)

\* A call is refused: a result, and no effect.
LEMMA RefuseKept ==
  ASSUME TypeOK, NEW c \in Call, CallInv(c), PreDispatch(c), proc = "batch",
         Refuse(c, "not_run"), Consume(c) \/ UNCHANGED decision,
         UNCHANGED <<question, failed, seen, parked, skipped, world>>, StillBatch,
         pc[c] \notin {"idle", "done"}
  PROVE  Kept(c)
<1> USE CallValues DEF Kept, TypeOK, CallInv, Placed, Untouched, Owed, Gated, Single, Listed, Sent, Ready, Truthful, Same,
                       Begun, PreDispatch, HasIntent, StillBatch, At, Goto, turn, rows, gates, world
<1>1. /\ call'[c] = State("completed") /\ pc'[c] = "done" /\ answer'[c] = "not_run"
      /\ State("completed").status = "completed" /\ State("completed") \in CallState
  BY DEF Refuse, Put, Say, First
<1>2. /\ decision' \in [Call -> Decision]
      /\ decision'[c] \in {"none", "open", "closed", "spent", decision[c]}
      /\ decision'[c] # "none" => decision[c] # "none"
      /\ decision'[c] = "spent" <=> decision[c] = "spent"
      /\ \A d \in Call \ {c} : decision'[d] = decision[d]
  BY DEF Consume, Decision
<1>3. TypeOK' /\ \A d \in Call \ {c} : Same(d)
  <2>1. /\ call' \in [Call -> CallState] /\ answer' \in [Call -> Answer] /\ pc' \in [Call -> Pc]
    BY <1>1 DEF Refuse, Put, Say, First, Pc, Answer
  <2>2. \A d \in Call \ {c} : call'[d] = call[d] /\ answer'[d] = answer[d] /\ pc'[d] = pc[d]
    BY DEF Refuse, Put, Say
  <2>3. UNCHANGED <<pending, outcome>>
    BY DEF Refuse
  <2>4. QED
    BY <1>2, <2>1, <2>2, <2>3
<1>4. UNCHANGED <<phase, proc, pending, outcome, todo, skipped, seen, live, acted>>
  BY DEF Refuse
<1>5. c \notin pending /\ c \notin skipped /\ c \notin todo /\ outcome[c] = "none"
  OBVIOUS
<1>6. Placed(c)' /\ Untouched(c)' /\ Owed(c)'
  BY <1>1, <1>4, <1>5
<1>7. Gated(c)'
  BY <1>1, <1>2, <1>4
<1>8. Single(c)' /\ Listed(c)'
  BY <1>1, <1>4, <1>5
<1>9. Sent(c)' /\ Truthful(c)'
  BY <1>1, <1>4
<1>10. QED
  BY <1>3, <1>6, <1>7, <1>8, <1>9

\* A call is settled as without effect: no attempt of it is under way that is not a
\* read.
LEMMA NoEffectKept ==
  ASSUME TypeOK, NEW c \in Call, CallInv(c), Begun(c), proc = "batch",
         Finish(c, "no_effect", "known"), live' \in [Call -> SUBSET Attempt],
         live'[c] \subseteq live[c], c \notin SafeRead => live'[c] = {},
         \A d \in Call \ {c} : live'[d] = live[d],
         UNCHANGED <<gates, failed, parked, skipped, acted>>, StillBatch
  PROVE  Kept(c)
<1> USE CallValues DEF Kept, TypeOK, CallInv, Placed, Untouched, Owed, Gated, Single, Listed, Sent, Ready, Truthful, Same,
                       Begun, PreDispatch, HasIntent, StillBatch, At, Goto, turn, rows, gates, world
<1>1. /\ call'[c] = State("completed") /\ pc'[c] = "done" /\ answer'[c] = "no_effect"
      /\ State("completed").status = "completed" /\ State("completed") \in CallState
      /\ outcome'[c] = "known" /\ pending' = pending \ {c}
  BY DEF Finish, Settle, Put, Say, First
<1>2. TypeOK' /\ \A d \in Call \ {c} : Same(d)
  <2>1. /\ call' \in [Call -> CallState] /\ answer' \in [Call -> Answer] /\ pc' \in [Call -> Pc]
        /\ outcome' \in [Call -> Outcome] /\ pending' \subseteq Call
        /\ seen' \in [Call -> {"none", "result", "threw", "timeout", "cut"}]
    BY <1>1 DEF Finish, Settle, Put, Say, First, Pc, Answer, Outcome
  <2>2. \A d \in Call \ {c} :
          /\ call'[d] = call[d] /\ answer'[d] = answer[d] /\ pc'[d] = pc[d]
          /\ outcome'[d] = outcome[d] /\ seen'[d] = seen[d]
    BY DEF Finish, Settle, Put, Say
  <2>3. QED
    BY <1>1, <2>1, <2>2
<1>3. UNCHANGED <<phase, proc, decision, todo, skipped, acted>>
  OBVIOUS
<1>4. Placed(c)' /\ Untouched(c)' /\ Owed(c)' /\ Gated(c)' /\ Single(c)' /\ Listed(c)'
  BY <1>1, <1>3
<1>5. Sent(c)' /\ Truthful(c)'
  BY <1>1, <1>3
<1>6. QED
  BY <1>2, <1>4, <1>5

\* The refusals before an intent.
LEMMA RefusalsKept ==
  ASSUME TypeOK, NEW c \in Call, CallInv(c),
         Deny(c) \/ RefuseCancelled(c) \/ Rejected(c) \/ HostUnavailable(c)
  PROVE  Kept(c)
<1>1. /\ proc = "batch" /\ pc[c] \in {"gate", "asked", "ready", "cancelling", "withdrawing"}
      /\ Refuse(c, "not_run") /\ (Consume(c) \/ UNCHANGED decision)
  BY DEF Deny, RefuseCancelled, Rejected, HostUnavailable, At, gates
<1>2. UNCHANGED <<question, failed, seen, parked, skipped, world>> /\ StillBatch
  BY DEF Deny, RefuseCancelled, Rejected, HostUnavailable, gates
<1>3. PreDispatch(c)
  BY <1>1 DEF CallInv, Placed
<1>4. QED
  BY <1>1, <1>2, <1>3, RefuseKept

\* The settlements of a call as without effect.
LEMMA WithoutEffectKept ==
  ASSUME TypeOK, NEW c \in Call, CallInv(c),
         BeginUnavailable(c) \/ LoopCancelled(c) \/ RejectBeforeEffect(c) \/ GiveUpUnsent(c)
  PROVE  Kept(c)
<1> live \in [Call -> SUBSET Attempt]
  BY DEF TypeOK
<1>1. /\ proc = "batch" /\ Finish(c, "no_effect", "known")
      /\ UNCHANGED <<gates, failed, parked, skipped, acted>> /\ StillBatch
  BY DEF BeginUnavailable, LoopCancelled, RejectBeforeEffect, GiveUpUnsent, At, Turn, world
<1>2. CASE RejectBeforeEffect(c)
  <2>1. pc[c] = "running" /\ Over(c)
    BY <1>2 DEF RejectBeforeEffect, At
  <2>2. /\ live' \in [Call -> SUBSET Attempt] /\ live'[c] = live[c] \ {call[c].attempt}
        /\ \A d \in Call \ {c} : live'[d] = live[d]
    BY <2>1 DEF Over
  <2>3. Begun(c) /\ (c \notin SafeRead => live[c] \subseteq {call[c].attempt})
    BY <1>1, <2>1 DEF CallInv, Placed, Sent
  <2>4. QED
    BY <1>1, <2>2, <2>3, NoEffectKept
<1>3. CASE BeginUnavailable(c) \/ LoopCancelled(c) \/ GiveUpUnsent(c)
  <2>1. UNCHANGED live
    BY <1>3 DEF BeginUnavailable, LoopCancelled, GiveUpUnsent, world
  <2>2. \/ pc[c] \in {"loop", "unsent"}
        \/ pc[c] = "idle" /\ ~PreDispatch(c)
    BY <1>3 DEF BeginUnavailable, LoopCancelled, GiveUpUnsent, At, Turn
  <2>3. Begun(c) /\ (c \notin SafeRead => live[c] = {})
    BY <1>1, <2>2 DEF CallInv, Placed, Sent, Ready
  <2>4. QED
    BY <1>1, <2>1, <2>3, NoEffectKept
<1>4. QED
  BY <1>2, <1>3

LEMMA SchedulingKept ==
  ASSUME TypeOK, NEW c \in Call, CallInv(c),
         Skip(c) \/ SkipParked(c) \/ Begin(c) \/ BeginUnavailable(c)
  PROVE  Kept(c)
<1> USE CallValues DEF Kept, TypeOK, CallInv, Placed, Untouched, Owed, Gated, Single, Listed, Sent, Ready, Truthful, Same,
                       Begun, PreDispatch, HasIntent, StillBatch, At, Goto, turn, rows, gates, world
<1>1. CASE Skip(c)
  BY <1>1 DEF Skip, Turn, Pc
<1>2. CASE SkipParked(c)
  BY <1>2 DEF SkipParked, Turn, Pc
<1>3. CASE Begin(c)
  BY <1>3 DEF Begin, Turn, Pc
<1>4. CASE BeginUnavailable(c)
  BY <1>4, WithoutEffectKept
<1>5. QED
  BY <1>1, <1>2, <1>3, <1>4

LEMMA AdmissionKept ==
  ASSUME TypeOK, NEW c \in Call, CallInv(c),
         Deny(c) \/ CancelEarly(c) \/ RefuseCancelled(c) \/ Ask(c) \/ Approved(c)
         \/ Rejected(c) \/ Park(c) \/ HostUnavailable(c) \/ Prepare(c) \/ Intent(c)
         \/ Throw(c)
  PROVE  Kept(c)
<1> USE CallValues DEF Kept, TypeOK, CallInv, Placed, Untouched, Owed, Gated, Single, Listed, Sent, Ready, Truthful, Same,
                       Begun, PreDispatch, HasIntent, StillBatch, At, Goto, turn, rows, gates, world
<1>1. CASE Deny(c)
  BY <1>1, RefusalsKept
<1>2. CASE CancelEarly(c)
  BY <1>2 DEF CancelEarly, Put, Pc
<1>3. CASE RefuseCancelled(c)
  BY <1>3, RefusalsKept
<1>4. CASE Ask(c)
  BY <1>4 DEF Ask, Decision, Pc
<1>5. CASE Approved(c)
  BY <1>5 DEF Approved, Pc
<1>6. CASE Rejected(c)
  BY <1>6, RefusalsKept
<1>7. CASE Park(c)
  BY <1>7 DEF Park, Pc
<1>8. CASE HostUnavailable(c)
  BY <1>8, RefusalsKept
<1>9. CASE Prepare(c)
  BY <1>9 DEF Prepare, Pc
<1>10. CASE Intent(c)
  <2>1. TypeOK'
    BY <1>10 DEF Intent, MayConsume, Attempt, Put, Decision, Pc
  <2>2. CallInv(c)'
    <3>1. /\ Begun(c)' /\ call'[c].attempt = 1 /\ call'[c].sent # "not_sent" /\ pc'[c] = "loop"
          /\ pending' = pending \cup {c} /\ decision'[c] = (IF c \in Guarded THEN "spent" ELSE decision[c])
          /\ UNCHANGED <<phase, proc, todo, answer, outcome, skipped, seen, live, acted>>
      BY <1>10 DEF Intent, Attempt, Put
    <3>2. PreDispatch(c) /\ phase = "tools" /\ pc[c] = "committing" /\ proc = "batch"
      BY <1>10 DEF Intent
    <3>3. Placed(c)' /\ Untouched(c)' /\ Owed(c)' /\ Single(c)' /\ Listed(c)' /\ Truthful(c)'
      BY <3>1, <3>2
    <3>4. Gated(c)'
      BY <3>1, <3>2
    <3>5. Sent(c)'
      BY <3>1, <3>2
    <3>6. QED
      BY <3>3, <3>4, <3>5
  <2>3. \A d \in Call \ {c} : Same(d)
    BY <1>10 DEF Intent, MayConsume, Attempt, Put, Decision, Pc
  <2>4. QED
    BY <2>1, <2>2, <2>3
<1>11. CASE Throw(c)
  BY <1>11 DEF Throw, Throws, Pc
<1>12. QED
  BY <1>1, <1>2, <1>3, <1>4, <1>5, <1>6, <1>7, <1>8, <1>9, <1>10, <1>11

LEMMA DispatchKept ==
  ASSUME TypeOK, NEW c \in Call, CallInv(c),
         LoopCancelled(c) \/ Invoke(c) \/ Respond(c) \/ BodyThrows(c) \/ TimeOut(c)
         \/ Cut(c) \/ RejectBeforeEffect(c) \/ Unsent(c) \/ GiveUpUnsent(c) \/ Retry(c)
         \/ HostRecord(c)
  PROVE  Kept(c)
<1> USE CallValues DEF Kept, TypeOK, CallInv, Placed, Untouched, Owed, Gated, Single, Listed, Sent, Ready, Truthful, Same,
                       Begun, PreDispatch, HasIntent, StillBatch, At, Goto, turn, rows, gates, world
<1>1. CASE LoopCancelled(c)
  BY <1>1, WithoutEffectKept
<1>2. CASE Invoke(c)
  <2>1. pc[c] = "loop" /\ proc = "batch" /\ Begun(c) /\ call[c].attempt \in Attempt /\ Ready(c)
    BY <1>2 DEF Invoke
  <2>2. /\ call'[c].status \in {"dispatch_pending", "dispatched"} /\ pc'[c] = "running"
        /\ call'[c].attempt = call[c].attempt
        /\ call'[c].attempt = 1 => call'[c].sent # "not_sent"
        /\ live'[c] = live[c] \cup {call[c].attempt} /\ call' \in [Call -> CallState]
    BY <1>2, <2>1 DEF Invoke, Put, Attempt
  <2>3. TypeOK' /\ \A d \in Call \ {c} : Same(d)
    BY <1>2, <2>1, <2>2 DEF Invoke, Put, Pc
  <2>4. UNCHANGED <<phase, proc, pending, answer, outcome, decision, todo, skipped, seen, acted>>
    BY <1>2 DEF Invoke
  <2>5. /\ Placed(c)' /\ Untouched(c)' /\ Owed(c)' /\ Gated(c)' /\ Single(c)' /\ Listed(c)'
    BY <2>1, <2>2, <2>4
  <2>6. Sent(c)' /\ Truthful(c)'
    BY <2>1, <2>2, <2>4 DEF Attempt
  <2>7. QED
    BY <2>3, <2>5, <2>6
<1>3. CASE Respond(c)
  BY <1>3 DEF Respond, Observe, Over, Pc
<1>4. CASE BodyThrows(c)
  BY <1>4 DEF BodyThrows, Observe, Over, Pc
<1>5. CASE TimeOut(c)
  BY <1>5 DEF TimeOut, Observe, Pc
<1>6. CASE Cut(c)
  BY <1>6 DEF Cut, Observe, Pc
<1>7. CASE RejectBeforeEffect(c)
  BY <1>7, WithoutEffectKept
<1>8. CASE Unsent(c)
  <2>1. pc[c] = "running" /\ proc = "batch" /\ Begun(c) /\ call[c].attempt \in Attempt \ acted[c]
    BY <1>8 DEF Unsent
  <2>2. /\ call'[c] = Dispatch("dispatch_pending", call[c].attempt, "not_sent")
        /\ pc'[c] = "unsent" /\ live'[c] = live[c] \ {call[c].attempt}
    BY <1>8, <2>1 DEF Unsent, Over, Put
  <2>3. /\ call'[c].status = "dispatch_pending" /\ call'[c].sent = "not_sent"
        /\ call'[c].attempt = call[c].attempt /\ call'[c] \in CallState
    BY <2>1, <2>2
  <2>4. TypeOK' /\ \A d \in Call \ {c} : Same(d)
    BY <1>8, <2>1, <2>3 DEF Unsent, Over, Put, Pc
  <2>5. UNCHANGED <<phase, proc, pending, answer, outcome, decision, todo, skipped, seen, acted>>
    BY <1>8 DEF Unsent
  <2>6. /\ Placed(c)' /\ Untouched(c)' /\ Owed(c)' /\ Gated(c)' /\ Single(c)' /\ Listed(c)'
    BY <2>1, <2>2, <2>3, <2>5
  <2>7. Sent(c)' /\ Truthful(c)'
    BY <2>1, <2>2, <2>3, <2>5 DEF Attempt
  <2>8. QED
    BY <2>4, <2>6, <2>7
<1>9. CASE GiveUpUnsent(c)
  BY <1>9, WithoutEffectKept
<1>10. CASE Retry(c)
  <2>1. /\ pc[c] = "unsent" /\ proc = "batch" /\ call[c].attempt = 1
        /\ call[c].status = "dispatch_pending" /\ call[c].sent \in {"none", "not_sent"}
    BY <1>10 DEF Retry
  <2>2. /\ call'[c] = Dispatch("dispatch_pending", 2, call[c].sent) /\ pc'[c] = "loop"
        /\ 2 \in Attempt
    BY <1>10 DEF Retry, Put, Attempt
  <2>3. call'[c].status = "dispatch_pending" /\ call'[c].attempt = 2 /\ call'[c] \in CallState
    BY <2>1, <2>2
  <2>4. TypeOK' /\ \A d \in Call \ {c} : Same(d)
    BY <1>10, <2>3 DEF Retry, Put, Pc
  <2>5. UNCHANGED <<phase, proc, pending, answer, outcome, decision, todo, skipped, seen, live, acted>>
    BY <1>10 DEF Retry
  <2>6. /\ Placed(c)' /\ Untouched(c)' /\ Owed(c)' /\ Gated(c)' /\ Single(c)' /\ Listed(c)'
    BY <2>1, <2>2, <2>3, <2>5
  <2>7. Sent(c)' /\ Truthful(c)'
    BY <2>1, <2>2, <2>3, <2>5
  <2>8. QED
    BY <2>4, <2>6, <2>7
<1>11. CASE HostRecord(c)
  <2>1. pc[c] = "record" /\ proc = "batch" /\ Begun(c) /\ call[c].attempt \in Attempt
    BY <1>11 DEF HostRecord
  <2>2. /\ call'[c] = Dispatch("dispatched", call[c].attempt, "may_have_sent") /\ pc'[c] = "settle"
    BY <1>11 DEF HostRecord, Put
  <2>3. /\ call'[c].status = "dispatched" /\ call'[c].sent = "may_have_sent"
        /\ call'[c].attempt = call[c].attempt /\ call'[c] \in CallState
    BY <2>1, <2>2
  <2>4. TypeOK' /\ \A d \in Call \ {c} : Same(d)
    BY <1>11, <2>3 DEF HostRecord, Put, Pc
  <2>5. UNCHANGED <<phase, proc, pending, answer, outcome, decision, todo, skipped, seen, live, acted>>
    BY <1>11 DEF HostRecord
  <2>6. /\ Placed(c)' /\ Untouched(c)' /\ Owed(c)' /\ Gated(c)' /\ Single(c)' /\ Listed(c)'
    BY <2>1, <2>2, <2>3, <2>5
  <2>7. Sent(c)' /\ Truthful(c)'
    BY <2>1, <2>2, <2>3, <2>5
  <2>8. QED
    BY <2>4, <2>6, <2>7
<1>12. QED
  BY <1>1, <1>2, <1>3, <1>4, <1>5, <1>6, <1>7, <1>8, <1>9, <1>10, <1>11

LEMMA SettlementKept ==
  ASSUME TypeOK, NEW c \in Call, CallInv(c),
         SettleResult(c) \/ SettleStopped(c) \/ AskHook(c) \/ HookThrows(c) \/ AskOutcome(c)
         \/ SettleUnknown(c)
  PROVE  Kept(c)
<1> USE CallValues DEF Kept, TypeOK, CallInv, Placed, Untouched, Owed, Gated, Single, Listed, Sent, Ready, Truthful, Same,
                       Begun, PreDispatch, HasIntent, StillBatch, At, Goto, turn, rows, gates, world
<1>1. CASE SettleResult(c)
  <2>1. PICK code \in {"result", "cut"} :
          /\ code = "result" => seen[c] = "result" \/ (seen[c] = "threw" /\ c \notin Mutation)
          /\ Finish(c, code, "known")
    BY <1>1 DEF SettleResult
  <2>2. /\ pc[c] = "settle" /\ proc = "batch"
        /\ UNCHANGED <<gates, failed, parked, skipped, world>> /\ StillBatch
    BY <1>1 DEF SettleResult
  <2>3. TypeOK'
    BY <2>1, <2>2 DEF Finish, Settle, Outcome, Say, First, Put, Pc, Answer
  <2>4. CallInv(c)'
    BY <2>1, <2>2 DEF Finish, Settle, Say, First, Put
  <2>5. \A d \in Call \ {c} : Same(d)
    BY <2>1, <2>2 DEF Finish, Settle, Say, Put
  <2>6. QED
    BY <2>3, <2>4, <2>5
<1>2. CASE SettleStopped(c)
  <2>1. TypeOK'
    BY <1>2, CallsAssumption DEF SettleStopped, StoppedByRecord, Finish, Settle, Outcome, Say, First, Put, Pc, Answer
  <2>2. CallInv(c)'
    BY <1>2, CallsAssumption DEF SettleStopped, StoppedByRecord, Finish, Settle, Outcome, Say, First, Put, Pc, Answer
  <2>3. \A d \in Call \ {c} : Same(d)
    BY <1>2, CallsAssumption DEF SettleStopped, StoppedByRecord, Finish, Settle, Outcome, Say, First, Put, Pc, Answer
  <2>4. QED
    BY <2>1, <2>2, <2>3
<1>3. CASE AskOutcome(c)
  BY <1>3 DEF AskOutcome, Unseen, Question, Pc
<1>4. CASE SettleUnknown(c)
  <2>1. Begun(c) /\ At(c, pc[c]) /\ Finish(c, "unknown", "unknown")
    BY <1>4 DEF SettleUnknown, Unseen
  <2>2. /\ parked' \in BOOLEAN /\ question' \in [Call -> Question]
        /\ UNCHANGED <<decision, failed, skipped, world>> /\ StillBatch
    BY <1>4 DEF SettleUnknown, Question
  <2>3. TypeOK'
    BY <2>1, <2>2 DEF Finish, Settle, Outcome, Say, First, Put, Pc, Answer
  <2>4. CallInv(c)'
    BY <2>1, <2>2 DEF Finish, Settle, Outcome, Say, First, Put, Pc, Answer
  <2>5. \A d \in Call \ {c} : Same(d)
    BY <2>1, <2>2 DEF Finish, Settle, Outcome, Say, First, Put, Pc, Answer
  <2>6. QED
    BY <2>3, <2>4, <2>5
<1>5. CASE AskHook(c)
  BY <1>5 DEF AskHook, Unseen, Pc
<1>6. CASE HookThrows(c)
  <2>1. /\ proc = "batch" /\ pc[c] = "hook" /\ failed' \in BOOLEAN /\ unasked' \subseteq Call
        /\ pc' = [pc EXCEPT ![c] = "done"]
        /\ UNCHANGED <<turn, rows, gates, proc, signal, todo, seen, parked, skipped, control0,
                       world, crashes>>
    BY <1>6 DEF HookThrows
  <2>2. TypeOK' /\ \A d \in Call \ {c} : Same(d)
    BY <2>1 DEF Pc
  <2>3. CallInv(c)'
    BY <2>1
  <2>4. QED
    BY <2>2, <2>3
<1>7. QED
  BY <1>1, <1>2, <1>3, <1>4, <1>5, <1>6

-----------------------------------------------------------------------------
(* The steps between batches.                                              *)

LEMMA BatchEndsKept ==
  ASSUME Inv,
         StartBatch \/ EndThrown \/ EndParked \/ EndAborted \/ VerifyStep \/ EndStep
         \/ DrainAborted \/ CloseAborted
  PROVE  Inv'
<1> USE CallValues DEF Inv, CallInv, Placed, Untouched, Owed, Gated, Single, Listed, Sent, Ready, Truthful, Begun, PreDispatch,
                       HasIntent, turn, rows, gates, batch, memory, world, StillBatch, Goto, At
<1>1. CASE StartBatch
  <2>1. TypeOK'
    BY <1>1 DEF TypeOK, StartBatch, InBatch, Pc
  <2>2. ASSUME NEW d \in Call PROVE CallInv(d)'
    BY <1>1 DEF TypeOK, StartBatch, InBatch, Pc
  <2>3. QED
    BY <2>1, <2>2
<1>2. CASE EndThrown
  <2>1. TypeOK'
    <3>1. CASE signal = "aborted"
      <4>1. /\ proc' = "aborting" /\ Forget
            /\ UNCHANGED <<turn, rows, signal, gates, todo, world, past>>
        BY <1>2, <3>1 DEF EndThrown
      <4>2. QED
        BY <4>1 DEF TypeOK, Forget, Pc
    <3>2. CASE signal # "aborted"
      <4>1. CloseInterrupted /\ EndRun /\ Forget /\ UNCHANGED <<gates, todo, world, crashes>>
        BY <1>2, <3>2 DEF EndThrown
      <4>2. answer' \in [Call -> Answer] /\ outcome' \in [Call -> Outcome] /\ pending' = {}
            /\ unasked' = {}
        BY <4>1 DEF TypeOK, CloseInterrupted, SayAll, First, Answer, Outcome
      <4>3. /\ phase' = "none" /\ control' = "none" /\ call' \in [Call -> CallState]
            /\ proc' = "resting" /\ signal' \in {"none", "stopping"}
        BY <4>1 DEF TypeOK, CloseInterrupted, EndTurn, EndRun
      <4>4. QED
        BY <4>1, <4>2, <4>3 DEF TypeOK, Forget, Pc
    <3>3. QED
      BY <3>1, <3>2
  <2>2. ASSUME NEW d \in Call PROVE CallInv(d)'
    BY <1>2 DEF TypeOK, EndThrown, BatchOver, EndTurn, EndRun, Forget, Pc, CloseInterrupted, Unanswered, SayAll, First, Answer, Outcome
  <2>3. QED
    BY <2>1, <2>2
<1>3. CASE EndParked
  <2>1. TypeOK'
    <3>1. answer' \in [Call -> Answer]
      BY <1>3 DEF TypeOK, EndParked, SayAll, First, Answer
    <3>2. /\ phase' = "none" /\ control' = "none" /\ call' \in [Call -> CallState]
          /\ proc' = "resting" /\ signal' \in {"none", "stopping"}
      BY <1>3 DEF TypeOK, EndParked, EndTurn, EndRun
    <3>3. Forget /\ UNCHANGED <<pending, outcome, gates, todo, world, past>>
      BY <1>3 DEF EndParked
    <3>4. QED
      BY <3>1, <3>2, <3>3 DEF TypeOK, Forget, Pc
  <2>2. ASSUME NEW d \in Call PROVE CallInv(d)'
    BY <1>3 DEF TypeOK, EndParked, BatchOver, SayAll, First, Answer, EndTurn, EndRun, Forget, Pc
  <2>3. QED
    BY <2>1, <2>2
<1>4. CASE EndAborted
  <2>1. TypeOK'
    BY <1>4 DEF TypeOK, EndAborted, BatchOver, Forget, Pc
  <2>2. ASSUME NEW d \in Call PROVE CallInv(d)'
    BY <1>4 DEF TypeOK, EndAborted, BatchOver, Forget, Pc
  <2>3. QED
    BY <2>1, <2>2
<1>5. CASE VerifyStep
  <2>1. TypeOK'
    BY <1>5 DEF TypeOK, VerifyStep, BatchOver
  <2>2. ASSUME NEW d \in Call PROVE CallInv(d)'
    BY <1>5 DEF TypeOK, VerifyStep, BatchOver
  <2>3. QED
    BY <2>1, <2>2
<1>6. CASE EndStep
  <2>1. TypeOK'
    BY <1>6 DEF TypeOK, EndStep, Forget, Pc
  <2>2. ASSUME NEW d \in Call PROVE CallInv(d)'
    BY <1>6 DEF TypeOK, EndStep, Forget, Pc
  <2>3. QED
    BY <2>1, <2>2
<1>7. CASE DrainAborted
  <2>1. TypeOK'
    BY <1>7 DEF TypeOK, DrainAborted, SayAll, First, Answer
  <2>2. ASSUME NEW d \in Call PROVE CallInv(d)'
    BY <1>7 DEF TypeOK, DrainAborted, SayAll, First, Answer
  <2>3. QED
    BY <2>1, <2>2
<1>8. CASE CloseAborted
  <2>1. TypeOK'
    BY <1>8 DEF TypeOK, CloseAborted, EndTurn, EndRun, Forget, Pc
  <2>2. ASSUME NEW d \in Call PROVE CallInv(d)'
    BY <1>8 DEF TypeOK, CloseAborted, EndTurn, EndRun, Forget, Pc
  <2>3. QED
    BY <2>1, <2>2
<1>9. QED
  BY <1>1, <1>2, <1>3, <1>4, <1>5, <1>6, <1>7, <1>8

LEMMA TurnEdgesKept ==
  ASSUME Inv,
         StepCancelled \/ RecordAgain \/ FinishTurn
  PROVE  Inv'
<1> USE CallValues DEF Inv, CallInv, Placed, Untouched, Owed, Gated, Single, Listed, Sent, Ready, Truthful, Begun, PreDispatch,
                       HasIntent, turn, rows, gates, batch, memory, world, StillBatch, Goto, At
<1>1. CASE StepCancelled
  <2>1. TypeOK'
    BY <1>1 DEF TypeOK, StepCancelled
  <2>2. ASSUME NEW d \in Call PROVE CallInv(d)'
    BY <1>1 DEF TypeOK, StepCancelled
  <2>3. QED
    BY <2>1, <2>2
<1>2. CASE RecordAgain
  <2>1. TypeOK'
    BY <1>2 DEF TypeOK, RecordAgain, CloseGates, Decision, Question
  <2>2. ASSUME NEW d \in Call PROVE CallInv(d)'
    BY <1>2 DEF TypeOK, RecordAgain, CloseGates, Decision, Question
  <2>3. QED
    BY <2>1, <2>2
<1>3. CASE FinishTurn
  <2>1. TypeOK'
    BY <1>3 DEF TypeOK, FinishTurn, EndTurn, EndRun, Forget, Pc
  <2>2. ASSUME NEW d \in Call PROVE CallInv(d)'
    BY <1>3 DEF TypeOK, FinishTurn, EndTurn, EndRun, Forget, Pc
  <2>3. QED
    BY <2>1, <2>2
<1>4. QED
  BY <1>1, <1>2, <1>3

LEMMA ContinuationKept ==
  ASSUME Inv, NEW c \in Call,
         ReopenAnswered(c) \/ ReopenParked(c)
  PROVE  Inv'
<1> USE CallValues DEF Inv, CallInv, Placed, Untouched, Owed, Gated, Single, Listed, Sent, Ready, Truthful, Begun, PreDispatch,
                       HasIntent, turn, rows, gates, batch, memory, world, StillBatch, Goto, At
<1>1. CASE ReopenAnswered(c)
  <2>1. TypeOK'
    BY <1>1 DEF TypeOK, ReopenAnswered, Continuable, Question
  <2>2. ASSUME NEW d \in Call PROVE CallInv(d)'
    BY <1>1 DEF TypeOK, ReopenAnswered, Continuable, Question
  <2>3. QED
    BY <2>1, <2>2
<1>2. CASE ReopenParked(c)
  <2>1. TypeOK'
    <3>1. CASE decision[c] \in {"open", "allowed"}
      BY <1>2, <3>1 DEF TypeOK, ReopenParked, Continuable, Put
    <3>2. CASE decision[c] \notin {"open", "allowed"}
      <4>1. Put(c, State("completed")) /\ Say(c, "not_run") /\ Consume(c)
        BY <1>2, <3>2 DEF ReopenParked
      <4>2. answer' \in [Call -> Answer] /\ decision' \in [Call -> Decision] /\ call' \in [Call -> CallState]
        BY <4>1 DEF TypeOK, Put, Say, First, Consume, Decision, Answer
      <4>3. phase' = "tools" /\ UNCHANGED <<control, pending, outcome, question, memory, world, past>>
        BY <1>2 DEF ReopenParked
      <4>4. QED
        BY <4>2, <4>3 DEF TypeOK
    <3>3. QED
      BY <3>1, <3>2
  <2>2. ASSUME NEW d \in Call PROVE CallInv(d)'
    BY <1>2 DEF TypeOK, ReopenParked, Continuable, Put, Say, First, Consume, Decision, Answer
  <2>3. QED
    BY <2>1, <2>2
<1>3. QED
  BY <1>1, <1>2

LEMMA CrashKept ==
  ASSUME Inv,
         Crash \/ Open \/ Recovered
  PROVE  Inv'
<1> USE CallValues DEF Inv, CallInv, Placed, Untouched, Owed, Gated, Single, Listed, Sent, Ready, Truthful, Begun, PreDispatch,
                       HasIntent, turn, rows, gates, batch, memory, world, StillBatch, Goto, At
<1>1. CASE Crash
  <2>1. TypeOK'
    <3>1. crashes' \in Nat
      BY <1>1 DEF TypeOK, Crash
    <3>2. QED
      BY <1>1, <3>1 DEF TypeOK, Crash, Forget, Pc
  <2>2. ASSUME NEW d \in Call PROVE CallInv(d)'
    BY <1>1 DEF TypeOK, Crash, Forget, Pc
  <2>3. QED
    BY <2>1, <2>2
<1>2. CASE Open
  <2>1. TypeOK'
    BY <1>2 DEF TypeOK, Open, EndTurn, EndRun, Forget, Pc, CloseInterrupted, Unanswered, SayAll, First, Answer, Outcome
  <2>2. ASSUME NEW d \in Call PROVE CallInv(d)'
    BY <1>2 DEF TypeOK, Open, EndTurn, EndRun, Forget, Pc, CloseInterrupted, Unanswered, SayAll, First, Answer, Outcome
  <2>3. QED
    BY <2>1, <2>2
<1>3. CASE Recovered
  <2>1. TypeOK'
    BY <1>3 DEF TypeOK, Recovered
  <2>2. ASSUME NEW d \in Call PROVE CallInv(d)'
    BY <1>3 DEF TypeOK, Recovered
  <2>3. QED
    BY <2>1, <2>2
<1>4. QED
  BY <1>1, <1>2, <1>3

LEMMA RecoveryKept ==
  ASSUME Inv, NEW c \in Call,
         RecoverCancelled(c) \/ RecoverRetry(c) \/ RecoverUnknown(c) \/ Inquire(c)
         \/ InquiryFails(c) \/ InquiryAnswered(c) \/ InquiryParks(c)
  PROVE  Inv'
<1> USE CallValues DEF Inv, CallInv, Placed, Untouched, Owed, Gated, Single, Listed, Sent, Ready, Truthful, Begun, PreDispatch,
                       HasIntent, turn, rows, gates, batch, memory, world, StillBatch, Goto, At
<1>1. CASE RecoverCancelled(c)
  <2>1. TypeOK'
    BY <1>1 DEF TypeOK, RecoverCancelled, Recovering, RecoveredAs, Say, Settle, Put, First, Answer, Outcome
  <2>2. ASSUME NEW d \in Call PROVE CallInv(d)'
    BY <1>1 DEF TypeOK, RecoverCancelled, Recovering, RecoveredAs, Say, Settle, Put, First, Answer, Outcome
  <2>3. QED
    BY <2>1, <2>2
<1>2. CASE RecoverRetry(c)
  <2>1. TypeOK'
    BY <1>2 DEF TypeOK, RecoverRetry, Recovering, RecoveredAs, Put, Attempt
  <2>2. ASSUME NEW d \in Call PROVE CallInv(d)'
    BY <1>2 DEF TypeOK, RecoverRetry, Recovering, RecoveredAs, Put, Attempt
  <2>3. QED
    BY <2>1, <2>2
<1>3. CASE RecoverUnknown(c)
  <2>1. TypeOK'
    BY <1>3 DEF TypeOK, RecoverUnknown, Recovering, Say, Settle, Put, First, Answer, Outcome, Pc
  <2>2. ASSUME NEW d \in Call PROVE CallInv(d)'
    <3>1. /\ c \in pending /\ c \in todo /\ todo' = todo \ {c} /\ pending' = pending \ {c}
          /\ answer' = [answer EXCEPT ![c] = "unknown"] /\ outcome' = [outcome EXCEPT ![c] = "unknown"]
          /\ call' = [call EXCEPT ![c] = IF InBatch(c) THEN State("completed") ELSE NoCall]
          /\ proc = "recovering" /\ UNCHANGED <<phase, proc, decision, skipped, seen, live, acted>>
      BY <1>3 DEF TypeOK, RecoverUnknown, Recovering, Say, Settle, Put, First
    <3>2. CASE d # c
      BY <3>1, <3>2 DEF TypeOK
    <3>3. CASE d = c
      <4>1. call'[d].status \in {"completed", "none"} /\ (call'[d].status # "none" => phase = "tools")
        BY <3>1, <3>3 DEF TypeOK, InBatch
      <4>2. QED
        BY <3>1, <3>3, <4>1 DEF TypeOK
    <3>4. QED
      BY <3>2, <3>3
  <2>3. QED
    BY <2>1, <2>2
<1>4. CASE Inquire(c)
  <2>1. TypeOK'
    BY <1>4 DEF TypeOK, Inquire, Question
  <2>2. ASSUME NEW d \in Call PROVE CallInv(d)'
    BY <1>4 DEF TypeOK, Inquire, Question
  <2>3. QED
    BY <2>1, <2>2
<1>5. CASE InquiryAnswered(c)
  <2>1. TypeOK'
    BY <1>5 DEF TypeOK, InquiryAnswered, Question, Pc
  <2>2. ASSUME NEW d \in Call PROVE CallInv(d)'
    BY <1>5 DEF TypeOK, InquiryAnswered, Question, Pc
  <2>3. QED
    BY <2>1, <2>2
<1>6. CASE InquiryParks(c)
  <2>1. TypeOK'
    BY <1>6 DEF TypeOK, InquiryParks, Question, EndTurn, EndRun, Forget, Pc
  <2>2. ASSUME NEW d \in Call PROVE CallInv(d)'
    BY <1>6 DEF TypeOK, InquiryParks, Question, EndTurn, EndRun, Forget, Pc
  <2>3. QED
    BY <2>1, <2>2
<1>7. CASE InquiryFails(c)
  <2>1. TypeOK'
    BY <1>7 DEF TypeOK, InquiryFails, Forget, Pc
  <2>2. ASSUME NEW d \in Call PROVE CallInv(d)'
    BY <1>7 DEF TypeOK, InquiryFails, Forget, Pc
  <2>3. QED
    BY <2>1, <2>2
<1>8. QED
  BY <1>1, <1>2, <1>3, <1>4, <1>5, <1>6, <1>7

LEMMA StopKept ==
  ASSUME Inv,
         Stop \/ RecordStop \/ DeliverStop \/ StopIdle \/ RunIdle
  PROVE  Inv'
<1> USE CallValues DEF Inv, CallInv, Placed, Untouched, Owed, Gated, Single, Listed, Sent, Ready, Truthful, Begun, PreDispatch,
                       HasIntent, turn, rows, gates, batch, memory, world, StillBatch, Goto, At
<1>1. CASE Stop
  <2>1. TypeOK'
    BY <1>1 DEF TypeOK, Stop
  <2>2. ASSUME NEW d \in Call PROVE CallInv(d)'
    BY <1>1 DEF TypeOK, Stop
  <2>3. QED
    BY <2>1, <2>2
<1>2. CASE RecordStop
  <2>1. TypeOK'
    BY <1>2 DEF TypeOK, RecordStop, CloseGates, Decision, Question
  <2>2. ASSUME NEW d \in Call PROVE CallInv(d)'
    BY <1>2 DEF TypeOK, RecordStop, CloseGates, Decision, Question
  <2>3. QED
    BY <2>1, <2>2
<1>3. CASE DeliverStop
  <2>1. TypeOK'
    BY <1>3 DEF TypeOK, DeliverStop
  <2>2. ASSUME NEW d \in Call PROVE CallInv(d)'
    BY <1>3 DEF TypeOK, DeliverStop
  <2>3. QED
    BY <2>1, <2>2
<1>4. CASE StopIdle
  <2>1. TypeOK'
    BY <1>4 DEF TypeOK, StopIdle, CloseGates, Decision, Question
  <2>2. ASSUME NEW d \in Call PROVE CallInv(d)'
    BY <1>4 DEF TypeOK, StopIdle, CloseGates, Decision, Question
  <2>3. QED
    BY <2>1, <2>2
<1>5. CASE RunIdle
  <2>1. TypeOK'
    BY <1>5 DEF TypeOK, RunIdle
  <2>2. ASSUME NEW d \in Call PROVE CallInv(d)'
    BY <1>5 DEF TypeOK, RunIdle
  <2>3. QED
    BY <2>1, <2>2
<1>6. QED
  BY <1>1, <1>2, <1>3, <1>4, <1>5

LEMMA OutsideKept ==
  ASSUME Inv, NEW c \in Call,
         AnswerDecision(c) \/ AnswerQuestion(c) \/ Expire(c) \/ Act(c) \/ ComeToRest(c)
  PROVE  Inv'
<1> USE CallValues DEF Inv, CallInv, Placed, Untouched, Owed, Gated, Single, Listed, Sent, Ready, Truthful, Begun, PreDispatch,
                       HasIntent, turn, rows, gates, batch, memory, world, StillBatch, Goto, At
<1>1. CASE AnswerDecision(c)
  <2>1. TypeOK'
    BY <1>1 DEF TypeOK, AnswerDecision, Decision
  <2>2. ASSUME NEW d \in Call PROVE CallInv(d)'
    BY <1>1 DEF TypeOK, AnswerDecision, Decision
  <2>3. QED
    BY <2>1, <2>2
<1>2. CASE AnswerQuestion(c)
  <2>1. TypeOK'
    BY <1>2 DEF TypeOK, AnswerQuestion, Question
  <2>2. ASSUME NEW d \in Call PROVE CallInv(d)'
    BY <1>2 DEF TypeOK, AnswerQuestion, Question
  <2>3. QED
    BY <2>1, <2>2
<1>3. CASE Expire(c)
  <2>1. TypeOK'
    <3>1. decision' \in [Call -> Decision] /\ question' \in [Call -> Question]
      BY <1>3 DEF TypeOK, Expire, Decision, Question
    <3>2. UNCHANGED <<turn, rows, memory, world, past>>
      BY <1>3 DEF Expire
    <3>3. QED
      BY <3>1, <3>2 DEF TypeOK
  <2>2. ASSUME NEW d \in Call PROVE CallInv(d)'
    BY <1>3 DEF TypeOK, Expire, Decision, Question
  <2>3. QED
    BY <2>1, <2>2
<1>4. CASE Act(c)
  <2>1. TypeOK'
    BY <1>4 DEF TypeOK, Act
  <2>2. ASSUME NEW d \in Call PROVE CallInv(d)'
    <3>1. PICK a \in live[c] : /\ acted' = [acted EXCEPT ![c] = @ \cup {a}]
                               /\ live' = [live EXCEPT ![c] = @ \ {a}]
      BY <1>4 DEF Act
    <3>2. CASE d # c
      <4>1. live'[d] = live[d] /\ acted'[d] = acted[d]
        BY <3>1, <3>2 DEF TypeOK
      <4>2. UNCHANGED <<turn, rows, gates, memory>>
        BY <1>4 DEF Act
      <4>3. QED
        BY <4>1, <4>2
    <3>3. CASE d = c
      <4>1. live'[d] = live[d] \ {a} /\ acted'[d] = acted[d] \cup {a} /\ a \in Attempt
        BY <3>1, <3>3 DEF TypeOK
      <4>2. UNCHANGED <<turn, rows, gates, memory>>
        BY <1>4 DEF Act
      <4>3. Sent(d)'
        BY <3>1, <3>3, <4>1, <4>2 DEF TypeOK
      <4>4. Truthful(d)'
        BY <3>1, <3>3, <4>1, <4>2 DEF TypeOK
      <4>5. /\ Placed(d)' /\ Untouched(d)' /\ Owed(d)' /\ Gated(d)' /\ Single(d)' /\ Listed(d)'
        BY <4>2
      <4>6. QED
        BY <4>3, <4>4, <4>5
    <3>4. QED
      BY <3>2, <3>3
  <2>3. QED
    BY <2>1, <2>2
<1>5. CASE ComeToRest(c)
  <2>1. TypeOK'
    BY <1>5 DEF TypeOK, ComeToRest, Over
  <2>2. ASSUME NEW d \in Call PROVE CallInv(d)'
    <3>1. UNCHANGED <<turn, rows, gates, memory>> /\ acted'[d] = acted[d]
      BY <1>5 DEF ComeToRest
    <3>2. live'[d] \in {live[d], live[d] \ {call[d].attempt}}
      BY <1>5 DEF TypeOK, ComeToRest, Over
    <3>3. Sent(d)' /\ Truthful(d)'
      BY <3>1, <3>2 DEF TypeOK
    <3>4. /\ Placed(d)' /\ Untouched(d)' /\ Owed(d)' /\ Gated(d)' /\ Single(d)' /\ Listed(d)'
      BY <3>1
    <3>5. QED
      BY <3>3, <3>4
  <2>3. QED
    BY <2>1, <2>2
<1>6. QED
  BY <1>1, <1>2, <1>3, <1>4, <1>5

-----------------------------------------------------------------------------
(* The invariant.                                                          *)

LEMMA InitInv == Init => Inv
<1> SUFFICES ASSUME Init PROVE Inv
  OBVIOUS
<1>1. TypeOK
  BY CallValues DEF Init, TypeOK, Pc, Decision, Question, Answer, Outcome
<1>2. ASSUME NEW c \in Call PROVE CallInv(c)
  BY CallValues, CallsAssumption
     DEF Init, CallInv, Placed, Untouched, Owed, Gated, Single, Listed, Sent, Ready, Truthful, Begun,
         PreDispatch, HasIntent
<1>3. QED
  BY <1>1, <1>2 DEF Inv

LEMMA NextInv == Inv /\ [Next]_vars => Inv'
<1> SUFFICES ASSUME Inv, [Next]_vars PROVE Inv'
  OBVIOUS
<1>1. ASSUME NEW c \in Call, CallStep(c) PROVE Inv'
  <2>1. Kept(c)
    BY <1>1, SchedulingKept, AdmissionKept, DispatchKept, SettlementKept DEF Inv, CallStep
  <2>2. QED
    BY <2>1, SameKeeps DEF Inv, Kept
<1>2. CASE EndOfBatch \/ StartBatch
  BY <1>2, BatchEndsKept DEF EndOfBatch
<1>3. CASE StepCancelled \/ RecordAgain \/ FinishTurn
  BY <1>3, TurnEdgesKept
<1>4. CASE Crash \/ Open \/ Recovered
  BY <1>4, CrashKept
<1>5. CASE Stop \/ RecordStop \/ DeliverStop \/ StopIdle \/ RunIdle
  BY <1>5, StopKept
<1>6. ASSUME NEW c \in Call,
             \/ Recovery(c) \/ Person(c) \/ ReopenAnswered(c) \/ ReopenParked(c)
             \/ Act(c) \/ ComeToRest(c)
      PROVE  Inv'
  BY <1>6, ContinuationKept, RecoveryKept, OutsideKept DEF Recovery, Person
<1>7. CASE UNCHANGED vars
  BY <1>7 DEF vars, turn, rows, gates, batch, memory, world, Inv, TypeOK, CallInv, Placed, Untouched,
              Owed, Gated, Single, Listed, Sent, Ready, Truthful, Begun, PreDispatch, HasIntent
<1>8. QED
  BY <1>1, <1>2, <1>3, <1>4, <1>5, <1>6, <1>7 DEF Next

LEMMA Invariance == Spec => []Inv
BY InitInv, NextInv, PTL DEF Spec

-----------------------------------------------------------------------------
(* Theorems.                                                               *)

\* Every reachable state of a batch is well typed, for any calls.
THEOREM TypeCorrect == Spec => []TypeOK
<1>1. Inv => TypeOK
  BY DEF Inv
<1>2. QED
  BY <1>1, Invariance, PTL

\* An approval is spent by the intent of its call and by nothing else.
THEOREM ApprovalIsSpentOnce == Spec => []IntentSpendsApproval
<1>1. Inv => IntentSpendsApproval
  BY CallsAssumption DEF Inv, CallInv, Gated, IntentSpendsApproval
<1>2. QED
  BY <1>1, Invariance, PTL

-----------------------------------------------------------------------------
(* Stops and approvals.                                                    *)

\* Only its intent spends an approval.
LEMMA OnlyIntentSpends ==
  ASSUME TypeOK, Next, NEW d \in Call, decision[d] # "spent", decision'[d] = "spent"
  PROVE  Intent(d)
<1> USE DEF TypeOK, gates, StillBatch
<1>1. ASSUME NEW c \in Call,
             Skip(c) \/ SkipParked(c) \/ Begin(c) \/ BeginUnavailable(c) \/ Deny(c)
             \/ CancelEarly(c) \/ Approved(c) \/ Park(c) \/ Prepare(c) \/ Throw(c)
             \/ LoopCancelled(c) \/ Invoke(c) \/ Respond(c) \/ BodyThrows(c) \/ TimeOut(c)
             \/ Cut(c) \/ RejectBeforeEffect(c) \/ Unsent(c) \/ GiveUpUnsent(c) \/ Retry(c)
             \/ HostRecord(c) \/ SettleResult(c) \/ SettleStopped(c)
             \/ AskHook(c) \/ HookThrows(c) \/ AskOutcome(c) \/ SettleUnknown(c)
      PROVE  UNCHANGED decision
  BY <1>1
  DEF Skip, SkipParked, Begin, BeginUnavailable, Deny, CancelEarly, Approved, Park, Prepare,
     Throw, LoopCancelled, Invoke, Respond, BodyThrows, TimeOut, Cut, RejectBeforeEffect,
     Unsent, GiveUpUnsent, Retry, HostRecord, SettleResult, SettleStopped, AskHook,
     HookThrows, AskOutcome, SettleUnknown, Observe
<1>2. ASSUME StartBatch \/ EndThrown \/ EndParked \/ EndAborted \/ VerifyStep \/ EndStep
             \/ DrainAborted \/ CloseAborted \/ StepCancelled \/ FinishTurn \/ Crash
             \/ Open \/ Recovered \/ Stop \/ DeliverStop \/ RunIdle
      PROVE  UNCHANGED decision
  BY <1>2
  DEF StartBatch, EndThrown, EndParked, EndAborted, VerifyStep, EndStep, DrainAborted,
     CloseAborted, StepCancelled, FinishTurn, Crash, Open, Recovered, Stop, DeliverStop, RunIdle
<1>3. ASSUME NEW c \in Call,
             RecoverCancelled(c) \/ RecoverRetry(c) \/ RecoverUnknown(c) \/ Inquire(c)
             \/ InquiryFails(c) \/ InquiryAnswered(c) \/ InquiryParks(c) \/ AnswerQuestion(c)
             \/ ReopenAnswered(c) \/ Act(c) \/ ComeToRest(c)
      PROVE  UNCHANGED decision
  BY <1>3
  DEF RecoverCancelled, RecoverRetry, RecoverUnknown, Inquire, InquiryFails, InquiryAnswered,
     InquiryParks, AnswerQuestion, ReopenAnswered, Act, ComeToRest
<1>4. ASSUME NEW c \in Call,
             RefuseCancelled(c) \/ Rejected(c) \/ HostUnavailable(c) \/ Ask(c)
      PROVE  FALSE
  BY <1>4 DEF RefuseCancelled, Rejected, HostUnavailable, Ask, Consume
<1>5. ASSUME NEW c \in Call, Intent(c) PROVE c = d
  BY <1>5 DEF Intent
<1>6. ASSUME RecordAgain \/ RecordStop \/ StopIdle PROVE FALSE
  BY <1>6 DEF RecordAgain, RecordStop, StopIdle, CloseGates
<1>7. ASSUME NEW c \in Call, AnswerDecision(c) \/ Expire(c) \/ ReopenParked(c) PROVE FALSE
  BY <1>7 DEF AnswerDecision, Expire, ReopenParked, Consume
<1>8. QED
  BY <1>1, <1>2, <1>3, <1>4, <1>5, <1>6, <1>7 DEF Next, CallStep, EndOfBatch, Recovery, Person

\* Once a Stop is on the ledger no guarded call gets its intent, however far
\* it was on its way.
THEOREM StopBeatsApproval == Spec => NoIntentAfterStop
<1>1. Inv /\ Inv' /\ [Next]_vars
        => [\A c \in Guarded : control = "cancel" /\ HasIntent(c)' => HasIntent(c)]_vars
  <2> SUFFICES ASSUME Inv, Inv', Next, NEW c \in Guarded, control = "cancel", HasIntent(c)'
               PROVE  HasIntent(c)
    OBVIOUS
  <2>1. c \in Call /\ Gated(c) /\ Gated(c)' /\ TypeOK
    BY CallsAssumption DEF Inv, CallInv
  <2>2. decision'[c] = "spent"
    BY <2>1 DEF Gated
  <2>3. ~Intent(c)
    BY DEF Intent, MayConsume, Stopped
  <2>4. decision[c] = "spent"
    BY <2>1, <2>2, <2>3, OnlyIntentSpends
  <2>5. QED
    BY <2>1, <2>4 DEF Gated
<1>2. QED
  BY <1>1, NextInv, Invariance, PTL DEF Spec, NoIntentAfterStop

-----------------------------------------------------------------------------
(* Answers and attempts.                                                   *)

\* Only an invocation adds an attempt, and only to its own call.
LEMMA OnlyInvokeSends ==
  ASSUME TypeOK, Next, NEW d \in Call
  PROVE  live'[d] \subseteq live[d] \/ Invoke(d)
<1> USE DEF TypeOK, world, StillBatch
<1>1. ASSUME NEW c \in Call,
             Skip(c) \/ SkipParked(c) \/ Begin(c) \/ BeginUnavailable(c) \/ Deny(c)
             \/ CancelEarly(c) \/ RefuseCancelled(c) \/ Ask(c) \/ Approved(c)
             \/ Rejected(c) \/ Park(c) \/ HostUnavailable(c) \/ Prepare(c) \/ Intent(c)
             \/ Throw(c) \/ LoopCancelled(c) \/ TimeOut(c) \/ Cut(c) \/ GiveUpUnsent(c)
             \/ Retry(c) \/ HostRecord(c) \/ SettleResult(c) \/ SettleStopped(c)
             \/ AskHook(c) \/ HookThrows(c) \/ AskOutcome(c) \/ SettleUnknown(c)
      PROVE  UNCHANGED live
  BY <1>1
  DEF Skip, SkipParked, Begin, BeginUnavailable, Deny, CancelEarly, RefuseCancelled,
      Ask, Approved, Rejected, Park, HostUnavailable, Prepare, Intent, Throw,
      LoopCancelled, TimeOut, Cut, GiveUpUnsent, Retry, HostRecord, SettleResult,
      SettleStopped, AskHook, HookThrows, AskOutcome, SettleUnknown, Observe
<1>2. ASSUME StartBatch \/ EndThrown \/ EndParked \/ EndAborted \/ VerifyStep \/ EndStep
             \/ DrainAborted \/ CloseAborted \/ StepCancelled \/ RecordAgain
             \/ FinishTurn \/ Crash \/ Open \/ Recovered \/ Stop \/ RecordStop
             \/ DeliverStop \/ StopIdle \/ RunIdle
      PROVE  UNCHANGED live
  BY <1>2
  DEF StartBatch, EndThrown, EndParked, EndAborted, VerifyStep, EndStep, DrainAborted,
      CloseAborted, StepCancelled, RecordAgain, FinishTurn, Crash, Open, Recovered,
      Stop, RecordStop, DeliverStop, StopIdle, RunIdle
<1>3. ASSUME NEW c \in Call,
             RecoverCancelled(c) \/ RecoverRetry(c) \/ RecoverUnknown(c) \/ Inquire(c)
             \/ InquiryFails(c) \/ InquiryAnswered(c) \/ InquiryParks(c) \/ AnswerDecision(c)
             \/ AnswerQuestion(c) \/ Expire(c) \/ ReopenAnswered(c) \/ ReopenParked(c)
      PROVE  UNCHANGED live
  BY <1>3
  DEF RecoverCancelled, RecoverRetry, RecoverUnknown, Inquire, InquiryFails, InquiryAnswered,
      InquiryParks, AnswerDecision, AnswerQuestion, Expire, ReopenAnswered,
      ReopenParked
<1>4. ASSUME NEW c \in Call,
             Respond(c) \/ BodyThrows(c) \/ RejectBeforeEffect(c) \/ Unsent(c)
             \/ ComeToRest(c)
      PROVE  live'[d] \subseteq live[d]
  BY <1>4 DEF Respond, BodyThrows, RejectBeforeEffect, Unsent, ComeToRest, Over
<1>5. ASSUME NEW c \in Call, Act(c)
      PROVE  live'[d] \subseteq live[d]
  BY <1>5 DEF Act
<1>6. ASSUME NEW c \in Call, Invoke(c), c # d
      PROVE  live'[d] \subseteq live[d]
  BY <1>6 DEF Invoke
<1>7. QED
  BY <1>1, <1>2, <1>3, <1>4, <1>5, <1>6 DEF Next, CallStep, EndOfBatch, Recovery, Person

\* No call is answered, and no effect settled, a second time: by the call, the abort of
\* its batch, a closing turn or the recovery.  Once a call is answered no attempt of it
\* starts.
THEOREM AnswersStayFinal == Spec => AnswersAreFinal
<1>1. Inv /\ Inv' /\ [Next]_vars => [\A c \in Call : StaysFinal(c)]_vars
  <2> SUFFICES ASSUME Inv, Inv', Next, NEW c \in Call PROVE StaysFinal(c)
    OBVIOUS
  <2>1. "twice" \notin {answer'[c], outcome'[c]}
    BY DEF Inv, CallInv, Single
  <2>2. ASSUME answer[c] # "none" PROVE ~Invoke(c)
    BY <2>2 DEF Inv, CallInv, Placed, Owed, Begun, Invoke, At
  <2>3. QED
    BY <2>1, <2>2, OnlyInvokeSends DEF Inv, StaysFinal
<1>2. QED
  BY <1>1, NextInv, Invariance, PTL DEF Spec, AnswersAreFinal

-----------------------------------------------------------------------------
(* Turns that nothing interrupts.                                          *)

Dispatching == {"loop", "running", "unsent", "record", "settle", "hook", "asking"}

\* While nothing crashes: an effect is open as long as its call is dispatching, or its
\* question was not asked, and then the batch has failed or its turn was drained;
\* a call without a result is held by the batch or waits for its approval; a
\* batch leaves one behind when it parks, fails or is stopped, and for no other
\* reason; and an outcome nobody was asked about keeps the step from its end.
Smooth(c) ==
  /\ c \in pending => c \in unasked \/ (proc = "batch" /\ pc[c] \in Dispatching)
  /\ c \in unasked =>
       /\ c \in pending
       /\ proc = "batch" => pc[c] = "done"
       /\ InBatch(c) => (proc = "batch" /\ failed) \/ proc \in {"aborting", "closing"}
  /\ answer[c] = "none" => InBatch(c) \/ decision[c] # "none" \/ c \in unasked
  /\ proc = "batch" /\ pc[c] = "done" /\ InBatch(c) /\ answer[c] = "none"
       => c \in skipped \/ failed \/ signal = "aborted" \/ decision[c] # "none"
  /\ proc = "batch" /\ c \in skipped => parked
  /\ proc = "verifying" => answer[c] # "none" \/ decision[c] # "none" \/ c \in unasked
  /\ proc = "closing" => ~PreDispatch(c)
  /\ InBatch(c) /\ answer[c] = "unknown" /\ question[c] = "none"
       => (proc = "batch" /\ parked) \/ proc \in {"aborting", "closing"}

SmoothInv ==
  crashes = 0 => proc \notin {"down", "recovering"} /\ \A c \in Call : Smooth(c)

\* What a step of one call leaves of the batch's state for the others.
Steady(c) ==
  /\ UNCHANGED <<phase, proc, signal, crashes>>
  /\ parked => parked'
  /\ failed => failed'
  /\ \A d \in Call \ {c} : question'[d] = question[d] /\ (d \in unasked' <=> d \in unasked)

LEMMA CallStepSteady ==
  ASSUME TypeOK, NEW c \in Call, CallStep(c)
  PROVE  Steady(c)
<1> USE DEF TypeOK, Steady, StillBatch, gates
<1>1. ASSUME AskHook(c) \/ AskOutcome(c) \/ SettleUnknown(c) PROVE Steady(c)
  BY <1>1 DEF AskHook, AskOutcome, SettleUnknown
<1>2. ASSUME Skip(c) \/ SkipParked(c) \/ Begin(c) \/ BeginUnavailable(c) \/ Deny(c)
             \/ CancelEarly(c) \/ RefuseCancelled(c) \/ Ask(c) \/ Approved(c) \/ Rejected(c)
             \/ Park(c) \/ HostUnavailable(c) \/ Prepare(c) \/ Intent(c) \/ Throw(c)
      PROVE  Steady(c)
  BY <1>2 DEF Skip, SkipParked, Begin, BeginUnavailable, Deny, CancelEarly, RefuseCancelled, Ask,
              Approved, Rejected, Park, HostUnavailable, Prepare, Intent, Throw
<1>3. ASSUME LoopCancelled(c) \/ Invoke(c) \/ Respond(c) \/ BodyThrows(c) \/ TimeOut(c) \/ Cut(c)
             \/ RejectBeforeEffect(c) \/ Unsent(c) \/ GiveUpUnsent(c) \/ Retry(c)
             \/ HostRecord(c) \/ SettleResult(c) \/ SettleStopped(c)
      PROVE  Steady(c)
  BY <1>3 DEF LoopCancelled, Invoke, Respond, BodyThrows, TimeOut, Cut, RejectBeforeEffect, Unsent,
              GiveUpUnsent, Retry, HostRecord, SettleResult, SettleStopped, Observe
<1>4. ASSUME HookThrows(c) PROVE Steady(c)
  BY <1>4 DEF HookThrows, turn
<1>5. QED
  BY <1>1, <1>2, <1>3, <1>4 DEF CallStep

LEMMA OthersSmooth ==
  ASSUME NEW c \in Call, NEW d \in Call \ {c}, Steady(c), Same(d), Smooth(d)
  PROVE  Smooth(d)'
BY DEF Steady, Same, Smooth, PreDispatch, InBatch

LEMMA CallStepSmooth ==
  ASSUME TypeOK, NEW c \in Call, CallInv(c), CallStep(c), Smooth(c)
  PROVE  Smooth(c)'
<1> USE CallValues DEF TypeOK, CallInv, Placed, Untouched, Owed, Single, Listed, Truthful, Begun, PreDispatch, InBatch, HasIntent, Smooth, Dispatching, turn, rows, gates, batch, memory, world, StillBatch, Goto, At, Aborted
<1>1. CASE Skip(c)
  BY <1>1 DEF Skip, Turn
<1>2. CASE SkipParked(c)
  BY <1>2 DEF SkipParked, Turn
<1>3. CASE Begin(c)
  BY <1>3 DEF Begin, Turn
<1>4. CASE Deny(c) \/ RefuseCancelled(c) \/ Rejected(c) \/ HostUnavailable(c)
  <2>1. Refuse(c, "not_run") /\ proc = "batch" /\ PreDispatch(c) /\ StillBatch
        /\ UNCHANGED <<question, parked, skipped>>
    BY <1>4 DEF Deny, RefuseCancelled, Rejected, HostUnavailable
  <2>2. /\ answer'[c] = "not_run" /\ c \notin pending'
        /\ InBatch(c)' /\ call'[c].status = "completed"
    BY <2>1 DEF Refuse, Say, First, Put
  <2>3. QED
    BY <2>1, <2>2
<1>5. CASE CancelEarly(c) \/ Approved(c) \/ Prepare(c)
  BY <1>5 DEF CancelEarly, Approved, Prepare, Put
<1>6. CASE Ask(c)
  BY <1>6 DEF Ask
<1>7. CASE Park(c)
  BY <1>7 DEF Park
<1>8. CASE Intent(c)
  BY <1>8 DEF Intent, Put, Attempt
<1>9. CASE Throw(c)
  BY <1>9 DEF Throw, Throws
<1>10. CASE Invoke(c)
  BY <1>10 DEF Invoke, Put, Attempt
<1>11. CASE Respond(c) \/ BodyThrows(c) \/ TimeOut(c) \/ Cut(c)
  BY <1>11 DEF Respond, BodyThrows, TimeOut, Cut, Observe
<1>12. CASE Unsent(c) \/ Retry(c) \/ HostRecord(c)
  BY <1>12 DEF Unsent, Retry, HostRecord, Put, Attempt
<1>13. CASE AskHook(c) \/ HookThrows(c) \/ AskOutcome(c)
  BY <1>13 DEF AskHook, HookThrows, AskOutcome, Unseen
<1>14. CASE SettleUnknown(c)
  <2>1. /\ Finish(c, "unknown", "unknown") /\ proc = "batch" /\ Begun(c) /\ StillBatch
        /\ pc[c] # "done" /\ UNCHANGED skipped
        /\ question'[c] # "none" \/ parked'
        /\ parked => parked'
    BY <1>14 DEF SettleUnknown, Unseen
  <2>2. /\ answer'[c] = "unknown" /\ c \notin pending' /\ call'[c].status = "completed"
    BY <2>1 DEF Finish, Say, Settle, First, Put
  <2>3. QED
    BY <2>1, <2>2
<1>15. ASSUME NEW code \in {"no_effect", "result", "cut", "stopped"}, Finish(c, code, "known"),
              proc = "batch", pc[c] # "done", Begun(c), StillBatch,
              UNCHANGED <<question, parked, skipped>>
       PROVE  Smooth(c)'
  <2>1. answer'[c] = code /\ c \notin pending' /\ call'[c].status = "completed"
    BY <1>15 DEF Finish, Say, Settle, First, Put
  <2>2. QED
    BY <1>15, <2>1
<1>16. CASE BeginUnavailable(c)
  BY <1>15, <1>16 DEF BeginUnavailable, Turn
<1>17. CASE LoopCancelled(c) \/ RejectBeforeEffect(c) \/ GiveUpUnsent(c)
  BY <1>15, <1>17 DEF LoopCancelled, RejectBeforeEffect, GiveUpUnsent
<1>18. CASE SettleResult(c)
  BY <1>15, <1>18 DEF SettleResult
<1>19. CASE SettleStopped(c)
  BY <1>15, <1>19 DEF SettleStopped
<1>20. QED
  BY <1>1, <1>2, <1>3, <1>4, <1>5, <1>6, <1>7, <1>8, <1>9, <1>10, <1>11, <1>12, <1>13, <1>14,
     <1>16, <1>17, <1>18, <1>19 DEF CallStep

LEMMA EndOfBatchSmooth ==
  ASSUME Inv, StartBatch \/ EndOfBatch, crashes = 0, SmoothInv
  PROVE  SmoothInv'
<1> USE CallValues DEF Inv, SmoothInv, BatchOver, EndTurn, EndRun, Forget, TypeOK, CallInv, Placed, Untouched, Owed, Single, Listed, Truthful, Begun, PreDispatch, InBatch, HasIntent, Smooth, Dispatching, turn, rows, gates, batch, memory, world, StillBatch, Goto, At, Aborted
<1>1. CASE StartBatch
  BY <1>1 DEF StartBatch
<1>2. ASSUME NEW d \in Call, CloseInterrupted, EndRun, UNCHANGED decision, proc = "batch"
      PROVE  Smooth(d)'
  <2>1. answer'[d] # "none" \/ decision'[d] # "none"
    BY <1>2 DEF CloseInterrupted, SayAll, First, Unanswered
  <2>2. d \notin pending' /\ d \notin unasked' /\ ~InBatch(d)' /\ proc' = "resting"
    BY <1>2 DEF CloseInterrupted
  <2>3. QED
    BY <2>1, <2>2
<1>3. CASE EndThrown
  <2>1. CASE signal = "aborted"
    BY <1>3, <2>1 DEF EndThrown
  <2>2. CASE signal # "aborted"
    <3>1. CloseInterrupted /\ EndRun /\ UNCHANGED <<decision, crashes>> /\ proc = "batch"
      BY <1>3, <2>2 DEF EndThrown
    <3>2. QED
      BY <1>2, <3>1
  <2>3. QED
    BY <2>1, <2>2
<1>4. CASE EndParked
  <2>1. ASSUME NEW d \in Call PROVE Smooth(d)'
    <3>1. answer'[d] # "none" \/ decision'[d] # "none" \/ d \in unasked'
      BY <1>4 DEF EndParked, SayAll, First
    <3>2. (d \in pending' <=> d \in unasked') /\ ~InBatch(d)' /\ proc' = "resting"
      BY <1>4 DEF EndParked
    <3>3. QED
      BY <3>1, <3>2
  <2>2. QED
    BY <1>4, <2>1 DEF EndParked
<1>5. CASE EndAborted
  BY <1>5 DEF EndAborted
<1>6. CASE VerifyStep
  BY <1>6 DEF VerifyStep, MustPark
<1>7. CASE EndStep
  BY <1>7 DEF EndStep
<1>8. CASE DrainAborted
  <2>1. ASSUME NEW d \in Call PROVE Smooth(d)'
    <3>1. /\ answer'[d] = (IF PreDispatch(d) THEN First(answer[d], "not_run") ELSE answer[d])
          /\ call'[d] = (IF PreDispatch(d) THEN State("completed") ELSE call[d])
          /\ proc' = "closing" /\ UNCHANGED <<pending, decision, question>>
      BY <1>8 DEF DrainAborted, SayAll
    <3>2. QED
      BY <1>8, <3>1 DEF DrainAborted, First
  <2>2. QED
    BY <1>8, <2>1 DEF DrainAborted
<1>9. CASE CloseAborted
  BY <1>9 DEF CloseAborted
<1>10. QED
  BY <1>1, <1>3, <1>4, <1>5, <1>6, <1>7, <1>8, <1>9 DEF EndOfBatch

LEMMA OtherStepsSmooth ==
  ASSUME Inv, crashes = 0, SmoothInv,
         \/ StepCancelled \/ RecordAgain \/ FinishTurn \/ Open \/ Recovered
         \/ Stop \/ RecordStop \/ DeliverStop \/ StopIdle \/ RunIdle
         \/ \E c \in Call : \/ Recovery(c) \/ Person(c) \/ ReopenAnswered(c) \/ ReopenParked(c)
                            \/ Act(c) \/ ComeToRest(c)
  PROVE  SmoothInv'
<1> USE CallValues DEF Inv, SmoothInv, TypeOK, CallInv, Placed, Untouched, Owed, Single, Listed, Truthful, Begun, PreDispatch, InBatch, HasIntent, Smooth, Dispatching, turn, rows, gates, batch, memory, world, StillBatch, Goto, At, Aborted
<1>1. CASE StepCancelled \/ Stop \/ DeliverStop \/ RunIdle
  BY <1>1 DEF StepCancelled, Stop, DeliverStop, RunIdle
<1>2. CASE RecordAgain \/ RecordStop \/ StopIdle
  BY <1>2 DEF RecordAgain, RecordStop, StopIdle, CloseGates
<1>3. CASE FinishTurn
  BY <1>3 DEF FinishTurn, EndTurn
<1>4. CASE Open \/ Recovered
  BY <1>4 DEF Open, Recovered
<1>5. ASSUME NEW c \in Call, Recovery(c) PROVE FALSE
  BY <1>5 DEF Recovery, RecoverCancelled, RecoverRetry, RecoverUnknown, Recovering, Inquire,
              InquiryFails, InquiryAnswered, InquiryParks
<1>6. ASSUME NEW c \in Call, AnswerDecision(c) \/ AnswerQuestion(c) \/ ReopenAnswered(c)
      PROVE  SmoothInv'
  BY <1>6 DEF AnswerDecision, AnswerQuestion, ReopenAnswered, Continuable
<1>7. ASSUME NEW c \in Call, Expire(c) PROVE SmoothInv'
  <2>1. /\ UNCHANGED <<turn, rows, memory, past>>
        /\ \A d \in Call : /\ decision[d] # "none" => decision'[d] # "none"
                           /\ question[d] # "none" => question'[d] # "none"
    BY <1>7 DEF Expire
  <2>2. QED
    BY <2>1
<1>8. ASSUME NEW c \in Call, ReopenParked(c) PROVE SmoothInv'
  <2>1. CASE decision[c] \in {"open", "allowed"}
    BY <1>8, <2>1 DEF ReopenParked, Continuable, Put, Gated
  <2>2. CASE decision[c] \notin {"open", "allowed"}
    BY <1>8, <2>2 DEF ReopenParked, Continuable, Put, Say, First, Consume, Gated
  <2>3. QED
    BY <2>1, <2>2
<1>9. ASSUME NEW c \in Call, Act(c) \/ ComeToRest(c) PROVE SmoothInv'
  BY <1>9 DEF Act, ComeToRest
<1>10. QED
  BY <1>1, <1>2, <1>3, <1>4, <1>5, <1>6, <1>7, <1>8, <1>9 DEF Person

LEMMA InitSmooth == Init => SmoothInv
BY CallValues DEF Init, SmoothInv, Smooth, InBatch, PreDispatch

LEMMA NextSmooth == Inv /\ SmoothInv /\ [Next]_vars => SmoothInv'
<1> SUFFICES ASSUME Inv, SmoothInv, [Next]_vars PROVE SmoothInv'
  OBVIOUS
<1>1. CASE crashes # 0
  <2>1. ASSUME NEW c \in Call, CallStep(c) PROVE crashes' = crashes
    BY <2>1, CallStepSteady DEF Inv, Steady
  <2>2. crashes' = crashes \/ crashes' = crashes + 1
    BY <2>1 DEF Next, EndOfBatch, Recovery, Person, vars,
                StartBatch, EndThrown, EndParked, EndAborted, VerifyStep, EndStep, DrainAborted,
                CloseAborted, StepCancelled, RecordAgain, FinishTurn, Crash, Open, Recovered, Stop,
                RecordStop, DeliverStop, StopIdle, RunIdle, RecoverCancelled, RecoverRetry,
                RecoverUnknown, Inquire, InquiryFails, InquiryAnswered, InquiryParks,
                AnswerDecision,
                AnswerQuestion, Expire, ReopenAnswered, ReopenParked, Act, ComeToRest
  <2>3. QED
    BY <1>1, <2>2 DEF Inv, TypeOK, SmoothInv
<1>2. CASE crashes = 0
  <2>1. ASSUME NEW c \in Call, CallStep(c) PROVE SmoothInv'
    <3>1. Kept(c)
      BY <2>1, SchedulingKept, AdmissionKept, DispatchKept, SettlementKept DEF Inv, CallStep
    <3>2. Steady(c)
      BY <2>1, CallStepSteady DEF Inv
    <3>3. Smooth(c)'
      BY <1>2, <2>1, CallStepSmooth DEF Inv, SmoothInv
    <3>4. ASSUME NEW d \in Call \ {c} PROVE Smooth(d)'
      BY <1>2, <3>1, <3>2, OthersSmooth DEF SmoothInv, Kept
    <3>5. QED
      BY <1>2, <3>2, <3>3, <3>4 DEF SmoothInv, Steady
  <2>2. CASE Crash
    BY <1>2, <2>2 DEF Crash, SmoothInv
  <2>3. CASE UNCHANGED vars
    BY <2>3 DEF vars, turn, rows, gates, batch, memory, SmoothInv, Smooth, InBatch, PreDispatch
  <2>4. QED
    BY <1>2, <2>1, <2>2, <2>3, EndOfBatchSmooth, OtherStepsSmooth DEF Next
<1>3. QED
  BY <1>1, <1>2

\* As long as nothing crashes, a turn that ends leaves no effect open and no call unanswered
\* but one that waits for its approval, and those whose question was kept from being asked
\* and whose turn was drained by a Stop.
THEOREM TurnsEndSettled == Spec => []UninterruptedTurnsAreSettled
<1>1. Inv /\ SmoothInv => UninterruptedTurnsAreSettled
  BY CallValues DEF Inv, TypeOK, CallInv, Placed, Begun, SmoothInv, Smooth, Dispatching, InBatch,
                    UninterruptedTurnsAreSettled
<1>2. QED
  BY <1>1, InitInv, NextInv, InitSmooth, NextSmooth, PTL DEF Spec

\* A batch goes on past a call of unknown outcome only when a person was asked.
THEOREM NobodyIsPassedOver == Spec => UnknownIsAsked
<1>1. Inv /\ SmoothInv /\ [Next]_vars
        => [\A c \in Call :
              /\ crashes = 0 /\ phase = "tools" /\ phase' = "checkpoint"
              /\ InBatch(c) /\ answer[c] = "unknown"
              => question[c] # "none"]_vars
  <2> SUFFICES ASSUME Inv, SmoothInv, Next, NEW c \in Call, crashes = 0,
                      phase = "tools", phase' = "checkpoint", InBatch(c), answer[c] = "unknown"
               PROVE  question[c] # "none"
    OBVIOUS
  <2>1. proc = "verifying"
    <3>1. ASSUME NEW d \in Call, CallStep(d) PROVE phase' = phase
      BY <3>1, CallStepSteady DEF Inv, Steady
    <3>2. QED
      BY <3>1 DEF Next, EndOfBatch, Recovery, Person, turn, CloseInterrupted, EndTurn, Continuable,
                StartBatch, EndThrown, EndParked, EndAborted, VerifyStep, EndStep, DrainAborted,
                CloseAborted, StepCancelled, RecordAgain, FinishTurn, Crash, Open, Recovered, Stop,
                RecordStop, DeliverStop, StopIdle, RunIdle, RecoverCancelled, RecoverRetry,
                RecoverUnknown, Inquire, InquiryFails, InquiryAnswered, InquiryParks,
                AnswerDecision,
                AnswerQuestion, Expire, ReopenAnswered, ReopenParked, Act, ComeToRest
  <2>2. QED
    BY <2>1 DEF SmoothInv, Smooth
<1>2. QED
  BY <1>1, InitInv, NextInv, InitSmooth, NextSmooth, PTL DEF Spec, UnknownIsAsked
=============================================================================
