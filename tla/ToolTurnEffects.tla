--------------------------- MODULE ToolTurnEffects ---------------------------
(***************************************************************************)
(* ToolTurn implements EffectOnce for every batch of calls: whatever parks,*)
(* stops, fails, crashes or is recovered, a call acts at most once, a safe *)
(* read at most twice, and what the model is told of it stays true, but    *)
(* for the one answer of which Stage says that it need not be.             *)
(***************************************************************************)
EXTENDS ToolTurnProofs, FiniteSetTheorems

-----------------------------------------------------------------------------
(* What one step tells of a call.                                          *)

\* What an answer makes of a call.
Tale(c) ==
  /\ acted'[c] = acted[c]
  /\ \/ Stage(c)' = Stage(c)
     \/ Stage(c) = "new" /\ Stage(c)' = "never"
     \/ Stage(c) = "started" /\ Stage(c)' \in {"over", "unsure"}
     \/ Stage(c) = "started" /\ Stage(c)' = "never" /\ acted[c] = {}

\* Stages, one by one.
LEMMA StageValues ==
  ASSUME NEW c \in Call
  PROVE  /\ answer[c] = "none" => Stage(c) = IF HasIntent(c) THEN "started" ELSE "new"
         /\ answer[c] \in {"not_run", "recalled"} => Stage(c) = "never"
         /\ answer[c] = "no_effect" => Stage(c) = IF c \in SafeRead THEN "unsure" ELSE "never"
         /\ answer[c] = "result" => Stage(c) = IF c \in SafeRead THEN "unsure" ELSE "over"
         /\ answer[c] = "stopped" => Stage(c) = "over"
         /\ answer[c] \notin {"none", "not_run", "recalled", "no_effect", "result", "stopped"}
              => Stage(c) = "unsure"
         /\ Stage(c) \in Effect!Stages
BY DEF Stage, Effect!Stages

\* The same in the next state.
LEMMA StageValuesNext ==
  ASSUME NEW c \in Call
  PROVE  /\ answer'[c] = "none" => Stage(c)' = IF HasIntent(c)' THEN "started" ELSE "new"
         /\ answer'[c] \in {"not_run", "recalled"} => Stage(c)' = "never"
         /\ answer'[c] = "no_effect" => Stage(c)' = IF c \in SafeRead THEN "unsure" ELSE "never"
         /\ answer'[c] = "result" => Stage(c)' = IF c \in SafeRead THEN "unsure" ELSE "over"
         /\ answer'[c] = "stopped" => Stage(c)' = "over"
         /\ answer'[c] \notin {"none", "not_run", "recalled", "no_effect", "result", "stopped"}
              => Stage(c)' = "unsure"
         /\ Stage(c)' \in Effect!Stages
BY DEF Stage, Effect!Stages

\* A call whose rows and world stay the same.
LEMMA Untold ==
  ASSUME NEW c \in Call, answer'[c] = answer[c], outcome'[c] = outcome[c],
         c \in pending' <=> c \in pending, acted'[c] = acted[c]
  PROVE  Tale(c)
BY DEF Tale, Stage, HasIntent

\* The answer to a call that has no intent: it did not run.
LEMMA NotRunTold ==
  ASSUME TypeOK, NEW c \in Call, CallInv(c), answer[c] = "none", ~HasIntent(c),
         answer'[c] = "not_run", acted'[c] = acted[c]
  PROVE  Tale(c)
BY StageValues, StageValuesNext DEF Tale

\* The answer to a call that has its intent.
LEMMA SettledTold ==
  ASSUME TypeOK, NEW c \in Call, CallInv(c), answer[c] = "none", HasIntent(c),
         answer'[c] \in Answer \ {"none", "not_run"},
         answer'[c] = "no_effect" /\ c \notin SafeRead => acted[c] = {},
         answer'[c] = "recalled" => acted[c] = {},
         acted'[c] = acted[c]
  PROVE  Tale(c)
BY StageValues, StageValuesNext DEF Tale, Answer

-----------------------------------------------------------------------------
(* The steps of a call.                                                    *)

LEMMA CallTells ==
  ASSUME Inv, NEW c \in Call, CallStep(c), ~Intent(c)
  PROVE  \A d \in Call : Tale(d)
<1> USE DEF Inv, TypeOK, rows, world, StillBatch
<1>1. ASSUME Skip(c) \/ SkipParked(c) \/ Begin(c) \/ CancelEarly(c) \/ Ask(c) \/ Approved(c)
             \/ Park(c) \/ Prepare(c) \/ Throw(c) \/ Invoke(c) \/ Respond(c)
             \/ BodyThrows(c) \/ TimeOut(c) \/ Cut(c) \/ Unsent(c) \/ Retry(c)
             \/ HostRecord(c) \/ AskHook(c) \/ HookThrows(c) \/ AskOutcome(c)
      PROVE  \A d \in Call : Tale(d)
  <2>1. UNCHANGED <<rows, acted>>
    BY <1>1
    DEF Skip, SkipParked, Begin, CancelEarly, Ask, Approved, Park, Prepare, Throw,
        Invoke, Respond, BodyThrows, TimeOut, Cut, Unsent, Retry, HostRecord,
        AskHook, HookThrows, AskOutcome, Observe
  <2>2. QED
    BY <2>1, Untold
<1>2. ASSUME Deny(c) \/ RefuseCancelled(c) \/ Rejected(c) \/ HostUnavailable(c)
      PROVE  \A d \in Call : Tale(d)
  <2>1. Refuse(c, "not_run") /\ UNCHANGED world /\ PreDispatch(c)
    BY <1>2 DEF Deny, RefuseCancelled, Rejected, HostUnavailable, CallInv, Placed, At
  <2>2. answer[c] = "none" /\ ~HasIntent(c) /\ CallInv(c)
    BY <2>1 DEF CallInv, Untouched, HasIntent
  <2>3. answer' = [answer EXCEPT ![c] = "not_run"] /\ UNCHANGED <<pending, outcome, acted>>
    BY <2>1, <2>2 DEF Refuse, Say, First
  <2>4. Tale(c)
    BY <2>2, <2>3, NotRunTold
  <2>5. ASSUME NEW d \in Call, d # c PROVE Tale(d)
    BY <2>3, <2>5, Untold
  <2>6. QED
    BY <2>4, <2>5
<1>3. ASSUME NEW code \in Answer \ {"none", "not_run", "recalled"}, NEW o \in Outcome, Finish(c, code, o),
             Begun(c), code = "no_effect" /\ c \notin SafeRead => acted[c] = {},
             UNCHANGED acted
      PROVE  \A d \in Call : Tale(d)
  <2>1. c \in pending /\ answer[c] = "none" /\ HasIntent(c) /\ CallInv(c)
    BY <1>3 DEF CallInv, Owed, HasIntent
  <2>2. /\ answer' = [answer EXCEPT ![c] = code]
        /\ pending' = pending \ {c}
        /\ \A d \in Call \ {c} : outcome'[d] = outcome[d]
    BY <1>3, <2>1 DEF Finish, Say, Settle, First
  <2>3. Tale(c)
    BY <1>3, <2>1, <2>2, SettledTold
  <2>4. ASSUME NEW d \in Call, d # c PROVE Tale(d)
    BY <1>3, <2>2, <2>4, Untold
  <2>5. QED
    BY <2>3, <2>4
<1>4. "known" \in Outcome /\ "unknown" \in Outcome
      /\ {"result", "no_effect", "stopped", "cut", "unknown"} \subseteq Answer \ {"none", "not_run", "recalled"}
  BY DEF Outcome, Answer
<1>5. ASSUME BeginUnavailable(c) \/ LoopCancelled(c) \/ RejectBeforeEffect(c) \/ GiveUpUnsent(c)
      PROVE  \A d \in Call : Tale(d)
  <2>1. Finish(c, "no_effect", "known") /\ UNCHANGED acted
    BY <1>5 DEF BeginUnavailable, LoopCancelled, RejectBeforeEffect, GiveUpUnsent
  <2>2. Begun(c) /\ (c \notin SafeRead => acted[c] = {})
    BY <1>5 DEF CallInv, Placed, Sent, Ready, BeginUnavailable, Turn, LoopCancelled, RejectBeforeEffect,
                GiveUpUnsent, At
  <2>3. QED
    BY <2>1, <2>2, <1>3, <1>4
<1>6. ASSUME SettleResult(c) \/ SettleStopped(c) \/ SettleUnknown(c)
      PROVE  \A d \in Call : Tale(d)
  <2>1. PICK code \in {"result", "cut", "stopped", "unknown"}, o \in {"known", "unknown"} :
          Finish(c, code, o)
    BY <1>6 DEF SettleResult, SettleStopped, SettleUnknown
  <2>2. Begun(c) /\ UNCHANGED acted
    BY <1>6 DEF CallInv, Placed, SettleResult, SettleStopped, SettleUnknown, Unseen, At
  <2>3. QED
    BY <2>1, <2>2, <1>3, <1>4
<1>7. QED
  BY <1>1, <1>2, <1>5, <1>6 DEF CallStep

-----------------------------------------------------------------------------
(* The steps of a turn, of the recovery, of the person and of the world.   *)

\* What a turn that closes says of its calls.
LEMMA ClosingTells ==
  ASSUME Inv, CloseInterrupted, UNCHANGED acted, NEW d \in Call
  PROVE  Tale(d)
<1> USE DEF Inv, TypeOK, CloseInterrupted, SayAll, Unanswered
<1>1. CallInv(d)
  OBVIOUS
<1>2. CASE answer[d] # "none"
  <2>1. answer'[d] = answer[d]
    BY <1>2
  <2>2. QED
    BY <1>2, <2>1, StageValues, StageValuesNext DEF Tale
<1>3. CASE answer[d] = "none" /\ InBatch(d) /\ PreDispatch(d)
  <2>1. ~HasIntent(d) /\ answer'[d] = "not_run"
    BY <1>1, <1>3 DEF CallInv, Untouched, HasIntent, First
  <2>2. QED
    BY <1>1, <1>3, <2>1, NotRunTold
<1>4. CASE answer[d] = "none" /\ (InBatch(d) \/ d \in pending) /\ ~(InBatch(d) /\ PreDispatch(d))
  <2>1. d \in pending
    BY <1>1, <1>4, CallValues DEF CallInv, Owed, Begun, Truthful, InBatch, PreDispatch
  <2>2. HasIntent(d) /\ answer'[d] = "unknown"
    BY <1>4, <2>1 DEF HasIntent, First
  <2>3. QED
    BY <1>1, <1>4, <2>2, SettledTold DEF Answer
<1>5. CASE answer[d] = "none" /\ ~InBatch(d) /\ d \notin pending
  BY <1>5, Untold
<1>6. QED
  BY <1>2, <1>3, <1>4, <1>5

LEMMA TurnTells ==
  ASSUME Inv,
         StartBatch \/ EndAborted \/ VerifyStep \/ EndStep \/ CloseAborted
         \/ StepCancelled \/ RecordAgain \/ FinishTurn \/ Crash \/ Recovered
         \/ Stop \/ RecordStop \/ DeliverStop \/ StopIdle \/ RunIdle \/ EndThrown
         \/ EndParked \/ DrainAborted \/ Open
  PROVE  \A d \in Call : Tale(d)
<1> USE DEF Inv, TypeOK, rows, world
<1>1. ASSUME StartBatch \/ EndAborted \/ VerifyStep \/ EndStep \/ CloseAborted \/ StepCancelled
             \/ RecordAgain \/ FinishTurn \/ Crash \/ Recovered \/ Stop
             \/ RecordStop \/ DeliverStop \/ StopIdle \/ RunIdle
      PROVE  \A d \in Call : Tale(d)
  <2>1. UNCHANGED <<rows, acted>>
    BY <1>1
    DEF StartBatch, EndAborted, VerifyStep, EndStep, CloseAborted, StepCancelled,
        RecordAgain, FinishTurn, Crash, Recovered, Stop, RecordStop, DeliverStop,
        StopIdle, RunIdle
  <2>2. QED
    BY <2>1, Untold
<1>2. CASE EndThrown \/ Open
  <2>1. UNCHANGED acted /\ (CloseInterrupted \/ UNCHANGED rows)
    BY <1>2 DEF EndThrown, Open
  <2>2. QED
    BY <2>1, ClosingTells, Untold
<1>3. ASSUME NEW S \in SUBSET Call, \A d \in S : PreDispatch(d),
             answer' = SayAll(S, [c \in Call |-> "not_run"]), UNCHANGED <<pending, outcome, acted>>,
             NEW d \in Call
      PROVE  Tale(d)
  <2>1. CASE d \in S
    <3>1. CallInv(d) /\ answer[d] = "none" /\ ~HasIntent(d)
      BY <1>3, <2>1 DEF CallInv, Untouched, HasIntent
    <3>2. answer'[d] = "not_run"
      BY <1>3, <2>1, <3>1 DEF SayAll, First
    <3>3. QED
      BY <1>3, <3>1, <3>2, NotRunTold
  <2>2. CASE d \notin S
    BY <1>3, <2>2, Untold DEF SayAll
  <2>3. QED
    BY <2>1, <2>2
<1>4. CASE EndParked
  <2>1. \A d \in skipped : PreDispatch(d)
    BY <1>4 DEF EndParked, BatchOver, CallInv, Placed
  <2>2. QED
    BY <1>3, <1>4, <2>1 DEF EndParked
<1>5. CASE DrainAborted
  BY <1>3, <1>5 DEF DrainAborted
<1>6. QED
  BY <1>1, <1>2, <1>4, <1>5

LEMMA OutsideTells ==
  ASSUME Inv, NEW c \in Call,
         RecoverRetry(c) \/ Inquire(c) \/ InquiryFails(c) \/ InquiryAnswered(c) \/ InquiryParks(c)
         \/ AnswerDecision(c) \/ AnswerQuestion(c) \/ Expire(c)
         \/ ReopenAnswered(c) \/ ComeToRest(c) \/ RecoverCancelled(c)
         \/ RecoverUnknown(c) \/ ReopenParked(c)
  PROVE  \A d \in Call : Tale(d)
<1> USE DEF Inv, TypeOK, rows, world
<1>1. ASSUME RecoverRetry(c) \/ Inquire(c) \/ InquiryFails(c) \/ InquiryAnswered(c) \/ InquiryParks(c)
             \/ AnswerDecision(c) \/ AnswerQuestion(c) \/ Expire(c)
             \/ ReopenAnswered(c) \/ ComeToRest(c)
      PROVE  \A d \in Call : Tale(d)
  <2>1. UNCHANGED <<rows, acted>>
    BY <1>1
    DEF RecoverRetry, Inquire, InquiryFails, InquiryAnswered, InquiryParks,
        AnswerDecision, AnswerQuestion, Expire, ReopenAnswered, ComeToRest
  <2>2. QED
    BY <2>1, Untold
<1>2. ASSUME RecoverCancelled(c) \/ RecoverUnknown(c)
      PROVE  \A d \in Call : Tale(d)
  <2>1. CallInv(c) /\ c \in pending /\ answer[c] = "none" /\ HasIntent(c)
    BY <1>2 DEF RecoverCancelled, RecoverUnknown, Recovering, CallInv, Listed, Owed, HasIntent
  <2>2. /\ \E code \in {"recalled", "recalled_retry", "unknown"} :
             /\ answer' = [answer EXCEPT ![c] = code]
             /\ code = "recalled" => acted[c] = {}
        /\ pending' = pending \ {c}
        /\ \A d \in Call \ {c} : outcome'[d] = outcome[d]
        /\ UNCHANGED acted
    <3>1. CASE RecoverCancelled(c)
      <4>1. call[c].attempt = 1 => acted[c] = {}
        BY <2>1, <3>1 DEF RecoverCancelled, RecoveredAs, CallInv, Sent, Begun
      <4>2. QED
        BY <2>1, <3>1, <4>1 DEF RecoverCancelled, Say, Settle, First
    <3>2. CASE RecoverUnknown(c)
      BY <2>1, <3>2 DEF RecoverUnknown, Say, Settle, First
    <3>3. QED
      BY <1>2, <3>1, <3>2
  <2>3. Tale(c)
    BY <2>1, <2>2, SettledTold DEF Answer
  <2>4. ASSUME NEW d \in Call, d # c PROVE Tale(d)
    BY <2>2, <2>4, Untold
  <2>5. QED
    BY <2>3, <2>4
<1>3. ASSUME ReopenParked(c)
      PROVE  \A d \in Call : Tale(d)
  <2>1. CallInv(c) /\ answer[c] = "none" /\ ~HasIntent(c)
    BY <1>3 DEF ReopenParked, CallInv, Gated
  <2>2. /\ answer' = answer \/ answer' = [answer EXCEPT ![c] = "not_run"]
        /\ UNCHANGED <<pending, outcome, acted>>
    BY <1>3, <2>1 DEF ReopenParked, Say, First
  <2>3. Tale(c)
    BY <2>1, <2>2, NotRunTold, Untold
  <2>4. ASSUME NEW d \in Call, d # c PROVE Tale(d)
    BY <2>2, <2>4, Untold
  <2>5. QED
    BY <2>3, <2>4
<1>4. QED
  BY <1>1, <1>2, <1>3

-----------------------------------------------------------------------------
(* The refinement.                                                         *)

\* What is told, call by call, is a step of EffectOnce.
LEMMA TellsRefine ==
  ASSUME Inv, Inv', \A d \in Call : Tale(d)
  PROVE  Effect!Tell
<1>1. [d \in Call |-> Stage(d)'] \in [Call -> Effect!Stages]
  BY StageValuesNext
<1>2. ASSUME NEW d \in Call
      PROVE  Effect!Told(d, Stage(d)')
  <2>1. acted[d] = {} => Cardinality(acted[d]) = 0
    BY FS_EmptySet
  <2>2. QED
    BY <2>1 DEF Tale, Effect!Told
<1>3. [d \in Call |-> Cardinality(acted'[d])] = [d \in Call |-> Cardinality(acted[d])]
  BY DEF Tale
<1>4. QED
  BY <1>1, <1>2, <1>3 DEF Effect!Tell

\* The intent of a call starts its effect.
LEMMA IntentRefines ==
  ASSUME Inv, NEW c \in Call, Intent(c)
  PROVE  Effect!Start(c)
<1> USE DEF Inv, TypeOK, Intent, world
<1>1. PreDispatch(c) /\ answer[c] = "none" /\ ~HasIntent(c)
  BY DEF CallInv, Untouched, HasIntent
<1>2. Stage(c) = "new" /\ Stage(c)' = "started"
  BY <1>1, StageValues, StageValuesNext DEF HasIntent
<1>3. ASSUME NEW d \in Call, d # c PROVE Stage(d)' = Stage(d)
  BY <1>3 DEF Stage, HasIntent
<1>4. UNCHANGED acted
  OBVIOUS
<1>5. QED
  BY <1>2, <1>3, <1>4 DEF Effect!Start

\* An attempt that acts is one more act of its call, within its limit.
LEMMA ActRefines ==
  ASSUME Inv, NEW c \in Call, Act(c)
  PROVE  Effect!Act(c)
<1> USE DEF Inv, TypeOK
<1>1. PICK a \in live[c] : acted' = [acted EXCEPT ![c] = @ \cup {a}]
  BY DEF Act
<1>2. CallInv(c) /\ a \notin acted[c] /\ HasIntent(c) /\ a \in Attempt
  BY <1>1 DEF CallInv, Truthful
<1>3. Stage(c) \in {"started", "unsure"}
  BY <1>1, <1>2, StageValues DEF CallInv, Truthful, Answer
<1>4. IsFiniteSet(acted[c]) /\ Cardinality(acted[c]) \in Nat
      /\ Cardinality(acted[c] \cup {a}) = Cardinality(acted[c]) + 1
  <2>1. IsFiniteSet(Attempt)
    <3>1. IsFiniteSet({1})
      BY FS_Singleton
    <3>2. IsFiniteSet({1} \cup {2})
      BY <3>1, FS_AddElement
    <3>3. Attempt = {1} \cup {2}
      BY DEF Attempt
    <3>4. QED
      BY <3>2, <3>3
  <2>2. IsFiniteSet(acted[c])
    BY <2>1, FS_Subset
  <2>3. QED
    BY <1>2, <2>2, FS_CardinalityType, FS_AddElement
<1>5. Cardinality(acted[c]) < Effect!Limit(c)
  <2>1. CASE c \notin SafeRead
    <3>1. acted[c] = {}
      BY <1>1, <1>2, <2>1 DEF CallInv, Truthful
    <3>2. Cardinality(acted[c]) = 0
      BY <3>1, FS_EmptySet
    <3>3. QED
      BY <2>1, <3>2 DEF Effect!Limit
  <2>2. CASE c \in SafeRead
    <3>1. PICK b \in Attempt : acted[c] \subseteq {b}
      BY <1>2 DEF Attempt
    <3>2. IsFiniteSet({b}) /\ Cardinality({b}) = 1
      BY FS_Singleton
    <3>3. Cardinality(acted[c]) <= 1
      BY <3>1, <3>2, FS_Subset
    <3>4. QED
      BY <1>4, <2>2, <3>3 DEF Effect!Limit
  <2>3. QED
    BY <2>1, <2>2
<1>6. ASSUME NEW d \in Call PROVE Stage(d)' = Stage(d)
  BY DEF Stage, HasIntent, Act, rows
<1>7. ASSUME NEW d \in Call
      PROVE  Cardinality(acted'[d])
               = IF d = c THEN Cardinality(acted[c]) + 1 ELSE Cardinality(acted[d])
  BY <1>1, <1>4
<1>8. QED
  BY <1>3, <1>5, <1>6, <1>7 DEF Effect!Act

LEMMA InitEffect == Init => Effect!Init
<1> SUFFICES ASSUME Init PROVE Effect!Init
  OBVIOUS
<1>1. ASSUME NEW c \in Call PROVE Stage(c) = "new" /\ Cardinality(acted[c]) = 0
  BY FS_EmptySet, StageValues DEF Init, HasIntent
<1>2. QED
  BY <1>1 DEF Effect!Init

\* Every step of a batch is a step of EffectOnce, or none.
LEMMA StepEffect ==
  ASSUME Inv, Inv', [Next]_vars
  PROVE  [Effect!Next]_<<[c \in Call |-> Stage(c)], [c \in Call |-> Cardinality(acted[c])]>>
<1>1. CASE \A d \in Call : Tale(d)
  BY <1>1, TellsRefine DEF Effect!Next
<1>2. ASSUME NEW c \in Call, Intent(c) \/ Act(c)
      PROVE  Effect!Next
  BY <1>2, IntentRefines, ActRefines DEF Effect!Next
<1>3. ASSUME NEW c \in Call, CallStep(c), ~Intent(c)
      PROVE  \A d \in Call : Tale(d)
  BY <1>3, CallTells
<1>4. CASE \/ StartBatch \/ EndOfBatch
           \/ StepCancelled \/ RecordAgain \/ FinishTurn
           \/ Crash \/ Open \/ Recovered
           \/ Stop \/ RecordStop \/ DeliverStop \/ StopIdle \/ RunIdle
  BY <1>1, <1>4, TurnTells DEF EndOfBatch
<1>5. ASSUME NEW c \in Call,
             \/ Recovery(c) \/ Person(c) \/ ReopenAnswered(c) \/ ReopenParked(c)
             \/ ComeToRest(c)
      PROVE  \A d \in Call : Tale(d)
  BY <1>5, OutsideTells DEF Recovery, Person
<1>6. CASE UNCHANGED vars
  BY <1>1, <1>6, Untold DEF vars, rows, world
<1>7. QED
  BY <1>1, <1>2, <1>3, <1>4, <1>5, <1>6 DEF Next

\* Whatever parks, stops, fails or crashes, a call acts only between its
\* intent and the answer that closes it, no more often than it may, and what
\* the model is told of it stays true, "cancelled before dispatch" included when the
\* recovery says it of a first attempt; of a second ("recalled_retry") nothing is shown.
THEOREM EffectsOnce == Spec => EffectSpec
<1>1. Inv /\ Inv' /\ [Next]_vars
        => [Effect!Next]_<<[c \in Call |-> Stage(c)], [c \in Call |-> Cardinality(acted[c])]>>
  BY StepEffect
<1>2. QED
  BY <1>1, InitEffect, Invariance, PTL DEF Spec, EffectSpec, Effect!Spec
=============================================================================
