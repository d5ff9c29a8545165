SPECIFICATION FairSpec
CONSTANTS
  Call = {1, 2, 3}
  Mutation = {1, 3}
  SafeRead = {2}
  Host = {3}
  Guarded = {1}
  Safe = {2, 3}
  MaxCrashes = 1
CHECK_DEADLOCK FALSE
INVARIANTS TypeOK IntentSpendsApproval UninterruptedTurnsAreSettled
PROPERTIES EffectSpec NoIntentAfterStop AnswersAreFinal UnknownIsAsked TurnsEnd
