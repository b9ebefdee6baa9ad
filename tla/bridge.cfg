SPECIFICATION FairSpec
CONSTANTS
  r1 = r1
  Requests = {r1, r2, r3}
  Bodies <- EveryBody
  MaxRestarts = 1
  None = None
INVARIANTS
  TypeOK
  OneCodexAtATime
  SharedIsShared
  ThreadHeldStill
  AnswerNamesItsThread
  RetriedOnlyWhenLost
PROPERTIES
  AnswersAreCounted
  RequestsEnd
