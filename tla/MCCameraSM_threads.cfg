SPECIFICATION FairSpec
CONSTANTS
  c1 = c1
  c2 = c2
  AppThreads = {c1, c2}
  IntPic = ip
  Config <- ThreadConfig
  MaxEvents = 2
CHECK_DEADLOCK FALSE
INVARIANTS TypeOK CaptureEnds AnswersAreAwaited
PROPERTIES EveryCallReturns NotifierReturns
