SPECIFICATION FairSpec
CONSTANTS
  m = m
  Name = {m}
  Scripts <- MCScripts
  MaxTokens = 5
  MaxFrames = 14
INVARIANTS
  RunsOwnThread
  RetryReachesItsLoop
  EndsWell
  ProgramBeginsStay
PROPERTIES
  BreakEndsOneLoop
  NothingAfterRetry
  EndsOrRepeats
