SPECIFICATION FairSpec
CONSTANTS
  r1 = r1  r2 = r2
  Callers = {r1, r2}
  Capacity <- OneEach
INVARIANTS ReplyPending
PROPERTIES StatusLineSpec MutualWaitIsFinal StatusAnsweredUnlessStuck ServiceResumesUnlessStuck
CHECK_DEADLOCK FALSE
