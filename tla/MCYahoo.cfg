SPECIFICATION FairSpec
CONSTANTS
  s1 = s1
  Symbol = {s1}
  ChanCap = 1
  MaxTs = 3
  MaxLoops = 2
INVARIANTS TypeOK OnceInOrder ReturnsAfterLoops RestRemembersSent
PROPERTIES LastTimestampsGrow StoppedLoopEnds ShutdownCompletes
CHECK_DEADLOCK FALSE
