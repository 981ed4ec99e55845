SPECIFICATION Spec
CONSTANTS
  Client = {c1}
  Commander = {c1}
  Symbol = {s1}
  SendCap = 2
  BroadcastCap = 1
  MaxUpdates = 3
  MaxCommands = 1
INVARIANT SlowClientHarmless
CHECK_DEADLOCK FALSE
