SPECIFICATION Spec
CONSTANTS
  Client = {c1}
  Commander = {}
  Symbol = {s1, s2}
  SendCap = 2
  BroadcastCap = 1
  MaxUpdates = 2
  MaxCommands = 0
PROPERTY StateOnlyGrows
CHECK_DEADLOCK FALSE
