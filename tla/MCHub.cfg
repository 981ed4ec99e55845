SPECIFICATION FairSpec
CONSTANTS
  Client = {c1, c2}
  Commander = {c1}
  Symbol = {s1}
  SendCap = 2
  BroadcastCap = 1
  MaxUpdates = 2
  MaxCommands = 1
INVARIANTS TypeOK HubSendsOnOpen NoGap
PROPERTIES DeadClientReaped ProducerNeverStuck
CHECK_DEADLOCK FALSE
