SPECIFICATION FairSpec
CONSTANTS
  a1 = a1
  a2 = a2
  b1 = b1
  a = a
  b = b
  Object = {a1, a2, b1}
  Name = {a, b}
  NameOf <- MCNameOf
  Configured = {a1, b1}
  Request = {r1}
  NoObject = none
  MaxManagerStarts = 2
  MaxStarts = 2
INVARIANTS TypeOK WaitGroupCoversLoops ActiveLoopIsStoppable
PROPERTY QuitStopsLoops
CHECK_DEADLOCK FALSE
