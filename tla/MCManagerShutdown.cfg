SPECIFICATION FairSpec
CONSTANTS
  a1 = a1
  a2 = a2
  b1 = b1
  a = a
  b = b
  Object = {a1}
  Name = {a}
  NameOf <- MCNameOf
  Configured = {a1}
  Request = {r1}
  NoObject = none
  MaxManagerStarts = 1
  MaxStarts = 2
PROPERTY ShutdownCompletes
CHECK_DEADLOCK FALSE
