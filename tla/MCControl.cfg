SPECIFICATION Spec
CONSTANTS
  S1 = S1
  S2 = S2
  Full = Full
  Empty = Empty
  Yahoo = Yahoo
  Other = Other
  None = None
  Garbage = Garbage
  r1 = r1
  r2 = r2
  Name = {Yahoo, Other}
  Symbol = {S1, S2, Full, Empty}
  List = {{}, {S1}}
  Reference = {Full, Empty}
  Table <- MCTable
  FirstFile <- MCFirstFile
  Request = {r1, r2}
  MaxRequests = 3
  MaxRestarts = 2
  MaxFaults = 1
SYMMETRY Symmetry
INVARIANTS TypeOK AnswersAddUp ConfigFollowsManager AcknowledgedSurvives
CHECK_DEADLOCK FALSE
