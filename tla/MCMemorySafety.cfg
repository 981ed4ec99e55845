SPECIFICATION Spec
CONSTANTS
  c1 = c1
  c2 = c2
  s1 = s1
  s2 = s2
  Caller = {c1, c2}
  NoCaller = none
  Symbol = {s1, s2}
  MaxDataPoints = 10
  CheckEvery = 4
  ResizeAbove = 4
  MinCapacity = 2
  MaxAdds = 11
INVARIANTS TypeOK KeepsNewest
CHECK_DEADLOCK FALSE
