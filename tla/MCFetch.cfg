SPECIFICATION FairSpec
CONSTANTS
  A = A
  Bad = Bad
  p1 = p1
  p2 = p2
  p3 = p3
  noUrl = noUrl
  Direct = Direct
  Null = Null
  s1 = s1
  s2 = s2
  Source = {s1, s2}
  Symbol = {A, Bad}
  Lists <- MCLists
  BadSymbol = {Bad}
  Bodies <- MCBodies
  AcceptedLists <- MCAcceptedLists
  Unparsable = {noUrl}
  Scraped = {p3}
  ProxyLimit = 1
  MaxRetries = 1
  ConcurrentRequests = 1
  MaxFetches = 2
INVARIANTS TypeOK NeverDirect FetchAccounts
PROPERTY FetchReturns
CHECK_DEADLOCK FALSE
