CONSTANTS
  s1 = s1  m1 = m1  m2 = m2  c1 = c1  c2 = c2
  None = None
  Servers = {s1}
  Requests = {m1, m2}
  ServerOf <- OneServer
  Consumers = {c1, c2}
  MaxAttempts = 2
  MaxCuts = 1
SPECIFICATION FairSpec
INVARIANTS
  TypeOK
  NothingLost
  OnlyRedeliveryRepeats
  FailsOnlyIfCut
PROPERTIES
  EventuallySettled
CHECK_DEADLOCK FALSE
