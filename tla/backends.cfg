\* Either adapter, with engines that hang, die and restart, commands that fail,
\* lost answers, pins that run out, late requests, and restarts of coload.
SPECIFICATION MCSpec
CONSTANTS
  m1 = m1  m2 = m2  Nothing = nothing  NoModel = nothing
  Served = {m1, m2}
  Lives = 2
  Configured = {m1, m2}
  EmbedOnly = {m2}
  Bare = {m2}
  Pins <- MCPins
  OwnPin = 1
  Ttls = {0, 2}
  Second = 2
  Period = 2
INVARIANTS
  TypeOK
  Accounted
  FailureLeavesNothing
  ReadyIsServed
  OrphansExplained
  GhostsExplained
PROPERTIES
  EveryCallReturns
  StartIsKept
  DaemonIsBackstop
  OrphansExpire
