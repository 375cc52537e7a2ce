\* One cart, requests that take a unit of time, and every fault: lost answers,
\* answers without a session, uninstall and reinstall under pending jobs, a lost
\* write before a crash.
CONSTANTS
  cart1 = cart1
  abandonedCart = abandonedCart
  j1 = j1
  j2 = j2
  HoursPerDay = 2
  MinutesPerHour = 2
  Key = {cart1}
  TTL = 5
  Automation <- CartOnly
  AutomationOf <- CartKeyOnly
  Prechecked <- CartOnly
  CfgChoices <- FewCfgChoices
  DefaultCfg <- MCDefaultCfg
  TimeoutMax = 9
  Latency = 1
  JobId = {j1, j2}
  Faults = {"answerLost", "noSession", "uninstall", "writeLost"}
  MaxTime = 8
  MaxCalls = 2
  MaxDisturbances = 2
SPECIFICATION FairSpec
INVARIANT IInv
INVARIANT MarkHasCause
INVARIANT WaitsTheDelay
PROPERTY EveryJobEnds
PROPERTY KeepsPromise
CHECK_DEADLOCK FALSE
