\* A COD order and a cart, events repeated and reordered, failing requests, a
\* crash or a change of settings.
CONSTANTS
  o1 = o1
  c1 = c1
  j1 = j1
  j2 = j2
  s1 = s1
  s2 = s2
  HoursPerDay = 2
  MinutesPerHour = 2
  Key <- MCKey
  TTL = 2
  Automation <- MCAutomation
  AutomationOf <- MCAutomationOf
  Prechecked <- CartOnly
  CfgChoices <- MCCfgChoices
  DefaultCfg <- MCDefaultCfg
  TimeoutMax = 9
  Latency = 0
  JobId = {j1, j2}
  Faults = {}
  MaxTime = 3
  MaxCalls = 2
  MaxDisturbances = 1
  Order = {o1}
  Cart = {c1}
  Status = {"Pending", "Shipped"}
  FirstStatus = "Pending"
  Unpaid = {"Pending"}
  Slug <- MCSlug
  Payment <- CashOnDelivery
  BelowMinimum = {}
  Reachable = {o1, c1}
  SlotId = {s1, s2}
  MaxDeliveries = 2
  MaxChanges = 3
SYMMETRY Slots
SPECIFICATION MCSpec
INVARIANT DispatchIInv
INVARIANT OneCallPerWindow
INVARIANT EventsAreTried
PROPERTY CartCallIsFresh
CHECK_DEADLOCK FALSE
