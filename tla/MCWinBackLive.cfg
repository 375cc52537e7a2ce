\* Sweeps for ever over a page of two, calls that fail now and then.
CONSTANTS
  ann = ann
  bob = bob
  s1 = s1
  s2 = s2
  Customer = {ann, bob}
  Listed <- AnnFirst
  Ordered <- LongAgo
  Refused = {}
  TTL = 2
  DaysChoices = {3}
  Delays = {0}
  Latency = 0
  SweepId = {s1}
  Faults = {}
  MaxCalls = 9
  MaxOrders = 1
  MaxChanges = 2
  MaxTime = 5
SPECIFICATION FairSpec
PROPERTY EverySweepEnds
PROPERTY EveryLapsedIsCalled
CHECK_DEADLOCK FALSE
