\* Calls at once and scheduled ones, overlapping sweeps, every fault.
CONSTANTS
  ann = ann
  bob = bob
  s1 = s1
  s2 = s2
  Customer = {ann}
  Listed <- AnnAlone
  Ordered <- LongAgo
  Refused = {}
  TTL = 4
  DaysChoices = {4, 5}
  Delays = {0, 1}
  Latency = 1
  SweepId = {s1, s2}
  Faults = {"readFails", "answerLost", "crash"}
  MaxCalls = 2
  MaxOrders = 0
  MaxChanges = 1
  MaxTime = 7
SPECIFICATION Spec
SYMMETRY Sweeps
INVARIANT WinBackIInv
INVARIANT OneWinBackPerWindow
INVARIANT OneCallPerDay
INVARIANT RecordHasCause
CHECK_DEADLOCK FALSE
