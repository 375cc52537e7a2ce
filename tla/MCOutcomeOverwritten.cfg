\* The handler of call.ended writes while the handler of call.analyzed is at work.
CONSTANTS
  codCall = codCall
  statusCall = statusCall
  cartCall = cartCall
  o1 = o1
  o2 = o2
  t1 = t1
  t2 = t2
  Session = {codCall}
  Order = {o1, o2}
  OrderOf <- CodOrderOf
  Automation <- CodAutomation
  Analysis <- CodAnalysis
  Room = 9
  TaskId = {t1, t2}
  Analysed = {codCall}
  MaxDeliveries = 2
  Regimes <- OverlapOnly
SPECIFICATION Spec
INVARIANT ConfirmedIsConfirmed
CHECK_DEADLOCK FALSE
