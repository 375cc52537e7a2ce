\* Handlers in turn; in turn with failing writes and crashes; overlapping, with
\* every fault.
CONSTANTS
  codCall = codCall
  statusCall = statusCall
  cartCall = cartCall
  o1 = o1
  o2 = o2
  t1 = t1
  t2 = t2
  Session = {codCall, statusCall, cartCall}
  Order = {o1, o2}
  OrderOf <- MCOrderOf
  Automation <- MCAutomation
  Analysis <- MCAnalysis
  Room = 14
  TaskId = {t1, t2}
  Analysed = {codCall, statusCall, cartCall}
  MaxDeliveries = 3
  Regimes <- AllRegimes
SPECIFICATION Spec
SYMMETRY Tasks
INVARIANT WriteBackIInv
INVARIANT NoteAndMetafieldAgree
INVARIANT DroppedMeansWritten
PROPERTY NotesKept
PROPERTY SettledOutcomeStands
CHECK_DEADLOCK FALSE
