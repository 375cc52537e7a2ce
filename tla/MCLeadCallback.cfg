\* Lost answers, answers without a session, crashes, a reinstall, results at any
\* time, rows pruned under their calls.
CONSTANTS
  phoned = phoned
  silent = silent
  t1 = t1
  t2 = t2
  Customer = {phoned, silent}
  WithPhone = {phoned}
  TTL = 2
  Delay = 2
  Latency = 0
  MaxLeads = 2
  TaskId = {t1, t2}
  Faults = {"answerLost", "noSession", "crash", "reinstall"}
  MaxRows = 3
  MaxCalls = 2
  MaxInstalls = 2
  MaxTime = 4
SPECIFICATION FairSpec
INVARIANT LeadIInv
INVARIANT OneRowPerWindow
INVARIANT OneCallbackPerWindow
INVARIANT RowTellsOfItsCall
PROPERTY PrunedStaysGone
PROPERTY QueuedIsPassing
CHECK_DEADLOCK FALSE
