\* Requests one after the other, each of which may fail, and keys that change.
CONSTANTS
  shop1 = shop1
  shop2 = shop2
  key1 = key1
  key2 = key2
  key3 = key3
  t1 = t1
  t2 = t2
  Store = {shop1, shop2}
  ApiKey = {key1, key2, key3}
  KeysOf <- OwnKeys
  TaskId = {t1}
  Faults = {"listFails", "deleteFails", "createFails"}
  Overlap = FALSE
  MaxHooks = 4
  MaxRequests = 5
SPECIFICATION Spec
INVARIANT HooksIInv
INVARIANT LocalIsLive
INVARIANT WiredOnce
PROPERTY NothingLeftBehind
CHECK_DEADLOCK FALSE
