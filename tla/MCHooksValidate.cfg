\* The key is validated, then saved.
CONSTANTS
  shop1 = shop1
  shop2 = shop2
  key1 = key1
  key2 = key2
  key3 = key3
  t1 = t1
  t2 = t2
  Store = {shop1}
  ApiKey = {key1, key2}
  KeysOf <- TwoKeys
  TaskId = {t1}
  Faults = {}
  Overlap = FALSE
  MaxHooks = 4
  MaxRequests = 5
SPECIFICATION Spec
INVARIANT SavedIsSubscribed
CHECK_DEADLOCK FALSE
