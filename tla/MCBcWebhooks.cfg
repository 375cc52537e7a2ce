\* Installs and uninstalls one after the other, each call of which may fail.
CONSTANTS
  orders = orders
  carts = carts
  t1 = t1
  t2 = t2
  Scope = {orders, carts}
  Scopes <- TwoScopes
  TaskId = {t1}
  Faults = {"listFails", "deleteFails", "createFails"}
  Overlap = FALSE
  MaxHooks = 6
  MaxRequests = 4
  MaxSilenced = 2
SPECIFICATION Spec
INVARIANT BcIInv
INVARIANT EveryScopeIsHeard
INVARIANT OnlyLeftoversAreRefused
INVARIANT OneHookPerScope
CHECK_DEADLOCK FALSE
