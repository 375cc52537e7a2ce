CONSTANTS
  t1 = t1
  t2 = t2
  Automation = {"codConfirmation", "winBack"}
  DefaultDelay <- MCDefaultDelay
  ApiKey = {"k1", "k2"}
  Agent = {"", "uuid"}
  Window = {"21:00-09:00", "own"}
  Filters = {"", "own"}
  NoAgent = ""
  DefaultWindow = "21:00-09:00"
  NoFilters = ""
  Delay <- MCDelay
  Days = {0, 30, 60}
  DefaultDays = 60
  OldSettings <- MCOldSettings
  Tab = {t1, t2}
  MaxEdits = 2
  MaxRequests = 4
SYMMETRY Tabs
SPECIFICATION Spec
INVARIANT TypeOK
PROPERTY SaveChangesOnlyEdits
PROPERTY PagesKeepFilters
CHECK_DEADLOCK FALSE
