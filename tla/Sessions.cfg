SPECIFICATION BothSpec
CONSTANTS
  anaSalon = anaSalon
  anaSpa = anaSpa
  cleo = cleo
  tab1 = tab1
  tab2 = tab2
  desk = desk
  Tabs = {tab1, tab2}
  Browsers = {desk}
  BrowserOf <- MCBrowserOf
  Members = {anaSalon, anaSpa}
  Customers = {cleo}
  Founders = {anaSalon}
  UserOf <- MCUserOf
  TTL = 1
  MaxTokens = 3
  MaxClock = 1
  thread1 = thread1
  thread2 = thread2
  loginKey = loginKey
  refreshKey = refreshKey
  Threads = {thread1, thread2}
  Keys = {loginKey, refreshKey}
  MaxAttempts <- MCMaxAttempts
  Window <- MCWindow
  MaxTime = 3
SYMMETRY Alike
INVARIANTS
  RateWindow
  Lineage
PROPERTIES
  RevokesTheUser
CHECK_DEADLOCK FALSE
