SPECIFICATION Spec
CONSTANTS
  home = home
  tab1 = tab1
  tab2 = tab2
  Browsers = {home}
  Tabs = {tab1, tab2}
  BrowserOf <- MCBrowserOf
  MaxActive = 1
  MaxSessions = 3
  MaxLost = 1
SYMMETRY Symmetry
INVARIANTS
  SessionsWithinLimit
  OneSessionPerFamily
  StoredTokensWork
CHECK_DEADLOCK FALSE
