CONSTANTS
  Statements = {guide, u1}
  Unsafe = {u1}
  Guide = guide
  Tables = {t}
  Keys = {k}
  MaxRuns = 2
  MaxTabs = 2
  MaxQueryTabs = 2
  MaxResets = 1
  MaxHistory = 1
  None = None
SPECIFICATION FairSpec
CHECK_DEADLOCK FALSE
PROPERTY ShortcutRunsShown
