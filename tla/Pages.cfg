CONSTANTS
  Conns = {x, y}
  Files = {1, 2}
  FirstSessions = 2
  MaxSessions = 3
  MaxClicks = 4
  Teams = {t}
  MaxConnections = 3
  MaxTurns = 6
  UserIds = {1, 2, 3}
  FirstUsers = {1, 2}
  Self = 1
  TeamIds = {t, u}
  FirstTeam = t
  MaxActs = 6
  PKs = {1, 2, 3}
  Vals = {a}
  Null = Null
  PageSize = 2
  MaxEvents = 5
  LoadedNames = {a, b}
  Names = {a, b, x}
  Types = {t1, t2}
  Comments = {m1, m2}
  BaseIndexes = {i, j}
  IndexNames = {i, j, k}
  MaxEdits = 4
  Tables = {t, u}
  Versions = {0, 1, 2}
  MaxWork = 4
  Keyspace <- TwoDatabases
  Matching <- TwoPatterns
  FirstDb = "first"
  ScanCount = 2
  MaxScans = 4
  Absent = Absent
SPECIFICATION PagesSpec
INVARIANT TailInHand
INVARIANT BatchIsComplete
INVARIANT CredentialsInPlace
INVARIANT PlannedSaveNotRefused
INVARIANT DeletedStaysGone
INVARIANT DraftFitsRows
INVARIANT AppliedIsWhatWasShown
INVARIANT DraftBecomesShown
INVARIANT SavedAsPreviewed
INVARIANT TreeIsWhole
CHECK_DEADLOCK FALSE
