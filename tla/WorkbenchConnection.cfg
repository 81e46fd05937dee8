CONSTANTS
  Targets = {a, b}
  Postgres = {a}
  Dbs = {d1, d2}
  DefaultDb = d1
  MaxConns = 2
  MaxEvents = 2
  None = None
SPECIFICATION Spec
INVARIANT ConnectionMatchesSelection
INVARIANT ScreenTellsTruth
INVARIANT AdminWhereSaid
CHECK_DEADLOCK FALSE
