CONSTANTS
  Requests = {r1, r2}
  Exports = {r2}
  MaxCreations = 4
  MaxRestarts = 2
  None = None
SPECIFICATION FairSpec
INVARIANT RepeatsSafely
INVARIANT SharedCreation
PROPERTY CallsEnd
CHECK_DEADLOCK FALSE
