CONSTANTS
  Ids = {s1, s2}
  Reqs = {r1, r2}
  TTL = 2
  MaxTime = 2
  MaxEpoch = 2
  None = None
SPECIFICATION Spec
INVARIANT RevocationReachesListed
INVARIANT LoggedOutIsGone
INVARIANT ServedWhileActive
SYMMETRY Symmetry
