CONSTANTS
  u1 = u1
  u2 = u2
  u3 = u3
  t1 = t1
  Users = {u1, u2, u3}
  Teams = {t1}
  Assets = {a1}
  Tx = {x1, x2}
  None = None
  Ops <- AllOps
  Seeds <- AllSeeds
SPECIFICATION WorkSpec
INVARIANT TypeOK
INVARIANT AuthorizedUntilCommit
INVARIANT ChecksHoldAtWrite
INVARIANT TeamKeepsAdmin
PROPERTY LastAdminLostOnlyBySelfDemotion
SYMMETRY Symmetry
