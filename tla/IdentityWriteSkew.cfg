CONSTANTS
  u1 = u1
  u2 = u2
  u3 = u3
  t1 = t1
  Users = {u1, u2, u3}
  Teams = {t1}
  Assets = {}
  Tx = {x1, x2}
  None = None
  Ops <- SystemOps
  Seeds <- OneAdminSeeds
SPECIFICATION Spec
INVARIANT SystemKeepsAdmin
SYMMETRY Symmetry
