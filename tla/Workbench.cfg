CONSTANTS
  Conns = {c1, c2}
  Handles = {h1, h2, h3}
  DBs = {d1, d2}
  Txs = {t1}
  Jobs = {j1}
  Reqs = {r1, r2}
  PoolSize = 1
  None = None
SPECIFICATION Spec
INVARIANT NothingForgotten
INVARIANT RunsInsideTransaction
INVARIANT SlotsAccountedFor
CHECK_DEADLOCK FALSE
SYMMETRY Symmetry
