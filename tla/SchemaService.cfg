CONSTANTS
  Reqs = {r1, r2}
  Changes <- AllChanges
  Drifts <- SomeDrifts
  Expiries = {1}
  MaxTokens = 2
  Partial = FALSE
  None = None
SPECIFICATION Spec
INVARIANT TokenRunsOnce
INVARIANT DriftOnlyInWindow
INVARIANT OutcomeIsReported
SYMMETRY Symmetry
