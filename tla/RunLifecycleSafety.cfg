SPECIFICATION Spec
CONSTANTS
  None = None
  Run = {a}
  Runner = {w1, w2}
  Handler = {h1, h2, h3}
  Imports = FALSE
  MaxReclaims = 1
  Failures = TRUE
INVARIANT RepositoryFollowsQueue
PROPERTY OneOutcome
