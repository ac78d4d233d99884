SPECIFICATION FairSpec
CONSTANTS
  None = None
  Run = {a}
  Runner = {w1, w2}
  Handler = {h1, h2}
  Imports = TRUE
  MaxReclaims = 1
  Failures = FALSE
PROPERTY JobsEnd
