SPECIFICATION Spec
CONSTANTS
  r1 = r1
  r2 = r2
  None = None
  Proc = {p1}
  Runner <- MCRunner
  Job <- MCJob
  Calls = {"enqueue", "lease", "complete", "cancel"}
  Score <- MCScore
  Compatible <- MCCompatible
  LeaseDuration = 1
  LockTTL = 1
  Window = 1
  MaxTime = 4
  CrashesAllowed = TRUE
PROPERTY KeepsContractInTurn
