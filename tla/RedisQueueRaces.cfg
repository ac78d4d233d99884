SPECIFICATION Spec
SYMMETRY Symmetry
CONSTANTS
  r1 = r1
  r2 = r2
  None = None
  Proc = {p1, p2}
  Runner <- MCRunner
  Job <- MCJob
  Calls = {"enqueue", "lease", "complete", "cancel"}
  Score <- MCScore
  Compatible <- MCCompatible
  LeaseDuration = 1
  LockTTL = 9
  Window = 2
  MaxTime = 2
  CrashesAllowed = FALSE
INVARIANT OneInSection
INVARIANT NothingLost
PROPERTY LeaseExclusive
PROPERTY EndedStays
