SPECIFICATION FairSpec
CONSTANTS
  None = None
  Job <- MCJob
  Daemon = {d1, d2}
  MaxWorkers = 2
  Request = {r1}
  RequestOf <- MCRequestOf
  Repair <- MCRepair
  r1 = r1
  Publisher = {d1}
  LeaseDuration = 1
INVARIANT AttemptedOnce
INVARIANT RecordIsTrue
INVARIANT ProposalsAreSeparate
PROPERTY RecordedOnce
PROPERTY JobsEnd
