SPECIFICATION FairSpec
CONSTANTS
  o1 = o1
  o2 = o2
  r1 = r1
  r2 = r2
  None = None
  Org <- MCOrg
  Runner <- MCRunner
  Job <- MCJob
  JobId <- MCJobId
  OrgOf <- OneOrg
  IdOf <- FreshIds
  Priority <- MCPriority
  CreatedAt <- MCCreatedAt
  Compatible <- MCCompatible
  MaxConcurrency <- MCMaxConcurrency
  LeaseDuration = 2
INVARIANT ConcurrencyRespected
PROPERTY NoOvertaking
PROPERTY KeepsContract
PROPERTY ExpiredIsReclaimed
