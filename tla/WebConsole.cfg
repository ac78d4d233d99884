SPECIFICATION WebSpec
CONSTANTS
  Seed <- MCSeed
  Visits <- MCVisits
  ConfigTests = {0, 1}
  Clicks <- MCClicks
  Faults = 1
  Tab = {t1, t2}
  User = {u1, u2}
  t1 = t1
  t2 = t2
  u1 = u1
  u2 = u2
  Configs <- MCConfigs
  States = 2
  Orgs = 1
  Loads = 1
  Mishaps = 1
INVARIANTS EvidenceOfSelected QuietAtRest SavesItsOwnText AtRestAgrees
           SessionsStayApart
PROPERTIES CallbackEnds
CHECK_DEADLOCK FALSE
