SPECIFICATION Spec
CONSTANTS
  None = "none"
  Request = {"r1", "r2", "r3"}
  MaxFaults = 1
  Scenario <- MCScenario
  Seed <- MCSeed
INVARIANTS PostgresAgrees LaterSaveServed AnsweredIsWhole BodiesAndRecords
PROPERTIES AiLeaseKept
CHECK_DEADLOCK FALSE
