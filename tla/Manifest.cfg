SPECIFICATION Spec
CONSTANTS
  Program <- MCProgram
  FirstFails = {{}, {2}, {1, 2}, {7}}
  MaxTrace = 12
CONSTRAINT Short
CHECK_DEADLOCK FALSE
INVARIANTS
  StepsDontOverlap
  StepsLeaveInOrder
  FailureIsReported
  BoundsHold
  GeneratedAgrees
