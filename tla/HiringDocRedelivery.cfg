SPECIFICATION PipelineSpec
CHECK_DEADLOCK FALSE
CONSTANTS
  Desks = {d1}
  Idle = Idle
  Worker = Worker
  Plans <- MCByTest
  MaxStage = 3
  Hired = 3
  MaxTasks = 1
  MaxAttempts = 2
  MaxTalks = 1
  Reports = {r1}
  MaxArms = 0
INVARIANTS
  RedeliveryCorrects
