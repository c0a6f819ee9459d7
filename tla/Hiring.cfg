SPECIFICATION FairPipelineSpec
CHECK_DEADLOCK FALSE
CONSTANTS
  Desks = {d1}
  Idle = Idle
  Worker = Worker
  Plans <- MCPlans
  MaxStage = 4
  Hired = 4
  MaxTasks = 1
  MaxAttempts = 2
  MaxTalks = 2
  Reports = {r1}
  MaxArms = 1
INVARIANTS
  OneOfEach
  MovesAreFinished
PROPERTIES
  ScheduledMailSettles
