\* Two jobs of two attempts, stops, a failed commit and an operator requeue.
SPECIFICATION FairSpec
CONSTANTS
  Jobs = {j1, j2}
  NoJob = NoJob
  MaxAttempts = 2
  Budgets = {1, 2}
  QuickRestarts = TRUE
  MaxStops = 1
  MaxFaults = 1
  MaxRequeues = 1
INVARIANTS
  TypeOK
  NoLostWakeup
  WaitersAreNotified
  ResultsAreReal
  OneJobAtATime
  RetryBudgetKept
  FailuresAreDeadLettered
PROPERTIES
  CancellationsStick
  QueuedJobsAreClaimed
  WaitersAreAnswered
CHECK_DEADLOCK FALSE
