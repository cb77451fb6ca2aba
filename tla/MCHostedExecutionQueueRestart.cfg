\* One job, a cancellation or a quick restart: a job left in flight for ever.
SPECIFICATION FairSpec
CONSTANTS
  Jobs = {j1}
  NoJob = NoJob
  MaxAttempts = 2
  Budgets = {2}
  QuickRestarts = FALSE
  MaxStops = 1
  MaxFaults = 0
  MaxRequeues = 0
PROPERTIES
  InterruptedJobsSettle
CHECK_DEADLOCK FALSE
