\* Two commands, one of them retried automatically, and a fault.
SPECIFICATION FairSpec
CONSTANTS
  Commands = {c1, c2}
  NoCommand = NoCommand
  AutoRetried = {c1}
  RetryDelays = 1
  MaxReplays = 1
  MaxFaults = 1
INVARIANTS
  TypeOK
  OutcomesAreTrue
  ExecutedOncePerReceipt
  InIssueOrder
PROPERTIES
  KeepsPromise
  CommandsSettle
CHECK_DEADLOCK FALSE
