\* A command that completed, a day that ends and an operator's replay.
SPECIFICATION Spec
CONSTANTS
  Commands = {c1}
  NoCommand = NoCommand
  AutoRetried = {}
  RetryDelays = 1
  MaxReplays = 1
  MaxFaults = 0
PROPERTIES
  CompletedIsNotReplayed
CHECK_DEADLOCK FALSE
