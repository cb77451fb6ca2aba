\* Two clients, one key or none, one crash, one refused write, live maintenance.
SPECIFICATION FairSpec
CONSTANTS
  Requests = {r1, r2}
  NoRequest = NoRequest
  Keys = {k1}
  NoKey = NoKey
  NoCall = NoCall
  Attempts = {write, run}
  Filesystem = {write}
  Mutating = {write}
  Unlayered = {write}
  Methods = {"submit_action_attempt", "resolve_approval", "run_maintenance"}
  MaxMutating = 1
  MaxCrashes = 1
  MaxFaults = 1
INVARIANTS
  TypeOK
  ReconciledOnce
  InProgressIsTrue
PROPERTIES
  KeepsPromise
  EveryRequestEnds
  PendingKeysSettle
