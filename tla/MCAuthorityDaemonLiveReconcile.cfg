\* startup_reconcile_recoveries requested from a daemon that is executing an action.
SPECIFICATION Spec
CONSTANTS
  Requests = {r1, r2}
  NoRequest = NoRequest
  Keys = {k1}
  NoKey = NoKey
  NoCall = NoCall
  Attempts = {write}
  Filesystem = {write}
  Mutating = {write}
  Unlayered = {}
  Methods = {"submit_action_attempt", "run_maintenance"}
  MaxMutating = 2
  MaxCrashes = 0
  MaxFaults = 0
INVARIANT
  UnknownIsTruthful
