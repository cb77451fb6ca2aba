\* Two operators resolve one approval.
SPECIFICATION Spec
CONSTANTS
  Requests = {r1, r2, r3}
  NoRequest = NoRequest
  Keys = {k1}
  NoKey = NoKey
  NoCall = NoCall
  Attempts = {write}
  Filesystem = {write}
  Mutating = {write}
  Unlayered = {}
  Methods = {"submit_action_attempt", "resolve_approval"}
  MaxMutating = 1
  MaxCrashes = 0
  MaxFaults = 0
SYMMETRY ClientSymmetry
INVARIANT
  ApprovalRunsOnce
