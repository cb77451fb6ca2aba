\* Two clients change one file, each behind a snapshot.
SPECIFICATION Spec
CONSTANTS
  Requests = {r1, r2}
  NoRequest = NoRequest
  Keys = {k1}
  NoKey = NoKey
  NoCall = NoCall
  Attempts = {write}
  Filesystem = {write}
  Mutating = {write}
  Unlayered = {}
  Methods = {"submit_action_attempt"}
  MaxMutating = 2
  MaxCrashes = 0
  MaxFaults = 0
PROPERTY
  FreshPreimage
