\* Three clients, one key or none, one crash: races between a submission, the
\* resolutions of its approval and their retries.  Attempts are shell commands,
\* whose effects may come late; files are in MCAuthorityDaemonRecovery.cfg.
SPECIFICATION Spec
CONSTANTS
  Requests = {r1, r2, r3}
  NoRequest = NoRequest
  Keys = {k1}
  NoKey = NoKey
  NoCall = NoCall
  Attempts = {run}
  Filesystem = {}
  Mutating = {run}
  Unlayered = {}
  Methods = {"submit_action_attempt", "resolve_approval"}
  MaxMutating = 1
  MaxCrashes = 1
  MaxFaults = 0
SYMMETRY ClientSymmetry
INVARIANTS
  KeyRunsOnce
  ReplayIsTheRecordedResult
  AuthorizedEffects
  EffectsAreAnnounced
  EffectsHaveBoundary
  OkMeansExecuted
  NoSilentExecution
  UnknownIsTruthful
