\* A tracked file and an ignored one, three snapshots of which compaction
\* keeps one, and one fault.
SPECIFICATION Spec
CONSTANTS
  Paths = {p, e}
  Tracked = {p}
  Contents = {a, b}
  Gone = Gone
  Workspaces <- Uniform
  Same = Same
  NoPath = NoPath
  KeepLast = 1
  Anchors = {p, e}
  Scopes = {{p}}
  MaxSnapshots = 3
  MaxEvents = 2
  MaxFaults = 1
INVARIANTS
  TypeOK
  BaselineIsCommitted
  OneChain
  SnapshotsRecoverable
PROPERTIES
  RestoreIsExact
CHECK_DEADLOCK FALSE
SYMMETRY Interchangeable
