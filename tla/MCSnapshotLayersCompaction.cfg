\* Two snapshots, of which compaction keeps the newer: no edit, no crash.
SPECIFICATION Spec
CONSTANTS
  Paths = {p, e}
  Tracked = {p}
  Contents = {a, b}
  Gone = Gone
  Workspaces <- Uniform
  Same = Same
  NoPath = NoPath
  KeepLast = 1
  Anchors = {e}
  Scopes = {{p}}
  MaxSnapshots = 2
  MaxEvents = 1
  MaxFaults = 0
PROPERTIES
  CompactionKeepsRestores
CHECK_DEADLOCK FALSE
