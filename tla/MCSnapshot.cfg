CONSTANTS
  None = None
  Keys = {"j", "k"}
  Values = {v}
  Blocks = {}
  Workers = {w1, w2}
  MaxFileSize = 3
  MaxCommits = 3
  MaxFailures = 0
  MaxCrashes = 0
SPECIFICATION Spec
INVARIANT SnapshotAtAPointInTime
