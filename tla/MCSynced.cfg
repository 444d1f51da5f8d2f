CONSTANTS
  None = None
  Keys = {"k"}
  Values = {v}
  Blocks = {b1, b2}
  Workers = {w1}
  MaxFileSize = 3
  MaxCommits = 2
  MaxFailures = 0
  MaxCrashes = 0
SPECIFICATION Spec
INVARIANT FlushedBlocksSynced
