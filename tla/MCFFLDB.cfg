CONSTANTS
  None = None
  Keys = {"k"}
  Values = {v}
  Blocks = {b1, b2}
  Workers = {w1, w2}
  MaxFileSize = 3
  MaxCommits = 2
  MaxFailures = 2
  MaxCrashes = 1
SYMMETRY Symmetry
CONSTRAINT FaultBound
SPECIFICATION Spec
INVARIANT StoreIsConsistent
PROPERTY ImplementsTxStore
