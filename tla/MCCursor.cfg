CONSTANTS
  Readers = {"r"}
  Writer = "w"
  Walkers = {"w"}
  Priorities = {1, 2}
  Stores = {{1, 3, 4}}
  Puts = {1, 2}
  MaxWrites = 3
  Liberties = {}
SPECIFICATION Spec
INVARIANTS TreapsHoldTheirRows CursorFollowsRows StoredRowsDeleted
CHECK_DEADLOCK FALSE
