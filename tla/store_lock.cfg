CONSTANTS
  Users = {u, v}
  Cap = 3
  UserCap = 2
  Sizes = {2}
  MaxRows = 3
  MaxRestarts = 0
  MaxStuck = 0
SPECIFICATION StoreSpec
PROPERTIES LockIsReleased
CHECK_DEADLOCK FALSE
