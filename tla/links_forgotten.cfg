CONSTANTS
  Peers = {p1}
  Requests = {r1}
  Limit = 1
  MaxReq = 2
  MaxRestarts = 0
  Faults = {"command"}
SPECIFICATION LinksSpec
INVARIANTS KioskLinkIsTracked
CHECK_DEADLOCK FALSE
