SPECIFICATION FairSpec
CONSTANTS
  Paths = {"live"}
  Ports = {8080, 8081}
  Requests = {r1}
  MaxUpdates = 3
INVARIANTS
  OnlyCurrentServes
  RequestsOnCurrentServer
  QuietRequestsRunTheirQuery
  UnhurriedUpdateServes
PROPERTIES
  UpdateEnds
CHECK_DEADLOCK FALSE
