SPECIFICATION FairSpec
CONSTANTS
  Agents = {a1, a2}
  Creator = a1
  Requests = {1, 2, 3, 4}
  MaxCrashes = 0
  Faults = {"s2"}
INVARIANTS HeadFollowsLog
PROPERTIES AllAnswered
ACTION_CONSTRAINT Arrivals
CHECK_DEADLOCK FALSE
