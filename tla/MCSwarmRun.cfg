SPECIFICATION Spec
CONSTANTS
  Customs <- MCCustoms
  Items = {1, 3}
  MaxFaults = 2
INVARIANTS
  EventsTellRun
  PlanFollowed
CHECK_DEADLOCK FALSE
