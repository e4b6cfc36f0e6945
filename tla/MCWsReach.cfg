SPECIFICATION ManagerSpec
CONSTANTS
  Client = {c1, c2, c3}
  Channel = {events}
  Tenant = {}
  None = None
  Task = {m1}
  AuthDisabled = TRUE
INVARIANTS
  ReachesAllConnected
CHECK_DEADLOCK FALSE
