SPECIFICATION MCSpec
CONSTANTS
  Client = {c1, c2}
  Channel = {events}
  Tenant = {t1, t2}
  None = None
  Task = {m1, m2}
  AuthDisabled = FALSE
INVARIANTS
  DeliveredOnce
  RegistryAgrees
  TenantIsolation
PROPERTIES
  BroadcastReturns
CHECK_DEADLOCK FALSE
