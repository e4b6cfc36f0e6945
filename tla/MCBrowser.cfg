SPECIFICATION PageSpec
CONSTANTS
  B1 = B1  F1 = F1  X1 = X1  E1 = E1  S2 = S2  D1 = D1
  H1 = H1  H2 = H2  t1 = t1  t2 = t2  a = a  b = b  s1 = s1
  Socket = {s1}
  NoSocket = NoSocket
  Limit = 1
  MaxClicks = 1
  Event = {B1, F1, X1, E1, S2, D1, H1, H2}
  Trace = {t1, t2}
  None = None
  Info <- MCInfo
  Says <- MCSays
  StepOf <- MCStepOf
  Scripts <- MCScripts
  Snapshots <- MCSnapshots
  MaxEvents = 2  MaxTraces = 1  MaxIndex = 1  MaxBuffer = 2
  MaxClaims = 1  MaxOld = 1  MaxQueue = 1
  StoreSplit = TRUE  Isolation = TRUE
INVARIANTS StoreConsistent RunsSettle ViewsAgree HandoffsAccounted
