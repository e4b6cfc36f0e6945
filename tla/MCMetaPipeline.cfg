SPECIFICATION MetaSpec
CONSTANTS
  Dispatches = {d1, d2}
  Traces = {t1}
  Keys = {"k1", "k2"}
  Findings <- MCTwo
  Slots = 1
  RateMax = 1
  LimiterMax = 1
  TraceGap = 3
  RateWindow = 1
  MaxInsights = 2
  MaxTime = 3
INVARIANTS
  DispatchesLimited
  InsightsAccounted
PROPERTIES
  SlotsReturn
