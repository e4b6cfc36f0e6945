SPECIFICATION Spec
CONSTANTS
  Task = {t1, t2}
  Agent = {a1}
  NoAgent = none
  Types = {"SWARM_STARTED", "TASK_FAIL"}
  RedisEnabled = TRUE
  FailedRate = 30
  DegradedRate = 10
  AlarmRate = 10
  MaxPosts = 2
INVARIANTS
  LineageIntact
  SoleWriterSettles
PROPERTIES
  ImplementsJournal
