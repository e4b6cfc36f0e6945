SPECIFICATION Spec
CONSTANTS
  Socket = {"s1", "s2", "s3"}
  NoSocket = "none"
  Limit = 2
  MaxClicks = 3
  Link = {1, 2, 3}
  NoLink = 0
  MaxRetries = 2
  SdkEvent = {"e"}
  Tenant = {"t"}
  NoTenant = "all"
  MaxCalls = 3
  Nil = Nil
  ZONES <- MCZones
  PIPELINE <- MCPipeline
  AGENTS <- MCAgents
  Orchestrator = Orchestrator
  Roles <- MCRoles
  RoleOf <- MCRoleOf
  DispatchAgent = "dispatch-agent"
  IntakeAgent = "intake-agent"
  HitlAgent = "hitl-agent"
  Messages <- MCMessages
  MaxLive = 2
  MaxTimers = 2
  MaxCount = 1
  Performers = {"a", "b"}
  Few = 2
  Many = 3
  Requests = {"request-1", "request-2"}
  TraceOf <- MCTraceOf
  NoId = "none"
  Kept = 3
  MaxArrivals = 4
INVARIANTS OnlyClicksMultiply PicturesAgree WorkEnds
  NothingMissedOutsideBursts DetailFits
PROPERTY Recovers
CHECK_DEADLOCK FALSE
