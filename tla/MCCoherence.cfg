CONSTANTS
  None = None
  swarm1 = swarm1
  swarm2 = swarm2
  op = op
  stranger = stranger
  halt = halt
  shift = shift
  merge = merge
  resize = resize
  civ1 = civ1
  civ2 = civ2
  a1 = a1
  a2 = a2
  a3 = a3
  z1 = z1
  z2 = z2
  Swarm = {swarm1, swarm2}
  Person = {op, stranger}
  Seeded = {op}
  Deed = {halt, shift, merge, resize}
  Words <- MCWords
  Health = {10, 30, 90}
  NewConstraints <- MCNewConstraints
  MaxRows = 3
  MaxDeaths = 1
  Civ = {civ1, civ2}
  Profiles <- MCProfiles
  MaxNamed = 2
  MaxDeals = 1
  Readings <- MCReadings
  MaxEras = 3
  MaxGenerations = 1
  MaxLives = 2
  Reports <- MCReports
  Ecosystems <- MCEcosystems
  MaxTime = 4
  MaxDecisions = 3
  Lessons <- MCLessons
  MaxSessions = 3
  MaxClones = 1
  MaxCrashes = 1
  Courses <- MCCourses
  Samples <- MCSamples
  Draws = {"adjust_retry_policy", "shift_governance_threshold", "merge_agents"}
  PopulationSize = 4
  Generations = 3
  Elites = 2
  Patience = 2
  MaxBranches = 4
  Windows <- MCWindows
  Roles <- MCRoles
  Names <- MCNames
  MaxAnalyses = 6
  MaxAgain = 1
  Uses = {"learning"}
SPECIFICATION Spec
INVARIANT
  RecentRunsWeighMost
CHECK_DEADLOCK FALSE
