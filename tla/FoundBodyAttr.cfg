SPECIFICATION IntakeSpec
CONSTANTS
  Orgs = {"o1", "o2"}
  Users = {"u"}
  Deliveries = {d1, d2}
  Namespaces = {"a", "b"}
  Events <- LabelEvents
  RuleLists <- MCRuleLists
  Registry <- Schemas
  Populations <- MCPopulations
  MaxTasks = 4
  MaxEdits = 1
  Tasks = {1, 2, 3}
  Calls = {c1, c2}
  People = {p1, p2}
  Profiles = {a1}
  Installs = {i1}
  Slots = {x1, x2}
  MaxOrgs = 3
  MaxCreds = 1
  MaxLinks = 1
  OrgOf <- MCOrgOf
  MaxMints = 2
  MaxInFlight = 1
  ChunkSize = 2
  MaxPending = 3
  LogPage = 1
  MaxBytes = 3
  MaxWrite = 2
  MaxLost = 1
CHECK_DEADLOCK FALSE
INVARIANT BodyHonest
