CONSTANTS
  Schedules = {s1}
  MaxRequests = 1
  McpServers = {"p", "q"}
  Files <- MCFiles
  Offers <- MCOffers
  Hidden <- MCHidden
  Readers = {"r"}
  Monitors = {"m", "n"}
SPECIFICATION FairServer
INVARIANTS
  ServerTypeOK
  SingleRun
  SingleInstance
  ToolsRegistered
PROPERTIES
  RequestsKeepConnections
  KeepsFiring
  ShutdownCompletes
  HealthAnswers
CHECK_DEADLOCK FALSE
