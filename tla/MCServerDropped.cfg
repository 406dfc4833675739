CONSTANTS
  Schedules = {s1}
  MaxRequests = 1
  McpServers = {"p", "q"}
  Files <- MCFiles
  Offers <- MCOffers
  Hidden <- MCHidden
  Readers = {"r"}
  Monitors = {}
SPECIFICATION FairServer
PROPERTIES
  Redialled
CHECK_DEADLOCK FALSE
