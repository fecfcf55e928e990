SPECIFICATION Spec
CONSTANTS
  c1 = c1
  c2 = c2
  Servers <- OneServer
  Clients = {c1}
  Bodies = {"query", "game"}
  Fds <- FdsTo3
  Startup <- SmallStartup
  Configs <- SmallConfigs
  Commands <- KickCommands
  MgmtEnabled = TRUE
  MgmtMaxClients = 2
  MaxEvents = 64
  SweepInterval = 5
  HeartbeatInterval = 300
  Instants <- OneInstant
  Epoch = 1000
  InFlight = 3
  Signals = FALSE
PROPERTIES
  EventsRoutedCorrectly
