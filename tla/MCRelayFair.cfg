SPECIFICATION FairSpec
CONSTANTS
  c1 = c1
  c2 = c2
  Servers <- OneServer
  Clients = {c1}
  Bodies = {"query", "game", "oversized"}
  Fds <- FdsTo3
  Startup <- SmallStartup
  Configs <- SmallConfigs
  Commands <- FairCommands
  MgmtEnabled = TRUE
  MgmtMaxClients = 1
  MaxEvents = 64
  SweepInterval = 5
  HeartbeatInterval = 300
  Instants <- FairInstants
  Epoch = 1000
  InFlight = 1
  Signals = FALSE
PROPERTIES
  IdleSessionsExpire
  HeartbeatsSent
