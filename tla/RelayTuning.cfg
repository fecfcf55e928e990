SPECIFICATION Spec
CONSTANTS
  c1 = c1
  c2 = c2
  Servers <- OneServer
  Clients = {c1, c2}
  Bodies = {"query", "game"}
  Fds <- FdsTo4
  Startup <- SmallStartup
  Configs <- SmallConfigs
  Commands <- TuningCommands
  MgmtEnabled = TRUE
  MgmtMaxClients = 1
  MaxEvents = 64
  SweepInterval = 5
  HeartbeatInterval = 300
  Instants <- OneInstant
  Epoch = 1000
  InFlight = 2
  Signals = FALSE
INVARIANTS
  TuningInForce
