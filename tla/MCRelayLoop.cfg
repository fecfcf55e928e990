SPECIFICATION Spec
CONSTANTS
  c1 = c1
  c2 = c2
  Servers <- OneServer
  Clients = {c1, c2}
  Bodies = {"query", "game"}
  Fds <- FdsTo3
  Startup <- SmallStartup
  Configs <- SmallConfigs
  Commands <- LoopCommands
  MgmtEnabled = TRUE
  MgmtMaxClients = 2
  MaxEvents = 64
  SweepInterval = 5
  HeartbeatInterval = 300
  Instants <- TwoInstants
  Epoch = 1000
  InFlight = 3
  Signals = TRUE
SYMMETRY Clients2
INVARIANTS
  TypeOK
  DescriptorsExact
  QueryCountExact
  PoolsBounded
  MapNotBinding
  PacketsGoHome
  AdmissionRateBounded
  CleanShutdown
CHECK_DEADLOCK FALSE
