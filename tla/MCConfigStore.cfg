SPECIFICATION Spec
CONSTANTS
  Slots <- TwoSlots
  Ports <- TwoPorts
  Remotes <- AnyRemotes
  Limits = {"default", "tuned"}
  MaxMasters = 1
  FirstFiles <- ExampleFiles
  Added <- AnyServers
  NewTags = {"none", "padded"}
INVARIANTS
  TypeOK
  Synced
  FileLoads
PROPERTIES
  RefinesStore
CHECK_DEADLOCK FALSE
