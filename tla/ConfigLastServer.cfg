SPECIFICATION Spec
CONSTANTS
  Slots <- TwoSlots
  Ports <- TwoPorts
  Remotes <- RealRemotes
  Limits = {"default", "tuned"}
  MaxMasters = 1
  FirstFiles <- PlainFiles
  Added <- NewServers
  NewTags = {"none", "padded"}
INVARIANTS
  ZeroServersAllowed
CHECK_DEADLOCK FALSE
