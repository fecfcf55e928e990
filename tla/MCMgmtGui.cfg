SPECIFICATION FairSpec
CONSTANTS
  Ids = {1}
  Hosts = {"h1", "h2"}
  Slots <- TwoSlots
  Names = {"p", "q"}
  None = None
  FirstEntries <- OneSaved
  FirstServers <- TwoProxies
  MaxWaiting = 1
  MaxSteps = 4
INVARIANTS
  TypeOK
  TabShown
  AnswersMatch
  FlagsAgree
PROPERTIES
  Converges
CHECK_DEADLOCK FALSE
