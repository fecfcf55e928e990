SPECIFICATION Spec
CONSTANTS
  Flags <- AllFlags
  GeneratedKeys = {"k1", "k2"}
INVARIANTS
  MgmtReady
  KeyReused
  FlagsInForce
