SPECIFICATION Spec
CONSTANTS
  Flags <- ConfigOnly
  GeneratedKeys = {"k1", "k2"}
INVARIANTS
  FileSettingsInForce
