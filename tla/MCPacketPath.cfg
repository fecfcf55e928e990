SPECIFICATION Spec
CONSTANTS
  Byte <- Bytes
  Q3_MAX_PACKET_SIZE = 17
  RECV_BUF_SIZE = 20
  Addresses = {"a1", "a2"}
  ClientPackets <- MCClientPackets
  ServerPackets <- MCServerPackets
  Tags <- MCTags
  MaxPackets = 2
INVARIANTS
  TypeOK
  OnlyInsertions
  RealipReadable
  HostnameTagged
CHECK_DEADLOCK FALSE
