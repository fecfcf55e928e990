SPECIFICATION Spec
CONSTANTS
  a1 = a1
  a2 = a2
  a3 = a3
  NoAdmin = NoAdmin
  Slots <- TwoSlots
  Admins <- ThreeAdmins
  MGMT_BUF_SIZE = 5
  Scripts <- OneOfManyScripts
SYMMETRY Symmetry
INVARIANTS
  TypeOK
  SlotsExact
  LinesExact
  FirstLineAuthenticates
  TooLargeForCause
CHECK_DEADLOCK FALSE
