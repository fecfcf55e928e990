SPECIFICATION Spec
CONSTANTS
  a1 = a1
  a2 = a2
  a3 = a3
  a4 = a4
  NoAddr = NoAddr
  Addr = {a1, a2, a3, a4}
  Fd <- MCFd
  Capacity = 3
  TableSize = 5
  AddrHash <- MCAddrHash
  FdHash <- MCFdHash
INVARIANTS
  TypeOK
  CountExact
  LookupByAddrExact
  LookupByFdExact
  ProbeChains
PROPERTY
  RefinesIndex
