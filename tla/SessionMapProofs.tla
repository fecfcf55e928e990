--------------------------- MODULE SessionMapProofs ---------------------------
(***************************************************************************)
(* Proofs about the session map for every set of addresses and descriptors,*)
(* every capacity, every larger table and all hash functions.              *)
(***************************************************************************)
EXTENDS SessionMap, OrderFacts, FiniteSetTheorems

\* A probe sequence stays inside the table and visits every position.
LEMMA ProbeOnto ==
  ASSUME NEW h \in Positions
  PROVE  /\ \A i \in Positions : Probe(h, i) \in Positions
         /\ \A p \in Positions : \E i \in Positions : Probe(h, i) = p
<1>1. \A i \in Positions : Probe(h, i) \in Positions
  BY SizeAssumption DEF Positions, Probe
<1>2. ASSUME NEW p \in Positions
      PROVE  \E i \in Positions : Probe(h, i) = p
  <2>1. CASE p >= h
    <3>1. p - h \in Positions /\ Probe(h, p - h) = p
      BY <2>1, SizeAssumption DEF Positions, Probe
    <3>2. QED
      BY <3>1
  <2>2. CASE p < h
    <3>1. p + TableSize - h \in Positions /\ Probe(h, p + TableSize - h) = p
      BY <2>2, SizeAssumption DEF Positions, Probe
    <3>2. QED
      BY <3>1
  <2>3. QED
    BY <2>1, <2>2 DEF Positions
<1>3. QED
  BY <1>1, <1>2

Table == [Positions -> Slots \cup {NoSlot}]

\* table_insert never meets a full table: the table is longer than the session
\* array and names each slot at most once.
LEMMA FreePosition ==
  ASSUME NEW table \in Table, EntriesSound(table)
  PROVE  \E p \in Positions : table[p] = NoSlot
<1>1. SUFFICES ASSUME \A p \in Positions : table[p] # NoSlot
               PROVE  FALSE
  OBVIOUS
<1>2. table \in [Positions -> Slots]
  BY <1>1 DEF Table
<1>3. /\ IsFiniteSet(Slots) /\ Cardinality(Slots) = Capacity
      /\ IsFiniteSet(Positions) /\ Cardinality(Positions) = TableSize
  BY FS_Interval, SizeAssumption DEF Slots, Positions
<1>4. \E p, q \in Positions : p # q /\ table[p] = table[q]
  BY <1>2, <1>3, FS_PigeonHole, SizeAssumption
<1>5. QED
  BY <1>1, <1>4 DEF EntriesSound

\* What table_insert does: it fills the first empty position of the probe
\* sequence and touches nothing else.
LEMMA TableInsertSpec ==
  ASSUME NEW table \in Table, EntriesSound(table),
         NEW h \in Positions, NEW slot \in Slots
  PROVE  \E i \in Positions :
           /\ Probe(h, i) \in Positions
           /\ table[Probe(h, i)] = NoSlot
           /\ \A j \in 0 .. (i - 1) : table[Probe(h, j)] # NoSlot
           /\ TableInsert(table, h, slot) = [table EXCEPT ![Probe(h, i)] = slot]
<1> DEFINE free == {i \in Positions : table[Probe(h, i)] = NoSlot}
<1>1. free # {} /\ free \in SUBSET Nat
  <2>1. PICK p \in Positions : table[p] = NoSlot
    BY FreePosition
  <2>2. PICK i \in Positions : Probe(h, i) = p
    BY ProbeOnto
  <2>3. free \in SUBSET Nat
    BY SizeAssumption DEF Positions
  <2>4. QED
    BY <2>1, <2>2, <2>3
<1>2. TableInsert(table, h, slot) = [table EXCEPT ![Probe(h, Min(free))] = slot]
  BY <1>1 DEF TableInsert
<1>3. Min(free) \in free /\ \A k \in free : Min(free) <= k
  <2> HIDE DEF free
  <2>1. QED
    BY <1>1, LeastElement
<1>4. \A j \in 0 .. (Min(free) - 1) : j \in Positions /\ j < Min(free)
  BY <1>3, SizeAssumption DEF Positions
<1>5. \A j \in 0 .. (Min(free) - 1) : table[Probe(h, j)] # NoSlot
  <2>1. SUFFICES ASSUME NEW j \in 0 .. (Min(free) - 1), j \in free
                 PROVE  FALSE
    BY <1>4
  <2>2. Min(free) <= j /\ j < Min(free) /\ Min(free) \in Int
    BY <2>1, <1>1, <1>3, <1>4
  <2>3. QED
    BY <2>2
<1>6. QED
  BY <1>2, <1>3, <1>5, ProbeOnto

\* Filling an empty position makes its slot reachable and cuts no chain.
LEMMA InsertReachable ==
  ASSUME NEW table \in Table, EntriesSound(table),
         NEW h \in Positions, NEW slot \in Slots
  PROVE  /\ TableInsert(table, h, slot) \in Table
         /\ Reachable(TableInsert(table, h, slot), h, slot)
         /\ \A g \in Positions, s \in Slots :
              Reachable(table, g, s) => Reachable(TableInsert(table, h, slot), g, s)
         /\ \A p \in Positions : TableInsert(table, h, slot)[p] \in {table[p], slot}
         /\ \A p, q \in Positions :
              /\ TableInsert(table, h, slot)[p] = slot
              /\ TableInsert(table, h, slot)[q] = slot
              => p = q \/ table[p] = slot \/ table[q] = slot
         /\ \A p \in Positions : TableInsert(table, h, slot)[p] # NoSlot
                                   => table[p] # NoSlot \/ TableInsert(table, h, slot)[p] = slot
<1> DEFINE new == TableInsert(table, h, slot)
<1>1. PICK i \in Positions :
           /\ Probe(h, i) \in Positions
           /\ table[Probe(h, i)] = NoSlot
           /\ \A j \in 0 .. (i - 1) : table[Probe(h, j)] # NoSlot
           /\ new = [table EXCEPT ![Probe(h, i)] = slot]
  BY TableInsertSpec
<1> HIDE DEF new
<1>2. NoSlot \notin Slots
  BY DEF NoSlot, Slots
<1>3. \A p \in Positions : new[p] = IF p = Probe(h, i) THEN slot ELSE table[p]
  BY <1>1 DEF Table
<1>4. new \in Table
  BY <1>1 DEF Table
<1>5. \A g \in Positions, j \in Positions : Probe(g, j) \in Positions
  BY ProbeOnto
<1>6. \A g \in Positions, j \in Positions :
        table[Probe(g, j)] # NoSlot => new[Probe(g, j)] = table[Probe(g, j)]
  BY <1>1, <1>3, <1>5
<1>7. \A k \in Positions : \A j \in 0 .. k : j \in Positions
  BY SizeAssumption DEF Positions
<1>8. Reachable(new, h, slot)
  <2>1. new[Probe(h, i)] = slot
    BY <1>1, <1>3
  <2>2. \A j \in 0 .. i : j = i \/ j \in 0 .. (i - 1)
    BY DEF Positions
  <2>3. \A j \in 0 .. i : new[Probe(h, j)] # NoSlot
    BY <2>1, <2>2, <1>1, <1>2, <1>6, <1>7
  <2>4. QED
    BY <2>1, <2>3 DEF Reachable
<1>9. ASSUME NEW g \in Positions, NEW s \in Slots, Reachable(table, g, s)
      PROVE  Reachable(new, g, s)
  <2>1. PICK k \in Positions : /\ table[Probe(g, k)] = s
                               /\ \A j \in 0 .. k : table[Probe(g, j)] # NoSlot
    BY <1>9 DEF Reachable
  <2>2. new[Probe(g, k)] = s /\ \A j \in 0 .. k : new[Probe(g, j)] # NoSlot
    BY <2>1, <1>2, <1>6, <1>7
  <2>3. QED
    BY <2>2 DEF Reachable
<1>10. QED
  BY <1>1, <1>2, <1>3, <1>4, <1>8, <1>9 DEF new

\* Entering a session that is not yet in a table keeps the table sound.
LEMMA EnterSound ==
  ASSUME NEW table \in Table, EntriesSound(table),
         NEW h \in Positions, NEW slot \in Slots, slot \notin Entered
  PROVE  /\ \A p \in Positions : \/ TableInsert(table, h, slot)[p] = NoSlot
                                 \/ TableInsert(table, h, slot)[p] \in Entered \cup {slot}
         /\ \A p, q \in Positions :
              TableInsert(table, h, slot)[p] = TableInsert(table, h, slot)[q]
                => p = q \/ TableInsert(table, h, slot)[p] = NoSlot
<1> DEFINE new == TableInsert(table, h, slot)
<1>1. /\ \A p \in Positions : new[p] \in {table[p], slot}
      /\ \A p, q \in Positions :
           new[p] = slot /\ new[q] = slot => p = q \/ table[p] = slot \/ table[q] = slot
  BY InsertReachable
<1>2. /\ \A p \in Positions : table[p] = NoSlot \/ table[p] \in Entered
      /\ \A p, q \in Positions : table[p] = table[q] => p = q \/ table[p] = NoSlot
  BY DEF EntriesSound
<1>3. slot # NoSlot
  BY DEF Slots, NoSlot
<1> HIDE DEF new
<1>4. \A p \in Positions : table[p] # slot
  BY <1>2, <1>3
<1>5. \A p \in Positions : new[p] = NoSlot \/ new[p] \in Entered \cup {slot}
  BY <1>1, <1>2
<1>6. \A p, q \in Positions : new[p] = new[q] => p = q \/ new[p] = NoSlot
  BY <1>1, <1>2, <1>4
<1>7. QED
  BY <1>5, <1>6 DEF new

-----------------------------------------------------------------------------
\* Initially the map is empty and its tables hold nothing.
LEMMA InitEstablishes == Init => IInv
<1> SUFFICES ASSUME Init PROVE IInv
  OBVIOUS
<1> USE DEF Init
<1>1. Active = {} /\ Entered = {}
  BY DEF Active, Entered, UnusedSession
<1>2. TypeOK
  <2>1. sessions \in [Slots -> Session]
    BY DEF UnusedSession, Session
  <2>2. addr_table \in [Positions -> Slots \cup {NoSlot}]
    BY DEF EmptyTable
  <2>3. QED
    BY <1>1, <2>1, <2>2, SizeAssumption DEF TypeOK, EmptyTable
<1>3. CountExact
  BY <1>1, FS_EmptySet DEF CountExact
<1>4. KeysUnique
  BY <1>1 DEF KeysUnique
<1>5. ProbeChains
  BY <1>1 DEF ProbeChains, EntriesSound, EmptyTable
<1>6. QED
  BY <1>2, <1>3, <1>4, <1>5 DEF IInv

\* The live sessions are a finite set of at most Capacity slots.
LEMMA ActiveFinite == IsFiniteSet(Active) /\ Cardinality(Active) \in 0 .. Capacity
<1>1. IsFiniteSet(Slots) /\ Cardinality(Slots) = Capacity
  BY FS_Interval, SizeAssumption DEF Slots
<1>2. Active \in SUBSET Slots
  BY DEF Active
<1>3. IsFiniteSet(Active) /\ Cardinality(Active) <= Capacity
  BY <1>1, <1>2, FS_Subset
<1>4. QED
  BY <1>3, FS_CardinalityType, SizeAssumption

\* The invariant makes session_find_by_addr exact between operations.
LEMMA FindByAddrExact ==
  ASSUME IInv, Idle, NEW a \in Addr
  PROVE  \/ /\ FindByAddr(a) \in Active
            /\ sessions[FindByAddr(a)].client_addr = a
         \/ /\ FindByAddr(a) = NoSlot
            /\ \A s \in Active : sessions[s].client_addr # a
<1> DEFINE slotAt(i) == addr_table[Probe(AddrHash[a], i)]
           isSession(slot) == sessions[slot].active /\ sessions[slot].client_addr = a
           ends == {i \in Positions : slotAt(i) = NoSlot \/ isSession(slotAt(i))}
<1>1. FindByAddr(a) = IF ends = {} THEN NoSlot ELSE slotAt(Min(ends))
  BY DEF FindByAddr
<1>2. AddrHash[a] \in Positions
  BY HashAssumption
<1>3. \A i \in Positions : slotAt(i) \in Slots \cup {NoSlot}
  BY <1>2, ProbeOnto DEF IInv, TypeOK
<1>4. \A s \in Active : s \in Entered
  BY SizeAssumption DEF Entered, Idle, Active, Slots
<1>5. ASSUME NEW s \in Active, sessions[s].client_addr = a
      PROVE  \E i \in ends : \A j \in 0 .. i : slotAt(j) # NoSlot
  <2>1. Reachable(addr_table, AddrHash[a], s)
    BY <1>4, <1>5 DEF IInv, ProbeChains
  <2>2. PICK i \in Positions : slotAt(i) = s /\ \A j \in 0 .. i : slotAt(j) # NoSlot
    BY <2>1 DEF Reachable
  <2>3. i \in ends
    BY <1>5, <2>2 DEF Active
  <2>4. QED
    BY <2>2, <2>3
<1>6. ends \in SUBSET Nat
  BY DEF Positions
<1>7. \A i \in ends : i \in Positions /\ (slotAt(i) = NoSlot \/ isSession(slotAt(i)))
  OBVIOUS
<1>8. CASE ends = {}
  BY <1>1, <1>5, <1>8
<1>9. CASE ends # {}
  <2> HIDE DEF ends
  <2>1. Min(ends) \in ends /\ \A k \in ends : Min(ends) <= k
    BY <1>6, <1>9, LeastElement
  <2>2. FindByAddr(a) = slotAt(Min(ends))
    BY <1>1, <1>9
  <2>3. CASE slotAt(Min(ends)) = NoSlot
    <3>1. ASSUME NEW s \in Active, sessions[s].client_addr = a
          PROVE  FALSE
      <4>1. PICK i \in ends : \A j \in 0 .. i : slotAt(j) # NoSlot
        BY <1>5, <3>1
      <4>2. Min(ends) \in Nat /\ i \in Nat /\ Min(ends) <= i
        BY <2>1, <1>6, Zenon
      <4>3. QED
        BY <4>1, <4>2, <2>3
    <3>2. QED
      BY <2>2, <2>3, <3>1
  <2>4. CASE slotAt(Min(ends)) # NoSlot
    <3>1. slotAt(Min(ends)) \in Slots /\ isSession(slotAt(Min(ends)))
      BY <1>3, <1>7, <2>1, <2>4
    <3>2. QED
      BY <2>2, <3>1 DEF Active
  <2>5. QED
    BY <2>3, <2>4
<1>10. QED
  BY <1>8, <1>9

\* The invariant makes session_find_by_fd exact between operations.
LEMMA FindByFdExact ==
  ASSUME IInv, Idle, NEW f \in Fd
  PROVE  \/ /\ FindByFd(f) \in Active
            /\ sessions[FindByFd(f)].relay_fd = f
         \/ /\ FindByFd(f) = NoSlot
            /\ \A s \in Active : sessions[s].relay_fd # f
<1> DEFINE slotAt(i) == fd_table[Probe(FdHash[f], i)]
           isSession(slot) == sessions[slot].active /\ sessions[slot].relay_fd = f
           ends == {i \in Positions : slotAt(i) = NoSlot \/ isSession(slotAt(i))}
<1>1. FindByFd(f) = IF ends = {} THEN NoSlot ELSE slotAt(Min(ends))
  BY DEF FindByFd
<1>2. FdHash[f] \in Positions
  BY HashAssumption
<1>3. \A i \in Positions : slotAt(i) \in Slots \cup {NoSlot}
  BY <1>2, ProbeOnto DEF IInv, TypeOK
<1>4. \A s \in Active : s \in Entered
  BY SizeAssumption DEF Entered, Idle, Active, Slots
<1>5. ASSUME NEW s \in Active, sessions[s].relay_fd = f
      PROVE  \E i \in ends : \A j \in 0 .. i : slotAt(j) # NoSlot
  <2>1. Reachable(fd_table, FdHash[f], s)
    BY <1>4, <1>5 DEF IInv, ProbeChains
  <2>2. PICK i \in Positions : slotAt(i) = s /\ \A j \in 0 .. i : slotAt(j) # NoSlot
    BY <2>1 DEF Reachable
  <2>3. i \in ends
    BY <1>5, <2>2 DEF Active
  <2>4. QED
    BY <2>2, <2>3
<1>6. ends \in SUBSET Nat
  BY DEF Positions
<1>7. \A i \in ends : i \in Positions /\ (slotAt(i) = NoSlot \/ isSession(slotAt(i)))
  OBVIOUS
<1>8. CASE ends = {}
  BY <1>1, <1>5, <1>8
<1>9. CASE ends # {}
  <2> HIDE DEF ends
  <2>1. Min(ends) \in ends /\ \A k \in ends : Min(ends) <= k
    BY <1>6, <1>9, LeastElement
  <2>2. FindByFd(f) = slotAt(Min(ends))
    BY <1>1, <1>9
  <2>3. CASE slotAt(Min(ends)) = NoSlot
    <3>1. ASSUME NEW s \in Active, sessions[s].relay_fd = f
          PROVE  FALSE
      <4>1. PICK i \in ends : \A j \in 0 .. i : slotAt(j) # NoSlot
        BY <1>5, <3>1
      <4>2. Min(ends) \in Nat /\ i \in Nat /\ Min(ends) <= i
        BY <2>1, <1>6, Zenon
      <4>3. QED
        BY <4>1, <4>2, <2>3
    <3>2. QED
      BY <2>2, <2>3, <3>1
  <2>4. CASE slotAt(Min(ends)) # NoSlot
    <3>1. slotAt(Min(ends)) \in Slots /\ isSession(slotAt(Min(ends)))
      BY <1>3, <1>7, <2>1, <2>4
    <3>2. QED
      BY <2>2, <3>1 DEF Active
  <2>5. QED
    BY <2>3, <2>4
<1>10. QED
  BY <1>8, <1>9

\* Insertion: the new session joins both tables, the others stay reachable.
LEMMA InsertPreserves ==
  ASSUME IInv, NEW a \in Addr, NEW f \in Fd, Insert(a, f)
  PROVE  IInv'
<1> USE DEF IInv
<1>1. PICK s \in Slots \ Active :
        /\ sessions' = [sessions EXCEPT ![s] =
                          [client_addr |-> a, relay_fd |-> f, active |-> TRUE]]
        /\ addr_table' = TableInsert(addr_table, AddrHash[a], s)
        /\ fd_table' = TableInsert(fd_table, FdHash[f], s)
  BY DEF Insert
<1>2. /\ count' = count + 1 /\ rebuild' = rebuild /\ rebuild = Capacity
      /\ result' = "inserted" /\ count < Capacity
      /\ \A t \in Active : sessions[t].relay_fd # f
  BY DEF Insert, Idle
<1>3. /\ sessions \in [Slots -> Session] /\ addr_table \in Table /\ fd_table \in Table
      /\ EntriesSound(addr_table) /\ EntriesSound(fd_table)
  BY DEF TypeOK, Table, ProbeChains
<1>4. AddrHash[a] \in Positions /\ FdHash[f] \in Positions
  BY HashAssumption
<1>5. \A t \in Slots : sessions'[t] = IF t = s
                                    THEN [client_addr |-> a, relay_fd |-> f, active |-> TRUE]
                                    ELSE sessions[t]
  BY <1>1, <1>3
<1>6. Active' = Active \cup {s} /\ s \notin Active
  BY <1>1, <1>5 DEF Active
<1>7. Entered = Active /\ Entered' = Entered \cup {s} /\ s \notin Entered
  <2>1. \A t \in Slots : t < Capacity
    BY SizeAssumption DEF Slots
  <2>2. Entered = Active
    BY <1>2, <2>1 DEF Entered, Active
  <2>3. Entered' = Active'
    BY <1>2, <2>1 DEF Entered, Active
  <2>4. QED
    BY <1>6, <2>2, <2>3
<1>8. \A t \in Active : /\ sessions'[t] = sessions[t]
                        /\ sessions[t].client_addr \in Addr /\ sessions[t].relay_fd \in Fd
  BY <1>5, <1>6 DEF TypeOK, Active
<1>9. \A t \in Active : sessions[t].client_addr # a
  <2>1. Idle /\ FindByAddr(a) = NoSlot
    BY DEF Insert
  <2>2. NoSlot \notin Active
    BY DEF NoSlot, Active, Slots
  <2>3. QED
    BY <2>1, <2>2, FindByAddrExact
<1>10. s \in Slots /\ sessions'[s] = [client_addr |-> a, relay_fd |-> f, active |-> TRUE]
  BY <1>5
<1>11. TypeOK'
  <2>1. sessions' \in [Slots -> Session]
    BY <1>1, <1>3 DEF Session
  <2>2. \A t \in Active' : sessions'[t].client_addr \in Addr /\ sessions'[t].relay_fd \in Fd
    BY <1>6, <1>8, <1>10
  <2>3. count' \in 0 .. Capacity
    BY <1>2, SizeAssumption DEF TypeOK
  <2>4. addr_table' \in Table /\ fd_table' \in Table
    BY <1>1, <1>3, <1>4, <1>10, InsertReachable
  <2>5. QED
    BY <1>2, <2>1, <2>2, <2>3, <2>4 DEF TypeOK, Table
<1>12. CountExact'
  BY <1>2, <1>6, ActiveFinite, FS_AddElement DEF CountExact
<1>13. KeysUnique'
  BY <1>2, <1>6, <1>8, <1>9, <1>10 DEF KeysUnique
<1>14. ProbeChains'
  <2>1. EntriesSound(addr_table)'
    BY <1>1, <1>3, <1>4, <1>7, <1>10, EnterSound DEF EntriesSound
  <2>2. EntriesSound(fd_table)'
    BY <1>1, <1>3, <1>4, <1>7, <1>10, EnterSound DEF EntriesSound
  <2>3. /\ Reachable(addr_table', AddrHash[a], s)
        /\ Reachable(fd_table', FdHash[f], s)
    BY <1>1, <1>3, <1>4, <1>10, InsertReachable
  <2>4. ASSUME NEW t \in Entered
        PROVE  /\ Reachable(addr_table', AddrHash[sessions'[t].client_addr], t)
               /\ Reachable(fd_table', FdHash[sessions'[t].relay_fd], t)
    <3>1. /\ Reachable(addr_table, AddrHash[sessions[t].client_addr], t)
          /\ Reachable(fd_table, FdHash[sessions[t].relay_fd], t)
      BY DEF ProbeChains
    <3>2. t \in Active /\ t \in Slots
      BY DEF Entered, Active
    <3>3. /\ AddrHash[sessions[t].client_addr] \in Positions
          /\ FdHash[sessions[t].relay_fd] \in Positions
      BY <1>8, <3>2, HashAssumption
    <3>4. QED
      BY <1>1, <1>3, <1>4, <1>8, <1>10, <3>1, <3>2, <3>3, InsertReachable
  <2>5. \A t \in Entered' : /\ Reachable(addr_table', AddrHash[sessions'[t].client_addr], t)
                            /\ Reachable(fd_table', FdHash[sessions'[t].relay_fd], t)
    BY <1>7, <1>10, <2>3, <2>4
  <2>6. QED
    BY <2>1, <2>2, <2>5 DEF ProbeChains, Reachable
<1>15. QED
  BY <1>11, <1>12, <1>13, <1>14

\* Removal: the victim leaves, both tables are emptied and nothing is entered yet.
LEMMA RemovePreserves ==
  ASSUME IInv, NEW v \in Slots, Remove(v)
  PROVE  IInv'
<1> USE DEF IInv
<1>1. /\ sessions[v].active
      /\ sessions' = [sessions EXCEPT ![v].active = FALSE, ![v].relay_fd = NoFd]
      /\ count' = count - 1 /\ rebuild' = 0 /\ result' = "removed"
      /\ addr_table' = EmptyTable /\ fd_table' = EmptyTable
  BY DEF Remove
<1>2. sessions \in [Slots -> Session]
  BY DEF TypeOK
<1>3. /\ sessions' \in [Slots -> Session]
      /\ \A t \in Slots : t # v => sessions'[t] = sessions[t]
      /\ ~ sessions'[v].active
  BY <1>1, <1>2 DEF Session
<1>4. Active' = Active \ {v} /\ v \in Active
  BY <1>1, <1>3 DEF Active
<1>5. Entered' = {}
  BY <1>1 DEF Entered, Active, Slots
<1>6. \A t \in Active' : t \in Active /\ sessions'[t] = sessions[t]
  BY <1>3, <1>4 DEF Active
<1>7. CountExact' /\ count' \in 0 .. Capacity
  <2>1. IsFiniteSet(Active) /\ Cardinality(Active) \in 0 .. Capacity
    BY ActiveFinite
  <2>2. Cardinality(Active') = Cardinality(Active) - 1 /\ Cardinality(Active') \in Nat
    BY <1>4, <2>1, FS_RemoveElement, FS_CardinalityType
  <2>3. QED
    BY <1>1, <2>1, <2>2, SizeAssumption DEF CountExact
<1>8. TypeOK'
  <2>1. \A t \in Active' : sessions'[t].client_addr \in Addr /\ sessions'[t].relay_fd \in Fd
    BY <1>6 DEF TypeOK
  <2>2. addr_table' \in Table /\ fd_table' \in Table
    BY <1>1 DEF EmptyTable, Table
  <2>3. rebuild' \in 0 .. Capacity /\ result' = "removed"
    BY SizeAssumption DEF Remove
  <2>4. QED
    BY <1>3, <1>7, <2>1, <2>2, <2>3 DEF TypeOK, Table
<1>9. KeysUnique'
  BY <1>6 DEF KeysUnique
<1>10. ProbeChains'
  BY <1>1, <1>5 DEF ProbeChains, EntriesSound, EmptyTable
<1>11. QED
  BY <1>7, <1>8, <1>9, <1>10

\* One iteration of the rebuild enters the session at the loop index, if any.
LEMMA RebuildPreserves ==
  ASSUME IInv, RebuildStep
  PROVE  IInv'
<1> USE DEF IInv
<1>1. /\ rebuild # Capacity /\ rebuild' = rebuild + 1
      /\ sessions' = sessions /\ count' = count /\ result' = result
  BY DEF RebuildStep, Idle
<1>2. rebuild \in Slots /\ rebuild' \in 0 .. Capacity
  BY <1>1, SizeAssumption DEF TypeOK, Slots
<1>3. Active' = Active
  BY <1>1 DEF Active
<1>4. /\ sessions \in [Slots -> Session] /\ addr_table \in Table /\ fd_table \in Table
      /\ EntriesSound(addr_table) /\ EntriesSound(fd_table)
  BY DEF TypeOK, Table, ProbeChains
<1>5. CountExact' /\ KeysUnique'
  BY <1>1, <1>3 DEF CountExact, KeysUnique
<1>6. rebuild \notin Entered
  BY <1>2 DEF Entered, Slots
<1>7. Entered' = IF sessions[rebuild].active THEN Entered \cup {rebuild} ELSE Entered
  <2>1. \A t \in Slots : t < rebuild + 1 <=> t < rebuild \/ t = rebuild
    BY <1>2 DEF Slots
  <2>2. QED
    BY <1>1, <1>2, <1>3, <2>1 DEF Entered, Active
<1>8. CASE ~ sessions[rebuild].active
  <2>1. addr_table' = addr_table /\ fd_table' = fd_table
    BY <1>8 DEF RebuildStep
  <2>2. ProbeChains'
    BY <1>1, <1>7, <1>8, <2>1 DEF ProbeChains, EntriesSound, Reachable
  <2>3. TypeOK'
    BY <1>1, <1>2, <1>3, <2>1 DEF TypeOK
  <2>4. QED
    BY <1>5, <2>2, <2>3
<1>9. CASE sessions[rebuild].active
  <2> DEFINE ha == AddrHash[sessions[rebuild].client_addr]
             hf == FdHash[sessions[rebuild].relay_fd]
  <2>1. /\ addr_table' = TableInsert(addr_table, ha, rebuild)
        /\ fd_table' = TableInsert(fd_table, hf, rebuild)
    BY <1>9 DEF RebuildStep
  <2>2. ha \in Positions /\ hf \in Positions
    BY <1>2, <1>9, HashAssumption DEF TypeOK, Active
  <2> HIDE DEF ha, hf
  <2>3. addr_table' \in Table /\ fd_table' \in Table
    BY <1>2, <1>4, <2>1, <2>2, InsertReachable
  <2>4. EntriesSound(addr_table)'
    BY <1>2, <1>4, <1>6, <1>7, <1>9, <2>1, <2>2, EnterSound DEF EntriesSound
  <2>5. EntriesSound(fd_table)'
    BY <1>2, <1>4, <1>6, <1>7, <1>9, <2>1, <2>2, EnterSound DEF EntriesSound
  <2>6. Reachable(addr_table', ha, rebuild) /\ Reachable(fd_table', hf, rebuild)
    BY <1>2, <1>4, <2>1, <2>2, InsertReachable
  <2>7. ASSUME NEW t \in Entered
        PROVE  /\ Reachable(addr_table', AddrHash[sessions[t].client_addr], t)
               /\ Reachable(fd_table', FdHash[sessions[t].relay_fd], t)
    <3>1. /\ Reachable(addr_table, AddrHash[sessions[t].client_addr], t)
          /\ Reachable(fd_table, FdHash[sessions[t].relay_fd], t)
      BY DEF ProbeChains
    <3>2. t \in Active /\ t \in Slots
      BY DEF Entered, Active
    <3>3. /\ AddrHash[sessions[t].client_addr] \in Positions
          /\ FdHash[sessions[t].relay_fd] \in Positions
      BY <3>2, HashAssumption DEF TypeOK
    <3>4. QED
      BY <1>2, <1>4, <2>1, <2>2, <3>1, <3>2, <3>3, InsertReachable
  <2>8. \A t \in Entered' : /\ Reachable(addr_table', AddrHash[sessions'[t].client_addr], t)
                            /\ Reachable(fd_table', FdHash[sessions'[t].relay_fd], t)
    BY <1>1, <1>7, <1>9, <2>6, <2>7 DEF ha, hf
  <2>9. ProbeChains'
    BY <2>4, <2>5, <2>8 DEF ProbeChains, Reachable
  <2>10. TypeOK'
    BY <1>1, <1>2, <1>3, <2>3 DEF TypeOK, Table
  <2>11. QED
    BY <1>5, <2>9, <2>10
<1>10. QED
  BY <1>8, <1>9

\* The invariant is inductive.
THEOREM Invariance == Spec => []IInv
<1>1. Init => IInv
  BY InitEstablishes
<1>2. IInv /\ [Next]_vars => IInv'
  <2> SUFFICES ASSUME IInv, [Next]_vars
               PROVE  IInv'
    OBVIOUS
  <2>1. CASE InsertRefused
    BY <2>1 DEF InsertRefused, IInv, TypeOK, CountExact, KeysUnique, ProbeChains,
                EntriesSound, Reachable, Entered, Active
  <2>2. ASSUME NEW a \in Addr, NEW f \in Fd, Insert(a, f)
        PROVE  IInv'
    BY <2>2, InsertPreserves
  <2>3. ASSUME NEW s \in Slots, Remove(s)
        PROVE  IInv'
    BY <2>3, RemovePreserves
  <2>4. CASE RebuildStep
    BY <2>4, RebuildPreserves
  <2>5. CASE UNCHANGED vars
    BY <2>5 DEF vars, IInv, TypeOK, CountExact, KeysUnique, ProbeChains,
                EntriesSound, Reachable, Entered, Active
  <2>6. QED
    BY <2>1, <2>2, <2>3, <2>4, <2>5 DEF Next
<1>3. QED
  BY <1>1, <1>2, PTL DEF Spec

\* Types are respected by every operation of the map.
THEOREM TypeCorrect == Spec => []TypeOK
<1>1. IInv => TypeOK
  BY DEF IInv
<1>2. QED
  BY <1>1, Invariance, PTL

\* The session counter always equals the number of live sessions.
THEOREM CountCorrect == Spec => []CountExact
<1>1. IInv => CountExact
  BY DEF IInv
<1>2. QED
  BY <1>1, Invariance, PTL

\* Lookups by client address are exact, for all hash functions and capacities.
THEOREM LookupByAddrCorrect == Spec => []LookupByAddrExact
<1>1. IInv => LookupByAddrExact
  BY FindByAddrExact DEF LookupByAddrExact
<1>2. QED
  BY <1>1, Invariance, PTL

\* Lookups by relay descriptor are exact: a reply finds its client's session.
THEOREM LookupByFdCorrect == Spec => []LookupByFdExact
<1>1. IInv => LookupByFdExact
  BY FindByFdExact DEF LookupByFdExact
<1>2. QED
  BY <1>1, Invariance, PTL

\* No probe chain is ever cut, in the middle of a rebuild either.
THEOREM ProbeChainsCorrect == Spec => []ProbeChains
<1>1. IInv => ProbeChains
  BY DEF IInv
<1>2. QED
  BY <1>1, Invariance, PTL

-----------------------------------------------------------------------------
(* The hash tables implement the directory SessionIndex.  What ties the two *)
(* levels together is that the lookups, between operations, and the session *)
(* array, during a rebuild, give the same two maps.                         *)

Addresses == {sessions[s].client_addr : s \in Active}
Descriptors == {sessions[s].relay_fd : s \in Active}

\* Seen by address, the map is the live sessions, whether it is asked or read.
LEMMA ByAddrMeaning ==
  IInv => /\ ByAddr = [a \in Addresses |-> ByAddr[a]]
          /\ \A s \in Active : ByAddr[sessions[s].client_addr] = sessions[s].relay_fd
<1> SUFFICES ASSUME IInv
             PROVE  /\ ByAddr = [a \in Addresses |-> ByAddr[a]]
                    /\ \A s \in Active : ByAddr[sessions[s].client_addr] = sessions[s].relay_fd
  OBVIOUS
<1>1. /\ \A s \in Active : sessions[s].client_addr \in Addr
      /\ \A s, t \in Active : sessions[s].client_addr = sessions[t].client_addr => s = t
      /\ NoSlot \notin Active
  BY DEF IInv, TypeOK, KeysUnique, Active, NoSlot, Slots
<1>2. CASE Idle
  <2>1. \A a \in Addr : \/ /\ FindByAddr(a) \in Active
                           /\ sessions[FindByAddr(a)].client_addr = a
                        \/ /\ FindByAddr(a) = NoSlot
                           /\ \A s \in Active : sessions[s].client_addr # a
    BY <1>2, FindByAddrExact
  <2>2. ByAddr = [a \in {a \in Addr : FindByAddr(a) # NoSlot} |->
                    sessions[FindByAddr(a)].relay_fd]
    BY <1>2 DEF ByAddr
  <2>3. {a \in Addr : FindByAddr(a) # NoSlot} = Addresses
    BY <1>1, <2>1 DEF Addresses
  <2>4. \A s \in Active : FindByAddr(sessions[s].client_addr) = s
    BY <1>1, <2>1
  <2>5. \A s \in Active : sessions[s].client_addr \in Addresses
    BY DEF Addresses
  <2>6. QED
    BY <2>2, <2>3, <2>4, <2>5
<1>3. CASE ~ Idle
  <2> DEFINE slotOf(a) == CHOOSE s \in Active : sessions[s].client_addr = a
  <2>1. ByAddr = [a \in Addresses |-> sessions[slotOf(a)].relay_fd]
    BY <1>3 DEF ByAddr, Addresses
  <2>2. ASSUME NEW s \in Active
        PROVE  slotOf(sessions[s].client_addr) = s
    BY <1>1
  <2>3. \A s \in Active : sessions[s].client_addr \in Addresses
    BY DEF Addresses
  <2> HIDE DEF slotOf
  <2>4. QED
    BY <2>1, <2>2, <2>3
<1>4. QED
  BY <1>2, <1>3

\* The same by descriptor.
LEMMA ByFdMeaning ==
  IInv => /\ ByFd = [f \in Descriptors |-> ByFd[f]]
          /\ \A s \in Active : ByFd[sessions[s].relay_fd] = sessions[s].client_addr
<1> SUFFICES ASSUME IInv
             PROVE  /\ ByFd = [f \in Descriptors |-> ByFd[f]]
                    /\ \A s \in Active : ByFd[sessions[s].relay_fd] = sessions[s].client_addr
  OBVIOUS
<1>1. /\ \A s \in Active : sessions[s].relay_fd \in Fd
      /\ \A s, t \in Active : sessions[s].relay_fd = sessions[t].relay_fd => s = t
      /\ NoSlot \notin Active
  BY DEF IInv, TypeOK, KeysUnique, Active, NoSlot, Slots
<1>2. CASE Idle
  <2>1. \A f \in Fd : \/ /\ FindByFd(f) \in Active
                         /\ sessions[FindByFd(f)].relay_fd = f
                      \/ /\ FindByFd(f) = NoSlot
                         /\ \A s \in Active : sessions[s].relay_fd # f
    BY <1>2, FindByFdExact
  <2>2. ByFd = [f \in {f \in Fd : FindByFd(f) # NoSlot} |->
                  sessions[FindByFd(f)].client_addr]
    BY <1>2 DEF ByFd
  <2>3. {f \in Fd : FindByFd(f) # NoSlot} = Descriptors
    BY <1>1, <2>1 DEF Descriptors
  <2>4. \A s \in Active : FindByFd(sessions[s].relay_fd) = s
    BY <1>1, <2>1
  <2>5. \A s \in Active : sessions[s].relay_fd \in Descriptors
    BY DEF Descriptors
  <2>6. QED
    BY <2>2, <2>3, <2>4, <2>5
<1>3. CASE ~ Idle
  <2> DEFINE slotOf(f) == CHOOSE s \in Active : sessions[s].relay_fd = f
  <2>1. ByFd = [f \in Descriptors |-> sessions[slotOf(f)].client_addr]
    BY <1>3 DEF ByFd, Descriptors
  <2>2. ASSUME NEW s \in Active
        PROVE  slotOf(sessions[s].relay_fd) = s
    BY <1>1
  <2>3. \A s \in Active : sessions[s].relay_fd \in Descriptors
    BY DEF Descriptors
  <2> HIDE DEF slotOf
  <2>4. QED
    BY <2>1, <2>2, <2>3
<1>4. QED
  BY <1>2, <1>3

\* Both hold after a step, too.
Meaning ==
  /\ ByAddr = [a \in Addresses |-> ByAddr[a]]
  /\ \A s \in Active : ByAddr[sessions[s].client_addr] = sessions[s].relay_fd
  /\ ByFd = [f \in Descriptors |-> ByFd[f]]
  /\ \A s \in Active : ByFd[sessions[s].relay_fd] = sessions[s].client_addr

LEMMA MeaningAfter ==
  IInv' => /\ ByAddr' = [a \in Addresses' |-> ByAddr'[a]]
           /\ \A s \in Active' : ByAddr'[sessions'[s].client_addr] = sessions'[s].relay_fd
           /\ ByFd' = [f \in Descriptors' |-> ByFd'[f]]
           /\ \A s \in Active' : ByFd'[sessions'[s].relay_fd] = sessions'[s].client_addr
<1>1. IInv => Meaning
  BY ByAddrMeaning, ByFdMeaning DEF Meaning
<1>2. IInv' => Meaning'
  BY <1>1, PTL
<1>3. QED
  BY <1>2 DEF Meaning

\* FiniteSets means the same in both modules.
LEMMA SameCardinality ==
  ASSUME NEW S
  PROVE  Index!Cardinality(S) = Cardinality(S)
BY Zenon DEF Index!Cardinality, Cardinality

\* The directory has as many entries as the map has live sessions.
LEMMA DirectorySize ==
  ASSUME IInv
  PROVE  Cardinality(DOMAIN ByAddr) = count
<1> DEFINE key == [s \in Active |-> sessions[s].client_addr]
<1>1. IsFiniteSet(Active)
  BY ActiveFinite
<1>2. key \in Bijection(Active, Addresses)
  <2>1. key \in Surjection(Active, Addresses)
    BY DEF Surjection, Addresses
  <2>2. key \in Injection(Active, Addresses)
    BY DEF Injection, IsInjective, Addresses, IInv, KeysUnique
  <2>3. QED
    BY <2>1, <2>2 DEF Bijection
<1>3. Cardinality(Addresses) = Cardinality(Active)
  <2>1. ExistsBijection(Active, Addresses)
    BY <1>2 DEF ExistsBijection
  <2>2. QED
    BY <1>1, <2>1, FS_Bijection
<1>4. DOMAIN ByAddr = Addresses
  BY ByAddrMeaning
<1>5. QED
  BY <1>3, <1>4 DEF IInv, CountExact

-----------------------------------------------------------------------------
\* An empty map is an empty directory.
LEMMA InitRefines == Init => Index!Init
<1> SUFFICES ASSUME Init PROVE Index!Init
  OBVIOUS
<1>1. IInv
  BY InitEstablishes
<1>2. Addresses = {} /\ Descriptors = {}
  BY DEF Init, Active, UnusedSession, Addresses, Descriptors
<1>3. ByAddr = Index!EmptyMap /\ ByFd = Index!EmptyMap
  BY <1>1, <1>2, ByAddrMeaning, ByFdMeaning DEF Index!EmptyMap
<1>4. QED
  BY <1>3 DEF Init, Index!Init

\* Nothing but the live sessions counts for the two maps.
LEMMA SameSessions ==
  ASSUME IInv, IInv', sessions' = sessions
  PROVE  ByAddr' = ByAddr /\ ByFd' = ByFd
<1>1. Active' = Active /\ Addresses' = Addresses /\ Descriptors' = Descriptors
  BY DEF Active, Addresses, Descriptors
<1>2. \A a \in Addresses : \E s \in Active : a = sessions[s].client_addr
  BY DEF Addresses
<1>3. \A f \in Descriptors : \E s \in Active : f = sessions[s].relay_fd
  BY DEF Descriptors
<1>4. \A a \in Addresses : ByAddr'[a] = ByAddr[a]
  BY <1>1, <1>2, ByAddrMeaning, MeaningAfter
<1>5. \A f \in Descriptors : ByFd'[f] = ByFd[f]
  BY <1>1, <1>3, ByFdMeaning, MeaningAfter
<1>6. ByAddr' = [a \in Addresses |-> ByAddr'[a]] /\ ByAddr = [a \in Addresses |-> ByAddr[a]]
  BY <1>1, ByAddrMeaning, MeaningAfter
<1>7. ByFd' = [f \in Descriptors |-> ByFd'[f]] /\ ByFd = [f \in Descriptors |-> ByFd[f]]
  BY <1>1, ByFdMeaning, MeaningAfter
<1>8. ByAddr' = ByAddr
  BY <1>4, <1>6
<1>9. ByFd' = ByFd
  BY <1>5, <1>7
<1>10. QED
  BY <1>8, <1>9

\* session_insert enters the session under both of its keys.
LEMMA InsertRefines ==
  ASSUME IInv, IInv', NEW a \in Addr, NEW f \in Fd, Insert(a, f)
  PROVE  Index!Insert(a, f)
<1>1. PICK s \in Slots \ Active :
        sessions' = [sessions EXCEPT ![s] =
                       [client_addr |-> a, relay_fd |-> f, active |-> TRUE]]
  BY DEF Insert
<1>2. \A t \in Slots : sessions'[t] = IF t = s
                                    THEN [client_addr |-> a, relay_fd |-> f, active |-> TRUE]
                                    ELSE sessions[t]
  BY <1>1 DEF IInv, TypeOK
<1>3. Active' = Active \cup {s}
  BY <1>2 DEF Active
<1>4. \A t \in Active : sessions'[t] = sessions[t]
  BY <1>2 DEF Active
<1>5. sessions'[s].client_addr = a /\ sessions'[s].relay_fd = f
  BY <1>2
<1>6. \A t \in Active : sessions[t].client_addr # a /\ sessions[t].relay_fd # f
  <2>1. Idle /\ FindByAddr(a) = NoSlot /\ \A t \in Active : sessions[t].relay_fd # f
    BY DEF Insert
  <2>2. NoSlot \notin Active
    BY DEF NoSlot, Active, Slots
  <2>3. QED
    BY <2>1, <2>2, FindByAddrExact
<1>7. a \notin Addresses /\ f \notin Descriptors
  BY <1>6 DEF Addresses, Descriptors
<1>8. Addresses' = Addresses \cup {a} /\ Descriptors' = Descriptors \cup {f}
  BY <1>3, <1>4, <1>5 DEF Addresses, Descriptors
<1>9. \A b \in Addresses : ByAddr'[b] = ByAddr[b]
  <2>1. \A b \in Addresses : \E t \in Active : b = sessions[t].client_addr
    BY DEF Addresses
  <2>2. QED
    BY <1>3, <1>4, <2>1, ByAddrMeaning, MeaningAfter
<1>10. \A g \in Descriptors : ByFd'[g] = ByFd[g]
  <2>1. \A g \in Descriptors : \E t \in Active : g = sessions[t].relay_fd
    BY DEF Descriptors
  <2>2. QED
    BY <1>3, <1>4, <2>1, ByFdMeaning, MeaningAfter
<1>11. ByAddr'[a] = f /\ ByFd'[f] = a
  BY <1>3, <1>5, MeaningAfter
<1>12. DOMAIN ByAddr = Addresses /\ DOMAIN ByFd = Descriptors
  BY ByAddrMeaning, ByFdMeaning
<1>13. ByAddr' = [b \in Addresses \cup {a} |-> IF b = a THEN f ELSE ByAddr[b]]
  <2>1. ByAddr' = [b \in Addresses \cup {a} |-> ByAddr'[b]]
    BY <1>8, MeaningAfter
  <2>2. \A b \in Addresses \cup {a} : ByAddr'[b] = IF b = a THEN f ELSE ByAddr[b]
    BY <1>9, <1>11
  <2>3. QED
    BY <2>1, <2>2
<1>14. ByFd' = [g \in Descriptors \cup {f} |-> IF g = f THEN a ELSE ByFd[g]]
  <2>1. ByFd' = [g \in Descriptors \cup {f} |-> ByFd'[g]]
    BY <1>8, MeaningAfter
  <2>2. \A g \in Descriptors \cup {f} : ByFd'[g] = IF g = f THEN a ELSE ByFd[g]
    BY <1>10, <1>11
  <2>3. QED
    BY <2>1, <2>2
<1>15. Cardinality(DOMAIN ByAddr) < Capacity /\ result' = "inserted"
  BY DirectorySize DEF Insert
<1>16. QED
  BY <1>7, <1>12, <1>13, <1>14, <1>15, SameCardinality DEF Index!Insert, Index!Extend

\* session_remove takes the session away under both of its keys.
LEMMA RemoveRefines ==
  ASSUME IInv, IInv', NEW v \in Slots, Remove(v)
  PROVE  \E a \in Addr : Index!Remove(a)
<1> DEFINE a == sessions[v].client_addr
           f == sessions[v].relay_fd
<1>1. /\ sessions[v].active /\ result' = "removed"
      /\ sessions' = [sessions EXCEPT ![v].active = FALSE, ![v].relay_fd = NoFd]
  BY DEF Remove
<1>2. v \in Active /\ Active' = Active \ {v}
  BY <1>1 DEF IInv, TypeOK, Active, Session
<1>3. \A t \in Active' : t \in Active /\ sessions'[t] = sessions[t]
  BY <1>1, <1>2 DEF IInv, TypeOK, Active
<1>4. a \in Addr /\ a \in Addresses /\ f \in Descriptors
  BY <1>2 DEF IInv, TypeOK, Addresses, Descriptors
<1>5. \A t \in Active' : sessions[t].client_addr # a /\ sessions[t].relay_fd # f
  BY <1>2 DEF IInv, KeysUnique
<1> HIDE DEF a, f
<1>6. Addresses' = Addresses \ {a} /\ Descriptors' = Descriptors \ {f}
  BY <1>2, <1>3, <1>5 DEF Addresses, Descriptors, a, f
<1>7. \A b \in Addresses' : ByAddr'[b] = ByAddr[b]
  <2>1. \A b \in Addresses' : \E t \in Active' : b = sessions'[t].client_addr
    BY DEF Addresses
  <2>2. QED
    BY <1>3, <2>1, ByAddrMeaning, MeaningAfter
<1>8. \A g \in Descriptors' : ByFd'[g] = ByFd[g]
  <2>1. \A g \in Descriptors' : \E t \in Active' : g = sessions'[t].relay_fd
    BY DEF Descriptors
  <2>2. QED
    BY <1>3, <2>1, ByFdMeaning, MeaningAfter
<1>9. /\ DOMAIN ByAddr = Addresses /\ DOMAIN ByFd = Descriptors
      /\ ByAddr[a] = f
  BY <1>2, ByAddrMeaning, ByFdMeaning DEF a, f
<1>10. ByAddr' = [b \in Addresses \ {a} |-> ByAddr[b]]
  <2>1. ByAddr' = [b \in Addresses \ {a} |-> ByAddr'[b]]
    BY <1>6, MeaningAfter
  <2>2. QED
    BY <1>6, <1>7, <2>1
<1>11. ByFd' = [g \in Descriptors \ {f} |-> ByFd[g]]
  <2>1. ByFd' = [g \in Descriptors \ {f} |-> ByFd'[g]]
    BY <1>6, MeaningAfter
  <2>2. QED
    BY <1>6, <1>8, <2>1
<1>12. Index!Remove(a)
  BY <1>1, <1>4, <1>9, <1>10, <1>11 DEF Index!Remove, Index!Without
<1>13. QED
  BY <1>4, <1>12

\* Every insertion, refusal and removal, seen through the lookups, is one of the
\* directory, and an iteration of the rebuild changes nothing anyone can see
\* (hashmap.c).
THEOREM Refinement == Spec => RefinesIndex
<1>1. Init => Index!Init
  BY InitRefines
<1>2. IInv /\ IInv' /\ [Next]_vars => [Index!Next]_(Index!vars)
  <2> SUFFICES ASSUME IInv, IInv', [Next]_vars
               PROVE  [Index!Next]_(Index!vars)
    OBVIOUS
  <2>1. CASE InsertRefused
    <3>1. ByAddr' = ByAddr /\ ByFd' = ByFd
      BY <2>1, SameSessions DEF InsertRefused
    <3>2. Cardinality(DOMAIN ByAddr) >= Capacity /\ result' = "NULL"
      BY <2>1, DirectorySize DEF InsertRefused
    <3>3. QED
      BY <3>1, <3>2, SameCardinality DEF Index!Next, Index!Refuse
  <2>2. ASSUME NEW a \in Addr, NEW f \in Fd, Insert(a, f)
        PROVE  Index!Next
    BY <2>2, InsertRefines DEF Index!Next
  <2>3. ASSUME NEW s \in Slots, Remove(s)
        PROVE  Index!Next
    BY <2>3, RemoveRefines DEF Index!Next
  <2>4. CASE RebuildStep
    BY <2>4, SameSessions DEF RebuildStep, Index!vars
  <2>5. CASE UNCHANGED vars
    BY <2>5, SameSessions DEF vars, Index!vars
  <2>6. QED
    BY <2>1, <2>2, <2>3, <2>4, <2>5 DEF Next
<1>3. QED
  BY <1>1, <1>2, Invariance, PTL DEF Spec, RefinesIndex, Index!Spec

=============================================================================
