----------------------------- MODULE SessionMap -----------------------------
(***************************************************************************)
(* The session map of one server instance, src/src/hashmap.c: a flat array *)
(* of sessions and two open-addressing tables of slot numbers, one hashed  *)
(* by client address, one by relay descriptor.  Removal clears both tables *)
(* and re-enters the survivors slot by slot; that loop is modelled one     *)
(* iteration per step, so that its invariant is a state predicate.         *)
(*                                                                         *)
(* The hash functions are arbitrary: the Murmur mixing of hash_addr and    *)
(* hash_fd, already masked to a table position, may send any key anywhere. *)
(***************************************************************************)
EXTENDS Integers, FiniteSets, FiniteSetsExt

CONSTANTS
  Addr,        \* client addresses (IP and port) that send packets
  Fd,          \* descriptor numbers the kernel hands out
  NoAddr,      \* the zeroed sockaddr_in of a slot that was never used
  Capacity,    \* max_clients + max_query_sessions when the map was made
  TableSize,   \* length of both tables
  AddrHash,    \* hash_addr(addr) & mask
  FdHash       \* hash_fd(fd) & mask

Slots == 0 .. (Capacity - 1)
Positions == 0 .. (TableSize - 1)

\* The code makes TableSize the power of two above 4 * Capacity (at least 16);
\* that it exceeds Capacity is all the algorithms rely on.
ASSUME SizeAssumption == Capacity \in Nat /\ TableSize \in Nat /\ Capacity < TableSize
ASSUME KeyAssumption == Fd \subseteq Nat /\ NoAddr \notin Addr
ASSUME HashAssumption == AddrHash \in [Addr -> Positions] /\ FdHash \in [Fd -> Positions]

VARIABLES
  sessions,    \* [Slots -> session_t]
  count,       \* sessions in use
  addr_table,  \* [Positions -> Slots or NoSlot], indexed by address hash
  fd_table,    \* [Positions -> Slots or NoSlot], indexed by descriptor hash
  rebuild,     \* loop variable of rebuild_tables; Capacity when not rebuilding
  result       \* what the last operation told its caller

vars == <<sessions, count, addr_table, fd_table, rebuild, result>>

-----------------------------------------------------------------------------
NoSlot == -1
NoFd == -1

Session == [client_addr : Addr \cup {NoAddr}, relay_fd : Fd \cup {0, NoFd}, active : BOOLEAN]
UnusedSession == [client_addr |-> NoAddr, relay_fd |-> 0, active |-> FALSE]

Active == {s \in Slots : sessions[s].active}
Idle == rebuild = Capacity

\* The i-th position of the probe sequence that starts at h: (h + i) & mask.
Probe(h, i) == IF h + i < TableSize THEN h + i ELSE h + i - TableSize

\* session_find_by_addr: the first probe that meets an empty position or the
\* address ends the search; NoSlot stands for NULL.
FindByAddr(a) ==
  LET slotAt(i) == addr_table[Probe(AddrHash[a], i)]
      isSession(slot) == sessions[slot].active /\ sessions[slot].client_addr = a
      ends == {i \in Positions : slotAt(i) = NoSlot \/ isSession(slotAt(i))}
  IN IF ends = {} THEN NoSlot ELSE slotAt(Min(ends))

\* session_find_by_fd: the same search in the other table.
FindByFd(f) ==
  LET slotAt(i) == fd_table[Probe(FdHash[f], i)]
      isSession(slot) == sessions[slot].active /\ sessions[slot].relay_fd = f
      ends == {i \in Positions : slotAt(i) = NoSlot \/ isSession(slotAt(i))}
  IN IF ends = {} THEN NoSlot ELSE slotAt(Min(ends))

\* table_insert that looks only at the hashed position.
TableInsertNoProbe(table, h, slot) ==
  [table EXCEPT ![h] = slot]

\* table_insert: the first empty position of the probe sequence gets the slot;
\* a table without one is left as it is.
TableInsert(table, h, slot) ==
  LET free == {i \in Positions : table[Probe(h, i)] = NoSlot}
  IN IF free = {} THEN table ELSE [table EXCEPT ![Probe(h, Min(free))] = slot]

EmptyTable == [p \in Positions |-> NoSlot]

-----------------------------------------------------------------------------
\* session_map_init
Init ==
  /\ sessions = [s \in Slots |-> UnusedSession]
  /\ count = 0
  /\ addr_table = EmptyTable
  /\ fd_table = EmptyTable
  /\ rebuild = Capacity
  /\ result = "none"

\* session_insert on a map whose count has reached its capacity.
InsertRefused ==
  /\ Idle
  /\ count >= Capacity
  /\ result' = "NULL"
  /\ UNCHANGED <<sessions, count, addr_table, fd_table, rebuild>>

\* session_insert that leaves the descriptor of the slot zeroed.
InsertWithoutFd(a, f) ==
  /\ Idle
  /\ FindByAddr(a) = NoSlot
  /\ \A s \in Active : sessions[s].relay_fd # f
  /\ count < Capacity
  /\ \E s \in Slots \ Active :
       /\ \A t \in Slots \ Active : s <= t
       /\ sessions' = [sessions EXCEPT ![s] =
                         [client_addr |-> a, relay_fd |-> 0, active |-> TRUE]]
       /\ addr_table' = TableInsert(addr_table, AddrHash[a], s)
       /\ fd_table' = TableInsert(fd_table, FdHash[f], s)
  /\ count' = count + 1
  /\ result' = "inserted"
  /\ UNCHANGED rebuild

\* session_insert that forgets the descriptor's table.
InsertAddrOnly(a, f) ==
  /\ Idle
  /\ FindByAddr(a) = NoSlot
  /\ \A s \in Active : sessions[s].relay_fd # f
  /\ count < Capacity
  /\ \E s \in Slots \ Active :
       /\ \A t \in Slots \ Active : s <= t
       /\ sessions' = [sessions EXCEPT ![s] =
                         [client_addr |-> a, relay_fd |-> f, active |-> TRUE]]
       /\ addr_table' = TableInsert(addr_table, AddrHash[a], s)
  /\ count' = count + 1
  /\ result' = "inserted"
  /\ UNCHANGED <<fd_table, rebuild>>

\* session_insert for a client the caller has just failed to find, with a
\* descriptor socket() has just returned (so no live session holds it): the
\* first inactive slot is filled and entered in both tables.
Insert(a, f) ==
  /\ Idle
  /\ FindByAddr(a) = NoSlot
  /\ \A s \in Active : sessions[s].relay_fd # f
  /\ count < Capacity
  /\ \E s \in Slots \ Active :
       /\ \A t \in Slots \ Active : s <= t
       /\ sessions' = [sessions EXCEPT ![s] =
                         [client_addr |-> a, relay_fd |-> f, active |-> TRUE]]
       /\ addr_table' = TableInsert(addr_table, AddrHash[a], s)
       /\ fd_table' = TableInsert(fd_table, FdHash[f], s)
  /\ count' = count + 1
  /\ result' = "inserted"
  /\ UNCHANGED rebuild

\* session_remove that blanks the session's own table entries and does not
\* rebuild: the holes cut the probe chains of the other sessions.
RemoveLeavingHoles(s) ==
  LET punched(table) == [p \in Positions |-> IF table[p] = s THEN NoSlot ELSE table[p]]
  IN /\ Idle
     /\ sessions[s].active
     /\ sessions' = [sessions EXCEPT ![s].active = FALSE, ![s].relay_fd = NoFd]
     /\ count' = count - 1
     /\ addr_table' = punched(addr_table)
     /\ fd_table' = punched(fd_table)
     /\ rebuild' = Capacity
     /\ result' = "removed"

\* session_remove that forgets to count down.
RemoveWithoutCount(s) ==
  /\ Idle
  /\ sessions[s].active
  /\ sessions' = [sessions EXCEPT ![s].active = FALSE, ![s].relay_fd = NoFd]
  /\ addr_table' = EmptyTable
  /\ fd_table' = EmptyTable
  /\ rebuild' = 0
  /\ result' = "removed"
  /\ UNCHANGED count

\* session_remove, up to the loop of rebuild_tables: both tables are cleared.
Remove(s) ==
  /\ Idle
  /\ sessions[s].active
  /\ sessions' = [sessions EXCEPT ![s].active = FALSE, ![s].relay_fd = NoFd]
  /\ count' = count - 1
  /\ addr_table' = EmptyTable
  /\ fd_table' = EmptyTable
  /\ rebuild' = 0
  /\ result' = "removed"

\* One iteration of the loop of rebuild_tables.
RebuildStep ==
  /\ ~Idle
  /\ IF sessions[rebuild].active
     THEN /\ addr_table' =
               TableInsert(addr_table, AddrHash[sessions[rebuild].client_addr], rebuild)
          /\ fd_table' = TableInsert(fd_table, FdHash[sessions[rebuild].relay_fd], rebuild)
     ELSE UNCHANGED <<addr_table, fd_table>>
  /\ rebuild' = rebuild + 1
  /\ UNCHANGED <<sessions, count, result>>

Next ==
  \/ InsertRefused
  \/ \E a \in Addr, f \in Fd : Insert(a, f)
  \/ \E s \in Slots : Remove(s)
  \/ RebuildStep

Spec == Init /\ [][Next]_vars

-----------------------------------------------------------------------------
\* The shape of the map: every entry of a table is a slot number or NoSlot,
\* and a session in use has the address and the descriptor it was given.
TypeOK ==
  /\ sessions \in [Slots -> Session]
  /\ \A s \in Active : sessions[s].client_addr \in Addr /\ sessions[s].relay_fd \in Fd
  /\ count \in 0 .. Capacity
  /\ addr_table \in [Positions -> Slots \cup {NoSlot}]
  /\ fd_table \in [Positions -> Slots \cup {NoSlot}]
  /\ rebuild \in 0 .. Capacity
  /\ result \in {"none", "inserted", "NULL", "removed"}

\* The counter that session_insert compares with the capacity, and that the
\* relay subtracts the query sessions from, is the number of live sessions.
CountExact == count = Cardinality(Active)

\* session_find_by_addr answers every address exactly: the live session of
\* that client when there is one, NULL otherwise, whatever was inserted and
\* removed before and however the keys collide.
LookupByAddrExact ==
  Idle => \A a \in Addr :
    \/ /\ FindByAddr(a) \in Active
       /\ sessions[FindByAddr(a)].client_addr = a
    \/ /\ FindByAddr(a) = NoSlot
       /\ \A s \in Active : sessions[s].client_addr # a

\* The same promise of session_find_by_fd, by which every reply of a game
\* server finds its client.
LookupByFdExact ==
  Idle => \A f \in Fd :
    \/ /\ FindByFd(f) \in Active
       /\ sessions[FindByFd(f)].relay_fd = f
    \/ /\ FindByFd(f) = NoSlot
       /\ \A s \in Active : sessions[s].relay_fd # f

-----------------------------------------------------------------------------
(* The inductive invariant behind the lookups.                              *)

\* No two live sessions share a client or a relay socket.
KeysUnique ==
  \A s, t \in Active :
    \/ s = t
    \/ /\ sessions[s].client_addr # sessions[t].client_addr
       /\ sessions[s].relay_fd # sessions[t].relay_fd

\* A table names only sessions that are live and already re-entered, each once.
Entered == {s \in Active : s < rebuild}
EntriesSound(table) ==
  /\ \A p \in Positions : table[p] = NoSlot \/ table[p] \in Entered
  /\ \A p, q \in Positions : table[p] = table[q] => p = q \/ table[p] = NoSlot

\* Slot s is met on the probe sequence from h before any empty position.
Reachable(table, h, s) ==
  \E i \in Positions :
    /\ table[Probe(h, i)] = s
    /\ \A j \in 0 .. i : table[Probe(h, j)] # NoSlot

\* Probe chains have no holes: each session that has been entered is reachable
\* from its hash in both tables, in the middle of a rebuild too.
ProbeChains ==
  /\ EntriesSound(addr_table)
  /\ EntriesSound(fd_table)
  /\ \A s \in Entered :
       /\ Reachable(addr_table, AddrHash[sessions[s].client_addr], s)
       /\ Reachable(fd_table, FdHash[sessions[s].relay_fd], s)

IInv == TypeOK /\ CountExact /\ KeysUnique /\ ProbeChains

-----------------------------------------------------------------------------
(* Refinement: between operations the abstract maps are read off the       *)
(* lookups themselves; during a rebuild, when nobody can look up, off the  *)
(* session array.                                                          *)

ByAddr ==
  LET known == IF Idle THEN {a \in Addr : FindByAddr(a) # NoSlot}
               ELSE {sessions[s].client_addr : s \in Active}
      slotOf(a) == IF Idle THEN FindByAddr(a)
                   ELSE CHOOSE s \in Active : sessions[s].client_addr = a
  IN [a \in known |-> sessions[slotOf(a)].relay_fd]

ByFd ==
  LET known == IF Idle THEN {f \in Fd : FindByFd(f) # NoSlot}
               ELSE {sessions[s].relay_fd : s \in Active}
      slotOf(f) == IF Idle THEN FindByFd(f)
                   ELSE CHOOSE s \in Active : sessions[s].relay_fd = f
  IN [f \in known |-> sessions[slotOf(f)].client_addr]

Index == INSTANCE SessionIndex WITH by_addr <- ByAddr, by_fd <- ByFd

\* The hash tables implement the directory: every insertion, refusal and
\* removal seen through the lookups is a step of SessionIndex, and an
\* iteration of the rebuild is a stutter.
RefinesIndex == Index!Spec

=============================================================================
