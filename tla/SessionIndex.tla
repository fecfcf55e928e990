---------------------------- MODULE SessionIndex ----------------------------
(***************************************************************************)
(* What the session map of the proxy promises to the relay loop: a bounded *)
(* directory of sessions that answers two questions exactly, "which relay  *)
(* socket serves this client address" and "which client does this relay    *)
(* socket serve".  No slot, hash or table appears here; SessionMap is the  *)
(* implementation (src/src/hashmap.c) and is shown to refine this module.  *)
(***************************************************************************)
EXTENDS Naturals, FiniteSets

CONSTANTS
  Addr,      \* client addresses (IP and port)
  Fd,        \* relay socket descriptors
  Capacity   \* sessions the directory can hold

VARIABLES
  by_addr,   \* the answers of session_find_by_addr: a partial map Addr -> Fd
  by_fd,     \* the answers of session_find_by_fd: a partial map Fd -> Addr
  result     \* what the last operation told its caller

vars == <<by_addr, by_fd, result>>

EmptyMap == [x \in {} |-> x]
Extend(m, k, v) == [x \in DOMAIN m \cup {k} |-> IF x = k THEN v ELSE m[x]]
Without(m, k) == [x \in DOMAIN m \ {k} |-> m[x]]

Init ==
  /\ by_addr = EmptyMap
  /\ by_fd = EmptyMap
  /\ result = "none"

\* A new session is entered under both of its keys, when there is room for it.
Insert(a, f) ==
  /\ a \notin DOMAIN by_addr
  /\ f \notin DOMAIN by_fd
  /\ Cardinality(DOMAIN by_addr) < Capacity
  /\ by_addr' = Extend(by_addr, a, f)
  /\ by_fd' = Extend(by_fd, f, a)
  /\ result' = "inserted"

\* An insertion is refused only by a full directory, and then nothing changes.
Refuse ==
  /\ Cardinality(DOMAIN by_addr) >= Capacity
  /\ result' = "NULL"
  /\ UNCHANGED <<by_addr, by_fd>>

\* A removed session disappears under both of its keys, the others stay.
Remove(a) ==
  /\ a \in DOMAIN by_addr
  /\ by_fd' = Without(by_fd, by_addr[a])
  /\ by_addr' = Without(by_addr, a)
  /\ result' = "removed"

Next ==
  \/ \E a \in Addr, f \in Fd : Insert(a, f)
  \/ Refuse
  \/ \E a \in Addr : Remove(a)

Spec == Init /\ [][Next]_vars

=============================================================================
