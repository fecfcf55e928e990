----------------------------- MODULE RelayProofs -----------------------------
(***************************************************************************)
(* Proofs about the relay loop for every number of server slots, clients   *)
(* and descriptors, every configuration and every set of commands.  The    *)
(* inductive invariant is IInv of module Relay.                            *)
(***************************************************************************)
EXTENDS Relay, OrderFacts

\* What a descriptor refers to tells its kind, its server and its client.
LEMMA SocketsDistinct ==
  /\ Closed # MgmtListen /\ Closed # MgmtConn /\ MgmtListen # MgmtConn
  /\ \A s \in Servers : ListenSocket(s) \notin {Closed, MgmtListen, MgmtConn}
  /\ \A s, t \in Servers, c \in Clients :
       /\ RelaySocket(s, c) \notin {Closed, MgmtListen, MgmtConn}
       /\ RelaySocket(s, c) # ListenSocket(t)
       /\ ListenSocket(s) = ListenSocket(t) => s = t
       /\ \A d \in Clients : RelaySocket(s, c) = RelaySocket(t, d) => s = t /\ c = d
BY ClientsAssumption DEF Closed, MgmtListen, MgmtConn, ListenSocket, RelaySocket, Socket

\* The kinds, for the guards that ask for them.
LEMMA SocketKinds ==
  /\ Closed.kind = "closed" /\ MgmtListen.kind = "mgmt_listen" /\ MgmtConn.kind = "mgmt"
  /\ \A s \in Servers : ListenSocket(s).kind = "listen" /\ ListenSocket(s).server = s
  /\ \A s \in Servers, c \in Clients :
       RelaySocket(s, c).kind = "relay" /\ RelaySocket(s, c).server = s
BY DEF Closed, MgmtListen, MgmtConn, ListenSocket, RelaySocket, Socket

\* Every descriptor is closed, of the management API, or of a server.
LEMMA OwnerCases ==
  ASSUME TypeOK, NEW f \in Fds
  PROVE  \/ owner[f] \in {Closed, MgmtListen, MgmtConn}
         \/ \E s \in Servers : owner[f] = ListenSocket(s)
         \/ \E s \in Servers, c \in Clients : owner[f] = RelaySocket(s, c)
BY DEF TypeOK, Sockets

\* The descriptor the kernel hands out is a free one.
LEMMA LowestFree ==
  ASSUME FreeFds # {}
  PROVE  Min(FreeFds) \in Fds /\ owner[Min(FreeFds)] = Closed
<1>1. FreeFds \in SUBSET Nat
  BY FdsAssumption DEF FreeFds
<1>2. Min(FreeFds) \in FreeFds
  BY <1>1, LeastElement
<1>3. QED
  BY <1>2 DEF FreeFds, OpenFds

LEMMA LowestSlot ==
  ASSUME FreeSlots # {}
  PROVE  Min(FreeSlots) \in Servers /\ ~active[Min(FreeSlots)]
<1>1. FreeSlots \in SUBSET Nat
  BY ServersAssumption DEF FreeSlots
<1>2. Min(FreeSlots) \in FreeSlots
  BY <1>1, LeastElement
<1>3. QED
  BY <1>2 DEF FreeSlots

\* A session in use has a descriptor of its own.
LEMMA SessionSocket ==
  ASSUME IInv, NEW s \in Servers, NEW c \in InUse(s)
  PROVE  /\ c \in Clients /\ active[s]
         /\ sessions[s][c].relay_fd \in Fds
         /\ owner[sessions[s][c].relay_fd] = RelaySocket(s, c)
<1>1. c \in Clients /\ sessions[s][c].relay_fd # NoFd /\ InUse(s) # {}
  BY DEF InUse
<1>2. active[s] /\ owner[sessions[s][c].relay_fd] = RelaySocket(s, c)
  BY <1>1 DEF IInv, DescriptorsExact, ServersOwnTheirSockets
<1>3. sessions[s][c].relay_fd \in Fds \cup {NoFd}
  BY <1>1 DEF IInv, TypeOK, Session
<1>4. QED
  BY <1>1, <1>2, <1>3

\* Numbers that the counters are made of.
LEMMA Counting ==
  ASSUME TypeOK, NEW s \in Servers, NEW C
  PROVE  /\ Count(s) \in Nat
         /\ CountedDown(s, C) \in Nat
<1>1. IsFiniteSet(InUse(s)) /\ IsFiniteSet(C \cap Queries(s))
  <2>1. InUse(s) \subseteq Clients /\ (C \cap Queries(s)) \subseteq Clients
    BY DEF InUse, Queries
  <2>2. QED
    BY <2>1, FS_Subset, ClientsAssumption
<1>2. Cardinality(InUse(s)) \in Nat /\ Cardinality(C \cap Queries(s)) \in Nat
  BY <1>1, FS_CardinalityType
<1>3. query_count[s] \in Nat
  BY DEF TypeOK
<1>4. CountedDown(s, C) \in Nat
  BY <1>2, <1>3 DEF CountedDown, Decrease
<1>5. QED
  BY <1>2, <1>4 DEF Count

-----------------------------------------------------------------------------
(* How the descriptors may change.                                          *)

\* Nothing is opened or closed.
LEMMA SameDescriptors ==
  ASSUME DescriptorsExact, TypeOK,
         UNCHANGED <<active, listen_fd, owner>>, events' \subseteq events,
         \A s \in Servers, c \in Clients :
           sessions'[s][c].relay_fd = sessions[s][c].relay_fd
  PROVE  DescriptorsExact'
<1>1. \A s \in Servers : InUse(s)' = InUse(s)
  BY DEF InUse
<1>2. ServersOwnTheirSockets'
  BY <1>1 DEF DescriptorsExact, ServersOwnTheirSockets, InUse
<1>3. NoSocketForgotten'
  BY DEF DescriptorsExact, NoSocketForgotten
<1>4. MgmtEventsCurrent'
  BY DEF DescriptorsExact, MgmtEventsCurrent
<1>5. QED
  BY <1>2, <1>3, <1>4 DEF DescriptorsExact

\* The descriptors F are closed, and the servers and sessions they belonged to go
\* with them.
LEMMA DescriptorsClosed ==
  ASSUME DescriptorsExact, TypeOK, UNCHANGED listen_fd, events' \subseteq events,
         NEW F, owner' = Close(F),
         \A e \in events' : e.server = MGMT => e.fd \notin F,
         \A s \in Servers : active'[s] => active[s] /\ listen_fd[s] \notin F,
         \A s \in Servers, c \in Clients :
           sessions'[s][c].relay_fd # NoFd =>
             /\ sessions'[s][c].relay_fd = sessions[s][c].relay_fd
             /\ sessions[s][c].relay_fd \notin F
             /\ active'[s],
         \A f \in Fds \ F, s \in Servers :
           /\ owner[f] = ListenSocket(s) => active'[s]
           /\ \A c \in Clients : owner[f] = RelaySocket(s, c) =>
                active'[s] /\ sessions'[s][c].relay_fd = f
  PROVE  DescriptorsExact'
<1>1. \A f \in Fds : owner'[f] = IF f \in F THEN Closed ELSE owner[f]
  BY DEF Close
<1>2. \A s \in Servers : \A c \in InUse(s)' :
        /\ c \in InUse(s) /\ c \in Clients /\ active'[s]
        /\ sessions'[s][c].relay_fd = sessions[s][c].relay_fd
        /\ sessions[s][c].relay_fd \in Fds \ F
  BY DEF InUse, TypeOK, Session
<1>3. ServersOwnTheirSockets'
  <2>1. ASSUME NEW s \in Servers, active'[s]
        PROVE  listen_fd'[s] \in Fds /\ owner'[listen_fd'[s]] = ListenSocket(s)
    BY <2>1, <1>1 DEF DescriptorsExact, ServersOwnTheirSockets
  <2>2. ASSUME NEW s \in Servers, NEW c \in InUse(s)'
        PROVE  active'[s] /\ owner'[sessions'[s][c].relay_fd] = RelaySocket(s, c)
    BY <2>2, <1>1, <1>2 DEF DescriptorsExact, ServersOwnTheirSockets
  <2>3. QED
    BY <2>1, <2>2 DEF ServersOwnTheirSockets
<1>4. NoSocketForgotten'
  BY <1>1, SocketsDistinct DEF DescriptorsExact, NoSocketForgotten
<1>5. MgmtEventsCurrent'
  <2>1. \A e \in events' : e.server = MGMT =>
          e.fd \in Fds \ F /\ owner[e.fd] \in {MgmtListen, MgmtConn}
    BY DEF DescriptorsExact, MgmtEventsCurrent, TypeOK
  <2>2. QED
    BY <2>1, <1>1 DEF MgmtEventsCurrent
<1>6. QED
  BY <1>3, <1>4, <1>5 DEF DescriptorsExact

-----------------------------------------------------------------------------
(* How the inboxes may change.                                              *)

\* Reading and closing only take items away.
LEMMA Reading ==
  ASSUME TypeOK, NEW f, NEW x
  PROVE  /\ Read(f, x) \in [Fds -> SUBSET Items]
         /\ \A g \in Fds : Read(f, x)[g] \subseteq inbox[g]
BY DEF TypeOK, Read

LEMMA Purging ==
  ASSUME NEW box \in [Fds -> SUBSET Items], NEW F
  PROVE  /\ Purge(box, F) \in [Fds -> SUBSET Items]
         /\ \A g \in Fds : /\ Purge(box, F)[g] \subseteq box[g]
                           /\ g \in F => Purge(box, F)[g] = {}
BY DEF Purge

LEMMA Closing ==
  ASSUME TypeOK, NEW F
  PROVE  Close(F) \in [Fds -> Sockets]
BY DEF TypeOK, Close, Sockets

\* Items are taken away, and a descriptor that changes its meaning has none.
LEMMA InboxesShrink ==
  ASSUME InboxesMatch, TypeOK,
         \A f \in Fds : /\ inbox'[f] \subseteq inbox[f]
                        /\ owner'[f] = owner[f] \/ inbox'[f] = {}
  PROVE  InboxesMatch'
BY DEF InboxesMatch

-----------------------------------------------------------------------------
(* The initial state, and the steps that move nothing but data.             *)

LEMMA Capacities ==
  ASSUME NEW c \in Config
  PROVE  MapCapacity(c) \in Nat
<1>1. c.max_clients \in PoolSizes /\ c.max_query_sessions \in PoolSizes
  BY DEF Config
<1>2. PoolSizes \subseteq Nat
  BY DEF PoolSizes
<1>3. c.max_clients \in Nat /\ c.max_query_sessions \in Nat
  BY <1>1, <1>2
<1>4. QED
  BY <1>3 DEF MapCapacity

LEMMA InitEstablishes == Init => IInv
<1> SUFFICES ASSUME Init PROVE IInv
  OBVIOUS
<1>1. \A s \in Servers : sessions[s] = [c \in Clients |-> NoSession]
  BY DEF Init
<1>2. \A s \in Servers : InUse(s) = {}
  BY <1>1 DEF InUse, NoSession
<1>3. TypeOK
  <2>1. cfg \in [Servers -> Config]
    BY StartupAssumption, ConfigsAssumption DEF Init
  <2>2. capacity \in [Servers -> Nat]
    <3>1. \A s \in DOMAIN Startup : MapCapacity(Startup[s]) \in Nat
      BY StartupAssumption, Capacities
    <3>2. capacity = [s \in Servers |-> IF s \in DOMAIN Startup THEN MapCapacity(Startup[s]) ELSE 0]
      BY DEF Init
    <3>3. QED
      BY <3>1, <3>2
  <2>3. owner \in [Fds -> Sockets]
    BY StartupAssumption DEF Init, Sockets
  <2>4. sessions \in [Servers -> [Clients -> Session]]
    BY DEF Init, Session, NoSession
  <2>5. listen_fd \in [Servers -> Fds \cup {NoFd}]
    BY StartupAssumption DEF Init
  <2>6. /\ active \in [Servers -> BOOLEAN]
        /\ query_count \in [Servers -> Nat]
        /\ rate_limiter \in [Servers -> [window_start : Nat, count : Nat]]
        /\ last_heartbeat \in [Servers -> Nat] /\ admitted \in [Servers -> Nat]
        /\ inbox \in [Fds -> SUBSET Items]
        /\ events = {} /\ pc = "wait" /\ g_running = TRUE
    BY DEF Init
  <2>7. last_sweep \in [Servers -> Nat] /\ now \in Instants /\ clock \in Instants
    BY TimeAssumption DEF Init
  <2>8. QED
    BY <2>1, <2>2, <2>3, <2>4, <2>5, <2>6, <2>7 DEF TypeOK
<1>4. DescriptorsExact
  <2>1. ServersOwnTheirSockets
    BY <1>2, StartupAssumption DEF Init, ServersOwnTheirSockets
  <2>2. ASSUME NEW f \in Fds, NEW s \in Servers, owner[f] = ListenSocket(s)
        PROVE  active[s] /\ listen_fd[s] = f
    <3>1. f \in DOMAIN Startup /\ f \in Servers
      BY <2>2, SocketsDistinct, StartupAssumption DEF Init
    <3>2. owner[f] = ListenSocket(f)
      BY <3>1 DEF Init
    <3>3. f = s
      BY <2>2, <3>1, <3>2, SocketsDistinct DEF ListenSocket, Socket
    <3>4. QED
      BY <3>1, <3>3 DEF Init
  <2>3. ASSUME NEW f \in Fds, NEW s \in Servers, NEW c \in Clients
        PROVE  owner[f] # RelaySocket(s, c)
    BY SocketsDistinct, StartupAssumption DEF Init
  <2>4. NoSocketForgotten
    BY <2>2, <2>3 DEF NoSocketForgotten
  <2>5. MgmtEventsCurrent
    BY DEF Init, MgmtEventsCurrent
  <2>6. QED
    BY <2>1, <2>4, <2>5 DEF DescriptorsExact
<1>5. InboxesMatch /\ BatchDone
  BY DEF Init, InboxesMatch, BatchDone
<1>6. QED
  BY <1>3, <1>4, <1>5 DEF IInv

LEMMA EpollWaitPreserves == IInv /\ EpollWait => IInv'
<1> SUFFICES ASSUME IInv, EpollWait PROVE IInv'
  OBVIOUS
<1> USE DEF serverVars, kernelVars
<1>1. PICK batch \in SUBSET Ready : events' = {EventOf(f) : f \in batch}
  BY DEF EpollWait, kSubset
<1>2. \A f \in batch : f \in Fds /\ owner[f] # Closed /\ inbox[f] # {}
  BY DEF Ready, OpenFds
<1>3. \A e \in events' : /\ e \in [server : Servers \cup {MGMT}, fd : Fds]
                         /\ e.server = MGMT => owner[e.fd] \in {MgmtListen, MgmtConn}
  <2>1. SUFFICES ASSUME NEW f \in batch
                 PROVE  /\ EventOf(f) \in [server : Servers \cup {MGMT}, fd : Fds]
                        /\ EventOf(f).server = MGMT =>
                             owner[f] \in {MgmtListen, MgmtConn} /\ EventOf(f).fd = f
    BY <1>1 DEF EventOf
  <2>2. CASE owner[f] \in {MgmtListen, MgmtConn}
    BY <1>2, <2>2, SocketKinds DEF EventOf
  <2>3. CASE \E s \in Servers : owner[f] = ListenSocket(s)
    BY <1>2, <2>3, SocketKinds, ServersAssumption DEF EventOf, MGMT
  <2>4. CASE \E s \in Servers, c \in Clients : owner[f] = RelaySocket(s, c)
    BY <1>2, <2>4, SocketKinds, ServersAssumption DEF EventOf, MGMT
  <2>5. QED
    BY <1>2, <2>2, <2>3, <2>4, OwnerCases DEF IInv
<1>4. TypeOK'
  BY <1>3 DEF IInv, TypeOK, EpollWait, Sockets
<1>5. DescriptorsExact'
  <2>1. ServersOwnTheirSockets'
    BY DEF IInv, DescriptorsExact, ServersOwnTheirSockets, EpollWait, InUse
  <2>2. NoSocketForgotten'
    BY DEF IInv, DescriptorsExact, NoSocketForgotten, EpollWait
  <2>3. MgmtEventsCurrent'
    BY <1>3 DEF MgmtEventsCurrent, EpollWait
  <2>4. QED
    BY <2>1, <2>2, <2>3 DEF DescriptorsExact
<1>6. InboxesMatch' /\ BatchDone'
  BY DEF IInv, InboxesMatch, BatchDone, EpollWait
<1>7. QED
  BY <1>4, <1>5, <1>6 DEF IInv

-----------------------------------------------------------------------------
(* Commands carry what their handlers need.                                 *)

LEMMA CommandShape ==
  ASSUME NEW m \in Commands
  PROVE  /\ m.cmd \in {"kick", "kick_all", "remove_server", "set", "set_master"}
              => m.server \in Servers
         /\ m.cmd = "kick" => m.client \in Clients
         /\ m.cmd = "set" => m.value \in Int
         /\ m.cmd = "set_master" => m.masters \in Nat
         /\ m.cmd = "add_server" => m.config \in Config
<1>1. m \in Command
  BY CommandsAssumption
<1>2. QED
  BY <1>1 DEF Command

\* A setting within its range leaves a configuration.
LEMMA TunedConfig ==
  ASSUME NEW c \in Config, NEW key, NEW v \in Int, SettingAllowed(key, v)
  PROVE  Tuned(c, key, v) \in Config
<1> DEFINE t == Tuned(c, key, v)
           clients == IF key = "max_clients" THEN v ELSE c.max_clients
           queries == IF key = "max_query_sessions" THEN v ELSE c.max_query_sessions
           silence == IF key = "session_timeout" THEN v ELSE c.session_timeout
           browsing == IF key = "query_timeout" THEN v ELSE c.query_timeout
           rate == IF key = "max_new_per_sec" THEN v ELSE c.max_new_per_sec
           beats == IF key = "master_broadcast" THEN v ELSE c.heartbeat_enabled
<1>1. /\ c.listen_port \in Ports /\ c.max_clients \in PoolSizes
      /\ c.max_query_sessions \in PoolSizes /\ c.max_new_per_sec \in Nat \ {0}
      /\ c.session_timeout \in Nat \ {0} /\ c.query_timeout \in Nat \ {0}
      /\ c.master_count \in Nat /\ c.heartbeat_enabled \in {0, 1}
  BY DEF Config
<1>2. t = [listen_port |-> c.listen_port, max_clients |-> clients, max_query_sessions |-> queries,
           max_new_per_sec |-> rate, session_timeout |-> silence, query_timeout |-> browsing,
           master_count |-> c.master_count, heartbeat_enabled |-> beats]
  BY Zenon DEF Tuned
<1>3. clients \in PoolSizes /\ queries \in PoolSizes
  BY <1>1 DEF SettingAllowed
<1>4. silence \in Nat \ {0} /\ browsing \in Nat \ {0} /\ rate \in Nat \ {0}
  BY <1>1 DEF SettingAllowed
<1>5. beats \in {0, 1}
  BY <1>1 DEF SettingAllowed
<1> HIDE DEF t, clients, queries, silence, browsing, rate, beats
<1>6. t \in Config
  BY <1>1, <1>2, <1>3, <1>4, <1>5 DEF Config
<1>7. QED
  BY <1>6 DEF t

-----------------------------------------------------------------------------
(* Events and commands that move no descriptor.                             *)

\* What a step that takes an event and touches neither descriptors nor the
\* sockets of sessions has to show.
LEMMA QuietStep ==
  ASSUME IInv, NEW e, Take(e), UNCHANGED <<active, listen_fd, owner>>, TypeOK',
         \A f \in Fds : inbox'[f] \subseteq inbox[f],
         \A s \in Servers, c \in Clients :
           sessions'[s][c].relay_fd = sessions[s][c].relay_fd
  PROVE  IInv'
<1>1. events' \subseteq events
  BY DEF Take
<1>2. DescriptorsExact'
  BY <1>1, SameDescriptors DEF IInv
<1>3. InboxesMatch'
  BY InboxesShrink DEF IInv
<1>4. BatchDone'
  BY DEF Take, BatchDone
<1>5. QED
  BY <1>2, <1>3, <1>4 DEF IInv

LEMMA IdleEventPreserves ==
  ASSUME IInv, NEW e \in events,
         \/ SkipRemoved(e)
         \/ NothingUsable(e)
         \/ \E s \in Servers : NothingReceived(e, s)
         \/ MgmtNotAccepted(e)
         \/ \E m \in Commands : HandleWithoutEffect(e, m)
  PROVE  IInv'
<1>1. Take(e)
  BY DEF SkipRemoved, NothingUsable, NothingReceived, RelayEvent, MgmtNotAccepted,
         HandleWithoutEffect, MgmtCommand, MgmtEvent
<1>2. UNCHANGED <<serverVars, owner, admitted>>
  BY DEF SkipRemoved, NothingUsable, NothingReceived, RelayEvent, MgmtNotAccepted,
         HandleWithoutEffect, serverVars
<1>3. /\ inbox' \in [Fds -> SUBSET Items]
      /\ \A f \in Fds : inbox'[f] \subseteq inbox[f]
  <2>1. inbox' = inbox \/ \E f, x : inbox' = Read(f, x)
    BY DEF SkipRemoved, NothingUsable, NothingReceived, MgmtNotAccepted, HandleWithoutEffect
  <2>2. QED
    BY <2>1, Reading DEF IInv, TypeOK
<1>4. TypeOK'
  BY <1>1, <1>2, <1>3 DEF IInv, TypeOK, Take, serverVars, Sockets
<1>5. QED
  BY <1>1, <1>2, <1>3, <1>4, QuietStep DEF serverVars

\* set and set_master change a configuration and a heartbeat timer.
LEMMA SetPreserves ==
  ASSUME IInv, NEW e \in events, NEW m \in Commands, HandleSet(e, m)
  PROVE  IInv'
<1>1. Take(e) /\ m.server \in Servers
  BY CommandShape DEF HandleSet, MgmtCommand, MgmtEvent
<1>2. Tuned(cfg[m.server], m.key, m.value) \in Config
  BY <1>1, CommandShape, TunedConfig DEF HandleSet, IInv, TypeOK
<1>3. cfg' \in [Servers -> Config]
  BY <1>1, <1>2 DEF HandleSet, IInv, TypeOK
<1>4. last_heartbeat' \in [Servers -> Nat]
  BY <1>1 DEF HandleSet, IInv, TypeOK
<1>5. /\ inbox' \in [Fds -> SUBSET Items]
      /\ \A f \in Fds : inbox'[f] \subseteq inbox[f]
  BY Reading DEF HandleSet, IInv
<1>6. UNCHANGED <<active, listen_fd, sessions, capacity, query_count, rate_limiter, last_sweep,
                  owner, admitted>>
  BY DEF HandleSet
<1>7. TypeOK'
  BY <1>1, <1>3, <1>4, <1>5, <1>6 DEF IInv, TypeOK, Take
<1>8. QED
  BY <1>1, <1>5, <1>6, <1>7, QuietStep

LEMMA SetMasterPreserves ==
  ASSUME IInv, NEW e \in events, NEW m \in Commands, HandleSetMaster(e, m)
  PROVE  IInv'
<1>1. Take(e) /\ m.server \in Servers /\ m.masters \in Nat
  BY CommandShape DEF HandleSetMaster, MgmtCommand, MgmtEvent
<1>2. cfg[m.server] \in Config
  BY <1>1 DEF IInv, TypeOK
<1>3. [cfg[m.server] EXCEPT !.master_count = m.masters] \in Config
  BY <1>1, <1>2 DEF Config
<1>4. cfg' \in [Servers -> Config]
  BY <1>1, <1>3 DEF HandleSetMaster, IInv, TypeOK
<1>5. last_heartbeat' \in [Servers -> Nat]
  BY <1>1 DEF HandleSetMaster, IInv, TypeOK
<1>6. /\ inbox' \in [Fds -> SUBSET Items]
      /\ \A f \in Fds : inbox'[f] \subseteq inbox[f]
  BY Reading DEF HandleSetMaster, IInv
<1>7. UNCHANGED <<active, listen_fd, sessions, capacity, query_count, rate_limiter, last_sweep,
                  owner, admitted>>
  BY DEF HandleSetMaster
<1>8. TypeOK'
  BY <1>1, <1>4, <1>5, <1>6, <1>7 DEF IInv, TypeOK, Take
<1>9. QED
  BY <1>1, <1>6, <1>7, <1>8, QuietStep

-----------------------------------------------------------------------------
(* Packets.                                                                 *)

LEMMA SessionUpdates ==
  ASSUME TypeOK, NEW s \in Servers
  PROVE  /\ \A c \in Clients, x \in Session :
              WithSession(s, c, x) \in [Servers -> [Clients -> Session]]
         /\ \A C : WithoutSessions(s, C) \in [Servers -> [Clients -> Session]]
<1>1. NoSession \in Session
  BY DEF NoSession, Session
<1>2. QED
  BY <1>1 DEF TypeOK, WithSession, WithoutSessions

\* The time of the loop and the clock are numbers.
LEMMA Times ==
  ASSUME TypeOK
  PROVE  now \in Nat /\ clock \in Nat
BY TimeAssumption DEF TypeOK

LEMMA KnownClientPreserves ==
  ASSUME IInv, NEW e \in events, NEW s \in Servers, NEW d \in inbox[e.fd], KnownClient(e, s, d)
  PROVE  IInv'
<1> DEFINE c == d.from
           x == [relay_fd |-> sessions[s][c].relay_fd, is_query |-> StillQuery(s, c, d.body),
                 last_activity |-> now]
<1>1. Take(e) /\ c \in Clients
  BY DEF KnownClient, FromClient, InUse
<1>2. /\ sessions' = WithSession(s, c, x)
      /\ query_count' = [query_count EXCEPT ![s] = QueriesAfterPacket(s, d)]
      /\ inbox' = Read(e.fd, d)
      /\ UNCHANGED <<active, cfg, listen_fd, capacity, rate_limiter, last_sweep,
                     last_heartbeat, admitted, owner>>
  BY DEF KnownClient
<1>3. sessions[s][c] \in Session
  BY <1>1 DEF IInv, TypeOK
<1>4. x \in Session
  BY <1>3, Times DEF IInv, Session, StillQuery
<1> HIDE DEF c, x
<1>5. sessions' \in [Servers -> [Clients -> Session]]
  BY <1>1, <1>2, <1>4, SessionUpdates DEF IInv
<1>6. query_count' \in [Servers -> Nat]
  BY <1>2 DEF IInv, TypeOK, QueriesAfterPacket, Decrease
<1>7. /\ inbox' \in [Fds -> SUBSET Items]
      /\ \A f \in Fds : inbox'[f] \subseteq inbox[f]
  BY <1>2, Reading DEF IInv
<1>8. TypeOK'
  BY <1>1, <1>2, <1>5, <1>6, <1>7 DEF IInv, TypeOK, Take
<1>9. \A t \in Servers, a \in Clients : sessions'[t][a].relay_fd = sessions[t][a].relay_fd
  <2>1. x.relay_fd = sessions[s][c].relay_fd
    BY DEF x
  <2>2. QED
    BY <1>2, <2>1, Zenon DEF WithSession
<1>10. QED
  BY <1>1, <1>2, <1>7, <1>8, <1>9, QuietStep

\* The rate limiter after any new client's packet.
LEMMA LimiterTyped ==
  ASSUME TypeOK, NEW s \in Servers, NEW d
  PROVE  LimiterAfter(s, d) \in [Servers -> [window_start : Nat, count : Nat]]
<1>1. Refilled(s) \in [window_start : Nat, count : Nat]
  BY Times DEF TypeOK, Refilled
<1>2. [Refilled(s) EXCEPT !.count = @ + 1] \in [window_start : Nat, count : Nat]
  BY <1>1
<1>3. rate_limiter \in [Servers -> [window_start : Nat, count : Nat]]
  BY DEF TypeOK
<1>4. QED
  BY <1>1, <1>2, <1>3 DEF LimiterAfter, TokenTaken

LEMMA DropPacketPreserves ==
  ASSUME IInv, NEW e \in events, NEW s \in Servers, NEW d \in inbox[e.fd], DropPacket(e, s, d)
  PROVE  IInv'
<1>1. Take(e)
  BY DEF DropPacket, FromClient
<1>2. /\ rate_limiter' = LimiterAfter(s, d)
      /\ inbox' = Read(e.fd, d)
      /\ UNCHANGED <<active, cfg, listen_fd, sessions, capacity, query_count, last_sweep,
                     last_heartbeat, owner, admitted>>
  BY DEF DropPacket
<1>3. /\ inbox' \in [Fds -> SUBSET Items]
      /\ \A f \in Fds : inbox'[f] \subseteq inbox[f]
  BY <1>2, Reading DEF IInv
<1>4. rate_limiter' \in [Servers -> [window_start : Nat, count : Nat]]
  BY <1>2, LimiterTyped DEF IInv
<1>5. TypeOK'
  BY <1>1, <1>2, <1>3, <1>4 DEF IInv, TypeOK, Take
<1>6. QED
  BY <1>1, <1>2, <1>3, <1>5, QuietStep

LEMMA ReplyRelayedPreserves ==
  ASSUME IInv, NEW e \in events, NEW s \in Servers, NEW c \in Clients, NEW r \in inbox[e.fd],
         ReplyRelayed(e, s, c, r)
  PROVE  IInv'
<1> DEFINE x == [relay_fd |-> e.fd, is_query |-> sessions[s][c].is_query, last_activity |-> now]
<1>1. /\ Take(e)
      /\ sessions[s][c].relay_fd = e.fd
      /\ sessions' = WithSession(s, c, x)
      /\ inbox' = Read(e.fd, r)
      /\ UNCHANGED <<active, cfg, listen_fd, capacity, query_count, rate_limiter, last_sweep,
                     last_heartbeat, owner, admitted>>
  BY DEF ReplyRelayed, RelayEvent, SessionsOn
<1>2. sessions[s][c] \in Session
  BY DEF IInv, TypeOK
<1>3. x \in Session
  BY <1>1, <1>2, Times DEF IInv, Session
<1>4. x.relay_fd = sessions[s][c].relay_fd
  BY <1>1
<1> HIDE DEF x
<1>5. sessions' \in [Servers -> [Clients -> Session]]
  BY <1>1, <1>3, SessionUpdates DEF IInv
<1>6. /\ inbox' \in [Fds -> SUBSET Items]
      /\ \A f \in Fds : inbox'[f] \subseteq inbox[f]
  BY <1>1, Reading DEF IInv
<1>7. TypeOK'
  BY <1>1, <1>5, <1>6 DEF IInv, TypeOK, Take
<1>8. \A t \in Servers, a \in Clients : sessions'[t][a].relay_fd = sessions[t][a].relay_fd
  BY <1>1, <1>4, Zenon DEF WithSession
<1>9. QED
  BY <1>1, <1>6, <1>7, <1>8, QuietStep

LEMMA ReplyUnclaimedPreserves ==
  ASSUME IInv, NEW e \in events, NEW s \in Servers, NEW r \in inbox[e.fd],
         ReplyUnclaimed(e, s, r)
  PROVE  IInv'
<1>1. /\ Take(e)
      /\ inbox' = Read(e.fd, r)
      /\ UNCHANGED <<active, cfg, listen_fd, sessions, capacity, query_count, rate_limiter,
                     last_sweep, last_heartbeat, owner, admitted>>
  BY DEF ReplyUnclaimed, RelayEvent
<1>2. /\ inbox' \in [Fds -> SUBSET Items]
      /\ \A f \in Fds : inbox'[f] \subseteq inbox[f]
  BY <1>1, Reading DEF IInv
<1>3. TypeOK'
  BY <1>1, <1>2 DEF IInv, TypeOK, Take
<1>4. QED
  BY <1>1, <1>2, <1>3, QuietStep

-----------------------------------------------------------------------------
(* Descriptors opened: accept, a session's relay socket, a listen socket.   *)

\* Descriptor fd, free until now, is opened as x; for a listen or a relay socket
\* the server's side of the bargain holds afterwards.
LEMMA DescriptorOpened ==
  ASSUME DescriptorsExact, TypeOK, events' \subseteq events,
         NEW fd \in Fds, owner[fd] = Closed,
         NEW x \in Sockets, owner'[fd] = x, \A f \in Fds : f # fd => owner'[f] = owner[f],
         \A s \in Servers : active[s] => active'[s] /\ listen_fd'[s] = listen_fd[s],
         \A s \in Servers : active'[s] /\ ~active[s] => listen_fd'[s] = fd /\ x = ListenSocket(s),
         \A s \in Servers : x = ListenSocket(s) => active'[s] /\ listen_fd'[s] = fd,
         \A s \in Servers, c \in Clients :
           /\ x = RelaySocket(s, c) =>
                active'[s] /\ sessions[s][c].relay_fd = NoFd /\ sessions'[s][c].relay_fd = fd
           /\ x # RelaySocket(s, c) => sessions'[s][c].relay_fd = sessions[s][c].relay_fd
  PROVE  DescriptorsExact'
<1>1. /\ owner'[fd] = x
      /\ \A f \in Fds : f # fd => owner'[f] = owner[f]
  OBVIOUS
<1>2. \A s \in Servers : active[s] => listen_fd[s] \in Fds /\ listen_fd[s] # fd
  BY SocketsDistinct DEF DescriptorsExact, ServersOwnTheirSockets
<1>3. \A s \in Servers, c \in Clients : sessions[s][c].relay_fd # NoFd =>
        /\ active[s]
        /\ sessions[s][c].relay_fd \in Fds /\ sessions[s][c].relay_fd # fd
        /\ owner[sessions[s][c].relay_fd] = RelaySocket(s, c)
  BY SocketsDistinct DEF DescriptorsExact, ServersOwnTheirSockets, InUse, TypeOK, Session
<1>4. ServersOwnTheirSockets'
  <2>1. ASSUME NEW s \in Servers, active'[s]
        PROVE  listen_fd'[s] \in Fds /\ owner'[listen_fd'[s]] = ListenSocket(s)
    BY <2>1, <1>1, <1>2 DEF DescriptorsExact, ServersOwnTheirSockets
  <2>2. ASSUME NEW s \in Servers, NEW c \in Clients, sessions'[s][c].relay_fd # NoFd
        PROVE  active'[s] /\ owner'[sessions'[s][c].relay_fd] = RelaySocket(s, c)
    BY <2>2, <1>1, <1>3
  <2>3. QED
    BY <2>1, <2>2 DEF ServersOwnTheirSockets, InUse
<1>5. NoSocketForgotten'
  <2>1. ASSUME NEW f \in Fds, NEW s \in Servers, owner'[f] = ListenSocket(s)
        PROVE  active'[s] /\ listen_fd'[s] = f
    BY <2>1, <1>1 DEF DescriptorsExact, NoSocketForgotten
  <2>2. ASSUME NEW f \in Fds, NEW s \in Servers, NEW c \in Clients,
               owner'[f] = RelaySocket(s, c)
        PROVE  active'[s] /\ sessions'[s][c].relay_fd = f
    <3>1. CASE f = fd
      BY <3>1, <2>2, <1>1
    <3>2. CASE f # fd
      <4>1. owner[f] = RelaySocket(s, c)
        BY <3>2, <2>2, <1>1
      <4>2. active[s] /\ sessions[s][c].relay_fd = f
        BY <4>1 DEF DescriptorsExact, NoSocketForgotten
      <4>3. sessions[s][c].relay_fd # NoFd
        BY <4>2, FdsAssumption DEF NoFd
      <4>4. QED
        BY <4>2, <4>3
    <3>3. QED
      BY <3>1, <3>2
  <2>3. QED
    BY <2>1, <2>2 DEF NoSocketForgotten
<1>6. MgmtEventsCurrent'
  BY <1>1, SocketsDistinct DEF DescriptorsExact, MgmtEventsCurrent, TypeOK
<1>7. QED
  BY <1>4, <1>5, <1>6 DEF DescriptorsExact

LEMMA MgmtAcceptPreserves ==
  ASSUME IInv, NEW e \in events, MgmtAccept(e)
  PROVE  IInv'
<1> DEFINE fd == Min(FreeFds)
<1>1. /\ Take(e)
      /\ owner' = [owner EXCEPT ![fd] = MgmtConn]
      /\ inbox' = Read(e.fd, Connection)
      /\ UNCHANGED <<active, cfg, listen_fd, sessions, capacity, query_count, rate_limiter,
                     last_sweep, last_heartbeat, admitted>>
  BY DEF MgmtAccept, MgmtEvent, serverVars
<1>2. fd \in Fds /\ owner[fd] = Closed
  BY LowestFree DEF MgmtAccept
<1> HIDE DEF fd
<1>3. /\ inbox' \in [Fds -> SUBSET Items]
      /\ \A f \in Fds : inbox'[f] \subseteq inbox[f]
  BY <1>1, Reading DEF IInv
<1>4. MgmtConn \in Sockets
  BY DEF Sockets
<1>5. TypeOK'
  BY <1>1, <1>3, <1>4 DEF IInv, TypeOK, Take
<1>6. DescriptorsExact'
  <2>1. events' \subseteq events
    BY <1>1 DEF Take
  <2>2. \A s \in Servers :
          /\ active[s] => active'[s] /\ listen_fd'[s] = listen_fd[s]
          /\ active'[s] /\ ~active[s] => listen_fd'[s] = fd /\ MgmtConn = ListenSocket(s)
    BY <1>1
  <2>3. \A s \in Servers : MgmtConn # ListenSocket(s) /\ \A c \in Clients : MgmtConn # RelaySocket(s, c)
    BY SocketsDistinct
  <2>4. \A s \in Servers, c \in Clients : sessions'[s][c].relay_fd = sessions[s][c].relay_fd
    BY <1>1
  <2>5. owner'[fd] = MgmtConn /\ \A f \in Fds : f # fd => owner'[f] = owner[f]
    BY <1>1, <1>2 DEF IInv, TypeOK
  <2>6. QED
    BY <1>2, <1>4, <2>1, <2>2, <2>3, <2>4, <2>5, DescriptorOpened DEF IInv
<1>7. InboxesMatch'
  <2>1. inbox'[fd] = {}
    BY <1>2, <1>3 DEF IInv, InboxesMatch
  <2>2. \A f \in Fds : owner'[f] = owner[f] \/ inbox'[f] = {}
    BY <1>1, <2>1 DEF IInv, TypeOK
  <2>3. QED
    BY <1>3, <2>2, InboxesShrink DEF IInv
<1>8. BatchDone'
  BY <1>1 DEF Take, BatchDone
<1>9. QED
  BY <1>5, <1>6, <1>7, <1>8 DEF IInv

LEMMA NewClientPreserves ==
  ASSUME IInv, NEW e \in events, NEW s \in Servers, NEW d \in inbox[e.fd],
         NewClientAccepted(e, s, d)
  PROVE  IInv'
<1> DEFINE fd == Min(FreeFds)
           c == d.from
           x == [relay_fd |-> fd, is_query |-> d.body = "query", last_activity |-> now]
<1>1. /\ Take(e) /\ active[s] /\ e.fd = listen_fd[s]
      /\ sessions' = WithSession(s, c, x)
      /\ owner' = [owner EXCEPT ![fd] = RelaySocket(s, c)]
      /\ inbox' = Read(e.fd, d)
      /\ UNCHANGED <<active, cfg, listen_fd, capacity, last_sweep, last_heartbeat>>
  BY DEF NewClientAccepted, FromClient
<1>2. /\ query_count' \in [Servers -> Nat]
      /\ rate_limiter' \in [Servers -> [window_start : Nat, count : Nat]]
      /\ admitted' \in [Servers -> Nat]
  BY LimiterTyped DEF NewClientAccepted, IInv, TypeOK
<1>3. fd \in Fds /\ owner[fd] = Closed
  BY LowestFree DEF NewClientAccepted
<1>4. c \in Clients
  <2>1. e.fd \in Fds /\ owner[e.fd] = ListenSocket(s)
    BY <1>1 DEF IInv, DescriptorsExact, ServersOwnTheirSockets
  <2>2. d \in Datagrams
    BY <2>1, SocketKinds DEF IInv, InboxesMatch
  <2>3. QED
    BY <2>2 DEF Datagrams, Datagram
<1>5. sessions[s][c].relay_fd = NoFd
  BY <1>4 DEF NewClientAccepted, InUse
<1>6. x \in Session /\ x.relay_fd = fd
  BY <1>3, Times DEF IInv, Session
<1>7. /\ inbox' \in [Fds -> SUBSET Items]
      /\ \A f \in Fds : inbox'[f] \subseteq inbox[f]
  BY <1>1, Reading DEF IInv
<1> HIDE DEF fd, c, x
<1>8. RelaySocket(s, c) \in Sockets
  BY <1>4 DEF Sockets
<1>9. TypeOK'
  <2>1. sessions' \in [Servers -> [Clients -> Session]]
    BY <1>1, <1>4, <1>6, SessionUpdates DEF IInv
  <2>2. QED
    BY <1>1, <1>2, <1>7, <1>8, <2>1 DEF IInv, TypeOK, Take
<1>10. DescriptorsExact'
  <2>1. events' \subseteq events
    BY <1>1 DEF Take
  <2>2. \A t \in Servers, a \in Clients :
          sessions'[t][a] = IF t = s /\ a = c THEN x ELSE sessions[t][a]
    BY <1>1, Zenon DEF WithSession
  <2>3. \A t \in Servers, a \in Clients :
          /\ RelaySocket(s, c) = RelaySocket(t, a) =>
               active'[t] /\ sessions[t][a].relay_fd = NoFd /\ sessions'[t][a].relay_fd = fd
          /\ RelaySocket(s, c) # RelaySocket(t, a) =>
               sessions'[t][a].relay_fd = sessions[t][a].relay_fd
    BY <1>1, <1>4, <1>5, <1>6, <2>2, SocketsDistinct
  <2>4. \A t \in Servers :
          /\ active[t] => active'[t] /\ listen_fd'[t] = listen_fd[t]
          /\ active'[t] /\ ~active[t] => listen_fd'[t] = fd /\ RelaySocket(s, c) = ListenSocket(t)
    BY <1>1
  <2>5. \A t \in Servers : RelaySocket(s, c) # ListenSocket(t)
    BY <1>4, SocketsDistinct
  <2>6. owner'[fd] = RelaySocket(s, c) /\ \A f \in Fds : f # fd => owner'[f] = owner[f]
    BY <1>1, <1>3 DEF IInv, TypeOK
  <2>7. QED
    BY <1>3, <1>8, <2>1, <2>3, <2>4, <2>5, <2>6, DescriptorOpened DEF IInv
<1>11. InboxesMatch'
  <2>1. inbox'[fd] = {}
    BY <1>3, <1>7 DEF IInv, InboxesMatch
  <2>2. \A f \in Fds : owner'[f] = owner[f] \/ inbox'[f] = {}
    BY <1>1, <2>1 DEF IInv, TypeOK
  <2>3. QED
    BY <1>7, <2>2, InboxesShrink DEF IInv
<1>12. BatchDone'
  BY <1>1 DEF Take, BatchDone
<1>13. QED
  BY <1>9, <1>10, <1>11, <1>12 DEF IInv

LEMMA WipedTypes ==
  ASSUME TypeOK, NEW s \in Servers, NEW c \in Config, NEW t \in Nat, Wiped(s, c, t)
  PROVE  /\ cfg' \in [Servers -> Config]
         /\ query_count' \in [Servers -> Nat]
         /\ rate_limiter' \in [Servers -> [window_start : Nat, count : Nat]]
         /\ last_sweep' \in [Servers -> Nat]
         /\ last_heartbeat' \in [Servers -> Nat]
         /\ admitted' \in [Servers -> Nat]
BY DEF TypeOK, Wiped

LEMMA AddServerPreserves ==
  ASSUME IInv, NEW e \in events, NEW m \in Commands, HandleAddServer(e, m)
  PROVE  IInv'
<1> DEFINE s == Min(FreeSlots)
           fd == Min(FreeFds)
<1>1. /\ Take(e) /\ m.config \in Config
      /\ Wiped(s, m.config, clock)
      /\ active' = [active EXCEPT ![s] = TRUE]
      /\ listen_fd' = [listen_fd EXCEPT ![s] = fd]
      /\ capacity' = [capacity EXCEPT ![s] = MapCapacity(m.config)]
      /\ owner' = [owner EXCEPT ![fd] = ListenSocket(s)]
      /\ inbox' = Read(e.fd, Line(m))
      /\ UNCHANGED sessions
  BY CommandShape DEF HandleAddServer, MgmtCommand, MgmtEvent
<1>2. fd \in Fds /\ owner[fd] = Closed
  BY LowestFree DEF HandleAddServer
<1>3. s \in Servers /\ ~active[s]
  BY LowestSlot DEF HandleAddServer
<1> HIDE DEF s, fd
<1>4. /\ inbox' \in [Fds -> SUBSET Items]
      /\ \A f \in Fds : inbox'[f] \subseteq inbox[f]
  BY <1>1, Reading DEF IInv
<1>5. ListenSocket(s) \in Sockets
  BY <1>3 DEF Sockets
<1>6. TypeOK'
  <2>1. /\ cfg' \in [Servers -> Config]
        /\ query_count' \in [Servers -> Nat]
        /\ rate_limiter' \in [Servers -> [window_start : Nat, count : Nat]]
        /\ last_sweep' \in [Servers -> Nat]
        /\ last_heartbeat' \in [Servers -> Nat]
        /\ admitted' \in [Servers -> Nat]
    BY <1>1, <1>3, Times, WipedTypes DEF IInv
  <2>2. MapCapacity(m.config) \in Nat
    BY <1>1, Capacities
  <2>3. /\ active' \in [Servers -> BOOLEAN]
        /\ listen_fd' \in [Servers -> Fds \cup {NoFd}]
        /\ capacity' \in [Servers -> Nat]
        /\ owner' \in [Fds -> Sockets]
    BY <1>1, <1>2, <1>3, <1>5, <2>2 DEF IInv, TypeOK
  <2>4. QED
    BY <1>1, <1>4, <2>1, <2>3 DEF IInv, TypeOK, Take
<1>7. DescriptorsExact'
  <2>1. events' \subseteq events
    BY <1>1 DEF Take
  <2>2. /\ active'[s] /\ listen_fd'[s] = fd
        /\ \A t \in Servers : t # s => active'[t] = active[t] /\ listen_fd'[t] = listen_fd[t]
    BY <1>1, <1>3 DEF IInv, TypeOK
  <2>3. \A t \in Servers : ListenSocket(s) = ListenSocket(t) => t = s
    BY <1>3 DEF ListenSocket, Socket
  <2>4. \A t \in Servers :
          /\ active[t] => active'[t] /\ listen_fd'[t] = listen_fd[t]
          /\ active'[t] /\ ~active[t] => listen_fd'[t] = fd /\ ListenSocket(s) = ListenSocket(t)
          /\ ListenSocket(s) = ListenSocket(t) => active'[t] /\ listen_fd'[t] = fd
    BY <1>3, <2>2, <2>3
  <2>5. \A t \in Servers, c \in Clients :
          /\ ListenSocket(s) # RelaySocket(t, c)
          /\ sessions'[t][c].relay_fd = sessions[t][c].relay_fd
    BY <1>1, <1>3, SocketsDistinct
  <2>6. owner'[fd] = ListenSocket(s) /\ \A f \in Fds : f # fd => owner'[f] = owner[f]
    BY <1>1, <1>2 DEF IInv, TypeOK
  <2>7. QED
    BY <1>2, <1>5, <2>1, <2>4, <2>5, <2>6, DescriptorOpened DEF IInv
<1>8. InboxesMatch'
  <2>1. inbox'[fd] = {}
    BY <1>2, <1>4 DEF IInv, InboxesMatch
  <2>2. \A f \in Fds : owner'[f] = owner[f] \/ inbox'[f] = {}
    BY <1>1, <2>1 DEF IInv, TypeOK
  <2>3. QED
    BY <1>4, <2>2, InboxesShrink DEF IInv
<1>9. BatchDone'
  BY <1>1 DEF Take, BatchDone
<1>10. QED
  BY <1>6, <1>7, <1>8, <1>9 DEF IInv

\* An add_server that fails: the slot was free and stays free.
LEMMA AddServerFailedPreserves ==
  ASSUME IInv, NEW e \in events, NEW m \in Commands, AddServerFailed(e, m)
  PROVE  IInv'
<1> DEFINE s == Min(FreeSlots)
<1>1. /\ Take(e) /\ m.config \in Config
      /\ Wiped(s, m.config, 0)
      /\ listen_fd' = [listen_fd EXCEPT ![s] = NoFd]
      /\ capacity' = [capacity EXCEPT ![s] = 0]
      /\ inbox' = Read(e.fd, Line(m))
      /\ UNCHANGED <<active, sessions, owner>>
  BY CommandShape DEF AddServerFailed, MgmtCommand, MgmtEvent
<1>2. s \in Servers /\ ~active[s]
  BY LowestSlot DEF AddServerFailed
<1> HIDE DEF s
<1>3. /\ inbox' \in [Fds -> SUBSET Items]
      /\ \A f \in Fds : inbox'[f] \subseteq inbox[f]
  BY <1>1, Reading DEF IInv
<1>4. TypeOK'
  <2>1. /\ cfg' \in [Servers -> Config]
        /\ query_count' \in [Servers -> Nat]
        /\ rate_limiter' \in [Servers -> [window_start : Nat, count : Nat]]
        /\ last_sweep' \in [Servers -> Nat]
        /\ last_heartbeat' \in [Servers -> Nat]
        /\ admitted' \in [Servers -> Nat]
    BY <1>1, <1>2, WipedTypes DEF IInv
  <2>2. listen_fd' \in [Servers -> Fds \cup {NoFd}] /\ capacity' \in [Servers -> Nat]
    BY <1>1, <1>2 DEF IInv, TypeOK
  <2>3. QED
    BY <1>1, <1>3, <2>1, <2>2 DEF IInv, TypeOK, Take
<1>5. DescriptorsExact'
  <2>1. \A t \in Servers : active[t] => listen_fd'[t] = listen_fd[t]
    BY <1>1, <1>2 DEF IInv, TypeOK
  <2>2. ServersOwnTheirSockets'
    BY <1>1, <2>1 DEF IInv, DescriptorsExact, ServersOwnTheirSockets, InUse
  <2>3. NoSocketForgotten'
    BY <1>1, <2>1 DEF IInv, DescriptorsExact, NoSocketForgotten
  <2>4. MgmtEventsCurrent'
    BY <1>1 DEF IInv, DescriptorsExact, MgmtEventsCurrent, Take
  <2>5. QED
    BY <2>2, <2>3, <2>4 DEF DescriptorsExact
<1>6. InboxesMatch'
  BY <1>1, <1>3, InboxesShrink DEF IInv
<1>7. BatchDone'
  BY <1>1 DEF Take, BatchDone
<1>8. QED
  BY <1>4, <1>5, <1>6, <1>7 DEF IInv

-----------------------------------------------------------------------------
(* Descriptors closed: kicks, sweeps, removals, hang-ups and the shutdown.  *)

\* A step closes the descriptors F: those of the sessions of the clients
\* G[s] of each server s, those of the servers that go, and management sockets M
\* that have no event in the batch.
TornDown(F, M, G) ==
  /\ events' \subseteq events /\ listen_fd' = listen_fd /\ owner' = Close(F)
  /\ \A f \in M : f \in Fds /\ owner[f] \in {MgmtListen, MgmtConn}
  /\ \A e \in events' : e.server = MGMT => e.fd \notin M
  /\ \A s \in Servers : active'[s] => active[s]
  /\ \A s \in Servers : active[s] /\ ~active'[s] =>
       listen_fd[s] \in F /\ \A c \in InUse(s) : c \in G[s]
  /\ \A s \in Servers, c \in Clients :
       /\ c \notin G[s] => sessions'[s][c].relay_fd = sessions[s][c].relay_fd
       /\ c \in G[s] => /\ c \in InUse(s)
                            /\ sessions'[s][c].relay_fd = NoFd
                            /\ sessions[s][c].relay_fd \in F
  /\ \A f \in F : \/ f \in M
                  \/ \E s \in Servers : active[s] /\ ~active'[s] /\ f = listen_fd[s]
                  \/ \E s \in Servers, c \in Clients :
                       c \in G[s] /\ f = sessions[s][c].relay_fd

\* Such a step keeps servers, sessions and descriptors in step.
LEMMA Teardown ==
  ASSUME IInv, NEW F, NEW M, NEW G, TornDown(F, M, G)
  PROVE  DescriptorsExact'
<1>1. \A f \in F : \/ owner[f] \in {MgmtListen, MgmtConn} /\ f \in M
                   \/ \E s \in Servers : owner[f] = ListenSocket(s) /\ ~active'[s]
                   \/ \E s \in Servers : \E c \in Clients :
                        c \in G[s] /\ owner[f] = RelaySocket(s, c)
  <2>1. \A s \in Servers : active[s] => owner[listen_fd[s]] = ListenSocket(s)
    BY DEF IInv, DescriptorsExact, ServersOwnTheirSockets
  <2>2. \A s \in Servers, c \in Clients :
          c \in G[s] => owner[sessions[s][c].relay_fd] = RelaySocket(s, c)
    BY SessionSocket DEF TornDown
  <2>3. QED
    BY <2>1, <2>2 DEF TornDown
<1>2. \A e \in events' : e.server = MGMT => e.fd \notin F
  <2>1. ASSUME NEW e \in events', e.server = MGMT, e.fd \in F
        PROVE  FALSE
    <3>1. owner[e.fd] \in {MgmtListen, MgmtConn} /\ e.fd \notin M
      BY <2>1 DEF IInv, DescriptorsExact, MgmtEventsCurrent, TornDown
    <3>2. QED
      BY <1>1, <2>1, <3>1, SocketsDistinct
  <2>2. QED
    BY <2>1
<1>3. \A s \in Servers : active'[s] => active[s] /\ listen_fd[s] \notin F
  <2>1. ASSUME NEW s \in Servers, active'[s]
        PROVE  active[s] /\ listen_fd[s] \notin F
    <3>1. active[s] /\ owner[listen_fd[s]] = ListenSocket(s)
      BY <2>1 DEF TornDown, IInv, DescriptorsExact, ServersOwnTheirSockets
    <3>2. ASSUME listen_fd[s] \in F PROVE FALSE
      <4>1. PICK t \in Servers : ListenSocket(s) = ListenSocket(t) /\ ~active'[t]
        BY <1>1, <3>1, <3>2, SocketsDistinct
      <4>2. t = s
        BY <4>1 DEF ListenSocket, Socket
      <4>3. QED
        BY <2>1, <4>1, <4>2
    <3>3. QED
      BY <3>1, <3>2
  <2>2. QED
    BY <2>1
<1>4. ASSUME NEW s \in Servers, NEW c \in Clients, sessions'[s][c].relay_fd # NoFd
      PROVE  /\ sessions'[s][c].relay_fd = sessions[s][c].relay_fd
             /\ sessions[s][c].relay_fd \notin F
             /\ active'[s]
  <2>1. c \notin G[s] /\ sessions'[s][c].relay_fd = sessions[s][c].relay_fd
    BY <1>4 DEF TornDown
  <2>2. c \in InUse(s)
    BY <1>4, <2>1 DEF InUse
  <2>3. active[s] /\ owner[sessions[s][c].relay_fd] = RelaySocket(s, c)
    BY <2>2, SessionSocket
  <2>4. sessions[s][c].relay_fd \notin F
    BY <1>1, <2>1, <2>3, SocketsDistinct
  <2>5. active'[s]
    BY <2>1, <2>2, <2>3 DEF TornDown
  <2>6. QED
    BY <2>1, <2>4, <2>5
<1>5. ASSUME NEW f \in Fds \ F, NEW s \in Servers
      PROVE  /\ owner[f] = ListenSocket(s) => active'[s]
             /\ \A c \in Clients : owner[f] = RelaySocket(s, c) =>
                  active'[s] /\ sessions'[s][c].relay_fd = f
  <2>1. ASSUME owner[f] = ListenSocket(s) PROVE active'[s]
    BY <1>5, <2>1 DEF IInv, DescriptorsExact, NoSocketForgotten, TornDown
  <2>2. ASSUME NEW c \in Clients, owner[f] = RelaySocket(s, c)
        PROVE  active'[s] /\ sessions'[s][c].relay_fd = f
    <3>1. active[s] /\ sessions[s][c].relay_fd = f
      BY <1>5, <2>2 DEF IInv, DescriptorsExact, NoSocketForgotten
    <3>2. c \notin G[s] /\ c \in InUse(s)
      BY <1>5, <3>1, FdsAssumption DEF InUse, NoFd, TornDown
    <3>3. QED
      BY <3>1, <3>2 DEF TornDown
  <2>3. QED
    BY <2>1, <2>2
<1>6. /\ DescriptorsExact /\ TypeOK
      /\ UNCHANGED listen_fd /\ events' \subseteq events /\ owner' = Close(F)
  BY DEF IInv, TornDown
<1>7. QED
  BY <1>2, <1>3, <1>4, <1>5, <1>6, DescriptorsClosed

\* The kernel's tables when the descriptors F are closed.
LEMMA KernelTables ==
  ASSUME IInv, NEW F, owner' = Close(F),
         NEW box \in [Fds -> SUBSET Items], \A f \in Fds : box[f] \subseteq inbox[f],
         inbox' = Purge(box, F)
  PROVE  /\ owner' \in [Fds -> Sockets]
         /\ inbox' \in [Fds -> SUBSET Items]
         /\ InboxesMatch'
<1>1. owner' \in [Fds -> Sockets]
  BY Closing DEF IInv
<1>2. /\ inbox' \in [Fds -> SUBSET Items]
      /\ \A f \in Fds : inbox'[f] \subseteq box[f] /\ (f \in F => inbox'[f] = {})
  BY Purging
<1>3. \A f \in Fds : f \notin F => owner'[f] = owner[f]
  BY DEF Close
<1>4. InboxesMatch'
  <2>1. \A f \in Fds : inbox'[f] \subseteq inbox[f] /\ (owner'[f] = owner[f] \/ inbox'[f] = {})
    BY <1>2, <1>3
  <2>2. QED
    BY <2>1, InboxesShrink DEF IInv
<1>5. QED
  BY <1>1, <1>2, <1>4

\* Sessions of one server closed by a kick.
LEMMA RemovalPreserves ==
  ASSUME IInv, NEW e \in events, Take(e), NEW s \in Servers, NEW C, C \subseteq InUse(s),
         \E x : RemoveSessions(s, C, Read(e.fd, x)),
         UNCHANGED <<active, cfg, listen_fd, capacity, rate_limiter, last_sweep, last_heartbeat,
                     admitted>>
  PROVE  IInv'
<1> DEFINE F == {sessions[s][c].relay_fd : c \in C}
           G == [t \in Servers |-> IF t = s THEN C ELSE {}]
<1>1. PICK x : /\ sessions' = WithoutSessions(s, C)
               /\ query_count' = [query_count EXCEPT ![s] = CountedDown(s, C)]
               /\ owner' = Close(F)
               /\ inbox' = Purge(Read(e.fd, x), F)
  BY Zenon DEF RemoveSessions
<1>2. events' \subseteq events
  BY DEF Take
<1>3. owner' \in [Fds -> Sockets] /\ inbox' \in [Fds -> SUBSET Items] /\ InboxesMatch'
  <2>1. Read(e.fd, x) \in [Fds -> SUBSET Items] /\ \A f \in Fds : Read(e.fd, x)[f] \subseteq inbox[f]
    BY Reading DEF IInv
  <2> HIDE DEF F
  <2>2. QED
    BY <1>1, <2>1, KernelTables
<1>4. \A t \in Servers, c \in Clients :
        /\ c \notin G[t] => sessions'[t][c] = sessions[t][c]
        /\ c \in G[t] => /\ t = s /\ c \in InUse(s)
                             /\ sessions'[t][c] = NoSession
                             /\ sessions[t][c].relay_fd \in F
  BY <1>1 DEF WithoutSessions
<1>5. DescriptorsExact'
  <2>1. \A f \in F : \E t \in Servers, c \in Clients :
          c \in G[t] /\ f = sessions[t][c].relay_fd
    BY DEF InUse
  <2>2. owner' = Close(F)
    BY <1>1
  <2> HIDE DEF F, G
  <2>3. TornDown(F, {}, G)
    BY <1>2, <1>4, <2>1, <2>2 DEF TornDown, NoSession
  <2>4. QED
    BY <2>3, Teardown
<1>6. TypeOK'
  <2>1. sessions' \in [Servers -> [Clients -> Session]]
    BY <1>1, SessionUpdates DEF IInv
  <2>2. query_count' \in [Servers -> Nat]
    BY <1>1, Counting DEF IInv, TypeOK
  <2>3. QED
    BY <1>3, <2>1, <2>2 DEF IInv, TypeOK, Take
<1>7. BatchDone'
  BY DEF Take, BatchDone
<1>8. QED
  BY <1>3, <1>5, <1>6, <1>7 DEF IInv

LEMMA KickPreserves ==
  ASSUME IInv, NEW e \in events, NEW m \in Commands, HandleKick(e, m) \/ HandleKickAll(e, m)
  PROVE  IInv'
<1>1. Take(e) /\ m.server \in Servers
  BY CommandShape DEF HandleKick, HandleKickAll, MgmtCommand, MgmtEvent
<1>2. PICK C : /\ C \subseteq InUse(m.server)
               /\ RemoveSessions(m.server, C, Read(e.fd, Line(m)))
  BY DEF HandleKick, HandleKickAll
<1>3. UNCHANGED <<active, cfg, listen_fd, capacity, rate_limiter, last_sweep, last_heartbeat,
                  admitted>>
  BY DEF HandleKick, HandleKickAll
<1>4. QED
  BY <1>1, <1>2, <1>3, RemovalPreserves

LEMMA HangupPreserves ==
  ASSUME IInv, NEW e \in events, MgmtHangup(e)
  PROVE  IInv'
<1>1. /\ Take(e) /\ e.server = MGMT
      /\ owner[e.fd] = MgmtConn
      /\ owner' = Close({e.fd})
      /\ inbox' = Purge(inbox, {e.fd})
      /\ UNCHANGED <<active, cfg, listen_fd, sessions, capacity, query_count, rate_limiter,
                     last_sweep, last_heartbeat, admitted>>
  BY DEF MgmtHangup, MgmtEvent, serverVars
<1>2. e.fd \in Fds /\ \A d \in events' : d.server = MGMT => d.fd # e.fd
  BY <1>1 DEF IInv, TypeOK, Take
<1>3. owner' \in [Fds -> Sockets] /\ inbox' \in [Fds -> SUBSET Items] /\ InboxesMatch'
  <2>1. inbox \in [Fds -> SUBSET Items]
    BY DEF IInv, TypeOK
  <2>2. QED
    BY <1>1, <2>1, KernelTables
<1>4. DescriptorsExact'
  <2>1. TornDown({e.fd}, {e.fd}, [t \in Servers |-> {}])
    BY <1>1, <1>2 DEF Take, TornDown
  <2>2. QED
    BY <2>1, Teardown
<1>5. TypeOK'
  BY <1>1, <1>3 DEF IInv, TypeOK, Take
<1>6. BatchDone'
  BY <1>1 DEF Take, BatchDone
<1>7. QED
  BY <1>3, <1>4, <1>5, <1>6 DEF IInv

LEMMA RemoveServerPreserves ==
  ASSUME IInv, NEW e \in events, NEW m \in Commands, HandleRemoveServer(e, m)
  PROVE  IInv'
<1> DEFINE s == m.server
           F == ServerFds(s)
           G == [t \in Servers |-> IF t = s THEN InUse(s) ELSE {}]
<1>1. /\ Take(e) /\ active[s]
      /\ active' = [active EXCEPT ![s] = FALSE]
      /\ sessions' = WithoutSessions(s, Clients)
      /\ capacity' = [capacity EXCEPT ![s] = 0]
      /\ owner' = Close(F)
      /\ inbox' = Purge(Read(e.fd, Line(m)), F)
      /\ UNCHANGED <<cfg, listen_fd, query_count, rate_limiter, last_sweep, last_heartbeat,
                     admitted>>
  BY DEF HandleRemoveServer, MgmtCommand, MgmtEvent, SessionsDestroyed
<1>2. s \in Servers
  BY CommandShape DEF HandleRemoveServer
<1> HIDE DEF s
<1>3. owner' \in [Fds -> Sockets] /\ inbox' \in [Fds -> SUBSET Items] /\ InboxesMatch'
  <2>1. /\ Read(e.fd, Line(m)) \in [Fds -> SUBSET Items]
        /\ \A f \in Fds : Read(e.fd, Line(m))[f] \subseteq inbox[f]
    BY Reading DEF IInv
  <2> HIDE DEF F
  <2>2. QED
    BY <1>1, <2>1, KernelTables
<1>4. \A t \in Servers : active'[t] = IF t = s THEN FALSE ELSE active[t]
  BY <1>1, <1>2 DEF IInv, TypeOK
<1>5. DescriptorsExact'
  <2>1. \A c \in Clients : c \notin InUse(s) => sessions[s][c].relay_fd = NoFd
    BY DEF InUse
  <2>2. \A t \in Servers, c \in Clients :
          sessions'[t][c] = IF t = s THEN NoSession ELSE sessions[t][c]
    BY <1>1 DEF WithoutSessions
  <2>3. \A t \in Servers, c \in Clients :
          /\ c \notin G[t] => sessions'[t][c].relay_fd = sessions[t][c].relay_fd
          /\ c \in G[t] => /\ t = s /\ c \in InUse(s)
                               /\ sessions'[t][c].relay_fd = NoFd
                               /\ sessions[t][c].relay_fd \in F
    BY <2>1, <2>2 DEF NoSession, ServerFds
  <2>4. /\ listen_fd[s] \in F /\ \A c \in InUse(s) : c \in G[s]
        /\ \A f \in F : \/ f = listen_fd[s]
                        \/ \E c \in Clients : c \in G[s] /\ f = sessions[s][c].relay_fd
    BY <1>2 DEF ServerFds, InUse
  <2>5. owner' = Close(F) /\ events' \subseteq events /\ listen_fd' = listen_fd
    BY <1>1 DEF Take
  <2> HIDE DEF F, G
  <2>6. TornDown(F, {}, G)
    BY <1>1, <1>2, <1>4, <2>3, <2>4, <2>5 DEF TornDown
  <2>7. QED
    BY <2>6, Teardown
<1>6. TypeOK'
  <2>1. sessions' \in [Servers -> [Clients -> Session]]
    BY <1>1, <1>2, SessionUpdates DEF IInv
  <2>2. active' \in [Servers -> BOOLEAN] /\ capacity' \in [Servers -> Nat]
    BY <1>1, <1>2 DEF IInv, TypeOK
  <2>3. QED
    BY <1>1, <1>3, <2>1, <2>2 DEF IInv, TypeOK, Take
<1>7. BatchDone'
  BY <1>1 DEF Take, BatchDone
<1>8. QED
  BY <1>3, <1>5, <1>6, <1>7 DEF IInv

LEMMA HousekeepingPreserves ==
  ASSUME IInv, Housekeeping
  PROVE  IInv'
<1> DEFINE swept(s) == IF SweepDue(s) THEN Expired(s) ELSE {}
           F == UNION {{sessions[s][c].relay_fd : c \in swept(s)} : s \in Servers}
           G == [s \in Servers |-> swept(s)]
<1>1. /\ sessions' = [s \in Servers |-> [c \in Clients |->
                        IF c \in swept(s) THEN NoSession ELSE sessions[s][c]]]
      /\ query_count' = [s \in Servers |-> CountedDown(s, swept(s))]
      /\ owner' = Close(F)
      /\ inbox' = Purge(inbox, F)
      /\ last_sweep' = [s \in Servers |-> IF SweepDue(s) THEN now ELSE last_sweep[s]]
      /\ last_heartbeat' = [s \in Servers |-> IF HeartbeatDue(s) THEN now ELSE last_heartbeat[s]]
      /\ events = {} /\ pc' = (IF g_running THEN "wait" ELSE "cleanup")
      /\ UNCHANGED <<active, cfg, listen_fd, capacity, rate_limiter, events, now, g_running, clock,
                     admitted>>
  BY DEF Housekeeping
<1>2. \A s \in Servers : swept(s) \subseteq InUse(s) /\ InUse(s) \subseteq Clients
  BY DEF Expired, InUse
<1> HIDE DEF swept
<1>3. owner' \in [Fds -> Sockets] /\ inbox' \in [Fds -> SUBSET Items] /\ InboxesMatch'
  <2>1. inbox \in [Fds -> SUBSET Items]
    BY DEF IInv, TypeOK
  <2> HIDE DEF F
  <2>2. QED
    BY <1>1, <2>1, KernelTables
<1>4. DescriptorsExact'
  <2>1. \A s \in Servers : \A c \in swept(s) : sessions[s][c].relay_fd \in F
    OBVIOUS
  <2>2. \A f \in F : \E s \in Servers, c \in Clients :
          c \in swept(s) /\ f = sessions[s][c].relay_fd
    BY <1>2
  <2>3. \A s \in Servers, c \in Clients :
          sessions'[s][c] = IF c \in swept(s) THEN NoSession ELSE sessions[s][c]
    BY <1>1, Zenon
  <2>4. \A s \in Servers, c \in Clients :
          /\ c \notin swept(s) => sessions'[s][c].relay_fd = sessions[s][c].relay_fd
          /\ c \in swept(s) => sessions'[s][c].relay_fd = NoFd
    BY <2>3 DEF NoSession
  <2>5. events' \subseteq events /\ listen_fd' = listen_fd /\ owner' = Close(F) /\ active' = active
    BY <1>1
  <2>6. \A s \in Servers : G[s] = swept(s)
    OBVIOUS
  <2> HIDE DEF F, G
  <2>7. TornDown(F, {}, G)
    BY <1>2, <2>1, <2>2, <2>4, <2>5, <2>6 DEF TornDown
  <2>8. QED
    BY <2>7, Teardown
<1>5. TypeOK'
  <2>1. sessions' \in [Servers -> [Clients -> Session]]
    BY <1>1 DEF IInv, TypeOK, NoSession, Session
  <2>2. query_count' \in [Servers -> Nat]
    BY <1>1, Counting DEF IInv
  <2>3. last_sweep' \in [Servers -> Nat] /\ last_heartbeat' \in [Servers -> Nat]
    BY <1>1, Times DEF IInv, TypeOK
  <2>4. pc' \in {"wait", "events", "cleanup", "stopped"}
    BY <1>1
  <2>5. UNCHANGED <<active, cfg, listen_fd, capacity, rate_limiter, events, now, g_running, clock,
                    admitted>>
    BY <1>1
  <2>6. QED
    BY <1>3, <2>1, <2>2, <2>3, <2>4, <2>5 DEF IInv, TypeOK
<1>6. BatchDone'
  BY <1>1 DEF BatchDone
<1>7. QED
  BY <1>3, <1>4, <1>5, <1>6 DEF IInv

LEMMA ShutdownPreserves ==
  ASSUME IInv, Shutdown
  PROVE  IInv'
<1> DEFINE F == MgmtFds \cup UNION {ServerFds(s) : s \in {t \in Servers : active[t]}}
           G == [s \in Servers |-> InUse(s)]
<1>1. /\ owner' = Close(F)
      /\ inbox' = Purge(inbox, F)
      /\ active' = [s \in Servers |-> FALSE]
      /\ sessions' = [s \in Servers |-> [c \in Clients |-> NoSession]]
      /\ pc = "cleanup" /\ pc' = "stopped"
      /\ UNCHANGED <<cfg, listen_fd, capacity, query_count, rate_limiter, last_sweep,
                     last_heartbeat, events, now, g_running, clock, admitted>>
  BY DEF Shutdown
<1>2. events = {} /\ events' = {}
  BY <1>1 DEF IInv, BatchDone
<1>3. owner' \in [Fds -> Sockets] /\ inbox' \in [Fds -> SUBSET Items] /\ InboxesMatch'
  <2>1. inbox \in [Fds -> SUBSET Items]
    BY DEF IInv, TypeOK
  <2> HIDE DEF F
  <2>2. QED
    BY <1>1, <2>1, KernelTables
<1>4. DescriptorsExact'
  <2>1. \A f \in MgmtFds : f \in Fds /\ owner[f] \in {MgmtListen, MgmtConn}
    BY DEF MgmtFds, MgmtListenFds, Connections
  <2>2. \A s \in Servers : ~active'[s] /\ (InUse(s) # {} => active[s])
    BY <1>1 DEF IInv, DescriptorsExact, ServersOwnTheirSockets
  <2>3. \A s \in Servers : active[s] => ServerFds(s) \subseteq F
    OBVIOUS
  <2>4. \A s \in Servers : /\ listen_fd[s] \in ServerFds(s)
                           /\ \A c \in InUse(s) : sessions[s][c].relay_fd \in ServerFds(s)
                           /\ \A f \in ServerFds(s) : \/ f = listen_fd[s]
                                                      \/ \E c \in InUse(s) : f = sessions[s][c].relay_fd
    BY DEF ServerFds
  <2>5. \A f \in F : f \in MgmtFds \/ \E s \in Servers : active[s] /\ f \in ServerFds(s)
    OBVIOUS
  <2>6. \A s \in Servers, c \in Clients :
          /\ sessions'[s][c].relay_fd = NoFd
          /\ c \notin InUse(s) => sessions[s][c].relay_fd = NoFd
    BY <1>1 DEF InUse, NoSession
  <2>7. events' \subseteq events /\ listen_fd' = listen_fd /\ owner' = Close(F)
    BY <1>1
  <2>8. \A s \in Servers : G[s] = InUse(s) /\ InUse(s) \subseteq Clients
    BY DEF InUse
  <2> HIDE DEF F, G
  <2>9. \A f \in F : \/ f \in MgmtFds
                     \/ \E s \in Servers : active[s] /\ ~active'[s] /\ f = listen_fd[s]
                     \/ \E s \in Servers, c \in Clients : c \in G[s] /\ f = sessions[s][c].relay_fd
    BY <2>2, <2>4, <2>5, <2>8
  <2>10. TornDown(F, MgmtFds, G)
    BY <1>2, <2>1, <2>2, <2>3, <2>4, <2>6, <2>7, <2>8, <2>9 DEF TornDown
  <2>11. QED
    BY <2>10, Teardown
<1>5. TypeOK'
  <2>1. sessions' \in [Servers -> [Clients -> Session]]
    BY <1>1 DEF NoSession, Session
  <2>2. active' \in [Servers -> BOOLEAN]
    BY <1>1
  <2>3. QED
    BY <1>1, <1>3, <2>1, <2>2 DEF IInv, TypeOK
<1>6. BatchDone'
  BY <1>2 DEF BatchDone
<1>7. QED
  BY <1>3, <1>4, <1>5, <1>6 DEF IInv

-----------------------------------------------------------------------------
(* The environment.                                                         *)

LEMMA ArrivalPreserves ==
  ASSUME IInv, NEW f \in Fds, NEW x \in Items, Arrives(f, x), owner[f] # Closed,
         owner[f].kind = "listen" => x \in Datagrams
  PROVE  IInv'
<1>1. /\ UNCHANGED <<active, cfg, listen_fd, sessions, capacity, query_count, rate_limiter,
                     last_sweep, last_heartbeat>>
      /\ UNCHANGED <<pc, events, now, g_running, owner, clock, admitted>>
      /\ inbox' = [inbox EXCEPT ![f] = @ \cup {x}]
  BY DEF Arrives, serverVars, loopVars
<1>2. inbox' \in [Fds -> SUBSET Items]
  BY <1>1 DEF IInv, TypeOK
<1>3. TypeOK'
  BY <1>1, <1>2 DEF IInv, TypeOK
<1>4. DescriptorsExact'
  BY <1>1, SameDescriptors DEF IInv
<1>5. InboxesMatch'
  <2>1. \A g \in Fds : inbox'[g] = IF g = f THEN inbox[f] \cup {x} ELSE inbox[g]
    BY <1>1 DEF IInv, TypeOK
  <2>2. QED
    BY <1>1, <2>1 DEF IInv, InboxesMatch
<1>6. BatchDone'
  BY <1>1 DEF IInv, BatchDone
<1>7. QED
  BY <1>3, <1>4, <1>5, <1>6 DEF IInv

LEMMA EnvironmentPreserves ==
  ASSUME IInv, Environment
  PROVE  IInv'
<1>1. ASSUME NEW f \in Fds, NEW c \in Clients, NEW body \in Bodies,
             ClientSends(c, body, f)
      PROVE  IInv'
  <2>1. Datagram(c, body) \in Datagrams /\ Datagram(c, body) \in Items
    BY DEF Datagrams, Items
  <2>2. owner[f] # Closed /\ Arrives(f, Datagram(c, body))
    BY <1>1, SocketKinds DEF ClientSends
  <2>3. QED
    BY <2>1, <2>2, ArrivalPreserves
<1>2. ASSUME NEW f \in Fds, ServerReplies(f)
      PROVE  IInv'
  <2>1. Reply \in Items /\ owner[f] # Closed /\ owner[f].kind # "listen" /\ Arrives(f, Reply)
    BY <1>2, SocketKinds DEF ServerReplies, Items
  <2>2. QED
    BY <2>1, ArrivalPreserves
<1>3. ASSUME NEW f \in Fds, AdminConnects(f)
      PROVE  IInv'
  <2>1. /\ Connection \in Items /\ owner[f] # Closed /\ owner[f].kind # "listen"
        /\ Arrives(f, Connection)
    BY <1>3, SocketKinds, SocketsDistinct DEF AdminConnects, Items
  <2>2. QED
    BY <2>1, ArrivalPreserves
<1>4. ASSUME NEW f \in Fds, NEW x \in Items, owner[f] = MgmtConn, Arrives(f, x)
      PROVE  IInv'
  <2>1. owner[f] # Closed /\ owner[f].kind # "listen"
    BY <1>4, SocketKinds, SocketsDistinct
  <2>2. QED
    BY <1>4, <2>1, ArrivalPreserves
<1>5. ASSUME NEW f \in Fds, NEW m \in Commands, AdminSends(f, m)
      PROVE  IInv'
  <2>1. Line(m) \in Items
    BY DEF Items
  <2>2. QED
    BY <1>4, <1>5, <2>1 DEF AdminSends
<1>6. ASSUME NEW f \in Fds, AdminHangsUp(f)
      PROVE  IInv'
  BY <1>4, <1>6 DEF AdminHangsUp, Items
<1>7. CASE Signal
  <2>1. /\ UNCHANGED <<active, cfg, listen_fd, sessions, capacity, query_count, rate_limiter,
                       last_sweep, last_heartbeat>>
        /\ UNCHANGED <<events, now, owner, inbox, clock, admitted>>
        /\ g_running' = FALSE
        /\ pc' \in IF pc = "wait" THEN {"wait", "cleanup"} ELSE {pc}
    BY <1>7 DEF Signal, serverVars, kernelVars
  <2>2. TypeOK'
    BY <2>1 DEF IInv, TypeOK
  <2>3. DescriptorsExact'
    BY <2>1, SameDescriptors DEF IInv
  <2>4. InboxesMatch' /\ BatchDone'
    BY <2>1 DEF IInv, InboxesMatch, BatchDone
  <2>5. QED
    BY <2>2, <2>3, <2>4 DEF IInv
<1>8. QED
  BY <1>1, <1>2, <1>3, <1>5, <1>6, <1>7 DEF Environment

LEMMA TickPreserves ==
  ASSUME IInv, Tick
  PROVE  IInv'
<1>1. /\ UNCHANGED <<active, cfg, listen_fd, sessions, capacity, query_count, rate_limiter,
                     last_sweep, last_heartbeat>>
      /\ UNCHANGED <<pc, events, now, g_running, owner, inbox>>
      /\ clock' \in Instants /\ admitted' = [s \in Servers |-> 0]
  BY DEF Tick, serverVars, loopVars
<1>2. TypeOK'
  BY <1>1 DEF IInv, TypeOK
<1>3. DescriptorsExact'
  BY <1>1, SameDescriptors DEF IInv
<1>4. InboxesMatch' /\ BatchDone'
  BY <1>1 DEF IInv, InboxesMatch, BatchDone
<1>5. QED
  BY <1>2, <1>3, <1>4 DEF IInv

LEMMA StutterPreserves ==
  ASSUME IInv, UNCHANGED vars
  PROVE  IInv'
<1>1. /\ UNCHANGED <<active, cfg, listen_fd, sessions, capacity, query_count, rate_limiter,
                     last_sweep, last_heartbeat>>
      /\ UNCHANGED <<pc, events, now, g_running, owner, inbox, clock, admitted>>
  BY DEF vars, serverVars, loopVars, kernelVars
<1>2. TypeOK'
  BY <1>1 DEF IInv, TypeOK
<1>3. DescriptorsExact'
  BY <1>1, SameDescriptors DEF IInv
<1>4. InboxesMatch' /\ BatchDone'
  BY <1>1 DEF IInv, InboxesMatch, BatchDone
<1>5. QED
  BY <1>2, <1>3, <1>4 DEF IInv

-----------------------------------------------------------------------------
(* The theorems.                                                            *)

\* Every step of an event of a game server's socket keeps the invariant.
LEMMA ServerEventPreserves ==
  ASSUME IInv, NEW e \in events, ServerEvent(e)
  PROVE  IInv'
<1>1. ASSUME SkipRemoved(e) \/ NothingUsable(e) PROVE IInv'
  BY <1>1, IdleEventPreserves
<1>2. ASSUME NEW s \in Servers, NEW d \in inbox[e.fd],
             \/ KnownClient(e, s, d) \/ NewClientRefused(e, s, d)
             \/ ConnectFailed(e, s, d) \/ NewClientAccepted(e, s, d)
      PROVE  IInv'
  BY <1>2, KnownClientPreserves, DropPacketPreserves, NewClientPreserves
     DEF NewClientRefused, ConnectFailed
<1>3. ASSUME NEW s \in Servers, NothingReceived(e, s) PROVE IInv'
  BY <1>3, IdleEventPreserves
<1>4. ASSUME NEW s \in Servers, NEW x \in inbox[e.fd],
             (\E c \in Clients : ReplyRelayed(e, s, c, x)) \/ ReplyUnclaimed(e, s, x)
      PROVE  IInv'
  BY <1>4, ReplyRelayedPreserves, ReplyUnclaimedPreserves
<1>5. QED
  BY <1>1, <1>2, <1>3, <1>4 DEF ServerEvent

\* So does every step of the management API.
LEMMA MgmtStepPreserves ==
  ASSUME IInv, NEW e \in events, MgmtStep(e)
  PROVE  IInv'
<1>1. CASE MgmtAccept(e)
  BY <1>1, MgmtAcceptPreserves
<1>2. CASE MgmtHangup(e)
  BY <1>2, HangupPreserves
<1>3. ASSUME NEW m \in Commands,
             \/ HandleKick(e, m) \/ HandleKickAll(e, m)
             \/ HandleSet(e, m) \/ HandleSetMaster(e, m)
      PROVE  IInv'
  BY <1>3, KickPreserves, SetPreserves, SetMasterPreserves
<1>4. ASSUME NEW m \in Commands,
             \/ HandleAddServer(e, m) \/ AddServerFailed(e, m) \/ HandleRemoveServer(e, m)
      PROVE  IInv'
  BY <1>4, AddServerPreserves, AddServerFailedPreserves, RemoveServerPreserves
<1>5. ASSUME MgmtNotAccepted(e) \/ \E m \in Commands : HandleWithoutEffect(e, m)
      PROVE  IInv'
  BY <1>5, IdleEventPreserves
<1>6. QED
  BY <1>1, <1>2, <1>3, <1>4, <1>5 DEF MgmtStep

LEMMA StepPreserves == IInv /\ [Next]_vars => IInv'
<1> SUFFICES ASSUME IInv, [Next]_vars PROVE IInv'
  OBVIOUS
<1>1. CASE EpollWait
  BY <1>1, EpollWaitPreserves
<1>2. CASE \E e \in events : ServerEvent(e)
  BY <1>2, ServerEventPreserves
<1>3. CASE \E e \in events : MgmtStep(e)
  BY <1>3, MgmtStepPreserves
<1>4. CASE Housekeeping
  BY <1>4, HousekeepingPreserves
<1>5. CASE Shutdown
  BY <1>5, ShutdownPreserves
<1>6. CASE Environment
  BY <1>6, EnvironmentPreserves
<1>7. CASE Tick
  BY <1>7, TickPreserves
<1>8. CASE UNCHANGED vars
  BY <1>8, StutterPreserves
<1>9. QED
  BY <1>1, <1>2, <1>3, <1>4, <1>5, <1>6, <1>7, <1>8 DEF Next, Loop

\* The inductive invariant: types, descriptors in step with servers and
\* sessions, inboxes that fit their descriptors, batches worked off before the
\* loop goes on.
THEOREM Invariance == Spec => []IInv
<1>1. Init => IInv
  BY InitEstablishes
<1>2. IInv /\ [Next]_vars => IInv'
  BY StepPreserves
<1>3. QED
  BY <1>1, <1>2, PTL DEF Spec

\* The state of relay_run, of its servers and of the kernel's tables keeps its
\* shape.
THEOREM TypeCorrect == Spec => []TypeOK
<1>1. IInv => TypeOK
  BY DEF IInv
<1>2. QED
  BY <1>1, Invariance, PTL

\* No socket of a server or of a session is leaked, closed twice or taken for
\* another, through any sequence of packets, sweeps, kicks, additions and
\* removals.
THEOREM DescriptorsCorrect == Spec => []DescriptorsExact
<1>1. IInv => DescriptorsExact
  BY DEF IInv
<1>2. QED
  BY <1>1, Invariance, PTL

-----------------------------------------------------------------------------
(* Consequences of the invariant: where packets go, and what is left at the *)
(* end.                                                                     *)

\* Steps of the loop that send nothing.
LEMMA SilentSteps ==
  ASSUME NEW e \in events,
         \/ ServerEvent(e) /\ ~\E s \in Servers, d \in inbox[e.fd] :
              \/ KnownClient(e, s, d) \/ NewClientAccepted(e, s, d)
              \/ \E c \in Clients : ReplyRelayed(e, s, c, d)
         \/ MgmtStep(e)
  PROVE  sent' = NothingSent
<1>1. CASE MgmtStep(e)
  BY <1>1 DEF MgmtStep, MgmtAccept, MgmtNotAccepted, MgmtHangup, HandleKick, HandleKickAll,
       HandleSet, HandleSetMaster, HandleAddServer, AddServerFailed, HandleRemoveServer,
       HandleWithoutEffect, MgmtCommand, MgmtEvent
<1>2. CASE ~MgmtStep(e)
  BY <1>2 DEF ServerEvent, SkipRemoved, NothingUsable, NewClientRefused, ConnectFailed, DropPacket,
       NothingReceived, ReplyUnclaimed
<1>3. QED
  BY <1>1, <1>2

\* A packet leaves through the socket of its session.
LEMMA SendingSteps ==
  ASSUME IInv, NEW e \in events, NEW s \in Servers, NEW d \in inbox[e.fd],
         \/ KnownClient(e, s, d) \/ NewClientAccepted(e, s, d)
         \/ \E c \in Clients : ReplyRelayed(e, s, c, d)
  PROVE  sent'.socket = RelaySocket(sent'.server, sent'.client)
<1>1. CASE KnownClient(e, s, d)
  <2>1. d.from \in InUse(s) /\ owner' = owner
        /\ sent' = Forward(s, d.from, sessions[s][d.from].relay_fd)
    BY <1>1 DEF KnownClient
  <2>2. owner[sessions[s][d.from].relay_fd] = RelaySocket(s, d.from)
    BY <2>1, SessionSocket
  <2>3. QED
    BY <2>1, <2>2 DEF Forward
<1>2. CASE NewClientAccepted(e, s, d)
  <2>1. /\ FreeFds # {} /\ owner' = [owner EXCEPT ![Min(FreeFds)] = RelaySocket(s, d.from)]
        /\ sent' = Forward(s, d.from, Min(FreeFds))
    BY <1>2 DEF NewClientAccepted
  <2>2. Min(FreeFds) \in DOMAIN owner
    BY <2>1, LowestFree DEF IInv, TypeOK
  <2>3. QED
    BY <2>1, <2>2 DEF Forward
<1>3. ASSUME NEW c \in Clients, ReplyRelayed(e, s, c, d)
      PROVE  sent'.socket = RelaySocket(sent'.server, sent'.client)
  <2>1. /\ c \in InUse(s) /\ sessions[s][c].relay_fd = e.fd
        /\ sent' = [kind |-> "to client", server |-> s, client |-> c, socket |-> owner[e.fd]]
    BY <1>3 DEF ReplyRelayed, SessionsOn
  <2>2. owner[e.fd] = RelaySocket(s, c)
    BY <2>1, SessionSocket
  <2>3. QED
    BY <2>1, <2>2
<1>4. QED
  BY <1>1, <1>2, <1>3

\* No client ever gets a packet of another client or of another server, and no
\* server a packet on another client's socket.
THEOREM PacketsCorrect == Spec => []PacketsGoHome
<1>1. Init => PacketsGoHome
  BY DEF Init, PacketsGoHome
<1>2. IInv /\ PacketsGoHome /\ [Next]_vars => PacketsGoHome'
  <2> SUFFICES ASSUME IInv, PacketsGoHome, [Next]_vars PROVE PacketsGoHome'
    OBVIOUS
  <2>1. CASE \E e \in events : ServerEvent(e) \/ MgmtStep(e)
    BY <2>1, SilentSteps, SendingSteps DEF PacketsGoHome
  <2>2. CASE EpollWait \/ Housekeeping \/ Shutdown
    BY <2>2 DEF EpollWait, Housekeeping, Shutdown, PacketsGoHome, NothingSent
  <2>3. CASE Environment \/ Tick
    <3>1. sent' = NothingSent
      BY <2>3 DEF Environment, Tick, ClientSends, ServerReplies, AdminConnects, AdminSends,
           AdminHangsUp, Arrives, Signal
    <3>2. QED
      BY <3>1 DEF PacketsGoHome, NothingSent
  <2>4. CASE UNCHANGED vars
    BY <2>4 DEF vars, PacketsGoHome, NothingSent, RelaySocket, Socket
  <2>5. QED
    BY <2>1, <2>2, <2>3, <2>4 DEF Next, Loop
<1>3. QED
  BY <1>1, <1>2, Invariance, PTL DEF Spec

\* After the shutdown nothing opens a descriptor again.
LEMMA StoppedForGood ==
  ASSUME IInv, pc = "stopped", [Next]_vars
  PROVE  owner' = owner
<1>1. events = {}
  BY DEF IInv, BatchDone
<1>2. ~Loop
  BY <1>1 DEF Loop, EpollWait, Housekeeping, Shutdown
<1>3. Environment \/ Tick \/ UNCHANGED vars => owner' = owner
  BY DEF Environment, ClientSends, ServerReplies, AdminConnects, AdminSends, AdminHangsUp, Arrives,
     Signal, Tick, vars, kernelVars
<1>4. QED
  BY <1>2, <1>3 DEF Next

\* Handling an event does not change where the loop is.
LEMMA EventsTaken ==
  ASSUME NEW e, ServerEvent(e) \/ MgmtStep(e)
  PROVE  pc' = pc
<1>1. CASE ServerEvent(e)
  <2>1. \/ SkipRemoved(e) \/ NothingUsable(e)
        \/ \E s, d : FromClient(e, s, d) \/ RelayEvent(e, s)
    BY <1>1 DEF ServerEvent, KnownClient, NewClientRefused, ConnectFailed, DropPacket,
         NewClientAccepted, NothingReceived, ReplyRelayed, ReplyUnclaimed
  <2>2. Take(e)
    BY <2>1 DEF SkipRemoved, NothingUsable, FromClient, RelayEvent
  <2>3. QED
    BY <2>2 DEF Take
<1>2. CASE MgmtStep(e)
  <2>1. MgmtEvent(e)
    BY <1>2 DEF MgmtStep, MgmtAccept, MgmtNotAccepted, MgmtHangup, HandleKick, HandleKickAll,
         HandleSet, HandleSetMaster, HandleAddServer, AddServerFailed, HandleRemoveServer,
         HandleWithoutEffect, MgmtCommand
  <2>2. QED
    BY <2>1 DEF MgmtEvent, Take
<1>3. QED
  BY <1>1, <1>2

\* Whatever is in progress when the signal comes, the cleanup closes every
\* socket of the process.
THEOREM ShutdownClean == Spec => []CleanShutdown
<1>1. Init => CleanShutdown
  BY DEF Init, CleanShutdown
<1>2. IInv /\ CleanShutdown /\ [Next]_vars => CleanShutdown'
  <2> SUFFICES ASSUME IInv, CleanShutdown, [Next]_vars, pc' = "stopped"
               PROVE  OpenFds' = {}
    BY DEF CleanShutdown
  <2>1. CASE pc = "stopped"
    <3>1. owner' = owner /\ OpenFds = {}
      BY <2>1, StoppedForGood DEF CleanShutdown
    <3>2. QED
      BY <3>1 DEF OpenFds
  <2>2. CASE pc # "stopped"
    <3>1. Shutdown
      <4>1. ~Environment /\ ~Tick /\ ~UNCHANGED vars
        BY <2>2 DEF Environment, ClientSends, ServerReplies, AdminConnects, AdminSends,
             AdminHangsUp, Arrives, Signal, Tick, loopVars, vars
      <4>2. ~EpollWait /\ ~Housekeeping
        BY <2>2 DEF EpollWait, Housekeeping
      <4>3. \A e \in events : ~ServerEvent(e) /\ ~MgmtStep(e)
        BY <2>2, EventsTaken
      <4>4. QED
        BY <4>1, <4>2, <4>3 DEF Next, Loop
    <3> DEFINE F == MgmtFds \cup UNION {ServerFds(s) : s \in {t \in Servers : active[t]}}
    <3>2. owner' = Close(F)
      BY <3>1 DEF Shutdown
    <3>3. ASSUME NEW f \in Fds, owner[f] # Closed PROVE f \in F
      <4>1. CASE owner[f] \in {MgmtListen, MgmtConn}
        BY <4>1 DEF MgmtFds, MgmtListenFds, Connections
      <4>2. ASSUME NEW s \in Servers, owner[f] = ListenSocket(s) PROVE f \in F
        <5>1. active[s] /\ f \in ServerFds(s)
          BY <4>2 DEF IInv, DescriptorsExact, NoSocketForgotten, ServerFds
        <5>2. QED
          BY <5>1
      <4>3. ASSUME NEW s \in Servers, NEW c \in Clients, owner[f] = RelaySocket(s, c)
            PROVE  f \in F
        <5>1. active[s] /\ sessions[s][c].relay_fd = f
          BY <4>3 DEF IInv, DescriptorsExact, NoSocketForgotten
        <5>2. f \in ServerFds(s)
          BY <5>1, FdsAssumption DEF ServerFds, InUse, NoFd
        <5>3. QED
          BY <5>1, <5>2
      <4>4. QED
        BY <3>3, <4>1, <4>2, <4>3, OwnerCases DEF IInv
    <3> HIDE DEF F
    <3>4. \A f \in Fds : owner'[f] = Closed
      BY <3>2, <3>3 DEF Close
    <3>5. QED
      BY <3>4 DEF OpenFds
  <2>3. QED
    BY <2>1, <2>2
<1>3. QED
  BY <1>1, <1>2, Invariance, PTL DEF Spec

-----------------------------------------------------------------------------
(* The counters and limits: query_count, the session map, both pools and   *)
(* the rate limiter.                                                        *)

\* The counter of an active server and the room in its map.
CountsExact(s) == query_count[s] = Cardinality(Queries(s)) /\ Count(s) <= capacity[s]
CInv == \A s \in Servers : active[s] => CountsExact(s)

\* The size of the map and the query pool, while no command tunes their limits.
PoolsFit(s) ==
  /\ capacity[s] = MapCapacity(cfg[s])
  /\ Cardinality(Queries(s)) <= cfg[s].max_query_sessions
LInv == \A s \in Servers : active[s] => PoolsFit(s)

\* The tokens of the current second.
TokensCover(s) ==
  /\ rate_limiter[s].count <= cfg[s].max_new_per_sec
  /\ admitted[s] > 0 => /\ rate_limiter[s].window_start = clock
                        /\ admitted[s] <= rate_limiter[s].count
RInv == \A s \in Servers : TokensCover(s)

\* What administrators may do in the theorems about the limits: anything but
\* lower or raise them.
Limits == {"max_clients", "max_query_sessions", "max_new_per_sec"}
NoLimitTuned == \A m \in Commands : m.cmd = "set" => m.key \notin Limits

-----------------------------------------------------------------------------
(* Sets of sessions and their numbers.                                      *)

LEMMA SessionSets ==
  ASSUME NEW s \in Servers
  PROVE  /\ Queries(s) \subseteq InUse(s) /\ InUse(s) \subseteq Clients
         /\ IsFiniteSet(Queries(s)) /\ IsFiniteSet(InUse(s))
         /\ Cardinality(Queries(s)) \in Nat /\ Cardinality(InUse(s)) \in Nat
<1>1. Queries(s) \subseteq InUse(s) /\ InUse(s) \subseteq Clients
  BY DEF Queries, InUse
<1>2. IsFiniteSet(Queries(s)) /\ IsFiniteSet(InUse(s))
  BY <1>1, FS_Subset, ClientsAssumption
<1>3. QED
  BY <1>1, <1>2, FS_CardinalityType

LEMMA SessionSet ==
  ASSUME NEW s \in Servers, NEW c \in Clients, NEW x, x.relay_fd # NoFd, x.is_query \in BOOLEAN,
         sessions' = WithSession(s, c, x)
  PROVE  \A t \in Servers :
           /\ InUse(t)' = IF t = s THEN InUse(s) \cup {c} ELSE InUse(t)
           /\ Queries(t)' = IF t # s THEN Queries(t)
                            ELSE IF x.is_query THEN Queries(s) \cup {c} ELSE Queries(s) \ {c}
<1>1. \A t \in Servers, d \in Clients :
        sessions'[t][d] = IF t = s /\ d = c THEN x ELSE sessions[t][d]
  BY DEF WithSession
<1>2. \A t \in Servers : InUse(t)' = IF t = s THEN InUse(s) \cup {c} ELSE InUse(t)
  BY <1>1 DEF InUse
<1>3. \A t \in Servers :
        Queries(t)' = IF t # s THEN Queries(t)
                      ELSE IF x.is_query THEN Queries(s) \cup {c} ELSE Queries(s) \ {c}
  BY <1>1, <1>2 DEF Queries, InUse
<1>4. QED
  BY <1>2, <1>3

LEMMA SessionsDropped ==
  ASSUME NEW D \in [Servers -> SUBSET Clients],
         sessions' = [t \in Servers |-> [d \in Clients |->
                        IF d \in D[t] THEN NoSession ELSE sessions[t][d]]]
  PROVE  \A t \in Servers : /\ InUse(t)' = InUse(t) \ D[t]
                            /\ Queries(t)' = Queries(t) \ D[t]
<1>1. \A t \in Servers, d \in Clients :
        sessions'[t][d] = IF d \in D[t] THEN NoSession ELSE sessions[t][d]
  OBVIOUS
<1>2. \A t \in Servers : InUse(t)' = InUse(t) \ D[t]
  BY <1>1 DEF InUse, NoSession
<1>3. \A t \in Servers : Queries(t)' = Queries(t) \ D[t]
  BY <1>1, <1>2 DEF Queries, InUse
<1>4. QED
  BY <1>2, <1>3

\* Counting down by the queries among the sessions that go keeps the counter exact.
LEMMA CountingDown ==
  ASSUME NEW s \in Servers, CountsExact(s), capacity[s] \in Nat, NEW C,
         InUse(s)' = InUse(s) \ C, Queries(s)' = Queries(s) \ C,
         query_count'[s] = CountedDown(s, C), capacity'[s] = capacity[s]
  PROVE  /\ CountsExact(s)'
         /\ Cardinality(Queries(s)') <= Cardinality(Queries(s))
<1> DEFINE Q == Queries(s)
           I == InUse(s)
<1>1. IsFiniteSet(Q) /\ IsFiniteSet(I) /\ Cardinality(Q) \in Nat /\ Cardinality(I) \in Nat
  BY SessionSets
<1>2. C \cap Q = Q \cap C
  OBVIOUS
<1>3. IsFiniteSet(Q \cap C) /\ Cardinality(Q \cap C) <= Cardinality(Q)
  BY <1>1, FS_Subset, Q \cap C \in SUBSET Q
<1>4. Cardinality(Q \cap C) \in Nat
  BY <1>3, FS_CardinalityType
<1>5. Cardinality(Q \ C) = Cardinality(Q) - Cardinality(Q \cap C)
  BY <1>1, FS_Difference
<1>6. Cardinality(I \ C) <= Cardinality(I)
  BY <1>1, FS_Subset, I \ C \in SUBSET I
<1>7. Cardinality(I \ C) \in Nat
  BY <1>1, FS_Subset, FS_CardinalityType, I \ C \in SUBSET I
<1>8. query_count'[s] = Cardinality(Q) - Cardinality(Q \cap C)
  BY <1>1, <1>2, <1>3, <1>4 DEF CountsExact, CountedDown, Decrease
<1>9. Cardinality(I \ C) <= capacity[s]
  <2>1. Cardinality(I) <= capacity[s]
    BY DEF CountsExact, Count
  <2> HIDE DEF I
  <2>2. QED
    BY <2>1, <1>1, <1>6, <1>7
<1>10. QED
  BY <1>1, <1>4, <1>5, <1>8, <1>9 DEF CountsExact, Count

-----------------------------------------------------------------------------
(* query_count and the session map, step by step.                           *)

LEMMA InitCounts == Init => CInv
<1> SUFFICES ASSUME Init, NEW s \in Servers, active[s] PROVE CountsExact(s)
  BY DEF CInv
<1>1. InUse(s) = {}
  BY DEF Init, InUse, NoSession
<1>2. Queries(s) = {}
  BY <1>1 DEF Queries
<1>3. query_count[s] = 0
  BY DEF Init
<1>4. s \in DOMAIN Startup /\ capacity[s] = MapCapacity(Startup[s])
  BY DEF Init
<1>5. capacity[s] \in Nat
  BY <1>4, Capacities, StartupAssumption
<1>6. QED
  BY <1>1, <1>2, <1>3, <1>5, FS_EmptySet DEF CountsExact, Count

\* Steps that leave the sessions alone.
LEMMA QuietCounts ==
  ASSUME CInv, UNCHANGED <<active, sessions, query_count, capacity>>
  PROVE  CInv'
<1>1. \A s \in Servers : InUse(s)' = InUse(s) /\ Queries(s)' = Queries(s)
  BY DEF InUse, Queries
<1>2. QED
  BY <1>1 DEF CInv, CountsExact, Count

\* A packet of a known client, which may promote its session.
LEMMA KnownClientCounts ==
  ASSUME IInv, CInv, NEW e \in events, NEW s \in Servers, NEW d \in inbox[e.fd],
         KnownClient(e, s, d)
  PROVE  /\ CInv'
         /\ \A t \in Servers : Queries(t)' \subseteq Queries(t)
<1> DEFINE c == d.from
           x == [relay_fd |-> sessions[s][c].relay_fd, is_query |-> StillQuery(s, c, d.body),
                 last_activity |-> now]
<1>1. c \in InUse(s) /\ c \in Clients /\ active[s]
  BY DEF KnownClient, FromClient, InUse
<1>2. /\ sessions' = WithSession(s, c, x)
      /\ query_count' = [query_count EXCEPT ![s] = QueriesAfterPacket(s, d)]
      /\ UNCHANGED <<active, cfg, capacity>>
  BY DEF KnownClient
<1>3. sessions[s][c] \in Session /\ x.relay_fd = sessions[s][c].relay_fd
      /\ x.is_query = StillQuery(s, c, d.body)
  BY <1>1 DEF IInv, TypeOK
<1>4. x.relay_fd # NoFd /\ x.is_query \in BOOLEAN
  BY <1>1, <1>3 DEF InUse, StillQuery, Session
<1> HIDE DEF x
<1>5. \A t \in Servers :
        /\ InUse(t)' = IF t = s THEN InUse(s) \cup {c} ELSE InUse(t)
        /\ Queries(t)' = IF t # s THEN Queries(t)
                         ELSE IF x.is_query THEN Queries(s) \cup {c} ELSE Queries(s) \ {c}
  BY <1>1, <1>2, <1>4, SessionSet
<1>6. \A t \in Servers : InUse(t)' = InUse(t)
  BY <1>1, <1>5
<1>7. c \in Queries(s) <=> sessions[s][c].is_query
  BY <1>1 DEF Queries
<1>8. Queries(s)' = IF d.body # "query" THEN Queries(s) \ {c} ELSE Queries(s)
  BY <1>3, <1>5, <1>7 DEF StillQuery
<1>9. query_count'[s] = Cardinality(Queries(s)')
  <2>1. query_count \in [Servers -> Nat] /\ query_count[s] = Cardinality(Queries(s))
    BY <1>1 DEF IInv, TypeOK, CInv, CountsExact
  <2>2. query_count'[s] = QueriesAfterPacket(s, d)
    BY <1>2, <2>1
  <2>3. IsFiniteSet(Queries(s)) /\ Cardinality(Queries(s)) \in Nat
    BY SessionSets
  <2>4. c \in Queries(s) => Cardinality(Queries(s)) # 0
    BY <2>3, FS_EmptySet
  <2>5. Cardinality(Queries(s) \ {c}) =
          IF c \in Queries(s) THEN Cardinality(Queries(s)) - 1 ELSE Cardinality(Queries(s))
    BY <2>3, FS_RemoveElement
  <2>6. QueriesAfterPacket(s, d) =
          IF c \in Queries(s) /\ d.body # "query" THEN Cardinality(Queries(s)) - 1
          ELSE Cardinality(Queries(s))
    BY <1>7, <2>1, <2>3, <2>4 DEF QueriesAfterPacket, Decrease
  <2>7. QED
    BY <1>8, <2>2, <2>5, <2>6
<1>10. \A t \in Servers \ {s} : query_count'[t] = query_count[t] /\ Queries(t)' = Queries(t)
  BY <1>2, <1>5 DEF IInv, TypeOK
<1>11. \A t \in Servers : active'[t] => CountsExact(t)'
  <2> SUFFICES ASSUME NEW t \in Servers, active[t] PROVE CountsExact(t)'
    BY <1>2
  <2>1. CountsExact(t) /\ InUse(t)' = InUse(t) /\ capacity'[t] = capacity[t]
    BY <1>2, <1>6 DEF CInv
  <2>2. query_count'[t] = Cardinality(Queries(t)')
    BY <1>9, <1>10, <2>1 DEF CountsExact
  <2>3. Count(t)' <= capacity'[t]
    BY <2>1 DEF CountsExact, Count
  <2>4. QED
    BY <2>2, <2>3 DEF CountsExact
<1>12. \A t \in Servers : Queries(t)' \subseteq Queries(t)
  BY <1>8, <1>10
<1>13. QED
  BY <1>11, <1>12 DEF CInv

\* A reply changes only when its session was last active.
LEMMA ReplyCounts ==
  ASSUME IInv, CInv, NEW e \in events, NEW s \in Servers, NEW c \in Clients, NEW y,
         ReplyRelayed(e, s, c, y)
  PROVE  /\ CInv'
         /\ \A t \in Servers : Queries(t)' \subseteq Queries(t)
<1> DEFINE x == [relay_fd |-> e.fd, is_query |-> sessions[s][c].is_query, last_activity |-> now]
<1>1. c \in InUse(s) /\ sessions[s][c].relay_fd = e.fd
  BY DEF ReplyRelayed, SessionsOn
<1>2. sessions' = WithSession(s, c, x) /\ UNCHANGED <<active, query_count, capacity>>
  BY DEF ReplyRelayed, RelayEvent
<1>3. sessions[s][c] \in Session
  BY DEF IInv, TypeOK
<1>4. x.relay_fd # NoFd /\ x.is_query \in BOOLEAN /\ x.is_query = sessions[s][c].is_query
  BY <1>1, <1>3 DEF InUse, Session
<1> HIDE DEF x
<1>5. \A t \in Servers :
        /\ InUse(t)' = IF t = s THEN InUse(s) \cup {c} ELSE InUse(t)
        /\ Queries(t)' = IF t # s THEN Queries(t)
                         ELSE IF x.is_query THEN Queries(s) \cup {c} ELSE Queries(s) \ {c}
  BY <1>2, <1>4, SessionSet
<1>6. c \in Queries(s) <=> x.is_query
  BY <1>1, <1>4 DEF Queries
<1>7. \A t \in Servers : InUse(t)' = InUse(t) /\ Queries(t)' = Queries(t)
  BY <1>1, <1>5, <1>6
<1>8. QED
  BY <1>2, <1>7 DEF CInv, CountsExact, Count

\* A new session: there was room in the map, and a query is counted.
LEMMA NewClientCounts ==
  ASSUME IInv, CInv, NEW e \in events, NEW s \in Servers, NEW d \in inbox[e.fd],
         NewClientAccepted(e, s, d)
  PROVE  /\ CInv'
         /\ \A t \in Servers \ {s} : Queries(t)' = Queries(t)
         /\ Cardinality(Queries(s)') =
              IF d.body = "query" THEN Cardinality(Queries(s)) + 1 ELSE Cardinality(Queries(s))
<1> DEFINE c == d.from
           x == [relay_fd |-> Min(FreeFds), is_query |-> d.body = "query", last_activity |-> now]
<1>1. /\ active[s] /\ c \notin InUse(s) /\ FreeFds # {} /\ Count(s) < capacity[s]
      /\ sessions' = WithSession(s, c, x)
      /\ query_count' = [query_count EXCEPT ![s] = IF d.body = "query" THEN @ + 1 ELSE @]
      /\ UNCHANGED <<active, capacity>>
      /\ e.fd = listen_fd[s]
  BY DEF NewClientAccepted, FromClient
<1>2. c \in Clients
  <2>1. e.fd \in Fds /\ owner[e.fd] = ListenSocket(s)
    BY <1>1 DEF IInv, DescriptorsExact, ServersOwnTheirSockets
  <2>2. d \in Datagrams
    BY <2>1, SocketKinds DEF IInv, InboxesMatch
  <2>3. QED
    BY <2>2 DEF Datagrams, Datagram
<1>3. Min(FreeFds) \in Nat
  BY <1>1, LowestFree, FdsAssumption
<1>4. x.relay_fd # NoFd /\ x.is_query \in BOOLEAN /\ x.is_query = (d.body = "query")
  BY <1>3 DEF NoFd
<1> HIDE DEF x
<1>5. \A t \in Servers :
        /\ InUse(t)' = IF t = s THEN InUse(s) \cup {c} ELSE InUse(t)
        /\ Queries(t)' = IF t # s THEN Queries(t)
                         ELSE IF x.is_query THEN Queries(s) \cup {c} ELSE Queries(s) \ {c}
  BY <1>1, <1>2, <1>4, SessionSet
<1>6. c \notin Queries(s)
  BY <1>1 DEF Queries
<1>7. /\ IsFiniteSet(Queries(s)) /\ IsFiniteSet(InUse(s))
      /\ Cardinality(Queries(s)) \in Nat /\ Cardinality(InUse(s)) \in Nat
  BY SessionSets
<1>8. Cardinality(InUse(s)') = Cardinality(InUse(s)) + 1
  BY <1>1, <1>5, <1>7, FS_AddElement
<1>9. Cardinality(Queries(s)') =
        IF d.body = "query" THEN Cardinality(Queries(s)) + 1 ELSE Cardinality(Queries(s))
  <2>1. CASE d.body = "query"
    <3>1. Cardinality(Queries(s) \cup {c}) = Cardinality(Queries(s)) + 1
      BY <1>6, <1>7, FS_AddElement
    <3>2. Queries(s)' = Queries(s) \cup {c}
      BY <1>4, <1>5, <2>1
    <3>3. QED
      BY <2>1, <3>1, <3>2
  <2>2. CASE d.body # "query"
    BY <1>4, <1>5, <1>6, <2>2, Queries(s) \ {c} = Queries(s)
  <2>3. QED
    BY <2>1, <2>2
<1>10. CountsExact(s)'
  <2>1. CountsExact(s) /\ capacity[s] \in Nat
    BY <1>1 DEF CInv, IInv, TypeOK
  <2>2. Count(s)' <= capacity'[s]
    BY <1>1, <1>7, <1>8, <2>1 DEF Count
  <2>3. query_count'[s] = Cardinality(Queries(s)')
    BY <1>1, <1>9, <2>1 DEF CountsExact, IInv, TypeOK
  <2>4. QED
    BY <2>2, <2>3 DEF CountsExact
<1>11. \A t \in Servers \ {s} : active'[t] => CountsExact(t)'
  BY <1>1, <1>5 DEF CInv, CountsExact, Count, IInv, TypeOK
<1>12. QED
  BY <1>5, <1>9, <1>10, <1>11 DEF CInv

\* Sessions that an administrator or a sweep removes, of any servers.
LEMMA RemovalCounts ==
  ASSUME IInv, CInv, NEW D \in [Servers -> SUBSET Clients],
         sessions' = [t \in Servers |-> [d \in Clients |->
                        IF d \in D[t] THEN NoSession ELSE sessions[t][d]]],
         \A t \in Servers : query_count'[t] = CountedDown(t, D[t]),
         UNCHANGED <<active, capacity>>
  PROVE  /\ CInv'
         /\ \A t \in Servers : active[t] =>
              Cardinality(Queries(t)') <= Cardinality(Queries(t))
<1>1. \A t \in Servers : /\ InUse(t)' = InUse(t) \ D[t]
                         /\ Queries(t)' = Queries(t) \ D[t]
  BY SessionsDropped
<1>2. ASSUME NEW t \in Servers, active[t]
      PROVE  CountsExact(t)' /\ Cardinality(Queries(t)') <= Cardinality(Queries(t))
  <2>1. CountsExact(t) /\ capacity[t] \in Nat
    BY <1>2 DEF CInv, IInv, TypeOK
  <2>2. QED
    BY <1>1, <2>1, CountingDown
<1>3. QED
  BY <1>2 DEF CInv

LEMMA KickCounts ==
  ASSUME IInv, CInv, NEW e \in events, NEW m \in Commands,
         HandleKick(e, m) \/ HandleKickAll(e, m)
  PROVE  /\ CInv'
         /\ \A t \in Servers : active[t] =>
              Cardinality(Queries(t)') <= Cardinality(Queries(t))
<1> DEFINE s == m.server
<1>1. s \in Servers /\ (m.cmd = "kick" => m.client \in Clients)
  BY CommandShape DEF HandleKick, HandleKickAll
<1>2. PICK C \in SUBSET Clients : RemoveSessions(s, C, Read(e.fd, Line(m)))
  BY <1>1 DEF HandleKick, HandleKickAll, InUse
<1>3. UNCHANGED <<active, capacity>>
  BY DEF HandleKick, HandleKickAll
<1> DEFINE D == [t \in Servers |-> IF t = s THEN C ELSE {}]
<1>4. D \in [Servers -> SUBSET Clients]
  OBVIOUS
<1>5. sessions' = [t \in Servers |-> [d \in Clients |->
                     IF d \in D[t] THEN NoSession ELSE sessions[t][d]]]
  <2>1. sessions' = [t \in Servers |-> [d \in Clients |->
                       IF t = s /\ d \in C THEN NoSession ELSE sessions[t][d]]]
    BY <1>2 DEF RemoveSessions, WithoutSessions
  <2>2. \A t \in Servers : \A d : (t = s /\ d \in C) <=> d \in D[t]
    OBVIOUS
  <2> HIDE DEF D
  <2>3. QED
    BY <2>1, <2>2
<1>6. \A t \in Servers : query_count'[t] = CountedDown(t, D[t])
  <2>1. query_count' = [query_count EXCEPT ![s] = CountedDown(s, C)]
    BY <1>2 DEF RemoveSessions
  <2>2. ASSUME NEW t \in Servers PROVE CountedDown(t, {}) = query_count[t]
    <3>1. {} \cap Queries(t) = {} /\ query_count[t] \in Nat
      BY DEF IInv, TypeOK
    <3>2. QED
      BY <3>1, FS_EmptySet DEF CountedDown, Decrease
  <2>3. QED
    BY <1>1, <2>1, <2>2 DEF IInv, TypeOK
<1> HIDE DEF D
<1>7. QED
  BY <1>3, <1>4, <1>5, <1>6, RemovalCounts

LEMMA HousekeepingCounts ==
  ASSUME IInv, CInv, Housekeeping
  PROVE  /\ CInv'
         /\ \A t \in Servers : active[t] =>
              Cardinality(Queries(t)') <= Cardinality(Queries(t))
<1> DEFINE D == [t \in Servers |-> IF SweepDue(t) THEN Expired(t) ELSE {}]
<1>1. D \in [Servers -> SUBSET Clients]
  BY DEF Expired, InUse
<1>2. sessions' = [t \in Servers |-> [d \in Clients |->
                     IF d \in D[t] THEN NoSession ELSE sessions[t][d]]]
  BY DEF Housekeeping
<1>3. \A t \in Servers : query_count'[t] = CountedDown(t, D[t])
  BY DEF Housekeeping
<1>4. UNCHANGED <<active, capacity>>
  BY DEF Housekeeping
<1> HIDE DEF D
<1>5. QED
  BY <1>1, <1>2, <1>3, <1>4, RemovalCounts

\* Servers that come and go.
LEMMA RemoveServerCounts ==
  ASSUME IInv, CInv, NEW e \in events, NEW m \in Commands, HandleRemoveServer(e, m)
  PROVE  /\ CInv'
         /\ \A t \in Servers \ {m.server} : Queries(t)' = Queries(t)
         /\ ~active'[m.server]
<1> DEFINE s == m.server
<1>1. s \in Servers
  BY CommandShape DEF HandleRemoveServer
<1>2. /\ active' = [active EXCEPT ![s] = FALSE]
      /\ capacity' = [capacity EXCEPT ![s] = 0]
      /\ query_count' = query_count
      /\ sessions' = [t \in Servers |-> [d \in Clients |->
                        IF t = s /\ d \in Clients THEN NoSession ELSE sessions[t][d]]]
  BY DEF HandleRemoveServer, SessionsDestroyed, WithoutSessions
<1>3. \A t \in Servers \ {s} : InUse(t)' = InUse(t) /\ Queries(t)' = Queries(t)
  BY <1>2 DEF InUse, Queries
<1>4. \A t \in Servers : active'[t] => active[t] /\ t # s /\ capacity'[t] = capacity[t]
  BY <1>1, <1>2 DEF IInv, TypeOK
<1>5. QED
  BY <1>1, <1>2, <1>3, <1>4 DEF CInv, CountsExact, Count, IInv, TypeOK

\* An inactive slot has no sessions that its next server could inherit.
LEMMA AddServerCounts ==
  ASSUME IInv, CInv, NEW e \in events, NEW m \in Commands,
         HandleAddServer(e, m) \/ AddServerFailed(e, m)
  PROVE  /\ CInv'
         /\ \A t \in Servers : Queries(t)' = Queries(t)
         /\ Queries(Min(FreeSlots)) = {}
<1>1. PICK s \in Servers : s = Min(FreeSlots) /\ ~active[s]
  BY LowestSlot DEF HandleAddServer, AddServerFailed
<1>2. sessions' = sessions /\ query_count' = [query_count EXCEPT ![s] = 0]
  BY <1>1 DEF HandleAddServer, AddServerFailed, Wiped
<1>3. \A t \in Servers : InUse(t)' = InUse(t) /\ Queries(t)' = Queries(t)
  BY <1>2 DEF InUse, Queries
<1>4. InUse(s) = {} /\ Queries(s) = {}
  BY <1>1 DEF IInv, DescriptorsExact, ServersOwnTheirSockets, Queries
<1>5. /\ active'[s] => capacity'[s] \in Nat
      /\ \A t \in Servers \ {s} : active'[t] = active[t] /\ capacity'[t] = capacity[t]
  <2>1. CASE HandleAddServer(e, m)
    <3>1. capacity' = [capacity EXCEPT ![s] = MapCapacity(m.config)] /\ m.cmd = "add_server"
      BY <1>1, <2>1 DEF HandleAddServer
    <3>2. active' = [active EXCEPT ![s] = TRUE]
      BY <1>1, <2>1 DEF HandleAddServer
    <3>3. MapCapacity(m.config) \in Nat
      BY <3>1, CommandShape, Capacities
    <3>4. QED
      BY <1>1, <3>1, <3>2, <3>3 DEF IInv, TypeOK
  <2>2. CASE AddServerFailed(e, m)
    BY <1>1, <2>2 DEF AddServerFailed, IInv, TypeOK
  <2>3. QED
    BY <2>1, <2>2
<1>6. active'[s] => CountsExact(s)'
  <2>1. query_count'[s] = 0
    BY <1>1, <1>2 DEF IInv, TypeOK
  <2>2. InUse(s)' = {} /\ Queries(s)' = {}
    BY <1>1, <1>3, <1>4
  <2>3. Cardinality({}) = 0
    BY FS_EmptySet
  <2>4. query_count'[s] = Cardinality(Queries(s)')
    BY <2>1, <2>2, <2>3
  <2>5. active'[s] => Count(s)' <= capacity'[s]
    BY <1>5, <2>2, <2>3 DEF Count
  <2>6. QED
    BY <2>4, <2>5 DEF CountsExact
<1>7. \A t \in Servers \ {s} : active'[t] => CountsExact(t)'
  BY <1>2, <1>3, <1>5 DEF CInv, CountsExact, Count, IInv, TypeOK
<1>8. CInv'
  BY <1>6, <1>7 DEF CInv
<1>9. QED
  BY <1>1, <1>3, <1>4, <1>8

\* Steps that touch neither sessions, counters nor the set of servers.
QuietEvent(e) ==
  \/ SkipRemoved(e) \/ NothingUsable(e) \/ MgmtAccept(e) \/ MgmtNotAccepted(e) \/ MgmtHangup(e)
  \/ \E s \in Servers : NothingReceived(e, s)
  \/ \E s \in Servers, x \in inbox[e.fd] : DropPacket(e, s, x) \/ ReplyUnclaimed(e, s, x)
  \/ \E m \in Commands : HandleWithoutEffect(e, m)

LEMMA QuietSteps ==
  ASSUME NEW e \in events, QuietEvent(e) \/ \E m \in Commands : HandleSet(e, m) \/ HandleSetMaster(e, m)
  PROVE  UNCHANGED <<active, sessions, query_count, capacity>>
BY DEF QuietEvent, SkipRemoved, NothingUsable, MgmtAccept, MgmtNotAccepted, MgmtHangup,
       NothingReceived, DropPacket, ReplyUnclaimed, RelayEvent, HandleWithoutEffect,
       HandleSet, HandleSetMaster, serverVars

LEMMA QuietLoop ==
  ASSUME EpollWait \/ Environment \/ Tick \/ UNCHANGED vars
  PROVE  UNCHANGED serverVars
BY DEF EpollWait, Environment, ClientSends, ServerReplies, AdminConnects, AdminSends,
       AdminHangsUp, Arrives, Signal, Tick, vars

LEMMA StepCounts ==
  ASSUME IInv, CInv, [Next]_vars
  PROVE  CInv'
<1>1. CASE EpollWait \/ Environment \/ Tick \/ UNCHANGED vars
  BY <1>1, QuietLoop, QuietCounts DEF serverVars
<1>2. ASSUME NEW e \in events, ServerEvent(e)
      PROVE  CInv'
  <2>1. CASE QuietEvent(e)
    BY <2>1, QuietSteps, QuietCounts
  <2>2. ASSUME NEW s \in Servers, NEW d \in inbox[e.fd],
               KnownClient(e, s, d) \/ NewClientAccepted(e, s, d)
        PROVE  CInv'
    BY <2>2, KnownClientCounts, NewClientCounts
  <2>3. ASSUME NEW s \in Servers, NEW c \in Clients, NEW x \in inbox[e.fd],
               ReplyRelayed(e, s, c, x)
        PROVE  CInv'
    BY <2>3, ReplyCounts
  <2>4. QED
    BY <1>2, <2>1, <2>2, <2>3 DEF ServerEvent, QuietEvent, NewClientRefused, ConnectFailed
<1>3. ASSUME NEW e \in events, MgmtStep(e)
      PROVE  CInv'
  <2>1. CASE QuietEvent(e) \/ \E m \in Commands : HandleSet(e, m) \/ HandleSetMaster(e, m)
    BY <2>1, QuietSteps, QuietCounts
  <2>2. ASSUME NEW m \in Commands, HandleKick(e, m) \/ HandleKickAll(e, m)
        PROVE  CInv'
    BY <2>2, KickCounts
  <2>3. ASSUME NEW m \in Commands,
               HandleAddServer(e, m) \/ AddServerFailed(e, m) \/ HandleRemoveServer(e, m)
        PROVE  CInv'
    BY <2>3, AddServerCounts, RemoveServerCounts
  <2>4. QED
    BY <1>3, <2>1, <2>2, <2>3 DEF MgmtStep, QuietEvent
<1>4. CASE Housekeeping
  BY <1>4, HousekeepingCounts
<1>5. CASE Shutdown
  BY <1>5 DEF Shutdown, CInv
<1>6. QED
  BY <1>1, <1>2, <1>3, <1>4, <1>5 DEF Next, Loop

\* query_count is the number of query sessions of every active server: both
\* pools are limited by what they really hold (relay.c:585-593, 663).
THEOREM CountersCorrect == Spec => []QueryCountExact
<1>1. Init => CInv
  BY InitCounts
<1>2. IInv /\ IInv' /\ CInv /\ [Next]_vars => CInv'
  BY StepCounts
<1>3. CInv => QueryCountExact
  BY DEF CInv, CountsExact, QueryCountExact
<1>4. QED
  BY <1>1, <1>2, <1>3, Invariance, PTL DEF Spec

-----------------------------------------------------------------------------
(* The limits, while no command tunes them.                                 *)

LEMMA LimitsAreNumbers ==
  ASSUME TypeOK, NEW s \in Servers
  PROVE  /\ cfg[s].max_clients \in Nat /\ cfg[s].max_query_sessions \in Nat
         /\ cfg[s].max_new_per_sec \in Nat
<1>1. cfg[s] \in Config
  BY DEF TypeOK
<1>2. /\ cfg[s].max_clients \in PoolSizes /\ cfg[s].max_query_sessions \in PoolSizes
      /\ cfg[s].max_new_per_sec \in Nat \ {0}
  BY <1>1 DEF Config
<1>3. PoolSizes \subseteq Nat
  BY DEF PoolSizes
<1>4. QED
  BY <1>2, <1>3

LEMMA TuningKeepsLimits ==
  ASSUME IInv, NoLimitTuned, NEW e \in events, NEW m \in Commands,
         HandleSet(e, m) \/ HandleSetMaster(e, m)
  PROVE  \A t \in Servers : /\ cfg'[t].max_clients = cfg[t].max_clients
                            /\ cfg'[t].max_query_sessions = cfg[t].max_query_sessions
                            /\ cfg'[t].max_new_per_sec = cfg[t].max_new_per_sec
<1>1. CASE HandleSet(e, m)
  <2>1. m.key \notin Limits
    BY <1>1 DEF HandleSet, NoLimitTuned
  <2>2. \A c : /\ Tuned(c, m.key, m.value).max_clients = c.max_clients
               /\ Tuned(c, m.key, m.value).max_query_sessions = c.max_query_sessions
               /\ Tuned(c, m.key, m.value).max_new_per_sec = c.max_new_per_sec
    BY <2>1 DEF Tuned, Limits
  <2>3. cfg' = [cfg EXCEPT ![m.server] = Tuned(cfg[m.server], m.key, m.value)]
    BY <1>1 DEF HandleSet
  <2>4. QED
    BY <2>2, <2>3 DEF IInv, TypeOK
<1>2. CASE HandleSetMaster(e, m)
  <2>1. cfg' = [cfg EXCEPT ![m.server] = [cfg[m.server] EXCEPT !.master_count = m.masters]]
    BY <1>2 DEF HandleSetMaster
  <2>2. cfg \in [Servers -> Config] /\ m.server \in Servers
    BY <1>2, CommandShape DEF HandleSetMaster, IInv, TypeOK
  <2>3. ASSUME NEW t \in Servers
        PROVE  /\ cfg'[t].max_clients = cfg[t].max_clients
               /\ cfg'[t].max_query_sessions = cfg[t].max_query_sessions
               /\ cfg'[t].max_new_per_sec = cfg[t].max_new_per_sec
    <3>1. cfg[t] \in Config
      BY <2>2
    <3>2. cfg'[t] = IF t = m.server THEN [cfg[t] EXCEPT !.master_count = m.masters] ELSE cfg[t]
      BY <2>1, <2>2
    <3>3. QED
      BY <3>1, <3>2 DEF Config
  <2>4. QED
    BY <2>3
<1>3. QED
  BY <1>1, <1>2

\* What keeps the pools of the servers that stay.
LEMMA PoolsKept ==
  ASSUME IInv, LInv, TypeOK',
         \A t \in Servers : active'[t] =>
           /\ active[t] /\ capacity'[t] = capacity[t]
           /\ cfg'[t].max_clients = cfg[t].max_clients
           /\ cfg'[t].max_query_sessions = cfg[t].max_query_sessions
           /\ Cardinality(Queries(t)') <= Cardinality(Queries(t))
  PROVE  LInv'
<1> SUFFICES ASSUME NEW t \in Servers, active'[t] PROVE PoolsFit(t)'
  BY DEF LInv
<1>1. PoolsFit(t)
  BY DEF LInv
<1>2. cfg[t].max_query_sessions \in Nat
  BY LimitsAreNumbers DEF IInv
<1>3. Cardinality(Queries(t)) \in Nat /\ Cardinality(Queries(t)') \in Nat
  <2>1. Queries(t)' \in SUBSET Clients
    BY DEF Queries, InUse
  <2>2. QED
    BY <2>1, SessionSets, FS_Subset, FS_CardinalityType, ClientsAssumption
<1>4. QED
  BY <1>1, <1>2, <1>3 DEF PoolsFit, MapCapacity

LEMMA SubsetCount ==
  ASSUME NEW s \in Servers, Queries(s)' \subseteq Queries(s)
  PROVE  Cardinality(Queries(s)') <= Cardinality(Queries(s))
BY SessionSets, FS_Subset

LEMMA QuietQueries ==
  ASSUME sessions' = sessions
  PROVE  \A s \in Servers : Cardinality(Queries(s)') <= Cardinality(Queries(s))
<1>1. \A s \in Servers : Queries(s)' = Queries(s)
  BY DEF Queries, InUse
<1>2. QED
  BY <1>1, SessionSets

LEMMA InitPools == Init => LInv
<1> SUFFICES ASSUME Init, NEW s \in Servers, active[s] PROVE PoolsFit(s)
  BY DEF LInv
<1>1. Queries(s) = {}
  BY DEF Init, InUse, NoSession, Queries
<1>2. /\ s \in DOMAIN Startup /\ capacity[s] = MapCapacity(Startup[s])
      /\ cfg[s] = Startup[s]
  BY DEF Init
<1>3. cfg[s].max_query_sessions \in PoolSizes
  BY <1>2, StartupAssumption DEF Config
<1>4. QED
  BY <1>1, <1>2, <1>3, FS_EmptySet DEF PoolsFit, PoolSizes

\* A session is only added below the limit of its pool.
LEMMA NewClientPools ==
  ASSUME IInv, CInv, LInv, NEW e \in events, NEW s \in Servers, NEW d \in inbox[e.fd],
         NewClientAccepted(e, s, d)
  PROVE  LInv'
<1>1. /\ active[s] /\ Admissible(s, d)
      /\ UNCHANGED <<active, cfg, capacity>>
  BY DEF NewClientAccepted, FromClient
<1>2. /\ \A t \in Servers \ {s} : Queries(t)' = Queries(t)
      /\ Cardinality(Queries(s)') =
           IF d.body = "query" THEN Cardinality(Queries(s)) + 1 ELSE Cardinality(Queries(s))
  BY NewClientCounts
<1>3. query_count[s] = Cardinality(Queries(s)) /\ PoolsFit(s)
  BY <1>1 DEF CInv, CountsExact, LInv
<1>4. cfg[s].max_query_sessions \in Nat /\ Cardinality(Queries(s)) \in Nat
  BY SessionSets, LimitsAreNumbers DEF IInv
<1>5. Cardinality(Queries(s)') <= cfg[s].max_query_sessions
  BY <1>1, <1>2, <1>3, <1>4 DEF Admissible, PoolsFit
<1>6. ASSUME NEW t \in Servers, active'[t] PROVE PoolsFit(t)'
  <2>1. PoolsFit(t)
    BY <1>1, <1>6 DEF LInv
  <2>2. Cardinality(Queries(t)') <= cfg[t].max_query_sessions
    BY <1>2, <1>5, <2>1 DEF PoolsFit
  <2>3. QED
    BY <1>1, <2>1, <2>2 DEF PoolsFit
<1>7. QED
  BY <1>6 DEF LInv

LEMMA AddServerPools ==
  ASSUME IInv, CInv, LInv, NEW e \in events, NEW m \in Commands,
         HandleAddServer(e, m) \/ AddServerFailed(e, m)
  PROVE  LInv'
<1>1. PICK s \in Servers : s = Min(FreeSlots) /\ ~active[s]
  BY LowestSlot DEF HandleAddServer, AddServerFailed
<1>2. /\ cfg' = [cfg EXCEPT ![s] = m.config] /\ m.config \in Config
      /\ \A t \in Servers \ {s} : active'[t] = active[t] /\ capacity'[t] = capacity[t]
      /\ active'[s] => capacity'[s] = MapCapacity(m.config)
  BY <1>1, CommandShape DEF HandleAddServer, AddServerFailed, Wiped, IInv, TypeOK
<1>3. \A t \in Servers : Queries(t)' = Queries(t)
  BY AddServerCounts
<1>4. Queries(s) = {}
  BY <1>1, AddServerCounts
<1>5. active'[s] => PoolsFit(s)'
  <2>1. cfg'[s] = m.config /\ m.config.max_query_sessions \in PoolSizes
    BY <1>1, <1>2 DEF IInv, TypeOK, Config
  <2>2. Cardinality(Queries(s)') = 0
    BY <1>3, <1>4, FS_EmptySet
  <2>3. QED
    BY <1>2, <2>1, <2>2 DEF PoolsFit, PoolSizes
<1>6. \A t \in Servers \ {s} : active'[t] => PoolsFit(t)'
  BY <1>2, <1>3 DEF LInv, PoolsFit, IInv, TypeOK
<1>7. QED
  BY <1>5, <1>6 DEF LInv

LEMMA StepPools ==
  ASSUME IInv, IInv', CInv, LInv, NoLimitTuned, [Next]_vars
  PROVE  LInv'
<1> DEFINE Kept == \A t \in Servers : active'[t] =>
             /\ active[t] /\ capacity'[t] = capacity[t]
             /\ cfg'[t].max_clients = cfg[t].max_clients
             /\ cfg'[t].max_query_sessions = cfg[t].max_query_sessions
             /\ Cardinality(Queries(t)') <= Cardinality(Queries(t))
<1>1. Kept => LInv'
  BY PoolsKept DEF IInv
<1>2. CASE EpollWait \/ Environment \/ Tick \/ UNCHANGED vars
  BY <1>1, <1>2, QuietLoop, QuietQueries DEF serverVars
<1>3. ASSUME NEW e \in events, ServerEvent(e)
      PROVE  LInv'
  <2>1. CASE QuietEvent(e)
    <3>1. UNCHANGED <<active, sessions, cfg, capacity>>
      BY <2>1 DEF QuietEvent, SkipRemoved, NothingUsable, MgmtAccept, MgmtNotAccepted, MgmtHangup,
              NothingReceived, DropPacket, ReplyUnclaimed, RelayEvent, HandleWithoutEffect, serverVars
    <3>2. QED
      BY <1>1, <3>1, QuietQueries
  <2>2. ASSUME NEW s \in Servers, NEW d \in inbox[e.fd], KnownClient(e, s, d)
        PROVE  LInv'
    <3>1. UNCHANGED <<active, cfg, capacity>>
      BY <2>2 DEF KnownClient
    <3>2. \A t \in Servers : Cardinality(Queries(t)') <= Cardinality(Queries(t))
      BY <2>2, KnownClientCounts, SubsetCount
    <3>3. QED
      BY <1>1, <3>1, <3>2
  <2>3. ASSUME NEW s \in Servers, NEW c \in Clients, NEW x \in inbox[e.fd],
               ReplyRelayed(e, s, c, x)
        PROVE  LInv'
    <3>1. UNCHANGED <<active, cfg, capacity>>
      BY <2>3 DEF ReplyRelayed, RelayEvent
    <3>2. \A t \in Servers : Cardinality(Queries(t)') <= Cardinality(Queries(t))
      BY <2>3, ReplyCounts, SubsetCount
    <3>3. QED
      BY <1>1, <3>1, <3>2
  <2>4. ASSUME NEW s \in Servers, NEW d \in inbox[e.fd], NewClientAccepted(e, s, d)
        PROVE  LInv'
    BY <2>4, NewClientPools
  <2>5. QED
    BY <1>3, <2>1, <2>2, <2>3, <2>4 DEF ServerEvent, QuietEvent, NewClientRefused, ConnectFailed
<1>4. ASSUME NEW e \in events, MgmtStep(e)
      PROVE  LInv'
  <2>1. CASE QuietEvent(e)
    <3>1. UNCHANGED <<active, sessions, cfg, capacity>>
      BY <2>1 DEF QuietEvent, SkipRemoved, NothingUsable, MgmtAccept, MgmtNotAccepted, MgmtHangup,
              NothingReceived, DropPacket, ReplyUnclaimed, RelayEvent, HandleWithoutEffect, serverVars
    <3>2. QED
      BY <1>1, <3>1, QuietQueries
  <2>2. ASSUME NEW m \in Commands, HandleSet(e, m) \/ HandleSetMaster(e, m)
        PROVE  LInv'
    BY <1>1, <2>2, TuningKeepsLimits, QuietSteps, QuietQueries
  <2>3. ASSUME NEW m \in Commands, HandleKick(e, m) \/ HandleKickAll(e, m)
        PROVE  LInv'
    <3>1. UNCHANGED <<active, cfg, capacity>>
      BY <2>3 DEF HandleKick, HandleKickAll
    <3>2. QED
      BY <1>1, <2>3, <3>1, KickCounts
  <2>4. ASSUME NEW m \in Commands, HandleAddServer(e, m) \/ AddServerFailed(e, m)
        PROVE  LInv'
    BY <2>4, AddServerPools
  <2>5. ASSUME NEW m \in Commands, HandleRemoveServer(e, m)
        PROVE  LInv'
    <3>1. /\ active' = [active EXCEPT ![m.server] = FALSE]
          /\ capacity' = [capacity EXCEPT ![m.server] = 0]
          /\ cfg' = cfg
      BY <2>5 DEF HandleRemoveServer
    <3>2. m.server \in Servers /\ \A t \in Servers \ {m.server} : Queries(t)' = Queries(t)
      BY <2>5, RemoveServerCounts, CommandShape DEF HandleRemoveServer
    <3>3. QED
      BY <1>1, <3>1, <3>2, SubsetCount DEF IInv, TypeOK
  <2>6. QED
    BY <1>4, <2>1, <2>2, <2>3, <2>4, <2>5 DEF MgmtStep, QuietEvent
<1>5. CASE Housekeeping
  <2>1. UNCHANGED <<active, cfg, capacity>>
    BY <1>5 DEF Housekeeping
  <2>2. QED
    BY <1>1, <1>5, <2>1, HousekeepingCounts
<1>6. CASE Shutdown
  BY <1>6 DEF Shutdown, LInv
<1>7. QED
  BY <1>2, <1>3, <1>4, <1>5, <1>6 DEF Next, Loop

\* No map holds more sessions than it was made for, and no server more queries
\* than it allows, as long as no administrator tunes the limits (the map keeps its
\* size, hashmap.c:88-117): what is promoted leaves the one pool for the other.
THEOREM PoolsCorrect ==
  ASSUME NoLimitTuned
  PROVE  Spec => []PoolsBounded
<1>1. Init => CInv /\ LInv
  BY InitCounts, InitPools
<1>2. IInv /\ IInv' /\ CInv /\ LInv /\ [Next]_vars => (CInv /\ LInv)'
  BY StepCounts, StepPools
<1>3. CInv /\ LInv => PoolsBounded
  BY DEF CInv, LInv, CountsExact, PoolsFit, PoolsBounded
<1>4. QED
  BY <1>1, <1>2, <1>3, Invariance, PTL DEF Spec

\* A full map never keeps a player out while there are fewer than max_clients, as
\* long as no administrator tunes the limits.
THEOREM MapNeverBinds ==
  ASSUME NoLimitTuned
  PROVE  Spec => []MapNotBinding
<1>1. Init => CInv /\ LInv
  BY InitCounts, InitPools
<1>2. IInv /\ IInv' /\ CInv /\ LInv /\ [Next]_vars => (CInv /\ LInv)'
  BY StepCounts, StepPools
<1>3. IInv /\ CInv /\ LInv => MapNotBinding
  <2> SUFFICES ASSUME IInv, CInv, LInv, NEW s \in Servers, active[s], Count(s) >= capacity[s]
               PROVE  Cardinality(InUse(s) \ Queries(s)) >= cfg[s].max_clients
    BY DEF MapNotBinding
  <2>1. /\ Queries(s) \subseteq InUse(s) /\ IsFiniteSet(InUse(s))
        /\ Cardinality(Queries(s)) \in Nat /\ Cardinality(InUse(s)) \in Nat
    BY SessionSets
  <2>2. InUse(s) \cap Queries(s) = Queries(s)
    BY <2>1
  <2>3. Cardinality(InUse(s) \ Queries(s)) = Cardinality(InUse(s)) - Cardinality(Queries(s))
    BY <2>1, <2>2, FS_Difference
  <2>4. cfg[s].max_clients \in Nat /\ cfg[s].max_query_sessions \in Nat
    BY LimitsAreNumbers DEF IInv
  <2>5. PoolsFit(s)
    BY DEF LInv
  <2>6. QED
    BY <2>1, <2>3, <2>4, <2>5 DEF PoolsFit, MapCapacity, Count
<1>4. QED
  BY <1>1, <1>2, <1>3, Invariance, PTL DEF Spec

-----------------------------------------------------------------------------
(* The rate limiter.                                                        *)

LEMMA InitTokens == Init => RInv
<1> SUFFICES ASSUME Init, NEW s \in Servers PROVE TokensCover(s)
  BY DEF RInv
<1>1. IInv
  BY InitEstablishes
<1>2. rate_limiter[s].count = 0 /\ admitted[s] = 0
  BY DEF Init
<1>3. cfg[s].max_new_per_sec \in Nat
  BY <1>1, LimitsAreNumbers DEF IInv
<1>4. QED
  BY <1>2, <1>3 DEF TokensCover

\* Steps that leave limiter and clock alone, and admit no player.
LEMMA TokensKept ==
  ASSUME RInv, UNCHANGED <<rate_limiter, admitted, clock>>,
         \A t \in Servers : cfg'[t].max_new_per_sec = cfg[t].max_new_per_sec
  PROVE  RInv'
BY DEF RInv, TokensCover

\* A player who is admitted takes a token, one who is not may, too; a query takes none.
LEMMA TokenTakenOrNot ==
  ASSUME IInv, RInv, NEW s \in Servers, NEW d, rate_limiter' = LimiterAfter(s, d),
         UNCHANGED <<cfg, clock>>,
         admitted' = admitted \/ /\ d.body # "query" /\ HasToken(s)
                                 /\ admitted' = [admitted EXCEPT ![s] = @ + 1]
  PROVE  RInv'
<1>1. /\ rate_limiter \in [Servers -> [window_start : Nat, count : Nat]]
      /\ admitted \in [Servers -> Nat] /\ clock \in Nat
  BY TimeAssumption DEF IInv, TypeOK
<1>2. cfg[s].max_new_per_sec \in Nat
  BY LimitsAreNumbers DEF IInv
<1>3. TokensCover(s)
  BY DEF RInv
<1>4. \A t \in Servers \ {s} : rate_limiter'[t] = rate_limiter[t] /\ admitted'[t] = admitted[t]
  BY <1>1 DEF LimiterAfter
<1>5. TokensCover(s)'
  <2>1. CASE d.body = "query"
    BY <1>3, <2>1 DEF LimiterAfter, TokensCover
  <2>2. CASE d.body # "query" /\ ~HasToken(s)
    <3>1. rate_limiter'[s] = Refilled(s) /\ admitted'[s] = admitted[s]
      BY <1>1, <2>2 DEF LimiterAfter
    <3>2. QED
      BY <1>1, <1>2, <1>3, <3>1 DEF TokensCover, Refilled
  <2>3. CASE d.body # "query" /\ HasToken(s)
    <3>1. rate_limiter'[s] = TokenTaken(s)
      BY <1>1, <2>3 DEF LimiterAfter
    <3>2. admitted'[s] \in {admitted[s], admitted[s] + 1}
      BY <1>1
    <3>3. Refilled(s) \in [window_start : Nat, count : Nat]
      BY <1>1 DEF Refilled
    <3>4. /\ rate_limiter'[s].count = Refilled(s).count + 1
          /\ rate_limiter'[s].window_start = Refilled(s).window_start
      BY <3>1, <3>3 DEF TokenTaken
    <3>5. Refilled(s).window_start = clock /\ admitted[s] <= Refilled(s).count
      BY <1>1, <1>3 DEF Refilled, TokensCover
    <3>6. Refilled(s).count < cfg[s].max_new_per_sec
      BY <2>3 DEF HasToken
    <3>7. QED
      BY <1>1, <1>2, <3>2, <3>3, <3>4, <3>5, <3>6 DEF TokensCover
  <2>4. QED
    BY <2>1, <2>2, <2>3
<1>6. \A t \in Servers \ {s} : TokensCover(t)'
  BY <1>4 DEF RInv, TokensCover
<1>7. QED
  BY <1>5, <1>6 DEF RInv

LEMMA AddServerTokens ==
  ASSUME IInv, IInv', RInv, NEW e \in events, NEW m \in Commands,
         HandleAddServer(e, m) \/ AddServerFailed(e, m)
  PROVE  RInv'
<1>1. PICK s \in Servers : s = Min(FreeSlots)
  BY LowestSlot DEF HandleAddServer, AddServerFailed
<1>2. /\ rate_limiter' = [rate_limiter EXCEPT ![s] = [window_start |-> 0, count |-> 0]]
      /\ admitted' = [admitted EXCEPT ![s] = 0]
      /\ cfg' = [cfg EXCEPT ![s] = m.config]
      /\ clock' = clock
  BY <1>1 DEF HandleAddServer, AddServerFailed, Wiped, MgmtCommand, MgmtEvent, Take
<1>3. cfg'[s].max_new_per_sec \in Nat
  <2>1. cfg'[s] \in Config
    BY DEF IInv, TypeOK
  <2>2. QED
    BY <2>1 DEF Config
<1>4. TokensCover(s)'
  <2>1. rate_limiter'[s].count = 0 /\ admitted'[s] = 0
    BY <1>2 DEF IInv, TypeOK
  <2>2. QED
    BY <1>3, <2>1 DEF TokensCover
<1>5. \A t \in Servers \ {s} : TokensCover(t)'
  BY <1>2 DEF RInv, TokensCover, IInv, TypeOK
<1>6. QED
  BY <1>4, <1>5 DEF RInv

LEMMA StepTokens ==
  ASSUME IInv, IInv', RInv, NoLimitTuned, [Next]_vars
  PROVE  RInv'
<1>1. CASE EpollWait \/ UNCHANGED vars
  BY <1>1, TokensKept DEF EpollWait, vars, serverVars, kernelVars
<1>2. CASE Environment
  <2>1. UNCHANGED <<serverVars, clock, admitted>>
    BY <1>2 DEF Environment, ClientSends, ServerReplies, AdminConnects, AdminSends, AdminHangsUp,
                Arrives, Signal, kernelVars
  <2>2. QED
    BY <2>1, TokensKept DEF serverVars
<1>3. CASE Tick
  <2>1. admitted' = [t \in Servers |-> 0] /\ UNCHANGED <<rate_limiter, cfg>>
    BY <1>3 DEF Tick, serverVars
  <2>2. QED
    BY <2>1 DEF RInv, TokensCover
<1>4. ASSUME NEW e \in events, ServerEvent(e)
      PROVE  RInv'
  <2>1. CASE SkipRemoved(e) \/ NothingUsable(e) \/ \E s \in Servers : NothingReceived(e, s)
    BY <2>1, TokensKept
       DEF SkipRemoved, NothingUsable, NothingReceived, RelayEvent, Take, serverVars
  <2>2. ASSUME NEW s \in Servers, NEW x \in inbox[e.fd],
               \/ KnownClient(e, s, x) \/ ReplyUnclaimed(e, s, x)
               \/ \E c \in Clients : ReplyRelayed(e, s, c, x)
        PROVE  RInv'
    BY <2>2, TokensKept
       DEF KnownClient, FromClient, ReplyUnclaimed, ReplyRelayed, RelayEvent, Take
  <2>3. ASSUME NEW s \in Servers, NEW d \in inbox[e.fd], DropPacket(e, s, d)
        PROVE  RInv'
    BY <2>3, TokenTakenOrNot DEF DropPacket, FromClient, Take
  <2>4. ASSUME NEW s \in Servers, NEW d \in inbox[e.fd], NewClientAccepted(e, s, d)
        PROVE  RInv'
    <3>1. /\ rate_limiter' = LimiterAfter(s, d) /\ UNCHANGED <<cfg, clock>>
          /\ Admissible(s, d)
          /\ admitted' = [admitted EXCEPT ![s] = IF d.body = "query" THEN @ ELSE @ + 1]
      BY <2>4 DEF NewClientAccepted, FromClient, Take
    <3>2. \/ admitted' = admitted
          \/ /\ d.body # "query" /\ HasToken(s)
             /\ admitted' = [admitted EXCEPT ![s] = @ + 1]
      BY <3>1 DEF Admissible, IInv, TypeOK
    <3>3. QED
      BY <3>1, <3>2, TokenTakenOrNot
  <2>5. QED
    BY <1>4, <2>1, <2>2, <2>3, <2>4 DEF ServerEvent, NewClientRefused, ConnectFailed
<1>5. ASSUME NEW e \in events, MgmtStep(e)
      PROVE  RInv'
  <2>1. CASE MgmtAccept(e) \/ MgmtNotAccepted(e) \/ MgmtHangup(e)
             \/ \E m \in Commands : HandleWithoutEffect(e, m)
    BY <2>1, TokensKept
       DEF MgmtAccept, MgmtNotAccepted, MgmtHangup, HandleWithoutEffect, MgmtCommand, MgmtEvent,
           Take, serverVars
  <2>2. ASSUME NEW m \in Commands, HandleSet(e, m) \/ HandleSetMaster(e, m)
        PROVE  RInv'
    <3>1. UNCHANGED <<rate_limiter, admitted, clock>>
      BY <2>2 DEF HandleSet, HandleSetMaster, MgmtCommand, MgmtEvent, Take
    <3>2. QED
      BY <2>2, <3>1, TuningKeepsLimits, TokensKept
  <2>3. ASSUME NEW m \in Commands,
               HandleKick(e, m) \/ HandleKickAll(e, m) \/ HandleRemoveServer(e, m)
        PROVE  RInv'
    BY <2>3, TokensKept
       DEF HandleKick, HandleKickAll, HandleRemoveServer, MgmtCommand, MgmtEvent, Take
  <2>4. ASSUME NEW m \in Commands, HandleAddServer(e, m) \/ AddServerFailed(e, m)
        PROVE  RInv'
    BY <2>4, AddServerTokens
  <2>5. QED
    BY <1>5, <2>1, <2>2, <2>3, <2>4 DEF MgmtStep
<1>6. CASE Housekeeping \/ Shutdown
  BY <1>6, TokensKept DEF Housekeeping, Shutdown
<1>7. QED
  BY <1>1, <1>2, <1>3, <1>4, <1>5, <1>6 DEF Next, Loop

\* In no second does a server admit more players than max_new_per_sec, whenever the
\* limiter was last looked at (relay.c:200-212), as long as no administrator tunes
\* the limit.
THEOREM RateCorrect ==
  ASSUME NoLimitTuned
  PROVE  Spec => []AdmissionRateBounded
<1>1. Init => RInv
  BY InitTokens
<1>2. IInv /\ IInv' /\ RInv /\ [Next]_vars => RInv'
  BY StepTokens
<1>3. IInv /\ RInv => AdmissionRateBounded
  <2> SUFFICES ASSUME IInv, RInv, NEW s \in Servers PROVE admitted[s] <= cfg[s].max_new_per_sec
    BY DEF AdmissionRateBounded
  <2>1. /\ admitted[s] \in Nat /\ rate_limiter[s].count \in Nat
        /\ cfg[s].max_new_per_sec \in Nat
    BY LimitsAreNumbers DEF IInv, TypeOK
  <2>2. QED
    BY <2>1 DEF RInv, TokensCover
<1>4. QED
  BY <1>1, <1>2, <1>3, Invariance, PTL DEF Spec

=============================================================================
