------------------------------- MODULE Relay -------------------------------
(***************************************************************************)
(* The relay loop of the proxy, src/src/relay.c, with the management       *)
(* commands of src/src/mgmt.c that act on it.  One thread waits in         *)
(* epoll_wait, works through the batch of events it got, and then does the *)
(* periodic work of every server; meanwhile the kernel, the game clients,  *)
(* the game servers, the administrators and the clock go on.               *)
(*                                                                         *)
(* The session map of a server appears by its promise, a function from     *)
(* client addresses to sessions (SessionMap shows that the hash tables     *)
(* keep it).  Payloads are reduced to what the loop distinguishes: whether *)
(* a datagram is a browser query, or too long to be of the protocol.  What *)
(* handlers save in the configuration file is the subject of ConfigStore,  *)
(* how lines reach them that of MgmtConn: the loop sees neither.           *)
(***************************************************************************)
EXTENDS Integers, FiniteSets, FiniteSetsExt

CONSTANTS
  Servers,            \* slots of the server array, 0 .. RELAY_MAX_SERVERS - 1
  Clients,            \* addresses of game clients
  Bodies,             \* kinds of datagrams they send
  Fds,                \* descriptor numbers the process may use
  Startup,            \* configurations of the servers started first, a function on some slots
  Configs,            \* configurations an add_server command may carry
  Commands,           \* management commands administrators may send
  MgmtEnabled,        \* whether the management API is configured
  MgmtMaxClients,     \* MGMT_MAX_CLIENTS
  MaxEvents,          \* MAX_EPOLL_EVENTS
  SweepInterval,      \* SWEEP_INTERVAL
  HeartbeatInterval,  \* Q3_HEARTBEAT_INTERVAL
  Instants,           \* bound: the seconds at which anything is observed to happen
  Epoch,              \* what time(NULL) says at startup, one of Instants
  InFlight,           \* bound: items waiting to be read, over all descriptors
  Signals             \* bound: whether SIGINT or SIGTERM may arrive

(* A configuration as config_load or handle_add_server accepts it, and the     *)
(* commands that change or end something, with one that does not.              *)
Ports == 1 .. 65535
PoolSizes == 1 .. 1000
Config == [listen_port : Ports, max_clients : PoolSizes, max_query_sessions : PoolSizes,
           max_new_per_sec : Nat \ {0}, session_timeout : Nat \ {0}, query_timeout : Nat \ {0},
           master_count : Nat, heartbeat_enabled : {0, 1}]

Command ==
  [cmd : {"status"}]
    \cup [cmd : {"kick"}, server : Servers, client : Clients]
    \cup [cmd : {"kick_all", "remove_server"}, server : Servers]
    \cup [cmd : {"set"}, server : Servers, key : STRING, value : Int]
    \cup [cmd : {"set_master"}, server : Servers, masters : {0, 1}]
    \cup [cmd : {"add_server"}, config : Config]

ASSUME ServersAssumption == Servers \subseteq Nat /\ IsFiniteSet(Servers)
ASSUME FdsAssumption == Fds \subseteq Nat /\ IsFiniteSet(Fds)
ASSUME ClientsAssumption == IsFiniteSet(Clients) /\ "none" \notin Clients
ASSUME BodiesAssumption == Bodies \subseteq {"query", "game", "oversized"}
ASSUME StartupAssumption ==
  /\ DOMAIN Startup \subseteq Servers \cap Fds
  /\ \A s \in DOMAIN Startup : Startup[s] \in Config
ASSUME ConfigsAssumption == Configs # {} /\ Configs \subseteq Config
ASSUME CommandsAssumption == Commands \subseteq Command
ASSUME LimitsAssumption ==
  /\ MgmtMaxClients \in Nat /\ MaxEvents \in Nat \ {0}
  /\ SweepInterval \in Nat /\ HeartbeatInterval \in Nat
ASSUME TimeAssumption == Instants \subseteq Nat /\ Epoch \in Instants

VARIABLES
  (* server_instance_t, one entry per slot *)
  active, cfg, listen_fd, sessions, capacity, query_count,
  rate_limiter, last_sweep, last_heartbeat,
  (* the loop *)
  pc,          \* "wait" in epoll_wait, "events" in the loop body, "cleanup", "stopped"
  events,      \* events of the current batch still to be handled
  now,         \* time(NULL) as read after epoll_wait returned
  g_running,
  (* the kernel *)
  owner,       \* what each descriptor number refers to
  inbox,       \* what is waiting to be read from each descriptor
  clock,       \* the wall clock, in seconds
  (* history *)
  sent,        \* the datagram the last step sent to a client or a game server
  admitted     \* game sessions each server has created in the current second

serverVars == <<active, cfg, listen_fd, sessions, capacity, query_count,
                rate_limiter, last_sweep, last_heartbeat>>
loopVars == <<pc, events, now, g_running>>
kernelVars == <<owner, inbox, clock>>
vars == <<serverVars, loopVars, kernelVars, sent, admitted>>

-----------------------------------------------------------------------------
NoFd == -1
MGMT == -1           \* MGMT_SERVER_INDEX
NoServer == -2
NoClient == "none"
NoSession == [relay_fd |-> NoFd, is_query |-> FALSE, last_activity |-> 0]

\* What a descriptor refers to.
Socket(kind, s, c) == [kind |-> kind, server |-> s, client |-> c]
Closed == Socket("closed", NoServer, NoClient)
MgmtListen == Socket("mgmt_listen", NoServer, NoClient)
MgmtConn == Socket("mgmt", NoServer, NoClient)
ListenSocket(s) == Socket("listen", s, NoClient)
RelaySocket(s, c) == Socket("relay", s, c)

\* What can be read from a descriptor.
Datagram(c, body) == [type |-> "datagram", from |-> c, body |-> body]
Reply == [type |-> "reply"]
Connection == [type |-> "connection"]
EndOfFile == [type |-> "eof"]
Line(command) == [type |-> "line", command |-> command]

InUse(s) == {c \in Clients : sessions[s][c].relay_fd # NoFd}
Queries(s) == {c \in InUse(s) : sessions[s][c].is_query}
Count(s) == Cardinality(InUse(s))
NothingSent == [kind |-> "nothing"]

OpenFds == {f \in Fds : owner[f] # Closed}
FreeFds == Fds \ OpenFds
Connections == {f \in Fds : owner[f] = MgmtConn}

\* The event epoll reports for a descriptor: pack_epoll_data(server, fd).
EventOf(f) == [server |-> IF owner[f].kind \in {"listen", "relay"} THEN owner[f].server ELSE MGMT,
               fd |-> f]
Ready == {f \in OpenFds : inbox[f] # {}}

\* The sessions when client c of server s has session x and the sessions of
\* server s when those of the clients C are gone.
WithSession(s, c, x) ==
  [t \in Servers |-> [d \in Clients |-> IF t = s /\ d = c THEN x ELSE sessions[t][d]]]
WithoutSessions(s, C) ==
  [t \in Servers |-> [d \in Clients |-> IF t = s /\ d \in C THEN NoSession ELSE sessions[t][d]]]

\* Inboxes after item x was read from f, and after the descriptors F were closed.
Read(f, x) == [inbox EXCEPT ![f] = @ \ {x}]
Purge(box, F) == [f \in Fds |-> IF f \in F THEN {} ELSE box[f]]
CloseNothing(F) == owner
Close(F) == [f \in Fds |-> IF f \in F THEN Closed ELSE owner[f]]

Decrease(n, k) == IF k > n THEN 0 ELSE n - k

\* Size of a server's session map: session_map_init counts both pools.  The
\* first form is what the comment at hashmap.h:54 says.
MapCapacityGamesOnly(c) == c.max_clients
MapCapacity(c) == c.max_clients + c.max_query_sessions

\* session_find_by_fd: the sessions of server s on descriptor fd.  The first
\* form ignores the descriptor.
AnySession(s, fd) == InUse(s)
SessionsOn(s, fd) == {c \in InUse(s) : sessions[s][c].relay_fd = fd}

\* The descriptors that go with a server.  The first form forgets the sessions.
ListenFdOnly(s) == {listen_fd[s]}
ServerFds(s) == {listen_fd[s]} \cup {sessions[s][c].relay_fd : c \in InUse(s)}

\* query_count when the sessions of clients C go; the first form counts every
\* session and does not stop at zero.
CountedDownAll(s, C) == query_count[s] - Cardinality(C)
CountedDown(s, C) == Decrease(query_count[s], Cardinality(C \cap Queries(s)))

-----------------------------------------------------------------------------
(* Startup: relay_run up to its loop.                                       *)

\* The servers started first get the first descriptors, in the order of their
\* slots; then the management API, when enabled, opens its listen socket.
Init ==
  /\ active = [s \in Servers |-> s \in DOMAIN Startup]
  /\ cfg = [s \in Servers |-> IF s \in DOMAIN Startup THEN Startup[s]
                              ELSE CHOOSE c \in Configs : TRUE]
  /\ listen_fd = [s \in Servers |-> IF s \in DOMAIN Startup THEN s ELSE NoFd]
  /\ sessions = [s \in Servers |-> [c \in Clients |-> NoSession]]
  /\ capacity = [s \in Servers |-> IF s \in DOMAIN Startup
                                   THEN MapCapacity(Startup[s]) ELSE 0]
  /\ query_count = [s \in Servers |-> 0]
  /\ rate_limiter = [s \in Servers |-> [window_start |-> 0, count |-> 0]]
  /\ last_sweep = [s \in Servers |-> Epoch]
  /\ last_heartbeat = [s \in Servers |-> 0]
  /\ pc = "wait" /\ events = {} /\ now = Epoch /\ g_running = TRUE
  /\ owner = [f \in Fds |-> IF f \in DOMAIN Startup THEN ListenSocket(f)
                            ELSE IF MgmtEnabled /\ f = Cardinality(DOMAIN Startup) THEN MgmtListen
                            ELSE Closed]
  /\ inbox = [f \in Fds |-> {}]
  /\ clock = Epoch
  /\ sent = NothingSent
  /\ admitted = [s \in Servers |-> 0]

-----------------------------------------------------------------------------
(* The event loop: epoll_wait.                                              *)

\* A batch holds every ready descriptor, at most MaxEvents of them; without
\* one the call times out and the loop goes straight to its periodic work.
EpollWait ==
  /\ pc = "wait"
  /\ \E batch \in kSubset(Min({MaxEvents, Cardinality(Ready)}), Ready) :
       events' = {EventOf(f) : f \in batch}
  /\ now' = clock
  /\ pc' = "events"
  /\ sent' = NothingSent
  /\ UNCHANGED <<serverVars, kernelVars, g_running, admitted>>

\* The loop takes event e of its batch.
Take(e) ==
  /\ pc = "events"
  /\ e \in events
  /\ events' = events \ {e}
  /\ UNCHANGED <<pc, now, g_running, clock>>

\* Events of a server that was removed earlier in the same batch are skipped.
SkipRemoved(e) ==
  /\ Take(e)
  /\ e.server # MGMT
  /\ ~active[e.server]
  /\ sent' = NothingSent
  /\ UNCHANGED <<serverVars, owner, inbox, admitted>>

-----------------------------------------------------------------------------
(* Packets from game clients, on the listen socket.                         *)

\* recvfrom on the listen socket of server s returned datagram d, of legal size.
FromClient(e, s, d) ==
  /\ Take(e)
  /\ e.server = s /\ active[s] /\ e.fd = listen_fd[s]
  /\ d \in inbox[e.fd] /\ d.body # "oversized"

\* The listen socket has nothing to read after all, or only what is longer
\* than Q3_MAX_PACKET_SIZE.
NothingUsable(e) ==
  /\ Take(e)
  /\ e.server # MGMT /\ active[e.server] /\ e.fd = listen_fd[e.server]
  /\ \/ inbox[e.fd] = {} /\ inbox' = inbox
     \/ \E d \in inbox[e.fd] : d.body = "oversized" /\ inbox' = Read(e.fd, d)
  /\ sent' = NothingSent
  /\ UNCHANGED <<serverVars, owner, admitted>>

\* sess->is_query after a packet: a non-query packet promotes the session.
StillQuery(s, c, body) == sessions[s][c].is_query /\ body = "query"

\* query_count after a packet of a known client, when promotion forgets it.
QueriesNotReclassified(s, d) == query_count[s]

\* query_count after a packet of a known client: a promotion takes one off.
QueriesAfterPacket(s, d) ==
  IF sessions[s][d.from].is_query /\ d.body # "query"
  THEN Decrease(query_count[s], 1) ELSE query_count[s]

Forward(s, c, fd) == [kind |-> "to server", server |-> s, client |-> c, socket |-> owner'[fd]]

\* A client with a session: promotion when due, then the packet is forwarded.
KnownClient(e, s, d) ==
  /\ FromClient(e, s, d)
  /\ d.from \in InUse(s)
  /\ query_count' = [query_count EXCEPT ![s] = QueriesAfterPacket(s, d)]
  /\ sessions' = WithSession(s, d.from,
                   [relay_fd |-> sessions[s][d.from].relay_fd,
                    is_query |-> StillQuery(s, d.from, d.body), last_activity |-> now])
  /\ inbox' = Read(e.fd, d)
  /\ owner' = owner
  /\ sent' = Forward(s, d.from, sessions[s][d.from].relay_fd)
  /\ UNCHANGED <<active, cfg, listen_fd, capacity, rate_limiter, last_sweep, last_heartbeat,
                 admitted>>

\* rate_limit_check that goes by the time at which the batch was fetched.
RefilledByLoopTime(s) ==
  IF now # rate_limiter[s].window_start
  THEN [window_start |-> now, count |-> 0]
  ELSE rate_limiter[s]

\* rate_limit_check: the limiter after a new second has been noticed, and
\* whether it still has a token.
Refilled(s) ==
  IF clock # rate_limiter[s].window_start
  THEN [window_start |-> clock, count |-> 0]
  ELSE rate_limiter[s]
HasToken(s) == Refilled(s).count < cfg[s].max_new_per_sec
TokenTaken(s) == [Refilled(s) EXCEPT !.count = @ + 1]

\* The limiter after a new client's packet: queries do not touch it.
LimiterAfter(s, d) ==
  IF d.body = "query" THEN rate_limiter
  ELSE [rate_limiter EXCEPT ![s] = IF HasToken(s) THEN TokenTaken(s) ELSE Refilled(s)]

\* The admission tests: the query pool for a query, the rate limit and then
\* the number of game sessions for anything else.
GameRoom(s) == Count(s) - query_count[s] < cfg[s].max_clients
AdmissibleQueriesUnlimited(s, d) == d.body = "query" \/ (HasToken(s) /\ GameRoom(s))
Admissible(s, d) ==
  IF d.body = "query" THEN query_count[s] < cfg[s].max_query_sessions
  ELSE HasToken(s) /\ GameRoom(s)

\* The packet of a client without a session is read and dropped; a token that
\* was taken for it stays spent.
DropPacket(e, s, d) ==
  /\ FromClient(e, s, d)
  /\ d.from \notin InUse(s)
  /\ rate_limiter' = LimiterAfter(s, d)
  /\ inbox' = Read(e.fd, d)
  /\ sent' = NothingSent
  /\ UNCHANGED <<active, cfg, listen_fd, sessions, capacity, query_count, last_sweep,
                 last_heartbeat, owner, admitted>>

\* No session: an admission test fails, no descriptor is left, or the session
\* map is full.
NewClientRefused(e, s, d) ==
  /\ DropPacket(e, s, d)
  /\ ~Admissible(s, d) \/ FreeFds = {} \/ Count(s) >= capacity[s]

\* No session: connect() on the new relay socket failed, and it is closed again.
ConnectFailed(e, s, d) ==
  /\ DropPacket(e, s, d)
  /\ Admissible(s, d) /\ FreeFds # {}

\* A session, its relay socket and its packet forwarded through it.  The new
\* descriptor is the lowest free number.
NewClientAccepted(e, s, d) ==
  LET fd == Min(FreeFds)
      isQuery == d.body = "query"
  IN /\ FromClient(e, s, d)
     /\ d.from \notin InUse(s)
     /\ Admissible(s, d) /\ FreeFds # {} /\ Count(s) < capacity[s]
     /\ rate_limiter' = LimiterAfter(s, d)
     /\ sessions' = WithSession(s, d.from,
                      [relay_fd |-> fd, is_query |-> isQuery, last_activity |-> now])
     /\ query_count' = [query_count EXCEPT ![s] = IF isQuery THEN @ + 1 ELSE @]
     /\ owner' = [owner EXCEPT ![fd] = RelaySocket(s, d.from)]
     /\ inbox' = Read(e.fd, d)
     /\ sent' = Forward(s, d.from, fd)
     /\ admitted' = [admitted EXCEPT ![s] = IF isQuery THEN @ ELSE @ + 1]
     /\ UNCHANGED <<active, cfg, listen_fd, capacity, last_sweep, last_heartbeat>>

-----------------------------------------------------------------------------
(* Packets from game servers, on a relay socket.                            *)

\* An event of server s that is not for its listen socket.
RelayEvent(e, s) ==
  /\ Take(e)
  /\ e.server = s /\ active[s] /\ e.fd # listen_fd[s]
  /\ UNCHANGED <<active, cfg, listen_fd, capacity, query_count, rate_limiter, last_sweep,
                 last_heartbeat, owner, admitted>>

\* recv fails or returns 0: the descriptor was closed meanwhile, or has no data.
NothingReceived(e, s) ==
  /\ RelayEvent(e, s)
  /\ inbox[e.fd] \subseteq {EndOfFile}
  /\ sent' = NothingSent
  /\ UNCHANGED <<sessions, inbox>>

\* The session found by session_find_by_fd gets the packet on its own address.
ReplyRelayed(e, s, c, x) ==
  /\ RelayEvent(e, s)
  /\ x \in inbox[e.fd] \ {EndOfFile}
  /\ c \in SessionsOn(s, e.fd)
  /\ sessions' = WithSession(s, c,
                   [relay_fd |-> e.fd, is_query |-> sessions[s][c].is_query,
                    last_activity |-> now])
  /\ inbox' = Read(e.fd, x)
  /\ sent' = [kind |-> "to client", server |-> s, client |-> c, socket |-> owner[e.fd]]

\* What was read belongs to no session of this server and is dropped.
ReplyUnclaimed(e, s, x) ==
  /\ RelayEvent(e, s)
  /\ x \in inbox[e.fd] \ {EndOfFile}
  /\ SessionsOn(s, e.fd) = {}
  /\ inbox' = Read(e.fd, x)
  /\ sent' = NothingSent
  /\ UNCHANGED sessions

-----------------------------------------------------------------------------
(* Management events.                                                       *)

MgmtEvent(e) ==
  /\ Take(e)
  /\ e.server = MGMT
  /\ sent' = NothingSent

\* accept: the connection gets the lowest free descriptor.
MgmtAccept(e) ==
  /\ MgmtEvent(e)
  /\ owner[e.fd] = MgmtListen
  /\ FreeFds # {} /\ Cardinality(Connections) < MgmtMaxClients
  /\ owner' = [owner EXCEPT ![Min(FreeFds)] = MgmtConn]
  /\ inbox' = Read(e.fd, Connection)
  /\ UNCHANGED <<serverVars, admitted>>

\* accept fails and leaves the connection waiting when descriptors are used up;
\* a connection beyond the limit is accepted and closed at once.
MgmtNotAccepted(e) ==
  /\ MgmtEvent(e)
  /\ owner[e.fd] = MgmtListen
  /\ \/ FreeFds = {} /\ inbox' = inbox
     \/ /\ FreeFds # {} /\ Cardinality(Connections) >= MgmtMaxClients
        /\ inbox' = Read(e.fd, Connection)
  /\ UNCHANGED <<serverVars, owner, admitted>>

\* recv returns 0 or fails: close_client.
MgmtHangup(e) ==
  /\ MgmtEvent(e)
  /\ owner[e.fd] = MgmtConn
  /\ inbox[e.fd] \subseteq {EndOfFile}
  /\ owner' = Close({e.fd})
  /\ inbox' = Purge(inbox, {e.fd})
  /\ UNCHANGED <<serverVars, admitted>>

\* An authenticated administrator's line with command m, dispatched.
MgmtCommand(e, m) ==
  /\ MgmtEvent(e)
  /\ owner[e.fd] = MgmtConn
  /\ Line(m) \in inbox[e.fd]

\* Sessions of the clients C on server s are closed: epoll_ctl(DEL), close,
\* session_remove and, for queries, the counter.
RemoveSessions(s, C, box) ==
  LET fds == {sessions[s][c].relay_fd : c \in C}
  IN /\ sessions' = WithoutSessions(s, C)
     /\ query_count' = [query_count EXCEPT ![s] = CountedDown(s, C)]
     /\ owner' = Close(fds)
     /\ inbox' = Purge(box, fds)

\* handle_kick of a client that has a session.
HandleKick(e, m) ==
  /\ MgmtCommand(e, m)
  /\ m.cmd = "kick" /\ active[m.server] /\ m.client \in InUse(m.server)
  /\ RemoveSessions(m.server, {m.client}, Read(e.fd, Line(m)))
  /\ UNCHANGED <<active, cfg, listen_fd, capacity, rate_limiter, last_sweep, last_heartbeat,
                 admitted>>

\* handle_kick_all; with no session it only answers.
HandleKickAll(e, m) ==
  /\ MgmtCommand(e, m)
  /\ m.cmd = "kick_all" /\ active[m.server]
  /\ RemoveSessions(m.server, InUse(m.server), Read(e.fd, Line(m)))
  /\ UNCHANGED <<active, cfg, listen_fd, capacity, rate_limiter, last_sweep, last_heartbeat,
                 admitted>>

\* The range checks of handle_set and the configuration it leaves.
SettingAllowed(key, v) ==
  \/ key \in {"max_clients", "max_query_sessions"} /\ v \in PoolSizes
  \/ key = "session_timeout" /\ v >= 5
  \/ key \in {"query_timeout", "max_new_per_sec"} /\ v >= 1
  \/ key = "master_broadcast" /\ v \in {0, 1}
  \/ key = "hostname_tag"

Tuned(c, key, v) ==
  LET set(k, old) == IF key = k THEN v ELSE old
  IN [listen_port        |-> c.listen_port,
      max_clients        |-> set("max_clients", c.max_clients),
      max_query_sessions |-> set("max_query_sessions", c.max_query_sessions),
      max_new_per_sec    |-> set("max_new_per_sec", c.max_new_per_sec),
      session_timeout    |-> set("session_timeout", c.session_timeout),
      query_timeout      |-> set("query_timeout", c.query_timeout),
      master_count       |-> c.master_count,
      heartbeat_enabled  |-> set("master_broadcast", c.heartbeat_enabled)]

\* handle_set: the limits change at once, the session map keeps its size;
\* turning the broadcast on makes a heartbeat due.
HandleSet(e, m) ==
  /\ MgmtCommand(e, m)
  /\ m.cmd = "set" /\ active[m.server] /\ SettingAllowed(m.key, m.value)
  /\ cfg' = [cfg EXCEPT ![m.server] = Tuned(@, m.key, m.value)]
  /\ last_heartbeat' = IF m.key = "master_broadcast" /\ m.value = 1
                       THEN [last_heartbeat EXCEPT ![m.server] = 0]
                       ELSE last_heartbeat
  /\ inbox' = Read(e.fd, Line(m))
  /\ UNCHANGED <<active, listen_fd, sessions, capacity, query_count, rate_limiter, last_sweep,
                 owner, admitted>>

\* handle_set_master: clears the master list, or sets one master and makes a
\* heartbeat due.
HandleSetMaster(e, m) ==
  /\ MgmtCommand(e, m)
  /\ m.cmd = "set_master" /\ active[m.server]
  /\ cfg' = [cfg EXCEPT ![m.server] = [@ EXCEPT !.master_count = m.masters]]
  /\ last_heartbeat' = IF m.masters = 0 THEN last_heartbeat
                       ELSE [last_heartbeat EXCEPT ![m.server] = 0]
  /\ inbox' = Read(e.fd, Line(m))
  /\ UNCHANGED <<active, listen_fd, sessions, capacity, query_count, rate_limiter, last_sweep,
                 owner, admitted>>

\* relay_add_server: the first inactive slot, wiped, and a port no active
\* server has.
FreeSlots == {s \in Servers : ~active[s]}
PortTaken(c) == \E s \in Servers : active[s] /\ cfg[s].listen_port = c.listen_port

\* A slot reused without the memset: the counter of its last life stays.
WipedExceptCounter(s, c, t) ==
  /\ cfg' = [cfg EXCEPT ![s] = c]
  /\ rate_limiter' = [rate_limiter EXCEPT ![s] = [window_start |-> 0, count |-> 0]]
  /\ last_sweep' = [last_sweep EXCEPT ![s] = t]
  /\ last_heartbeat' = [last_heartbeat EXCEPT ![s] = 0]
  /\ admitted' = [admitted EXCEPT ![s] = 0]
  /\ UNCHANGED query_count

\* Slot s wiped by memset, with configuration c, swept last at time t.
Wiped(s, c, t) ==
  /\ cfg' = [cfg EXCEPT ![s] = c]
  /\ query_count' = [query_count EXCEPT ![s] = 0]
  /\ rate_limiter' = [rate_limiter EXCEPT ![s] = [window_start |-> 0, count |-> 0]]
  /\ last_sweep' = [last_sweep EXCEPT ![s] = t]
  /\ last_heartbeat' = [last_heartbeat EXCEPT ![s] = 0]
  /\ admitted' = [admitted EXCEPT ![s] = 0]

HandleAddServer(e, m) ==
  LET s == Min(FreeSlots)
      fd == Min(FreeFds)
  IN /\ MgmtCommand(e, m)
     /\ m.cmd = "add_server"
     /\ FreeSlots # {} /\ ~PortTaken(m.config) /\ FreeFds # {}
     /\ Wiped(s, m.config, clock)
     /\ active' = [active EXCEPT ![s] = TRUE]
     /\ listen_fd' = [listen_fd EXCEPT ![s] = fd]
     /\ capacity' = [capacity EXCEPT ![s] = MapCapacity(m.config)]
     /\ owner' = [owner EXCEPT ![fd] = ListenSocket(s)]
     /\ inbox' = Read(e.fd, Line(m))
     /\ UNCHANGED sessions

\* relay_add_server that cannot open or bind its socket: the slot stays
\* inactive, but its configuration and instance are already overwritten.
AddServerFailed(e, m) ==
  LET s == Min(FreeSlots)
  IN /\ MgmtCommand(e, m)
     /\ m.cmd = "add_server"
     /\ FreeSlots # {} /\ ~PortTaken(m.config)
     /\ Wiped(s, m.config, 0)
     /\ listen_fd' = [listen_fd EXCEPT ![s] = NoFd]
     /\ capacity' = [capacity EXCEPT ![s] = 0]
     /\ inbox' = Read(e.fd, Line(m))
     /\ UNCHANGED <<active, sessions, owner>>

\* The sessions once server s is gone.  The first form does without
\* session_map_destroy.
SessionsKept(s) == sessions
SessionsDestroyed(s) == WithoutSessions(s, Clients)

\* relay_remove_server: every socket of the server is closed and its map freed;
\* counters and timers of the slot keep their values.
HandleRemoveServer(e, m) ==
  LET s == m.server
  IN /\ MgmtCommand(e, m)
     /\ m.cmd = "remove_server" /\ active[s]
     /\ active' = [active EXCEPT ![s] = FALSE]
     /\ sessions' = SessionsDestroyed(s)
     /\ capacity' = [capacity EXCEPT ![s] = 0]
     /\ owner' = Close(ServerFds(s))
     /\ inbox' = Purge(Read(e.fd, Line(m)), ServerFds(s))
     /\ UNCHANGED <<cfg, listen_fd, query_count, rate_limiter, last_sweep, last_heartbeat,
                    admitted>>

\* Commands that only answer: an inactive server, an unknown client, a value
\* out of range, a master that does not resolve, no slot or no port for a server.
OnlyAnswered(m) ==
  \/ m.cmd = "status"
  \/ m.cmd \in {"kick", "kick_all", "set", "set_master", "remove_server"} /\ ~active[m.server]
  \/ m.cmd = "kick" /\ active[m.server] /\ m.client \notin InUse(m.server)
  \/ m.cmd = "set" /\ ~SettingAllowed(m.key, m.value)
  \/ m.cmd = "set_master" /\ m.masters = 1
  \/ m.cmd = "add_server" /\ (FreeSlots = {} \/ PortTaken(m.config))

HandleWithoutEffect(e, m) ==
  /\ MgmtCommand(e, m)
  /\ OnlyAnswered(m)
  /\ inbox' = Read(e.fd, Line(m))
  /\ UNCHANGED <<serverVars, owner, admitted>>

-----------------------------------------------------------------------------
(* The periodic work after a batch, and shutdown.                           *)

\* sweep_cb: idle for longer than the timeout of its class, by the clock of
\* the sweep against the loop time of the last packet.
Timeout(s, c) == IF sessions[s][c].is_query THEN cfg[s].query_timeout ELSE cfg[s].session_timeout
Expired(s) == {c \in InUse(s) : clock - sessions[s][c].last_activity > Timeout(s, c)}
SweepDueWhenQuiet(s) == active[s] /\ now - last_sweep[s] >= SweepInterval /\ Ready = {}
SweepDue(s) == active[s] /\ now - last_sweep[s] >= SweepInterval
HeartbeatAfterFirst(s) ==
  /\ active[s] /\ last_heartbeat[s] # 0
  /\ cfg[s].master_count > 0 /\ cfg[s].heartbeat_enabled = 1
  /\ now - last_heartbeat[s] >= HeartbeatInterval
HeartbeatDue(s) ==
  /\ active[s]
  /\ cfg[s].master_count > 0 /\ cfg[s].heartbeat_enabled = 1
  /\ now - last_heartbeat[s] >= HeartbeatInterval

\* do_timeout_sweep and send_heartbeats for every server that is due.
Housekeeping ==
  LET swept(s) == IF SweepDue(s) THEN Expired(s) ELSE {}
      fds == UNION {{sessions[s][c].relay_fd : c \in swept(s)} : s \in Servers}
  IN /\ pc = "events" /\ events = {}
     /\ sessions' = [s \in Servers |-> [c \in Clients |->
                       IF c \in swept(s) THEN NoSession ELSE sessions[s][c]]]
     /\ query_count' = [s \in Servers |-> CountedDown(s, swept(s))]
     /\ owner' = Close(fds)
     /\ inbox' = Purge(inbox, fds)
     /\ last_sweep' = [s \in Servers |-> IF SweepDue(s) THEN now ELSE last_sweep[s]]
     /\ last_heartbeat' = [s \in Servers |-> IF HeartbeatDue(s) THEN now ELSE last_heartbeat[s]]
     /\ pc' = IF g_running THEN "wait" ELSE "cleanup"
     /\ sent' = NothingSent
     /\ UNCHANGED <<active, cfg, listen_fd, capacity, rate_limiter, events, now, g_running, clock,
                    admitted>>

\* What mgmt_cleanup closes.  The first form forgets the connections.
MgmtListenFds == {f \in Fds : owner[f] = MgmtListen}
MgmtFds == MgmtListenFds \cup Connections

\* The loop ends: mgmt_cleanup, then every socket of every active server.
Shutdown ==
  LET fds == MgmtFds \cup UNION {ServerFds(s) : s \in {t \in Servers : active[t]}}
  IN /\ pc = "cleanup"
     /\ owner' = Close(fds)
     /\ inbox' = Purge(inbox, fds)
     /\ active' = [s \in Servers |-> FALSE]
     /\ sessions' = [s \in Servers |-> [c \in Clients |-> NoSession]]
     /\ pc' = "stopped"
     /\ sent' = NothingSent
     /\ UNCHANGED <<cfg, listen_fd, capacity, query_count, rate_limiter, last_sweep,
                    last_heartbeat, events, now, g_running, clock, admitted>>

-----------------------------------------------------------------------------
(* The environment: clients, game servers, administrators, signals, time.   *)

Arrives(f, x) ==
  /\ MapThenSumSet(LAMBDA g : Cardinality(inbox[g]), Fds) < InFlight
  /\ inbox' = [inbox EXCEPT ![f] = @ \cup {x}]
  /\ sent' = NothingSent
  /\ UNCHANGED <<serverVars, loopVars, owner, clock, admitted>>

ClientSends(c, body, f) ==
  /\ owner[f].kind = "listen"
  /\ Datagram(c, body) \notin inbox[f]
  /\ Arrives(f, Datagram(c, body))

\* A game server answers only an address that has sent it something: a socket
\* that is a session's.
ServerReplies(f) ==
  /\ owner[f].kind = "relay" /\ inbox[f] = {}
  /\ Arrives(f, Reply)

AdminConnects(f) ==
  /\ owner[f] = MgmtListen /\ inbox[f] = {}
  /\ Arrives(f, Connection)

\* An administrator waits for the answer before the next command.
AdminSends(f, m) ==
  /\ owner[f] = MgmtConn /\ inbox[f] = {}
  /\ Arrives(f, Line(m))

AdminHangsUp(f) ==
  /\ owner[f] = MgmtConn /\ EndOfFile \notin inbox[f]
  /\ Arrives(f, EndOfFile)

\* signal_handler.  A signal during epoll_wait ends the call with EINTR; one
\* that comes just before it is noticed only after the call and its batch.
Signal ==
  /\ Signals /\ g_running
  /\ g_running' = FALSE
  /\ pc' \in IF pc = "wait" THEN {"wait", "cleanup"} ELSE {pc}
  /\ sent' = NothingSent
  /\ UNCHANGED <<serverVars, events, now, kernelVars, admitted>>

\* The wall clock moves on to the next instant.
Tick ==
  /\ pc # "stopped"
  /\ \E t \in Instants : /\ t > clock
                         /\ \A u \in Instants : u > clock => t <= u
                         /\ clock' = t
  /\ admitted' = [s \in Servers |-> 0]
  /\ sent' = NothingSent
  /\ UNCHANGED <<serverVars, loopVars, owner, inbox>>

-----------------------------------------------------------------------------
ServerEvent(e) ==
  \/ SkipRemoved(e)
  \/ NothingUsable(e)
  \/ \E s \in Servers :
       \/ \E d \in inbox[e.fd] :
            \/ KnownClient(e, s, d)
            \/ NewClientRefused(e, s, d)
            \/ ConnectFailed(e, s, d)
            \/ NewClientAccepted(e, s, d)
       \/ NothingReceived(e, s)
       \/ \E x \in inbox[e.fd] :
            \/ \E c \in Clients : ReplyRelayed(e, s, c, x)
            \/ ReplyUnclaimed(e, s, x)

MgmtStep(e) ==
  \/ MgmtAccept(e)
  \/ MgmtNotAccepted(e)
  \/ MgmtHangup(e)
  \/ \E m \in Commands :
       \/ HandleKick(e, m)
       \/ HandleKickAll(e, m)
       \/ HandleSet(e, m)
       \/ HandleSetMaster(e, m)
       \/ HandleAddServer(e, m)
       \/ AddServerFailed(e, m)
       \/ HandleRemoveServer(e, m)
       \/ HandleWithoutEffect(e, m)

Loop ==
  \/ EpollWait
  \/ \E e \in events : ServerEvent(e) \/ MgmtStep(e)
  \/ Housekeeping
  \/ Shutdown

Environment ==
  \/ \E f \in Fds :
       \/ \E c \in Clients, body \in Bodies : ClientSends(c, body, f)
       \/ ServerReplies(f)
       \/ AdminConnects(f)
       \/ \E m \in Commands : AdminSends(f, m)
       \/ AdminHangsUp(f)
  \/ Signal

Next == Loop \/ Environment \/ Tick

Spec == Init /\ [][Next]_vars

\* The loop never blocks: epoll_wait has a timeout and every socket it reads is
\* non-blocking.  Time passes.  Nothing is asked of clients, servers,
\* administrators or signals.
FairSpec == Spec /\ WF_vars(Loop) /\ WF_vars(Tick)

-----------------------------------------------------------------------------
(* Correctness.                                                             *)

Session == [relay_fd : Fds \cup {NoFd}, is_query : BOOLEAN, last_activity : Nat]

Sockets ==
  {Closed, MgmtListen, MgmtConn} \cup {ListenSocket(s) : s \in Servers}
    \cup {RelaySocket(s, c) : s \in Servers, c \in Clients}

Datagrams == {Datagram(c, body) : c \in Clients, body \in Bodies}
Items == {Reply, Connection, EndOfFile} \cup Datagrams \cup {Line(m) : m \in Commands}

\* The shape of the proxy's state, of the batch and of the kernel's tables.
TypeOK ==
  /\ active \in [Servers -> BOOLEAN]
  /\ cfg \in [Servers -> Config]
  /\ listen_fd \in [Servers -> Fds \cup {NoFd}]
  /\ sessions \in [Servers -> [Clients -> Session]]
  /\ capacity \in [Servers -> Nat]
  /\ query_count \in [Servers -> Nat]
  /\ rate_limiter \in [Servers -> [window_start : Nat, count : Nat]]
  /\ last_sweep \in [Servers -> Nat]
  /\ last_heartbeat \in [Servers -> Nat]
  /\ pc \in {"wait", "events", "cleanup", "stopped"}
  /\ events \subseteq [server : Servers \cup {MGMT}, fd : Fds]
  /\ now \in Instants /\ clock \in Instants
  /\ g_running \in BOOLEAN
  /\ owner \in [Fds -> Sockets]
  /\ inbox \in [Fds -> SUBSET Items]
  /\ admitted \in [Servers -> Nat]

\* Every socket the servers hold is open and is the one they opened, and no
\* open socket is forgotten: sessions and descriptors are never out of step,
\* whatever mixture of packets, kicks, removals and sweeps has happened.
\* Management events are never stale.
ServersOwnTheirSockets ==
  /\ \A s \in Servers : active[s] =>
       /\ listen_fd[s] \in Fds /\ owner[listen_fd[s]] = ListenSocket(s)
       /\ \A c \in InUse(s) : owner[sessions[s][c].relay_fd] = RelaySocket(s, c)
  /\ \A s \in Servers : ~active[s] => InUse(s) = {}

NoSocketForgotten ==
  \A f \in Fds :
    /\ \A s \in Servers : owner[f] = ListenSocket(s) => active[s] /\ listen_fd[s] = f
    /\ \A s \in Servers, c \in Clients :
         owner[f] = RelaySocket(s, c) => active[s] /\ sessions[s][c].relay_fd = f

MgmtEventsCurrent ==
  \A e \in events : e.server = MGMT => owner[e.fd] \in {MgmtListen, MgmtConn}

DescriptorsExact == ServersOwnTheirSockets /\ NoSocketForgotten /\ MgmtEventsCurrent

\* What DescriptorsExact rests on: nothing waits behind a closed descriptor,
\* only datagrams wait on a listen socket, and a batch is worked off before the
\* loop goes on.
InboxesMatch ==
  \A f \in Fds : /\ owner[f] = Closed => inbox[f] = {}
                 /\ owner[f].kind = "listen" => inbox[f] \subseteq Datagrams
BatchDone == pc # "events" => events = {}
IInv == TypeOK /\ DescriptorsExact /\ InboxesMatch /\ BatchDone

\* The counter behind the query pool, and by subtraction behind max_clients,
\* is the number of query sessions: insertions, promotions, sweeps, kicks and
\* the wiping of a reused slot all keep it.
QueryCountExact == \A s \in Servers : active[s] => query_count[s] = Cardinality(Queries(s))

\* The session map never holds more than it was made for, and the query pool
\* stays within its limit, promotions included.
PoolsBounded ==
  \A s \in Servers : active[s] =>
    /\ Count(s) <= capacity[s]
    /\ Cardinality(Queries(s)) <= cfg[s].max_query_sessions

\* The session map is never the hidden reason for refusing a player: when it is
\* full, the game sessions have reached max_clients.
MapNotBinding ==
  \A s \in Servers : active[s] /\ Count(s) >= capacity[s] =>
    Cardinality(InUse(s) \ Queries(s)) >= cfg[s].max_clients

\* A packet leaves on the socket, or for the address, of the very session it
\* belongs to: no client ever sees another client's or another server's
\* traffic, not even when a descriptor number was closed and reused while an
\* event for its old meaning was still in the batch.
PacketsGoHome ==
  sent # NothingSent => sent.socket = RelaySocket(sent.server, sent.client)

\* No second of the clock sees a server create more game sessions than
\* max_new_per_sec, although the limiter is only looked at when a packet comes
\* and the loop's own notion of time may be older.
AdmissionRateBounded == \A s \in Servers : admitted[s] <= cfg[s].max_new_per_sec

\* A clean shutdown leaves no descriptor open.
CleanShutdown == pc = "stopped" => OpenFds = {}

\* The proxy's memory of a client is bounded in time: a session that stays
\* silent is gone before its timeout and one more sweep interval have passed
\* and the loop has come round, as long as the clock goes on for that long.
SilentSince(s, c, t) == c \in InUse(s) /\ sessions[s][c].last_activity = t
IdleSessionsExpire ==
  \A s \in Servers, c \in Clients, t \in Instants :
    \* the clock's last instant lies beyond timeout and sweep interval
    (/\ SilentSince(s, c, t)
     /\ \E u, v \in Instants : /\ u > t + cfg[s].session_timeout
                               /\ v >= u + SweepInterval)
      ~> ~SilentSince(s, c, t)

\* A heartbeat that set_master or master_broadcast asks for is sent, if there
\* still is a master and the broadcast is on when the loop comes to it.
HeartbeatAsked(s) ==
  /\ active[s] /\ last_heartbeat[s] = 0
  /\ cfg[s].master_count > 0 /\ cfg[s].heartbeat_enabled = 1
HeartbeatsSent == \A s \in Servers : HeartbeatAsked(s) ~> ~HeartbeatAsked(s)

-----------------------------------------------------------------------------
(* What documents and comments say, and the code does not do.               *)

\* README.md:323 and 340: max_clients is a tunable parameter, with instant
\* apply.  So a raised limit is in force, and a full session map is not what
\* keeps players out.
TuningInForce == MapNotBinding

\* relay.c:367: the server index packed into an event routes every event to
\* the right server.  So what a server's event reads is that server's.
EventsRoutedCorrectly ==
  [][\A e \in events \ events' :
       (e.server # MGMT /\ inbox'[e.fd] # inbox[e.fd] /\ owner'[e.fd] = owner[e.fd])
         => owner[e.fd].server = e.server]_vars

=============================================================================
