------------------------------ MODULE MgmtGui ------------------------------
(***************************************************************************)
(* The management client, src/gui/urt-mgmt: the GUI thread (app.rs) and    *)
(* the worker thread (worker.rs), joined by two unbounded channels, and    *)
(* the worker's TCP connections (net.rs) to the management API of proxies  *)
(* whose servers other administrators add and remove, too.                 *)
(***************************************************************************)
EXTENDS Integers, Sequences, FiniteSets, SequencesExt, FiniteSetsExt, Ranks

CONSTANTS
  Ids,              \* of proxy entries
  Hosts,            \* where proxies run
  Slots,            \* of a proxy's servers
  Names,            \* what tells the servers of a proxy apart: listen ports
  None,
  FirstEntries,     \* the saved entries, one of these functions from ids to hosts
  FirstServers,     \* the servers that proxies run when the GUI starts, the same way
  MaxWaiting,       \* bound on the commands under way when the refresh timer adds one
  MaxSteps          \* bound on what users, other administrators and the network do

ASSUME IdsAssumption == Ids \subseteq Nat /\ IsFiniteSet(Ids)
ASSUME SlotsAssumption == Slots \subseteq Nat /\ IsFiniteSet(Slots)
ASSUME BoundAssumption == MaxSteps \in Nat
ASSUME FirstAssumption ==
  /\ FirstEntries \subseteq UNION {[S -> Hosts] : S \in SUBSET Ids}
  /\ FirstServers \subseteq [Hosts -> [Slots -> Names \cup {None}]]

VARIABLES
  proxy_entries,    \* [ids -> hosts]
  proxy_states,     \* [ids -> what the GUI knows]
  cmd_tx, resp_rx,  \* the channels
  conns,            \* the worker's connections: [ids -> connections]
  sending,          \* the Send whose answer the worker waits for
  servers,          \* the proxies: [Hosts -> [Slots -> servers]]
  late,             \* commands that outlived their connection
  steps,
  broken, orphaned  \* history: ids whose connection the worker gave up, and
                    \* whose entry was deleted while a Connect was under way

gui == <<proxy_entries, proxy_states>>
proxies == <<servers, late>>
history == <<broken, orphaned>>
vars == <<gui, cmd_tx, resp_rx, conns, sending, proxies, steps, history>>

-----------------------------------------------------------------------------
(* What passes through the channels and connections.  set stands for kick,   *)
(* kick_all and set_master, too: what they change is not told apart here,    *)
(* nor are the lists of sessions.                                           *)

Payload ==
  [cmd : {"status"}]
    \cup [cmd : {"sessions", "set", "remove_server"}, server : Slots]
    \cup [cmd : {"add_server"}, name : Names]

Connect(id, host) == [kind |-> "Connect", id |-> id, host |-> host]
Disconnect(id) == [kind |-> "Disconnect", id |-> id]
Send(id, payload) == [kind |-> "Send", id |-> id, payload |-> payload]
RequestStatus(id) == Send(id, [cmd |-> "status"])

Sends == [kind : {"Send"}, id : Ids, payload : Payload]
Commands ==
  [kind : {"Connect"}, id : Ids, host : Hosts] \cup [kind : {"Disconnect"}, id : Ids]
    \cup Sends

ASSUME NoneAssumption == None \notin Slots /\ None \notin Names /\ None \notin Sends

Connected(id, ok) == [kind |-> "Connected", id |-> id, ok |-> ok]
Disconnected(id) == [kind |-> "Disconnected", id |-> id]
CmdResult(id, payload, data) ==
  [kind |-> "CmdResult", id |-> id, payload |-> payload, data |-> data]

\* What a proxy answers; a status lists its servers.
Listed == [index : Slots, name : Names]
Answers ==
  [to : Payload, ok : {TRUE}, servers : Seq(Listed)] \cup [to : Payload, ok : {FALSE}]
Responses ==
  [kind : {"Connected"}, id : Ids, ok : BOOLEAN] \cup [kind : {"Disconnected"}, id : Ids]
    \cup [kind : {"CmdResult"}, id : Ids, payload : Payload, data : Answers \cup {None}]

Connection(host) == [host |-> host, lines |-> <<>>, answers |-> <<>>]
Connections == [host : Hosts, lines : Seq(Payload), answers : Seq(Answers)]

\* ProxyState::new
NewState ==
  [connected |-> FALSE, server_data |-> <<>>, active_tab |-> 0,
   confirm_remove |-> None, pending_remove |-> None]
States ==
  [connected : BOOLEAN, server_data : Seq(Listed), active_tab : Nat,
   confirm_remove : Slots \cup {None}, pending_remove : Slots \cup {None}]

With(f, id, value) == [k \in DOMAIN f \cup {id} |-> IF k = id THEN value ELSE f[k]]
Without(f, id) == [k \in DOMAIN f \ {id} |-> f[k]]

-----------------------------------------------------------------------------
(* The proxy.                                                               *)

Active(h) == {i \in Slots : servers[h][i] # None}
FreeSlots(h) == Slots \ Active(h)
NameTaken(h, n) == \E i \in Active(h) : servers[h][i] = n

Executable(h, c) ==
  CASE c.cmd = "status" -> TRUE
    [] c.cmd = "add_server" -> FreeSlots(h) # {} /\ ~ NameTaken(h, c.name)
    [] OTHER -> c.server \in Active(h)

Executed(h, c) ==
  IF ~ Executable(h, c) THEN servers[h]
  ELSE CASE c.cmd = "add_server" -> [servers[h] EXCEPT ![Min(FreeSlots(h))] = c.name]
         [] c.cmd = "remove_server" -> [servers[h] EXCEPT ![c.server] = None]
         [] OTHER -> servers[h]

\* handle_status lists the servers in the order of their slots.
StatusOf(h) ==
  [k \in 1 .. Cardinality(Active(h)) |->
     LET i == Nth(Active(h), k)
     IN  [index |-> i, name |-> servers[h][i]]]

Answer(h, c) ==
  IF Executable(h, c)
  THEN [to |-> c, ok |-> TRUE, servers |-> IF c.cmd = "status" THEN StatusOf(h) ELSE <<>>]
  ELSE [to |-> c, ok |-> FALSE]

-----------------------------------------------------------------------------
(* The GUI thread handles what the worker reports.  Each step of the loop in *)
(* poll_responses is one action.                                            *)

\* Connects are queued in the order of the list of entries, which is that of
\* their ids: a new entry goes to the end and gets the next id.
Init ==
  /\ proxy_entries \in FirstEntries
  /\ proxy_states = [id \in DOMAIN proxy_entries |-> NewState]
  /\ \E auto \in SUBSET DOMAIN proxy_entries :
       cmd_tx = [k \in 1 .. Cardinality(auto) |->
                   Connect(Nth(auto, k), proxy_entries[Nth(auto, k)])]
  /\ resp_rx = <<>>
  /\ conns = <<>>
  /\ sending = None
  /\ servers \in FirstServers
  /\ late = {}
  /\ steps = 0
  /\ broken = {} /\ orphaned = {}

Known(id) == id \in DOMAIN proxy_states
Update(id, state) == proxy_states' = [proxy_states EXCEPT ![id] = state]
Queue(command) == cmd_tx' = Append(cmd_tx, command)

PollConnected(r) ==
  /\ r.kind = "Connected"
  /\ IF Known(r.id)
     THEN Update(r.id, [proxy_states[r.id] EXCEPT !.connected = r.ok])
     ELSE UNCHANGED proxy_states
  /\ IF r.ok THEN Queue(RequestStatus(r.id)) ELSE UNCHANGED cmd_tx

PollDisconnected(r) ==
  /\ r.kind = "Disconnected"
  /\ IF Known(r.id)
     THEN Update(r.id, [NewState EXCEPT !.confirm_remove = proxy_states[r.id].confirm_remove])
     ELSE UNCHANGED proxy_states
  /\ UNCHANGED cmd_tx

\* No answer, or an error, and so of a command that is none of the GUI's any more.
Usable(r) == Known(r.id) /\ r.data # None /\ r.data.ok
PollFailed(r) ==
  /\ r.kind = "CmdResult" /\ ~ Usable(r)
  /\ IF Known(r.id) /\ r.payload.cmd = "remove_server"
     THEN Update(r.id, [proxy_states[r.id] EXCEPT !.pending_remove = None])
     ELSE UNCHANGED proxy_states
  /\ UNCHANGED cmd_tx

Answered(r, cmds) ==
  /\ r.kind = "CmdResult" /\ Usable(r)
  /\ r.payload.cmd \in cmds

\* The new list replaces the one shown; the first form takes it only when a server
\* came or went.
TakeIfCountDiffers(old, new) == IF Len(old) = Len(new) THEN old ELSE new
Take(old, new) == new

PollStatus(r) ==
  /\ Answered(r, {"status"})
  /\ LET s == proxy_states[r.id]
         new == Take(s.server_data, r.data.servers)
         resized == Len(new) # Len(s.server_data)
         tab == IF resized /\ s.active_tab >= Len(new) /\ Len(new) > 0 THEN 0 ELSE s.active_tab
     IN  /\ Update(r.id, [s EXCEPT !.server_data = new,
                                   !.active_tab = tab])
         /\ IF tab < Len(new)
            THEN Queue(Send(r.id, [cmd |-> "sessions", server |-> new[tab + 1].index]))
            ELSE UNCHANGED cmd_tx

PollSessions(r) ==
  /\ Answered(r, {"sessions"})
  /\ UNCHANGED <<proxy_states, cmd_tx>>

PollDone(r) ==
  /\ Answered(r, {"add_server", "set"})
  /\ Queue(RequestStatus(r.id))
  /\ UNCHANGED proxy_states

\* The tab to show of the servers that are left; the first form keeps it.
TabKept(tab, left) == tab
TabAfter(tab, left) ==
  IF left = <<>> THEN 0 ELSE IF tab >= Len(left) THEN Len(left) - 1 ELSE tab

\* retain: what is left of a list without the server in a slot.
OthersThan(i, list) ==
  LET kept == {k \in DOMAIN list : list[k].index # i}
  IN  [n \in 1 .. Cardinality(kept) |-> list[Nth(kept, n)]]

PollRemoved(r) ==
  /\ Answered(r, {"remove_server"})
  /\ LET s == proxy_states[r.id]
         i == s.pending_remove
         left == OthersThan(i, s.server_data)
     IN  IF i = None THEN UNCHANGED proxy_states
         ELSE Update(r.id, [s EXCEPT !.pending_remove = None,
                                     !.server_data = left,
                                     !.active_tab = TabAfter(@, left)])
  /\ Queue(RequestStatus(r.id))

Poll ==
  /\ resp_rx # <<>>
  /\ LET r == Head(resp_rx)
     IN  \/ PollConnected(r) \/ PollDisconnected(r) \/ PollFailed(r)
         \/ PollStatus(r) \/ PollSessions(r) \/ PollDone(r) \/ PollRemoved(r)
  /\ resp_rx' = Tail(resp_rx)
  /\ UNCHANGED <<proxy_entries, conns, sending, proxies, steps, history>>

\* The rest of a frame comes after the poll, which takes every response there is;
\* one that arrives meanwhile is as good as one that arrives after the frame.
Polled == resp_rx = <<>>

\* Every two seconds, whether or not the last request was answered.
AutoRefresh(id) ==
  /\ Polled
  /\ Known(id) /\ proxy_states[id].connected
  /\ Len(cmd_tx) + (IF sending = None THEN 0 ELSE 1) < MaxWaiting
  /\ Queue(RequestStatus(id))
  /\ UNCHANGED <<gui, resp_rx, conns, sending, proxies, steps, history>>

-----------------------------------------------------------------------------
(* The user.                                                                *)

Step == steps < MaxSteps /\ steps' = steps + 1
Click == Polled /\ Step

ClickConnect(id) ==
  /\ Click
  /\ Known(id) /\ ~ proxy_states[id].connected
  /\ Queue(Connect(id, proxy_entries[id]))
  /\ UNCHANGED <<gui, resp_rx, conns, sending, proxies, history>>

ClickDisconnect(id) ==
  /\ Click
  /\ Known(id) /\ proxy_states[id].connected
  /\ Queue(Disconnect(id))
  /\ UNCHANGED <<gui, resp_rx, conns, sending, proxies, history>>

\* config.rs: one more than the largest id there is.
next_id == IF DOMAIN proxy_entries = {} THEN 1 ELSE Max(DOMAIN proxy_entries) + 1

AddEntry(h) ==
  /\ Click
  /\ next_id \in Ids
  /\ proxy_entries' = With(proxy_entries, next_id, h)
  /\ proxy_states' = With(proxy_states, next_id, NewState)
  /\ UNCHANGED <<cmd_tx, resp_rx, conns, sending, proxies, history>>

\* An edited entry stays connected to where it was.
UpdateEntry(id, h) ==
  /\ Click
  /\ Known(id) /\ proxy_entries[id] # h
  /\ proxy_entries' = [proxy_entries EXCEPT ![id] = h]
  /\ UNCHANGED <<proxy_states, cmd_tx, resp_rx, conns, sending, proxies, history>>

\* A Connect that is under way is not called off.
ConnectUnderWay(id) ==
  \E k \in 1 .. Len(cmd_tx) : cmd_tx[k].kind = "Connect" /\ cmd_tx[k].id = id
StatesKept(id) == proxy_states
StatesLeft(id) == Without(proxy_states, id)
RemoveEntry(id) ==
  /\ Click
  /\ Known(id)
  /\ IF proxy_states[id].connected THEN Queue(Disconnect(id)) ELSE UNCHANGED cmd_tx
  /\ proxy_states' = StatesLeft(id)
  /\ proxy_entries' = Without(proxy_entries, id)
  /\ orphaned' = IF ~ proxy_states[id].connected /\ ConnectUnderWay(id)
                 THEN orphaned \cup {id} ELSE orphaned
  /\ UNCHANGED <<resp_rx, conns, sending, proxies, broken>>

SelectTab(id, k) ==
  /\ Click
  /\ Known(id) /\ k # proxy_states[id].active_tab
  /\ k < Len(proxy_states[id].server_data)
  /\ Update(id, [proxy_states[id] EXCEPT !.active_tab = k])
  /\ UNCHANGED <<proxy_entries, cmd_tx, resp_rx, conns, sending, proxies, history>>

\* The server of the active tab, whose controls are on the screen.
ShownServer(id) ==
  LET s == proxy_states[id]
  IN  IF s.active_tab < Len(s.server_data)
      THEN s.server_data[s.active_tab + 1].index ELSE None

AskRemove(id) ==
  /\ Click
  /\ Known(id) /\ ShownServer(id) # None
  /\ Update(id, [proxy_states[id] EXCEPT !.confirm_remove = ShownServer(id)])
  /\ UNCHANGED <<proxy_entries, cmd_tx, resp_rx, conns, sending, proxies, history>>

CancelRemove(id) ==
  /\ Click
  /\ Known(id)
  /\ Update(id, [proxy_states[id] EXCEPT !.confirm_remove = None])
  /\ UNCHANGED <<proxy_entries, cmd_tx, resp_rx, conns, sending, proxies, history>>

\* The server that was asked about, whatever the list has become since.
ConfirmRemove(id) ==
  /\ Click
  /\ Known(id)
  /\ LET i == proxy_states[id].confirm_remove
     IN  /\ i # None
         /\ Update(id, [proxy_states[id] EXCEPT !.confirm_remove = None, !.pending_remove = i])
         /\ Queue(Send(id, [cmd |-> "remove_server", server |-> i]))
  /\ UNCHANGED <<proxy_entries, resp_rx, conns, sending, proxies, history>>

\* Commands that leave the GUI's own state as it is until their answer comes.
ClickCommand(id, c) ==
  /\ Click
  /\ Known(id)
  /\ \/ c.cmd = "add_server"
     \/ c.cmd = "set" /\ c.server = ShownServer(id)
  /\ Queue(Send(id, c))
  /\ UNCHANGED <<gui, resp_rx, conns, sending, proxies, history>>

-----------------------------------------------------------------------------
(* The worker, which handles one command at a time.                         *)

Report(response) == resp_rx' = Append(resp_rx, response)
NextCommand(kind) == sending = None /\ cmd_tx # <<>> /\ Head(cmd_tx).kind = kind

WorkerConnects ==
  /\ NextCommand("Connect")
  /\ LET c == Head(cmd_tx)
     IN  /\ conns' = With(conns, c.id, Connection(c.host))
         /\ Report(Connected(c.id, TRUE))
         /\ broken' = broken \ {c.id}
  /\ cmd_tx' = Tail(cmd_tx)
  /\ UNCHANGED <<gui, sending, proxies, steps, orphaned>>

\* The connection the id had is gone, too; the first form leaves it.
ConnsKept(id) == conns
ConnsAfterFailure(id) == Without(conns, id)
WorkerConnectFails ==
  /\ Step
  /\ NextCommand("Connect")
  /\ conns' = ConnsAfterFailure(Head(cmd_tx).id)
  /\ Report(Connected(Head(cmd_tx).id, FALSE))
  /\ cmd_tx' = Tail(cmd_tx)
  /\ UNCHANGED <<gui, sending, proxies, history>>

WorkerDisconnects ==
  /\ NextCommand("Disconnect")
  /\ conns' = Without(conns, Head(cmd_tx).id)
  /\ Report(Disconnected(Head(cmd_tx).id))
  /\ cmd_tx' = Tail(cmd_tx)
  /\ UNCHANGED <<gui, sending, proxies, steps, history>>

WorkerCannotSend ==
  /\ NextCommand("Send")
  /\ Head(cmd_tx).id \notin DOMAIN conns
  /\ Report(CmdResult(Head(cmd_tx).id, Head(cmd_tx).payload, None))
  /\ cmd_tx' = Tail(cmd_tx)
  /\ UNCHANGED <<gui, conns, sending, proxies, steps, history>>

WorkerSends ==
  /\ NextCommand("Send")
  /\ LET c == Head(cmd_tx)
     IN  /\ c.id \in DOMAIN conns
         /\ conns' = [conns EXCEPT ![c.id].lines = Append(@, c.payload)]
         /\ sending' = c
  /\ cmd_tx' = Tail(cmd_tx)
  /\ UNCHANGED <<gui, resp_rx, proxies, steps, history>>

\* The next line of the connection is the answer.
WorkerReads ==
  /\ sending # None
  /\ conns[sending.id].answers # <<>>
  /\ Report(CmdResult(sending.id, sending.payload, Head(conns[sending.id].answers)))
  /\ conns' = [conns EXCEPT ![sending.id].answers = Tail(@)]
  /\ sending' = None
  /\ UNCHANGED <<gui, cmd_tx, proxies, steps, history>>

\* Nothing comes for five seconds, or no whole line does, or what comes cannot be
\* parsed, because the API cut it off or the connection broke: the worker gives
\* the connection up, and with it whatever may still arrive.  The command may
\* have been executed, or be so later.  The first form keeps the connection.
ConnsAfterTimeout(id) == conns
ConnsAfterError(id) == Without(conns, id)
WorkerGivesUp ==
  /\ Step
  /\ sending # None
  /\ conns' = ConnsAfterError(sending.id)
  /\ late' = late \cup {<<conns[sending.id].host, c>> :
                          c \in ToSet(conns[sending.id].lines) \ {[cmd |-> "status"]}}
  /\ Report(CmdResult(sending.id, sending.payload, None))
  /\ sending' = None
  /\ broken' = broken \cup {sending.id}
  /\ UNCHANGED <<gui, cmd_tx, servers, orphaned>>

-----------------------------------------------------------------------------
(* The proxies and other administrators.                                    *)

ProxyAnswers(id) ==
  /\ id \in DOMAIN conns /\ conns[id].lines # <<>>
  /\ LET h == conns[id].host
         c == Head(conns[id].lines)
     IN  /\ servers' = [servers EXCEPT ![h] = Executed(h, c)]
         /\ conns' = [conns EXCEPT ![id].lines = Tail(@), ![id].answers = Append(@, Answer(h, c))]
  /\ UNCHANGED <<gui, cmd_tx, resp_rx, sending, late, steps, history>>

ProxyExecutesLate(h, c) ==
  /\ <<h, c>> \in late
  /\ servers' = [servers EXCEPT ![h] = Executed(h, c)]
  /\ late' = late \ {<<h, c>>}
  /\ UNCHANGED <<gui, cmd_tx, resp_rx, conns, sending, steps, history>>

OthersCommand(h, c) ==
  /\ Step
  /\ Executed(h, c) # servers[h]
  /\ servers' = [servers EXCEPT ![h] = Executed(h, c)]
  /\ UNCHANGED <<gui, cmd_tx, resp_rx, conns, sending, late, history>>

-----------------------------------------------------------------------------

User ==
  \E id \in Ids :
    \/ ClickConnect(id) \/ ClickDisconnect(id) \/ RemoveEntry(id)
    \/ \E h \in Hosts : UpdateEntry(id, h)
    \/ \E k \in 0 .. Cardinality(Slots) : SelectTab(id, k)
    \/ AskRemove(id) \/ CancelRemove(id) \/ ConfirmRemove(id)
    \/ \E c \in Payload : ClickCommand(id, c)

Worker ==
  \/ WorkerConnects \/ WorkerConnectFails \/ WorkerDisconnects
  \/ WorkerCannotSend \/ WorkerSends \/ WorkerReads \/ WorkerGivesUp

Elsewhere ==
  \/ \E id \in Ids : ProxyAnswers(id)
  \/ \E h \in Hosts, c \in Payload : ProxyExecutesLate(h, c) \/ OthersCommand(h, c)

Next ==
  \/ Poll \/ \E id \in Ids : AutoRefresh(id)
  \/ User \/ \E h \in Hosts : AddEntry(h)
  \/ Worker
  \/ Elsewhere

Spec == Init /\ [][Next]_vars

\* The GUI is woken at least once a second and its worker runs; a proxy comes to
\* every line it was sent, and the refresh timer runs out again and again.
FairSpec ==
  /\ Spec
  /\ WF_vars(Poll)
  /\ WF_vars(Worker)
  /\ \A id \in Ids : WF_vars(AutoRefresh(id)) /\ WF_vars(ProxyAnswers(id))

-----------------------------------------------------------------------------
(* Properties.                                                              *)

\* The channels carry what their ends understand, and every entry of the sidebar
\* has its state, so that no handler looks one up in vain.
TypeOK ==
  /\ DOMAIN proxy_entries \subseteq Ids /\ proxy_entries \in [DOMAIN proxy_entries -> Hosts]
  /\ proxy_states \in [DOMAIN proxy_entries -> States]
  /\ cmd_tx \in Seq(Commands) /\ resp_rx \in Seq(Responses)
  /\ DOMAIN conns \subseteq Ids /\ conns \in [DOMAIN conns -> Connections]
  /\ sending \in Sends \cup {None}
  /\ sending # None => sending.id \in DOMAIN conns
  /\ servers \in [Hosts -> [Slots -> Names \cup {None}]]
  /\ late \subseteq Hosts \X Payload
  /\ steps \in 0 .. MaxSteps

\* While servers are shown one of them is selected, in whatever order statuses,
\* removals of two administrators and disconnections come in: the screen never
\* loses its tab, behind which the controls are (app.rs:383-391, 486-490).
TabShown ==
  \A id \in DOMAIN proxy_states :
    proxy_states[id].server_data # <<>> => ShownServer(id) # None

\* What the GUI takes for the answer to a command is the proxy's answer to that
\* command, though answers carry nothing that says so: also when an earlier one
\* came late, in pieces or not at all (worker.rs:97-104, mgmt.c:120-126).
AnswersMatch ==
  \A k \in 1 .. Len(resp_rx) :
    LET r == resp_rx[k]
    IN  r.kind = "CmdResult" /\ r.data # None => r.data.to = r.payload

\* When nothing is under way the GUI and its worker agree who is connected, but
\* for connections that the worker gave up, which the GUI is not told of, and
\* for those whose entry was deleted before they were made (app.rs:553-569).
Quiet == cmd_tx = <<>> /\ resp_rx = <<>> /\ sending = None
FlagsAgree ==
  Quiet =>
    LET flagged == {id \in DOMAIN proxy_states : proxy_states[id].connected}
    IN  /\ flagged \subseteq DOMAIN conns \cup broken
        /\ DOMAIN conns \subseteq flagged \cup orphaned

\* A proxy that stays connected is shown as it is in the end, whatever users and
\* other administrators did before (README.md:343).
Steady(id) == Known(id) /\ id \in DOMAIN conns /\ proxy_states[id].connected
Shown(id) == Steady(id) => proxy_states[id].server_data = StatusOf(conns[id].host)
Converges == \A id \in Ids : <>[]Steady(id) => <>[]Shown(id)

=============================================================================
