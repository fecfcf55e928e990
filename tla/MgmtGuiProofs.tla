---------------------------- MODULE MgmtGuiProofs ----------------------------
(***************************************************************************)
(* The management client, proved for any number of proxies, servers, users *)
(* and other administrators, and for queues of any length.                 *)
(***************************************************************************)
EXTENDS MgmtGui, OrderFacts, SequenceTheorems, FiniteSetTheorems

-----------------------------------------------------------------------------
(* The inductive invariant.                                                 *)

\* A state of the GUI that shows a tab, and a result that answers its command.
TabIn(s) == s.server_data # <<>> => s.active_tab < Len(s.server_data)
Matches(r) == r.kind = "CmdResult" /\ r.data # None => r.data.to = r.payload

\* A connection on which nothing is under way, and one that has the worker wait:
\* for a line that the proxy has still to execute, or for the answer to it.
Idle(conn) == conn.lines = <<>> /\ conn.answers = <<>>
Busy(conn, c) ==
  \/ conn.lines = <<c>> /\ conn.answers = <<>>
  \/ conn.lines = <<>> /\ Len(conn.answers) = 1 /\ conn.answers[1].to = c

EntriesOK == DOMAIN proxy_entries \subseteq Ids /\ proxy_entries \in [DOMAIN proxy_entries -> Hosts]
StatesOK ==
  /\ proxy_states \in [DOMAIN proxy_entries -> States]
  /\ \A id \in DOMAIN proxy_entries : TabIn(proxy_states[id])
CommandsOK == cmd_tx \in Seq(Commands)
ResponsesOK == resp_rx \in Seq(Responses) /\ \A k \in 1 .. Len(resp_rx) : Matches(resp_rx[k])
ConnsOK ==
  /\ DOMAIN conns \subseteq Ids /\ conns \in [DOMAIN conns -> Connections]
  /\ sending \in Sends \cup {None}
  /\ sending # None => sending.id \in DOMAIN conns
  /\ \A id \in DOMAIN conns :
       IF sending # None /\ sending.id = id THEN Busy(conns[id], sending.payload)
       ELSE Idle(conns[id])
ServersOK == servers \in [Hosts -> [Slots -> Names \cup {None}]]
LateOK == late \subseteq Hosts \X Payload
StepsOK == steps \in 0 .. MaxSteps

TInv ==
  /\ EntriesOK /\ StatesOK /\ CommandsOK /\ ResponsesOK
  /\ ConnsOK /\ ServersOK /\ LateOK /\ StepsOK

\* What the GUI will take an id for when it has read all responses: what the last
\* one that tells of its connection says, or else what it takes it for now.
Tells(k, id) ==
  k \in 1 .. Len(resp_rx) /\ resp_rx[k].kind \in {"Connected", "Disconnected"} /\ resp_rx[k].id = id
LastTells(k, id) == Tells(k, id) /\ \A j \in 1 .. Len(resp_rx) : Tells(j, id) => j <= k
Yes(r) == r.kind = "Connected" /\ r.ok
Flag(id) == Known(id) /\ proxy_states[id].connected
Thought(id) ==
  \/ \E k \in 1 .. Len(resp_rx) : LastTells(k, id) /\ Yes(resp_rx[k])
  \/ (\A k \in 1 .. Len(resp_rx) : ~ Tells(k, id)) /\ Flag(id)

\* A command that is still in the queue, at k.
Queued(kind, id, k) == k \in 1 .. Len(cmd_tx) /\ cmd_tx[k].kind = kind /\ cmd_tx[k].id = id

\* Who is thought to be connected is, or was given up; ...
ThoughtOK(id) == Thought(id) => id \in DOMAIN conns \cup broken
\* ... a connection is known, or is about to be closed, or was made for an entry
\* that is gone; ...
ConnOK(id) ==
  id \in DOMAIN conns =>
    \/ id \in orphaned
    \/ \E k \in Nat : Queued("Disconnect", id, k)
    \/ Known(id) /\ Thought(id)
\* ... and a Connect in the queue is for an entry that is there, or a Disconnect
\* follows it.
ConnectsOK(id) ==
  \A k \in Nat :
    Queued("Connect", id, k) =>
      \/ id \in orphaned
      \/ Known(id)
      \/ \E j \in Nat : j > k /\ Queued("Disconnect", id, j)

Agreed(id) == ThoughtOK(id) /\ ConnOK(id) /\ ConnectsOK(id)

GInv == TInv /\ \A id \in Ids : Agreed(id)

-----------------------------------------------------------------------------
(* What is sent.                                                            *)

LEMMA PayloadKinds ==
  /\ [cmd |-> "status"] \in Payload
  /\ \A i \in Slots : /\ [cmd |-> "sessions", server |-> i] \in Payload
                     /\ [cmd |-> "remove_server", server |-> i] \in Payload
BY DEF Payload

LEMMA CommandKinds ==
  ASSUME NEW id \in Ids
  PROVE  /\ \A h \in Hosts : Connect(id, h) \in Commands
         /\ Disconnect(id) \in Commands
         /\ \A c \in Payload : Send(id, c) \in Commands /\ Send(id, c) \in Sends
         /\ RequestStatus(id) \in Commands
<1>1. \A h \in Hosts : Connect(id, h) \in Commands
  BY DEF Commands, Connect
<1>2. Disconnect(id) \in Commands
  BY DEF Commands, Disconnect
<1>3. \A c \in Payload : Send(id, c) \in Commands /\ Send(id, c) \in Sends
  BY DEF Commands, Sends, Send
<1>4. RequestStatus(id) \in Commands
  BY <1>3, PayloadKinds DEF RequestStatus
<1>5. QED
  BY <1>1, <1>2, <1>3, <1>4

LEMMA ResponseKinds ==
  ASSUME NEW id \in Ids
  PROVE  /\ \A ok \in BOOLEAN : Connected(id, ok) \in Responses
         /\ Disconnected(id) \in Responses
         /\ \A c \in Payload, d \in Answers \cup {None} : CmdResult(id, c, d) \in Responses
<1>1. \A ok \in BOOLEAN : Connected(id, ok) \in Responses
  BY DEF Responses, Connected
<1>2. Disconnected(id) \in Responses
  BY DEF Responses, Disconnected
<1>3. \A c \in Payload, d \in Answers \cup {None} : CmdResult(id, c, d) \in Responses
  BY DEF Responses, CmdResult
<1>4. QED
  BY <1>1, <1>2, <1>3

-----------------------------------------------------------------------------
(* The proxies.                                                             *)

\* A list of what is in some places, in their order.
LEMMA ListType ==
  ASSUME NEW S \in SUBSET Nat, IsFiniteSet(S), NEW T, NEW f, \A i \in S : f[i] \in T
  PROVE  [k \in 1 .. Cardinality(S) |-> f[Nth(S, k)]] \in Seq(T)
<1> DEFINE n == Cardinality(S)
           list == [k \in 1 .. n |-> f[Nth(S, k)]]
<1>1. n \in Nat
  BY FS_CardinalityType
<1>2. \A k \in 1 .. n : f[Nth(S, k)] \in T
  BY NthExists
<1>3. list \in [1 .. n -> T]
  BY <1>2
<1>4. list \in Seq(T)
  <2> HIDE DEF n, list
  <2>1. QED
    BY <1>1, <1>3
<1>5. QED
  BY <1>4

LEMMA ActiveSlots ==
  ASSUME NEW h
  PROVE  /\ Active(h) \in SUBSET Slots /\ Active(h) \in SUBSET Nat /\ IsFiniteSet(Active(h))
         /\ FreeSlots(h) \in SUBSET Slots
         /\ FreeSlots(h) # {} => Min(FreeSlots(h)) \in Slots
<1>1. Active(h) \in SUBSET Slots /\ FreeSlots(h) \in SUBSET Slots
  BY DEF Active, FreeSlots
<1>2. FreeSlots(h) # {} => Min(FreeSlots(h)) \in FreeSlots(h)
  BY <1>1, SlotsAssumption, LeastElement
<1>3. QED
  BY <1>1, <1>2, SlotsAssumption, FS_Subset

LEMMA StatusType ==
  ASSUME ServersOK, NEW h \in Hosts
  PROVE  StatusOf(h) \in Seq(Listed)
<1> DEFINE f == [i \in Active(h) |-> [index |-> i, name |-> servers[h][i]]]
<1>1. \A i \in Active(h) : i \in Slots /\ servers[h][i] \in Names
  BY DEF ServersOK, Active
<1>2. \A i \in Active(h) : f[i] \in Listed
  BY <1>1 DEF Listed
<1>3. \A k \in 1 .. Cardinality(Active(h)) :
        f[Nth(Active(h), k)] = [index |-> Nth(Active(h), k), name |-> servers[h][Nth(Active(h), k)]]
  BY ActiveSlots, NthExists
<1>4. StatusOf(h) = [k \in 1 .. Cardinality(Active(h)) |-> f[Nth(Active(h), k)]]
  BY <1>3 DEF StatusOf
<1> HIDE DEF f
<1>5. QED
  BY <1>2, <1>4, ActiveSlots, ListType

\* A command changes one list of servers, and into one there may be.
LEMMA ExecutedType ==
  ASSUME ServersOK, NEW h \in Hosts, NEW c \in Payload
  PROVE  [servers EXCEPT ![h] = Executed(h, c)] \in [Hosts -> [Slots -> Names \cup {None}]]
<1>1. servers \in [Hosts -> [Slots -> Names \cup {None}]]
  BY DEF ServersOK
<1>2. Executed(h, c) \in [Slots -> Names \cup {None}]
  <2>1. CASE ~ Executable(h, c)
    BY <1>1, <2>1 DEF Executed
  <2>2. CASE Executable(h, c) /\ c.cmd = "add_server"
    <3>1. FreeSlots(h) # {}
      BY <2>2 DEF Executable
    <3>2. c.name \in Names
      BY <2>2 DEF Payload
    <3>3. Executed(h, c) = [servers[h] EXCEPT ![Min(FreeSlots(h))] = c.name]
      BY <2>2 DEF Executed
    <3>4. QED
      BY <1>1, <3>1, <3>2, <3>3, ActiveSlots
  <2>3. CASE Executable(h, c) /\ c.cmd = "remove_server"
    <3>1. Executed(h, c) = [servers[h] EXCEPT ![c.server] = None]
      BY <2>3 DEF Executed
    <3>2. c.server \in Slots
      BY <2>3 DEF Payload
    <3>3. QED
      BY <1>1, <3>1, <3>2
  <2>4. CASE Executable(h, c) /\ c.cmd \notin {"add_server", "remove_server"}
    <3>1. Executed(h, c) = servers[h]
      BY <2>4 DEF Executed
    <3>2. QED
      BY <1>1, <3>1
  <2>5. QED
    BY <2>1, <2>2, <2>3, <2>4
<1>3. QED
  BY <1>1, <1>2

\* An answer says which command it answers only in the model.
LEMMA AnswerType ==
  ASSUME ServersOK, NEW h \in Hosts, NEW c \in Payload
  PROVE  Answer(h, c) \in Answers /\ Answer(h, c).to = c
<1>1. StatusOf(h) \in Seq(Listed) /\ <<>> \in Seq(Listed)
  BY StatusType
<1>2. CASE Executable(h, c)
  <2> DEFINE list == IF c.cmd = "status" THEN StatusOf(h) ELSE <<>>
  <2>1. list \in Seq(Listed)
    BY <1>1
  <2> HIDE DEF list
  <2>2. Answer(h, c) = [to |-> c, ok |-> TRUE, servers |-> list]
    BY <1>2 DEF Answer, list
  <2>3. [to |-> c, ok |-> TRUE, servers |-> list] \in Answers
    BY <2>1 DEF Answers
  <2>4. QED
    BY <2>2, <2>3
<1>3. CASE ~ Executable(h, c)
  BY <1>3 DEF Answer, Answers
<1>4. QED
  BY <1>2, <1>3

-----------------------------------------------------------------------------
(* How the parts of the invariant are kept.                                 *)

LEMMA InvariantImplies == TInv => TypeOK /\ TabShown /\ AnswersMatch
<1> SUFFICES ASSUME TInv PROVE TypeOK /\ TabShown /\ AnswersMatch
  OBVIOUS
<1>1. TypeOK
  BY DEF TInv, TypeOK, EntriesOK, StatesOK, CommandsOK, ResponsesOK, ConnsOK, ServersOK,
         LateOK, StepsOK
<1>2. TabShown
  <2> SUFFICES ASSUME NEW id \in DOMAIN proxy_states, proxy_states[id].server_data # <<>>
               PROVE  ShownServer(id) # None
    BY DEF TabShown
  <2> DEFINE s == proxy_states[id]
  <2>1. s \in States /\ s.active_tab < Len(s.server_data)
    BY DEF TInv, StatesOK, TabIn
  <2> HIDE DEF s
  <2>2. s.active_tab + 1 \in 1 .. Len(s.server_data) /\ s.server_data \in Seq(Listed)
    BY <2>1 DEF States
  <2>3. s.server_data[s.active_tab + 1].index \in Slots
    <3>1. s.server_data[s.active_tab + 1] \in Listed
      BY <2>2, ElementOfSeq
    <3>2. QED
      BY <3>1 DEF Listed
  <2>4. ShownServer(id) = s.server_data[s.active_tab + 1].index
    BY <2>1 DEF ShownServer, s
  <2>5. QED
    BY <2>3, <2>4, NoneAssumption
<1>3. AnswersMatch
  BY DEF TInv, ResponsesOK, Matches, AnswersMatch
<1>4. QED
  BY <1>1, <1>2, <1>3

LEMMA UpdateKeeps ==
  ASSUME EntriesOK, StatesOK, NEW id, Known(id), NEW state \in States, TabIn(state),
         Update(id, state), UNCHANGED proxy_entries
  PROVE  EntriesOK' /\ StatesOK'
<1>1. id \in DOMAIN proxy_entries
  BY DEF Known, StatesOK
<1>2. proxy_states' = [proxy_states EXCEPT ![id] = state]
  BY DEF Update
<1>3. /\ proxy_states' \in [DOMAIN proxy_entries -> States]
      /\ \A k \in DOMAIN proxy_entries :
           proxy_states'[k] = IF k = id THEN state ELSE proxy_states[k]
  BY <1>1, <1>2 DEF StatesOK
<1>4. QED
  BY <1>3 DEF EntriesOK, StatesOK

LEMMA GuiKept ==
  ASSUME EntriesOK, StatesOK, UNCHANGED gui
  PROVE  EntriesOK' /\ StatesOK'
BY DEF EntriesOK, StatesOK, gui

\* A state of which neither the list nor the tab changes.
LEMMA SameTab ==
  ASSUME NEW s \in States, TabIn(s)
  PROVE  /\ \A b \in BOOLEAN : LET t == [s EXCEPT !.connected = b] IN t \in States /\ TabIn(t)
         /\ \A i \in Slots \cup {None} :
              /\ LET t == [s EXCEPT !.confirm_remove = i] IN t \in States /\ TabIn(t)
              /\ LET t == [s EXCEPT !.pending_remove = i] IN t \in States /\ TabIn(t)
              /\ LET t == [s EXCEPT !.confirm_remove = None, !.pending_remove = i]
                 IN  t \in States /\ TabIn(t)
BY DEF States, TabIn

\* A new list, and a tab in it.
LEMMA NewTab ==
  ASSUME NEW s \in States, NEW list \in Seq(Listed), NEW tab \in Nat,
         list # <<>> => tab < Len(list)
  PROVE  /\ LET t == [s EXCEPT !.server_data = list, !.active_tab = tab]
            IN  t \in States /\ TabIn(t)
         /\ LET t == [s EXCEPT !.pending_remove = None, !.server_data = list, !.active_tab = tab]
            IN  t \in States /\ TabIn(t)
BY DEF States, TabIn

LEMMA QueueKeeps ==
  ASSUME CommandsOK, NEW c \in Commands, Queue(c)
  PROVE  CommandsOK'
BY DEF CommandsOK, Queue

LEMMA TakeCommand ==
  ASSUME CommandsOK, cmd_tx # <<>>
  PROVE  Head(cmd_tx) \in Commands /\ Tail(cmd_tx) \in Seq(Commands)
BY DEF CommandsOK

LEMMA ReportKeeps ==
  ASSUME ResponsesOK, NEW r \in Responses, Matches(r), Report(r)
  PROVE  ResponsesOK'
<1>1. /\ resp_rx' \in Seq(Responses) /\ Len(resp_rx') = Len(resp_rx) + 1
      /\ \A k \in 1 .. Len(resp_rx) : resp_rx'[k] = resp_rx[k]
      /\ resp_rx'[Len(resp_rx) + 1] = r
  BY AppendProperties DEF ResponsesOK, Report
<1>2. \A k \in 1 .. Len(resp_rx') : k = Len(resp_rx) + 1 \/ k \in 1 .. Len(resp_rx)
  BY <1>1 DEF ResponsesOK
<1>3. QED
  BY <1>1, <1>2 DEF ResponsesOK

LEMMA TakeResponse ==
  ASSUME ResponsesOK, resp_rx # <<>>, resp_rx' = Tail(resp_rx)
  PROVE  Head(resp_rx) \in Responses /\ Matches(Head(resp_rx)) /\ ResponsesOK'
<1>1. /\ Tail(resp_rx) \in Seq(Responses) /\ Len(Tail(resp_rx)) = Len(resp_rx) - 1
      /\ \A k \in 1 .. Len(Tail(resp_rx)) : Tail(resp_rx)[k] = resp_rx[k + 1]
      /\ Head(resp_rx) = resp_rx[1] /\ Len(resp_rx) \in Nat \ {0}
      /\ Head(resp_rx) \in Responses
  BY DEF ResponsesOK
<1>2. \A k \in 1 .. Len(Tail(resp_rx)) : k + 1 \in 1 .. Len(resp_rx)
  BY <1>1
<1>3. Matches(Head(resp_rx))
  <2>1. 1 \in 1 .. Len(resp_rx)
    BY <1>1
  <2>2. QED
    BY <1>1, <2>1 DEF ResponsesOK
<1>4. \A k \in 1 .. Len(Tail(resp_rx)) : Matches(Tail(resp_rx)[k])
  BY <1>1, <1>2 DEF ResponsesOK
<1>5. QED
  BY <1>1, <1>3, <1>4 DEF ResponsesOK

LEMMA StepKeeps ==
  ASSUME StepsOK, Step
  PROVE  StepsOK'
BY BoundAssumption DEF StepsOK, Step

-----------------------------------------------------------------------------
(* The GUI reads a response.                                                *)

\* What a response is made of.
LEMMA ResponseParts ==
  ASSUME NEW r \in Responses
  PROVE  /\ r.id \in Ids
         /\ r.kind = "Connected" => r.ok \in BOOLEAN
         /\ r.kind = "CmdResult" =>
              /\ r.payload \in Payload
              /\ r.data # None => r.data \in Answers
         /\ r.kind \in {"Connected", "Disconnected", "CmdResult"}
BY DEF Responses

LEMMA PollConnectedKeeps ==
  ASSUME EntriesOK, StatesOK, CommandsOK, NEW r \in Responses, PollConnected(r),
         UNCHANGED proxy_entries
  PROVE  EntriesOK' /\ StatesOK' /\ CommandsOK'
<1>1. r.id \in Ids /\ r.ok \in BOOLEAN
  BY ResponseParts DEF PollConnected
<1>2. EntriesOK' /\ StatesOK'
  <2>1. CASE Known(r.id)
    <3> DEFINE t == [proxy_states[r.id] EXCEPT !.connected = r.ok]
    <3>1. proxy_states[r.id] \in States /\ TabIn(proxy_states[r.id])
      BY <2>1 DEF StatesOK, Known
    <3>2. t \in States /\ TabIn(t) /\ Update(r.id, t)
      BY <1>1, <2>1, <3>1, SameTab DEF PollConnected
    <3> HIDE DEF t
    <3>3. QED
      BY <2>1, <3>2, UpdateKeeps
  <2>2. CASE ~ Known(r.id)
    BY <2>2, GuiKept DEF PollConnected, gui
  <2>3. QED
    BY <2>1, <2>2
<1>3. CommandsOK'
  BY <1>1, CommandKinds, QueueKeeps DEF PollConnected, CommandsOK
<1>4. QED
  BY <1>2, <1>3

LEMMA NewStateType ==
  /\ NewState \in States /\ TabIn(NewState)
  /\ \A i \in Slots \cup {None} :
       LET t == [NewState EXCEPT !.confirm_remove = i] IN t \in States /\ TabIn(t)
<1>1. NewState \in States /\ TabIn(NewState)
  BY DEF NewState, States, TabIn
<1>2. QED
  BY <1>1, SameTab

LEMMA PollDisconnectedKeeps ==
  ASSUME EntriesOK, StatesOK, CommandsOK, NEW r \in Responses, PollDisconnected(r),
         UNCHANGED proxy_entries
  PROVE  EntriesOK' /\ StatesOK' /\ CommandsOK'
<1>1. EntriesOK' /\ StatesOK'
  <2>1. CASE Known(r.id)
    <3> DEFINE t == [NewState EXCEPT !.confirm_remove = proxy_states[r.id].confirm_remove]
    <3>1. proxy_states[r.id].confirm_remove \in Slots \cup {None}
      BY <2>1 DEF StatesOK, Known, States
    <3>2. t \in States /\ TabIn(t) /\ Update(r.id, t)
      BY <2>1, <3>1, NewStateType DEF PollDisconnected
    <3> HIDE DEF t
    <3>3. QED
      BY <2>1, <3>2, UpdateKeeps
  <2>2. CASE ~ Known(r.id)
    BY <2>2, GuiKept DEF PollDisconnected, gui
  <2>3. QED
    BY <2>1, <2>2
<1>2. QED
  BY <1>1 DEF PollDisconnected, CommandsOK

LEMMA PollFailedKeeps ==
  ASSUME EntriesOK, StatesOK, CommandsOK, NEW r \in Responses, PollFailed(r),
         UNCHANGED proxy_entries
  PROVE  EntriesOK' /\ StatesOK' /\ CommandsOK'
<1>1. EntriesOK' /\ StatesOK'
  <2>1. CASE Known(r.id) /\ r.payload.cmd = "remove_server"
    <3> DEFINE t == [proxy_states[r.id] EXCEPT !.pending_remove = None]
    <3>1. proxy_states[r.id] \in States /\ TabIn(proxy_states[r.id])
      BY <2>1 DEF StatesOK, Known
    <3>2. t \in States /\ TabIn(t) /\ Update(r.id, t)
      BY <2>1, <3>1, SameTab DEF PollFailed
    <3> HIDE DEF t
    <3>3. QED
      BY <2>1, <3>2, UpdateKeeps
  <2>2. CASE ~ (Known(r.id) /\ r.payload.cmd = "remove_server")
    BY <2>2, GuiKept DEF PollFailed, gui
  <2>3. QED
    BY <2>1, <2>2
<1>2. QED
  BY <1>1 DEF PollFailed, CommandsOK

\* The tab stays, unless it is beyond a list of another length.
LEMMA PollStatusKeeps ==
  ASSUME EntriesOK, StatesOK, CommandsOK, NEW r \in Responses, PollStatus(r),
         UNCHANGED proxy_entries
  PROVE  EntriesOK' /\ StatesOK' /\ CommandsOK'
<1> DEFINE s == proxy_states[r.id]
           new == r.data.servers
           resized == Len(new) # Len(s.server_data)
           tab == IF resized /\ s.active_tab >= Len(new) /\ Len(new) > 0 THEN 0 ELSE s.active_tab
           t == [s EXCEPT !.server_data = new, !.active_tab = tab]
<1>1. /\ Known(r.id) /\ r.id \in Ids /\ r.data \in Answers /\ r.data.ok
      /\ Update(r.id, t)
      /\ IF tab < Len(new)
         THEN Queue(Send(r.id, [cmd |-> "sessions", server |-> new[tab + 1].index]))
         ELSE UNCHANGED cmd_tx
  BY ResponseParts DEF PollStatus, Answered, Usable, Take
<1>2. s \in States /\ TabIn(s)
  BY <1>1 DEF StatesOK, Known
<1>3. new \in Seq(Listed)
  BY <1>1 DEF Answers
<1>4. /\ Len(new) \in Nat /\ s.active_tab \in Nat /\ Len(s.server_data) \in Nat
      /\ s.server_data \in Seq(Listed)
  BY <1>2, <1>3 DEF States
<1>5. tab \in Nat /\ (new # <<>> => tab < Len(new))
  <2>1. tab \in Nat
    BY <1>4
  <2>2. ASSUME new # <<>>, ~ (resized /\ s.active_tab >= Len(new) /\ Len(new) > 0)
        PROVE  s.active_tab < Len(new)
    <3>1. Len(new) > 0
      BY <1>3, <1>4, <2>2, EmptySeq
    <3>2. CASE resized
      BY <1>4, <2>2, <3>1, <3>2
    <3>3. CASE ~ resized
      <4>1. s.server_data # <<>>
        BY <1>4, <3>1, <3>3
      <4>2. QED
        BY <1>2, <1>4, <3>3, <4>1 DEF TabIn
    <3>4. QED
      BY <3>2, <3>3
  <2>3. QED
    BY <1>4, <2>1, <2>2
<1>6. t \in States /\ TabIn(t)
  <2> HIDE DEF s, new, tab
  <2>1. QED
    BY <1>2, <1>3, <1>5, NewTab
<1>7. CommandsOK'
  <2>1. CASE tab < Len(new)
    <3>1. tab + 1 \in 1 .. Len(new)
      BY <1>4, <1>5, <2>1
    <3> HIDE DEF tab, new
    <3>2. new[tab + 1] \in Listed
      BY <1>3, <3>1, ElementOfSeq
    <3>3. new[tab + 1].index \in Slots
      BY <3>2 DEF Listed
    <3> DEFINE i == new[tab + 1].index
    <3>4. Queue(Send(r.id, [cmd |-> "sessions", server |-> i])) /\ i \in Slots
      BY <1>1, <2>1, <3>3
    <3> HIDE DEF i
    <3>5. QED
      BY <1>1, <3>4, PayloadKinds, CommandKinds, QueueKeeps
  <2>2. CASE ~ tab < Len(new)
    BY <1>1, <2>2 DEF CommandsOK
  <2>3. QED
    BY <2>1, <2>2
<1> HIDE DEF t
<1>8. QED
  BY <1>1, <1>6, <1>7, UpdateKeeps

\* What retain leaves, and the tab that is shown of it.
LEMMA OthersType ==
  ASSUME NEW i, NEW list \in Seq(Listed)
  PROVE  OthersThan(i, list) \in Seq(Listed)
<1> DEFINE kept == {k \in DOMAIN list : list[k].index # i}
<1>1. kept \in SUBSET (1 .. Len(list)) /\ Len(list) \in Nat
  OBVIOUS
<1>2. IsFiniteSet(1 .. Len(list)) /\ 1 .. Len(list) \in SUBSET Nat
  BY <1>1, FS_Interval
<1>3. IsFiniteSet(kept) /\ kept \in SUBSET Nat /\ \A k \in kept : list[k] \in Listed
  BY <1>1, <1>2, FS_Subset
<1> HIDE DEF kept
<1>4. [n \in 1 .. Cardinality(kept) |-> list[Nth(kept, n)]] \in Seq(Listed)
  BY <1>3, ListType
<1>5. QED
  BY <1>4 DEF OthersThan, kept

LEMMA TabAfterIn ==
  ASSUME NEW tab \in Nat, NEW left \in Seq(Listed)
  PROVE  TabAfter(tab, left) \in Nat /\ (left # <<>> => TabAfter(tab, left) < Len(left))
<1>1. CASE left = <<>>
  BY <1>1 DEF TabAfter
<1>2. CASE left # <<>>
  <2>1. Len(left) \in Nat \ {0}
    BY <1>2, EmptySeq
  <2>2. QED
    BY <1>2, <2>1 DEF TabAfter
<1>3. QED
  BY <1>1, <1>2

LEMMA PollRemovedKeeps ==
  ASSUME EntriesOK, StatesOK, CommandsOK, NEW r \in Responses, PollRemoved(r),
         UNCHANGED proxy_entries
  PROVE  EntriesOK' /\ StatesOK' /\ CommandsOK'
<1> DEFINE s == proxy_states[r.id]
           i == s.pending_remove
           left == OthersThan(i, s.server_data)
           tab == TabAfter(s.active_tab, left)
           t == [s EXCEPT !.pending_remove = None, !.server_data = left, !.active_tab = tab]
<1>1. /\ Known(r.id) /\ r.id \in Ids /\ Queue(RequestStatus(r.id))
      /\ IF i = None THEN UNCHANGED proxy_states ELSE Update(r.id, t)
  BY ResponseParts DEF PollRemoved, Answered, Usable
<1>2. s \in States
  BY <1>1 DEF StatesOK, Known
<1>3. s.server_data \in Seq(Listed) /\ s.active_tab \in Nat
  BY <1>2 DEF States
<1>4. left \in Seq(Listed)
  BY <1>3, OthersType
<1>5. tab \in Nat /\ (left # <<>> => tab < Len(left))
  BY <1>3, <1>4, TabAfterIn
<1>6. t \in States /\ TabIn(t)
  <2> HIDE DEF s, left, tab
  <2>1. QED
    BY <1>2, <1>4, <1>5, NewTab
<1>7. CommandsOK'
  BY <1>1, CommandKinds, QueueKeeps
<1> HIDE DEF t
<1>8. EntriesOK' /\ StatesOK'
  BY <1>1, <1>6, UpdateKeeps, GuiKept DEF gui
<1>9. QED
  BY <1>7, <1>8

LEMMA PollKeeps ==
  ASSUME TInv, Poll
  PROVE  TInv'
<1> DEFINE r == Head(resp_rx)
<1>1. /\ resp_rx # <<>> /\ resp_rx' = Tail(resp_rx)
      /\ UNCHANGED <<proxy_entries, conns, sending, proxies, steps, history>>
      /\ \/ PollConnected(r) \/ PollDisconnected(r) \/ PollFailed(r)
         \/ PollStatus(r) \/ PollSessions(r) \/ PollDone(r) \/ PollRemoved(r)
  BY DEF Poll
<1>2. r \in Responses /\ ResponsesOK'
  BY <1>1, TakeResponse DEF TInv
<1> HIDE DEF r
<1>3. EntriesOK' /\ StatesOK' /\ CommandsOK'
  <2>1. CASE PollSessions(r)
    BY <1>1, <2>1, GuiKept DEF PollSessions, TInv, gui, CommandsOK
  <2>2. CASE PollDone(r)
    <3>1. r.id \in Ids /\ Queue(RequestStatus(r.id)) /\ UNCHANGED gui
      BY <1>1, <1>2, <2>2, ResponseParts DEF PollDone, gui
    <3>2. QED
      BY <3>1, GuiKept, CommandKinds, QueueKeeps DEF TInv
  <2>3. QED
    BY <1>1, <1>2, <2>1, <2>2, PollConnectedKeeps, PollDisconnectedKeeps, PollFailedKeeps,
       PollStatusKeeps, PollRemovedKeeps DEF TInv
<1>4. QED
  BY <1>1, <1>2, <1>3 DEF TInv, ConnsOK, ServersOK, LateOK, StepsOK, proxies

-----------------------------------------------------------------------------
(* The user, and the refresh timer.                                         *)

LEMMA ElsewhereKept ==
  ASSUME TInv, EntriesOK', StatesOK', CommandsOK', StepsOK',
         UNCHANGED <<resp_rx, conns, sending, proxies>>
  PROVE  TInv'
BY DEF TInv, ResponsesOK, ConnsOK, ServersOK, LateOK, proxies

LEMMA OnlyQueues ==
  ASSUME TInv, UNCHANGED <<gui, resp_rx, conns, sending, proxies>>, Step \/ UNCHANGED steps,
         NEW c \in Commands, Queue(c)
  PROVE  TInv'
<1>1. EntriesOK' /\ StatesOK' /\ CommandsOK'
  BY GuiKept, QueueKeeps DEF TInv
<1>2. StepsOK'
  BY StepKeeps DEF TInv, StepsOK
<1>3. QED
  BY <1>1, <1>2, ElsewhereKept

LEMMA OnlyUpdates ==
  ASSUME TInv, UNCHANGED <<proxy_entries, resp_rx, conns, sending, proxies>>, Step,
         NEW id, Known(id), NEW state \in States, TabIn(state), Update(id, state),
         CommandsOK'
  PROVE  TInv'
<1>1. EntriesOK' /\ StatesOK' /\ StepsOK'
  BY UpdateKeeps, StepKeeps DEF TInv
<1>2. QED
  BY <1>1, ElsewhereKept

\* What the controls of an entry can be about.
LEMMA KnownState ==
  ASSUME TInv, NEW id, Known(id)
  PROVE  /\ proxy_states[id] \in States /\ TabIn(proxy_states[id]) /\ proxy_entries[id] \in Hosts
         /\ ShownServer(id) \in Slots \cup {None}
<1> DEFINE s == proxy_states[id]
<1>1. s \in States /\ TabIn(s) /\ proxy_entries[id] \in Hosts
  BY DEF TInv, StatesOK, EntriesOK, Known
<1> HIDE DEF s
<1>2. CASE s.active_tab < Len(s.server_data)
  <2>1. s.active_tab + 1 \in 1 .. Len(s.server_data) /\ s.server_data \in Seq(Listed)
    BY <1>1, <1>2 DEF States
  <2>2. s.server_data[s.active_tab + 1] \in Listed
    BY <2>1, ElementOfSeq
  <2>3. QED
    BY <1>1, <1>2, <2>2 DEF ShownServer, Listed, s
<1>3. CASE ~ s.active_tab < Len(s.server_data)
  BY <1>1, <1>3 DEF ShownServer, s
<1>4. QED
  BY <1>2, <1>3

LEMMA ButtonsKeep ==
  ASSUME TInv, NEW id \in Ids,
         \/ AutoRefresh(id) \/ ClickConnect(id) \/ ClickDisconnect(id)
         \/ \E c \in Payload : ClickCommand(id, c)
  PROVE  TInv'
<1>1. CASE AutoRefresh(id)
  BY <1>1, CommandKinds, OnlyQueues DEF AutoRefresh
<1>2. CASE ClickConnect(id)
  BY <1>2, KnownState, CommandKinds, OnlyQueues DEF ClickConnect, Click
<1>3. CASE ClickDisconnect(id)
  BY <1>3, CommandKinds, OnlyQueues DEF ClickDisconnect, Click
<1>4. ASSUME NEW c \in Payload, ClickCommand(id, c) PROVE TInv'
  BY <1>4, CommandKinds, OnlyQueues DEF ClickCommand, Click
<1>5. QED
  BY <1>1, <1>2, <1>3, <1>4

LEMMA TabsKeep ==
  ASSUME TInv, NEW id \in Ids,
         \/ \E k \in Nat : SelectTab(id, k)
         \/ AskRemove(id) \/ CancelRemove(id) \/ ConfirmRemove(id)
  PROVE  TInv'
<1> DEFINE s == proxy_states[id]
<1>1. Known(id) /\ Step
  BY DEF SelectTab, AskRemove, CancelRemove, ConfirmRemove, Click
<1>2. s \in States /\ TabIn(s) /\ ShownServer(id) \in Slots \cup {None}
  BY <1>1, KnownState
<1>3. ASSUME NEW k \in Nat, SelectTab(id, k) PROVE TInv'
  <2> DEFINE t == [s EXCEPT !.active_tab = k]
  <2>1. k < Len(s.server_data) /\ Update(id, t)
    BY <1>3 DEF SelectTab
  <2>2. t \in States /\ TabIn(t)
    <3> HIDE DEF s
    <3>1. QED
      BY <1>2, <2>1 DEF States, TabIn
  <2>3. CommandsOK' /\ UNCHANGED <<proxy_entries, resp_rx, conns, sending, proxies>>
    BY <1>3 DEF SelectTab, TInv, CommandsOK
  <2> HIDE DEF t
  <2>4. QED
    BY <1>1, <2>1, <2>2, <2>3, OnlyUpdates
<1>4. CASE AskRemove(id)
  <2> DEFINE t == [s EXCEPT !.confirm_remove = ShownServer(id)]
  <2>1. Update(id, t)
    BY <1>4 DEF AskRemove
  <2>2. t \in States /\ TabIn(t)
    BY <1>2, SameTab
  <2>3. CommandsOK' /\ UNCHANGED <<proxy_entries, resp_rx, conns, sending, proxies>>
    BY <1>4 DEF AskRemove, TInv, CommandsOK
  <2> HIDE DEF t
  <2>4. QED
    BY <1>1, <2>1, <2>2, <2>3, OnlyUpdates
<1>5. CASE CancelRemove(id)
  <2> DEFINE t == [s EXCEPT !.confirm_remove = None]
  <2>1. Update(id, t)
    BY <1>5 DEF CancelRemove
  <2>2. t \in States /\ TabIn(t)
    BY <1>2, SameTab
  <2>3. CommandsOK' /\ UNCHANGED <<proxy_entries, resp_rx, conns, sending, proxies>>
    BY <1>5 DEF CancelRemove, TInv, CommandsOK
  <2> HIDE DEF t
  <2>4. QED
    BY <1>1, <2>1, <2>2, <2>3, OnlyUpdates
<1>6. CASE ConfirmRemove(id)
  <2> DEFINE i == s.confirm_remove
             t == [s EXCEPT !.confirm_remove = None, !.pending_remove = i]
  <2>1. /\ i # None /\ Update(id, t)
        /\ Queue(Send(id, [cmd |-> "remove_server", server |-> i]))
        /\ UNCHANGED <<proxy_entries, resp_rx, conns, sending, proxies>>
    BY <1>6 DEF ConfirmRemove
  <2>2. i \in Slots
    BY <1>2, <2>1 DEF States
  <2>3. t \in States /\ TabIn(t)
    BY <1>2, <2>2, SameTab
  <2> HIDE DEF i, t
  <2>4. CommandsOK'
    BY <2>1, <2>2, PayloadKinds, CommandKinds, QueueKeeps DEF TInv
  <2>5. QED
    BY <1>1, <2>1, <2>3, <2>4, OnlyUpdates
<1>7. QED
  BY <1>3, <1>4, <1>5, <1>6

\* Entries come, change and go, each with its state.
LEMMA EntriesKeep ==
  ASSUME TInv, \/ \E h \in Hosts : AddEntry(h)
               \/ \E id \in Ids, h \in Hosts : UpdateEntry(id, h)
               \/ \E id \in Ids : RemoveEntry(id)
  PROVE  TInv'
<1>1. EntriesOK /\ StatesOK /\ CommandsOK
  BY DEF TInv
<1>2. ASSUME NEW h \in Hosts, AddEntry(h) PROVE TInv'
  <2> DEFINE id == next_id
  <2>1. /\ id \in Ids
        /\ proxy_entries' = With(proxy_entries, id, h)
        /\ proxy_states' = With(proxy_states, id, NewState)
        /\ UNCHANGED <<cmd_tx, resp_rx, conns, sending, proxies>>
    BY <1>2 DEF AddEntry
  <2> HIDE DEF id
  <2>2. DOMAIN proxy_states = DOMAIN proxy_entries
    BY <1>1 DEF StatesOK
  <2>3. EntriesOK'
    BY <1>1, <2>1 DEF EntriesOK, With
  <2>4. StatesOK'
    <3>1. /\ DOMAIN proxy_entries' = DOMAIN proxy_entries \cup {id}
          /\ proxy_states' = [k \in DOMAIN proxy_entries \cup {id} |->
                                IF k = id THEN NewState ELSE proxy_states[k]]
      BY <2>1, <2>2 DEF With
    <3>2. \A k \in DOMAIN proxy_entries \cup {id} : proxy_states'[k] \in States /\ TabIn(proxy_states'[k])
      BY <1>1, <3>1, NewStateType DEF StatesOK
    <3>3. proxy_states' \in [DOMAIN proxy_entries \cup {id} -> States]
      BY <3>1, <3>2
    <3>4. QED
      BY <3>1, <3>2, <3>3 DEF StatesOK
  <2>5. CommandsOK' /\ StepsOK'
    BY <1>2, <2>1, StepKeeps DEF AddEntry, Click, TInv, CommandsOK
  <2>6. QED
    BY <2>1, <2>3, <2>4, <2>5, ElsewhereKept
<1>3. ASSUME NEW id \in Ids, NEW h \in Hosts, UpdateEntry(id, h) PROVE TInv'
  <2>1. /\ Known(id) /\ proxy_entries' = [proxy_entries EXCEPT ![id] = h] /\ Step
        /\ UNCHANGED <<proxy_states, cmd_tx, resp_rx, conns, sending, proxies>>
    BY <1>3 DEF UpdateEntry, Click
  <2>2. EntriesOK' /\ DOMAIN proxy_entries' = DOMAIN proxy_entries
    BY <1>1, <2>1 DEF EntriesOK
  <2>3. StatesOK' /\ CommandsOK'
    BY <1>1, <2>1, <2>2 DEF StatesOK, CommandsOK
  <2>4. QED
    BY <2>1, <2>2, <2>3, StepKeeps, ElsewhereKept DEF TInv
<1>4. ASSUME NEW id \in Ids, RemoveEntry(id) PROVE TInv'
  <2>1. /\ IF proxy_states[id].connected THEN Queue(Disconnect(id)) ELSE UNCHANGED cmd_tx
        /\ proxy_states' = Without(proxy_states, id)
        /\ proxy_entries' = Without(proxy_entries, id) /\ Step
        /\ UNCHANGED <<resp_rx, conns, sending, proxies>>
    BY <1>4 DEF RemoveEntry, StatesLeft, Click
  <2>2. DOMAIN proxy_states = DOMAIN proxy_entries
    BY <1>1 DEF StatesOK
  <2>3. EntriesOK'
    BY <1>1, <2>1 DEF EntriesOK, Without
  <2>4. StatesOK'
    <3>1. /\ DOMAIN proxy_entries' = DOMAIN proxy_entries \ {id}
          /\ proxy_states' = [k \in DOMAIN proxy_entries \ {id} |-> proxy_states[k]]
      BY <2>1, <2>2 DEF Without
    <3>2. QED
      BY <1>1, <3>1 DEF StatesOK
  <2>5. CommandsOK'
    BY <1>1, <2>1, CommandKinds, QueueKeeps DEF CommandsOK
  <2>6. QED
    BY <2>1, <2>3, <2>4, <2>5, StepKeeps, ElsewhereKept DEF TInv
<1>5. QED
  BY <1>2, <1>3, <1>4

-----------------------------------------------------------------------------
(* The worker.                                                              *)

LEMMA CommandParts ==
  ASSUME NEW c \in Commands
  PROVE  /\ c.id \in Ids
         /\ c.kind = "Connect" => c.host \in Hosts
         /\ c.kind = "Send" => c \in Sends /\ c.payload \in Payload
BY DEF Commands, Sends

LEMMA NextCommandParts ==
  ASSUME CommandsOK, NEW kind, NextCommand(kind)
  PROVE  /\ Head(cmd_tx) \in Commands /\ Tail(cmd_tx) \in Seq(Commands)
         /\ sending = None /\ Head(cmd_tx).kind = kind
BY TakeCommand DEF NextCommand

LEMMA NewConnection ==
  ASSUME ConnsOK, sending = None, UNCHANGED sending, NEW id \in Ids, NEW h \in Hosts,
         conns' = With(conns, id, Connection(h))
  PROVE  ConnsOK'
<1>1. DOMAIN conns' = DOMAIN conns \cup {id}
  BY DEF With
<1>2. \A k \in DOMAIN conns' : conns'[k] = IF k = id THEN Connection(h) ELSE conns[k]
  BY DEF With
<1>3. Connection(h) \in Connections /\ Idle(Connection(h))
  <2>1. <<>> \in Seq(Payload) /\ <<>> \in Seq(Answers)
    OBVIOUS
  <2>2. QED
    BY <2>1 DEF Connection, Connections, Idle
<1>4. \A k \in DOMAIN conns' : conns'[k] \in Connections /\ Idle(conns'[k])
  BY <1>1, <1>2, <1>3 DEF ConnsOK
<1>5. conns' \in [DOMAIN conns' -> Connections]
  BY <1>1, <1>4 DEF With
<1>6. QED
  BY <1>1, <1>4, <1>5 DEF ConnsOK

LEMMA ClosedConnection ==
  ASSUME ConnsOK, NEW id, sending # None => sending.id = id, sending' = None,
         conns' = Without(conns, id)
  PROVE  ConnsOK'
<1>1. DOMAIN conns' = DOMAIN conns \ {id}
  BY DEF Without
<1>2. \A k \in DOMAIN conns' : conns'[k] = conns[k]
  BY DEF Without
<1>3. \A k \in DOMAIN conns' : conns'[k] \in Connections /\ Idle(conns'[k])
  BY <1>1, <1>2 DEF ConnsOK
<1>4. conns' \in [DOMAIN conns' -> Connections]
  BY <1>1, <1>3 DEF Without
<1>5. QED
  BY <1>1, <1>3, <1>4 DEF ConnsOK

\* Only one connection changes, and it is or becomes the one that is waited for.
LEMMA ChangedConnection ==
  ASSUME ConnsOK, NEW id \in DOMAIN conns, NEW conn \in Connections,
         conns' = [conns EXCEPT ![id] = conn],
         sending # None => sending.id = id,
         \/ sending' = None /\ Idle(conn)
         \/ sending' \in Sends /\ sending' # None /\ sending'.id = id /\ Busy(conn, sending'.payload)
  PROVE  ConnsOK'
<1>1. DOMAIN conns' = DOMAIN conns /\ conns' \in [DOMAIN conns' -> Connections]
  BY DEF ConnsOK
<1>2. \A k \in DOMAIN conns' : conns'[k] = IF k = id THEN conn ELSE conns[k]
  BY DEF ConnsOK
<1>3. \A k \in DOMAIN conns' : k # id => Idle(conns'[k])
  BY <1>1, <1>2 DEF ConnsOK
<1>4. QED
  BY <1>1, <1>2, <1>3 DEF ConnsOK

LEMMA WorkerKept ==
  ASSUME TInv, UNCHANGED <<gui, servers>>, CommandsOK', ResponsesOK', ConnsOK', LateOK', StepsOK'
  PROVE  TInv'
BY GuiKept DEF TInv, ServersOK

\* A command that needs no answer.
LEMMA WorkerActsKeeps ==
  ASSUME TInv, WorkerConnects \/ WorkerConnectFails \/ WorkerDisconnects \/ WorkerCannotSend
  PROVE  TInv'
<1> DEFINE c == Head(cmd_tx)
<1>1. /\ c \in Commands /\ c.id \in Ids /\ sending = None /\ UNCHANGED <<sending, gui, proxies>>
      /\ cmd_tx' = Tail(cmd_tx) /\ CommandsOK' /\ StepsOK'
  <2>1. /\ \E kind : NextCommand(kind)
        /\ cmd_tx' = Tail(cmd_tx) /\ (Step \/ UNCHANGED steps)
        /\ UNCHANGED <<gui, proxies, sending>>
    BY DEF WorkerConnects, WorkerConnectFails, WorkerDisconnects, WorkerCannotSend
  <2>2. c \in Commands /\ Tail(cmd_tx) \in Seq(Commands) /\ sending = None
    BY <2>1, NextCommandParts DEF TInv
  <2>3. StepsOK'
    BY <2>1, StepKeeps DEF TInv, StepsOK
  <2>4. QED
    BY <2>1, <2>2, <2>3, CommandParts DEF CommandsOK
<1>2. UNCHANGED <<gui, servers>> /\ LateOK'
  BY <1>1 DEF TInv, LateOK, proxies
<1>3. ConnsOK
  BY DEF TInv
<1>4. CASE WorkerConnects
  <2>1. /\ c.kind = "Connect" /\ conns' = With(conns, c.id, Connection(c.host))
        /\ Report(Connected(c.id, TRUE))
    BY <1>4 DEF WorkerConnects, NextCommand
  <2>2. c.host \in Hosts
    BY <1>1, <2>1, CommandParts
  <2> HIDE DEF c
  <2>3. ConnsOK'
    BY <1>1, <1>3, <2>1, <2>2, NewConnection
  <2>4. ResponsesOK'
    <3>1. Connected(c.id, TRUE) \in Responses /\ Matches(Connected(c.id, TRUE))
      BY <1>1, ResponseKinds DEF Connected, Matches
    <3>2. QED
      BY <2>1, <3>1, ReportKeeps DEF TInv
  <2>5. QED
    BY <1>1, <1>2, <2>3, <2>4, WorkerKept
<1>5. CASE WorkerConnectFails \/ WorkerDisconnects
  <2>1. /\ conns' = Without(conns, c.id)
        /\ Report(Connected(c.id, FALSE)) \/ Report(Disconnected(c.id))
    BY <1>5 DEF WorkerConnectFails, WorkerDisconnects, ConnsAfterFailure
  <2> HIDE DEF c
  <2>2. ConnsOK'
    BY <1>1, <1>3, <2>1, ClosedConnection
  <2>3. ResponsesOK'
    <3>1. /\ Connected(c.id, FALSE) \in Responses /\ Disconnected(c.id) \in Responses
          /\ Matches(Connected(c.id, FALSE)) /\ Matches(Disconnected(c.id))
      BY <1>1, ResponseKinds DEF Connected, Disconnected, Matches
    <3>2. QED
      BY <2>1, <3>1, ReportKeeps DEF TInv
  <2>4. QED
    BY <1>1, <1>2, <2>2, <2>3, WorkerKept
<1>6. CASE WorkerCannotSend
  <2>1. c.kind = "Send" /\ Report(CmdResult(c.id, c.payload, None)) /\ UNCHANGED conns
    BY <1>6 DEF WorkerCannotSend, NextCommand
  <2>2. c.payload \in Payload
    BY <1>1, <2>1, CommandParts
  <2> HIDE DEF c
  <2>3. ConnsOK'
    BY <1>1, <1>3, <2>1 DEF ConnsOK
  <2>4. ResponsesOK'
    <3>1. /\ CmdResult(c.id, c.payload, None) \in Responses
          /\ Matches(CmdResult(c.id, c.payload, None))
      BY <1>1, <2>2, ResponseKinds DEF CmdResult, Matches
    <3>2. QED
      BY <2>1, <3>1, ReportKeeps DEF TInv
  <2>5. QED
    BY <1>1, <1>2, <2>3, <2>4, WorkerKept
<1>7. QED
  BY <1>4, <1>5, <1>6

\* A line is sent on a connection on which nothing is under way, ...
LEMMA WorkerSendsKeeps ==
  ASSUME TInv, WorkerSends
  PROVE  TInv'
<1> DEFINE c == Head(cmd_tx)
           conn == [conns[c.id] EXCEPT !.lines = Append(@, c.payload)]
<1>1. /\ sending = None /\ c.kind = "Send" /\ c.id \in DOMAIN conns
      /\ conns' = [conns EXCEPT ![c.id] = conn]
      /\ sending' = c /\ cmd_tx' = Tail(cmd_tx)
      /\ UNCHANGED <<gui, resp_rx, proxies, steps>>
  BY DEF WorkerSends, NextCommand
<1>2. c \in Sends /\ c.payload \in Payload /\ CommandsOK' /\ c # None
  <2>1. c \in Commands /\ Tail(cmd_tx) \in Seq(Commands)
    BY NextCommandParts DEF TInv, WorkerSends
  <2>2. QED
    BY <1>1, <2>1, CommandParts, NoneAssumption DEF CommandsOK
<1>3. conn \in Connections /\ Busy(conn, c.payload)
  <2>1. conns[c.id] \in Connections /\ Idle(conns[c.id])
    BY <1>1 DEF TInv, ConnsOK
  <2>2. Append(<<>>, c.payload) = <<c.payload>> /\ <<c.payload>> \in Seq(Payload)
    BY <1>2
  <2>3. conn = [conns[c.id] EXCEPT !.lines = <<c.payload>>]
    BY <2>1, <2>2 DEF Idle
  <2> HIDE DEF conn, c
  <2>4. QED
    BY <2>1, <2>2, <2>3 DEF Connections, Idle, Busy
<1> HIDE DEF conn, c
<1>4. ConnsOK'
  BY <1>1, <1>2, <1>3, ChangedConnection DEF TInv
<1>5. ResponsesOK' /\ LateOK' /\ StepsOK' /\ UNCHANGED <<gui, servers>>
  BY <1>1 DEF TInv, ResponsesOK, LateOK, StepsOK, proxies
<1>6. QED
  BY <1>2, <1>4, <1>5, WorkerKept

LEMMA OnlyElement ==
  ASSUME NEW T, NEW s \in Seq(T), Len(s) = 1
  PROVE  Head(s) = s[1] /\ s[1] \in T /\ Tail(s) = <<>>
<1>1. s # <<>>
  BY EmptySeq
<1>2. Head(s) = s[1] /\ s[1] \in T
  BY <1>1, ElementOfSeq
<1>3. Tail(s) \in Seq(T) /\ Len(Tail(s)) = 0
  BY <1>1, HeadTailProperties
<1>4. QED
  BY <1>2, <1>3, EmptySeq

\* ... so that the next answer on it is the answer to that line.
LEMMA WorkerReadsKeeps ==
  ASSUME TInv, WorkerReads
  PROVE  TInv'
<1> DEFINE id == sending.id
           a == Head(conns[id].answers)
           conn == [conns[id] EXCEPT !.answers = Tail(@)]
<1>1. /\ sending # None /\ conns[id].answers # <<>>
      /\ Report(CmdResult(id, sending.payload, a))
      /\ conns' = [conns EXCEPT ![id] = conn] /\ sending' = None
      /\ UNCHANGED <<gui, cmd_tx, proxies, steps>>
  BY DEF WorkerReads
<1>2. /\ sending \in Sends /\ id \in DOMAIN conns /\ id \in Ids
      /\ conns[id] \in Connections /\ Busy(conns[id], sending.payload)
      /\ sending.payload \in Payload
  BY <1>1 DEF TInv, ConnsOK, Sends
<1>3. /\ conns[id].lines = <<>> /\ conns[id].answers \in Seq(Answers)
      /\ Len(conns[id].answers) = 1 /\ conns[id].answers[1].to = sending.payload
  BY <1>1, <1>2 DEF Busy, Connections
<1>4. a \in Answers /\ a.to = sending.payload /\ Tail(conns[id].answers) = <<>>
  BY <1>3, OnlyElement
<1>5. conn \in Connections /\ Idle(conn)
  <2>1. conn = [conns[id] EXCEPT !.answers = <<>>]
    BY <1>4
  <2> HIDE DEF conn, id
  <2>2. QED
    BY <1>2, <1>3, <2>1 DEF Connections, Idle
<1> HIDE DEF conn, a
<1>6. ConnsOK'
  BY <1>1, <1>2, <1>5, ChangedConnection DEF TInv
<1>7. ResponsesOK'
  <2>1. /\ CmdResult(id, sending.payload, a) \in Responses
        /\ Matches(CmdResult(id, sending.payload, a))
    BY <1>2, <1>4, ResponseKinds DEF CmdResult, Matches
  <2>2. QED
    BY <1>1, <2>1, ReportKeeps DEF TInv
<1>8. CommandsOK' /\ LateOK' /\ StepsOK' /\ UNCHANGED <<gui, servers>>
  BY <1>1 DEF TInv, CommandsOK, LateOK, StepsOK, proxies
<1>9. QED
  BY <1>6, <1>7, <1>8, WorkerKept

\* A connection that was given up takes with it what is still to come on it.
LEMMA WorkerGivesUpKeeps ==
  ASSUME TInv, WorkerGivesUp
  PROVE  TInv'
<1> DEFINE id == sending.id
<1>1. /\ Step /\ sending # None /\ conns' = Without(conns, id) /\ sending' = None
      /\ late' = late \cup {<<conns[id].host, c>> :
                              c \in ToSet(conns[id].lines) \ {[cmd |-> "status"]}}
      /\ Report(CmdResult(id, sending.payload, None))
      /\ UNCHANGED <<gui, cmd_tx, servers>>
  BY DEF WorkerGivesUp, ConnsAfterError
<1>2. /\ id \in DOMAIN conns /\ id \in Ids /\ conns[id] \in Connections
      /\ sending.payload \in Payload
  BY <1>1 DEF TInv, ConnsOK, Sends
<1>3. ConnsOK'
  BY <1>1, ClosedConnection DEF TInv
<1>4. ResponsesOK'
  <2>1. /\ CmdResult(id, sending.payload, None) \in Responses
        /\ Matches(CmdResult(id, sending.payload, None))
    BY <1>2, ResponseKinds DEF CmdResult, Matches
  <2>2. QED
    BY <1>1, <2>1, ReportKeeps DEF TInv
<1>5. LateOK'
  <2> HIDE DEF id
  <2>1. conns[id].host \in Hosts /\ conns[id].lines \in Seq(Payload)
    BY <1>2 DEF Connections
  <2>2. \A c \in ToSet(conns[id].lines) : c \in Payload
    BY <2>1 DEF ToSet
  <2>3. QED
    BY <1>1, <2>1, <2>2 DEF LateOK, TInv
<1>6. QED
  BY <1>1, <1>3, <1>4, <1>5, StepKeeps, WorkerKept DEF TInv, CommandsOK

-----------------------------------------------------------------------------
(* The proxies and other administrators.                                    *)

\* Only the line that the worker waits for is there to be answered.
LEMMA ProxyAnswersKeeps ==
  ASSUME TInv, NEW id \in Ids, ProxyAnswers(id)
  PROVE  TInv'
<1> DEFINE h == conns[id].host
           c == Head(conns[id].lines)
           conn == [conns[id] EXCEPT !.lines = Tail(@), !.answers = Append(@, Answer(h, c))]
<1>1. /\ id \in DOMAIN conns /\ conns[id].lines # <<>>
      /\ servers' = [servers EXCEPT ![h] = Executed(h, c)]
      /\ conns' = [conns EXCEPT ![id] = conn]
      /\ UNCHANGED <<gui, cmd_tx, resp_rx, sending, late, steps>>
  BY DEF ProxyAnswers
<1>2. /\ sending # None /\ sending.id = id /\ sending \in Sends
      /\ conns[id] \in Connections /\ Busy(conns[id], sending.payload)
  BY <1>1 DEF TInv, ConnsOK, Idle
<1>3. /\ conns[id].lines = <<sending.payload>> /\ conns[id].answers = <<>>
      /\ h \in Hosts /\ sending.payload \in Payload
  BY <1>1, <1>2 DEF Busy, Connections, Sends
<1>4. c = sending.payload /\ Tail(conns[id].lines) = <<>> /\ ServersOK
  BY <1>3 DEF TInv
<1> DEFINE a == Answer(h, c)
<1>5. a \in Answers /\ a.to = sending.payload
  BY <1>3, <1>4, AnswerType
<1>6. conn = [conns[id] EXCEPT !.lines = <<>>, !.answers = <<a>>]
  BY <1>3, <1>4
<1>7. ServersOK'
  BY <1>1, <1>3, <1>4, ExecutedType DEF ServersOK
<1> HIDE DEF conn, a, c, h
<1>8. conn \in Connections /\ Busy(conn, sending.payload)
  <2>1. /\ <<>> \in Seq(Payload) /\ <<a>> \in Seq(Answers) /\ Len(<<a>>) = 1
        /\ <<a>>[1] = a
    BY <1>5
  <2>2. QED
    BY <1>2, <1>5, <1>6, <2>1 DEF Connections, Busy
<1>9. ConnsOK'
  BY <1>1, <1>2, <1>8, ChangedConnection DEF TInv
<1>10. QED
  BY <1>1, <1>7, <1>9, GuiKept DEF TInv, CommandsOK, ResponsesOK, LateOK, StepsOK

LEMMA OthersKeep ==
  ASSUME TInv, NEW h \in Hosts, NEW c \in Payload, ProxyExecutesLate(h, c) \/ OthersCommand(h, c)
  PROVE  TInv'
<1>1. /\ servers' = [servers EXCEPT ![h] = Executed(h, c)]
      /\ late' \subseteq late /\ (Step \/ UNCHANGED steps)
      /\ UNCHANGED <<gui, cmd_tx, resp_rx, conns, sending>>
  BY DEF ProxyExecutesLate, OthersCommand
<1>2. ServersOK'
  BY <1>1, ExecutedType DEF TInv, ServersOK
<1>3. StepsOK'
  BY <1>1, StepKeeps DEF TInv, StepsOK
<1>4. QED
  BY <1>1, <1>2, <1>3, GuiKept DEF TInv, CommandsOK, ResponsesOK, ConnsOK, LateOK

-----------------------------------------------------------------------------
(* Every behaviour.                                                         *)

LEMMA FirstCommands ==
  ASSUME Init, NEW auto \in SUBSET DOMAIN proxy_entries
  PROVE  /\ EntriesOK /\ auto \in SUBSET Nat /\ IsFiniteSet(auto) /\ DOMAIN conns = {}
         /\ \A id \in auto : Connect(id, proxy_entries[id]) \in Commands
<1>1. proxy_entries \in UNION {[S -> Hosts] : S \in SUBSET Ids}
  BY FirstAssumption DEF Init
<1>2. PICK S \in SUBSET Ids : proxy_entries \in [S -> Hosts]
  BY <1>1
<1>3. EntriesOK
  BY <1>2 DEF EntriesOK
<1>4. auto \in SUBSET Ids /\ auto \in SUBSET Nat /\ IsFiniteSet(auto)
  BY <1>3, IdsAssumption, FS_Subset DEF EntriesOK
<1>5. \A id \in auto : Connect(id, proxy_entries[id]) \in Commands
  BY <1>3, <1>4, CommandKinds DEF EntriesOK
<1>6. DOMAIN conns = {}
  BY DEF Init
<1>7. QED
  BY <1>3, <1>4, <1>5, <1>6

LEMMA InitTInv == Init => TInv
<1> SUFFICES ASSUME Init PROVE TInv
  OBVIOUS
<1>1. EntriesOK /\ DOMAIN conns = {}
  BY FirstCommands
<1>2. StatesOK
  BY NewStateType DEF Init, StatesOK
<1>3. CommandsOK
  <2>1. PICK auto \in SUBSET DOMAIN proxy_entries :
          cmd_tx = [k \in 1 .. Cardinality(auto) |->
                      Connect(Nth(auto, k), proxy_entries[Nth(auto, k)])]
    BY DEF Init
  <2> DEFINE f == [id \in auto |-> Connect(id, proxy_entries[id])]
  <2>2. auto \in SUBSET Nat /\ IsFiniteSet(auto) /\ \A id \in auto : f[id] \in Commands
    BY FirstCommands
  <2>3. cmd_tx = [k \in 1 .. Cardinality(auto) |-> f[Nth(auto, k)]]
    BY <2>1, <2>2, NthExists
  <2> HIDE DEF f
  <2>4. QED
    BY <2>2, <2>3, ListType DEF CommandsOK
<1>4. ResponsesOK
  <2>1. resp_rx = <<>> /\ resp_rx \in Seq(Responses) /\ Len(resp_rx) = 0
    BY DEF Init
  <2>2. QED
    BY <2>1 DEF ResponsesOK
<1>5. ConnsOK
  BY <1>1 DEF Init, ConnsOK
<1>6. ServersOK /\ LateOK /\ StepsOK
  BY FirstAssumption, BoundAssumption DEF Init, ServersOK, LateOK, StepsOK
<1>7. QED
  BY <1>1, <1>2, <1>3, <1>4, <1>5, <1>6 DEF TInv

LEMMA NextTInv ==
  ASSUME TInv, [Next]_vars
  PROVE  TInv'
<1>1. CASE UNCHANGED vars
  BY <1>1, GuiKept DEF vars, proxies, TInv, CommandsOK, ResponsesOK, ConnsOK, ServersOK,
     LateOK, StepsOK
<1>2. CASE Poll
  BY <1>2, PollKeeps
<1>3. ASSUME NEW id \in Ids, AutoRefresh(id) PROVE TInv'
  BY <1>3, ButtonsKeep
<1>4. CASE User
  <2>1. PICK id \in Ids :
          \/ ClickConnect(id) \/ ClickDisconnect(id) \/ RemoveEntry(id)
          \/ \E h \in Hosts : UpdateEntry(id, h)
          \/ \E k \in 0 .. Cardinality(Slots) : SelectTab(id, k)
          \/ AskRemove(id) \/ CancelRemove(id) \/ ConfirmRemove(id)
          \/ \E c \in Payload : ClickCommand(id, c)
    BY <1>4 DEF User
  <2>2. 0 .. Cardinality(Slots) \subseteq Nat
    BY SlotsAssumption, FS_CardinalityType
  <2>3. QED
    BY <2>1, <2>2, ButtonsKeep, TabsKeep, EntriesKeep
<1>5. ASSUME NEW h \in Hosts, AddEntry(h) PROVE TInv'
  BY <1>5, EntriesKeep
<1>6. CASE Worker
  BY <1>6, WorkerActsKeeps, WorkerSendsKeeps, WorkerReadsKeeps, WorkerGivesUpKeeps DEF Worker
<1>7. CASE Elsewhere
  BY <1>7, ProxyAnswersKeeps, OthersKeep DEF Elsewhere
<1>8. QED
  BY <1>1, <1>2, <1>3, <1>4, <1>5, <1>6, <1>7 DEF Next

LEMMA AlwaysTInv == Spec => []TInv
<1>1. Init => TInv
  BY InitTInv
<1>2. TInv /\ [Next]_vars => TInv'
  BY NextTInv
<1>3. QED
  BY <1>1, <1>2, PTL DEF Spec

\* The channels carry what their ends understand, every entry has its state, and
\* a command waits for its answer only on a connection that there is, whatever
\* users, other administrators and the network do (app.rs:118-209, worker.rs:35-113).
THEOREM TypeCorrect == Spec => []TypeOK
<1>1. TInv => TypeOK
  BY InvariantImplies
<1>2. QED
  BY <1>1, AlwaysTInv, PTL

\* While servers are shown one of them is selected, in whatever order statuses,
\* removals and disconnections come in (app.rs:383-391, 486-490).
THEOREM TabCorrect == Spec => []TabShown
<1>1. TInv => TabShown
  BY InvariantImplies
<1>2. QED
  BY <1>1, AlwaysTInv, PTL

\* What the GUI takes for the answer to a command is the answer to it, however
\* late answers come and whichever never do (worker.rs:97-104, mgmt.c:120-126).
THEOREM AnswersCorrect == Spec => []AnswersMatch
<1>1. TInv => AnswersMatch
  BY InvariantImplies
<1>2. QED
  BY <1>1, AlwaysTInv, PTL

-----------------------------------------------------------------------------
(* What the GUI will think when it has read the responses.                  *)

LEMMA NothingToRead ==
  ASSUME resp_rx = <<>>, NEW id
  PROVE  Thought(id) <=> Flag(id)
BY DEF Thought, LastTells, Tells

LEMMA SameResponses ==
  ASSUME UNCHANGED resp_rx, NEW id, Flag(id)' <=> Flag(id)
  PROVE  Thought(id)' <=> Thought(id)
BY DEF Thought, LastTells, Tells, Yes

\* What is new in the channel is read last, ...
LEMMA AppendTells ==
  ASSUME ResponsesOK, NEW r, Report(r), NEW id
  PROVE  \A k \in 1 .. Len(resp_rx) + 1 :
           /\ k \in 1 .. Len(resp_rx) => (Tells(k, id)' <=> Tells(k, id)) /\ resp_rx'[k] = resp_rx[k]
           /\ k = Len(resp_rx) + 1 =>
                /\ resp_rx'[k] = r
                /\ Tells(k, id)' <=> r.kind \in {"Connected", "Disconnected"} /\ r.id = id
<1>1. /\ Len(resp_rx) \in Nat /\ Len(resp_rx') = Len(resp_rx) + 1
      /\ \A k \in 1 .. Len(resp_rx) : resp_rx'[k] = resp_rx[k]
      /\ resp_rx'[Len(resp_rx) + 1] = r
  BY AppendProperties DEF ResponsesOK, Report
<1>2. QED
  BY <1>1 DEF Tells

LEMMA ReportTells ==
  ASSUME ResponsesOK, NEW r, Report(r), NEW id,
         r.kind \in {"Connected", "Disconnected"}, r.id = id
  PROVE  Thought(id)' <=> Yes(r)
<1>1. PICK n \in Nat : n = Len(resp_rx) + 1
  BY DEF ResponsesOK
<1>2. Len(resp_rx') = n
  BY <1>1 DEF ResponsesOK, Report
<1>3. n \in 1 .. n
  BY <1>1 DEF ResponsesOK
<1>4. Tells(n, id)' /\ resp_rx'[n] = r
  BY <1>1, <1>3, AppendTells
<1>5. \A k \in 1 .. n : LastTells(k, id)' <=> k = n
  BY <1>2, <1>3, <1>4 DEF LastTells
<1>6. QED
  BY <1>2, <1>3, <1>4, <1>5 DEF Thought, Yes

LEMMA ReportOther ==
  ASSUME ResponsesOK, NEW r, Report(r), NEW id,
         ~ (r.kind \in {"Connected", "Disconnected"} /\ r.id = id), Flag(id)' <=> Flag(id)
  PROVE  Thought(id)' <=> Thought(id)
<1> DEFINE n == Len(resp_rx)
<1>1. n \in Nat /\ Len(resp_rx') = n + 1
  BY DEF ResponsesOK, Report
<1>2. \A k \in 1 .. Len(resp_rx') : Tells(k, id)' <=> k \in 1 .. n /\ Tells(k, id)
  BY <1>1, AppendTells
<1>3. \A k \in 1 .. n : k \in 1 .. Len(resp_rx') /\ resp_rx'[k] = resp_rx[k]
  BY <1>1, AppendTells
<1>4. \A k \in 1 .. Len(resp_rx') : LastTells(k, id)' <=> k \in 1 .. n /\ LastTells(k, id)
  BY <1>2, <1>3 DEF LastTells
<1>5. QED
  BY <1>2, <1>3, <1>4 DEF Thought, Yes

\* ... and what is read first counts only while nothing comes after it.
LEMMA TailTells ==
  ASSUME ResponsesOK, resp_rx # <<>>, resp_rx' = Tail(resp_rx), NEW id
  PROVE  /\ Len(resp_rx) \in Nat /\ Len(resp_rx) > 0 /\ Len(resp_rx') = Len(resp_rx) - 1
         /\ \A k \in 1 .. Len(resp_rx') :
              (Tells(k, id)' <=> Tells(k + 1, id)) /\ resp_rx'[k] = resp_rx[k + 1]
         /\ Tells(1, id) <=>
              Head(resp_rx).kind \in {"Connected", "Disconnected"} /\ Head(resp_rx).id = id
         /\ resp_rx[1] = Head(resp_rx)
<1>1. /\ Len(resp_rx) \in Nat /\ Len(resp_rx) > 0 /\ Len(resp_rx') = Len(resp_rx) - 1
      /\ \A k \in 1 .. Len(resp_rx') : resp_rx'[k] = resp_rx[k + 1]
      /\ resp_rx[1] = Head(resp_rx)
  BY HeadTailProperties, EmptySeq DEF ResponsesOK
<1>2. QED
  BY <1>1 DEF Tells

LEMMA ReadTells ==
  ASSUME ResponsesOK, resp_rx # <<>>, resp_rx' = Tail(resp_rx), NEW id,
         IF Head(resp_rx).kind \in {"Connected", "Disconnected"} /\ Head(resp_rx).id = id
         THEN Flag(id)' <=> Known(id) /\ Yes(Head(resp_rx))
         ELSE Flag(id)' <=> Flag(id)
  PROVE  (Thought(id)' => Thought(id)) /\ (Known(id) => (Thought(id) => Thought(id)'))
<1> DEFINE n == Len(resp_rx')
<1>1. n \in Nat /\ Len(resp_rx) = n + 1
  BY TailTells
<1>2. \A k \in 1 .. n : (Tells(k, id)' <=> Tells(k + 1, id)) /\ resp_rx'[k] = resp_rx[k + 1]
  BY TailTells
<1>3. \A k \in 1 .. n : k + 1 \in 1 .. Len(resp_rx)
  BY <1>1
<1>4. \A k \in 1 .. Len(resp_rx) : k = 1 \/ (k - 1 \in 1 .. n /\ k = (k - 1) + 1)
  BY <1>1
<1>5. 1 \in 1 .. Len(resp_rx)
  BY <1>1
<1> HIDE DEF n
<1>6. \A k \in 1 .. n : LastTells(k, id)' <=> LastTells(k + 1, id)
  <2> SUFFICES ASSUME NEW k \in 1 .. n PROVE LastTells(k, id)' <=> LastTells(k + 1, id)
    OBVIOUS
  <2>1. ASSUME LastTells(k, id)', NEW j \in 1 .. Len(resp_rx), Tells(j, id)
        PROVE  j <= k + 1
    <3>1. CASE j = 1
      BY <3>1
    <3>2. CASE j - 1 \in 1 .. n /\ j = (j - 1) + 1
      <4>1. Tells(j - 1, id)'
        BY <1>2, <2>1, <3>2
      <4>2. j - 1 <= k
        BY <2>1, <3>2, <4>1 DEF LastTells, n
      <4>3. QED
        BY <3>2, <4>2
    <3>3. QED
      BY <1>4, <3>1, <3>2
  <2>2. ASSUME LastTells(k + 1, id), NEW j \in 1 .. n, Tells(j, id)'
        PROVE  j <= k
    <3>1. Tells(j + 1, id) /\ j + 1 \in 1 .. Len(resp_rx)
      BY <1>2, <1>3, <2>2
    <3>2. j + 1 <= k + 1
      BY <2>2, <3>1 DEF LastTells
    <3>3. QED
      BY <1>1, <3>2
  <2>3. QED
    BY <1>2, <1>3, <2>1, <2>2 DEF LastTells, n
<1>7. ASSUME Thought(id)' PROVE Thought(id)
  <2>1. CASE \E k \in 1 .. n : LastTells(k, id)' /\ Yes(resp_rx'[k])
    <3>1. PICK k \in 1 .. n : LastTells(k, id)' /\ Yes(resp_rx'[k])
      BY <2>1
    <3>2. k + 1 \in 1 .. Len(resp_rx) /\ LastTells(k + 1, id) /\ Yes(resp_rx[k + 1])
      BY <1>2, <1>3, <1>6, <3>1
    <3>3. QED
      BY <3>2 DEF Thought
  <2>2. CASE (\A k \in 1 .. n : ~ Tells(k, id)') /\ Flag(id)'
    <3>1. \A k \in 1 .. Len(resp_rx) : Tells(k, id) => k = 1
      BY <1>2, <1>4, <2>2
    <3>2. CASE Tells(1, id)
      <4>1. LastTells(1, id) /\ Yes(resp_rx[1])
        BY <2>2, <3>1, <3>2, TailTells DEF LastTells
      <4>2. QED
        BY <1>5, <4>1 DEF Thought
    <3>3. CASE ~ Tells(1, id)
      <4>1. Flag(id)
        BY <2>2, <3>3, TailTells
      <4>2. QED
        BY <3>1, <3>3, <4>1 DEF Thought
    <3>4. QED
      BY <3>2, <3>3
  <2>3. QED
    BY <1>7, <2>1, <2>2 DEF Thought, Yes, n
<1>8. ASSUME Known(id), Thought(id) PROVE Thought(id)'
  <2>1. ASSUME NEW k \in 1 .. Len(resp_rx), LastTells(k, id), Yes(resp_rx[k])
        PROVE  Thought(id)'
    <3>1. CASE k = 1
      <4>1. \A j \in 1 .. n : ~ Tells(j, id)'
        <5>1. ASSUME NEW j \in 1 .. n, Tells(j, id)' PROVE FALSE
          <6>1. Tells(j + 1, id) /\ j + 1 \in 1 .. Len(resp_rx)
            BY <1>2, <1>3, <5>1
          <6>2. j + 1 <= 1
            BY <2>1, <3>1, <6>1 DEF LastTells
          <6>3. QED
            BY <1>1, <6>2
        <5>2. QED
          BY <5>1
      <4>2. Flag(id)'
        BY <1>8, <2>1, <3>1, TailTells DEF LastTells
      <4>3. QED
        BY <4>1, <4>2 DEF Thought, n
    <3>2. CASE k - 1 \in 1 .. n /\ k = (k - 1) + 1
      <4>1. LastTells(k - 1, id)' /\ Yes(resp_rx'[k - 1])
        BY <1>2, <1>6, <2>1, <3>2
      <4>2. QED
        BY <3>2, <4>1 DEF Thought, Yes, n
    <3>3. QED
      BY <1>4, <3>1, <3>2
  <2>2. ASSUME \A k \in 1 .. Len(resp_rx) : ~ Tells(k, id), Flag(id)
        PROVE  Thought(id)'
    <3>1. \A k \in 1 .. n : ~ Tells(k, id)'
      BY <1>2, <1>3, <2>2
    <3>2. Flag(id)'
      BY <1>5, <2>2, TailTells
    <3>3. QED
      BY <3>1, <3>2 DEF Thought, n
  <2>3. QED
    BY <1>8, <2>1, <2>2 DEF Thought
<1>9. QED
  BY <1>7, <1>8

-----------------------------------------------------------------------------
(* What is in the queue of commands.                                        *)

\* The first n commands are taken, and a Connect is new only for an entry there is.
Shifts(id, n) ==
  /\ \A k \in Nat : Queued("Connect", id, k)' => Queued("Connect", id, k + n) \/ Known(id)'
  /\ \A k \in Nat : k > n /\ Queued("Disconnect", id, k) => Queued("Disconnect", id, k - n)'

LEMMA SameShifts ==
  ASSUME CommandsOK, UNCHANGED cmd_tx, NEW id
  PROVE  Shifts(id, 0)
BY DEF Shifts, Queued

LEMMA QueueShifts ==
  ASSUME CommandsOK, NEW c, Queue(c), NEW id,
         c.kind = "Connect" /\ c.id = id => Known(id)'
  PROVE  Shifts(id, 0)
<1>1. PICK n \in Nat : n = Len(cmd_tx)
  BY DEF CommandsOK
<1>2. /\ Len(cmd_tx') = n + 1 /\ cmd_tx'[n + 1] = c
      /\ \A k \in 1 .. n : cmd_tx'[k] = cmd_tx[k]
  BY <1>1, AppendProperties DEF CommandsOK, Queue
<1>3. ASSUME NEW k \in Nat, Queued("Connect", id, k)'
      PROVE  Queued("Connect", id, k) \/ Known(id)'
  <2>1. CASE k \in 1 .. n
    BY <1>1, <1>2, <1>3, <2>1 DEF Queued
  <2>2. CASE k = n + 1
    BY <1>2, <1>3, <2>2 DEF Queued
  <2>3. QED
    BY <1>2, <1>3, <2>1, <2>2 DEF Queued
<1>4. ASSUME NEW k \in Nat, Queued("Disconnect", id, k)
      PROVE  Queued("Disconnect", id, k)'
  <2>1. k \in 1 .. n /\ k \in 1 .. n + 1
    BY <1>1, <1>4 DEF Queued
  <2>2. QED
    BY <1>2, <1>4, <2>1 DEF Queued
<1>5. QED
  BY <1>3, <1>4 DEF Shifts

LEMMA QueueLast ==
  ASSUME CommandsOK, NEW id, Queue(Disconnect(id))
  PROVE  \E k \in Nat : k > Len(cmd_tx) /\ Queued("Disconnect", id, k)'
<1>1. PICK n \in Nat : n = Len(cmd_tx) + 1
  BY DEF CommandsOK
<1>2. Len(cmd_tx') = n /\ cmd_tx'[n] = Disconnect(id)
  BY <1>1, AppendProperties DEF CommandsOK, Queue
<1>3. n \in 1 .. n /\ n > Len(cmd_tx)
  BY <1>1 DEF CommandsOK
<1>4. Queued("Disconnect", id, n)'
  BY <1>2, <1>3 DEF Queued, Disconnect
<1>5. QED
  BY <1>3, <1>4

LEMMA TailShifts ==
  ASSUME CommandsOK, cmd_tx # <<>>, cmd_tx' = Tail(cmd_tx), NEW id
  PROVE  /\ Shifts(id, 1)
         /\ \A kind \in {"Connect", "Disconnect"} :
              Queued(kind, id, 1) <=> Head(cmd_tx).kind = kind /\ Head(cmd_tx).id = id
<1>1. PICK n \in Nat : n = Len(cmd_tx)
  BY DEF CommandsOK
<1>2. /\ n > 0 /\ Len(cmd_tx') = n - 1 /\ cmd_tx[1] = Head(cmd_tx)
      /\ \A k \in 1 .. n - 1 : cmd_tx'[k] = cmd_tx[k + 1]
  BY <1>1, HeadTailProperties, EmptySeq DEF CommandsOK
<1>3. ASSUME NEW k \in Nat, Queued("Connect", id, k)'
      PROVE  Queued("Connect", id, k + 1)
  BY <1>1, <1>2, <1>3 DEF Queued
<1>4. ASSUME NEW k \in Nat, k > 1, Queued("Disconnect", id, k)
      PROVE  Queued("Disconnect", id, k - 1)'
  <2>1. PICK j \in Nat : j = k - 1
    BY <1>4
  <2>2. j \in 1 .. n - 1 /\ j + 1 = k
    BY <1>1, <1>4, <2>1 DEF Queued
  <2>3. Queued("Disconnect", id, j)'
    BY <1>2, <1>4, <2>2 DEF Queued
  <2>4. QED
    BY <2>1, <2>3
<1>5. QED
  BY <1>1, <1>2, <1>3, <1>4 DEF Shifts, Queued

-----------------------------------------------------------------------------
(* How the agreement about an id is kept.                                   *)

LEMMA ConnectsKept ==
  ASSUME NEW id, ConnectsOK(id), NEW n \in {0, 1}, Shifts(id, n),
         orphaned \subseteq orphaned', Known(id) => Known(id)'
  PROVE  ConnectsOK(id)'
<1> SUFFICES ASSUME NEW k \in Nat, Queued("Connect", id, k)',
                    ~ (id \in orphaned)', ~ Known(id)'
             PROVE  \E j \in Nat : j > k /\ Queued("Disconnect", id, j)'
  BY DEF ConnectsOK
<1>1. Queued("Connect", id, k + n) /\ k + n \in Nat
  BY DEF Shifts
<1>2. PICK j \in Nat : j > k + n /\ Queued("Disconnect", id, j)
  BY <1>1 DEF ConnectsOK
<1>3. j > n /\ j - n \in Nat /\ j - n > k
  BY <1>2
<1>4. Queued("Disconnect", id, j - n)'
  BY <1>2, <1>3 DEF Shifts
<1>5. QED
  BY <1>3, <1>4

LEMMA AgreedKept ==
  ASSUME NEW id, Agreed(id), NEW n \in {0, 1}, Shifts(id, n), ~ Queued("Disconnect", id, n),
         orphaned \subseteq orphaned', Known(id) => Known(id)',
         Thought(id)' => Thought(id), Known(id) /\ Thought(id) => Thought(id)',
         id \in DOMAIN conns \cup broken => id \in DOMAIN conns' \cup broken',
         id \in DOMAIN conns' => id \in DOMAIN conns
  PROVE  Agreed(id)'
<1>1. ThoughtOK(id)'
  BY DEF Agreed, ThoughtOK
<1>2. ConnectsOK(id)'
  BY ConnectsKept DEF Agreed
<1>3. ConnOK(id)'
  <2> SUFFICES ASSUME id \in DOMAIN conns, ~ (id \in orphaned)', ~ (Known(id) /\ Thought(id))'
               PROVE  \E k \in Nat : Queued("Disconnect", id, k)'
    BY DEF ConnOK
  <2>1. PICK k \in Nat : Queued("Disconnect", id, k)
    BY DEF Agreed, ConnOK
  <2>2. k > n
    <3>1. k # n /\ k \in 1 .. Len(cmd_tx)
      BY <2>1 DEF Queued
    <3>2. QED
      BY <3>1
  <2>3. Queued("Disconnect", id, k - n)' /\ k - n \in Nat
    BY <2>1, <2>2 DEF Shifts
  <2>4. QED
    BY <2>3
<1>4. QED
  BY <1>1, <1>2, <1>3 DEF Agreed

LEMMA NoneQueuedAtZero ==
  ASSUME NEW id
  PROVE  ~ Queued("Disconnect", id, 0)
BY DEF Queued

\* The GUI acts without opening or closing a connection.
LEMMA GuiActs ==
  ASSUME NEW id, Agreed(id), Shifts(id, 0), UNCHANGED <<resp_rx, conns, broken>>,
         orphaned \subseteq orphaned', Flag(id)' <=> Flag(id), Known(id) => Known(id)'
  PROVE  Agreed(id)'
BY AgreedKept, SameResponses, NoneQueuedAtZero

LEMMA SameGui ==
  ASSUME UNCHANGED proxy_states, NEW id
  PROVE  (Flag(id)' <=> Flag(id)) /\ (Known(id)' <=> Known(id))
BY DEF Flag, Known

LEMMA UpdateFlag ==
  ASSUME StatesOK, NEW own, Known(own), NEW state, Update(own, state), NEW id
  PROVE  /\ Known(id)' <=> Known(id)
         /\ Flag(id)' <=> IF id = own THEN state.connected ELSE Flag(id)
<1>1. DOMAIN proxy_states' = DOMAIN proxy_states
  BY DEF Update, StatesOK
<1>2. \A k \in DOMAIN proxy_states :
        proxy_states'[k] = IF k = own THEN state ELSE proxy_states[k]
  BY DEF Update, StatesOK, Known
<1>3. QED
  BY <1>1, <1>2 DEF Flag, Known

LEMMA SameFlag ==
  ASSUME StatesOK, NEW own, Known(own), NEW state, Update(own, state), NEW id,
         state.connected = proxy_states[own].connected
  PROVE  (Flag(id)' <=> Flag(id)) /\ (Known(id)' <=> Known(id))
BY UpdateFlag DEF Flag

LEMMA ButtonsAgree ==
  ASSUME TInv, NEW id, Agreed(id), NEW own \in Ids,
         \/ AutoRefresh(own) \/ ClickConnect(own) \/ ClickDisconnect(own)
         \/ \E c \in Payload : ClickCommand(own, c)
  PROVE  Agreed(id)'
<1>1. UNCHANGED <<gui, resp_rx, conns, history>>
  BY DEF AutoRefresh, ClickConnect, ClickDisconnect, ClickCommand
<1>2. (Flag(id)' <=> Flag(id)) /\ (Known(id)' <=> Known(id)) /\ UNCHANGED <<broken, orphaned>>
  BY <1>1, SameGui DEF gui, history
<1>3. \E c : Queue(c) /\ (c.kind = "Connect" /\ c.id = id => Known(id))
  <2>1. CASE AutoRefresh(own)
    BY <2>1 DEF AutoRefresh, RequestStatus, Send
  <2>2. CASE ClickConnect(own)
    BY <2>2 DEF ClickConnect, Connect
  <2>3. CASE ClickDisconnect(own)
    BY <2>3 DEF ClickDisconnect, Disconnect
  <2>4. ASSUME NEW c \in Payload, ClickCommand(own, c)
        PROVE  \E d : Queue(d) /\ (d.kind = "Connect" /\ d.id = id => Known(id))
    BY <2>4 DEF ClickCommand, Send
  <2>5. QED
    BY <2>1, <2>2, <2>3, <2>4
<1>4. Shifts(id, 0)
  BY <1>2, <1>3, QueueShifts DEF TInv
<1>5. QED
  BY <1>1, <1>2, <1>4, GuiActs

LEMMA TabsAgree ==
  ASSUME TInv, NEW id, Agreed(id), NEW own \in Ids,
         \/ \E k \in Nat : SelectTab(own, k)
         \/ AskRemove(own) \/ CancelRemove(own) \/ ConfirmRemove(own)
  PROVE  Agreed(id)'
<1> DEFINE s == proxy_states[own]
<1>1. /\ UNCHANGED <<resp_rx, conns, history>> /\ Known(own)
      /\ \E state : Update(own, state) /\ state.connected = s.connected
  <2>1. /\ UNCHANGED <<resp_rx, conns, history>> /\ Known(own)
    BY DEF SelectTab, AskRemove, CancelRemove, ConfirmRemove
  <2>2. s \in States
    BY <2>1 DEF TInv, StatesOK, Known
  <2>3. /\ \A k : [s EXCEPT !.active_tab = k].connected = s.connected
        /\ \A i : /\ [s EXCEPT !.confirm_remove = i].connected = s.connected
                  /\ [s EXCEPT !.confirm_remove = None, !.pending_remove = i].connected = s.connected
    BY <2>2 DEF States
  <2>4. QED
    BY <2>1, <2>3 DEF SelectTab, AskRemove, CancelRemove, ConfirmRemove
<1>2. (Flag(id)' <=> Flag(id)) /\ (Known(id)' <=> Known(id)) /\ UNCHANGED <<broken, orphaned>>
  BY <1>1, SameFlag DEF TInv, history
<1>3. Shifts(id, 0)
  <2>1. CASE UNCHANGED cmd_tx
    BY <2>1, SameShifts DEF TInv
  <2>2. CASE ConfirmRemove(own)
    <3>1. \E c : Queue(c) /\ c.kind = "Send"
      BY <2>2 DEF ConfirmRemove, Send
    <3>2. QED
      BY <3>1, QueueShifts DEF TInv
  <2>3. QED
    BY <2>1, <2>2 DEF SelectTab, AskRemove, CancelRemove
<1>4. QED
  BY <1>1, <1>2, <1>3, GuiActs

\* A new entry has an id that no entry has.
LEMMA NewId ==
  ASSUME EntriesOK, StatesOK
  PROVE  ~ Known(next_id)
<1> DEFINE D == DOMAIN proxy_entries
<1>1. D \in SUBSET Nat /\ IsFiniteSet(D) /\ DOMAIN proxy_states = D
  BY IdsAssumption, FS_Subset DEF EntriesOK, StatesOK
<1>2. CASE D = {}
  BY <1>1, <1>2 DEF Known
<1>3. CASE D # {}
  <2>1. next_id = Max(D) + 1
    BY <1>3 DEF next_id
  <2>2. Max(D) \in D /\ \A d \in D : d <= Max(D)
    BY <1>1, <1>3, GreatestOfFinite
  <2>3. Max(D) \in Nat /\ Max(D) + 1 \notin D
    BY <1>1, <2>2
  <2>4. QED
    BY <1>1, <2>1, <2>3 DEF Known
<1>4. QED
  BY <1>2, <1>3

LEMMA EntriesAgree ==
  ASSUME TInv, NEW id, Agreed(id),
         \/ \E h \in Hosts : AddEntry(h)
         \/ \E own \in Ids, h \in Hosts : UpdateEntry(own, h)
         \/ \E own \in Ids : RemoveEntry(own)
  PROVE  Agreed(id)'
<1>1. ASSUME NEW h \in Hosts, AddEntry(h) PROVE Agreed(id)'
  <2>1. PICK own : own = next_id
    OBVIOUS
  <2>2. /\ proxy_states' = With(proxy_states, own, NewState) /\ ~ Known(own)
        /\ UNCHANGED <<cmd_tx, resp_rx, conns, broken, orphaned>>
    BY <1>1, <2>1, NewId DEF AddEntry, history, TInv
  <2>3. /\ DOMAIN proxy_states' = DOMAIN proxy_states \cup {own}
        /\ \A k \in DOMAIN proxy_states \cup {own} :
             proxy_states'[k] = IF k = own THEN NewState ELSE proxy_states[k]
    BY <2>2 DEF With
  <2>4. (Flag(id)' <=> Flag(id)) /\ (Known(id) => Known(id)')
    <3>1. CASE id = own
      <4>1. proxy_states'[own].connected = FALSE
        BY <2>3 DEF NewState
      <4>2. QED
        BY <2>2, <3>1, <4>1 DEF Flag, Known
    <3>2. CASE id # own
      BY <2>3, <3>2 DEF Flag, Known
    <3>3. QED
      BY <3>1, <3>2
  <2>5. QED
    BY <2>2, <2>4, SameShifts, GuiActs DEF TInv
<1>2. ASSUME NEW own \in Ids, NEW h \in Hosts, UpdateEntry(own, h) PROVE Agreed(id)'
  <2>1. UNCHANGED <<proxy_states, cmd_tx, resp_rx, conns, broken, orphaned>>
    BY <1>2 DEF UpdateEntry, history
  <2>2. QED
    BY <2>1, SameGui, SameShifts, GuiActs DEF TInv
<1>3. ASSUME NEW own \in Ids, RemoveEntry(own) PROVE Agreed(id)'
  <2>1. /\ proxy_states' = Without(proxy_states, own) /\ Known(own) /\ resp_rx = <<>>
        /\ IF proxy_states[own].connected THEN Queue(Disconnect(own)) ELSE UNCHANGED cmd_tx
        /\ orphaned' = IF ~ proxy_states[own].connected /\ ConnectUnderWay(own)
                       THEN orphaned \cup {own} ELSE orphaned
        /\ UNCHANGED <<resp_rx, conns, broken>>
    BY <1>3 DEF RemoveEntry, StatesLeft, Click, Polled
  <2>2. /\ DOMAIN proxy_states' = DOMAIN proxy_states \ {own}
        /\ \A k \in DOMAIN proxy_states \ {own} : proxy_states'[k] = proxy_states[k]
    BY <2>1 DEF Without
  <2>3. Shifts(id, 0) /\ orphaned \subseteq orphaned'
    <3>1. Disconnect(own).kind # "Connect"
      BY DEF Disconnect
    <3>2. QED
      BY <2>1, <3>1, SameShifts, QueueShifts DEF TInv
  <2>4. CASE id # own
    <3>1. (Flag(id)' <=> Flag(id)) /\ (Known(id) => Known(id)')
      BY <2>2, <2>4 DEF Flag, Known
    <3>2. QED
      BY <2>1, <2>3, <3>1, GuiActs
  <2>5. CASE id = own
    <3>1. ~ Known(id)' /\ ~ Flag(id)'
      BY <2>2, <2>5 DEF Known, Flag
    <3>2. ~ Thought(id)'
      <4>1. resp_rx' = <<>>
        BY <2>1
      <4>2. QED
        BY <3>1, <4>1 DEF Thought, LastTells, Tells
    <3>3. CASE proxy_states[own].connected
      <4>1. PICK k \in Nat : k > Len(cmd_tx) /\ Queued("Disconnect", id, k)'
        BY <2>1, <2>5, <3>3, QueueLast DEF TInv
      <4>2. \A j \in Nat : Queued("Connect", id, j)' => j <= Len(cmd_tx)
        <5>1. ASSUME NEW j \in Nat, Queued("Connect", id, j)' PROVE j <= Len(cmd_tx)
          <6>1. Queued("Connect", id, j + 0)
            BY <2>3, <3>1, <5>1 DEF Shifts
          <6>2. QED
            BY <6>1 DEF Queued
        <5>2. QED
          BY <5>1
      <4>3. Len(cmd_tx) \in Nat
        BY DEF TInv, CommandsOK
      <4>4. QED
        BY <3>2, <4>1, <4>2, <4>3 DEF Agreed, ThoughtOK, ConnOK, ConnectsOK
    <3>4. CASE ~ proxy_states[own].connected
      <4>1. UNCHANGED <<cmd_tx, conns>> /\ ~ Thought(id)
        BY <2>1, <2>5, <3>4, NothingToRead DEF Flag
      <4>2. ConnOK(id)'
        BY <2>3, <4>1 DEF Agreed, ConnOK, Queued
      <4>3. ConnectsOK(id)'
        <5>1. ASSUME NEW k \in Nat, Queued("Connect", id, k)' PROVE id \in orphaned'
          BY <2>1, <2>5, <3>4, <4>1, <5>1 DEF ConnectUnderWay, Queued
        <5>2. QED
          BY <5>1 DEF ConnectsOK
      <4>4. QED
        BY <3>2, <4>2, <4>3 DEF Agreed, ThoughtOK
    <3>5. QED
      BY <3>3, <3>4
  <2>6. QED
    BY <2>4, <2>5
<1>4. QED
  BY <1>1, <1>2, <1>3

\* A response that tells of a connection sets the flag of the entry, if there
\* still is one; no other response does.
LEMMA PollFlags ==
  ASSUME TInv, Poll, NEW r, r = Head(resp_rx), NEW id
  PROVE  /\ Known(id)' <=> Known(id)
         /\ IF r.kind \in {"Connected", "Disconnected"} /\ r.id = id
            THEN Flag(id)' <=> Known(id) /\ Yes(r)
            ELSE Flag(id)' <=> Flag(id)
<1>1. /\ StatesOK
      /\ \/ PollConnected(r) \/ PollDisconnected(r) \/ PollFailed(r)
         \/ PollStatus(r) \/ PollSessions(r) \/ PollDone(r) \/ PollRemoved(r)
  BY DEF Poll, TInv
<1> DEFINE s == proxy_states[r.id]
<1>2. Known(r.id) => s \in States
  BY <1>1 DEF StatesOK, Known
<1>3. CASE ~ Known(r.id)
  <2>1. r.kind \in {"Connected", "Disconnected", "CmdResult"} /\ UNCHANGED proxy_states
    BY <1>1, <1>3 DEF PollConnected, PollDisconnected, PollFailed, PollStatus, PollSessions,
       PollDone, PollRemoved, Answered, Usable
  <2>2. QED
    BY <1>3, <2>1, SameGui DEF Flag, Known
<1>4. CASE Known(r.id) /\ PollConnected(r)
  <2>1. Update(r.id, [s EXCEPT !.connected = r.ok]) /\ [s EXCEPT !.connected = r.ok].connected = r.ok
    BY <1>2, <1>4 DEF PollConnected, States
  <2>2. QED
    BY <1>1, <1>4, <2>1, UpdateFlag DEF PollConnected, Yes
<1>5. CASE Known(r.id) /\ PollDisconnected(r)
  <2>1. /\ Update(r.id, [NewState EXCEPT !.confirm_remove = s.confirm_remove])
        /\ [NewState EXCEPT !.confirm_remove = s.confirm_remove].connected = FALSE
    BY <1>5 DEF PollDisconnected, NewState
  <2>2. QED
    BY <1>1, <1>5, <2>1, UpdateFlag DEF PollDisconnected, Yes
<1>6. CASE Known(r.id) /\ (PollFailed(r) \/ PollStatus(r) \/ PollSessions(r) \/ PollDone(r)
                             \/ PollRemoved(r))
  <2>1. r.kind = "CmdResult"
    BY <1>6 DEF PollFailed, PollStatus, PollSessions, PollDone, PollRemoved, Answered
  <2>2. \/ UNCHANGED proxy_states
        \/ \E state : Update(r.id, state) /\ state.connected = s.connected
    <3>1. /\ [s EXCEPT !.pending_remove = None].connected = s.connected
          /\ \A list, tab :
               /\ [s EXCEPT !.server_data = list, !.active_tab = tab].connected = s.connected
               /\ [s EXCEPT !.pending_remove = None, !.server_data = list,
                            !.active_tab = tab].connected = s.connected
      BY <1>2, <1>6 DEF States
    <3>2. CASE PollStatus(r)
      <4>1. PICK list, tab : Update(r.id, [s EXCEPT !.server_data = list, !.active_tab = tab])
        BY <3>2 DEF PollStatus
      <4> DEFINE state == [s EXCEPT !.server_data = list, !.active_tab = tab]
      <4>2. Update(r.id, state) /\ state.connected = s.connected
        BY <3>1, <4>1
      <4> HIDE DEF state
      <4>3. QED
        BY <4>2
    <3>3. CASE PollRemoved(r)
      <4>1. \/ UNCHANGED proxy_states
            \/ \E list, tab : Update(r.id, [s EXCEPT !.pending_remove = None,
                                                     !.server_data = list, !.active_tab = tab])
        BY <3>3 DEF PollRemoved
      <4>2. ASSUME NEW list, NEW tab,
                   Update(r.id, [s EXCEPT !.pending_remove = None,
                                          !.server_data = list, !.active_tab = tab])
            PROVE  \E state : Update(r.id, state) /\ state.connected = s.connected
        <5> DEFINE state == [s EXCEPT !.pending_remove = None,
                                      !.server_data = list, !.active_tab = tab]
        <5>1. Update(r.id, state) /\ state.connected = s.connected
          BY <3>1, <4>2
        <5> HIDE DEF state
        <5>2. QED
          BY <5>1
      <4>3. QED
        BY <4>1, <4>2
    <3>4. QED
      BY <1>6, <3>1, <3>2, <3>3 DEF PollFailed, PollSessions, PollDone
  <2>3. (Flag(id)' <=> Flag(id)) /\ (Known(id)' <=> Known(id))
    BY <1>1, <1>6, <2>2, SameGui, SameFlag
  <2>4. QED
    BY <2>1, <2>3
<1>7. QED
  BY <1>1, <1>3, <1>4, <1>5, <1>6

LEMMA PollQueues ==
  ASSUME Poll
  PROVE  UNCHANGED cmd_tx \/ \E c : Queue(c) /\ c.kind = "Send"
<1>1. PICK r : \/ PollConnected(r) \/ PollDisconnected(r) \/ PollFailed(r)
               \/ PollStatus(r) \/ PollSessions(r) \/ PollDone(r) \/ PollRemoved(r)
  BY DEF Poll
<1>2. \A p : Send(r.id, p).kind = "Send"
  BY DEF Send
<1>3. RequestStatus(r.id).kind = "Send"
  BY <1>2 DEF RequestStatus
<1>4. CASE PollStatus(r)
  BY <1>2, <1>4 DEF PollStatus
<1>5. CASE ~ PollStatus(r)
  BY <1>1, <1>3, <1>5 DEF PollConnected, PollDisconnected, PollFailed, PollSessions, PollDone,
     PollRemoved
<1>6. QED
  BY <1>4, <1>5

LEMMA PollAgrees ==
  ASSUME TInv, Poll, NEW id, Agreed(id)
  PROVE  Agreed(id)'
<1>1. PICK r : r = Head(resp_rx)
  OBVIOUS
<1>2. /\ resp_rx # <<>> /\ resp_rx' = Tail(resp_rx) /\ UNCHANGED <<conns, broken, orphaned>>
      /\ ResponsesOK /\ CommandsOK
  BY DEF Poll, history, TInv
<1>3. /\ Known(id)' <=> Known(id)
      /\ IF Head(resp_rx).kind \in {"Connected", "Disconnected"} /\ Head(resp_rx).id = id
         THEN Flag(id)' <=> Known(id) /\ Yes(Head(resp_rx))
         ELSE Flag(id)' <=> Flag(id)
  BY <1>1, PollFlags
<1>4. (Thought(id)' => Thought(id)) /\ (Known(id) => (Thought(id) => Thought(id)'))
  BY <1>2, <1>3, ReadTells
<1>5. Shifts(id, 0)
  BY <1>2, PollQueues, SameShifts, QueueShifts
<1>6. QED
  BY <1>2, <1>3, <1>4, <1>5, AgreedKept, NoneQueuedAtZero

\* The worker acts on another id, or leaves it open which connections there are.
LEMMA WorkerActs ==
  ASSUME TInv, NEW id, Agreed(id), UNCHANGED <<gui, orphaned>>,
         NEW n \in {0, 1}, Shifts(id, n), ~ Queued("Disconnect", id, n),
         UNCHANGED resp_rx \/ \E r : /\ Report(r)
                                     /\ r.kind \in {"Connected", "Disconnected"} => r.id # id,
         id \in DOMAIN conns \cup broken => id \in DOMAIN conns' \cup broken',
         id \in DOMAIN conns' => id \in DOMAIN conns
  PROVE  Agreed(id)'
<1>1. (Flag(id)' <=> Flag(id)) /\ (Known(id)' <=> Known(id))
  BY SameGui DEF gui
<1>2. Thought(id)' <=> Thought(id)
  <2>1. CASE UNCHANGED resp_rx
    BY <1>1, <2>1, SameResponses
  <2>2. ASSUME NEW r, Report(r), r.kind \in {"Connected", "Disconnected"} => r.id # id
        PROVE  Thought(id)' <=> Thought(id)
    BY <1>1, <2>2, ReportOther DEF TInv
  <2>3. QED
    BY <2>1, <2>2
<1>3. QED
  BY <1>1, <1>2, AgreedKept

\* A connection is made or closed, and the GUI told of it.
LEMMA ConnectionsAgree ==
  ASSUME TInv, NEW id, Agreed(id), WorkerConnects \/ WorkerConnectFails \/ WorkerDisconnects
  PROVE  Agreed(id)'
<1>1. PICK c : c = Head(cmd_tx)
  OBVIOUS
<1>2. PICK r : /\ Report(r) /\ r.kind \in {"Connected", "Disconnected"} /\ r.id = c.id
               /\ Yes(r) <=> WorkerConnects
  <2>1. CASE WorkerConnects
    <3>1. Report(Connected(c.id, TRUE))
      BY <1>1, <2>1 DEF WorkerConnects
    <3>2. QED
      BY <2>1, <3>1 DEF Connected, Yes
  <2>2. CASE ~ WorkerConnects
    <3>1. Report(Connected(c.id, FALSE)) \/ Report(Disconnected(c.id))
      BY <1>1, <2>2 DEF WorkerConnectFails, WorkerDisconnects
    <3>2. QED
      BY <2>2, <3>1 DEF Connected, Disconnected, Yes
  <2>3. QED
    BY <2>1, <2>2
<1>3. /\ cmd_tx # <<>> /\ cmd_tx' = Tail(cmd_tx) /\ UNCHANGED <<gui, orphaned>>
      /\ CommandsOK /\ ResponsesOK
  BY DEF WorkerConnects, WorkerConnectFails, WorkerDisconnects, NextCommand, history, TInv
<1>4. /\ Shifts(id, 1) /\ (Known(id)' <=> Known(id))
      /\ \A kind \in {"Connect", "Disconnect"} : Queued(kind, id, 1) <=> c.kind = kind /\ c.id = id
  BY <1>1, <1>3, TailShifts, SameGui DEF gui
<1>5. CASE id # c.id
  <2>1. /\ id \in DOMAIN conns' <=> id \in DOMAIN conns
        /\ id \in broken' <=> id \in broken
    BY <1>1, <1>5 DEF WorkerConnects, WorkerConnectFails, WorkerDisconnects, With, Without,
       ConnsAfterFailure, history
  <2>2. QED
    BY <1>2, <1>3, <1>4, <1>5, <2>1, WorkerActs
<1>6. CASE id = c.id
  <2>1. Thought(id)' <=> WorkerConnects
    BY <1>2, <1>3, <1>6, ReportTells
  <2>2. ConnectsOK(id)'
    BY <1>3, <1>4, ConnectsKept DEF Agreed
  <2>3. CASE WorkerConnects
    <3>1. c.kind = "Connect" /\ id \in DOMAIN conns'
      BY <1>1, <1>6, <2>3 DEF WorkerConnects, NextCommand, With
    <3>2. Queued("Connect", id, 1)
      BY <1>4, <1>6, <3>1
    <3>3. \/ id \in orphaned
          \/ Known(id)
          \/ \E j \in Nat : j > 1 /\ Queued("Disconnect", id, j)
      BY <3>2 DEF Agreed, ConnectsOK
    <3>4. (\E j \in Nat : j > 1 /\ Queued("Disconnect", id, j))
            => \E j \in Nat : Queued("Disconnect", id, j)'
      <4>1. ASSUME NEW j \in Nat, j > 1, Queued("Disconnect", id, j)
            PROVE  j - 1 \in Nat /\ Queued("Disconnect", id, j - 1)'
        BY <1>4, <4>1 DEF Shifts
      <4>2. QED
        BY <4>1
    <3>5. ConnOK(id)'
      BY <1>3, <1>4, <2>1, <2>3, <3>3, <3>4 DEF ConnOK
    <3>6. QED
      BY <2>2, <3>1, <3>5 DEF Agreed, ThoughtOK
  <2>4. CASE ~ WorkerConnects
    <3>1. id \notin DOMAIN conns'
      BY <1>1, <1>6, <2>4 DEF WorkerConnectFails, WorkerDisconnects, ConnsAfterFailure, Without
    <3>2. QED
      BY <2>1, <2>2, <2>4, <3>1 DEF Agreed, ThoughtOK, ConnOK
  <2>5. QED
    BY <2>3, <2>4
<1>7. QED
  BY <1>5, <1>6

LEMMA SendsAgree ==
  ASSUME TInv, NEW id, Agreed(id), WorkerCannotSend \/ WorkerSends
  PROVE  Agreed(id)'
<1>1. /\ cmd_tx # <<>> /\ cmd_tx' = Tail(cmd_tx) /\ Head(cmd_tx).kind = "Send"
      /\ UNCHANGED <<gui, broken, orphaned>>
  BY DEF WorkerCannotSend, WorkerSends, NextCommand, history
<1>2. Shifts(id, 1) /\ ~ Queued("Disconnect", id, 1)
  BY <1>1, TailShifts DEF TInv
<1>3. UNCHANGED resp_rx \/ \E r : Report(r) /\ r.kind = "CmdResult"
  BY DEF WorkerCannotSend, WorkerSends, CmdResult
<1>4. id \in DOMAIN conns' <=> id \in DOMAIN conns
  BY DEF WorkerCannotSend, WorkerSends, TInv, ConnsOK
<1>5. QED
  BY <1>1, <1>2, <1>3, <1>4, WorkerActs

LEMMA AnswersAgree ==
  ASSUME TInv, NEW id, Agreed(id), WorkerReads \/ WorkerGivesUp
  PROVE  Agreed(id)'
<1>1. UNCHANGED <<gui, cmd_tx, orphaned>> /\ \E r : Report(r) /\ r.kind = "CmdResult"
  BY DEF WorkerReads, WorkerGivesUp, CmdResult, history
<1>2. Shifts(id, 0) /\ ~ Queued("Disconnect", id, 0)
  BY <1>1, SameShifts, NoneQueuedAtZero DEF TInv
<1>3. /\ id \in DOMAIN conns \cup broken => id \in DOMAIN conns' \cup broken'
      /\ id \in DOMAIN conns' => id \in DOMAIN conns
  <2>1. CASE WorkerReads
    BY <2>1 DEF WorkerReads, TInv, ConnsOK, history
  <2>2. CASE WorkerGivesUp
    BY <2>2 DEF WorkerGivesUp, ConnsAfterError, Without
  <2>3. QED
    BY <2>1, <2>2
<1>4. QED
  BY <1>1, <1>2, <1>3, WorkerActs

LEMMA OthersAgree ==
  ASSUME TInv, NEW id, Agreed(id),
         \/ UNCHANGED vars
         \/ \E own \in Ids : ProxyAnswers(own)
         \/ \E h \in Hosts, c \in Payload : ProxyExecutesLate(h, c) \/ OthersCommand(h, c)
  PROVE  Agreed(id)'
<1>1. UNCHANGED <<gui, cmd_tx, resp_rx, broken, orphaned>>
  BY DEF vars, ProxyAnswers, ProxyExecutesLate, OthersCommand, history
<1>2. id \in DOMAIN conns' <=> id \in DOMAIN conns
  BY DEF vars, ProxyAnswers, ProxyExecutesLate, OthersCommand, TInv, ConnsOK
<1>3. Shifts(id, 0) /\ ~ Queued("Disconnect", id, 0)
  BY <1>1, SameShifts, NoneQueuedAtZero DEF TInv
<1>4. QED
  BY <1>1, <1>2, <1>3, WorkerActs

-----------------------------------------------------------------------------
(* The agreement in every behaviour.                                        *)

LEMMA InitAgreed ==
  ASSUME Init, NEW id
  PROVE  Agreed(id)
<1>1. resp_rx = <<>> /\ ~ Flag(id) /\ id \notin DOMAIN conns
  BY FirstCommands DEF Init, Flag, Known, NewState
<1>2. ~ Thought(id)
  BY <1>1, NothingToRead
<1>3. ASSUME NEW k \in Nat, Queued("Connect", id, k) PROVE Known(id)
  <2>1. PICK auto \in SUBSET DOMAIN proxy_entries :
          cmd_tx = [n \in 1 .. Cardinality(auto) |->
                      Connect(Nth(auto, n), proxy_entries[Nth(auto, n)])]
    BY DEF Init
  <2>2. auto \in SUBSET Nat /\ IsFiniteSet(auto) /\ Cardinality(auto) \in Nat
    BY FirstCommands, FS_CardinalityType
  <2>3. Len(cmd_tx) = Cardinality(auto)
    BY <2>1, <2>2
  <2>4. k \in 1 .. Cardinality(auto) /\ cmd_tx[k].id = Nth(auto, k)
    BY <1>3, <2>1, <2>3 DEF Queued, Connect
  <2>5. id \in auto
    BY <1>3, <2>2, <2>4, NthExists DEF Queued
  <2>6. QED
    BY <2>5 DEF Init, Known
<1>4. QED
  BY <1>1, <1>2, <1>3 DEF Agreed, ThoughtOK, ConnOK, ConnectsOK

LEMMA NextAgreed ==
  ASSUME TInv, NEW id, Agreed(id), [Next]_vars
  PROVE  Agreed(id)'
<1>1. CASE User
  <2>1. PICK own \in Ids :
          \/ ClickConnect(own) \/ ClickDisconnect(own) \/ RemoveEntry(own)
          \/ \E h \in Hosts : UpdateEntry(own, h)
          \/ \E k \in 0 .. Cardinality(Slots) : SelectTab(own, k)
          \/ AskRemove(own) \/ CancelRemove(own) \/ ConfirmRemove(own)
          \/ \E c \in Payload : ClickCommand(own, c)
    BY <1>1 DEF User
  <2>2. 0 .. Cardinality(Slots) \subseteq Nat
    BY SlotsAssumption, FS_CardinalityType
  <2>3. QED
    BY <2>1, <2>2, ButtonsAgree, TabsAgree, EntriesAgree
<1>2. CASE Worker
  BY <1>2, ConnectionsAgree, SendsAgree, AnswersAgree DEF Worker
<1>3. QED
  BY <1>1, <1>2, PollAgrees, ButtonsAgree, EntriesAgree, OthersAgree DEF Next, Elsewhere

\* When nothing is under way the GUI and its worker agree who is connected, but
\* for connections that were given up and those made for deleted entries: the
\* flag of an entry is only ever late, whatever users click while commands and
\* responses wait (app.rs:553-569, worker.rs:44-113).
THEOREM FlagsCorrect == Spec => []FlagsAgree
<1>1. Init => GInv
  BY InitTInv, InitAgreed DEF GInv
<1>2. GInv /\ [Next]_vars => GInv'
  <2> SUFFICES ASSUME GInv, [Next]_vars PROVE GInv'
    OBVIOUS
  <2>1. TInv'
    BY NextTInv DEF GInv
  <2>2. ASSUME NEW id \in Ids PROVE Agreed(id)'
    BY NextAgreed DEF GInv
  <2>3. QED
    BY <2>1, <2>2 DEF GInv
<1>3. GInv => FlagsAgree
  <2> SUFFICES ASSUME GInv, Quiet,
                      NEW flagged, flagged = {id \in DOMAIN proxy_states : proxy_states[id].connected}
               PROVE  /\ flagged \subseteq DOMAIN conns \cup broken
                      /\ DOMAIN conns \subseteq flagged \cup orphaned
    BY DEF FlagsAgree
  <2>1. \A id \in Ids : Agreed(id) /\ (Thought(id) <=> id \in flagged)
    BY NothingToRead DEF GInv, Quiet, Flag, Known
  <2>2. flagged \subseteq Ids /\ DOMAIN conns \subseteq Ids
    BY DEF GInv, TInv, EntriesOK, StatesOK, ConnsOK
  <2>3. \A id, k : ~ Queued("Disconnect", id, k)
    BY DEF Queued, Quiet
  <2>4. QED
    BY <2>1, <2>2, <2>3 DEF Agreed, ThoughtOK, ConnOK
<1>4. QED
  BY <1>1, <1>2, <1>3, PTL DEF Spec

=============================================================================
