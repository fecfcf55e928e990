----------------------------- MODULE PacketPath -----------------------------
(***************************************************************************)
(* What src/src/relay.c does to the bytes of a packet between the two      *)
(* sockets of a session: every datagram is received into the same buffer,  *)
(* a connect packet of a client gets its address, an answer of the game    *)
(* server gets the proxy's tag, and all other packets pass.                *)
(***************************************************************************)
EXTENDS Q3Proto

CONSTANTS
  RECV_BUF_SIZE,
  Addresses,        \* of the clients
  ClientPackets,    \* what clients send
  ServerPackets,    \* what the game server sends
  Tags,             \* values of hostname_tag; <<>> is NULL, and "" in the file
  MaxPackets        \* bound on the packets of a behaviour

ASSUME BufferAssumption ==
  RECV_BUF_SIZE \in Nat /\ Q3_MAX_PACKET_SIZE < RECV_BUF_SIZE
ASSUME InputAssumption ==
  /\ Addresses \subseteq Byte \ {"server", Space, Newline, Nul, Backslash, Quote}
  /\ Tags \subseteq Seq(Byte) /\ <<>> \in Tags
  /\ ClientPackets \subseteq Seq(Byte) /\ ServerPackets \subseteq Seq(Byte)
  /\ MaxPackets \in Nat

VARIABLES
  recv_buf,         \* all of the receive buffer
  hostname_tag,
  packets,          \* received so far
  got,              \* history: where the last packet came from, and the packet
  sent              \* what was forwarded of it; <<>> when it was dropped

vars == <<recv_buf, hostname_tag, packets, got, sent>>

-----------------------------------------------------------------------------
(* The buffer.                                                              *)

\* recvfrom() writes as much of a datagram as the buffer takes, and leaves what
\* is behind it.
Received(p) == IF Len(p) <= RECV_BUF_SIZE THEN Len(p) ELSE RECV_BUF_SIZE
Filled(p) == [j \in 1 .. RECV_BUF_SIZE |-> IF j <= Received(p) THEN p[j] ELSE recv_buf[j]]

\* What a function wrote into rewrite_buf, or the packet when it declined.
OrOriginal(rewritten, data, n) ==
  IF rewritten = NotRewritten THEN SubSeq(data, 1, n) ELSE rewritten

\* The client branch forwards nothing of a datagram longer than a packet may be.
ToServer(data, n, address) ==
  IF n > Q3_MAX_PACKET_SIZE THEN <<>>
  ELSE OrOriginal(IF q3_is_connect(data, n)
                  THEN q3_inject_realip(data, n, RECV_BUF_SIZE, address)
                  ELSE NotRewritten, data, n)

ToClient(data, n, tag) ==
  OrOriginal(IF tag # <<>> /\ q3_is_connectionless(data, n)
             THEN q3_rewrite_hostname(data, n, RECV_BUF_SIZE, tag)
             ELSE NotRewritten, data, n)

-----------------------------------------------------------------------------
(* Actions.                                                                 *)

Init ==
  /\ recv_buf = [j \in 1 .. RECV_BUF_SIZE |-> Nul]
  /\ hostname_tag \in Tags
  /\ packets = 0
  /\ got = [from |-> "nobody", data |-> <<>>]
  /\ sent = <<>>

\* A datagram on the listen socket, of a client that has a session or gets one.
\* An empty one is left alone.
ClientPacket(a, p) ==
  /\ packets < MaxPackets
  /\ packets' = packets + 1
  /\ got' = [from |-> a, data |-> p]
  /\ recv_buf' = Filled(p)
  /\ sent' = IF p = <<>> THEN <<>> ELSE ToServer(recv_buf', Received(p), a)
  /\ UNCHANGED hostname_tag

\* A datagram on the relay socket of a session.
ServerPacket(p) ==
  /\ packets < MaxPackets
  /\ packets' = packets + 1
  /\ got' = [from |-> "server", data |-> p]
  /\ recv_buf' = Filled(p)
  /\ sent' = IF p = <<>> THEN <<>> ELSE ToClient(recv_buf', Received(p), hostname_tag)
  /\ UNCHANGED hostname_tag

\* An administrator sets the tag while packets pass.
SetTag(tag) ==
  /\ tag # hostname_tag
  /\ hostname_tag' = tag
  /\ got' = [from |-> "nobody", data |-> <<>>]
  /\ sent' = <<>>
  /\ UNCHANGED <<recv_buf, packets>>

Next ==
  \/ \E a \in Addresses, p \in ClientPackets : ClientPacket(a, p)
  \/ \E p \in ServerPackets : ServerPacket(p)
  \/ \E tag \in Tags : SetTag(tag)

Spec == Init /\ [][Next]_vars

-----------------------------------------------------------------------------
(* Properties.                                                              *)

\* Nothing is read or written behind the end of the two buffers, which have one
\* size, however long the datagram is and whatever is put into it, and the game
\* server is sent no packet that is longer than its engine reads (relay.c:55).
TypeOK ==
  /\ recv_buf \in [1 .. RECV_BUF_SIZE -> Byte]
  /\ hostname_tag \in Tags
  /\ packets \in 0 .. MaxPackets
  /\ sent \in Seq(Byte)
  /\ Len(sent) <= RECV_BUF_SIZE
  /\ got.from \in Addresses => Len(sent) <= Q3_MAX_PACKET_SIZE

\* p with new put in behind its first i bytes, and somewhere.
PutIn(p, i, new) == SubSeq(p, 1, i) \o new \o SubSeq(p, i + 1, Len(p))
InsertedInto(p, new) == {PutIn(p, i, new) : i \in 0 .. Len(p)}

\* What is forwarded consists of the packet that came and at most the pair of
\* its own sender, or the tag in force: no byte is lost or changed, none comes
\* from an earlier packet in the buffer, none from another client.  A client's
\* datagram is forwarded whole or not at all, the server's up to the buffer.
OnlyInsertions ==
  \/ sent = <<>>
  \/ sent = got.data
  \/ got.from \in Addresses /\ sent \in InsertedInto(got.data, RealipPair(got.from))
  \/ /\ got.from = "server"
     /\ LET p == SubSeq(got.data, 1, Received(got.data))
        IN  sent = p \/ sent \in InsertedInto(p, Append(hostname_tag, Space))

\* Where \key\ is written.
HasKey(p, k, key) == p[k] = Backslash /\ p[k + 1] = key /\ p[k + 2] = Backslash

\* What the patched engine of a game server (patches/ioq3-realip.patch) takes for
\* the userinfo of a connect packet: its bytes i .. j - 1, the first argument of
\* the command.  It ends at a quote, with the line or, without quotes, at a blank.
LineEnds == {Newline, Nul}
ArgumentEnds(p, i) == {Quote} \cup LineEnds \cup IF p[i - 1] = Quote THEN {} ELSE {Space}
UserinfoAt(p, i, j) ==
  /\ i \in 4 .. Len(p) + 1 /\ j \in i .. Len(p) + 1
  /\ p[1] = Marker /\ p[2] = "connect" /\ p[3] = Space
  /\ \/ i > 4 /\ p[i - 1] = Quote /\ \A k \in 3 .. i - 2 : p[k] = Space
     \/ i < j /\ \A k \in 3 .. i - 1 : p[k] = Space
  /\ \A k \in i .. j - 1 : p[k] \notin ArgumentEnds(p, i)
  /\ j = Len(p) + 1 \/ p[j] \in ArgumentEnds(p, i)

\* The engine reads a userinfo pair by pair from its beginning, so that \key\ names
\* a key only at every other backslash, and takes the first pair of a key.
Backslashes(p, i, k) == Cardinality({l \in i .. k : p[l] = Backslash})
IsKey(p, i, k, key) == HasKey(p, k, key) /\ Backslashes(p, i, k) % 2 = 1
ReadsValue(p, i, j, key, value) ==
  \E k \in i .. j - 3, e \in i .. j :
    /\ IsKey(p, i, k, key) /\ \A l \in i .. k - 1 : ~ IsKey(p, i, l, key)
    /\ k + 3 <= e /\ \A l \in k + 3 .. e - 1 : p[l] # Backslash
    /\ e = j \/ p[e] = Backslash
    /\ value = SubSeq(p, k + 3, e - 1)

\* A connect packet as q3proto.h:124 describes it: the userinfo is in closed quotes,
\* or the rest of the line is, and it consists of pairs.
WellFormed(p, i, j) ==
  /\ UserinfoAt(p, i, j)
  /\ IF p[i - 1] = Quote THEN j <= Len(p) /\ p[j] = Quote
     ELSE \A k \in j .. Len(p) : p[k] \in LineEnds
  /\ i = j \/ p[i] = Backslash
  /\ Backslashes(p, i, j - 1) % 2 = 0

\* From a well-formed connect packet without a realip of its own the game server
\* reads the address of the client that sent it as the value of realip, whatever
\* the userinfo holds, when the pair fits into a packet; else the packet comes as
\* it was, and so do the packets of the game (q3proto.h:118-142, relay.c:672-679).
RealipReadable ==
  LET p == got.data
      n == Len(RealipPair(got.from))
  IN  got.from \in Addresses /\ p # <<>> /\ Len(p) <= Q3_MAX_PACKET_SIZE =>
        /\ \A i, j \in 4 .. Len(p) + 1 :
             WellFormed(p, i, j) /\ (\A k \in i .. j - 3 : ~ IsKey(p, i, k, "realip")) =>
               IF Len(p) + n <= Q3_MAX_PACKET_SIZE
               THEN /\ UserinfoAt(sent, i, j + n)
                    /\ ReadsValue(sent, i, j + n, "realip", <<got.from>>)
               ELSE sent = p
        /\ p[1] # Marker => sent = p

\* Where a server browser looks for the name in an answer: the first sv_hostname
\* or, when there is none, the first hostname.
First(p, k, key) == HasKey(p, k, key) /\ \A j \in 1 .. k - 1 : ~ HasKey(p, j, key)
NamedAt(p, k) ==
  \/ First(p, k, "sv_hostname")
  \/ First(p, k, "hostname") /\ \A j \in 1 .. Len(p) - 2 : ~ HasKey(p, j, "sv_hostname")

\* The browser sees the tag before the name of the server and nothing else
\* changed, players' names included; without a tag, without room or in an answer
\* without a name it sees what the server sent, and so does the game
\* (q3proto.c:80-96, relay.c:719-726).
HostnameTagged ==
  LET p == got.data
      new == Append(hostname_tag, Space)
      answer == Len(p) >= 3 /\ p[1] = Marker /\ p[2] \in Responses /\ p[3] = Newline
      named == {k \in 1 .. Len(p) - 2 : NamedAt(p, k)}
  IN  got.from = "server" /\ p # <<>> /\ Len(p) <= RECV_BUF_SIZE =>
        /\ answer =>
             /\ \A k \in named :
                  sent = IF hostname_tag # <<>> /\ Len(p) + Len(new) <= RECV_BUF_SIZE
                         THEN PutIn(p, k + 2, new) ELSE p
             /\ named = {} => sent = p
        /\ p[1] # Marker => sent = p

=============================================================================
