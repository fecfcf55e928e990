-------------------------- MODULE PacketPathProofs --------------------------
(***************************************************************************)
(* What PacketPath does to packets, proved for buffers, packets and tags of *)
(* every length.                                                            *)
(***************************************************************************)
EXTENDS PacketPath, OrderFacts

\* A packet of n bytes in the buffer.
Packet(data, n) ==
  /\ data \in [1 .. RECV_BUF_SIZE -> Byte]
  /\ n \in 0 .. RECV_BUF_SIZE

-----------------------------------------------------------------------------
(* Scanning stays inside the packet.                                        *)

LEMMA ScanInside ==
  ASSUME NEW data, NEW len \in Nat, NEW i \in 1 .. len + 1, NEW Stop
  PROVE  Scan(data, len, i, Stop) \in i .. len + 1
<1> DEFINE S == {k \in i .. len + 1 : k = len + 1 \/ data[k] \in Stop}
<1>1. S \in SUBSET Nat /\ len + 1 \in S
  OBVIOUS
<1>2. Min(S) \in S
  BY <1>1, LeastElement
<1> QED
  BY <1>2 DEF Scan

LEMMA ScanSame ==
  ASSUME NEW d1, NEW d2, NEW len \in Nat, \A k \in 1 .. len : d1[k] = d2[k],
         NEW i \in 1 .. len + 1, NEW Stop
  PROVE  Scan(d1, len, i, Stop) = Scan(d2, len, i, Stop)
<1> DEFINE S(d) == {k \in i .. len + 1 : k = len + 1 \/ d[k] \in Stop}
<1>1. ASSUME NEW k \in i .. len + 1
      PROVE  k = len + 1 \/ d1[k] = d2[k]
  OBVIOUS
<1>2. S(d1) = S(d2)
  BY <1>1
<1> QED
  BY <1>2 DEF Scan

LEMMA InfoEndInside ==
  ASSUME NEW data, NEW n \in Nat, NEW start \in 1 .. n
  PROVE  InfoEnd(data, n, start) \in 1 .. n + 1
<1>1. CASE data[start] = Quote
  <2>1. start + 1 \in 1 .. n + 1
    OBVIOUS
  <2>2. Scan(data, n, start + 1, {Quote}) \in start + 1 .. n + 1
    BY <2>1, ScanInside
  <2> QED
    BY <1>1, <2>2 DEF InfoEnd
<1>2. CASE data[start] # Quote
  <2> DEFINE S == {k \in start .. n + 1 : \A j \in k .. n : data[j] \in {Newline, Nul}}
  <2>1. S \in SUBSET Nat /\ n + 1 \in S
    OBVIOUS
  <2>2. Min(S) \in S
    BY <2>1, LeastElement
  <2> QED
    BY <1>2, <2>2 DEF InfoEnd
<1> QED
  BY <1>1, <1>2

LEMMA CommandNeedsMarker ==
  ASSUME NEW data, NEW len \in Nat, NEW words, IsCommand(data, len, words)
  PROVE  len >= 2
<1>1. ASSUME ~ q3_is_connectionless(data, len), NEW w
      PROVE  q3_connectionless_cmd(data, len) # <<w>>
  <2>1. q3_connectionless_cmd(data, len) = <<>>
    BY <1>1 DEF q3_connectionless_cmd
  <2> QED
    BY <2>1
<1> QED
  BY <1>1 DEF IsCommand, q3_is_connectionless

LEMMA CommandSame ==
  ASSUME NEW d1, NEW d2, NEW len \in Nat, Packet(d1, len), Packet(d2, len),
         \A k \in 1 .. len : d1[k] = d2[k]
  PROVE  /\ q3_is_connectionless(d1, len) = q3_is_connectionless(d2, len)
         /\ q3_connectionless_cmd(d1, len) = q3_connectionless_cmd(d2, len)
<1>1. q3_is_connectionless(d1, len) = q3_is_connectionless(d2, len)
  BY DEF q3_is_connectionless
<1>2. CASE ~ q3_is_connectionless(d1, len)
  BY <1>1, <1>2 DEF q3_connectionless_cmd
<1>3. CASE q3_is_connectionless(d1, len)
  <2>1. len >= 2 /\ 2 \in 1 .. len + 1
    BY <1>3 DEF q3_is_connectionless
  <2> DEFINE s == Scan(d1, len, 2, Byte \ {Space, Newline})
             e == Scan(d1, len, s, CommandEnds)
  <2>2. s = Scan(d2, len, 2, Byte \ {Space, Newline}) /\ s \in 2 .. len + 1
    BY <2>1, ScanInside, ScanSame
  <2>3. s \in 1 .. len + 1
    BY <2>2
  <2> HIDE DEF s
  <2>4. e = Scan(d2, len, s, CommandEnds) /\ e \in s .. len + 1
    BY <2>3, ScanInside, ScanSame
  <2> HIDE DEF e
  <2>5. SubSeq(d1, s, e - 1) = SubSeq(d2, s, e - 1)
    <3>1. \A k \in s .. e - 1 : k \in 1 .. len /\ d1[k] = d2[k]
      BY <2>3, <2>4
    <3>2. /\ SubSeq(d1, s, e - 1) = [j \in 1 .. e - s |-> d1[s + j - 1]]
          /\ SubSeq(d2, s, e - 1) = [j \in 1 .. e - s |-> d2[s + j - 1]]
      BY <2>3, <2>4, BufferAssumption DEF Packet
    <3>3. \A j \in 1 .. e - s : d1[s + j - 1] = d2[s + j - 1]
      BY <2>3, <2>4, <3>1
    <3> QED
      BY <3>2, <3>3
  <2> QED
    BY <1>1, <1>3, <2>2, <2>4, <2>5 DEF q3_connectionless_cmd, s, e
<1> QED
  BY <1>1, <1>2, <1>3

-----------------------------------------------------------------------------
(* An insertion.                                                            *)

LEMMA InsertionShape ==
  ASSUME NEW data, NEW n, Packet(data, n),
         NEW i \in 1 .. n + 1, NEW new \in Seq(Byte)
  PROVE  LET p == SubSeq(data, 1, n)
         IN  /\ p \in Seq(Byte) /\ Len(p) = n
             /\ Insertion(data, n, i, new) \in Seq(Byte)
             /\ Len(Insertion(data, n, i, new)) = n + Len(new)
             /\ Insertion(data, n, i, new) = PutIn(p, i - 1, new)
             /\ Insertion(data, n, i, new) \in InsertedInto(p, new)
<1> DEFINE p == SubSeq(data, 1, n)
           q == SubSeq(p, 1, i - 1)
           r == SubSeq(p, i, n)
           s == Insertion(data, n, i, new)
<1> USE BufferAssumption
<1>1. p = [j \in 1 .. n |-> data[j]]
  BY DEF Packet
<1>2. p \in Seq(Byte) /\ Len(p) = n /\ \A j \in 1 .. n : p[j] = data[j]
  BY <1>1 DEF Packet
<1> HIDE DEF p
<1>3. q = [j \in 1 .. i - 1 |-> p[j]] /\ r = [j \in 1 .. n - i + 1 |-> p[i + j - 1]]
  BY <1>2
<1>4. /\ q \in Seq(Byte) /\ Len(q) = i - 1
      /\ r \in Seq(Byte) /\ Len(r) = n - i + 1
  BY <1>2, <1>3 DEF Packet
<1>5. s = [j \in 1 .. n + Len(new) |->
             IF j < i THEN data[j]
             ELSE IF j < i + Len(new) THEN new[j - i + 1]
             ELSE data[j - Len(new)]]
  BY DEF Insertion
<1>6. ASSUME NEW j \in 1 .. n + Len(new)
      PROVE  s[j] \in Byte
  <2>1. CASE j < i
    BY <1>5, <2>1 DEF Packet
  <2>2. CASE j >= i /\ j < i + Len(new)
    BY <1>5, <2>2 DEF Packet
  <2>3. CASE j >= i + Len(new)
    BY <1>5, <2>3 DEF Packet
  <2> QED
    BY <2>1, <2>2, <2>3 DEF Packet
<1>7. s \in Seq(Byte) /\ Len(s) = n + Len(new)
  BY <1>5, <1>6 DEF Packet
<1> HIDE DEF s
<1>8. /\ q \o new \o r \in Seq(Byte)
      /\ Len(q \o new \o r) = n + Len(new)
  <2> HIDE DEF q, r
  <2> QED
    BY <1>4 DEF Packet
<1>9. ASSUME NEW j \in 1 .. n + Len(new)
      PROVE  s[j] = (q \o new \o r)[j]
  <2>1. CASE j < i
    <3>1. s[j] = data[j] /\ q[j] = data[j] /\ j \in 1 .. Len(q)
      BY <1>2, <1>3, <1>4, <1>5, <2>1 DEF Packet
    <3> HIDE DEF q, r
    <3> QED
      BY <1>4, <3>1
  <2>2. CASE j >= i /\ j < i + Len(new)
    <3>1. s[j] = new[j - i + 1]
      BY <1>5, <2>2 DEF Packet
    <3> HIDE DEF q, r
    <3> QED
      BY <1>4, <2>2, <3>1 DEF Packet
  <2>3. CASE j >= i + Len(new)
    <3> DEFINE k == j - (i - 1 + Len(new))
    <3>1. k \in 1 .. n - i + 1 /\ i + k - 1 = j - Len(new) /\ j - Len(new) \in 1 .. n
      BY <2>3 DEF Packet
    <3>2. s[j] = r[k]
      BY <1>2, <1>3, <1>5, <2>3, <3>1
    <3>3. (q \o new) \in Seq(Byte) /\ Len(q \o new) = i - 1 + Len(new)
      BY <1>4
    <3> HIDE DEF q, r
    <3>4. ((q \o new) \o r)[j] = r[k]
      BY <1>4, <2>3, <3>1, <3>3
    <3> QED
      BY <3>2, <3>4
  <2>4. j \in Int /\ i \in Int /\ Len(new) \in Int
    OBVIOUS
  <2>5. \/ j < i
        \/ j >= i /\ j < i + Len(new)
        \/ j >= i + Len(new)
    BY <2>4
  <2> QED
    BY <2>1, <2>2, <2>3, <2>5, Zenon
<1>10. s = q \o new \o r
  <2> HIDE DEF q, r
  <2> QED
    BY <1>7, <1>8, <1>9
<1>11. i - 1 \in 0 .. Len(p) /\ q = SubSeq(p, 1, i - 1) /\ r = SubSeq(p, (i - 1) + 1, Len(p))
  BY <1>2 DEF Packet
<1>12. s = PutIn(p, i - 1, new) /\ s \in InsertedInto(p, new)
  BY <1>10, <1>11 DEF PutIn, InsertedInto
<1> QED
  BY <1>2, <1>7, <1>12 DEF p, s

LEMMA InsertionSame ==
  ASSUME NEW d1, NEW d2, NEW n \in Nat, \A k \in 1 .. n : d1[k] = d2[k],
         NEW i \in 1 .. n + 1, NEW new \in Seq(Byte)
  PROVE  Insertion(d1, n, i, new) = Insertion(d2, n, i, new)
<1>1. ASSUME NEW j \in 1 .. n + Len(new)
      PROVE  /\ j < i => d1[j] = d2[j]
             /\ ~ (j < i + Len(new)) => d1[j - Len(new)] = d2[j - Len(new)]
  OBVIOUS
<1> QED
  BY <1>1 DEF Insertion

-----------------------------------------------------------------------------
(* What the two functions return.                                           *)

LEMMA InjectRealip ==
  ASSUME NEW data, NEW n, Packet(data, n), NEW address \in Addresses,
         q3_is_connect(data, n)
  PROVE  LET p == SubSeq(data, 1, n)
             new == RealipPair(address)
             s == q3_inject_realip(data, n, RECV_BUF_SIZE, address)
         IN  \/ s = NotRewritten
             \/ /\ s \in Seq(Byte) /\ s \in InsertedInto(p, new)
                /\ Len(s) <= RECV_BUF_SIZE /\ Len(s) <= Q3_MAX_PACKET_SIZE
<1> DEFINE new == RealipPair(address)
           blank == Scan(data, n, 2, {Space, Newline})
           start == InfoStart(data, n)
<1>1. n \in Nat /\ n >= 2 /\ 2 \in 1 .. n + 1
  BY CommandNeedsMarker, BufferAssumption DEF q3_is_connect, Packet
<1>2. new \in Seq(Byte)
  BY ByteAssumption, InputAssumption DEF RealipPair, Words
<1>3. blank \in 1 .. n + 1
  BY <1>1, ScanInside
<1>4. start \in 1 .. n + 1
  BY <1>1, <1>3, ScanInside DEF InfoStart
<1> HIDE DEF new, start
<1>5. start <= n => InfoEnd(data, n, start) \in 1 .. n + 1
  BY <1>1, <1>4, InfoEndInside
<1>6. CASE start <= n /\ Fits(n + Len(new), RECV_BUF_SIZE)
  <2> DEFINE at == InfoEnd(data, n, start)
  <2>1. at \in 1 .. n + 1
    BY <1>5, <1>6
  <2>2. q3_inject_realip(data, n, RECV_BUF_SIZE, address) = Insertion(data, n, at, new)
    BY <1>6 DEF q3_inject_realip, start, new
  <2> HIDE DEF at
  <2>3. /\ Insertion(data, n, at, new) \in Seq(Byte)
        /\ Len(Insertion(data, n, at, new)) = n + Len(new)
        /\ Insertion(data, n, at, new) \in InsertedInto(SubSeq(data, 1, n), new)
    BY <1>2, <2>1, InsertionShape
  <2>4. n + Len(new) <= RECV_BUF_SIZE /\ n + Len(new) <= Q3_MAX_PACKET_SIZE
    BY <1>6 DEF Fits
  <2> QED
    BY <2>2, <2>3, <2>4 DEF new
<1>7. CASE ~ (start <= n /\ Fits(n + Len(new), RECV_BUF_SIZE))
  BY <1>7 DEF q3_inject_realip, start, new
<1> QED
  BY <1>6, <1>7

LEMMA RewriteHostname ==
  ASSUME NEW data, NEW n, Packet(data, n), NEW tag \in Tags
  PROVE  LET p == SubSeq(data, 1, n)
             new == Append(tag, Space)
             s == q3_rewrite_hostname(data, n, RECV_BUF_SIZE, tag)
         IN  \/ s = NotRewritten
             \/ /\ s \in Seq(Byte) /\ s \in InsertedInto(p, new)
                /\ Len(s) <= RECV_BUF_SIZE
<1> DEFINE new == Append(tag, Space)
           found == KeyPositions(data, n, HostnameKey(data, n))
<1>1. n \in Nat
  BY BufferAssumption DEF Packet
<1>2. tag \in Seq(Byte) /\ new \in Seq(Byte) /\ Len(new) \in Nat
  BY ByteAssumption, InputAssumption
<1>3. found \subseteq 1 .. n - 2
  BY DEF KeyPositions
<1> HIDE DEF new, found
<1>4. CASE q3_rewrite_hostname(data, n, RECV_BUF_SIZE, tag) = NotRewritten
  BY <1>4
<1>5. CASE q3_rewrite_hostname(data, n, RECV_BUF_SIZE, tag) # NotRewritten
  <2>1. /\ found # {}
        /\ n + Len(new) <= RECV_BUF_SIZE
        /\ q3_rewrite_hostname(data, n, RECV_BUF_SIZE, tag)
             = Insertion(data, n, Min(found) + 3, new)
    BY <1>5 DEF q3_rewrite_hostname, new, found
  <2>2. Min(found) \in 1 .. n - 2
    <3>1. found \in SUBSET Nat
      BY <1>3
    <3> QED
      BY <1>3, <2>1, <3>1, LeastElement
  <2>3. Min(found) + 3 \in 1 .. n + 1
    BY <1>1, <2>2
  <2> DEFINE at == Min(found) + 3
  <2> HIDE DEF at
  <2>4. /\ Insertion(data, n, at, new) \in Seq(Byte)
        /\ Len(Insertion(data, n, at, new)) = n + Len(new)
        /\ Insertion(data, n, at, new) \in InsertedInto(SubSeq(data, 1, n), new)
    BY <1>2, <2>3, InsertionShape DEF at
  <2> QED
    BY <2>1, <2>4 DEF new, at
<1> QED
  BY <1>4, <1>5

-----------------------------------------------------------------------------
(* The receive buffer, and what is forwarded from it.                       *)

LEMMA FilledPacket ==
  ASSUME recv_buf \in [1 .. RECV_BUF_SIZE -> Byte], NEW p \in Seq(Byte)
  PROVE  /\ Packet(Filled(p), Received(p))
         /\ SubSeq(Filled(p), 1, Received(p)) = SubSeq(p, 1, Received(p))
         /\ Len(p) <= RECV_BUF_SIZE => SubSeq(Filled(p), 1, Received(p)) = p
<1> USE BufferAssumption
<1>1. /\ Received(p) \in 0 .. RECV_BUF_SIZE /\ Received(p) <= Len(p)
      /\ Len(p) <= RECV_BUF_SIZE => Received(p) = Len(p)
  BY DEF Received
<1> DEFINE n == Received(p)
           b == Filled(p)
<1>2. b = [j \in 1 .. RECV_BUF_SIZE |-> IF j <= n THEN p[j] ELSE recv_buf[j]]
  BY DEF Filled
<1> HIDE DEF n, b
<1>3. \A j \in 1 .. RECV_BUF_SIZE : b[j] \in Byte
  <2> TAKE j \in 1 .. RECV_BUF_SIZE
  <2>1. j <= n => j \in 1 .. Len(p)
    BY <1>1 DEF n
  <2> QED
    BY <1>2, <2>1
<1>4. Packet(b, n)
  BY <1>1, <1>2, <1>3 DEF Packet, n
<1>5. /\ SubSeq(b, 1, n) = [j \in 1 .. n |-> b[j]]
      /\ SubSeq(p, 1, n) = [j \in 1 .. n |-> p[j]]
  BY <1>1, <1>4 DEF Packet, n
<1>6. \A j \in 1 .. n : b[j] = p[j]
  BY <1>1, <1>2 DEF n
<1>7. SubSeq(b, 1, n) = SubSeq(p, 1, n)
  BY <1>5, <1>6
<1>8. Len(p) <= RECV_BUF_SIZE => SubSeq(p, 1, n) = p
  BY <1>1 DEF n
<1> QED
  BY <1>4, <1>7, <1>8 DEF b, n

\* What the client branch sends of the n bytes in the buffer.
LEMMA ToServerShape ==
  ASSUME NEW data, NEW n, Packet(data, n), NEW a \in Addresses
  PROVE  LET p == SubSeq(data, 1, n)
             s == ToServer(data, n, a)
         IN  /\ s \in Seq(Byte)
             /\ Len(s) <= RECV_BUF_SIZE /\ Len(s) <= Q3_MAX_PACKET_SIZE
             /\ s # <<>> => n <= Q3_MAX_PACKET_SIZE
             /\ \/ s = <<>>
                \/ s = p
                \/ s \in InsertedInto(p, RealipPair(a))
<1> USE BufferAssumption, PacketSizeAssumption
<1> DEFINE p == SubSeq(data, 1, n)
           s == ToServer(data, n, a)
<1>1. p \in Seq(Byte) /\ Len(p) = n
  BY DEF Packet
<1> HIDE DEF p
<1>2. CASE n > Q3_MAX_PACKET_SIZE
  <2>1. s = <<>>
    BY <1>2 DEF ToServer
  <2> QED
    BY <2>1 DEF p
<1>3. CASE ~ (n > Q3_MAX_PACKET_SIZE)
  <2>1. n <= Q3_MAX_PACKET_SIZE /\ n <= RECV_BUF_SIZE
    BY <1>3 DEF Packet
  <2>2. CASE s = p
    BY <1>1, <2>1, <2>2 DEF p
  <2>3. CASE s # p
    <3> DEFINE t == q3_inject_realip(data, n, RECV_BUF_SIZE, a)
    <3>1. q3_is_connect(data, n) /\ s = t /\ t # NotRewritten
      BY <1>3, <2>3 DEF ToServer, OrOriginal, p
    <3>2. /\ t \in Seq(Byte) /\ t \in InsertedInto(p, RealipPair(a))
          /\ Len(t) <= RECV_BUF_SIZE /\ Len(t) <= Q3_MAX_PACKET_SIZE
      BY <3>1, InjectRealip DEF p
    <3> HIDE DEF t, s
    <3> QED
      BY <2>1, <3>1, <3>2 DEF p, s
  <2> QED
    BY <2>2, <2>3
<1> QED
  BY <1>2, <1>3

\* And the server branch.
LEMMA ToClientShape ==
  ASSUME NEW data, NEW n, Packet(data, n), NEW tag \in Tags
  PROVE  LET p == SubSeq(data, 1, n)
             s == ToClient(data, n, tag)
         IN  /\ s \in Seq(Byte)
             /\ Len(s) <= RECV_BUF_SIZE
             /\ \/ s = p
                \/ s \in InsertedInto(p, Append(tag, Space))
<1> USE BufferAssumption
<1> DEFINE p == SubSeq(data, 1, n)
           s == ToClient(data, n, tag)
<1>1. p \in Seq(Byte) /\ Len(p) = n /\ n <= RECV_BUF_SIZE
  BY DEF Packet
<1> HIDE DEF p
<1>2. CASE s = p
  BY <1>1, <1>2 DEF p
<1>3. CASE s # p
  <2> DEFINE t == q3_rewrite_hostname(data, n, RECV_BUF_SIZE, tag)
  <2>1. s = t /\ t # NotRewritten
    BY <1>3 DEF ToClient, OrOriginal, p
  <2>2. /\ t \in Seq(Byte) /\ t \in InsertedInto(p, Append(tag, Space))
        /\ Len(t) <= RECV_BUF_SIZE
    BY <2>1, RewriteHostname DEF p
  <2> HIDE DEF t, s
  <2> QED
    BY <2>1, <2>2 DEF p, s
<1> QED
  BY <1>2, <1>3

-----------------------------------------------------------------------------
(* The invariants.                                                          *)

LEMMA TypeInit == Init => TypeOK
<1> SUFFICES ASSUME Init PROVE TypeOK
  OBVIOUS
<1>1. Nul \in Byte /\ MaxPackets \in Nat
  BY ByteAssumption, InputAssumption
<1>2. recv_buf \in [1 .. RECV_BUF_SIZE -> Byte]
  BY <1>1 DEF Init
<1>3. <<>> \in Seq(Byte) /\ Len(<<>>) = 0
  OBVIOUS
<1> QED
  BY <1>1, <1>2, <1>3, BufferAssumption, PacketSizeAssumption DEF Init, TypeOK

LEMMA ClientPacketSafe ==
  ASSUME TypeOK, NEW a \in Addresses, NEW p \in ClientPackets, ClientPacket(a, p)
  PROVE  TypeOK' /\ OnlyInsertions'
<1> USE BufferAssumption, PacketSizeAssumption, InputAssumption
<1>1. p \in Seq(Byte) /\ recv_buf' = Filled(p) /\ got'.from = a /\ got'.data = p
  BY DEF ClientPacket
<1>2. /\ Packet(recv_buf', Received(p))
      /\ SubSeq(recv_buf', 1, Received(p)) = SubSeq(p, 1, Received(p))
      /\ Len(p) <= RECV_BUF_SIZE => SubSeq(recv_buf', 1, Received(p)) = p
  BY <1>1, FilledPacket DEF TypeOK
<1> DEFINE n == Received(p)
           s == ToServer(recv_buf', n, a)
<1>3. /\ s \in Seq(Byte)
      /\ Len(s) <= RECV_BUF_SIZE /\ Len(s) <= Q3_MAX_PACKET_SIZE
      /\ s # <<>> => n <= Q3_MAX_PACKET_SIZE
      /\ \/ s = <<>>
         \/ s = SubSeq(recv_buf', 1, n)
         \/ s \in InsertedInto(SubSeq(recv_buf', 1, n), RealipPair(a))
  BY <1>2, ToServerShape
<1>4. s # <<>> => SubSeq(recv_buf', 1, n) = p
  BY <1>1, <1>2, <1>3 DEF Received
<1> HIDE DEF s, n
<1>5. sent' = <<>> \/ sent' = s
  BY DEF ClientPacket, s, n
<1>6. /\ sent' \in Seq(Byte)
      /\ Len(sent') <= RECV_BUF_SIZE /\ Len(sent') <= Q3_MAX_PACKET_SIZE
  BY <1>3, <1>5
<1>7. packets' \in 0 .. MaxPackets
  BY DEF ClientPacket, TypeOK
<1>8. TypeOK'
  BY <1>2, <1>6, <1>7 DEF TypeOK, ClientPacket, Packet
<1>9. OnlyInsertions'
  BY <1>1, <1>3, <1>4, <1>5 DEF OnlyInsertions
<1> QED
  BY <1>8, <1>9

LEMMA ServerPacketSafe ==
  ASSUME TypeOK, NEW p \in ServerPackets, ServerPacket(p)
  PROVE  TypeOK' /\ OnlyInsertions'
<1> USE BufferAssumption, PacketSizeAssumption, InputAssumption
<1>1. /\ p \in Seq(Byte) /\ recv_buf' = Filled(p)
      /\ got'.from = "server" /\ got'.data = p
      /\ hostname_tag' = hostname_tag /\ hostname_tag \in Tags
  BY DEF ServerPacket, TypeOK
<1>2. /\ Packet(recv_buf', Received(p))
      /\ SubSeq(recv_buf', 1, Received(p)) = SubSeq(p, 1, Received(p))
  BY <1>1, FilledPacket DEF TypeOK
<1> DEFINE n == Received(p)
           s == ToClient(recv_buf', n, hostname_tag)
<1>3. /\ s \in Seq(Byte)
      /\ Len(s) <= RECV_BUF_SIZE
      /\ \/ s = SubSeq(recv_buf', 1, n)
         \/ s \in InsertedInto(SubSeq(recv_buf', 1, n), Append(hostname_tag, Space))
  BY <1>1, <1>2, ToClientShape
<1> HIDE DEF s
<1>4. sent' = <<>> \/ sent' = s
  BY DEF ServerPacket, s
<1>5. sent' \in Seq(Byte) /\ Len(sent') <= RECV_BUF_SIZE
  BY <1>3, <1>4
<1>6. packets' \in 0 .. MaxPackets
  BY DEF ServerPacket, TypeOK
<1>7. TypeOK'
  BY <1>1, <1>2, <1>5, <1>6 DEF TypeOK, Packet
<1>8. OnlyInsertions'
  BY <1>1, <1>2, <1>3, <1>4 DEF OnlyInsertions
<1> QED
  BY <1>7, <1>8

LEMMA SetTagSafe ==
  ASSUME TypeOK, NEW tag \in Tags, SetTag(tag)
  PROVE  TypeOK' /\ OnlyInsertions'
<1>1. sent' = <<>> /\ sent' \in Seq(Byte) /\ Len(sent') = 0
  BY DEF SetTag
<1>2. 0 <= RECV_BUF_SIZE /\ 0 <= Q3_MAX_PACKET_SIZE
  BY BufferAssumption, PacketSizeAssumption
<1> QED
  BY <1>1, <1>2 DEF SetTag, TypeOK, OnlyInsertions

\* However long a datagram is and whatever is put into it, the buffers are not
\* overrun and the server gets no packet longer than its engine reads.
THEOREM BuffersHold == Spec => []TypeOK
<1>1. TypeOK /\ UNCHANGED vars => TypeOK'
  BY DEF TypeOK, vars
<1>2. TypeOK /\ [Next]_vars => TypeOK'
  BY <1>1, ClientPacketSafe, ServerPacketSafe, SetTagSafe DEF Next
<1> QED
  BY <1>2, TypeInit, PTL DEF Spec

\* What is forwarded is what came with at most one insertion of the proxy's,
\* for all packets, well-formed or not.
THEOREM NothingElseForwarded == Spec => []OnlyInsertions
<1>1. Init => OnlyInsertions
  BY DEF Init, OnlyInsertions
<1>2. OnlyInsertions /\ UNCHANGED vars => OnlyInsertions'
  BY DEF OnlyInsertions, vars
<1>3. TypeOK /\ OnlyInsertions /\ [Next]_vars => OnlyInsertions'
  BY <1>2, ClientPacketSafe, ServerPacketSafe, SetTagSafe DEF Next
<1> QED
  BY <1>1, <1>3, BuffersHold, PTL DEF Spec

-----------------------------------------------------------------------------
(* What earlier packets left behind the packet changes nothing.             *)

LEMMA RealipSame ==
  ASSUME NEW d1, NEW d2, NEW n, Packet(d1, n), Packet(d2, n),
         \A k \in 1 .. n : d1[k] = d2[k],
         NEW a \in Addresses, q3_is_connect(d1, n), q3_is_connect(d2, n)
  PROVE  q3_inject_realip(d1, n, RECV_BUF_SIZE, a) = q3_inject_realip(d2, n, RECV_BUF_SIZE, a)
<1> USE BufferAssumption
<1> DEFINE blank == Scan(d1, n, 2, {Space, Newline})
           start == InfoStart(d1, n)
<1>1. n \in Nat /\ 2 \in 1 .. n + 1
  BY CommandNeedsMarker DEF q3_is_connect, Packet
<1>2. blank \in 1 .. n + 1 /\ blank = Scan(d2, n, 2, {Space, Newline})
  BY <1>1, ScanInside, ScanSame
<1>3. start \in 1 .. n + 1 /\ start = InfoStart(d2, n)
  BY <1>1, <1>2, ScanInside, ScanSame DEF InfoStart
<1> HIDE DEF start
<1>4. CASE start > n
  BY <1>1, <1>3, <1>4 DEF q3_inject_realip, start
<1>5. CASE start <= n
  <2>1. InfoEnd(d1, n, start) = InfoEnd(d2, n, start)
    <3>1. d1[start] = d2[start]
      BY <1>1, <1>3, <1>5
    <3>2. CASE d1[start] = Quote
      <4>1. start + 1 \in 1 .. n + 1
        BY <1>1, <1>3, <1>5
      <4>2. Scan(d1, n, start + 1, {Quote}) = Scan(d2, n, start + 1, {Quote})
        BY <1>1, <4>1, ScanSame
      <4> QED
        BY <3>1, <3>2, <4>2 DEF InfoEnd
    <3>3. CASE d1[start] # Quote
      <4> DEFINE S(d) == {k \in start .. n + 1 : \A j \in k .. n : d[j] \in {Newline, Nul}}
      <4>1. \A k \in start .. n + 1 : \A j \in k .. n : d1[j] = d2[j]
        BY <1>1, <1>3
      <4>2. S(d1) = S(d2)
        BY <4>1
      <4> QED
        BY <3>1, <3>3, <4>2 DEF InfoEnd
    <3> QED
      BY <3>2, <3>3
  <2> DEFINE at == InfoEnd(d1, n, start)
             new == RealipPair(a)
  <2>2. at \in 1 .. n + 1
    BY <1>1, <1>3, <1>5, InfoEndInside
  <2>3. Insertion(d1, n, at, new) = Insertion(d2, n, at, new)
    <3>1. new \in Seq(Byte)
      BY ByteAssumption, InputAssumption DEF RealipPair, Words
    <3> HIDE DEF new, at
    <3> QED
      BY <1>1, <2>2, <3>1, InsertionSame
  <2> QED
    BY <1>3, <1>5, <2>1, <2>3 DEF q3_inject_realip, start
<1> QED
  BY <1>1, <1>3, <1>4, <1>5

LEMMA HostnameSame ==
  ASSUME NEW d1, NEW d2, NEW n, Packet(d1, n), Packet(d2, n),
         \A k \in 1 .. n : d1[k] = d2[k], NEW tag \in Tags
  PROVE  q3_rewrite_hostname(d1, n, RECV_BUF_SIZE, tag)
           = q3_rewrite_hostname(d2, n, RECV_BUF_SIZE, tag)
<1> USE BufferAssumption
<1> DEFINE found == KeyPositions(d1, n, HostnameKey(d1, n))
           new == Append(tag, Space)
           at == Min(found) + 3
<1>1. n \in Nat
  BY DEF Packet
<1>2. ASSUME NEW key
      PROVE  KeyPositions(d1, n, key) = KeyPositions(d2, n, key)
  <2>1. \A i \in 1 .. n - 2 :
          d1[i] = d2[i] /\ d1[i + 1] = d2[i + 1] /\ d1[i + 2] = d2[i + 2]
    BY <1>1
  <2> QED
    BY <2>1 DEF KeyPositions
<1>3. HostnameKey(d1, n) = HostnameKey(d2, n)
  BY <1>2 DEF HostnameKey
<1>4. found = KeyPositions(d2, n, HostnameKey(d2, n)) /\ found \subseteq 1 .. n - 2
  BY <1>2, <1>3 DEF KeyPositions
<1>5. IsCommand(d1, n, Responses) = IsCommand(d2, n, Responses)
  BY <1>1, CommandSame DEF IsCommand
<1>6. new \in Seq(Byte)
  BY ByteAssumption, InputAssumption
<1> HIDE DEF found, new
<1>7. CASE found = {}
  BY <1>4, <1>7 DEF q3_rewrite_hostname, found
<1>8. CASE found # {}
  <2>1. Min(found) \in 1 .. n - 2
    <3>1. found \in SUBSET Nat
      BY <1>4
    <3> QED
      BY <1>4, <1>8, <3>1, LeastElement
  <2>2. at \in 1 .. n + 1
    BY <1>1, <2>1
  <2> HIDE DEF at
  <2>3. Insertion(d1, n, at, new) = Insertion(d2, n, at, new)
    BY <1>1, <1>6, <2>2, InsertionSame
  <2> QED
    BY <1>4, <1>5, <2>3 DEF q3_rewrite_hostname, found, new, at
<1> QED
  BY <1>7, <1>8

\* Two buffers that hold the same packet are forwarded alike, whatever earlier
\* packets left behind it: the buffer, which is never cleared, is no channel
\* from one packet to the next (relay.c:506).
THEOREM StaleBytesIrrelevant ==
  ASSUME NEW d1, NEW d2, NEW n, Packet(d1, n), Packet(d2, n),
         \A k \in 1 .. n : d1[k] = d2[k]
  PROVE  /\ \A a \in Addresses : ToServer(d1, n, a) = ToServer(d2, n, a)
         /\ \A tag \in Tags : ToClient(d1, n, tag) = ToClient(d2, n, tag)
<1> USE BufferAssumption
<1>1. n \in Nat
  BY DEF Packet
<1>2. SubSeq(d1, 1, n) = SubSeq(d2, 1, n)
  <2>1. /\ SubSeq(d1, 1, n) = [k \in 1 .. n |-> d1[k]]
        /\ SubSeq(d2, 1, n) = [k \in 1 .. n |-> d2[k]]
    BY DEF Packet
  <2> QED
    BY <2>1
<1>3. /\ q3_is_connectionless(d1, n) = q3_is_connectionless(d2, n)
      /\ q3_is_connect(d1, n) = q3_is_connect(d2, n)
  BY <1>1, CommandSame DEF q3_is_connect, IsCommand
<1>4. ASSUME NEW a \in Addresses
      PROVE  ToServer(d1, n, a) = ToServer(d2, n, a)
  <2>1. CASE q3_is_connect(d1, n)
    <3>1. q3_is_connect(d2, n)
      BY <1>3, <2>1
    <3>2. q3_inject_realip(d1, n, RECV_BUF_SIZE, a) = q3_inject_realip(d2, n, RECV_BUF_SIZE, a)
      BY <2>1, <3>1, RealipSame
    <3> QED
      BY <1>2, <2>1, <3>1, <3>2 DEF ToServer, OrOriginal
  <2>2. CASE ~ q3_is_connect(d1, n)
    BY <1>2, <1>3, <2>2 DEF ToServer, OrOriginal
  <2> QED
    BY <2>1, <2>2
<1>5. ASSUME NEW tag \in Tags
      PROVE  ToClient(d1, n, tag) = ToClient(d2, n, tag)
  <2>1. q3_rewrite_hostname(d1, n, RECV_BUF_SIZE, tag)
          = q3_rewrite_hostname(d2, n, RECV_BUF_SIZE, tag)
    BY HostnameSame
  <2>2. CASE tag # <<>> /\ q3_is_connectionless(d1, n)
    BY <1>2, <1>3, <2>1, <2>2 DEF ToClient, OrOriginal
  <2>3. CASE ~ (tag # <<>> /\ q3_is_connectionless(d1, n))
    BY <1>2, <1>3, <2>3 DEF ToClient, OrOriginal
  <2> QED
    BY <2>2, <2>3
<1> QED
  BY <1>4, <1>5

-----------------------------------------------------------------------------
(* Where the insertions go in well-formed packets.                          *)

\* A scan ends where the first byte of Stop is.
LEMMA ScanFinds ==
  ASSUME NEW data, NEW len \in Nat, NEW i \in 1 .. len + 1, NEW Stop,
         NEW m \in i .. len + 1, m = len + 1 \/ data[m] \in Stop,
         \A k \in i .. m - 1 : data[k] \notin Stop
  PROVE  Scan(data, len, i, Stop) = m
<1> DEFINE S == {k \in i .. len + 1 : k = len + 1 \/ data[k] \in Stop}
<1>1. S \in SUBSET Nat /\ m \in S
  OBVIOUS
<1>2. \A k \in S : m <= k
  OBVIOUS
<1>3. Min(S) \in S /\ \A k \in S : Min(S) <= k
  BY <1>1, LeastElement
<1>4. Min(S) = m
  <2> HIDE DEF S
  <2>1. Min(S) <= m /\ m <= Min(S) /\ Min(S) \in Nat
    BY <1>1, <1>2, <1>3
  <2>2. QED
    BY <2>1
<1>5. QED
  BY <1>4 DEF Scan

\* The command is the word behind the marker.
LEMMA CommandWord ==
  ASSUME NEW data, NEW n, Packet(data, n), n >= 3,
         data[1] = Marker, data[2] \notin CommandEnds, data[3] \in CommandEnds
  PROVE  q3_connectionless_cmd(data, n) = <<data[2]>>
<1>1. n \in Nat /\ 2 \in 1 .. n + 1 /\ 3 \in 2 .. n + 1 /\ data[2] \in Byte
  BY BufferAssumption DEF Packet
<1>2. Scan(data, n, 2, Byte \ {Space, Newline}) = 2
  <2>1. data[2] \in Byte \ {Space, Newline}
    BY <1>1 DEF CommandEnds
  <2>2. QED
    BY <1>1, <2>1, ScanFinds
<1>3. Scan(data, n, 2, CommandEnds) = 3
  BY <1>1, ScanFinds
<1>4. q3_is_connectionless(data, n)
  BY <1>1 DEF q3_is_connectionless
<1>5. SubSeq(data, 2, 2) = <<data[2]>>
  <2>1. SubSeq(data, 2, 2) = [k \in 1 .. 1 |-> data[2 + k - 1]]
    BY <1>1, BufferAssumption DEF Packet
  <2>2. \A k \in 1 .. 1 : data[2 + k - 1] = <<data[2]>>[k]
    OBVIOUS
  <2>3. <<data[2]>> = [k \in 1 .. 1 |-> <<data[2]>>[k]]
    OBVIOUS
  <2>4. QED
    BY <2>1, <2>2, <2>3
<1>6. QED
  BY <1>2, <1>3, <1>4, <1>5 DEF q3_connectionless_cmd

LEMMA WordsDoNotEnd ==
  /\ \A w \in Words : w \notin CommandEnds
  /\ Space \in CommandEnds /\ Newline \in CommandEnds
BY DEF Words, CommandEnds, Queries, Responses, Space, Newline, Nul, Backslash

\* The userinfo of a connect packet ends before position j: at the closing quote,
\* or without quotes at the line ends that are the rest of the packet.
UserinfoEnds(p, j) ==
  /\ p[1] = Marker /\ p[2] = "connect" /\ p[3] = Space
  /\ \E i \in 4 .. j - 1 :
       /\ \A k \in 3 .. i - 1 : p[k] = Space
       /\ \/ /\ p[i] = Quote /\ j <= Len(p) /\ p[j] = Quote
             /\ \A k \in i + 1 .. j - 1 : p[k] # Quote
          \/ /\ p[i] \notin {Space, Quote} /\ p[j - 1] \notin LineEnds
             /\ \A k \in j .. Len(p) : p[k] \in LineEnds

LEMMA UserinfoFound ==
  ASSUME NEW data, NEW n, Packet(data, n), NEW p, p = SubSeq(data, 1, n),
         NEW j \in 5 .. n + 1, UserinfoEnds(p, j)
  PROVE  /\ q3_is_connect(data, n) /\ InfoStart(data, n) \in 1 .. n
         /\ InfoEnd(data, n, InfoStart(data, n)) = j
<1> USE BufferAssumption
<1>1. n \in Nat /\ Len(p) = n /\ (\A k \in 1 .. n : p[k] = data[k] /\ data[k] \in Byte)
  BY DEF Packet
<1>2. n >= 4 /\ data[1] = Marker /\ data[2] = "connect" /\ data[3] = Space
  BY <1>1 DEF UserinfoEnds
<1>3. PICK i \in 4 .. j - 1 :
        /\ \A k \in 3 .. i - 1 : p[k] = Space
        /\ \/ /\ p[i] = Quote /\ j <= n /\ p[j] = Quote
              /\ \A k \in i + 1 .. j - 1 : p[k] # Quote
           \/ /\ p[i] \notin {Space, Quote} /\ p[j - 1] \notin LineEnds
              /\ \A k \in j .. n : p[k] \in LineEnds
  BY <1>1 DEF UserinfoEnds
<1>4. q3_is_connect(data, n)
  <2>1. "connect" \in Words
    BY DEF Words
  <2>2. q3_connectionless_cmd(data, n) = <<"connect">>
    BY <1>1, <1>2, <2>1, WordsDoNotEnd, CommandWord
  <2>3. QED
    BY <2>2 DEF q3_is_connect, IsCommand
<1>5. Scan(data, n, 2, {Space, Newline}) = 3
  <2>1. data[2] \notin {Space, Newline}
    BY <1>2 DEF Space, Newline
  <2>2. 2 \in 1 .. n + 1 /\ 3 \in 2 .. n + 1
    BY <1>1, <1>2
  <2>3. data[3] \in {Space, Newline} /\ \A k \in 2 .. 3 - 1 : data[k] \notin {Space, Newline}
    BY <1>2, <2>1
  <2>4. QED
    BY <1>1, <2>2, <2>3, ScanFinds
<1>6. i \in 1 .. n /\ 3 \in 1 .. n + 1 /\ i \in 3 .. n + 1
  BY <1>1, <1>3
<1>7. InfoStart(data, n) = i
  <2>1. data[i] \in Byte \ {Space}
    BY <1>1, <1>3, <1>6 DEF Space, Quote
  <2>2. \A k \in 3 .. i - 1 : data[k] \notin Byte \ {Space}
    BY <1>1, <1>3, <1>6
  <2>3. Scan(data, n, 3, Byte \ {Space}) = i
    BY <1>1, <1>6, <2>1, <2>2, ScanFinds
  <2>4. QED
    BY <1>5, <2>3 DEF InfoStart
<1>8. InfoEnd(data, n, i) = j
  <2>1. CASE data[i] = Quote
    <3>1. j <= n /\ p[j] = Quote /\ \A k \in i + 1 .. j - 1 : p[k] # Quote
      BY <1>1, <1>3, <1>6, <2>1
    <3>2. i + 1 \in 1 .. n + 1 /\ j \in i + 1 .. n + 1
      BY <1>1, <1>3, <1>6
    <3>3. data[j] \in {Quote} /\ \A k \in i + 1 .. j - 1 : data[k] \notin {Quote}
      BY <1>1, <1>6, <3>1
    <3>4. Scan(data, n, i + 1, {Quote}) = j
      BY <1>1, <3>2, <3>3, ScanFinds
    <3>5. QED
      BY <2>1, <3>4 DEF InfoEnd
  <2>2. CASE data[i] # Quote
    <3> DEFINE S == {k \in i .. n + 1 : \A l \in k .. n : data[l] \in {Newline, Nul}}
    <3>1. p[j - 1] \notin LineEnds /\ \A k \in j .. n : p[k] \in LineEnds
      BY <1>1, <1>3, <1>6, <2>2
    <3>2. j - 1 \in i .. n
      BY <1>1, <1>3, <1>6
    <3>3. data[j - 1] \notin {Newline, Nul} /\ \A k \in j .. n : data[k] \in {Newline, Nul}
      BY <1>1, <1>6, <3>1, <3>2 DEF LineEnds
    <3>4. S \in SUBSET Nat /\ j \in S
      BY <1>1, <1>6, <3>2, <3>3
    <3>5. \A k \in S : j <= k
      BY <1>1, <1>6, <3>2, <3>3
    <3> HIDE DEF S
    <3>6. Min(S) = j
      <4>1. Min(S) \in S /\ Min(S) <= j
        BY <3>4, LeastElement
      <4>2. j <= Min(S) /\ Min(S) \in Nat
        BY <3>4, <3>5, <4>1
      <4>3. QED
        BY <4>1, <4>2
    <3>7. QED
      BY <2>2, <3>6 DEF InfoEnd, S
  <2>3. QED
    BY <2>1, <2>2
<1>9. QED
  BY <1>4, <1>6, <1>7, <1>8

\* What the client branch makes of a packet that fits into one.
LEMMA RealipSent ==
  ASSUME NEW data, NEW n, Packet(data, n), n > 0, n <= Q3_MAX_PACKET_SIZE,
         NEW p, p = SubSeq(data, 1, n), NEW a \in Addresses
  PROVE  LET new == RealipPair(a)
         IN  /\ \A j \in 5 .. n + 1 :
                  UserinfoEnds(p, j) =>
                    ToServer(data, n, a) = IF n + Len(new) <= Q3_MAX_PACKET_SIZE
                                           THEN PutIn(p, j - 1, new) ELSE p
             /\ p[1] # Marker => ToServer(data, n, a) = p
<1> USE BufferAssumption, PacketSizeAssumption
<1> DEFINE new == RealipPair(a)
<1>1. n \in Nat /\ Len(p) = n /\ p[1] = data[1]
  BY DEF Packet
<1>2. new \in Seq(Byte) /\ Len(new) = 4
  BY ByteAssumption, InputAssumption DEF RealipPair, Words
<1> HIDE DEF new
<1>3. ASSUME NEW j \in 5 .. n + 1, UserinfoEnds(p, j)
      PROVE  ToServer(data, n, a) = IF n + Len(new) <= Q3_MAX_PACKET_SIZE
                                    THEN PutIn(p, j - 1, new) ELSE p
  <2> DEFINE t == q3_inject_realip(data, n, RECV_BUF_SIZE, a)
  <2>1. /\ q3_is_connect(data, n) /\ InfoStart(data, n) \in 1 .. n
        /\ InfoEnd(data, n, InfoStart(data, n)) = j
    BY <1>3, UserinfoFound
  <2>2. ToServer(data, n, a) = IF t = NotRewritten THEN p ELSE t
    BY <1>1, <2>1 DEF ToServer, OrOriginal
  <2>3. t = IF Fits(n + Len(new), RECV_BUF_SIZE) THEN Insertion(data, n, j, new) ELSE NotRewritten
    BY <2>1, <1>1 DEF q3_inject_realip, new
  <2>4. Fits(n + Len(new), RECV_BUF_SIZE) <=> n + Len(new) <= Q3_MAX_PACKET_SIZE
    BY <1>1, <1>2 DEF Fits
  <2>5. PICK i \in 1 .. n + 1 : i = j
    BY <1>1
  <2>6. /\ Insertion(data, n, i, new) = PutIn(p, i - 1, new)
        /\ Len(Insertion(data, n, i, new)) = n + Len(new)
    <3>1. new \in Seq(Byte)
      BY <1>2
    <3>2. QED
      BY <3>1, InsertionShape
  <2>7. Insertion(data, n, i, new) # NotRewritten
    BY <1>1, <1>2, <2>6 DEF NotRewritten
  <2> HIDE DEF t
  <2>8. QED
    BY <2>2, <2>3, <2>4, <2>5, <2>6, <2>7
<1>4. ASSUME p[1] # Marker PROVE ToServer(data, n, a) = p
  <2>1. q3_connectionless_cmd(data, n) = <<>>
    BY <1>1, <1>4 DEF q3_connectionless_cmd, q3_is_connectionless
  <2>2. ~ q3_is_connect(data, n)
    BY <2>1 DEF q3_is_connect, IsCommand
  <2>3. QED
    BY <1>1, <2>2 DEF ToServer, OrOriginal
<1>5. QED
  BY <1>3, <1>4 DEF new

LEMMA WellFormedEnds ==
  ASSUME NEW p \in Seq(Byte), NEW i \in 4 .. Len(p) + 1, NEW j \in 4 .. Len(p) + 1,
         WellFormed(p, i, j)
  PROVE  /\ j \in 5 .. Len(p) + 1 /\ i <= j /\ UserinfoEnds(p, j)
         /\ i = j => p[i - 1] = Quote
<1>1. UserinfoAt(p, i, j) /\ i <= j
  BY DEF WellFormed, UserinfoAt
<1>2. p[1] = Marker /\ p[2] = "connect" /\ p[3] = Space
  BY <1>1 DEF UserinfoAt
<1>3. CASE p[i - 1] = Quote
  <2>1. i > 4 /\ \A k \in 3 .. i - 2 : p[k] = Space
    <3>1. (\A k \in 3 .. i - 1 : p[k] = Space) => p[i - 1] = Space
      OBVIOUS
    <3>2. QED
      BY <1>1, <1>3, <3>1 DEF UserinfoAt, Quote, Space
  <2>2. i - 1 \in 4 .. j - 1 /\ j \in 5 .. Len(p) + 1
    BY <1>1, <2>1
  <2>3. \A k \in i .. j - 1 : p[k] # Quote
    BY <1>1 DEF UserinfoAt, ArgumentEnds
  <2>4. j <= Len(p) /\ p[j] = Quote
    BY <1>3 DEF WellFormed
  <2> DEFINE g == i - 1
  <2>5. g \in 4 .. j - 1 /\ p[g] = Quote
    BY <1>3, <2>2
  <2>6. (\A k \in 3 .. g - 1 : p[k] = Space) /\ \A k \in g + 1 .. j - 1 : p[k] # Quote
    BY <2>1, <2>3
  <2> HIDE DEF g
  <2>7. UserinfoEnds(p, j)
    BY <1>2, <2>4, <2>5, <2>6 DEF UserinfoEnds
  <2>8. QED
    BY <1>1, <1>3, <2>2, <2>7
<1>4. CASE p[i - 1] # Quote
  <2>1. i < j /\ \A k \in 3 .. i - 1 : p[k] = Space
    BY <1>1, <1>4 DEF UserinfoAt
  <2>2. \A k \in i .. j - 1 : p[k] \notin {Space, Quote} /\ p[k] \notin LineEnds
    BY <1>1, <1>4 DEF UserinfoAt, ArgumentEnds
  <2>3. \A k \in j .. Len(p) : p[k] \in LineEnds
    BY <1>4 DEF WellFormed
  <2>4. i \in 4 .. j - 1 /\ j - 1 \in i .. j - 1
    BY <2>1
  <2>5. p[i] \notin {Space, Quote} /\ p[j - 1] \notin LineEnds
    BY <2>2, <2>4
  <2>6. QED
    BY <1>1, <1>2, <2>1, <2>3, <2>4, <2>5 DEF UserinfoEnds
<1>5. QED
  BY <1>3, <1>4

-----------------------------------------------------------------------------
(* What the game server reads of it.                                        *)

LEMMA ConcatAt ==
  ASSUME NEW q \in Seq(Byte), NEW r \in Seq(Byte)
  PROVE  /\ q \o r \in Seq(Byte) /\ Len(q \o r) = Len(q) + Len(r)
         /\ \A k \in 1 .. Len(q) : (q \o r)[k] = q[k]
         /\ \A k \in 1 .. Len(r) : (q \o r)[Len(q) + k] = r[k]
<1>1. q \o r \in Seq(Byte) /\ Len(q \o r) = Len(q) + Len(r)
  OBVIOUS
<1>2. ASSUME NEW k \in 1 .. Len(q) PROVE (q \o r)[k] = q[k]
  OBVIOUS
<1>3. ASSUME NEW k \in 1 .. Len(r) PROVE (q \o r)[Len(q) + k] = r[k]
  OBVIOUS
<1>4. QED
  BY <1>1, <1>2, <1>3

LEMMA SubSeqOne ==
  ASSUME NEW s \in Seq(Byte), NEW m \in 1 .. Len(s)
  PROVE  SubSeq(s, m, m) = <<s[m]>>
<1>1. SubSeq(s, m, m) = [k \in 1 .. 1 |-> s[m + k - 1]]
  OBVIOUS
<1>2. \A k \in 1 .. 1 : s[m + k - 1] = <<s[m]>>[k]
  OBVIOUS
<1>3. <<s[m]>> = [k \in 1 .. 1 |-> <<s[m]>>[k]]
  OBVIOUS
<1>4. QED
  BY <1>1, <1>2, <1>3

LEMMA PutInAt ==
  ASSUME NEW p \in Seq(Byte), NEW m \in 0 .. Len(p), NEW new \in Seq(Byte)
  PROVE  /\ PutIn(p, m, new) \in Seq(Byte)
         /\ Len(PutIn(p, m, new)) = Len(p) + Len(new)
         /\ \A k \in 1 .. m : PutIn(p, m, new)[k] = p[k]
         /\ \A k \in 1 .. Len(new) : PutIn(p, m, new)[m + k] = new[k]
         /\ \A k \in m + 1 .. Len(p) : PutIn(p, m, new)[k + Len(new)] = p[k]
<1> DEFINE q == SubSeq(p, 1, m)
           r == SubSeq(p, m + 1, Len(p))
<1>1. q \in Seq(Byte) /\ Len(q) = m /\ \A k \in 1 .. m : q[k] = p[k]
  OBVIOUS
<1>2. /\ r \in Seq(Byte) /\ Len(r) = Len(p) - m
      /\ \A k \in 1 .. Len(p) - m : r[k] = p[m + k]
  OBVIOUS
<1>3. PutIn(p, m, new) = q \o new \o r
  BY DEF PutIn
<1> HIDE DEF q, r
<1>4. /\ q \o new \in Seq(Byte) /\ Len(q \o new) = m + Len(new)
      /\ \A k \in 1 .. m : (q \o new)[k] = q[k]
      /\ \A k \in 1 .. Len(new) : (q \o new)[m + k] = new[k]
  BY <1>1, ConcatAt
<1> DEFINE t == q \o new
<1> HIDE DEF t
<1>5. /\ t \o r \in Seq(Byte) /\ Len(t \o r) = Len(p) + Len(new)
      /\ \A k \in 1 .. m + Len(new) : (t \o r)[k] = t[k]
      /\ \A k \in 1 .. Len(p) - m : (t \o r)[m + Len(new) + k] = r[k]
  <2>1. t \in Seq(Byte) /\ Len(t) = m + Len(new)
    BY <1>4 DEF t
  <2>2. /\ t \o r \in Seq(Byte) /\ Len(t \o r) = Len(t) + Len(r)
        /\ \A k \in 1 .. Len(t) : (t \o r)[k] = t[k]
        /\ \A k \in 1 .. Len(r) : (t \o r)[Len(t) + k] = r[k]
    BY <1>2, <2>1, ConcatAt
  <2>3. Len(t) + Len(r) = Len(p) + Len(new)
    BY <1>2, <2>1
  <2>4. QED
    BY <1>2, <2>1, <2>2, <2>3
<1>6. ASSUME NEW k \in m + 1 .. Len(p)
      PROVE  (t \o r)[k + Len(new)] = p[k]
  <2>1. k - m \in 1 .. Len(p) - m /\ m + Len(new) + (k - m) = k + Len(new) /\ m + (k - m) = k
    OBVIOUS
  <2>2. QED
    BY <1>2, <1>5, <2>1
<1>7. /\ \A k \in 1 .. m : (t \o r)[k] = p[k]
      /\ \A k \in 1 .. Len(new) : (t \o r)[m + k] = new[k]
  BY <1>1, <1>4, <1>5 DEF t
<1>8. QED
  BY <1>3, <1>5, <1>6, <1>7 DEF t

LEMMA BackslashesStep ==
  ASSUME NEW p, NEW i \in Nat, NEW k \in Nat, i <= k
  PROVE  /\ Backslashes(p, i, k - 1) \in Nat
         /\ Backslashes(p, i, k) = IF p[k] = Backslash THEN Backslashes(p, i, k - 1) + 1
                                   ELSE Backslashes(p, i, k - 1)
<1> DEFINE S == {l \in i .. k - 1 : p[l] = Backslash}
           T == {l \in i .. k : p[l] = Backslash}
<1>1. IsFiniteSet(S) /\ Cardinality(S) \in Nat
  <2>1. IsFiniteSet(i .. k - 1)
    BY FS_Interval
  <2>2. QED
    BY <2>1, FS_Subset, FS_CardinalityType
<1>2. T = (IF p[k] = Backslash THEN S \cup {k} ELSE S) /\ k \notin S
  OBVIOUS
<1> HIDE DEF S, T
<1>3. Cardinality(S \cup {k}) = Cardinality(S) + 1
  BY <1>1, <1>2, FS_AddElement
<1>4. QED
  BY <1>1, <1>2, <1>3 DEF Backslashes, S, T

LEMMA BackslashesSame ==
  ASSUME NEW p, NEW s, NEW i, NEW k, \A l \in i .. k : s[l] = p[l]
  PROVE  Backslashes(s, i, k) = Backslashes(p, i, k)
BY DEF Backslashes

\* A pair behind the last one of a userinfo is read when none before it has its
\* key: one that only looks like it is a value, or runs into the new pair.
LEMMA PairRead ==
  ASSUME NEW p \in Seq(Byte), NEW i \in 4 .. Len(p) + 1, NEW j \in 4 .. Len(p) + 1,
         WellFormed(p, i, j), \A k \in i .. j - 3 : ~ IsKey(p, i, k, "realip"),
         NEW a \in Addresses
  PROVE  LET s == PutIn(p, j - 1, RealipPair(a))
         IN  UserinfoAt(s, i, j + 4) /\ ReadsValue(s, i, j + 4, "realip", <<a>>)
<1> DEFINE new == RealipPair(a)
           s == PutIn(p, j - 1, new)
<1>1. /\ new \in Seq(Byte) /\ Len(new) = 4
      /\ new[1] = Backslash /\ new[2] = "realip" /\ new[3] = Backslash /\ new[4] = a
  BY ByteAssumption, InputAssumption DEF RealipPair, Words
<1>2. i \in Nat /\ j \in Nat /\ Len(p) \in Nat /\ j - 1 \in 0 .. Len(p)
  OBVIOUS
<1>3. i <= j /\ 5 <= j /\ (i = j => p[i - 1] = Quote) /\ UserinfoAt(p, i, j)
  BY WellFormedEnds DEF WellFormed
<1> HIDE DEF new
<1> DEFINE m == j - 1
<1>4. /\ s \in Seq(Byte) /\ Len(s) = Len(p) + 4
      /\ \A k \in 1 .. m : s[k] = p[k]
      /\ \A k \in 1 .. 4 : s[m + k] = new[k]
      /\ \A k \in m + 1 .. Len(p) : s[k + 4] = p[k]
  <2>1. m \in 0 .. Len(p)
    BY <1>2
  <2>2. s = PutIn(p, m, new)
    OBVIOUS
  <2> HIDE DEF m, s
  <2>3. /\ s \in Seq(Byte) /\ Len(s) = Len(p) + Len(new)
        /\ \A k \in 1 .. m : s[k] = p[k]
        /\ \A k \in 1 .. Len(new) : s[m + k] = new[k]
        /\ \A k \in m + 1 .. Len(p) : s[k + Len(new)] = p[k]
    <3>1. new \in Seq(Byte)
      BY <1>1
    <3>2. QED
      BY <2>1, <2>2, <3>1, PutInAt, Zenon
  <2>4. Len(new) = 4
    BY <1>1
  <2>5. QED
    BY <2>3, <2>4, Zenon
<1>5. s[j] = Backslash /\ s[j + 1] = "realip" /\ s[j + 2] = Backslash /\ s[j + 3] = a
  <2>1. m + 1 = j /\ m + 2 = j + 1 /\ m + 3 = j + 2 /\ m + 4 = j + 3
    BY <1>2
  <2> HIDE DEF m, s
  <2>2. QED
    BY <1>1, <1>4, <2>1
<1> HIDE DEF s
<1>a. \A k \in 1 .. Len(p) : /\ k < j => s[k] = p[k]
                             /\ j <= k => s[k + 4] = p[k]
  <2> SUFFICES ASSUME NEW k \in 1 .. Len(p) PROVE (k < j => s[k] = p[k]) /\ (j <= k => s[k + 4] = p[k])
    OBVIOUS
  <2>1. (k < j => k \in 1 .. m) /\ (j <= k => k \in m + 1 .. Len(p))
    BY <1>2
  <2> HIDE DEF m
  <2>2. QED
    BY <1>4, <2>1
<1>b. \A k \in 1 .. j - 1 : s[k] = p[k]
  <2>1. \A k \in 1 .. j - 1 : k \in 1 .. Len(p) /\ k < j
    BY <1>2
  <2>2. QED
    BY <1>a, <2>1
<1>c. s \in Seq(Byte) /\ Len(s) = Len(p) + 4
  BY <1>4
<1> HIDE DEF m
<1>6. UserinfoAt(s, i, j + 4)
  <2>1. s[i - 1] = p[i - 1] /\ ArgumentEnds(s, i) = ArgumentEnds(p, i)
    <3>1. i - 1 \in 1 .. j - 1
      BY <1>2, <1>3
    <3>2. s[i - 1] = p[i - 1]
      BY <1>b, <3>1
    <3>3. QED
      BY <3>2 DEF ArgumentEnds
  <2>2. i \in 4 .. Len(s) + 1 /\ j + 4 \in i .. Len(s) + 1
    BY <1>2, <1>3, <1>c
  <2>3. s[1] = Marker /\ s[2] = "connect" /\ s[3] = Space
    <3>1. 1 \in 1 .. j - 1 /\ 2 \in 1 .. j - 1 /\ 3 \in 1 .. j - 1
      BY <1>2, <1>3
    <3>2. QED
      BY <1>3, <1>b, <3>1 DEF UserinfoAt
  <2>4. \/ i > 4 /\ s[i - 1] = Quote /\ \A k \in 3 .. i - 2 : s[k] = Space
        \/ i < j + 4 /\ \A k \in 3 .. i - 1 : s[k] = Space
    <3>1. \A k \in 3 .. i - 1 : s[k] = p[k]
      <4>1. \A k \in 3 .. i - 1 : k \in 1 .. j - 1
        BY <1>2, <1>3
      <4>2. QED
        BY <1>b, <4>1
    <3>2. QED
      BY <1>2, <1>3, <2>1, <3>1 DEF UserinfoAt
  <2>5. \A k \in i .. j + 4 - 1 : s[k] \notin ArgumentEnds(s, i)
    <3>1. ArgumentEnds(s, i) \subseteq {Quote, Newline, Nul, Space}
      BY DEF ArgumentEnds, LineEnds
    <3>2. {Backslash, "realip", a} \cap {Quote, Newline, Nul, Space} = {}
      BY InputAssumption DEF Quote, Newline, Nul, Space, Backslash
    <3>3. \A k \in i .. j - 1 : s[k] \notin ArgumentEnds(s, i)
      <4>1. \A k \in i .. j - 1 : k \in 1 .. j - 1
        BY <1>2
      <4>2. QED
        BY <1>3, <1>b, <2>1, <4>1 DEF UserinfoAt
    <3>4. \A k \in i .. j + 4 - 1 :
            k \in i .. j - 1 \/ k = j \/ k = j + 1 \/ k = j + 2 \/ k = j + 3
      BY <1>2
    <3>5. QED
      BY <1>5, <3>1, <3>2, <3>3, <3>4
  <2>6. j + 4 = Len(s) + 1 \/ s[j + 4] \in ArgumentEnds(s, i)
    <3>1. CASE j = Len(p) + 1
      BY <1>c, <3>1
    <3>2. CASE j # Len(p) + 1
      <4>1. j \in 1 .. Len(p) /\ j <= j
        BY <1>2, <3>2
      <4>2. s[j + 4] = p[j]
        BY <1>a, <4>1
      <4>3. QED
        BY <1>3, <2>1, <3>2, <4>2 DEF UserinfoAt
    <3>3. QED
      BY <3>1, <3>2
  <2>7. QED
    BY <2>2, <2>3, <2>4, <2>5, <2>6 DEF UserinfoAt
<1>7. Backslashes(s, i, j - 1) % 2 = 0 /\ Backslashes(s, i, j - 1) \in Nat
  <2>1. \A l \in i .. j - 1 : s[l] = p[l]
    <3>1. \A l \in i .. j - 1 : l \in 1 .. j - 1
      BY <1>2
    <3>2. QED
      BY <1>b, <3>1
  <2>2. Backslashes(s, i, j - 1) = Backslashes(p, i, j - 1)
    BY <2>1, BackslashesSame
  <2>3. QED
    BY <1>2, <1>3, <2>2, BackslashesStep DEF WellFormed
<1>8. IsKey(s, i, j, "realip")
  <2>1. Backslashes(s, i, j) = Backslashes(s, i, j - 1) + 1
    BY <1>2, <1>3, <1>5, BackslashesStep
  <2>2. Backslashes(s, i, j) % 2 = 1
    BY <1>7, <2>1
  <2>3. QED
    BY <1>5, <2>2 DEF IsKey, HasKey
<1>9. ASSUME NEW l \in i .. j - 1, IsKey(s, i, l, "realip") PROVE FALSE
  <2>1. /\ s[l] = Backslash /\ s[l + 1] = "realip" /\ s[l + 2] = Backslash
        /\ Backslashes(s, i, l) % 2 = 1
    BY <1>9 DEF IsKey, HasKey
  <2>2. CASE l = j - 1
    <3>1. s[j] = "realip"
      BY <1>2, <2>1, <2>2
    <3>2. QED
      BY <1>5, <3>1 DEF Backslash
  <2>3. CASE l = j - 2
    <3>1. s[j - 1] = "realip" /\ s[j - 1] # Backslash
      BY <1>2, <2>1, <2>3 DEF Backslash
    <3>2. i <= m /\ m \in Nat /\ m - 1 = l /\ m = j - 1
      BY <1>2, <2>3 DEF m
    <3>3. Backslashes(s, i, m) = Backslashes(s, i, m - 1)
      BY <1>2, <3>1, <3>2, BackslashesStep
    <3>4. QED
      BY <1>7, <2>1, <3>2, <3>3
  <2>4. CASE l \in i .. j - 3
    <3>1. p[l] = s[l] /\ p[l + 1] = s[l + 1] /\ p[l + 2] = s[l + 2]
      <4>1. l \in 1 .. j - 1 /\ l + 1 \in 1 .. j - 1 /\ l + 2 \in 1 .. j - 1
        BY <1>2, <2>4
      <4>2. QED
        BY <1>b, <4>1
    <3>2. \A k \in i .. l : s[k] = p[k]
      <4>1. \A k \in i .. l : k \in 1 .. j - 1
        BY <1>2, <2>4
      <4>2. QED
        BY <1>b, <4>1
    <3>3. Backslashes(s, i, l) = Backslashes(p, i, l)
      BY <3>2, BackslashesSame
    <3>4. IsKey(p, i, l, "realip")
      BY <2>1, <3>1, <3>3 DEF IsKey, HasKey
    <3>5. QED
      BY <2>4, <3>4
  <2>5. l = j - 1 \/ l = j - 2 \/ l \in i .. j - 3
    BY <1>2
  <2>6. QED
    BY <2>2, <2>3, <2>4, <2>5
<1>10. SubSeq(s, j + 3, (j + 4) - 1) = <<a>>
  <2>1. j + 3 \in 1 .. Len(s) /\ (j + 4) - 1 = j + 3
    BY <1>2, <1>c
  <2>2. SubSeq(s, j + 3, j + 3) = <<s[j + 3]>>
    BY <1>c, <2>1, SubSeqOne
  <2>3. QED
    BY <1>5, <2>1, <2>2
<1>11. ReadsValue(s, i, j + 4, "realip", <<a>>)
  <2>1. j \in i .. (j + 4) - 3 /\ j + 4 \in i .. j + 4 /\ j + 3 <= j + 4
    BY <1>2, <1>3
  <2>2. \A l \in j + 3 .. (j + 4) - 1 : s[l] # Backslash
    <3>1. \A l \in j + 3 .. (j + 4) - 1 : l = j + 3
      BY <1>2
    <3>2. QED
      BY <1>5, <3>1, InputAssumption
  <2>3. QED
    BY <1>8, <1>9, <1>10, <2>1, <2>2 DEF ReadsValue
<1>12. QED
  BY <1>6, <1>11 DEF s, new

-----------------------------------------------------------------------------
(* Where the tag goes.                                                      *)

\* Where the search for the key ends.
LEMMA NameFound ==
  ASSUME NEW data, NEW n, Packet(data, n), NEW p, p = SubSeq(data, 1, n)
  PROVE  LET found == KeyPositions(data, n, HostnameKey(data, n))
         IN  /\ found \subseteq 1 .. n - 2
             /\ \A k \in 1 .. n - 2 : NamedAt(p, k) => found # {} /\ Min(found) = k
             /\ found # {} => NamedAt(p, Min(found))
<1> USE BufferAssumption
<1> DEFINE found == KeyPositions(data, n, HostnameKey(data, n))
           At(key) == KeyPositions(data, n, key)
<1>1. n \in Nat /\ Len(p) = n /\ \A k \in 1 .. n : p[k] = data[k]
  BY DEF Packet
<1>2. ASSUME NEW key PROVE \A k \in 1 .. n - 2 : k \in At(key) <=> HasKey(p, k, key)
  <2>1. \A k \in 1 .. n - 2 : k \in 1 .. n /\ k + 1 \in 1 .. n /\ k + 2 \in 1 .. n
    BY <1>1
  <2>2. QED
    BY <1>1, <2>1 DEF KeyPositions, HasKey
<1>3. ASSUME NEW key PROVE At(key) \subseteq 1 .. n - 2
  BY DEF KeyPositions
<1>4. found = IF At("sv_hostname") # {} THEN At("sv_hostname") ELSE At("hostname")
  BY DEF HostnameKey
<1> HIDE DEF At, found
<1>5. ASSUME NEW key, NEW k \in 1 .. n - 2
      PROVE  First(p, k, key) <=> At(key) # {} /\ Min(At(key)) = k
  <2>1. At(key) \in SUBSET Nat
    BY <1>3
  <2>2. At(key) # {} => Min(At(key)) \in At(key) /\ \A j \in At(key) : Min(At(key)) <= j
    BY <2>1, LeastElement
  <2>3. ASSUME First(p, k, key) PROVE At(key) # {} /\ Min(At(key)) = k
    <3>1. k \in At(key)
      BY <1>2, <2>3 DEF First
    <3>2. Min(At(key)) \in At(key) /\ Min(At(key)) <= k
      BY <2>2, <3>1
    <3>3. Min(At(key)) \in 1 .. n - 2 /\ HasKey(p, Min(At(key)), key)
      BY <1>2, <1>3, <3>2
    <3>4. ~ Min(At(key)) \in 1 .. k - 1
      BY <2>3, <3>3 DEF First
    <3>5. QED
      BY <3>1, <3>2, <3>3, <3>4
  <2>4. ASSUME At(key) # {}, Min(At(key)) = k PROVE First(p, k, key)
    <3>1. k \in At(key) /\ \A j \in At(key) : k <= j
      BY <2>2, <2>4
    <3>2. \A j \in 1 .. k - 1 : j \in 1 .. n - 2 /\ j \notin At(key)
      BY <1>1, <3>1
    <3>3. QED
      BY <1>2, <3>1, <3>2 DEF First
  <2>5. QED
    BY <2>3, <2>4
<1>6. At("sv_hostname") = {} <=> \A j \in 1 .. n - 2 : ~ HasKey(p, j, "sv_hostname")
  BY <1>2, <1>3
<1>7. found \subseteq 1 .. n - 2
  BY <1>3, <1>4
<1>8. \A k \in 1 .. n - 2 : NamedAt(p, k) <=> found # {} /\ Min(found) = k
  <2> SUFFICES ASSUME NEW k \in 1 .. n - 2 PROVE NamedAt(p, k) <=> found # {} /\ Min(found) = k
    OBVIOUS
  <2>1. CASE At("sv_hostname") # {}
    BY <1>1, <1>4, <1>5, <1>6, <2>1 DEF NamedAt
  <2>2. CASE At("sv_hostname") = {}
    BY <1>1, <1>4, <1>5, <1>6, <2>2 DEF NamedAt
  <2>3. QED
    BY <2>1, <2>2
<1>9. found # {} => Min(found) \in 1 .. n - 2
  <2>1. found \in SUBSET Nat
    BY <1>7
  <2>2. QED
    BY <1>7, <2>1, LeastElement
<1>10. QED
  BY <1>7, <1>8, <1>9 DEF found

\* What the server branch makes of a packet.
LEMMA HostnameSent ==
  ASSUME NEW data, NEW n, Packet(data, n), n > 0,
         NEW p, p = SubSeq(data, 1, n), NEW tag \in Tags
  PROVE  LET new == Append(tag, Space)
             answer == n >= 3 /\ p[1] = Marker /\ p[2] \in Responses /\ p[3] = Newline
         IN  /\ answer =>
                  /\ \A k \in 1 .. n - 2 :
                       NamedAt(p, k) =>
                         ToClient(data, n, tag) = IF tag # <<>> /\ n + Len(new) <= RECV_BUF_SIZE
                                                  THEN PutIn(p, k + 2, new) ELSE p
                  /\ (\A k \in 1 .. n - 2 : ~ NamedAt(p, k)) => ToClient(data, n, tag) = p
             /\ p[1] # Marker => ToClient(data, n, tag) = p
<1> USE BufferAssumption
<1> DEFINE new == Append(tag, Space)
           found == KeyPositions(data, n, HostnameKey(data, n))
           t == q3_rewrite_hostname(data, n, RECV_BUF_SIZE, tag)
<1>1. n \in Nat /\ Len(p) = n /\ \A k \in 1 .. n : p[k] = data[k] /\ data[k] \in Byte
  BY DEF Packet
<1>2. tag \in Seq(Byte) /\ new \in Seq(Byte) /\ Len(new) = Len(tag) + 1 /\ Len(tag) \in Nat
  BY ByteAssumption, InputAssumption
<1>3. /\ found \subseteq 1 .. n - 2
      /\ \A k \in 1 .. n - 2 : NamedAt(p, k) => found # {} /\ Min(found) = k
      /\ found # {} => NamedAt(p, Min(found))
  BY NameFound
<1>4. found # {} => Min(found) \in 1 .. n - 2
  <2>1. found \in SUBSET Nat
    BY <1>3
  <2>2. QED
    BY <1>3, <2>1, LeastElement
<1>5. ToClient(data, n, tag) = IF /\ tag # <<>> /\ q3_is_connectionless(data, n)
                                  /\ t # NotRewritten
                               THEN t ELSE p
  BY DEF ToClient, OrOriginal
<1>6. t = IF /\ tag # <<>> /\ IsCommand(data, n, Responses) /\ found # {}
             /\ n + Len(new) <= RECV_BUF_SIZE
          THEN Insertion(data, n, Min(found) + 3, new) ELSE NotRewritten
  BY DEF q3_rewrite_hostname
<1> HIDE DEF new, found, t
<1>7. ASSUME n >= 3, p[1] = Marker, p[2] \in Responses, p[3] = Newline
      PROVE  IsCommand(data, n, Responses) /\ q3_is_connectionless(data, n)
  <2>1. data[1] = Marker /\ data[2] \in Responses /\ data[3] = Newline
    BY <1>1, <1>7
  <2>2. data[2] \notin CommandEnds /\ data[3] \in CommandEnds
    BY <2>1, WordsDoNotEnd DEF Words
  <2>3. q3_connectionless_cmd(data, n) = <<data[2]>>
    BY <1>1, <1>7, <2>1, <2>2, CommandWord
  <2>4. QED
    BY <1>1, <1>7, <2>1, <2>3 DEF IsCommand, q3_is_connectionless
<1>8. ASSUME found # {}
      PROVE  /\ Insertion(data, n, Min(found) + 3, new) = PutIn(p, Min(found) + 2, new)
             /\ Insertion(data, n, Min(found) + 3, new) # NotRewritten
  <2> DEFINE i == Min(found) + 3
  <2>1. i \in 1 .. n + 1 /\ i - 1 = Min(found) + 2
    BY <1>1, <1>4, <1>8
  <2> HIDE DEF i
  <2>2. /\ Insertion(data, n, i, new) = PutIn(p, i - 1, new)
        /\ Len(Insertion(data, n, i, new)) = n + Len(new)
    BY <1>2, <2>1, InsertionShape
  <2>3. Insertion(data, n, i, new) # NotRewritten
    BY <1>1, <1>2, <2>2 DEF NotRewritten
  <2>4. QED
    BY <2>1, <2>2, <2>3 DEF i
<1>9. ASSUME p[1] # Marker PROVE ToClient(data, n, tag) = p
  BY <1>1, <1>5, <1>9 DEF q3_is_connectionless
<1>10. ASSUME n >= 3, p[1] = Marker, p[2] \in Responses, p[3] = Newline
       PROVE  /\ \A k \in 1 .. n - 2 :
                   NamedAt(p, k) =>
                     ToClient(data, n, tag) = IF tag # <<>> /\ n + Len(new) <= RECV_BUF_SIZE
                                              THEN PutIn(p, k + 2, new) ELSE p
              /\ (\A k \in 1 .. n - 2 : ~ NamedAt(p, k)) => ToClient(data, n, tag) = p
  <2>1. IsCommand(data, n, Responses) /\ q3_is_connectionless(data, n)
    BY <1>7, <1>10
  <2>2. ASSUME NEW k \in 1 .. n - 2, NamedAt(p, k)
        PROVE  ToClient(data, n, tag) = IF tag # <<>> /\ n + Len(new) <= RECV_BUF_SIZE
                                        THEN PutIn(p, k + 2, new) ELSE p
    BY <1>3, <1>5, <1>6, <1>8, <2>1, <2>2
  <2>3. ASSUME \A k \in 1 .. n - 2 : ~ NamedAt(p, k)
        PROVE  ToClient(data, n, tag) = p
    <3>1. found = {}
      BY <1>3, <1>4, <2>3
    <3>2. QED
      BY <1>5, <1>6, <3>1
  <2>4. QED
    BY <2>2, <2>3
<1>11. QED
  BY <1>9, <1>10 DEF new

\* What is in the buffer of a packet that is not longer.
LEMMA PacketInBuffer ==
  ASSUME TypeOK, NEW p \in Seq(Byte), p # <<>>, Len(p) <= RECV_BUF_SIZE
  PROVE  /\ Packet(Filled(p), Len(p)) /\ p = SubSeq(Filled(p), 1, Len(p))
         /\ Received(p) = Len(p) /\ Len(p) > 0
<1>1. Received(p) = Len(p) /\ Len(p) \in Nat /\ Len(p) # 0
  BY DEF Received
<1>2. Packet(Filled(p), Received(p)) /\ SubSeq(Filled(p), 1, Received(p)) = p
  BY FilledPacket DEF TypeOK
<1>3. QED
  BY <1>1, <1>2

LEMMA NobodyReads ==
  ASSUME got'.from = "nobody" \/ got'.data = <<>>, got'.from = "nobody" => got'.data = <<>>
  PROVE  RealipReadable' /\ HostnameTagged'
BY DEF RealipReadable, HostnameTagged

LEMMA ClientPacketRight ==
  ASSUME TypeOK, NEW a \in Addresses, NEW p \in ClientPackets, ClientPacket(a, p)
  PROVE  RealipReadable' /\ HostnameTagged'
<1>1. got'.from = a /\ got'.data = p /\ a # "server" /\ p \in Seq(Byte)
  BY InputAssumption DEF ClientPacket
<1>2. HostnameTagged'
  BY <1>1 DEF HostnameTagged
<1>3. ASSUME p # <<>>, Len(p) <= Q3_MAX_PACKET_SIZE
      PROVE  /\ \A i, j \in 4 .. Len(p) + 1 :
                  WellFormed(p, i, j) /\ (\A k \in i .. j - 3 : ~ IsKey(p, i, k, "realip")) =>
                    IF Len(p) + Len(RealipPair(a)) <= Q3_MAX_PACKET_SIZE
                    THEN /\ UserinfoAt(sent', i, j + Len(RealipPair(a)))
                         /\ ReadsValue(sent', i, j + Len(RealipPair(a)), "realip", <<a>>)
                    ELSE sent' = p
             /\ p[1] # Marker => sent' = p
  <2>1. Len(p) <= RECV_BUF_SIZE
    BY <1>1, <1>3, BufferAssumption, PacketSizeAssumption
  <2>2. sent' = ToServer(Filled(p), Received(p), a)
    BY <1>3 DEF ClientPacket
  <2>3. /\ Packet(Filled(p), Len(p)) /\ p = SubSeq(Filled(p), 1, Len(p))
        /\ Received(p) = Len(p) /\ Len(p) > 0
    BY <1>1, <1>3, <2>1, PacketInBuffer
  <2> DEFINE data == Filled(p)
             n == Len(p)
             new == RealipPair(a)
  <2>4. Packet(data, n) /\ p = SubSeq(data, 1, n) /\ n > 0 /\ n <= Q3_MAX_PACKET_SIZE
    BY <1>3, <2>3
  <2> HIDE DEF data, n
  <2>5. /\ \A j \in 5 .. n + 1 :
             UserinfoEnds(p, j) =>
               ToServer(data, n, a) = IF n + Len(new) <= Q3_MAX_PACKET_SIZE
                                      THEN PutIn(p, j - 1, new) ELSE p
        /\ p[1] # Marker => ToServer(data, n, a) = p
    BY <2>4, RealipSent
  <2>6. sent' = ToServer(data, n, a)
    BY <2>2, <2>3 DEF data, n
  <2>7. ASSUME NEW i \in 4 .. n + 1, NEW j \in 4 .. n + 1, WellFormed(p, i, j),
               \A k \in i .. j - 3 : ~ IsKey(p, i, k, "realip")
        PROVE  IF n + Len(new) <= Q3_MAX_PACKET_SIZE
               THEN UserinfoAt(sent', i, j + Len(new))
                    /\ ReadsValue(sent', i, j + Len(new), "realip", <<a>>)
               ELSE sent' = p
    <3>1. j \in 5 .. n + 1 /\ UserinfoEnds(p, j)
      BY <1>1, <2>7, WellFormedEnds DEF n
    <3>2. sent' = IF n + Len(new) <= Q3_MAX_PACKET_SIZE THEN PutIn(p, j - 1, new) ELSE p
      BY <2>5, <2>6, <3>1
    <3>3. /\ UserinfoAt(PutIn(p, j - 1, new), i, j + 4)
          /\ ReadsValue(PutIn(p, j - 1, new), i, j + 4, "realip", <<a>>)
      BY <1>1, <2>7, PairRead DEF n
    <3>4. Len(new) = 4
      BY DEF RealipPair
    <3> HIDE DEF new
    <3>5. QED
      BY <3>2, <3>3, <3>4
  <2> HIDE DEF new
  <2>8. QED
    BY <2>5, <2>6, <2>7 DEF n, new
<1>4. QED
  BY <1>1, <1>2, <1>3 DEF RealipReadable

LEMMA ServerPacketRight ==
  ASSUME TypeOK, NEW p \in ServerPackets, ServerPacket(p)
  PROVE  RealipReadable' /\ HostnameTagged'
<1>1. /\ got'.from = "server" /\ got'.data = p /\ "server" \notin Addresses /\ p \in Seq(Byte)
      /\ hostname_tag' = hostname_tag /\ hostname_tag \in Tags
  BY InputAssumption DEF ServerPacket, TypeOK
<1>2. RealipReadable'
  BY <1>1 DEF RealipReadable
<1> DEFINE new == Append(hostname_tag, Space)
           answer == Len(p) >= 3 /\ p[1] = Marker /\ p[2] \in Responses /\ p[3] = Newline
           named == {k \in 1 .. Len(p) - 2 : NamedAt(p, k)}
<1>3. ASSUME p # <<>>, Len(p) <= RECV_BUF_SIZE
      PROVE  /\ answer =>
                  /\ \A k \in named :
                       sent' = IF hostname_tag # <<>> /\ Len(p) + Len(new) <= RECV_BUF_SIZE
                               THEN PutIn(p, k + 2, new) ELSE p
                  /\ named = {} => sent' = p
             /\ p[1] # Marker => sent' = p
  <2>1. sent' = ToClient(Filled(p), Received(p), hostname_tag)
    BY <1>3 DEF ServerPacket
  <2>2. /\ Packet(Filled(p), Len(p)) /\ p = SubSeq(Filled(p), 1, Len(p))
        /\ Received(p) = Len(p) /\ Len(p) > 0
    BY <1>1, <1>3, PacketInBuffer
  <2> DEFINE data == Filled(p)
             n == Len(p)
  <2>3. Packet(data, n) /\ p = SubSeq(data, 1, n) /\ n > 0 /\ sent' = ToClient(data, n, hostname_tag)
    BY <2>1, <2>2
  <2> DEFINE s == ToClient(data, n, hostname_tag)
             put(k) == IF hostname_tag # <<>> /\ n + Len(new) <= RECV_BUF_SIZE
                       THEN PutIn(p, k + 2, new) ELSE p
             asked == n >= 3 /\ p[1] = Marker /\ p[2] \in Responses /\ p[3] = Newline
  <2> HIDE DEF data, n
  <2>4. Packet(data, n) /\ n > 0 /\ p = SubSeq(data, 1, n) /\ hostname_tag \in Tags
    BY <1>1, <2>3
  <2>5. ASSUME asked, NEW k \in 1 .. n - 2, NamedAt(p, k) PROVE s = put(k)
    BY <2>4, <2>5, HostnameSent
  <2>6. ASSUME asked, \A k \in 1 .. n - 2 : ~ NamedAt(p, k) PROVE s = p
    BY <2>4, <2>6, HostnameSent
  <2>7. ASSUME p[1] # Marker PROVE s = p
    BY <2>4, <2>7, HostnameSent
  <2> HIDE DEF s
  <2>8. QED
    BY <2>3, <2>5, <2>6, <2>7 DEF n, s
<1>4. QED
  BY <1>1, <1>2, <1>3 DEF HostnameTagged

LEMMA PacketsRight ==
  ASSUME TypeOK, RealipReadable, HostnameTagged, [Next]_vars
  PROVE  RealipReadable' /\ HostnameTagged'
<1>1. CASE UNCHANGED vars
  BY <1>1 DEF vars, RealipReadable, HostnameTagged
<1>2. ASSUME NEW tag \in Tags, SetTag(tag) PROVE RealipReadable' /\ HostnameTagged'
  BY <1>2, NobodyReads DEF SetTag
<1>3. QED
  BY <1>1, <1>2, ClientPacketRight, ServerPacketRight DEF Next

LEMMA PacketsRightFirst == Init => RealipReadable /\ HostnameTagged
BY DEF Init, RealipReadable, HostnameTagged

\* The game server reads the address of the client from every connect packet that
\* is well-formed, fits and has no realip of its own, however long the userinfo is
\* and whatever else it holds (q3proto.h:118-142, relay.c:672-679).
THEOREM AddressReachesServer == Spec => []RealipReadable
<1>1. TypeOK /\ (RealipReadable /\ HostnameTagged) /\ [Next]_vars => (RealipReadable /\ HostnameTagged)'
  BY PacketsRight
<1>2. QED
  BY <1>1, PacketsRightFirst, BuffersHold, PTL DEF Spec

\* A server browser sees the tag before the name of the server and nothing else
\* changed, whatever an answer holds before and after it (q3proto.c:80-96).
THEOREM TagReachesBrowser == Spec => []HostnameTagged
<1>1. TypeOK /\ (RealipReadable /\ HostnameTagged) /\ [Next]_vars => (RealipReadable /\ HostnameTagged)'
  BY PacketsRight
<1>2. QED
  BY <1>1, PacketsRightFirst, BuffersHold, PTL DEF Spec

=============================================================================
