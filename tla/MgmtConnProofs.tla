---------------------------- MODULE MgmtConnProofs ----------------------------
(***************************************************************************)
(* The connections of mgmt.c, proved for any number of slots and           *)
(* administrators, any size of the buffer and whatever they write: first   *)
(* the bookkeeping of slots, to which the lines make no difference, then   *)
(* the lines.  A piece is read byte by byte; what holds after each byte is *)
(* shown by looking at the first byte after which it would not.            *)
(***************************************************************************)
EXTENDS MgmtConn, OrderFacts, SequenceTheorems, FiniteSetTheorems

Used == {s \in Slots : client_fds[s] # NoAdmin}

\* A slot belongs to an open connection, and no two of them to the same.
SInv ==
  /\ client_fds \in [Slots -> Admins \cup {NoAdmin}]
  /\ link = [a \in Admins |-> link[a]]
  /\ client_count = Cardinality(Used)
  /\ \A s, t \in Used : client_fds[s] = client_fds[t] => s = t
  /\ \A a \in Admins : link[a] = "open" <=> \E s \in Used : client_fds[s] = a

\* The used slots can be counted.
LEMMA UsedFinite == IsFiniteSet(Used) /\ Cardinality(Used) \in Nat
<1>1. Used \in SUBSET Slots
  BY DEF Used
<1>2. QED
  BY <1>1, SlotsAssumption, FS_Subset, FS_CardinalityType

\* What SlotsExact says follows from the invariant.
LEMMA InvariantImplies == SInv => SlotsExact
<1> SUFFICES ASSUME SInv PROVE SlotsExact
  OBVIOUS
<1>1. client_count = Cardinality({s \in Slots : client_fds[s] # NoAdmin})
  BY DEF SInv, Used
<1>2. ASSUME NEW a \in Admins
      PROVE  Cardinality({s \in Slots : client_fds[s] = a}) = IF link[a] = "open" THEN 1 ELSE 0
  <2> DEFINE own == {s \in Slots : client_fds[s] = a}
  <2>1. \A s \in Slots : client_fds[s] = a => s \in Used
    BY AdminsAssumption DEF Used
  <2>2. CASE link[a] = "open"
    <3>1. PICK s \in Used : client_fds[s] = a
      BY <2>2 DEF SInv
    <3>2. own = {s}
      BY <2>1, <3>1 DEF SInv, Used
    <3>3. QED
      BY <2>2, <3>2, FS_Singleton
  <2>3. CASE link[a] # "open"
    <3>1. own = {}
      BY <2>1, <2>3 DEF SInv
    <3>2. QED
      BY <2>3, <3>1, FS_EmptySet
  <2>4. QED
    BY <2>2, <2>3
<1>3. QED
  BY <1>1, <1>2 DEF SlotsExact

\* At first all slots are free.
LEMMA InitEstablishes == Init => SInv
<1> SUFFICES ASSUME Init PROVE SInv
  OBVIOUS
<1>1. Used = {}
  BY DEF Init, Used
<1>2. QED
  BY <1>1, FS_EmptySet DEF Init, SInv

\* Steps that touch no slot and neither open nor close a connection keep it.
LEMMA Untouched ==
  ASSUME SInv, NEW a \in Admins, NEW why,
         client_fds' = client_fds, client_count' = client_count,
         link' = [link EXCEPT ![a] = why], link[a] # "open", why # "open"
  PROVE  SInv'
<1>1. Used' = Used
  BY DEF Used
<1>2. \A b \in Admins : link'[b] = IF b = a THEN why ELSE link[b]
  BY DEF SInv
<1>3. link' = [b \in Admins |-> link'[b]]
  BY DEF SInv
<1>4. QED
  BY <1>1, <1>2, <1>3 DEF SInv

\* A connection gets the first free slot.
LEMMA AcceptPreserves ==
  ASSUME SInv, NEW a \in Admins, Accept(a)
  PROVE  SInv'
<1> DEFINE new == Min(FreeSlots)
<1>1. new \in FreeSlots
  <2>1. FreeSlots \in SUBSET Nat /\ FreeSlots # {}
    BY SlotsAssumption DEF Accept, FreeSlots
  <2>2. QED
    BY <2>1, LeastElement
<1>2. /\ client_fds' = [client_fds EXCEPT ![new] = a]
      /\ client_count' = client_count + 1
      /\ link' = [link EXCEPT ![a] = "open"] /\ link[a] = "backlog"
  BY DEF Accept
<1> HIDE DEF new
<1>3. new \in Slots /\ new \notin Used
  BY <1>1 DEF FreeSlots, Used
<1>4. /\ client_fds' \in [Slots -> Admins \cup {NoAdmin}]
      /\ \A s \in Slots : client_fds'[s] = IF s = new THEN a ELSE client_fds[s]
  BY <1>2, <1>3 DEF SInv
<1>5. Used' = Used \cup {new}
  BY <1>3, <1>4, AdminsAssumption DEF Used
<1>6. \A s \in Used : client_fds'[s] = client_fds[s] /\ client_fds[s] # a
  BY <1>2, <1>3, <1>4 DEF SInv, Used
<1>7. client_fds'[new] = a
  BY <1>3, <1>4
<1>8. /\ link' = [b \in Admins |-> link'[b]]
      /\ \A b \in Admins : link'[b] = IF b = a THEN "open" ELSE link[b]
  BY <1>2 DEF SInv
<1>9. client_count' = Cardinality(Used')
  BY <1>2, <1>3, <1>5, UsedFinite, FS_AddElement DEF SInv
<1>10. \A s, t \in Used' : client_fds'[s] = client_fds'[t] => s = t
  BY <1>5, <1>6, <1>7 DEF SInv
<1>11. \A b \in Admins : link'[b] = "open" <=> \E s \in Used' : client_fds'[s] = b
  BY <1>5, <1>6, <1>7, <1>8 DEF SInv
<1>12. QED
  BY <1>4, <1>8, <1>9, <1>10, <1>11 DEF SInv

\* A closed connection leaves its slot.
LEMMA ClosePreserves ==
  ASSUME SInv, NEW s \in Slots, client_fds[s] # NoAdmin,
         NEW why, why # "open", CloseClient(s, why)
  PROVE  SInv'
<1> DEFINE a == client_fds[s]
<1>1. /\ client_fds' = [client_fds EXCEPT ![s] = NoAdmin]
      /\ client_count' = client_count - 1
      /\ link' = [link EXCEPT ![a] = why]
  BY DEF CloseClient
<1>2. a \in Admins /\ s \in Used
  BY DEF SInv, Used
<1>3. /\ client_fds' \in [Slots -> Admins \cup {NoAdmin}]
      /\ \A t \in Slots : client_fds'[t] = IF t = s THEN NoAdmin ELSE client_fds[t]
  BY <1>1 DEF SInv
<1>4. Used' = Used \ {s}
  BY <1>3 DEF Used
<1>5. \A t \in Used' : client_fds'[t] = client_fds[t] /\ client_fds[t] # a
  BY <1>2, <1>3, <1>4 DEF SInv, Used
<1> HIDE DEF a
<1>6. /\ link' = [b \in Admins |-> link'[b]]
      /\ \A b \in Admins : link'[b] = IF b = a THEN why ELSE link[b]
  BY <1>1, <1>2 DEF SInv
<1>7. client_count' = Cardinality(Used')
  BY <1>1, <1>2, <1>4, UsedFinite, FS_RemoveElement DEF SInv
<1>8. \A t, u \in Used' : client_fds'[t] = client_fds'[u] => t = u
  BY <1>4, <1>5 DEF SInv
<1>9. \A b \in Admins : link'[b] = "open" <=> \E t \in Used' : client_fds'[t] = b
  <2>1. ASSUME NEW b \in Admins, b # a
        PROVE  link'[b] = "open" <=> \E t \in Used' : client_fds'[t] = b
    BY <2>1, <1>4, <1>5, <1>6 DEF SInv, a
  <2>2. link'[a] # "open" /\ ~ \E t \in Used' : client_fds'[t] = a
    BY <1>2, <1>5, <1>6
  <2>3. QED
    BY <2>1, <2>2
<1>10. QED
  BY <1>3, <1>6, <1>7, <1>8, <1>9 DEF SInv

\* Reading keeps the connection open or closes it.
LEMMA DataPreserves ==
  ASSUME SInv, NEW s \in Slots, Data(s)
  PROVE  SInv'
<1> DEFINE r == Received(s, SubSeq(wire[client_fds[s]], 1,
                                   Min({Space(s), Len(wire[client_fds[s]])})))
<1>1. /\ client_fds[s] # NoAdmin
      /\ IF r.link = "open" THEN UNCHANGED <<client_fds, client_count, link>>
         ELSE CloseClient(s, r.link)
  BY DEF Data, Event
<1> HIDE DEF r
<1>2. CASE r.link = "open"
  BY <1>1, <1>2 DEF SInv, Used
<1>3. CASE r.link # "open"
  BY <1>1, <1>3, ClosePreserves
<1>4. QED
  BY <1>2, <1>3

LEMMA NextPreserves ==
  ASSUME SInv, [Next]_vars
  PROVE  SInv'
<1>1. ASSUME NEW a \in Admins, NEW script, Connect(a, script)
      PROVE  SInv'
  BY <1>1, Untouched DEF Connect, clientVars
<1>2. ASSUME NEW a \in Admins, NEW n, Write(a, n)
      PROVE  SInv'
  BY <1>2 DEF Write, clientVars, SInv, Used
<1>3. ASSUME NEW a \in Admins, HangUp(a)
      PROVE  SInv'
  BY <1>3 DEF HangUp, clientVars, SInv, Used
<1>4. ASSUME NEW a \in Admins, Accept(a)
      PROVE  SInv'
  BY <1>4, AcceptPreserves
<1>5. ASSUME NEW a \in Admins, AcceptTooMany(a)
      PROVE  SInv'
  BY <1>5, Untouched DEF AcceptTooMany, clientVars
<1>6. ASSUME NEW s \in Slots, NoSpace(s)
      PROVE  SInv'
  BY <1>6, ClosePreserves DEF NoSpace, Event
<1>7. ASSUME NEW s \in Slots, EndOfFile(s)
      PROVE  SInv'
  BY <1>7, ClosePreserves DEF EndOfFile, Event
<1>8. ASSUME NEW s \in Slots, Data(s)
      PROVE  SInv'
  BY <1>8, DataPreserves
<1>9. CASE UNCHANGED vars
  BY <1>9 DEF vars, clientVars, SInv, Used
<1>10. QED
  BY <1>1, <1>2, <1>3, <1>4, <1>5, <1>6, <1>7, <1>8, <1>9 DEF Next, MgmtHandleEvent

\* client_count and the slots agree with the connections that are open: nobody is
\* refused while a slot is free, and no slot is lost (find_client_slot,
\* close_client and mgmt_handle_event).
THEOREM SlotsCorrect == Spec => []SlotsExact
BY InitEstablishes, NextPreserves, InvariantImplies, PTL DEF Spec

-----------------------------------------------------------------------------
(* The lines of a stream.                                                   *)

\* Where the last line of a stream ends, and what comes after it.
LastEnd(x) == Max({0} \cup LineEnds(x))
Rest(x) == SubSeq(x, LastEnd(x) + 1, Len(x))
Marked(x) == \E j \in 1 .. Len(x) : x[j] = "NUL"

LEMMA LineEndsCounted ==
  ASSUME NEW x \in Seq(Bytes)
  PROVE  /\ LineEnds(x) \in SUBSET (1 .. Len(x))
         /\ LineEnds(x) \in SUBSET Nat
         /\ IsFiniteSet(LineEnds(x)) /\ Cardinality(LineEnds(x)) \in Nat
<1>1. DOMAIN x = 1 .. Len(x) /\ Len(x) \in Nat
  OBVIOUS
<1>2. LineEnds(x) \in SUBSET (1 .. Len(x))
  BY <1>1 DEF LineEnds
<1>3. IsFiniteSet(1 .. Len(x)) /\ 1 .. Len(x) \in SUBSET Nat
  BY <1>1, FS_Interval
<1>4. QED
  BY <1>2, <1>3, FS_Subset, FS_CardinalityType

\* The start of a line: the last line end before it.
LEMMA LineStart ==
  ASSUME NEW x \in Seq(Bytes), NEW e \in Nat \ {0}
  PROVE  LET before == {0} \cup {d \in LineEnds(x) : d < e}
         IN  /\ Max(before) \in before /\ Max(before) \in 0 .. e - 1
             /\ \A d \in before : d <= Max(before)
<1> DEFINE before == {0} \cup {d \in LineEnds(x) : d < e}
<1>1. before \in SUBSET Nat /\ before # {}
  BY LineEndsCounted
<1>2. \A d \in before : d \in Nat /\ d <= e - 1
  BY LineEndsCounted
<1>3. e - 1 \in Nat
  OBVIOUS
<1>4. Max(before) \in before /\ \A d \in before : d <= Max(before)
  BY <1>1, <1>2, <1>3, GreatestElement, Zenon
<1> HIDE DEF before
<1>5. Max(before) \in 0 .. e - 1
  BY <1>2, <1>4
<1>6. QED
  BY <1>4, <1>5, Zenon DEF before

LEMMA LastEndIs ==
  ASSUME NEW x \in Seq(Bytes)
  PROVE  /\ LastEnd(x) \in {0} \cup LineEnds(x)
         /\ LastEnd(x) \in 0 .. Len(x)
         /\ \A e \in LineEnds(x) : e <= LastEnd(x)
<1>1. Len(x) + 1 \in Nat \ {0}
  OBVIOUS
<1>2. {d \in LineEnds(x) : d < Len(x) + 1} = LineEnds(x)
  BY LineEndsCounted
<1>3. LET before == {0} \cup {d \in LineEnds(x) : d < Len(x) + 1}
      IN  /\ Max(before) \in before /\ Max(before) \in 0 .. (Len(x) + 1) - 1
          /\ \A d \in before : d <= Max(before)
  BY <1>1, LineStart, Zenon
<1>4. /\ LastEnd(x) \in {0} \cup LineEnds(x) /\ LastEnd(x) \in 0 .. (Len(x) + 1) - 1
      /\ \A d \in {0} \cup LineEnds(x) : d <= LastEnd(x)
  BY <1>2, <1>3 DEF LastEnd
<1>5. 0 .. (Len(x) + 1) - 1 = 0 .. Len(x)
  OBVIOUS
<1>6. QED
  BY <1>4, <1>5, Zenon

LEMMA RestIs ==
  ASSUME NEW x \in Seq(Bytes)
  PROVE  /\ Rest(x) \in Seq(Bytes)
         /\ Len(Rest(x)) = Len(x) - LastEnd(x)
         /\ \A i \in 1 .. Len(x) - LastEnd(x) : Rest(x)[i] = x[LastEnd(x) + i]
<1>1. LastEnd(x) \in Nat /\ Len(x) \in Nat /\ LastEnd(x) <= Len(x)
  BY LastEndIs
<1>2. \A i \in LastEnd(x) + 1 .. Len(x) : x[i] \in Bytes
  BY <1>1
<1>3. QED
  BY <1>1, <1>2, SubSeqProperties DEF Rest

\* A '\0' comes after all lines.
LEMMA MarkInRest ==
  ASSUME NEW x \in Seq(Bytes)
  PROVE  "NUL" \in Range(Rest(x)) <=> Marked(x)
<1>1. /\ LastEnd(x) \in 0 .. Len(x) /\ Len(x) \in Nat
      /\ LastEnd(x) # 0 => \A j \in 1 .. LastEnd(x) : x[j] # "NUL"
  BY LastEndIs DEF LineEnds
<1>2. /\ DOMAIN Rest(x) = 1 .. Len(x) - LastEnd(x)
      /\ \A i \in 1 .. Len(x) - LastEnd(x) : Rest(x)[i] = x[LastEnd(x) + i]
  BY <1>1, RestIs
<1>3. ASSUME "NUL" \in Range(Rest(x)) PROVE Marked(x)
  <2>1. PICK i \in 1 .. Len(x) - LastEnd(x) : Rest(x)[i] = "NUL"
    BY <1>2, <1>3 DEF Range
  <2>2. LastEnd(x) + i \in 1 .. Len(x) /\ x[LastEnd(x) + i] = "NUL"
    BY <1>1, <1>2, <2>1
  <2>3. QED
    BY <2>2 DEF Marked
<1>4. ASSUME Marked(x) PROVE "NUL" \in Range(Rest(x))
  <2>1. PICK j \in 1 .. Len(x) : x[j] = "NUL"
    BY <1>4 DEF Marked
  <2>2. j > LastEnd(x)
    BY <1>1, <2>1
  <2>3. j - LastEnd(x) \in 1 .. Len(x) - LastEnd(x) /\ LastEnd(x) + (j - LastEnd(x)) = j
    BY <1>1, <2>2
  <2>4. QED
    BY <1>2, <2>1, <2>3 DEF Range
<1>5. QED
  BY <1>3, <1>4

\* A line without its "\r" is made of bytes, as is each line of a stream.
LEMMA TextType ==
  ASSUME NEW line \in Seq(Bytes)
  PROVE  Text(line) \in Seq(Bytes)
<1>1. \A i \in 1 .. Len(line) - 1 : line[i] \in Bytes
  OBVIOUS
<1>2. Front(line) \in Seq(Bytes)
  BY <1>1, SubSeqProperties DEF Front
<1>3. QED
  BY <1>2 DEF Text

LEMMA LineBeforeType ==
  ASSUME NEW x \in Seq(Bytes), NEW e \in LineEnds(x)
  PROVE  LineBefore(x, e) \in Seq(Bytes)
<1> DEFINE start == Max({0} \cup {d \in LineEnds(x) : d < e})
<1>1. e \in 1 .. Len(x) /\ Len(x) \in Nat
  BY LineEndsCounted
<1>2. start \in 0 .. e - 1
  BY <1>1, LineStart
<1> HIDE DEF start
<1>3. SubSeq(x, start + 1, e - 1) \in Seq(Bytes)
  <2>1. \A i \in start + 1 .. e - 1 : x[i] \in Bytes
    BY <1>1, <1>2
  <2>2. QED
    BY <1>1, <1>2, <2>1, SubSeqProperties
<1>4. QED
  BY <1>3, TextType DEF LineBefore, start

LEMMA LinesOfType ==
  ASSUME NEW x \in Seq(Bytes)
  PROVE  /\ LinesOf(x) \in Seq(Seq(Bytes))
         /\ Len(LinesOf(x)) = Cardinality(LineEnds(x))
         /\ \A i \in 1 .. Cardinality(LineEnds(x)) :
              LinesOf(x)[i] = LineBefore(x, Nth(LineEnds(x), i))
<1> DEFINE n == Cardinality(LineEnds(x))
<1>1. n \in Nat /\ \A i \in 1 .. n : Nth(LineEnds(x), i) \in LineEnds(x)
  BY LineEndsCounted, NthExists
<1>2. \A i \in 1 .. n : LineBefore(x, Nth(LineEnds(x), i)) \in Seq(Bytes)
  BY <1>1, LineBeforeType
<1>3. LinesOf(x) = [i \in 1 .. n |-> LineBefore(x, Nth(LineEnds(x), i))]
  BY DEF LinesOf
<1> HIDE DEF n
<1>4. LinesOf(x) \in [1 .. n -> Seq(Bytes)]
  BY <1>2, <1>3
<1>5. QED
  BY <1>1, <1>3, <1>4 DEF n

\* A line is read from what is before its end only.
LEMMA LineOfLonger ==
  ASSUME NEW x \in Seq(Bytes), NEW y \in Seq(Bytes), NEW e \in 1 .. Len(x) + 1,
         Len(x) <= Len(y), \A i \in 1 .. Len(x) : y[i] = x[i],
         \A d \in 1 .. Len(x) : d \in LineEnds(y) <=> d \in LineEnds(x)
  PROVE  LineBefore(y, e) = LineBefore(x, e)
<1> DEFINE start == Max({0} \cup {d \in LineEnds(x) : d < e})
<1>1. {d \in LineEnds(y) : d < e} = {d \in LineEnds(x) : d < e}
  BY LineEndsCounted
<1>2. start \in 0 .. e - 1
  BY LineStart
<1> HIDE DEF start
<1>3. SubSeq(y, start + 1, e - 1) = SubSeq(x, start + 1, e - 1)
  <2>1. /\ start + 1 \in Int /\ e - 1 \in Int
        /\ \A i \in start + 1 .. e - 1 : x[i] \in Bytes /\ y[i] \in Bytes /\ y[i] = x[i]
    BY <1>2
  <2>2. /\ SubSeq(x, start + 1, e - 1) \in Seq(Bytes)
        /\ SubSeq(y, start + 1, e - 1) \in Seq(Bytes)
        /\ Len(SubSeq(x, start + 1, e - 1)) = e - 1 - start
        /\ Len(SubSeq(y, start + 1, e - 1)) = e - 1 - start
        /\ \A i \in 1 .. e - 1 - start :
             /\ SubSeq(x, start + 1, e - 1)[i] = x[start + i]
             /\ SubSeq(y, start + 1, e - 1)[i] = y[start + i]
    BY <1>2, <2>1, SubSeqProperties
  <2>3. \A i \in 1 .. e - 1 - start : y[start + i] = x[start + i]
    BY <1>2
  <2>4. QED
    BY <2>2, <2>3, SeqEqual
<1>4. QED
  BY <1>1, <1>3 DEF LineBefore, start

\* The byte that ends a line.
LEMMA LineEnded ==
  ASSUME NEW x \in Seq(Bytes), ~ Marked(x)
  PROVE  LET y == Append(x, "LF")
         IN  LinesOf(y) = Append(LinesOf(x), Text(Rest(x))) /\ Rest(y) = <<>>
<1> DEFINE y == Append(x, "LF")
           m == Len(x) + 1
           k == Cardinality(LineEnds(x))
<1>1. /\ y \in Seq(Bytes) /\ Len(y) = m /\ m \in Nat /\ Len(x) \in Nat
      /\ \A i \in 1 .. Len(x) : y[i] = x[i]
      /\ y[m] = "LF"
  BY AppendProperties DEF Bytes
<1> HIDE DEF y
<1>2. \A j \in 1 .. m : y[j] # "NUL"
  BY <1>1 DEF Marked
<1>3. LineEnds(y) = LineEnds(x) \cup {m}
  <2>1. LineEnds(y) = {i \in 1 .. m : y[i] = "LF"}
    BY <1>1, <1>2 DEF LineEnds
  <2>2. LineEnds(x) = {i \in 1 .. Len(x) : x[i] = "LF"}
    <3>1. DOMAIN x = 1 .. Len(x)
      OBVIOUS
    <3>2. \A i \in 1 .. Len(x) : \A j \in 1 .. i : x[j] # "NUL"
      BY DEF Marked
    <3>3. QED
      BY <3>1, <3>2 DEF LineEnds
  <2>3. \A i \in 1 .. m : i = m \/ i \in 1 .. Len(x)
    BY <1>1
  <2>4. 1 .. Len(x) \in SUBSET (1 .. m) /\ m \in 1 .. m
    BY <1>1
  <2>5. QED
    BY <1>1, <2>1, <2>2, <2>3, <2>4
<1>4. /\ Cardinality(LineEnds(y)) = k + 1 /\ k \in Nat
      /\ \A i \in 1 .. k : Nth(LineEnds(y), i) = Nth(LineEnds(x), i)
      /\ Nth(LineEnds(y), k + 1) = m
  <2>1. \A e \in LineEnds(x) : e < m
    BY LineEndsCounted
  <2>2. LineEnds(x) \in SUBSET Nat /\ IsFiniteSet(LineEnds(x)) /\ k \in Nat
    BY LineEndsCounted
  <2>3. LET T == LineEnds(x) \cup {m}
        IN  /\ Cardinality(T) = Cardinality(LineEnds(x)) + 1
            /\ \A i \in 1 .. Cardinality(LineEnds(x)) : Nth(T, i) = Nth(LineEnds(x), i)
            /\ Nth(T, Cardinality(T)) = m
    BY <1>1, <2>1, <2>2, NthOfLonger
  <2>4. QED
    BY <1>3, <2>2, <2>3
<1>5. \A e \in 1 .. m : LineBefore(y, e) = LineBefore(x, e)
  <2>1. \A d \in 1 .. Len(x) : d \in LineEnds(y) <=> d \in LineEnds(x)
    BY <1>1, <1>3
  <2>2. Len(x) <= Len(y)
    BY <1>1
  <2>3. QED
    BY <1>1, <2>1, <2>2, LineOfLonger
<1>6. LineBefore(x, m) = Text(Rest(x))
  <2>1. {d \in LineEnds(x) : d < m} = LineEnds(x)
    BY LineEndsCounted
  <2>2. m - 1 = Len(x)
    BY <1>1
  <2>3. QED
    BY <2>1, <2>2 DEF LineBefore, Rest, LastEnd
<1>7. Text(Rest(x)) \in Seq(Bytes)
  BY RestIs, TextType
<1> HIDE DEF k
<1>8. LinesOf(y) = Append(LinesOf(x), Text(Rest(x)))
  <2>1. /\ LinesOf(x) \in Seq(Seq(Bytes)) /\ Len(LinesOf(x)) = k
        /\ \A i \in 1 .. k : LinesOf(x)[i] = LineBefore(x, Nth(LineEnds(x), i))
    BY LinesOfType DEF k
  <2>2. /\ LinesOf(y) \in Seq(Seq(Bytes)) /\ Len(LinesOf(y)) = k + 1
        /\ \A i \in 1 .. k + 1 : LinesOf(y)[i] = LineBefore(y, Nth(LineEnds(y), i))
    BY <1>1, <1>4, LinesOfType
  <2>3. \A i \in 1 .. k : Nth(LineEnds(x), i) \in 1 .. m
    BY <1>1, LineEndsCounted, NthExists DEF k
  <2>4. \A i \in 1 .. k : LinesOf(y)[i] = LinesOf(x)[i]
    BY <1>4, <1>5, <2>1, <2>2, <2>3
  <2>5. LinesOf(y)[k + 1] = Text(Rest(x))
    BY <1>1, <1>4, <1>5, <1>6, <2>2
  <2>6. /\ Append(LinesOf(x), Text(Rest(x))) \in Seq(Seq(Bytes))
        /\ Len(Append(LinesOf(x), Text(Rest(x)))) = k + 1
        /\ \A i \in 1 .. k : Append(LinesOf(x), Text(Rest(x)))[i] = LinesOf(x)[i]
        /\ Append(LinesOf(x), Text(Rest(x)))[k + 1] = Text(Rest(x))
    BY <1>7, <2>1, AppendProperties
  <2>7. \A i \in 1 .. k + 1 : i = k + 1 \/ i \in 1 .. k
    BY <1>4
  <2>8. \A i \in 1 .. k + 1 : LinesOf(y)[i] = Append(LinesOf(x), Text(Rest(x)))[i]
    BY <2>4, <2>5, <2>6, <2>7
  <2>9. QED
    BY <2>2, <2>6, <2>8, SeqEqual, Zenon
<1>9. Rest(y) = <<>>
  <2>1. LastEnd(y) = m
    BY <1>1, <1>3, LastEndIs
  <2>2. QED
    BY <1>1, <2>1, SubSeqEmpty DEF Rest
<1>10. QED
  BY <1>8, <1>9 DEF y

\* A byte that ends no line.
LEMMA LineContinued ==
  ASSUME NEW x \in Seq(Bytes), NEW b \in Bytes, b # "LF" \/ Marked(x)
  PROVE  LET y == Append(x, b)
         IN  LinesOf(y) = LinesOf(x) /\ Rest(y) = Append(Rest(x), b)
<1> DEFINE y == Append(x, b)
           m == Len(x) + 1
<1>1. /\ y \in Seq(Bytes) /\ Len(y) = m /\ m \in Nat /\ Len(x) \in Nat
      /\ \A i \in 1 .. Len(x) : y[i] = x[i]
      /\ y[m] = b
  BY AppendProperties
<1> HIDE DEF y
<1>2. LineEnds(y) = LineEnds(x)
  <2>1. m \notin LineEnds(y)
    <3>1. CASE b # "LF"
      BY <1>1, <3>1 DEF LineEnds
    <3>2. CASE Marked(x)
      <4>1. PICK j \in 1 .. Len(x) : x[j] = "NUL"
        BY <3>2 DEF Marked
      <4>2. j \in 1 .. m /\ y[j] = "NUL"
        BY <1>1, <4>1
      <4>3. QED
        BY <4>2 DEF LineEnds
    <3>3. QED
      BY <3>1, <3>2
  <2>2. \A i \in 1 .. Len(x) : i \in LineEnds(y) <=> i \in LineEnds(x)
    <3>1. DOMAIN x = 1 .. Len(x) /\ DOMAIN y = 1 .. m
      BY <1>1
    <3>2. TAKE i \in 1 .. Len(x)
    <3>3. \A j \in 1 .. i : y[j] = x[j]
      BY <1>1
    <3>4. i \in DOMAIN x /\ i \in DOMAIN y /\ y[i] = x[i]
      BY <1>1, <3>1
    <3>5. QED
      BY <3>3, <3>4 DEF LineEnds
  <2>3. LineEnds(x) \in SUBSET (1 .. Len(x)) /\ LineEnds(y) \in SUBSET (1 .. m)
    BY <1>1, LineEndsCounted
  <2>4. \A i \in 1 .. m : i = m \/ i \in 1 .. Len(x)
    BY <1>1
  <2>5. QED
    BY <2>1, <2>2, <2>3, <2>4
<1>3. \A e \in LineEnds(x) : LineBefore(y, e) = LineBefore(x, e)
  <2>1. \A e \in LineEnds(x) : e \in 1 .. Len(x) + 1
    BY LineEndsCounted
  <2>2. Len(x) <= Len(y)
    BY <1>1
  <2>3. QED
    BY <1>1, <1>2, <2>1, <2>2, LineOfLonger
<1>4. LinesOf(y) = LinesOf(x)
  <2>1. \A i \in 1 .. Cardinality(LineEnds(x)) : Nth(LineEnds(x), i) \in LineEnds(x)
    BY LineEndsCounted, NthExists
  <2>2. QED
    BY <1>2, <1>3, <2>1 DEF LinesOf
<1>5. Rest(y) = Append(Rest(x), b)
  <2> DEFINE l == LastEnd(x)
  <2>1. LastEnd(y) = l /\ l \in Nat /\ l <= Len(x)
    <3>1. LastEnd(y) = LastEnd(x)
      BY <1>2 DEF LastEnd
    <3>2. QED
      BY <3>1, LastEndIs
  <2> HIDE DEF l
  <2>2. /\ Rest(x) \in Seq(Bytes) /\ Len(Rest(x)) = Len(x) - l
        /\ \A i \in 1 .. Len(x) - l : Rest(x)[i] = x[l + i]
    BY RestIs DEF l
  <2>3. /\ Rest(y) \in Seq(Bytes) /\ Len(Rest(y)) = m - l
        /\ \A i \in 1 .. m - l : Rest(y)[i] = y[l + i]
    BY <1>1, <2>1, RestIs
  <2>4. /\ Append(Rest(x), b) \in Seq(Bytes) /\ Len(Append(Rest(x), b)) = m - l
        /\ \A i \in 1 .. Len(x) - l : Append(Rest(x), b)[i] = x[l + i]
        /\ Append(Rest(x), b)[m - l] = b
    BY <1>1, <2>1, <2>2, AppendProperties
  <2>5. \A i \in 1 .. m - l : Rest(y)[i] = Append(Rest(x), b)[i]
    <3>1. TAKE i \in 1 .. m - l
    <3>2. CASE i = m - l
      BY <1>1, <2>1, <2>3, <2>4, <3>2
    <3>3. CASE i # m - l
      <4>1. i \in 1 .. Len(x) - l /\ l + i \in 1 .. Len(x)
        BY <1>1, <2>1, <3>3
      <4>2. QED
        BY <1>1, <2>3, <2>4, <4>1
    <3>4. QED
      BY <3>2, <3>3
  <2>6. QED
    BY <2>3, <2>4, <2>5, SeqEqual, Zenon
<1>6. QED
  BY <1>4, <1>5 DEF y

-----------------------------------------------------------------------------
(* Reading a piece, byte by byte.                                           *)

\* The function that AddBytes applies exists: the first length for which it did
\* not could be reached from the one before.
LEMMA AddBytesSteps ==
  ASSUME NEW r, NEW bytes \in Seq(Bytes)
  PROVE  \E after :
           /\ after = [n \in 0 .. Len(bytes) |->
                         IF n = 0 THEN r ELSE AddByte(after[n - 1], bytes[n])]
           /\ AddBytes(r, bytes) = after[Len(bytes)]
<1> DEFINE Steps(f, m) ==
             f = [n \in 0 .. m |-> IF n = 0 THEN r ELSE AddByte(f[n - 1], bytes[n])]
           missing == {m \in Nat : ~ \E f : Steps(f, m)}
<1>1. missing = {}
  <2> SUFFICES ASSUME missing # {} PROVE FALSE
    OBVIOUS
  <2> DEFINE m == Min(missing)
  <2>1. m \in missing /\ \A k \in missing : m <= k
    BY LeastElement
  <2> HIDE DEF m
  <2>2. CASE m = 0
    <3> DEFINE f == [n \in 0 .. 0 |-> r]
    <3>1. Steps(f, 0)
      OBVIOUS
    <3>2. QED
      BY <2>1, <2>2, <3>1
  <2>3. CASE m # 0
    <3>1. m - 1 \in Nat /\ m - 1 \notin missing
      <4>1. m \in Nat
        BY <2>1
      <4> HIDE DEF missing
      <4>2. QED
        BY <2>1, <2>3, <4>1
    <3>2. PICK f : Steps(f, m - 1)
      BY <3>1
    <3> DEFINE g == [n \in 0 .. m |-> IF n = m THEN AddByte(f[m - 1], bytes[m]) ELSE f[n]]
    <3>3. \A n \in 0 .. m : g[n] = IF n = 0 THEN r ELSE AddByte(g[n - 1], bytes[n])
      <4>1. TAKE n \in 0 .. m
      <4>2. CASE n = m
        BY <2>1, <2>3, <4>2
      <4>3. CASE n # m
        <5>1. n \in 0 .. m - 1
          BY <2>1, <4>3
        <5>2. f[n] = IF n = 0 THEN r ELSE AddByte(f[n - 1], bytes[n])
          BY <3>2, <5>1
        <5>3. g[n] = f[n] /\ (n # 0 => g[n - 1] = f[n - 1])
          BY <2>1, <5>1
        <5>4. QED
          BY <5>2, <5>3
      <4>4. QED
        BY <4>2, <4>3
    <3>4. Steps(g, m)
      BY <3>3
    <3>5. QED
      BY <2>1, <3>4
  <2>4. QED
    BY <2>2, <2>3
<1>2. Len(bytes) \in Nat
  OBVIOUS
<1>3. \E f : Steps(f, Len(bytes))
  BY <1>1, <1>2
<1> DEFINE after == CHOOSE f : Steps(f, Len(bytes))
<1>4. Steps(after, Len(bytes))
  BY <1>3
<1>5. AddBytes(r, bytes) = after[Len(bytes)]
  BY DEF AddBytes
<1>6. QED
  BY <1>4, <1>5

\* What each byte takes from one stage to the next, a piece takes from the first
\* stage to the last.
LEMMA AddBytesInduction ==
  ASSUME NEW r, NEW bytes \in Seq(Bytes), NEW stage, r \in stage[0],
         \A n \in 1 .. Len(bytes) : \A q \in stage[n - 1] : AddByte(q, bytes[n]) \in stage[n]
  PROVE  AddBytes(r, bytes) \in stage[Len(bytes)]
<1>1. PICK after : /\ after = [n \in 0 .. Len(bytes) |->
                                 IF n = 0 THEN r ELSE AddByte(after[n - 1], bytes[n])]
                   /\ AddBytes(r, bytes) = after[Len(bytes)]
  BY AddBytesSteps
<1> DEFINE bad == {n \in 0 .. Len(bytes) : after[n] \notin stage[n]}
<1>2. bad = {}
  <2> SUFFICES ASSUME bad # {} PROVE FALSE
    OBVIOUS
  <2>1. bad \in SUBSET Nat
    OBVIOUS
  <2> DEFINE m == Min(bad)
  <2>2. m \in bad /\ \A k \in bad : m <= k
    BY <2>1, LeastElement
  <2> HIDE DEF m
  <2>3. after[0] = r
    BY <1>1
  <2>4. m \in 1 .. Len(bytes)
    BY <2>2, <2>3
  <2>5. m - 1 \in 0 .. Len(bytes) /\ m - 1 \notin bad
    BY <2>1, <2>2, <2>4
  <2>6. after[m] = AddByte(after[m - 1], bytes[m])
    BY <1>1, <2>4
  <2>7. QED
    BY <2>2, <2>4, <2>5, <2>6
<1>3. Len(bytes) \in 0 .. Len(bytes)
  OBVIOUS
<1>4. QED
  BY <1>1, <1>2, <1>3

LEMMA PrefixOfAll ==
  ASSUME NEW S, NEW t \in Seq(S)
  PROVE  IsPrefix(t, t)
BY DEF IsPrefix

LEMMA PrefixOfLonger ==
  ASSUME NEW S, NEW s \in Seq(S), NEW t \in Seq(S), NEW e \in S, IsPrefix(s, t)
  PROVE  IsPrefix(s, Append(t, e))
<1>1. /\ Append(t, e) \in Seq(S) /\ Len(Append(t, e)) = Len(t) + 1
      /\ \A i \in 1 .. Len(t) : Append(t, e)[i] = t[i]
  BY AppendProperties
<1>2. Len(s) \in Nat /\ Len(t) \in Nat /\ Len(s) <= Len(t)
  BY DEF IsPrefix
<1> DEFINE n == Len(s)
           u == Append(t, e)
<1>3. n \in Nat /\ n <= Len(t)
  BY <1>2
<1> HIDE DEF n, u
<1>4. SubSeq(u, 1, n) = SubSeq(t, 1, n)
  <2>1. \A i \in 1 .. n : t[i] \in S /\ u[i] = t[i]
    BY <1>1, <1>2, <1>3 DEF u
  <2>2. /\ SubSeq(t, 1, n) \in Seq(S) /\ SubSeq(u, 1, n) \in Seq(S)
        /\ Len(SubSeq(t, 1, n)) = n /\ Len(SubSeq(u, 1, n)) = n
        /\ \A i \in 1 .. n : SubSeq(t, 1, n)[i] = t[i] /\ SubSeq(u, 1, n)[i] = u[i]
    BY <1>3, <2>1, SubSeqProperties
  <2>3. QED
    BY <2>1, <2>2, SeqEqual
<1>5. QED
  BY <1>1, <1>2, <1>4 DEF IsPrefix, n, u

\* What a reading q of the stream x has done is what the lines of x call for.
Readings ==
  [buf : Seq(Bytes), authed : BOOLEAN, link : {"open", "unauthorized"},
   lines : Seq(Seq(Bytes))]
Agrees(x, q) ==
  /\ q \in Readings
  /\ IsPrefix(q.lines, LinesOf(x))
  /\ q.link = "open" =>
       /\ q.lines = LinesOf(x) /\ q.buf = Rest(x)
       /\ q.authed <=> q.lines # <<>>
       /\ q.lines # <<>> => KeyGiven(q.lines[1])
  /\ 2 \in DOMAIN q.lines => KeyGiven(q.lines[1])

\* A line that ends here is handled, and is the last one if it gives no key where
\* one is due.
LEMMA ProcessLineAgrees ==
  ASSUME NEW x \in Seq(Bytes), NEW q, Agrees(x, q), q.link = "open",
         "NUL" \notin Range(q.buf)
  PROVE  Agrees(Append(x, "LF"), ProcessLine(q, Text(q.buf)))
<1> DEFINE y == Append(x, "LF")
           line == Text(Rest(x))
           p == ProcessLine(q, line)
<1>1. q \in Readings /\ q.lines = LinesOf(x) /\ q.buf = Rest(x)
  BY DEF Agrees
<1>2. LinesOf(y) = Append(q.lines, line) /\ Rest(y) = <<>>
  BY <1>1, MarkInRest, LineEnded
<1>3. line \in Seq(Bytes)
  BY RestIs, TextType
<1> HIDE DEF y, line
<1>4. /\ Append(q.lines, line) \in Seq(Seq(Bytes))
      /\ Len(Append(q.lines, line)) = Len(q.lines) + 1
      /\ \A i \in 1 .. Len(q.lines) : Append(q.lines, line)[i] = q.lines[i]
      /\ Append(q.lines, line)[Len(q.lines) + 1] = line
      /\ Append(q.lines, line) # <<>>
  <2> DEFINE lines == q.lines
             Lines == Seq(Bytes)
  <2>1. lines \in Seq(Lines) /\ line \in Lines
    BY <1>1, <1>3 DEF Readings
  <2> HIDE DEF lines, Lines
  <2>2. /\ Append(lines, line) \in Seq(Lines)
        /\ Len(Append(lines, line)) = Len(lines) + 1
        /\ \A i \in 1 .. Len(lines) : Append(lines, line)[i] = lines[i]
        /\ Append(lines, line)[Len(lines) + 1] = line
        /\ Append(lines, line) # <<>>
    BY <2>1, AppendProperties
  <2>3. QED
    BY <2>2 DEF lines, Lines
<1>5. KeyGiven(line) \in BOOLEAN
  BY DEF KeyGiven
<1>6. /\ p.buf = <<>> /\ p.lines = Append(q.lines, line)
      /\ p.authed = (q.authed \/ KeyGiven(line))
      /\ p.link = IF q.authed \/ KeyGiven(line) THEN "open" ELSE "unauthorized"
      /\ p \in Readings
  <2> DEFINE key == KeyGiven(line)
             longer == Append(q.lines, line)
  <2>1. p = [q EXCEPT !.buf = <<>>, !.lines = longer, !.authed = @ \/ key,
                      !.link = IF q.authed \/ key THEN "open" ELSE "unauthorized"]
    BY DEF ProcessLine
  <2>2. key \in BOOLEAN /\ longer \in Seq(Seq(Bytes)) /\ <<>> \in Seq(Bytes)
    BY <1>4, <1>5
  <2> HIDE DEF key, longer, p
  <2>3. q.authed \/ key \in BOOLEAN
    BY <1>1, <2>2 DEF Readings
  <2>4. /\ p.buf = <<>> /\ p.lines = longer /\ p.authed = (q.authed \/ key)
        /\ p.link = IF q.authed \/ key THEN "open" ELSE "unauthorized"
        /\ p \in Readings
    BY <1>1, <2>1, <2>2 DEF Readings
  <2>5. QED
    BY <2>4 DEF key, longer
<1> HIDE DEF p
<1>7. IsPrefix(p.lines, LinesOf(y))
  BY <1>2, <1>4, <1>6, PrefixOfAll
<1>8. /\ q.authed <=> q.lines # <<>>
      /\ q.lines # <<>> => KeyGiven(q.lines[1])
      /\ q.lines \in Seq(Seq(Bytes))
  BY <1>1 DEF Agrees, Readings
<1>9. CASE q.lines = <<>>
  <2>1. p.lines[1] = line /\ DOMAIN p.lines = {1}
    BY <1>4, <1>6, <1>9
  <2>2. ~ q.authed
    BY <1>8, <1>9
  <2>3. p.link = "open" => p.authed /\ KeyGiven(p.lines[1])
    BY <1>6, <2>1, <2>2
  <2>4. Agrees(y, p)
    BY <1>2, <1>4, <1>6, <1>7, <2>1, <2>3 DEF Agrees
  <2>5. QED
    BY <1>1, <2>4 DEF p, y, line
<1>10. CASE q.lines # <<>>
  <2>1. Len(q.lines) \in Nat \ {0}
    BY <1>8, <1>10
  <2>2. p.lines[1] = q.lines[1]
    BY <1>4, <1>6, <2>1
  <2>3. p.authed /\ KeyGiven(p.lines[1])
    BY <1>6, <1>8, <1>10, <2>2
  <2>4. Agrees(y, p)
    BY <1>2, <1>4, <1>6, <1>7, <2>3 DEF Agrees
  <2>5. QED
    BY <1>1, <2>4 DEF p, y, line
<1>11. QED
  BY <1>9, <1>10

LEMMA AddByteAgrees ==
  ASSUME NEW x \in Seq(Bytes), NEW b \in Bytes, NEW q, Agrees(x, q)
  PROVE  /\ Agrees(Append(x, b), AddByte(q, b))
         /\ Len(AddByte(q, b).buf) <= Len(q.buf) + 1
<1>1. q \in Readings
  BY DEF Agrees
<1>2. /\ Len(q.buf) \in Nat /\ Append(q.buf, b) \in Seq(Bytes)
      /\ Len(Append(q.buf, b)) = Len(q.buf) + 1
  BY <1>1 DEF Readings
<1>3. CASE q.link # "open"
  <2>1. AddByte(q, b) = q
    BY <1>3 DEF AddByte
  <2>2. \/ LinesOf(Append(x, b)) = LinesOf(x)
        \/ LinesOf(Append(x, b)) = Append(LinesOf(x), Text(Rest(x)))
    BY LineEnded, LineContinued
  <2>3. IsPrefix(q.lines, LinesOf(Append(x, b)))
    <3>1. IsPrefix(q.lines, LinesOf(x)) /\ q.lines \in Seq(Seq(Bytes))
      BY DEF Agrees, Readings
    <3>2. LinesOf(x) \in Seq(Seq(Bytes)) /\ Text(Rest(x)) \in Seq(Bytes)
      BY LinesOfType, RestIs, TextType
    <3>3. QED
      BY <2>2, <3>1, <3>2, PrefixOfLonger
  <2>4. QED
    BY <1>2, <1>3, <2>1, <2>3 DEF Agrees
<1>4. CASE q.link = "open" /\ b = "LF" /\ "NUL" \notin Range(q.buf)
  <2>1. AddByte(q, b) = ProcessLine(q, Text(q.buf))
    BY <1>4 DEF AddByte
  <2>2. ProcessLine(q, Text(q.buf)).buf = <<>>
    BY <1>1 DEF ProcessLine, Readings
  <2>3. QED
    BY <1>2, <1>4, <2>1, <2>2, ProcessLineAgrees
<1>5. CASE q.link = "open" /\ ~ (b = "LF" /\ "NUL" \notin Range(q.buf))
  <2> DEFINE p == [q EXCEPT !.buf = Append(@, b)]
  <2>1. AddByte(q, b) = p
    BY <1>5 DEF AddByte
  <2>2. /\ p \in Readings /\ p.buf = Append(q.buf, b)
        /\ p.lines = q.lines /\ p.link = q.link /\ p.authed = q.authed
    BY <1>1, <1>2 DEF Readings
  <2>3. LinesOf(Append(x, b)) = LinesOf(x) /\ Rest(Append(x, b)) = Append(Rest(x), b)
    <3>1. q.buf = Rest(x)
      BY <1>5 DEF Agrees
    <3>2. b # "LF" \/ Marked(x)
      BY <1>5, <3>1, MarkInRest
    <3>3. QED
      BY <3>2, LineContinued
  <2> HIDE DEF p
  <2>4. Agrees(Append(x, b), p)
    BY <2>2, <2>3 DEF Agrees
  <2>5. QED
    BY <1>2, <2>1, <2>2, <2>4
<1>6. QED
  BY <1>3, <1>4, <1>5

\* A piece of any length, in one reading.
LEMMA ReceivedAgrees ==
  ASSUME NEW s \in Slots, NEW x \in Seq(Bytes), NEW bytes \in Seq(Bytes),
         Agrees(x, Reading(s))
  PROVE  /\ Agrees(x \o bytes, Received(s, bytes))
         /\ Len(Received(s, bytes).buf) <= Len(client_bufs[s]) + Len(bytes)
<1> DEFINE l == Len(client_bufs[s])
           part(n) == x \o SubSeq(bytes, 1, n)
           stage == [n \in 0 .. Len(bytes) |->
                       {q \in Readings : Agrees(part(n), q) /\ Len(q.buf) <= l + n}]
<1>1. Len(bytes) \in Nat
  OBVIOUS
<1>2. Reading(s).buf = client_bufs[s] /\ Reading(s) \in Readings /\ l \in Nat
  BY DEF Reading, Agrees, Readings
<1> HIDE DEF l
<1>3. Reading(s) \in stage[0]
  <2>1. part(0) = x
    OBVIOUS
  <2>2. l <= l + 0
    BY <1>2
  <2> HIDE DEF part
  <2>3. QED
    BY <1>1, <1>2, <2>1, <2>2 DEF l
<1>4. ASSUME NEW n \in 1 .. Len(bytes), NEW q \in stage[n - 1]
      PROVE  AddByte(q, bytes[n]) \in stage[n]
  <2>1. bytes[n] \in Bytes /\ n - 1 \in 0 .. Len(bytes) /\ n \in 0 .. Len(bytes)
    OBVIOUS
  <2>2. part(n) = Append(part(n - 1), bytes[n]) /\ part(n - 1) \in Seq(Bytes)
    <3>1. SubSeq(bytes, 1, n - 1) \in Seq(Bytes)
      OBVIOUS
    <3>2. SubSeq(bytes, 1, n) = SubSeq(bytes, 1, n - 1) \o <<bytes[n]>>
      BY <2>1, SubSeqRecursiveSecond
    <3>3. <<bytes[n]>> \in Seq(Bytes)
      BY <2>1
    <3> DEFINE before == SubSeq(bytes, 1, n - 1)
               b == bytes[n]
    <3>4. part(n - 1) = x \o before /\ part(n) = x \o (before \o <<b>>)
      BY <3>2
    <3>5. before \in Seq(Bytes) /\ b \in Bytes /\ <<b>> \in Seq(Bytes)
      BY <2>1, <3>1, <3>3
    <3> HIDE DEF part, before, b
    <3>6. x \o (before \o <<b>>) = (x \o before) \o <<b>> /\ x \o before \in Seq(Bytes)
      BY <3>5, ConcatAssociative, ConcatProperties
    <3>7. part(n) = Append(part(n - 1), b) /\ part(n - 1) \in Seq(Bytes)
      BY <3>4, <3>5, <3>6, AppendIsConcat
    <3>8. QED
      BY <3>7 DEF b
  <2> HIDE DEF part
  <2>3. q \in Readings /\ Agrees(part(n - 1), q) /\ Len(q.buf) <= l + (n - 1)
    BY <2>1
  <2>4. /\ Agrees(part(n), AddByte(q, bytes[n]))
        /\ Len(AddByte(q, bytes[n]).buf) <= Len(q.buf) + 1
    BY <2>1, <2>2, <2>3, AddByteAgrees
  <2>5. AddByte(q, bytes[n]) \in Readings
    BY <2>4 DEF Agrees
  <2>6. Len(AddByte(q, bytes[n]).buf) <= l + n
    <3>1. Len(q.buf) \in Nat /\ Len(AddByte(q, bytes[n]).buf) \in Nat
      BY <2>3, <2>5 DEF Readings
    <3>2. QED
      BY <1>2, <2>3, <2>4, <3>1
  <2>7. QED
    BY <2>1, <2>4, <2>5, <2>6
<1>5. part(Len(bytes)) = x \o bytes
  BY SubSeqFull
<1> HIDE DEF part
<1>6. stage[Len(bytes)] = {q \in Readings : Agrees(x \o bytes, q) /\ Len(q.buf) <= l + Len(bytes)}
  <2>1. Len(bytes) \in 0 .. Len(bytes)
    BY <1>1
  <2>2. QED
    BY <1>5, <2>1
<1> HIDE DEF stage
<1>7. Received(s, bytes) \in stage[Len(bytes)]
  BY <1>3, <1>4, AddBytesInduction DEF Received
<1>8. QED
  BY <1>6, <1>7 DEF l

-----------------------------------------------------------------------------
(* The inductive invariant of what is read.                                 *)

\* A connection: what is read comes before what is not, a waiting or refused one
\* has had nothing read, and the three properties of its lines.
Conn(a) ==
  /\ ReadBytes(a) \in Seq(Bytes)
  /\ written[a] = ReadBytes(a) \o wire[a]
  /\ link[a] \in {"none", "backlog", "too many"} => ReadBytes(a) = <<>> /\ handled[a] = <<>>
  /\ IsPrefix(handled[a], LinesOf(ReadBytes(a)))
  /\ link[a] = "open" =>
       /\ handled[a] = LinesOf(ReadBytes(a))
       /\ 1 \in DOMAIN handled[a] => KeyGiven(handled[a][1])
  /\ link[a] = "end of file" => handled[a] = LinesOf(written[a])
  /\ 2 \in DOMAIN handled[a] => KeyGiven(handled[a][1])
  /\ link[a] = "too large" => Overlong(written[a])

\* A slot in use holds the reading of its connection.
Slot(s) == client_fds[s] # NoAdmin => Agrees(ReadBytes(client_fds[s]), Reading(s))

CInv ==
  /\ TypeOK /\ SInv
  /\ \A a \in Admins : Conn(a)
  /\ \A s \in Slots : Slot(s)

LEMMA ReadingInvariantImplies ==
  CInv => TypeOK /\ LinesExact /\ FirstLineAuthenticates /\ TooLargeForCause
<1> SUFFICES ASSUME CInv
             PROVE  TypeOK /\ LinesExact /\ FirstLineAuthenticates /\ TooLargeForCause
  OBVIOUS
<1>1. TypeOK /\ \A a \in Admins : Conn(a)
  BY DEF CInv
<1>2. LinesExact
  BY <1>1 DEF Conn, LinesExact
<1>3. FirstLineAuthenticates
  <2>1. \A i \in 1 .. 2 : i = 1 \/ i = 2
    OBVIOUS
  <2>2. QED
    BY <1>1, <2>1 DEF Conn, FirstLineAuthenticates
<1>4. TooLargeForCause
  BY <1>1 DEF Conn, TooLargeForCause
<1>5. QED
  BY <1>1, <1>2, <1>3, <1>4

\* What ReadBytes is, once the bytes of a connection are known to be in two parts.
LEMMA ReadOf ==
  ASSUME NEW x \in Seq(Bytes), NEW w \in Seq(Bytes)
  PROVE  SubSeq(x \o w, 1, Len(x \o w) - Len(w)) = x
<1>1. /\ x \o w \in Seq(Bytes) /\ Len(x \o w) = Len(x) + Len(w)
      /\ \A i \in 1 .. Len(x) + Len(w) : (x \o w)[i] = IF i <= Len(x) THEN x[i] ELSE w[i - Len(x)]
  BY ConcatProperties
<1>2. Len(x) \in Nat /\ Len(w) \in Nat /\ Len(x) + Len(w) - Len(w) = Len(x)
  OBVIOUS
<1> DEFINE y == x \o w
<1> HIDE DEF y
<1>3. \A i \in 1 .. Len(x) : x[i] \in Bytes /\ y[i] = x[i]
  BY <1>1, <1>2 DEF y
<1>4. /\ SubSeq(y, 1, Len(x)) \in Seq(Bytes) /\ Len(SubSeq(y, 1, Len(x))) = Len(x)
      /\ \A i \in 1 .. Len(x) : SubSeq(y, 1, Len(x))[i] = y[i]
  BY <1>2, <1>3, SubSeqProperties
<1>5. SubSeq(y, 1, Len(x)) = x
  BY <1>3, <1>4, SeqEqual
<1>6. QED
  BY <1>1, <1>2, <1>5 DEF y

\* The invariant looks at one connection, and one slot, at a time.
LEMMA OtherConn ==
  ASSUME NEW b, Conn(b), link'[b] = link[b], written'[b] = written[b],
         wire'[b] = wire[b], handled'[b] = handled[b]
  PROVE  Conn(b)'
BY DEF Conn, ReadBytes

LEMMA OtherSlot ==
  ASSUME NEW t, Slot(t), client_fds'[t] = client_fds[t],
         client_bufs'[t] = client_bufs[t], client_authed'[t] = client_authed[t],
         client_fds[t] # NoAdmin => /\ ReadBytes(client_fds[t])' = ReadBytes(client_fds[t])
                                    /\ handled'[client_fds[t]] = handled[client_fds[t]]
  PROVE  Slot(t)'
<1> SUFFICES ASSUME client_fds'[t] # NoAdmin PROVE Slot(t)'
  BY DEF Slot
<1>1. Reading(t)' = Reading(t)
  BY DEF Reading
<1>2. ReadBytes(client_fds[t])' = ReadBytes(client_fds[t])
  OBVIOUS
<1>3. QED
  BY <1>1, <1>2 DEF Slot

LEMMA CountsSlots ==
  ASSUME NEW U \in SUBSET Slots
  PROVE  Cardinality(U) \in 0 .. Cardinality(Slots)
<1>1. /\ Cardinality(U) \in Nat /\ Cardinality(Slots) \in Nat
      /\ Cardinality(U) <= Cardinality(Slots)
  BY SlotsAssumption, FS_Subset, FS_CardinalityType
<1>2. QED
  BY <1>1

LEMMA CountType ==
  /\ SInv => client_count \in 0 .. Cardinality(Slots)
  /\ SInv' => client_count' \in 0 .. Cardinality(Slots)
<1>1. Used \in SUBSET Slots /\ Used' \in SUBSET Slots
  BY DEF Used
<1>2. QED
  BY <1>1, CountsSlots DEF SInv

LEMMA InitReads == Init => CInv
<1> SUFFICES ASSUME Init PROVE CInv
  OBVIOUS
<1>1. SInv
  BY InitEstablishes
<1>2. TypeOK
  BY <1>1, CountType, BufferAssumption DEF Init, TypeOK
<1>3. ASSUME NEW a \in Admins PROVE Conn(a)
  <2>1. <<>> \in Seq(Bytes) /\ <<>> \o <<>> = <<>> /\ SubSeq(<<>>, 1, 0 - 0) = <<>>
    OBVIOUS
  <2>2. /\ link[a] = "none" /\ wire[a] = <<>> /\ written[a] = <<>> /\ handled[a] = <<>>
        /\ ReadBytes(a) = <<>>
    BY DEF Init, ReadBytes
  <2>3. IsPrefix(<<>>, LinesOf(<<>>))
    <3>1. LinesOf(<<>>) \in Seq(Seq(Bytes))
      BY <2>1, LinesOfType
    <3>2. QED
      BY <3>1 DEF IsPrefix
  <2>4. QED
    BY <2>1, <2>2, <2>3 DEF Conn
<1>4. \A s \in Slots : Slot(s)
  BY DEF Init, Slot
<1>5. QED
  BY <1>1, <1>2, <1>3, <1>4 DEF CInv

\* Administrators come, write and leave; nothing is read.
LEMMA ConnectReads ==
  ASSUME CInv, SInv', NEW a \in Admins, NEW script \in Scripts[a], Connect(a, script)
  PROVE  CInv'
<1>1. TypeOK'
  BY CountType, ScriptsAssumption DEF CInv, TypeOK, Connect, clientVars
<1>2. ASSUME NEW b \in Admins PROVE Conn(b)'
  <2>1. Conn(b) /\ link \in [Admins -> {"none", "backlog", "open"} \cup Reasons]
    BY DEF CInv, TypeOK
  <2>2. CASE b # a
    BY <2>1, <2>2, OtherConn DEF Connect
  <2>3. CASE b = a
    <3>1. link[a] = "none" /\ link'[a] = "backlog" /\ ReadBytes(a)' = ReadBytes(a)
      BY <2>1 DEF Connect, ReadBytes
    <3>2. QED
      BY <2>1, <2>3, <3>1 DEF Conn, Connect
  <2>4. QED
    BY <2>2, <2>3
<1>3. ASSUME NEW t \in Slots PROVE Slot(t)'
  BY OtherSlot DEF CInv, Connect, clientVars, ReadBytes
<1>4. QED
  BY <1>1, <1>2, <1>3 DEF CInv

LEMMA TooManyReads ==
  ASSUME CInv, SInv', NEW a \in Admins, AcceptTooMany(a)
  PROVE  CInv'
<1>1. TypeOK'
  BY CountType DEF CInv, TypeOK, AcceptTooMany, clientVars, Reasons
<1>2. ASSUME NEW b \in Admins PROVE Conn(b)'
  <2>1. Conn(b) /\ link \in [Admins -> {"none", "backlog", "open"} \cup Reasons]
    BY DEF CInv, TypeOK
  <2>2. CASE b # a
    BY <2>1, <2>2, OtherConn DEF AcceptTooMany
  <2>3. CASE b = a
    <3>1. link[a] = "backlog" /\ link'[a] = "too many" /\ ReadBytes(a)' = ReadBytes(a)
      BY <2>1 DEF AcceptTooMany, ReadBytes
    <3>2. QED
      BY <2>1, <2>3, <3>1 DEF Conn, AcceptTooMany
  <2>4. QED
    BY <2>2, <2>3
<1>3. ASSUME NEW t \in Slots PROVE Slot(t)'
  BY OtherSlot DEF CInv, AcceptTooMany, clientVars, ReadBytes
<1>4. QED
  BY <1>1, <1>2, <1>3 DEF CInv

\* What is written later, or taken away before it is read, leaves ReadBytes alone.
LEMMA UnreadChanges ==
  ASSUME CInv, SInv', NEW a \in Admins, NEW w \in Seq(Bytes),
         link[a] \in {"backlog", "open"},
         UNCHANGED <<clientVars, link, handled>>,
         written' = [written EXCEPT ![a] = ReadBytes(a) \o w],
         wire' = [wire EXCEPT ![a] = w],
         ended' \in [Admins -> BOOLEAN], unsent' \in [Admins -> Seq(Bytes)]
  PROVE  CInv'
<1>1. /\ TypeOK /\ Conn(a)
      /\ written \in [Admins -> Seq(Bytes)] /\ wire \in [Admins -> Seq(Bytes)]
  BY DEF CInv, TypeOK
<1>2. ReadBytes(a) \in Seq(Bytes) /\ ReadBytes(a) \o w \in Seq(Bytes)
  BY <1>1, ConcatProperties DEF Conn
<1>3. /\ written' \in [Admins -> Seq(Bytes)] /\ wire' \in [Admins -> Seq(Bytes)]
      /\ written'[a] = ReadBytes(a) \o w /\ wire'[a] = w
      /\ \A b \in Admins : b # a => written'[b] = written[b] /\ wire'[b] = wire[b]
  BY <1>1, <1>2
<1>4. TypeOK'
  BY <1>1, <1>3, CountType DEF TypeOK, clientVars
<1>5. ReadBytes(a)' = ReadBytes(a)
  <2>1. ReadBytes(a)' = SubSeq(written'[a], 1, Len(written'[a]) - Len(wire'[a]))
    BY DEF ReadBytes
  <2>2. QED
    BY <1>2, <1>3, <2>1, ReadOf
<1>6. \A b \in Admins : b # a => ReadBytes(b)' = ReadBytes(b)
  BY <1>3 DEF ReadBytes
<1>7. ASSUME NEW b \in Admins PROVE Conn(b)'
  <2>1. CASE b # a
    BY <1>3, <2>1, OtherConn DEF CInv
  <2>2. CASE b = a
    BY <1>1, <1>2, <1>3, <1>5, <2>2 DEF Conn
  <2>3. QED
    BY <2>1, <2>2
<1>8. ASSUME NEW t \in Slots PROVE Slot(t)'
  <2>1. client_fds[t] # NoAdmin => client_fds[t] \in Admins
    BY <1>1 DEF TypeOK
  <2>2. QED
    BY <1>5, <1>6, <2>1, OtherSlot DEF CInv, clientVars
<1>9. QED
  BY <1>4, <1>7, <1>8 DEF CInv

LEMMA WriteReads ==
  ASSUME CInv, SInv', NEW a \in Admins, NEW n \in 1 .. Len(unsent[a]), Write(a, n)
  PROVE  CInv'
<1> DEFINE p == SubSeq(unsent[a], 1, n)
           x == ReadBytes(a)
<1>1. /\ unsent \in [Admins -> Seq(Bytes)] /\ written \in [Admins -> Seq(Bytes)]
      /\ wire \in [Admins -> Seq(Bytes)] /\ ended \in [Admins -> BOOLEAN]
      /\ x \in Seq(Bytes) /\ written[a] = x \o wire[a]
  BY DEF CInv, TypeOK, Conn
<1>2. p \in Seq(Bytes) /\ SubSeq(unsent[a], n + 1, Len(unsent[a])) \in Seq(Bytes)
  BY <1>1
<1>3. unsent' \in [Admins -> Seq(Bytes)] /\ ended' \in [Admins -> BOOLEAN]
  BY <1>1, <1>2 DEF Write
<1>4. wire[a] \o p \in Seq(Bytes) /\ written[a] \o p = x \o (wire[a] \o p)
  <2> DEFINE w == wire[a]
  <2>1. w \in Seq(Bytes) /\ p \in Seq(Bytes) /\ x \in Seq(Bytes) /\ written[a] = x \o w
    BY <1>1, <1>2
  <2> HIDE DEF p, x, w
  <2>2. w \o p \in Seq(Bytes) /\ (x \o w) \o p = x \o (w \o p)
    BY <2>1, ConcatAssociative, ConcatProperties
  <2>3. QED
    BY <2>1, <2>2 DEF w
<1>5. /\ written' = [written EXCEPT ![a] = x \o (wire[a] \o p)]
      /\ wire' = [wire EXCEPT ![a] = wire[a] \o p]
      /\ link[a] \in {"backlog", "open"} /\ UNCHANGED <<clientVars, link, handled>>
  BY <1>4 DEF Write
<1>6. QED
  BY <1>3, <1>4, <1>5, UnreadChanges

LEMMA HangUpReads ==
  ASSUME CInv, SInv', NEW a \in Admins, HangUp(a)
  PROVE  CInv'
<1> DEFINE x == ReadBytes(a)
<1>1. /\ unsent \in [Admins -> Seq(Bytes)] /\ written \in [Admins -> Seq(Bytes)]
      /\ wire \in [Admins -> Seq(Bytes)] /\ ended \in [Admins -> BOOLEAN]
      /\ x \in Seq(Bytes) /\ written[a] = x \o wire[a]
  BY DEF CInv, TypeOK, Conn
<1>2. /\ unsent' \in [Admins -> Seq(Bytes)] /\ ended' \in [Admins -> BOOLEAN]
      /\ link[a] \in {"backlog", "open"} /\ UNCHANGED <<clientVars, link, handled>>
  BY <1>1 DEF HangUp
<1>3. CASE UNCHANGED <<written, wire>>
  <2>1. /\ written' = [written EXCEPT ![a] = x \o wire[a]]
        /\ wire' = [wire EXCEPT ![a] = wire[a]] /\ wire[a] \in Seq(Bytes)
    BY <1>1, <1>3
  <2>2. QED
    BY <1>2, <2>1, UnreadChanges
<1>4. CASE /\ wire' = [wire EXCEPT ![a] = <<>>]
           /\ written' = [written EXCEPT ![a] = SubSeq(@, 1, Len(@) - Len(wire[a]))]
  <2>1. SubSeq(written[a], 1, Len(written[a]) - Len(wire[a])) = x \o <<>>
    BY <1>1, ConcatEmptySeq DEF ReadBytes
  <2>2. /\ written' = [written EXCEPT ![a] = x \o <<>>]
        /\ wire' = [wire EXCEPT ![a] = <<>>]
    BY <1>4, <2>1, Zenon
  <2>3. QED
    BY <1>2, <2>2, EmptySeq, UnreadChanges
<1>5. QED
  BY <1>3, <1>4 DEF HangUp

\* A connection in a slot of its own starts with nothing read.
LEMMA NothingRead ==
  /\ LinesOf(<<>>) = <<>>
  /\ Agrees(<<>>, [buf |-> <<>>, authed |-> FALSE, link |-> "open", lines |-> <<>>])
<1>1. <<>> \in Seq(Bytes) /\ Len(<<>>) = 0 /\ DOMAIN <<>> = {}
  OBVIOUS
<1>2. LineEnds(<<>>) = {}
  BY <1>1 DEF LineEnds
<1>3. LinesOf(<<>>) = <<>>
  <2>1. LinesOf(<<>>) \in Seq(Seq(Bytes)) /\ Len(LinesOf(<<>>)) = 0
    BY <1>1, <1>2, LinesOfType, FS_EmptySet
  <2>2. QED
    BY <2>1, EmptySeq
<1>4. Rest(<<>>) = <<>>
  <2>1. Rest(<<>>) \in Seq(Bytes) /\ Len(Rest(<<>>)) = 0 - LastEnd(<<>>) /\ LastEnd(<<>>) \in 0 .. 0
    BY <1>1, RestIs, LastEndIs
  <2>2. QED
    BY <2>1, EmptySeq
<1>5. IsPrefix(<<>>, <<>>)
  BY <1>1, PrefixOfAll
<1>6. <<>> \in Seq(Seq(Bytes)) /\ 2 \notin DOMAIN <<>>
  OBVIOUS
<1>7. QED
  BY <1>1, <1>3, <1>4, <1>5, <1>6 DEF Agrees, Readings

LEMMA AcceptReads ==
  ASSUME CInv, SInv', NEW a \in Admins, Accept(a)
  PROVE  CInv'
<1> DEFINE new == Min(FreeSlots)
<1>1. new \in Slots /\ client_fds[new] = NoAdmin
  <2>1. FreeSlots \in SUBSET Nat /\ FreeSlots # {}
    BY SlotsAssumption DEF Accept, FreeSlots
  <2>2. new \in FreeSlots
    BY <2>1, LeastElement
  <2>3. QED
    BY <2>2 DEF FreeSlots
<1>2. /\ client_fds' = [client_fds EXCEPT ![new] = a]
      /\ client_authed' = [client_authed EXCEPT ![new] = FALSE]
      /\ client_bufs' = [client_bufs EXCEPT ![new] = <<>>]
      /\ link[a] = "backlog" /\ link' = [link EXCEPT ![a] = "open"]
      /\ UNCHANGED <<unsent, written, wire, ended, handled>>
  BY DEF Accept
<1> HIDE DEF new
<1>3. /\ TypeOK /\ Conn(a)
      /\ client_fds \in [Slots -> Admins \cup {NoAdmin}]
      /\ client_authed \in [Slots -> BOOLEAN] /\ client_bufs \in [Slots -> Seq(Bytes)]
      /\ link \in [Admins -> {"none", "backlog", "open"} \cup Reasons]
  BY DEF CInv, TypeOK
<1>4. TypeOK'
  <2>1. client_bufs' \in [Slots -> Seq(Bytes)]
    BY <1>2, <1>3, EmptySeq
  <2>2. ASSUME NEW t \in Slots PROVE Len(client_bufs'[t]) < MGMT_BUF_SIZE
    <3>1. client_bufs'[t] = IF t = new THEN <<>> ELSE client_bufs[t]
      BY <1>2, <1>3
    <3>2. QED
      BY <1>3, <3>1, BufferAssumption DEF TypeOK
  <2>3. client_authed' \in [Slots -> BOOLEAN] /\ client_fds' \in [Slots -> Admins \cup {NoAdmin}]
    BY <1>2, <1>3
  <2>4. link' \in [Admins -> {"none", "backlog", "open"} \cup Reasons]
    BY <1>2, <1>3
  <2>5. client_count' \in 0 .. Cardinality(Slots)
    BY CountType
  <2>6. QED
    BY <1>2, <1>3, <2>1, <2>2, <2>3, <2>4, <2>5 DEF TypeOK
<1>5. ReadBytes(a) = <<>> /\ handled[a] = <<>> /\ ReadBytes(a)' = <<>> /\ handled'[a] = <<>>
  BY <1>2, <1>3 DEF Conn, ReadBytes
<1>6. ASSUME NEW b \in Admins PROVE Conn(b)'
  <2>1. CASE b # a
    BY <1>2, <1>3, <2>1, OtherConn DEF CInv
  <2>2. CASE b = a
    <3>1. link'[a] = "open" /\ 1 \notin DOMAIN <<>>
      BY <1>2, <1>3
    <3>2. QED
      BY <1>2, <1>3, <1>5, <2>2, <3>1, NothingRead DEF Conn
  <2>3. QED
    BY <2>1, <2>2
<1>7. ASSUME NEW t \in Slots PROVE Slot(t)'
  <2>1. CASE t # new
    <3>1. /\ client_fds'[t] = client_fds[t] /\ client_bufs'[t] = client_bufs[t]
          /\ client_authed'[t] = client_authed[t] /\ Slot(t)
      BY <1>2, <1>3, <2>1 DEF CInv
    <3>2. ReadBytes(client_fds[t])' = ReadBytes(client_fds[t])
      BY <1>2, <3>1 DEF ReadBytes
    <3>3. QED
      BY <1>2, <3>1, <3>2, OtherSlot
  <2>2. CASE t = new
    <3>1. client_fds'[t] = a /\ client_bufs'[t] = <<>> /\ client_authed'[t] = FALSE
      BY <1>1, <1>2, <1>3, <2>2
    <3>2. Reading(t)' = [buf |-> <<>>, authed |-> FALSE, link |-> "open", lines |-> <<>>]
      BY <1>5, <3>1 DEF Reading
    <3>3. ReadBytes(client_fds[t])' = <<>>
      BY <1>5, <3>1
    <3>4. QED
      BY <3>2, <3>3, NothingRead DEF Slot
  <2>3. QED
    BY <2>1, <2>2
<1>8. QED
  BY <1>4, <1>6, <1>7 DEF CInv

\* An event of a slot concerns its own connection only.
LEMMA EventReads ==
  ASSUME CInv, SInv', TypeOK', NEW s \in Slots, NEW a \in Admins, client_fds[s] = a,
         UNCHANGED <<unsent, written, ended>>,
         \A t \in Slots \ {s} : /\ client_fds'[t] = client_fds[t]
                                 /\ client_bufs'[t] = client_bufs[t]
                                 /\ client_authed'[t] = client_authed[t],
         \A b \in Admins \ {a} :
            link'[b] = link[b] /\ wire'[b] = wire[b] /\ handled'[b] = handled[b],
         Conn(a)', Slot(s)'
  PROVE  CInv'
<1>1. TypeOK /\ SInv
  BY DEF CInv
<1>2. ASSUME NEW b \in Admins PROVE Conn(b)'
  <2>1. CASE b = a
    BY <2>1
  <2>2. CASE b # a
    <3>1. Conn(b) /\ written'[b] = written[b]
      BY DEF CInv
    <3>2. link'[b] = link[b] /\ wire'[b] = wire[b] /\ handled'[b] = handled[b]
      BY <2>2
    <3>3. QED
      BY <3>1, <3>2, OtherConn
  <2>3. QED
    BY <2>1, <2>2
<1>3. ASSUME NEW t \in Slots PROVE Slot(t)'
  <2>1. CASE t = s
    BY <2>1
  <2>2. CASE t # s
    <3>1. client_fds[t] # NoAdmin => client_fds[t] \in Admins \ {a}
      BY <1>1, <2>2, AdminsAssumption DEF SInv, Used
    <3>2. client_fds[t] # NoAdmin => ReadBytes(client_fds[t])' = ReadBytes(client_fds[t])
      BY <3>1 DEF ReadBytes
    <3>3. QED
      BY <2>2, <3>1, <3>2, OtherSlot DEF CInv
  <2>3. QED
    BY <2>1, <2>2
<1>4. QED
  BY <1>2, <1>3 DEF CInv

\* So does the end of a connection.
LEMMA CloseReads ==
  ASSUME CInv, SInv', NEW s \in Slots, NEW a \in Admins, client_fds[s] = a,
         NEW why \in Reasons, CloseClient(s, why),
         UNCHANGED <<unsent, written, ended>>,
         wire' \in [Admins -> Seq(Bytes)], handled' \in [Admins -> Seq(Seq(Bytes))],
         \A b \in Admins \ {a} : wire'[b] = wire[b] /\ handled'[b] = handled[b],
         Conn(a)'
  PROVE  CInv'
<1>1. /\ TypeOK /\ SInv
      /\ client_fds \in [Slots -> Admins \cup {NoAdmin}]
      /\ client_authed \in [Slots -> BOOLEAN] /\ client_bufs \in [Slots -> Seq(Bytes)]
      /\ link \in [Admins -> {"none", "backlog", "open"} \cup Reasons]
  BY DEF CInv, TypeOK
<1>2. /\ client_fds' = [client_fds EXCEPT ![s] = NoAdmin]
      /\ client_authed' = [client_authed EXCEPT ![s] = FALSE]
      /\ client_bufs' = [client_bufs EXCEPT ![s] = <<>>]
      /\ link' = [link EXCEPT ![a] = why]
  BY DEF CloseClient
<1>3. TypeOK'
  <2>1. client_bufs' \in [Slots -> Seq(Bytes)]
    BY <1>1, <1>2
  <2>2. ASSUME NEW t \in Slots PROVE Len(client_bufs'[t]) < MGMT_BUF_SIZE
    <3>1. client_bufs'[t] = IF t = s THEN <<>> ELSE client_bufs[t]
      BY <1>1, <1>2
    <3>2. QED
      BY <1>1, <3>1, BufferAssumption DEF TypeOK
  <2>3. client_authed' \in [Slots -> BOOLEAN] /\ client_fds' \in [Slots -> Admins \cup {NoAdmin}]
    BY <1>1, <1>2
  <2>4. link' \in [Admins -> {"none", "backlog", "open"} \cup Reasons]
    BY <1>1, <1>2
  <2>5. client_count' \in 0 .. Cardinality(Slots)
    BY CountType
  <2>6. QED
    BY <1>1, <2>1, <2>2, <2>3, <2>4, <2>5 DEF TypeOK
<1>4. \A t \in Slots \ {s} : /\ client_fds'[t] = client_fds[t]
                              /\ client_bufs'[t] = client_bufs[t]
                              /\ client_authed'[t] = client_authed[t]
  BY <1>1, <1>2
<1>5. \A b \in Admins \ {a} : link'[b] = link[b]
  BY <1>1, <1>2
<1>6. Slot(s)'
  BY <1>1, <1>2 DEF Slot
<1>7. QED
  BY <1>3, <1>4, <1>5, <1>6, EventReads

\* A buffer without room holds what comes after the last line, and all of it.
LEMMA NoSpaceReads ==
  ASSUME CInv, SInv', NEW s \in Slots, NEW a \in Admins, client_fds[s] = a, NoSpace(s)
  PROVE  CInv'
<1> DEFINE x == ReadBytes(a)
           n == LastEnd(x)
<1>1. /\ client_fds[s] # NoAdmin /\ UNCHANGED <<unsent, written, ended, wire, handled>>
      /\ Space(s) <= 0 /\ CloseClient(s, "too large")
  BY DEF NoSpace, Event
<1>2. /\ TypeOK /\ SInv /\ Slot(s) /\ Conn(a)
      /\ handled \in [Admins -> Seq(Seq(Bytes))] /\ wire \in [Admins -> Seq(Bytes)]
      /\ written \in [Admins -> Seq(Bytes)]
      /\ link \in [Admins -> {"none", "backlog", "open"} \cup Reasons]
  BY <1>1 DEF CInv, TypeOK
<1>3. x \in Seq(Bytes) /\ wire[a] \in Seq(Bytes) /\ written[a] = x \o wire[a]
  BY <1>2 DEF Conn
<1>4. client_bufs[s] = Rest(x) /\ Len(client_bufs[s]) = MGMT_BUF_SIZE - 1
  <2>1. client_bufs[s] = Rest(x)
    BY <1>1, <1>2 DEF Slot, Agrees, Reading
  <2>2. Len(client_bufs[s]) \in Nat /\ Len(client_bufs[s]) < MGMT_BUF_SIZE
    BY <1>2 DEF TypeOK
  <2>3. MGMT_BUF_SIZE - 1 - Len(client_bufs[s]) <= 0 /\ MGMT_BUF_SIZE \in Nat
    BY <1>1, BufferAssumption DEF Space
  <2>4. QED
    BY <2>1, <2>2, <2>3
<1> HIDE DEF x
<1>5. /\ n \in Nat /\ Len(x) = n + MGMT_BUF_SIZE - 1
      /\ \A e \in LineEnds(x) : e <= n
  <2>1. n \in 0 .. Len(x) /\ Len(Rest(x)) = Len(x) - n /\ \A e \in LineEnds(x) : e <= n
    BY <1>3, LastEndIs, RestIs, Zenon
  <2> HIDE DEF n
  <2>2. QED
    BY <1>4, <2>1, BufferAssumption
<1> HIDE DEF n
<1>6. /\ written[a] \in Seq(Bytes) /\ Len(x) <= Len(written[a])
      /\ \A i \in 1 .. Len(x) : written[a][i] = x[i]
  BY <1>3, ConcatProperties
<1>7. Overlong(written[a])
  <2>1. /\ n + 1 + MGMT_BUF_SIZE - 2 = Len(x) /\ MGMT_BUF_SIZE - 1 \in Nat \ {0}
        /\ n + 1 \in 1 .. Len(x) /\ Len(x) \in 1 .. Len(x)
    BY <1>3, <1>5, BufferAssumption
  <2>2. n + 1 \in DOMAIN written[a] /\ Len(x) \in DOMAIN written[a]
    BY <1>6, <2>1
  <2>3. ASSUME NEW i \in n + 1 .. Len(x), written[a][i] = "LF"
        PROVE  \E j \in 1 .. i : written[a][j] = "NUL"
    <3>1. i \in DOMAIN x /\ i \in 1 .. Len(x) /\ i > n
      BY <1>3, <1>5, <2>3
    <3>2. x[i] = "LF" /\ i \notin LineEnds(x)
      BY <1>5, <1>6, <2>3, <3>1
    <3>3. PICK j \in 1 .. i : x[j] = "NUL"
      BY <3>1, <3>2 DEF LineEnds
    <3>4. j \in 1 .. Len(x)
      BY <3>1
    <3>5. QED
      BY <1>6, <3>3, <3>4
  <2>4. QED
    BY <2>1, <2>2, <2>3 DEF Overlong
<1>8. link'[a] = "too large"
  BY <1>1, <1>2 DEF CloseClient
<1>9. Conn(a)'
  <2>1. ReadBytes(a)' = x /\ handled' = handled /\ written' = written /\ wire' = wire
    BY <1>1 DEF ReadBytes, x
  <2>2. /\ IsPrefix(handled[a], LinesOf(x))
        /\ 2 \in DOMAIN handled[a] => KeyGiven(handled[a][1])
    BY <1>2 DEF Conn, x
  <2>3. QED
    BY <1>3, <1>7, <1>8, <2>1, <2>2 DEF Conn
<1>10. a # NoAdmin /\ "too large" \in Reasons /\ client_fds[s] = a
  BY <1>1 DEF Reasons
<1>11. QED
  BY <1>1, <1>2, <1>9, <1>10, CloseReads

\* A connection ends when all it wrote has been read.
LEMMA EndOfFileReads ==
  ASSUME CInv, SInv', NEW s \in Slots, NEW a \in Admins, client_fds[s] = a, EndOfFile(s)
  PROVE  CInv'
<1>1. /\ client_fds[s] # NoAdmin /\ UNCHANGED <<unsent, written, ended, wire, handled>>
      /\ wire[a] = <<>> /\ CloseClient(s, "end of file")
  BY DEF EndOfFile, Event
<1>2. /\ TypeOK /\ SInv /\ Slot(s) /\ Conn(a)
      /\ handled \in [Admins -> Seq(Seq(Bytes))] /\ wire \in [Admins -> Seq(Bytes)]
      /\ link \in [Admins -> {"none", "backlog", "open"} \cup Reasons]
  BY <1>1 DEF CInv, TypeOK
<1>3. link[a] = "open" /\ link'[a] = "end of file"
  BY <1>1, <1>2 DEF SInv, Used, CloseClient
<1>4. "end of file" \in Reasons /\ client_fds[s] = a
  BY DEF Reasons
<1>5. ReadBytes(a) = written[a]
  BY <1>1, <1>2, ConcatEmptySeq DEF Conn
<1>6. ReadBytes(a)' = ReadBytes(a)
  BY <1>1 DEF ReadBytes
<1>7. Conn(a)'
  BY <1>1, <1>2, <1>3, <1>5, <1>6 DEF Conn
<1>8. QED
  BY <1>1, <1>2, <1>4, <1>7, CloseReads

\* The next piece: its lines are handled, and the rest is kept, or the connection
\* is closed at a first line that is not the key.
LEMMA DataReads ==
  ASSUME CInv, SInv', NEW s \in Slots, NEW a \in Admins, client_fds[s] = a, Data(s)
  PROVE  CInv'
<1> DEFINE x == ReadBytes(a)
           n == Min({Space(s), Len(wire[a])})
           piece == SubSeq(wire[a], 1, n)
           left == SubSeq(wire[a], n + 1, Len(wire[a]))
           r == Received(s, piece)
<1>1. /\ client_fds[s] # NoAdmin /\ UNCHANGED <<unsent, written, ended>>
      /\ Space(s) > 0 /\ wire[a] # <<>>
      /\ wire' = [wire EXCEPT ![a] = left]
      /\ handled' = [handled EXCEPT ![a] = r.lines]
      /\ IF r.link = "open"
         THEN /\ client_bufs' = [client_bufs EXCEPT ![s] = r.buf]
              /\ client_authed' = [client_authed EXCEPT ![s] = r.authed]
              /\ UNCHANGED <<client_fds, client_count, link>>
         ELSE CloseClient(s, r.link)
  BY DEF Data, Event
<1>2. /\ TypeOK /\ SInv /\ Slot(s) /\ Conn(a)
      /\ handled \in [Admins -> Seq(Seq(Bytes))] /\ wire \in [Admins -> Seq(Bytes)]
      /\ written \in [Admins -> Seq(Bytes)]
      /\ client_bufs \in [Slots -> Seq(Bytes)] /\ client_authed \in [Slots -> BOOLEAN]
      /\ link \in [Admins -> {"none", "backlog", "open"} \cup Reasons]
  BY <1>1 DEF CInv, TypeOK
<1>3. x \in Seq(Bytes) /\ wire[a] \in Seq(Bytes) /\ written[a] = x \o wire[a]
  BY <1>2 DEF Conn
<1>4. n \in 1 .. Len(wire[a]) /\ n <= Space(s) /\ Space(s) \in Nat
  <2>1. Space(s) \in Nat
    BY <1>1, <1>2, BufferAssumption DEF Space, TypeOK
  <2>2. Len(wire[a]) \in Nat \ {0}
    BY <1>1, <1>3, EmptySeq
  <2>3. {Space(s), Len(wire[a])} \in SUBSET Nat
    BY <2>1, <2>2
  <2>4. n \in {Space(s), Len(wire[a])} /\ n <= Space(s) /\ n <= Len(wire[a])
    BY <2>3, LeastElement
  <2> HIDE DEF n
  <2>5. QED
    BY <1>1, <2>1, <2>2, <2>4
<1> HIDE DEF n
<1>5. /\ piece \in Seq(Bytes) /\ left \in Seq(Bytes) /\ Len(piece) = n
      /\ wire[a] = piece \o left
  <2>1. piece \in Seq(Bytes) /\ left \in Seq(Bytes) /\ Len(piece) = n
    BY <1>3, <1>4
  <2>2. SubSeq(wire[a], 1, n) \o SubSeq(wire[a], n + 1, Len(wire[a])) = SubSeq(wire[a], 1, Len(wire[a]))
    BY <1>3, <1>4, ConcatAdjacentSubSeq
  <2>3. QED
    BY <1>3, <2>1, <2>2, SubSeqFull
<1>6. Agrees(x, Reading(s))
  BY <1>1, <1>2 DEF Slot
<1>7. Agrees(x \o piece, r) /\ Len(r.buf) <= Len(client_bufs[s]) + n
  BY <1>3, <1>5, <1>6, ReceivedAgrees
<1>8. /\ r.lines \in Seq(Seq(Bytes)) /\ r.buf \in Seq(Bytes) /\ r.authed \in BOOLEAN
      /\ r.link \in {"open", "unauthorized"}
      /\ r = [buf |-> r.buf, authed |-> r.authed, link |-> r.link, lines |-> r.lines]
  BY <1>7 DEF Agrees, Readings
<1> HIDE DEF x, piece, left, r
<1>9. /\ wire' \in [Admins -> Seq(Bytes)] /\ handled' \in [Admins -> Seq(Seq(Bytes))]
      /\ wire'[a] = left /\ handled'[a] = r.lines
      /\ \A b \in Admins \ {a} : wire'[b] = wire[b] /\ handled'[b] = handled[b]
  BY <1>1, <1>2, <1>5, <1>8
<1>10. ReadBytes(a)' = x \o piece /\ x \o piece \in Seq(Bytes) /\ written[a] = (x \o piece) \o left
  <2>1. x \o piece \in Seq(Bytes) /\ written[a] = (x \o piece) \o left
    <3>1. x \o piece \in Seq(Bytes) /\ (x \o piece) \o left = x \o (piece \o left)
      BY <1>3, <1>5, ConcatAssociative, ConcatProperties
    <3>2. QED
      BY <1>3, <1>5, <3>1, Zenon
  <2>2. ReadBytes(a)' = SubSeq(written[a], 1, Len(written[a]) - Len(left))
    BY <1>1, <1>9 DEF ReadBytes
  <2>3. QED
    BY <1>5, <2>1, <2>2, ReadOf
<1>11. link[a] = "open"
  BY <1>1, <1>2 DEF SInv, Used
<1>12. CASE r.link = "open"
  <2>1. /\ client_bufs' = [client_bufs EXCEPT ![s] = r.buf]
        /\ client_authed' = [client_authed EXCEPT ![s] = r.authed]
        /\ UNCHANGED <<client_fds, client_count, link>>
    BY <1>1, <1>12
  <2>2. /\ client_bufs' \in [Slots -> Seq(Bytes)] /\ client_authed' \in [Slots -> BOOLEAN]
        /\ client_bufs'[s] = r.buf /\ client_authed'[s] = r.authed
        /\ \A t \in Slots \ {s} :
             client_bufs'[t] = client_bufs[t] /\ client_authed'[t] = client_authed[t]
    BY <1>2, <1>8, <2>1
  <2>3. TypeOK'
    <3>1. ASSUME NEW t \in Slots PROVE Len(client_bufs'[t]) < MGMT_BUF_SIZE
      <4>1. CASE t = s
        <5>1. Len(r.buf) \in Nat /\ Len(client_bufs[s]) \in Nat
          BY <1>2, <1>8
        <5>2. n <= MGMT_BUF_SIZE - 1 - Len(client_bufs[s])
          BY <1>4 DEF Space
        <5>3. QED
          BY <1>4, <1>7, <2>2, <4>1, <5>1, <5>2, BufferAssumption
      <4>2. CASE t # s
        BY <1>2, <2>2, <4>2 DEF TypeOK
      <4>3. QED
        BY <4>1, <4>2
    <3>2. QED
      BY <1>1, <1>2, <1>9, <2>1, <2>2, <3>1 DEF TypeOK
  <2>4. Conn(a)'
    <3>1. /\ IsPrefix(r.lines, LinesOf(x \o piece)) /\ r.lines = LinesOf(x \o piece)
          /\ 1 \in DOMAIN r.lines => KeyGiven(r.lines[1])
          /\ 2 \in DOMAIN r.lines => KeyGiven(r.lines[1])
      BY <1>7, <1>8, <1>12 DEF Agrees
    <3>2. link'[a] = "open" /\ written'[a] = written[a]
      BY <1>1, <1>11, <2>1
    <3>3. QED
      BY <1>9, <1>10, <3>1, <3>2 DEF Conn
  <2>5. Slot(s)'
    <3>1. Reading(s)' = r
      BY <1>8, <1>9, <1>12, <2>1, <2>2 DEF Reading
    <3>2. ReadBytes(client_fds[s])' = x \o piece
      BY <1>10, <2>1
    <3>3. QED
      BY <1>7, <3>1, <3>2 DEF Slot
  <2>6. QED
    BY <1>1, <1>9, <2>1, <2>2, <2>3, <2>4, <2>5, EventReads
<1>13. CASE r.link # "open"
  <2>1. CloseClient(s, "unauthorized") /\ "unauthorized" \in Reasons
    BY <1>1, <1>8, <1>13 DEF Reasons
  <2>2. link'[a] = "unauthorized"
    BY <1>2, <2>1 DEF CloseClient
  <2>3. Conn(a)'
    <3>1. /\ IsPrefix(r.lines, LinesOf(x \o piece))
          /\ 2 \in DOMAIN r.lines => KeyGiven(r.lines[1])
      BY <1>7 DEF Agrees
    <3>2. written'[a] = written[a]
      BY <1>1
    <3>3. QED
      BY <1>9, <1>10, <2>2, <3>1, <3>2 DEF Conn
  <2>4. QED
    BY <1>1, <1>9, <2>1, <2>3, CloseReads
<1>14. QED
  BY <1>12, <1>13

LEMMA NextReads ==
  ASSUME CInv, [Next]_vars
  PROVE  CInv'
<1>1. SInv'
  BY NextPreserves DEF CInv
<1>2. ASSUME NEW a \in Admins, NEW script \in Scripts[a], Connect(a, script)
      PROVE  CInv'
  BY <1>1, <1>2, ConnectReads
<1>3. ASSUME NEW a \in Admins, NEW n \in 1 .. Len(unsent[a]), Write(a, n)
      PROVE  CInv'
  BY <1>1, <1>3, WriteReads
<1>4. ASSUME NEW a \in Admins, HangUp(a)
      PROVE  CInv'
  BY <1>1, <1>4, HangUpReads
<1>5. ASSUME NEW a \in Admins, Accept(a)
      PROVE  CInv'
  BY <1>1, <1>5, AcceptReads
<1>6. ASSUME NEW a \in Admins, AcceptTooMany(a)
      PROVE  CInv'
  BY <1>1, <1>6, TooManyReads
<1>7. ASSUME NEW a \in Admins, NEW s \in Slots, client_fds[s] = a,
             NoSpace(s) \/ EndOfFile(s) \/ Data(s)
      PROVE  CInv'
  BY <1>1, <1>7, NoSpaceReads, EndOfFileReads, DataReads
<1>8. CASE UNCHANGED vars
  BY <1>1, <1>8 DEF vars, clientVars, CInv, TypeOK, Conn, Slot, ReadBytes, Reading
<1>9. QED
  BY <1>2, <1>3, <1>4, <1>5, <1>6, <1>7, <1>8 DEF Next, MgmtHandleEvent

-----------------------------------------------------------------------------
(* The theorems.                                                            *)

LEMMA ReadsInvariant == Spec => []CInv
BY InitReads, NextReads, PTL DEF Spec

\* The state keeps its shape, and a buffer always has room for its final '\0':
\* recv is never given more than the space left (mgmt_handle_event).
THEOREM TypeCorrect == Spec => []TypeOK
BY ReadsInvariant, ReadingInvariantImplies, PTL

\* process_line sees exactly the lines of the stream, however TCP cuts it and
\* whatever the slot held before; all of them, if the connection ends by itself.
THEOREM LinesCorrect == Spec => []LinesExact
BY ReadsInvariant, ReadingInvariantImplies, PTL

\* Only the first line of a connection can authenticate it, and without it no
\* command is handled (process_line).
THEOREM AuthenticationCorrect == Spec => []FirstLineAuthenticates
BY ReadsInvariant, ReadingInvariantImplies, PTL

\* "request too large" is the answer to a line that does not fit the buffer, or to
\* what follows a '\0' (mgmt_handle_event).
THEOREM TooLargeCorrect == Spec => []TooLargeForCause
BY ReadsInvariant, ReadingInvariantImplies, PTL

=============================================================================
