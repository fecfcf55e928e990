------------------------------ MODULE Q3Proto ------------------------------
(***************************************************************************)
(* src/src/q3proto.c: recognising connectionless packets and rewriting two *)
(* kinds of them.  A packet is the first len bytes of a buffer; what the   *)
(* buffer holds behind them is left over from earlier packets.             *)
(*                                                                         *)
(* A byte is one that the scanning loops look for, or stands for a word of *)
(* a command or a key, or for the four bytes of the marker.                *)
(***************************************************************************)
EXTENDS Integers, Sequences, FiniteSetsExt

CONSTANTS
  Byte,
  Q3_MAX_PACKET_SIZE

Marker == "0xFFFFFFFF"   \* Q3_CONNECTIONLESS_MARKER
Space == "SP"
Newline == "LF"
Nul == "NUL"
Backslash == "BS"
Quote == "QT"

Queries == {"getinfo", "getstatus"}
Responses == {"infoResponse", "statusResponse"}
Words == Queries \cup Responses \cup {"connect", "sv_hostname", "hostname", "realip"}

ASSUME ByteAssumption ==
  {Marker, Space, Newline, Nul, Backslash, Quote} \cup Words \subseteq Byte
ASSUME PacketSizeAssumption == Q3_MAX_PACKET_SIZE \in Nat

-----------------------------------------------------------------------------
(* Scanning.                                                                *)

\* Where a scan of the packet that starts at i ends: at the first byte of Stop,
\* or behind the packet.  The first form does not look at the length.
ScanBuffer(data, len, i, Stop) ==
  Min({k \in i .. Len(data) + 1 : k = Len(data) + 1 \/ data[k] \in Stop})
Scan(data, len, i, Stop) ==
  Min({k \in i .. len + 1 : k = len + 1 \/ data[k] \in Stop})

q3_is_connectionless(data, len) == len >= 2 /\ data[1] = Marker

\* The command word, which is empty when there is none.
CommandEnds == {Space, Newline, Backslash, Nul}
q3_connectionless_cmd(data, len) ==
  LET start == Scan(data, len, 2, Byte \ {Space, Newline})
  IN  IF q3_is_connectionless(data, len)
      THEN SubSeq(data, start, Scan(data, len, start, CommandEnds) - 1)
      ELSE <<>>

IsCommand(data, len, words) == \E w \in words : q3_connectionless_cmd(data, len) = <<w>>
q3_is_query(data, len) == IsCommand(data, len, Queries)
q3_is_connect(data, len) == IsCommand(data, len, {"connect"})

-----------------------------------------------------------------------------
(* Rewriting.  Both functions put bytes into the packet and leave all the   *)
(* others in their order; what they return is the new packet, or nothing.   *)

\* The packet with the bytes new put before its position i.
Insertion(data, len, i, new) ==
  [j \in 1 .. len + Len(new) |->
     IF j < i THEN data[j]
     ELSE IF j < i + Len(new) THEN new[j - i + 1]
     ELSE data[j - Len(new)]]

NotRewritten == <<>>

\* Where \key\ begins, for each key of the set that the packet has.
KeyPositions(data, len, key) ==
  {i \in 1 .. len - 2 : data[i] = Backslash /\ data[i + 1] = key /\ data[i + 2] = Backslash}

\* The key that is searched for: the longer one, and the other only without it.
\* The first form tries the shorter one first.
ShortKeyFirst(data, len) ==
  IF KeyPositions(data, len, "hostname") # {} THEN "hostname" ELSE "sv_hostname"
HostnameKey(data, len) ==
  IF KeyPositions(data, len, "sv_hostname") # {} THEN "sv_hostname" ELSE "hostname"

\* "<prefix> <old value>": the prefix and a blank go in where the value begins.
q3_rewrite_hostname(data, len, out_cap, prefix) ==
  LET found == KeyPositions(data, len, HostnameKey(data, len))
      new == Append(prefix, Space)
  IN  IF /\ prefix # <<>>
         /\ IsCommand(data, len, Responses)
         /\ found # {}
         /\ len + Len(new) <= out_cap
      THEN Insertion(data, len, Min(found) + 3, new)
      ELSE NotRewritten

\* Where the userinfo of a connect packet begins: behind everything up to the
\* first blank or newline, and the blanks there.
InfoStart(data, len) ==
  Scan(data, len, Scan(data, len, 2, {Space, Newline}), Byte \ {Space})

\* Where it ends: before the closing quote when it is quoted, else before the
\* newlines and NULs at the end of the packet.  The first form does not step
\* back over them.
InfoEndOfPacket(data, len, start) ==
  IF data[start] = Quote THEN Scan(data, len, start + 1, {Quote}) ELSE len + 1
InfoEnd(data, len, start) ==
  IF data[start] = Quote THEN Scan(data, len, start + 1, {Quote})
  ELSE Min({k \in start .. len + 1 : \A j \in k .. len : data[j] \in {Newline, Nul}})

\* \realip\<ip:port>, for the address of a client.
RealipPair(address) == <<Backslash, "realip", Backslash, address>>

\* The size tests of q3_inject_realip; the first form trusts the buffer.
FitsAlways(new_len, out_cap) == TRUE
Fits(new_len, out_cap) == new_len <= out_cap /\ new_len <= Q3_MAX_PACKET_SIZE

q3_inject_realip(data, len, out_cap, address) ==
  LET start == InfoStart(data, len)
      new == RealipPair(address)
  IN  IF /\ q3_is_connect(data, len)
         /\ start <= len
         /\ Fits(len + Len(new), out_cap)
      THEN Insertion(data, len, InfoEnd(data, len, start), new)
      ELSE NotRewritten

=============================================================================
