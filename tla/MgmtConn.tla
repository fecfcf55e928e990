------------------------------ MODULE MgmtConn ------------------------------
(***************************************************************************)
(* The connections of the management API: mgmt_handle_event, process_line, *)
(* find_client_slot and close_client of src/src/mgmt.c, as it runs.  TCP   *)
(* delivers what an administrator writes in pieces of any length; the API  *)
(* collects the pieces of a slot in a buffer and handles each line as it   *)
(* is completed, the first of a connection as its authentication.  What a  *)
(* command does is the subject of Relay and ConfigStore.                   *)
(*                                                                         *)
(* A byte is one of those that matter to the buffer, or stands for a whole *)
(* piece of JSON: a key, a wrong key, or anything else.  The descriptor of *)
(* a connection is the administrator at its other end.                     *)
(***************************************************************************)
EXTENDS Integers, Sequences, FiniteSets, FiniteSetsExt, SequencesExt, Ranks

CONSTANTS
  Slots,          \* 0 .. MGMT_MAX_CLIENTS - 1
  Admins,         \* connections that administrators make
  NoAdmin,        \* -1: the slot is free
  MGMT_BUF_SIZE,
  Scripts         \* what each administrator may write on a connection

Bytes == {"key", "wrong", "other", "CR", "LF", "NUL"}

ASSUME SlotsAssumption == Slots \subseteq Nat /\ IsFiniteSet(Slots)
ASSUME AdminsAssumption == NoAdmin \notin Admins
ASSUME BufferAssumption == MGMT_BUF_SIZE \in Nat \ {0, 1}
ASSUME ScriptsAssumption == \A a \in Admins : \A script \in Scripts[a] : script \in Seq(Bytes)

VARIABLES
  client_fds,     \* mgmt_state_t.client_fds
  client_authed,  \* mgmt_state_t.client_authed
  client_bufs,    \* the first client_buf_len bytes of mgmt_state_t.client_bufs
  client_count,   \* mgmt_state_t.client_count
  link,           \* "none", "backlog", "open", or why the API closed it
  unsent,         \* what the administrator has still to write
  written,        \* history: what the administrator wrote
  wire,           \* written, and not yet read by the API
  ended,          \* the administrator is gone
  handled         \* history: the lines process_line has seen, by connection

clientVars == <<client_fds, client_authed, client_bufs, client_count>>
vars == <<clientVars, link, unsent, written, wire, ended, handled>>

-----------------------------------------------------------------------------
(* The line buffer.                                                         *)

\* Reading a slot: its buffer, and what its lines have done so far.
Reading(s) ==
  [buf |-> client_bufs[s], authed |-> client_authed[s], link |-> "open",
   lines |-> handled[client_fds[s]]]

\* The '\0' that takes the place of "\n", and of the "\r" before it.
Text(line) ==
  IF line # <<>> /\ Last(line) = "CR" THEN Front(line) ELSE line

\* json_find_string of "auth", and the comparison with the key of the API.
Credentials(line) == SelectSeq(line, LAMBDA b : b \in {"key", "wrong"})
KeyGiven(line) == Credentials(line) # <<>> /\ Head(Credentials(line)) = "key"

\* process_line, and one that leaves a refused connection open.
RefusedOnly(r, line) ==
  [r EXCEPT !.buf = <<>>, !.lines = Append(@, line), !.authed = @ \/ KeyGiven(line)]
ProcessLine(r, line) ==
  [r EXCEPT !.buf = <<>>, !.lines = Append(@, line),
            !.authed = @ \/ KeyGiven(line),
            !.link = IF r.authed \/ KeyGiven(line) THEN "open" ELSE "unauthorized"]

\* One more byte of the buffer.  strchr stops at a '\0': no line ends after it.
\* A closed connection takes nothing more.
AddByte(r, b) ==
  IF r.link # "open" THEN r
  ELSE IF b = "LF" /\ "NUL" \notin Range(r.buf) THEN ProcessLine(r, Text(r.buf))
  ELSE [r EXCEPT !.buf = Append(@, b)]

\* The bytes of a piece, one after the other.
AddBytes(r, bytes) ==
  LET after[n \in 0 .. Len(bytes)] ==
        IF n = 0 THEN r ELSE AddByte(after[n - 1], bytes[n])
  IN  after[Len(bytes)]

\* recv, and the loop over the lines.  The first form handles one line only, the
\* second leaves the lines it has handled in the buffer.
Received1(s, bytes) ==
  LET n == CHOOSE n \in 1 .. Len(bytes) :
             /\ \A i \in 1 .. n - 1 : bytes[i] # "LF"
             /\ n = Len(bytes) \/ bytes[n] = "LF"
      r == AddBytes(Reading(s), SubSeq(bytes, 1, n))
  IN  [r EXCEPT !.buf = @ \o SubSeq(bytes, n + 1, Len(bytes))]
ReceivedUncompacted(s, bytes) ==
  [AddBytes(Reading(s), bytes) EXCEPT !.buf = client_bufs[s] \o bytes]
Received(s, bytes) == AddBytes(Reading(s), bytes)

\* The first form forgets the final '\0'.
SpaceWholeBuffer(s) == MGMT_BUF_SIZE - Len(client_bufs[s])
Space(s) == MGMT_BUF_SIZE - 1 - Len(client_bufs[s])

-----------------------------------------------------------------------------
Init ==
  /\ client_fds = [s \in Slots |-> NoAdmin]
  /\ client_authed = [s \in Slots |-> FALSE]
  /\ client_bufs = [s \in Slots |-> <<>>]
  /\ client_count = 0
  /\ link = [a \in Admins |-> "none"]
  /\ unsent = [a \in Admins |-> <<>>] /\ written = unsent /\ wire = unsent
  /\ ended = [a \in Admins |-> FALSE]
  /\ handled = [a \in Admins |-> <<>>]

(* Administrators.                                                          *)

Connect(a, script) ==
  /\ link[a] = "none"
  /\ link' = [link EXCEPT ![a] = "backlog"]
  /\ unsent' = [unsent EXCEPT ![a] = script]
  /\ UNCHANGED <<clientVars, written, wire, ended, handled>>

\* The next n bytes arrive, alone or with others that are still unread.
Write(a, n) ==
  /\ link[a] \in {"backlog", "open"} /\ ~ended[a]
  /\ unsent' = [unsent EXCEPT ![a] = SubSeq(@, n + 1, Len(@))]
  /\ written' = [written EXCEPT ![a] = @ \o SubSeq(unsent[a], 1, n)]
  /\ wire' = [wire EXCEPT ![a] = @ \o SubSeq(unsent[a], 1, n)]
  /\ UNCHANGED <<clientVars, link, ended, handled>>

\* An orderly end leaves what was written to be read; a reset takes it away.
HangUp(a) ==
  /\ link[a] \in {"backlog", "open"} /\ ~ended[a]
  /\ ended' = [ended EXCEPT ![a] = TRUE]
  /\ \/ UNCHANGED <<written, wire>>
     \/ /\ wire[a] # <<>>
        /\ wire' = [wire EXCEPT ![a] = <<>>]
        /\ written' = [written EXCEPT ![a] = SubSeq(@, 1, Len(@) - Len(wire[a]))]
  /\ UNCHANGED <<clientVars, link, unsent, handled>>

-----------------------------------------------------------------------------
(* mgmt_handle_event                                                        *)

FreeSlots == {s \in Slots : client_fds[s] = NoAdmin}

Accept(a) ==
  /\ link[a] = "backlog"
  /\ client_count < Cardinality(Slots) /\ FreeSlots # {}
  /\ client_fds' = [client_fds EXCEPT ![Min(FreeSlots)] = a]
  /\ client_authed' = [client_authed EXCEPT ![Min(FreeSlots)] = FALSE]
  /\ client_bufs' = [client_bufs EXCEPT ![Min(FreeSlots)] = <<>>]
  /\ client_count' = client_count + 1
  /\ link' = [link EXCEPT ![a] = "open"]
  /\ UNCHANGED <<unsent, written, wire, ended, handled>>

AcceptTooMany(a) ==
  /\ link[a] = "backlog"
  /\ client_count >= Cardinality(Slots) \/ FreeSlots = {}
  /\ link' = [link EXCEPT ![a] = "too many"]
  /\ UNCHANGED <<clientVars, unsent, written, wire, ended, handled>>

\* close_client; the first form forgets the count.
CloseClientUncounted(s, why) ==
  /\ client_fds' = [client_fds EXCEPT ![s] = NoAdmin]
  /\ client_authed' = [client_authed EXCEPT ![s] = FALSE]
  /\ client_bufs' = [client_bufs EXCEPT ![s] = <<>>]
  /\ link' = [link EXCEPT ![client_fds[s]] = why]
  /\ UNCHANGED client_count
CloseClient(s, why) ==
  /\ client_fds' = [client_fds EXCEPT ![s] = NoAdmin]
  /\ client_authed' = [client_authed EXCEPT ![s] = FALSE]
  /\ client_bufs' = [client_bufs EXCEPT ![s] = <<>>]
  /\ client_count' = client_count - 1
  /\ link' = [link EXCEPT ![client_fds[s]] = why]

\* The slot that find_client_slot finds for a descriptor that is ready.
Event(s) ==
  /\ client_fds[s] # NoAdmin
  /\ UNCHANGED <<unsent, written, ended>>

NoSpace(s) ==
  /\ Event(s) /\ Space(s) <= 0
  /\ wire[client_fds[s]] # <<>> \/ ended[client_fds[s]]
  /\ CloseClient(s, "too large")
  /\ UNCHANGED <<wire, handled>>

EndOfFile(s) ==
  /\ Event(s) /\ Space(s) > 0
  /\ wire[client_fds[s]] = <<>> /\ ended[client_fds[s]]
  /\ CloseClient(s, "end of file")
  /\ UNCHANGED <<wire, handled>>

Data(s) ==
  LET a == client_fds[s]
      n == Min({Space(s), Len(wire[a])})
      r == Received(s, SubSeq(wire[a], 1, n))
  IN  /\ Event(s) /\ Space(s) > 0 /\ wire[a] # <<>>
      /\ wire' = [wire EXCEPT ![a] = SubSeq(@, n + 1, Len(@))]
      /\ handled' = [handled EXCEPT ![a] = r.lines]
      /\ IF r.link = "open"
         THEN /\ client_bufs' = [client_bufs EXCEPT ![s] = r.buf]
              /\ client_authed' = [client_authed EXCEPT ![s] = r.authed]
              /\ UNCHANGED <<client_fds, client_count, link>>
         ELSE CloseClient(s, r.link)

MgmtHandleEvent(a) ==
  \/ Accept(a) \/ AcceptTooMany(a)
  \/ \E s \in Slots : client_fds[s] = a /\ (NoSpace(s) \/ EndOfFile(s) \/ Data(s))

-----------------------------------------------------------------------------
Next ==
  \E a \in Admins :
    \/ \E script \in Scripts[a] : Connect(a, script)
    \/ \E n \in 1 .. Len(unsent[a]) : Write(a, n)
    \/ HangUp(a)
    \/ MgmtHandleEvent(a)

Spec == Init /\ [][Next]_vars

-----------------------------------------------------------------------------
(* Correctness.                                                             *)

Reasons == {"too many", "too large", "unauthorized", "end of file"}

\* The shape of the connections; a buffer always has room for its final '\0'.
TypeOK ==
  /\ client_fds \in [Slots -> Admins \cup {NoAdmin}]
  /\ client_authed \in [Slots -> BOOLEAN]
  /\ client_bufs \in [Slots -> Seq(Bytes)]
  /\ \A s \in Slots : Len(client_bufs[s]) < MGMT_BUF_SIZE
  /\ client_count \in 0 .. Cardinality(Slots)
  /\ link \in [Admins -> {"none", "backlog", "open"} \cup Reasons]
  /\ ended \in [Admins -> BOOLEAN]
  /\ {unsent, written, wire} \subseteq [Admins -> Seq(Bytes)]
  /\ handled \in [Admins -> Seq(Seq(Bytes))]

\* What the API has read of a connection.
ReadBytes(a) == SubSeq(written[a], 1, Len(written[a]) - Len(wire[a]))

\* The lines of a stream of bytes, whatever pieces it came in: its stretches
\* between one "\n" and the next, up to the first '\0'.
LineEnds(bytes) ==
  {i \in DOMAIN bytes : bytes[i] = "LF" /\ \A j \in 1 .. i : bytes[j] # "NUL"}
LineBefore(bytes, end) ==
  LET start == Max({0} \cup {e \in LineEnds(bytes) : e < end})
  IN  Text(SubSeq(bytes, start + 1, end - 1))
LinesOf(bytes) ==
  LET ends == LineEnds(bytes)
  IN  [i \in 1 .. Cardinality(ends) |-> LineBefore(bytes, Nth(ends, i))]

\* client_count is the number of connections, and each open connection has
\* exactly one slot: nobody is turned away while there is a slot, and no slot is
\* lost, through any order of arrivals, refusals and ends.
SlotsExact ==
  /\ client_count = Cardinality({s \in Slots : client_fds[s] # NoAdmin})
  /\ \A a \in Admins :
       Cardinality({s \in Slots : client_fds[s] = a}) = IF link[a] = "open" THEN 1 ELSE 0

\* The lines that process_line sees do not depend on how TCP cuts the stream, on
\* what the slot held before, or on the buffer being full to the last byte; and
\* a connection that ends has had all its complete lines handled.
LinesExact ==
  \A a \in Admins :
    /\ IsPrefix(handled[a], LinesOf(ReadBytes(a)))
    /\ link[a] = "open" => handled[a] = LinesOf(ReadBytes(a))
    /\ link[a] = "end of file" => handled[a] = LinesOf(written[a])

\* No command of a connection is handled unless its first line gave the key,
\* also when the key comes later in the same piece (mgmt.c: "First message must
\* be authentication").
FirstLineAuthenticates ==
  \A a \in Admins, i \in 1 .. 2 :
    i \in DOMAIN handled[a] /\ (i = 2 \/ link[a] = "open") => KeyGiven(handled[a][1])

\* "request too large" is said only of a line that does not fit the buffer, with
\* its "\n" and a final '\0', or after a '\0'; never of many short lines.
Overlong(bytes) ==
  \E first \in DOMAIN bytes :
    LET last == first + MGMT_BUF_SIZE - 2
    IN  /\ last \in DOMAIN bytes
        /\ \A i \in first .. last :
             bytes[i] = "LF" => \E j \in 1 .. i : bytes[j] = "NUL"
TooLargeForCause ==
  \A a \in Admins : link[a] = "too large" => Overlong(written[a])

=============================================================================
