# A TLA+ model of slack-proxy

slack-proxy is a UDP relay for Urban Terror (Quake III) servers. It gives every
game client a connected UDP socket of its own towards the game server, keeps a
table of these sessions, limits their number and rate, announces its servers to
master servers, and can be reconfigured at run time over a TCP management API.
It is one single-threaded C program around `epoll_wait`; a Rust GUI talks to
its management API.

This directory holds TLA+ modules that model the C program and the GUI, TLC
configurations that check them on small instances, and proofs for TLAPS. Paths
below are relative to `src/`.

    tlc -config MCRelayLoop.cfg MCRelay.tla
    tlapm RelayProofs.tla

`PROJECT.json` lists the runs, maps each definition to the lines it models, and
lists the places of the code that are hard to test.

## 1. Inventory

| Component | Source | State | Operations | Module |
|---|---|---|---|---|
| Session map | `src/hashmap.c` | session array, two open-addressing tables (by client address, by descriptor), `count` | init, insert, find by address, find by descriptor, remove with rebuild, destroy | `SessionMap`, `SessionIndex` |
| Relay loop | `src/relay.c` | per server: `active`, configuration, listen socket, session map, `query_count`, rate limiter, sweep and heartbeat times; the batch of events; `now`; `g_running` | event loop, client packet, server packet, admission, promotion, sweep, heartbeat, add and remove server, shutdown | `Relay` |
| Management commands | `src/mgmt.c` | none of their own: they change the relay's state and save it | status, sessions, set, set_master, kick, kick_all, add_server, remove_server | `Relay` (effect), `ConfigStore` (saving) |
| Management connections | `src/mgmt.c` | four slots: descriptor, authentication, 4096-byte line buffer; `client_count` | accept, read, split into lines, authenticate, close | `MgmtConn` |
| Configuration file | `src/config.c` | `<path>`, `<path>.tmp` | load, save (write, rename) | `ConfigStore`, `StoredConfig` |
| Startup and key file | `src/main.c`, `src/config.c` | `mgmt_config_t`, the key file | command line, `ensure_api_key`, `[global]`, the three modes | `Startup` |
| Packet inspection and rewriting | `src/q3proto.c`, `src/relay.c` | the receive buffer, which keeps bytes of earlier packets; `hostname_tag` | recognise commands, add the client's address to `connect`, tag hostnames, forward | `Q3Proto`, `PacketPath` |
| Management GUI | `gui/urt-mgmt/src` | proxy entries, what the GUI knows of each proxy, two channels, the worker's connections | connect, disconnect, add, edit and delete entries, poll, refresh, commands | `MgmtGui` |
| Patches for the game server | `patches/` | none of the proxy's | | how it reads `realip`: `PacketPath` |
| Logging, GUI widgets | `src/log.c`, `gui/.../ui` | none of interest | | not modelled |

How they interact. The loop owns everything: it calls the session map for every
packet, the packet functions for what a packet says, and the management module
for every event of a management descriptor. The commands reach back into the
loop's data (sessions, limits, the server array) **between two events of one
batch**, and into the configuration file. The C program has no threads. The GUI
has two, which share nothing but two unbounded channels; its worker talks to any
number of proxies, one command at a time. What makes the programs hard is what
happens around them:

* **Order inside a batch.** `epoll_wait` returns up to 64 events. A command
  handled early in the batch closes descriptors for which events come later in
  the same batch, and the kernel gives the number to the next `socket()` or
  `accept()`. Each event carries the index of a server slot and a descriptor;
  either may mean something else by the time the event is handled.
* **Counters kept by hand.** `query_count` is changed at six places
  (insertion, promotion, sweep, kick, kick_all, the wiping of a slot);
  `max_clients` is tested as `count - query_count`.
* **Two times.** `now` is read after `epoll_wait`, the rate limiter and the
  sweep call `time()` again.
* **Limits that change, tables that do not.** `set` changes limits at once, the
  session map keeps the size it was made with.
* **Linear probing.** Removal must not cut the probe chains of other sessions.
* **A byte stream.** A management command may arrive in any number of pieces,
  several commands in one piece.
* **One buffer for all packets**, not terminated and not cleared, scanned for
  words and rewritten near its end.
* **Answers without a name.** An answer of the API does not say which command it
  answers; one that is late, cut short or never sent must not shift all others.
* **Lists that are stale.** The GUI names servers by their slots, by a status
  that another administrator may have overtaken.
* **Failures and crashes** between the steps of saving the configuration or the
  key file, and the start that finds what they left.
* **What must eventually happen:** idle sessions go, heartbeats are sent,
  complete lines are answered.

What makes each component correct:

* session map: lookups by either key answer exactly; `count` is exact;
* relay loop: servers hold exactly the sockets open for them; packets go to the
  client and server they belong to; counters and pools are exact; limits hold;
  sessions expire; a shutdown leaves nothing open;
* management connections: slots are exact; lines are those that were written;
  nothing is done without the key;
* configuration file: what runs is what is saved, whole or not at all, and the
  proxy starts again from it;
* startup: whenever the proxy runs its API is complete; the key lasts where
  the operator names none; flags count;
* packets: nothing is lost, changed or left over, and what is put in is where
  its reader looks for it;
* GUI: an answer is taken for the command it answers, what is said to be
  connected is, the tab shown exists, and what is shown becomes what is.

## 2. Modules

    SessionIndex  <-- refines --  SessionMap  <-- SessionMapProofs
         (the promise Relay relies on)
    Relay  <-- RelayProofs
    Q3Proto  <-- PacketPath  <-- PacketPathProofs
    StoredConfig  <-- refines --  ConfigStore  <-- ConfigStoreProofs
    MgmtConn  <-- MgmtConnProofs
    Startup  <-- StartupProofs
    MgmtGui  <-- MgmtGuiProofs
    Ranks: the i-th of a set of numbers, which ConfigStore, MgmtGui and the
    properties of MgmtConn use;  OrderFacts: lemmas about it, and about Min and
    Max, that the proofs share
    MC*: the constants of the instances TLC checks

An arrow reads "is extended by" but where it says otherwise.

### SessionMap and SessionIndex (`src/hashmap.c`)

`SessionIndex` is the promise: a bounded directory with two exact questions.
`SessionMap` is the code: `sessions`, `count`, `addr_table` and `fd_table` are
the fields of `session_map_t`; `FindByAddr`, `FindByFd`, `TableInsert` are the
loops of `session_find_by_addr`, `session_find_by_fd` and `table_insert`, each
said as the minimum of the probes at which the loop ends. `Insert` is
`session_insert` as `relay.c` calls it: after a failed lookup, with a descriptor
that `socket()` has just returned. `Remove` is `session_remove` up to
`rebuild_tables`; each iteration of that loop is a step, `RebuildStep`, with
`rebuild` as its loop variable, so that the invariant of the loop is a state
predicate and can be proved. No other operation runs meanwhile (`Idle`).

The hash functions are constants, any functions from keys to positions; the
Murmur mixing only chooses one. The table is only assumed to be longer than the
number of slots (the code makes it more than four times as long).

### Relay (`src/relay.c`, and the commands of `src/mgmt.c`)

| TLA+ | Code |
|---|---|
| `active`, `cfg`, `listen_fd`, `sessions`, `query_count`, `rate_limiter`, `last_sweep`, `last_heartbeat` | fields of `server_instance_t`, by slot |
| `capacity` | `session_map_t.capacity` |
| `pc`, `events`, `now`, `g_running` | where `relay_run` is, what is left of `events[]`, `now`, the flag |
| `owner`, `inbox` | the kernel: what each descriptor number is, what waits to be read |
| `clock` | what `time(NULL)` would say |
| `EpollWait` | `epoll_wait`: the batch has an event for each ready descriptor, or for any `MaxEvents` of them when there are more; a timeout is an empty batch |
| `KnownClient`, `NewClientRefused`, `ConnectFailed`, `NewClientAccepted` | `handle_client_packet` |
| `ReplyRelayed`, `ReplyUnclaimed`, `NothingReceived` | `handle_server_packet` |
| `SkipRemoved` | the test of `active` before an event is dispatched |
| `Housekeeping` | `do_timeout_sweep` and `send_heartbeats` for each server |
| `MgmtAccept`, `MgmtNotAccepted`, `MgmtHangup` | `mgmt_handle_event` |
| `Handle...` | the command handlers, everything they do to the loop |
| `Shutdown` | everything after the loop |
| `ClientSends`, `ServerReplies`, `Admin...`, `Signal`, `Tick` | the outside world |

An event is a pair of slot and descriptor number, as `pack_epoll_data` packs
it; events are handled in any order, each exactly once. New descriptors get the
lowest free number, which is what POSIX says and what makes reuse happen.
Descriptor 0 is the first listen socket: the process's own descriptors below are
not counted. A server's session map appears by its promise, a function from
clients to sessions. A payload is a query, a game packet or something too long.

An item is waiting on a descriptor or it is not: equal datagrams of a client
that wait together count once. `sent` and `admitted` are history variables, for
`PacketsGoHome` and `AdmissionRateBounded`.

### Q3Proto and PacketPath (`src/q3proto.c`, `src/relay.c`)

`Q3Proto` has one operator for each function of `q3proto.c`, on a buffer and a
length. A byte is one of those the scanning loops look for (blank, newline, NUL,
backslash, quote) or stands for a word, or for the four bytes of the marker; so
a packet is short, and lengths count these. All loops of the file are `Scan`,
the first position at which one of a set of bytes stands or the packet ends;
what both rewriting functions do is `Insertion`. `PacketPath` is what `relay.c`
makes of them: every datagram is received into the same `recv_buf`, over what
earlier ones left in it (`Filled`), the size tests of the two directions differ,
and an administrator may set the tag between two packets. Which session a packet
belongs to is the business of `Relay`.

### MgmtConn (`src/mgmt.c`)

`client_fds`, `client_authed`, `client_bufs`, `client_count` are those of
`mgmt_state_t`. An administrator writes one of a few scripts in pieces of any
length (`Write`), may end or reset the connection at any time (`HangUp`), and
the API reads as much as fits (`Data`), splits lines and handles them
(`ProcessLine`), or closes (`NoSpace`, `EndOfFile`). A byte is a line end, a
carriage return, a NUL (at which `strchr` stops), a key, a wrong key or
something else; `handled` is the history of what `process_line` saw.

### ConfigStore and StoredConfig (`src/config.c`, `src/mgmt.c`, `src/main.c`)

`StoredConfig` is the promise: what is stored changes as a whole, by storing
only, and is what the next start comes up with. `ConfigStore` is the code: the
commands up to `persist_config`; `config_save` as opening, writing and renaming,
each of which may fail, with a crash possible between any two; `config_load` as
what it accepts (`Loads`) and what it makes of a file (`Loaded`). A file is its
server sections and whether its `[global]` section has `mgmt-key`. A save copies
that section from the old file, and writes one without `mgmt-key` when the old
file cannot be opened (`SaveWritten`). The sections
are not the configurations themselves: a missing tag has no line, and `trim`
takes blanks off a tag that is read.

### Startup (`src/main.c`, `src/config.c`)

`mgmt_cfg` is the `mgmt_config_t` of `main`; the steps are the stations of
`main`: flags, `ensure_api_key` (use the flag's key, load the key file, or make
one in two steps), then one of the modes, which merges the `[global]` section
(`FromFile`, line by line as `config_load` applies it) and the defaults. The
process may end at any step, and the next start has any command line.

### MgmtGui (`gui/urt-mgmt/src`)

| TLA+ | Code |
|---|---|
| `proxy_entries`, `proxy_states` | fields of the app (`app.rs`), by id |
| `cmd_tx`, `resp_rx` | the two `mpsc` channels |
| `conns`, `sending` | the worker's map of connections, and the command whose answer it waits for (`worker.rs`) |
| `Poll...` | the arms of `poll_responses`; one response is one step |
| `AutoRefresh` | `auto_refresh` |
| `Click...`, `AddEntry`, `UpdateEntry`, `RemoveEntry`, `SelectTab`, `AskRemove`, `CancelRemove`, `ConfirmRemove` | what the widgets call |
| `Worker...` | the arms of `worker_loop`, `send_recv` in two steps, because the proxy works in between |
| `ProxyAnswers` | `dispatch_command` of the proxy, as the GUI sees it |
| `late`, `ProxyExecutesLate` | commands of a connection that was given up: they may or may not be executed yet |
| `OthersCommand` | another administrator |

A frame polls all there is before it draws (`app.rs:579`), so users click, and
the timer fires, only when `resp_rx` is empty (`Polled`). `set` stands for
`kick`, `kick_all` and `set_master` too: all of them change nothing that the GUI
shows here. A server is what tells it from others, its port.

## 3. Runs

All runs use the specifications as they are; a `.cfg` only gives values to the
constants. Deadlock checking is off where the modelled system stops: after a
shutdown (`relay_loop`), when the start refuses its file (`config_store`,
`config_last_server`), when every administrator is gone (`mgmt_conn`), when the
bounded supply of packets or of clicks is used up (`packets`, `gui`).

| Run | Instance | Shows |
|---|---|---|
| `session_map` | 3 slots, table of 5, 4 addresses and 4 descriptors whose hashes collide and wrap | lookups, count and probe chains are exact; `SessionMap` implements `SessionIndex` |
| `relay_loop` | 1 server with room for 1 player and 1 query, 1 new player per second; 2 clients, 2 administrators who clear, remove and add it again, 4 descriptors, 2 instants, a signal at any point | types, descriptors, counters, pools, the rate limit and routing through creation, promotion, expiry and reuse of descriptors and slots, also within one batch; a clean shutdown from any point |
| `relay_fair` | 1 server, fair; set, set_master, kick; long jumps of the clock | silent sessions expire though there is always something else to handle; a heartbeat that was asked for is sent, if there is a master and broadcast is on |
| `packets` | some 120 packets of 2 clients and 50 of the server, well-formed and odd, up to and beyond both sizes; 2 packets and any changes of the tag between them | nothing is lost, changed or left over from an earlier packet; the game server reads the client's address as `realip`, if the packet brought no `realip`; the browser finds the tag |
| `config_store` | 2 slots, 2 ports, failing saves, crashes, `mgmt-key` in the file or not | what runs is what is saved; the file always loads; refines `StoredConfig` |
| `mgmt_conn` | 2 slots, 3 administrators, buffer of 5, eight scripts in all pieces | slots and count are exact, lines are exact, authentication comes first, "too large" has a cause |
| `startup` | all flag combinations, two generated keys, a `[global]` of two lines, or of three with `mgmt-key` | the API is complete, flags count; the key of the key file lasts in all runs for which neither a flag nor the file names one |
| `gui` | 1 entry, 2 proxies with two slots each and two servers or none, 4 steps of users, other administrators and the network, fair | the tab is one of the list, answers match commands, `connected` is true of what the worker has, and what is shown becomes what the proxy runs |

### Why the bounds are enough

* *Pools of one.* Limits are compared with counts; a pool of one is empty, full
  and, by promotion, exceeded. Two clients are enough for one that is refused.
  For larger pools, and all numbers of clients, there are the theorems of
  `RelayProofs`.
* *One server.* The loop treats each event and each server by itself; what two
  servers share are descriptor numbers. That they never mix is proved for any
  number of them (`DescriptorsCorrect`, `PacketsCorrect`); `config_store` has two
  slots.
* *Descriptors.* Numbers run out (accept and socket fail), and a freed number is
  the next to be used; there is room for the listen socket, the API, a session
  and an administrator whose connection takes a number that a command has freed
  in the same batch.
* *Instants.* The clock only takes values at which something can be told apart:
  in `relay_loop` before and after every timeout, in `relay_fair` also one sweep
  interval later and one heartbeat interval. Nothing in between enables or
  disables anything.
* *InFlight.* Three items waiting anywhere: a batch with three events of
  different descriptors, or two of which one removes what the other is for; in
  `relay_fair` one, as only the passage of time matters there. `MaxEvents` is
  that of the code and never binds here; a smaller batch leaves the rest to the
  next one.
* *Hashes.* Two addresses with one hash at the last position, a third whose
  chain runs into theirs, and one at position 0, where the chains wrap to.
* *Buffer of five.* A line that fills it to the last byte and one that is longer
  by one, with the same tests as for 4096. One of three administrators writes
  any of the scripts; the other two take and leave slots, with a piece of a line
  left in the buffer, or without the key.
* *Packets of up to 17, a buffer of 20.* A userinfo of two pairs just fits with
  the third, and not with a blank or a line end more, so that every size test
  goes both ways. Among the userinfos is one that brings a `realip`, and one with
  a value that reads like that key. Two packets are enough for one to find what another left behind.
* *Four steps and one command waiting.* Enough for a command to fail, for its
  connection to be made again, and for another administrator to remove the
  server on the screen and add one. `MaxWaiting` cuts off the queue of refreshes,
  which the code lets grow; clicks are not cut off.

### Fairness

* `WF(Loop)`: `epoll_wait` has a timeout of one second, every socket it reads
  from is non-blocking and no handler waits for anybody, so the thread always
  goes on.
* `WF(Tick)`: time passes.
* In `MgmtGui`, `WF(Poll)` (frames are drawn every second even when nothing
  happens), `WF(Worker)` (it waits for an answer five seconds at most),
  `WF(AutoRefresh)` for each connected entry, and `WF(ProxyAnswers)`: the proxy's
  loop goes on, as above.

No fairness is asked of clients, game servers, users, administrators or signals. That
no complete line of an administrator stays in a buffer needs none: it is part of
`LinesExact`.

### Runs that end in a violation

Each states what a comment or the README says and the code does not do.

| Run | What was said | What the code does |
|---|---|---|
| `relay_tuning` | `max_clients` is tunable "with instant apply" (`README.md:323`, `340`) | The session map keeps the size of the start; raising the limit above it has no effect. |
| `relay_stale_event` | "It lets us route every epoll event to the correct server_instance_t" (`relay.c:367`) | After a kick and an accept in one batch, an event for the kicked session's number makes the relay read the new management connection, whose bytes are lost. `PacketsGoHome` still holds: what was read is dropped. |
| `config_last_server` | "Allow zero servers if management API is configured" (`config.c:452`) | Only `mgmt-key` in the file counts, though the key file has enabled the API: after the last server is removed the proxy refuses the file it has saved. |
| `startup_file_settings` | `mgmt-key`, `mgmt-port`, `mgmt-addr` in the file (`README.md:222`, `349`) | `ensure_api_key` always enables the settings of the command line before the file is read, and they replace the file's as a whole. |

Disagreements without a run:

* `--max-clients` is the maximum of concurrent game sessions (`README.md:158`,
  comment at `relay.c:651`), but promotion (`relay.c:655`) does not test it: a
  client that queries first and plays then gets in beyond it, up to the sum of
  both pools. `PoolsBounded` is what does hold.
* A blank before `connect`, or a newline after it, makes `q3_inject_realip` put
  the address outside of the quotes (`q3proto.h:132` says inside); a value that
  reads like a key is taken for one by `q3_rewrite_hostname`.
* The server "will see the real client IP for every proxied player"
  (`README-SERVER-PATCH.md:5`). The proxy appends its pair and leaves a `realip`
  that the packet brings, and the engine takes the first (`Info_ValueForKey` in
  `patches/ioq3-realip.patch:148`): behind two proxies in a row, for one, it sees
  what the first of them wrote. The same promise fails for packets of which the
  proxy's pair is not a pair any more: an odd number of backslashes, or blanks in a
  userinfo without quotes. `RealipReadable` is about all the others.
* "Preserve existing [global] section if the file already exists"
  (`config.c:553`): not when it exists but cannot be opened. The save then
  succeeds, without `mgmt-key` (`config.c:492`).
* `mgmt.c:295` writes `"is_query":0`, `protocol.rs:37` wants a bool: the GUI
  cannot parse a list of sessions that is not empty (seen in reading; these lists
  are not modelled).
* `set_master` triggers "immediate heartbeat on next sweep" (`mgmt.c:719`) only
  when `master-broadcast` is on.
* Each save adds a blank line to a `[global]` section written "preserving
  comments and formatting" (`config.c:484`).
* `README.md:174` and `223` give 27961 as the default management port, the code
  29990; the README's default listen port is 27960, the code's 27990.
* The comments behind values in the example of `README.md:222-228` would be read
  as part of the values: `config_load` knows only comments of a whole line.

## 4. Proofs

Theorems hold for every value of the constants that satisfies the assumptions:
any number of servers, clients, descriptors and commands, any hash functions,
any capacity.

**SessionMapProofs.** `IInv` is `TypeOK`, `CountExact`, `KeysUnique` and
`ProbeChains`. Exact lookups are not inductive: a lookup is right because the
chain from the hash to the entry has no hole, and because no second live session
has the key. `ProbeChains` says so of the sessions that have been entered
(`Entered`, those below `rebuild`), in the middle of a rebuild too, and that an
entry names an entered session and is the only one that does. Insertion keeps it
because filling an empty position only lengthens chains, and because there is an
empty position: entries are distinct sessions, and there are fewer sessions than
positions (a cardinality argument). From `IInv` follow `TypeCorrect`,
`CountCorrect`, `LookupByAddrCorrect`, `LookupByFdCorrect` and
`ProbeChainsCorrect`. What `Min` of a set of numbers is comes from `OrderFacts`.

**RelayProofs.** `IInv` is `TypeOK`, `DescriptorsExact`, `InboxesMatch` and
`BatchDone`. `DescriptorsExact` relates the servers' numbers to the kernel's
table in both directions, and says that events of management descriptors are
never stale; it needs `InboxesMatch` (nothing is readable from a closed number,
and only datagrams from a listen socket), and `BatchDone`, without which a batch
could outlive its loop. There is one lemma per action, and general ones for the
three ways in which descriptors change: not at all (`SameDescriptors`), some are
closed (`DescriptorsClosed`), one is opened (`DescriptorOpened`). From `IInv`
follow `TypeCorrect` (with it that `query_count` never runs below zero),
`DescriptorsCorrect` and `ShutdownClean`; `PacketsCorrect` takes the step that
sends into account.

On top of that invariant, and in the same module, `QueryCountExact` is inductive
(`CInv`): every step changes the set of query sessions of a server and the
counter by the same number, or, in a sweep, by the number of sessions that
expire; a slot is wiped as a whole. `PoolsBounded` also needs how large the map
of a server was made (`LInv`): a promotion takes a session from the one pool to
the other, so that no bound on players alone is kept, only the sum. It, and
`MapNotBinding` with it, holds as long as no command tunes a limit, and that is
the assumption, `NoLimitTuned`, of these two theorems and of `RateCorrect`; that
it is needed is what the run `relay_tuning` shows. The rate limit is a window
that opens at a second and is never wider: the invariant relates the window's
counter to the history of admissions of that second.

**PacketPathProofs.** `BuffersHold`: for every packet and every tag, what is
rewritten fits the buffer it is written to. `NothingElseForwarded`: what leaves
is the packet with at most one insertion. Both rest on one lemma about
`Insertion` and one about `Scan` (it ends inside the packet or right behind it).
`StaleBytesIrrelevant`: two buffers that agree on the first `len` bytes are
rewritten alike, so that bytes of earlier packets have no influence.

`RealipReadable` and `HostnameTagged` are about what is read from what was sent,
for a packet of any length and any words, and mention none of the scans that put
it there. `RealipReadable` has the game server's reader: which bytes of a packet
are the userinfo (`UserinfoAt`), and which value it has for a key, pair by pair
from its beginning, the first pair of the key counting (`ReadsValue`). The proof
has two halves. `UserinfoFound` takes the scans of `q3_inject_realip` to the end
of the userinfo: blanks, the opening quote, the closing quote or, without quotes,
back over the line ends. `PairRead` then reads the result: the pair is the first
of its key, because the backslashes before it are even in number, so that a
`realip` in front of it which was a value still is one. `NameFound` shows that
the first match that `q3_rewrite_hostname` takes is the one
that `NamedAt` means, and that `sv_hostname` comes before `hostname`.
`AddressReachesServer` and `TagReachesBrowser` then need no invariant of their
own: they speak of one packet, which `ClientPacket` or `ServerPacket` has just
handled in a buffer that holds it (`PacketInBuffer`).

**ConfigStoreProofs.** `CInv` says that the files are well formed, that no two
active servers have one port, and that a temporary file about to be renamed is
exactly `Content`, with or without the key; the last is inductive because commands wait for the save. The
work is in the order of slots: `Nth` numbers a set of slots, a start gives the
first ones to the sections of the file, and the i-th active slot then is the
i-th of all (`FirstSlots`). `SectionsKeep` is what survives the way into the file
and back. From `CInv` follow `TypeCorrect`, `SyncedCorrect`, `FileLoadsCorrect`
and `Refinement`: a rename is the `Save` of `StoredConfig`, commands and the
other steps of a save are its `Change`. The assumption about first files
(`FilesAssumption`): not more servers than slots and no port twice.

**MgmtConnProofs.** Two invariants, the second on top of the first. `SInv`, for
`SlotsExact`: no two slots have one connection, and a connection is open exactly
when a slot has it. `CInv`, for what is read: of each connection (`Conn`), that
what was read comes before what was not, that nobody reads from one that waits or
was turned away, and that the lines handled are the lines of what was read; of
each slot in use (`Slot`), that its buffer and its `authed` flag are those of a
reading of that stream (`Agrees`). Without the buffer the next piece could not be
joined to the last one, without the flag not be judged.

What one byte does is `AddByteAgrees`, by cases on whether it ends a line
(`LineEnded`, `LineContinued`: the lines of a stream that is longer by a byte).
What a piece does is an induction over its bytes, and the induction rule cannot
be used (below). `AddBytes` therefore is a function on `0 .. Len(bytes)`, which
`AddBytesSteps` describes without recursion, and `AddBytesInduction` goes by the
**least counterexample**: if some prefix did not agree there would be a first one
(`LeastElement`, an ordinary fact about `Min`), and the byte before it would have
led there from one that did. `TooLargeCorrect` rests on the buffer: when it is
full (`NoSpace`), it is the unfinished last line of the stream, so that
`MGMT_BUF_SIZE - 1` bytes without a line end are in what was written.

**MgmtGuiProofs.** `TInv` is `TypeOK` with two additions: every state shows a tab
that is in its list, and of each connection of the worker, that it has nothing
under way, or only the one command that the worker waits for, as a line or as
its answer (`Idle`, `Busy`). The last is why answers without a name match: a
connection is closed on every failure, and with it what might still come. From
`TInv` follow `TypeCorrect`, `TabCorrect` and `AnswersCorrect`.

`FlagsAgree` speaks only of moments at which nothing is under way, and is far
from inductive. What holds at all times is `Agreed`, said of what the GUI **will**
believe when it has read all that is in the response channel (`Thought`): the
last response that tells of a connection decides, or the flag if there is none.
Then: who is thought to be connected is, or was given up (`ThoughtOK`); a
connection is thought of, or a Disconnect for it is queued, or its entry was
deleted while a Connect was under way (`ConnOK`); and a Connect in the queue is
for an entry that is there, or is followed by a Disconnect (`ConnectsOK`). The
steps split by what they touch: the worker adds a response and changes the
connection it tells of (`ReportTells`), the GUI takes one and does what it says,
which leaves `Thought` as it was (`ReadTells`), commands move one place up or a
new one comes last (`TailShifts`, `QueueShifts`). `GInv`, the whole, was checked
by TLC on small instances before. The assumptions are that there are finitely
many entries and slots, numbered as in the code, and that `None` is none of what
it stands beside.

**StartupProofs.** One invariant gives what is known at each station of `main`,
from which `MgmtReady`, `KeyReused` and `FlagsInForce` follow in every mode.
`KeyReused` is about runs for which neither a flag nor the configuration file names
a key (`KeyNamed`): a key in the file is meant to win over the key file
(`README.md:222`), and that it does not is the run `startup_file_settings`.

**Refinement of the directory.** In `SessionMapProofs`: the maps by address and
by descriptor that `SessionIndex` speaks of are the lookups between two
operations and are read off the session array during a rebuild; `ByAddrMeaning`
and `ByFdMeaning` show that this is the same map, so that an iteration of the
rebuild changes nothing anyone can see.

**What is proved of the runs' properties.** Every invariant and every refinement
that a passing run checks is stated by a theorem. Three are theorems under a
condition that the instance meets: `PoolsBounded`, `MapNotBinding` and
`AdmissionRateBounded`, as long as no limit is tuned.

**Only model-checked.** Liveness (`IdleSessionsExpire`, `HeartbeatsSent`,
`Converges`), and with it everything that needs `ENABLED`, is out of the prover's
reach. So is the library's rule of induction, which takes an operator as its
parameter; where a proof needed it, it goes by the least counterexample. The
violations (section 3) are counterexamples and need no proof.

## 5. What is not modelled

* How a heartbeat is put together and resolved masters. The game server's side:
  connect packets reach it Huffman-coded by its own engine, the proxy sees them
  as they are.
* Failures of `relay_run` before its loop and of `mgmt_init` (a proxy without
  API is an instance with `MgmtEnabled = FALSE`).
* The text of answers, and that a list of more than about 54 sessions does not
  fit its 8192 bytes. That answers are cut short or not sent is modelled where it
  is felt, in `MgmtGui` (`WorkerGivesUp`).
* JSON and configuration syntax, ranges of numeric keys, host name resolution.
* Memory exhaustion, clocks that are set back, counters that overflow.
* Of the GUI: the fields being edited (a refresh overwrites those that were not
  sent, `app.rs:431`), the selection and lists of sessions, logs, the saved file
  (written at once with what is in memory), and entries whose id is given again
  to a new one (`config.rs:39`): `FlagsAgree` excepts the connections that this
  could reach (`orphaned`), and those the worker gave up on (`broken`), of which
  the GUI is not told.
* Widgets and logging. Of the patched game server, all but how it reads `realip`;
  the engine's own limits on the length of a userinfo are not in it.

## 6. Plan

Done, in this order: `SessionMap` with `SessionIndex`; `Relay` with its commands;
`ConfigStore` with `StoredConfig`; `MgmtConn`; `Startup`; `Q3Proto` and
`PacketPath`; `MgmtGui`; and the proofs of all of them.

What would be next:

1. `RelayService`: an abstract relay (clients, sessions, limits, no descriptors
   and no batches) that `Relay` implements, by checks and by proof.
2. The safety half of expiry as an invariant: right after a sweep no session is
   older than its timeout, so that only the sweep itself is left to fairness.
3. Two servers in `relay_loop`, when the state space allows; the theorems cover
   any number.
