----------------------------- MODULE ConfigStore -----------------------------
(***************************************************************************)
(* The servers of a proxy started with a configuration file (-c), and the  *)
(* file: config_load and config_save of src/src/config.c, the management   *)
(* commands of src/src/mgmt.c that change a server and then save, and the  *)
(* start in src/src/main.c.  The process may die between any two steps of  *)
(* a save; the next start reads what it left.                              *)
(*                                                                         *)
(* A file is its server sections, and whether its [global] section holds   *)
(* mgmt-key.  The settings of a server that the file keeps as they are,    *)
(* its numeric limits and master-broadcast, appear as one value.           *)
(***************************************************************************)
EXTENDS Integers, Sequences, FiniteSets, FiniteSetsExt, Ranks

CONSTANTS
  Slots,         \* 0 .. RELAY_MAX_SERVERS - 1
  Ports,         \* listen ports
  Remotes,       \* addresses of game servers, as inet_pton accepts them
  Limits,        \* values of the settings that the file keeps as they are
  MaxMasters,    \* RELAY_MAX_MASTERS
  FirstFiles,    \* files an operator may have written
  Added,         \* configurations that add_server commands ask for
  NewTags        \* hostname tags that set commands ask for

ASSUME SlotsAssumption == Slots \subseteq Nat /\ IsFiniteSet(Slots)
ASSUME MastersAssumption == MaxMasters \in Nat \ {0}

VARIABLES
  active,        \* server_instance_t.active, by slot
  dyn_cfgs,      \* relay_config_t, by slot
  process,       \* "down", "running", or "refused" when config_load rejects the file
  saving,        \* where config_save is: "no", "open", "write", "rename"
  file, tmp,     \* <path> and <path>.tmp
  failed         \* history: the last save failed

vars == <<active, dyn_cfgs, process, saving, file, tmp, failed>>

-----------------------------------------------------------------------------
AnyAddress == "0.0.0.0"
NoFile == [exists |-> FALSE]

\* A tag may be missing, or begin or end with blanks; trim() takes those off.
Tags == {"none", "plain", "padded"}
Trim(tag) == IF tag = "padded" THEN "plain" ELSE tag

Config == [listen_port : Ports, remote : Remotes, limits : Limits, hostname_tag : Tags,
           masters : 0 .. MaxMasters]

\* A [server] section of a file: a line hostname-tag, or more than one, or none.
SectionType ==
  [listen_port : Ports, remote : Remotes, limits : Limits, tags : SUBSET (Tags \ {"none"}),
   masters : 0 .. MaxMasters]

ASSUME ConfigAssumption == Config # {}
ASSUME CommandsAssumption ==
  Added \subseteq Config /\ (\A c \in Added : c.masters <= 1) /\ NewTags \subseteq Tags

\* The operator's file does not repeat a port and has no more servers than the
\* proxy: one that does is refused before anything of this module happens.
ASSUME FilesAssumption ==
  \A f \in FirstFiles :
    /\ f = [exists |-> TRUE, mgmt_key |-> f.mgmt_key, servers |-> f.servers]
    /\ f.mgmt_key \in BOOLEAN /\ f.servers \in Seq(SectionType)
    /\ Len(f.servers) <= Cardinality(Slots)
    /\ \A i, j \in DOMAIN f.servers :
         f.servers[i].listen_port = f.servers[j].listen_port => i = j

\* The lines config_save writes for a server: hostname-tag is one of them only
\* when there is a tag.
Section(c) ==
  [listen_port |-> c.listen_port, remote |-> c.remote, limits |-> c.limits,
   tags |-> {c.hostname_tag} \ {"none"}, masters |-> c.masters]

\* What apply_server_key makes of the lines of a section.
Parsed(section) ==
  [listen_port |-> section.listen_port, remote |-> section.remote, limits |-> section.limits,
   hostname_tag |-> IF section.tags = {} THEN "none" ELSE Trim(CHOOSE t \in section.tags : TRUE),
   masters |-> section.masters]

\* The active servers in the order of their slots, which is how they are saved.
ActiveSlots == {s \in Slots : active[s]}
Running == [i \in 1 .. Cardinality(ActiveSlots) |-> dyn_cfgs[Nth(ActiveSlots, i)]]

Loaded(f) == [i \in DOMAIN f.servers |-> Parsed(f.servers[i])]

\* config_load accepts a file: enough servers for the management API, every
\* server valid, no port twice.  Only the file counts: the key main.c has
\* loaded or made does not.
Loads(f) ==
  /\ Len(f.servers) <= Cardinality(Slots)
  /\ f.servers # <<>> \/ f.mgmt_key
  /\ \A i \in DOMAIN f.servers :
       /\ f.servers[i].remote # AnyAddress
       /\ \A j \in DOMAIN f.servers :
            f.servers[i].listen_port = f.servers[j].listen_port => i = j

\* What a save writes: a [global], with mgmt-key or without it, then a section for
\* every active server.
Content(mgmt_key) ==
  [exists |-> TRUE, mgmt_key |-> mgmt_key,
   servers |-> [i \in DOMAIN Running |-> Section(Running[i])]]

\* What fopen(path, "w") leaves.
EmptyFile == [exists |-> TRUE, mgmt_key |-> FALSE, servers |-> <<>>]

-----------------------------------------------------------------------------
(* Start: ensure_api_key, config_load, relay_run.                           *)

NoServers == [s \in Slots |-> FALSE]
Unconfigured == [s \in Slots |-> CHOOSE c \in Config : TRUE]

Init ==
  /\ active = NoServers
  /\ dyn_cfgs = Unconfigured
  /\ process = "down"
  /\ saving = "no"
  /\ file \in FirstFiles /\ tmp = NoFile
  /\ failed = FALSE

\* The servers of the file take the first slots.
SlotOf(i) == Nth(Slots, i)

Start ==
  /\ process = "down" /\ Loads(file)
  /\ process' = "running"
  /\ active' = [s \in Slots |-> \E i \in DOMAIN file.servers : s = SlotOf(i)]
  /\ dyn_cfgs' = [s \in Slots |->
                    IF \E i \in DOMAIN file.servers : s = SlotOf(i)
                    THEN Loaded(file)[CHOOSE i \in DOMAIN file.servers : s = SlotOf(i)]
                    ELSE Unconfigured[s]]
  /\ failed' = FALSE
  /\ UNCHANGED <<saving, file, tmp>>

StartRefused ==
  /\ process = "down" /\ ~Loads(file)
  /\ process' = "refused"
  /\ UNCHANGED <<active, dyn_cfgs, saving, file, tmp, failed>>

\* The end of the process: a crash at any point, a shutdown between commands.
\* What it leaves of <path>.tmp is never read: the next save truncates it.
Crash ==
  /\ process = "running"
  /\ process' = "down"
  /\ active' = NoServers /\ dyn_cfgs' = Unconfigured
  /\ saving' = "no" /\ tmp' = NoFile
  /\ UNCHANGED <<file, failed>>

-----------------------------------------------------------------------------
(* Management commands, up to the call of persist_config.                   *)

Command == process = "running" /\ saving = "no" /\ UNCHANGED <<process, file, tmp, failed>>

Tuned(s, c) ==
  /\ Command /\ active[s]
  /\ dyn_cfgs' = [dyn_cfgs EXCEPT ![s] = c]
  /\ UNCHANGED active

\* handle_set.
HandleSet(s) ==
  /\ \/ \E l \in Limits : Tuned(s, [dyn_cfgs[s] EXCEPT !.limits = l])
     \/ \E t \in NewTags : Tuned(s, [dyn_cfgs[s] EXCEPT !.hostname_tag = t])
  /\ saving' = "open"

\* handle_set_master that adds to the list, and one that forgets to save.
MasterAppended(s) ==
  /\ \E n \in {0, dyn_cfgs[s].masters + 1} : Tuned(s, [dyn_cfgs[s] EXCEPT !.masters = n])
  /\ saving' = "open"
MasterNotSaved(s) ==
  /\ \E n \in {0, 1} : Tuned(s, [dyn_cfgs[s] EXCEPT !.masters = n])
  /\ UNCHANGED saving

\* handle_set_master: one master, or none.
HandleSetMaster(s) ==
  /\ \E n \in {0, 1} : Tuned(s, [dyn_cfgs[s] EXCEPT !.masters = n])
  /\ saving' = "open"

\* The port test of relay_add_server.  The first form sees only the slots
\* before the free one.
FreeSlots == {s \in Slots : ~active[s]}
PortTakenBefore(c) ==
  \E s \in Slots : active[s] /\ s < Min(FreeSlots) /\ dyn_cfgs[s].listen_port = c.listen_port
PortTaken(c) == \E s \in Slots : active[s] /\ dyn_cfgs[s].listen_port = c.listen_port

\* handle_add_server: at most one master, the one of the command or the default.
HandleAddServer(c) ==
  /\ Command
  /\ FreeSlots # {} /\ ~PortTaken(c)
  /\ dyn_cfgs' = [dyn_cfgs EXCEPT ![Min(FreeSlots)] = c]
  /\ active' = [active EXCEPT ![Min(FreeSlots)] = TRUE]
  /\ saving' = "open"

\* The socket of the new server cannot be opened or bound: no save, but the
\* slot's configuration is overwritten.
AddServerFailed(c) ==
  /\ Command
  /\ FreeSlots # {} /\ ~PortTaken(c)
  /\ dyn_cfgs' = [dyn_cfgs EXCEPT ![Min(FreeSlots)] = c]
  /\ UNCHANGED <<active, saving>>

\* handle_remove_server
HandleRemoveServer(s) ==
  /\ Command /\ active[s]
  /\ active' = [active EXCEPT ![s] = FALSE]
  /\ saving' = "open"
  /\ UNCHANGED dyn_cfgs

-----------------------------------------------------------------------------
(* config_save: write <path>.tmp, rename it over <path>.                    *)

\* config_save is at step, and goes on.
Save(step) ==
  /\ process = "running" /\ saving = step
  /\ UNCHANGED <<active, dyn_cfgs, process>>

\* config_save gives up; persist_config logs a warning and goes on.
SaveFails ==
  /\ saving' = "no"
  /\ failed' = TRUE
  /\ UNCHANGED file

\* Opening the file itself instead of a temporary one.
SaveOpenedInPlace ==
  /\ Save("open")
  /\ tmp' = EmptyFile
  /\ file' = [EmptyFile EXCEPT !.mgmt_key = file.mgmt_key]
  /\ saving' = "write"
  /\ UNCHANGED failed

SaveOpened ==
  /\ Save("open")
  /\ tmp' = EmptyFile
  /\ saving' = "write"
  /\ UNCHANGED <<file, failed>>

SaveNotOpened == Save("open") /\ SaveFails /\ UNCHANGED tmp

\* The lines of the old [global] are copied.  When the old file cannot be opened
\* for that, the new one has no mgmt-key: no error, no warning.
SaveWritten ==
  /\ Save("write")
  /\ \E kept \in {file.mgmt_key, FALSE} : tmp' = Content(kept)
  /\ saving' = "rename"
  /\ UNCHANGED <<file, failed>>

SaveRenamed ==
  /\ Save("rename")
  /\ file' = tmp
  /\ tmp' = NoFile
  /\ saving' = "no"
  /\ failed' = FALSE

\* Writing or renaming fails: the temporary file is removed.
SaveAbandoned ==
  /\ \/ Save("write")
     \/ Save("rename")
  /\ SaveFails
  /\ tmp' = NoFile

-----------------------------------------------------------------------------
Next ==
  \/ Start \/ StartRefused \/ Crash
  \/ \E s \in Slots : HandleSet(s) \/ HandleSetMaster(s) \/ HandleRemoveServer(s)
  \/ \E c \in Added : HandleAddServer(c) \/ AddServerFailed(c)
  \/ SaveOpened \/ SaveNotOpened \/ SaveWritten \/ SaveRenamed \/ SaveAbandoned

Spec == Init /\ [][Next]_vars

-----------------------------------------------------------------------------
(* Correctness.                                                             *)

IsFile(f) ==
  /\ f.mgmt_key \in BOOLEAN
  /\ \A i \in DOMAIN f.servers : f.servers[i] \in SectionType

\* The shape of the servers and of the files.
TypeOK ==
  /\ active \in [Slots -> BOOLEAN]
  /\ dyn_cfgs \in [Slots -> Config]
  /\ process \in {"down", "running", "refused"}
  /\ saving \in {"no", "open", "write", "rename"}
  /\ IsFile(file)
  /\ tmp = NoFile \/ IsFile(tmp)
  /\ failed \in BOOLEAN

\* The servers that come back from the file are the same but for their tags.
Restored(cs) == [i \in DOMAIN cs |-> [cs[i] EXCEPT !.hostname_tag = Trim(@)]]

\* Whatever was tuned, added or removed since the start is in the file as soon
\* as the command is done, unless the save failed: no command that changes a
\* server forgets to save, and no save leaves anything out or revives a server
\* that is gone.
Synced ==
  process = "running" /\ saving = "no" /\ ~failed => Loaded(file) = Restored(Running)

\* The proxy can always come up again from its file, with these exceptions: all
\* servers were removed and mgmt-key is not in the file, or a server was added
\* for the address 0.0.0.0.
FileLoads ==
  /\ file.servers # <<>> \/ file.mgmt_key
  /\ \A i \in DOMAIN file.servers : file.servers[i].remote # AnyAddress
  => Loads(file)

\* The file is replaced as a whole by what runs or not at all, a start takes
\* over exactly what it says, and a crash at any point of a save changes
\* nothing: the file implements StoredConfig.
Store == INSTANCE StoredConfig WITH
  Normal <- Restored, up <- process = "running",
  running <- IF process = "running" THEN Running ELSE <<>>, stored <- Loaded(file)
RefinesStore == Store!Spec

-----------------------------------------------------------------------------
(* What comments say, and the code does not do.                             *)

\* config.c:452: zero servers are allowed if the management API is configured.
\* With -c it always is: ensure_api_key has loaded or made a key before the
\* file is read.
ZeroServersAllowed == process = "refused" => file.servers # <<>>

=============================================================================
