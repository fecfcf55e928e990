------------------------------ MODULE Startup ------------------------------
(***************************************************************************)
(* How the proxy comes to the settings of its management API: the flags,   *)
(* the key file and the configuration file in main of src/src/main.c, and  *)
(* the [global] section in config_load of src/src/config.c.  A start makes *)
(* the key file when there is no key in it, and may fail or die between    *)
(* any two steps of that; the next start finds what it left.               *)
(*                                                                         *)
(* Whether the servers of a configuration file are accepted is the subject *)
(* of ConfigStore; here config_load may fail at will.                      *)
(***************************************************************************)
EXTENDS Integers, Sequences, SequencesExt

CONSTANTS
  Flags,          \* command lines an operator may give, and with each the mgmt-
                  \* lines of the configuration file it names, in their order
  GeneratedKeys   \* results of generate_api_key

NoKey == "none"
EmptyKey == ""
CutKey == "cut"         \* what a write that stops early leaves of a key
Loopback == "127.0.0.1"
AnyAddress == "0.0.0.0" \* which is also what a zeroed sockaddr_in says
MGMT_DEFAULT_PORT == 29990

ASSUME KeysAssumption == GeneratedKeys \cap {NoKey, EmptyKey, CutKey} = {}

VARIABLES
  flags,     \* the command line of this start
  mgmt_cfg,  \* mgmt_config_t of main; in the end, that of the running proxy
  key_file,  \* the first line of the key file without blanks; NoKey without a file
  new_key,   \* the key ensure_api_key has generated and is about to save
  step,      \* how far the start is: "down", "key", "write", "config", "running"
  file_key   \* history: the first key of a run for which no other was named

vars == <<flags, mgmt_cfg, key_file, new_key, step, file_key>>

-----------------------------------------------------------------------------
Zeroed ==
  [enabled |-> FALSE, api_key |-> NoKey, port |-> 0,
   family |-> FALSE, addr |-> AnyAddress, sin_port |-> 0]

\* The mgmt- flags of main.
FromFlags(f) ==
  [enabled |-> f.key # NoKey, api_key |-> f.key, port |-> f.port,
   family |-> f.addr # NoKey, addr |-> IF f.addr # NoKey THEN f.addr ELSE AnyAddress,
   sin_port |-> 0]

\* The mgmt- lines of config_load.
ApplyLine(m, line) ==
  CASE line.key = "mgmt-port" ->
         [m EXCEPT !.port = line.value, !.family = TRUE, !.sin_port = line.value]
    [] line.key = "mgmt-addr" -> [m EXCEPT !.family = TRUE, !.addr = line.value]
    [] line.key = "mgmt-key" ->
         [enabled |-> TRUE, api_key |-> line.value, family |-> TRUE,
          port |-> IF m.port = 0 THEN MGMT_DEFAULT_PORT ELSE m.port,
          addr |-> IF m.family THEN m.addr ELSE Loopback,
          sin_port |-> IF m.port = 0 THEN MGMT_DEFAULT_PORT ELSE m.sin_port]
FromFile == FoldLeft(ApplyLine, Zeroed, flags.global)

\* The defaults that main applies in each of its modes.
WithDefaults(m) ==
  [m EXCEPT !.family = TRUE,
            !.addr = IF m.family THEN @ ELSE Loopback,
            !.port = IF @ = 0 THEN MGMT_DEFAULT_PORT ELSE @,
            !.sin_port = IF m.port = 0 THEN MGMT_DEFAULT_PORT
                         ELSE IF @ = 0 THEN m.port ELSE @]

\* load_key_file: nothing comes of an empty line.  The first form takes it.
LoadedAsIs == key_file
Loaded == IF key_file = EmptyKey THEN NoKey ELSE key_file

-----------------------------------------------------------------------------
Init ==
  /\ flags \in Flags
  /\ mgmt_cfg = Zeroed
  /\ key_file = NoKey /\ new_key = NoKey
  /\ step = "down"
  /\ file_key = NoKey

\* main, up to ensure_api_key.
Start(f) ==
  /\ step = "down"
  /\ flags' = f
  /\ mgmt_cfg' = FromFlags(f)
  /\ step' = "key"
  /\ UNCHANGED <<key_file, new_key, file_key>>

NoFlagKey == mgmt_cfg.api_key \in {NoKey, EmptyKey}
UseKey(key) == mgmt_cfg' = [mgmt_cfg EXCEPT !.api_key = key, !.enabled = TRUE]

(* ensure_api_key *)

UseFlagKey ==
  /\ step = "key" /\ ~NoFlagKey
  /\ step' = "config"
  /\ UNCHANGED <<flags, mgmt_cfg, key_file, new_key, file_key>>

LoadKeyFile ==
  /\ step = "key" /\ NoFlagKey
  /\ Loaded # NoKey
  /\ UseKey(Loaded)
  /\ step' = "config"
  /\ UNCHANGED <<flags, key_file, new_key, file_key>>

\* generate_api_key, and the open of save_key_file, which truncates.  The first
\* form makes a new key at each start.
CreateAlways ==
  /\ step = "key" /\ NoFlagKey
  /\ new_key' \in GeneratedKeys
  /\ key_file' = EmptyKey
  /\ step' = "write"
  /\ UNCHANGED <<flags, mgmt_cfg, file_key>>
CreateKeyFile ==
  /\ step = "key" /\ NoFlagKey
  /\ Loaded = NoKey
  /\ new_key' \in GeneratedKeys
  /\ key_file' = EmptyKey
  /\ step' = "write"
  /\ UNCHANGED <<flags, mgmt_cfg, file_key>>

WriteKeyFile ==
  /\ step = "write"
  /\ key_file' = new_key
  /\ UseKey(new_key)
  /\ step' = "config"
  /\ UNCHANGED <<flags, new_key, file_key>>

\* One of the two writes fails or is short, and main returns; the file stays.
WriteFails ==
  /\ step = "write"
  /\ key_file' \in {EmptyKey, CutKey, new_key}
  /\ mgmt_cfg' = Zeroed /\ new_key' = NoKey
  /\ step' = "down"
  /\ UNCHANGED <<flags, file_key>>

(* The modes of main *)

\* The operator has named a key: by a flag, or in the configuration file.
KeyNamed ==
  \/ flags.key \notin {NoKey, EmptyKey}
  \/ flags.config /\ \E i \in DOMAIN flags.global : flags.global[i].key = "mgmt-key"

Runs(m) ==
  /\ mgmt_cfg' = WithDefaults(m)
  /\ step' = "running"
  /\ file_key' = IF file_key = NoKey /\ ~KeyNamed THEN m.api_key ELSE file_key
  /\ UNCHANGED <<flags, key_file, new_key>>

\* Config-file mode.  The first form keeps what the file says.
ConfigModeFileFirst ==
  /\ step = "config" /\ flags.config
  /\ Runs(IF FromFile.enabled THEN FromFile ELSE mgmt_cfg)
ConfigMode ==
  /\ step = "config" /\ flags.config
  /\ Runs(IF mgmt_cfg.enabled THEN mgmt_cfg ELSE FromFile)

\* Management-only and single-server mode.
CliMode ==
  /\ step = "config" /\ ~flags.config
  /\ Runs(mgmt_cfg)

\* The process ends: an open, a flag or a file is refused, or it dies.
End ==
  /\ step # "down"
  /\ step' = "down"
  /\ mgmt_cfg' = Zeroed /\ new_key' = NoKey
  /\ UNCHANGED <<flags, key_file, file_key>>

Next ==
  \/ \E f \in Flags : Start(f)
  \/ UseFlagKey \/ LoadKeyFile \/ CreateKeyFile \/ WriteKeyFile \/ WriteFails
  \/ ConfigMode \/ CliMode \/ End

Spec == Init /\ [][Next]_vars

-----------------------------------------------------------------------------
(* Correctness.                                                             *)

Running == step = "running"

\* The API of a running proxy is on, has a key, and listens on one port that
\* port and address agree on, whatever combination of flags and files and
\* whatever an earlier start left of the key file.
MgmtReady ==
  Running =>
    /\ mgmt_cfg.enabled /\ mgmt_cfg.api_key \notin {NoKey, EmptyKey}
    /\ mgmt_cfg.family
    /\ mgmt_cfg.port # 0 /\ mgmt_cfg.sin_port = mgmt_cfg.port

\* The first key of a run for which neither a flag nor the configuration file
\* named one is the key of every later such run, through crashes, failed starts
\* and runs with other keys in between
\* (main.c: "The key is saved and will be reused on next startup").
KeyReused ==
  Running /\ ~KeyNamed /\ file_key # NoKey => mgmt_cfg.api_key = file_key

\* A flag is in force in every mode (main.c: "CLI --mgmt-* flags override
\* config-file mgmt settings").
FlagsInForce ==
  Running =>
    /\ flags.key \notin {NoKey, EmptyKey} => mgmt_cfg.api_key = flags.key
    /\ flags.port # 0 => mgmt_cfg.sin_port = flags.port
    /\ flags.addr # NoKey => mgmt_cfg.addr = flags.addr

-----------------------------------------------------------------------------
(* What the documentation says, and the code does not do.                   *)

\* README.md:222-224 and 349: mgmt-key, mgmt-port and mgmt-addr of the file set
\* the key, the port and the address, unless a flag says otherwise.
FileSettingsInForce ==
  Running /\ flags.config =>
    \A i \in DOMAIN flags.global :
      LET line == flags.global[i]
      IN  /\ line.key = "mgmt-key" /\ flags.key = NoKey => mgmt_cfg.api_key = line.value
          /\ line.key = "mgmt-port" /\ flags.port = 0 => mgmt_cfg.sin_port = line.value
          /\ line.key = "mgmt-addr" /\ flags.addr = NoKey => mgmt_cfg.addr = line.value

=============================================================================
