----------------------------- MODULE StartupProofs -----------------------------
(***************************************************************************)
(* The settings of the management API and the life of the key file, proved *)
(* for every command line, every [global] section of the configuration file *)
(* and every outcome of generate_api_key, through failed starts and crashes *)
(* at any step.                                                            *)
(***************************************************************************)
EXTENDS Startup, TLAPS

NoKeys == {NoKey, EmptyKey}

\* The settings of a start that has its key.
WithKey ==
  [FromFlags(flags) EXCEPT
     !.api_key = IF flags.key \in NoKeys THEN key_file ELSE flags.key, !.enabled = TRUE]

\* Until a key file is written the settings are those of the flags.  Once a proxy
\* has run with the key of the file, no step writes the file again.
KInv ==
  /\ step \in {"down", "key", "write", "config", "running"}
  /\ step \in {"key", "write"} => mgmt_cfg = FromFlags(flags)
  /\ step = "write" =>
       flags.key \in NoKeys /\ new_key \in GeneratedKeys /\ file_key = NoKey
  /\ step \in {"config", "running"} /\ flags.key \in NoKeys => key_file \notin NoKeys
  /\ step = "config" => mgmt_cfg = WithKey
  /\ step = "running" => mgmt_cfg = WithDefaults(WithKey)
  /\ file_key # NoKey => file_key # EmptyKey /\ key_file = file_key

\* What the runs check follows from the invariant.
LEMMA InvariantImplies == KInv => MgmtReady /\ KeyReused /\ FlagsInForce
<1> SUFFICES ASSUME KInv PROVE MgmtReady /\ KeyReused /\ FlagsInForce
  OBVIOUS
<1>1. ASSUME Running
      PROVE  /\ mgmt_cfg = WithDefaults(WithKey)
             /\ flags.key \in NoKeys => key_file \notin NoKeys
  BY <1>1 DEF KInv, Running
<1> DEFINE m == WithDefaults(WithKey)
<1>2. /\ m.enabled = TRUE /\ m.family = TRUE
      /\ m.api_key = IF flags.key \in NoKeys THEN key_file ELSE flags.key
      /\ m.port = IF flags.port = 0 THEN MGMT_DEFAULT_PORT ELSE flags.port
      /\ m.sin_port = IF flags.port = 0 THEN MGMT_DEFAULT_PORT ELSE flags.port
      /\ flags.addr # NoKey => m.addr = flags.addr
  BY DEF WithDefaults, WithKey, FromFlags
<1> HIDE DEF m
<1>3. MgmtReady
  BY <1>1, <1>2 DEF MgmtReady, NoKeys, MGMT_DEFAULT_PORT, m
<1>4. KeyReused
  BY <1>1, <1>2 DEF KInv, KeyReused, KeyNamed, NoKeys, m
<1>5. FlagsInForce
  BY <1>1, <1>2 DEF FlagsInForce, NoKeys, m
<1>6. QED
  BY <1>3, <1>4, <1>5

\* Every step of a start keeps it, and every way a start can end.
LEMMA StepPreserves == KInv /\ [Next]_vars => KInv'
<1> SUFFICES ASSUME KInv, [Next]_vars PROVE KInv'
  OBVIOUS
<1> USE DEF KInv, NoKeys
<1>1. ASSUME NEW f \in Flags, Start(f)
      PROVE  KInv'
  BY <1>1 DEF Start
<1>2. CASE UseFlagKey
  <2>1. flags.key \notin NoKeys /\ mgmt_cfg = FromFlags(flags)
    BY <1>2 DEF UseFlagKey, NoFlagKey, FromFlags
  <2>2. FromFlags(flags).enabled = TRUE /\ FromFlags(flags).api_key = flags.key
    BY <2>1 DEF FromFlags
  <2>3. mgmt_cfg = WithKey
    BY <2>1, <2>2 DEF WithKey, FromFlags
  <2>4. QED
    BY <1>2, <2>1, <2>3 DEF UseFlagKey, WithKey
<1>3. CASE LoadKeyFile
  <2>1. /\ flags.key \in NoKeys /\ mgmt_cfg = FromFlags(flags)
        /\ Loaded = key_file /\ key_file \notin NoKeys
    BY <1>3 DEF LoadKeyFile, NoFlagKey, FromFlags, Loaded
  <2>2. mgmt_cfg' = WithKey'
    BY <1>3, <2>1 DEF LoadKeyFile, UseKey, WithKey, FromFlags
  <2>3. QED
    BY <1>3, <2>1, <2>2 DEF LoadKeyFile
<1>4. CASE CreateKeyFile
  <2>1. flags.key \in NoKeys /\ key_file \in NoKeys
    BY <1>4 DEF CreateKeyFile, NoFlagKey, FromFlags, Loaded
  <2>2. file_key = NoKey
    BY <2>1
  <2>3. QED
    BY <1>4, <2>1, <2>2 DEF CreateKeyFile
<1>5. CASE WriteKeyFile
  <2>1. /\ flags.key \in NoKeys /\ mgmt_cfg = FromFlags(flags)
        /\ key_file' = new_key /\ new_key \notin NoKeys
    BY <1>5, KeysAssumption DEF WriteKeyFile
  <2>2. mgmt_cfg' = WithKey'
    BY <1>5, <2>1 DEF WriteKeyFile, UseKey, WithKey, FromFlags
  <2>3. QED
    BY <1>5, <2>1, <2>2 DEF WriteKeyFile
<1>6. CASE WriteFails
  BY <1>6 DEF WriteFails
<1>7. ASSUME NEW m, Runs(m), m = WithKey, step = "config"
      PROVE  KInv'
  <2>1. mgmt_cfg' = WithDefaults(WithKey)' /\ step' = "running"
    BY <1>7 DEF Runs, WithDefaults, WithKey
  <2>2. flags.key \in NoKeys => m.api_key = key_file /\ key_file \notin NoKeys
    BY <1>7 DEF WithKey, FromFlags
  <2>3. QED
    BY <1>7, <2>1, <2>2 DEF Runs, KeyNamed
<1>8. CASE ConfigMode
  <2>1. mgmt_cfg = WithKey /\ mgmt_cfg.enabled
    BY <1>8 DEF ConfigMode, WithKey, FromFlags
  <2>2. QED
    BY <1>7, <1>8, <2>1 DEF ConfigMode
<1>9. CASE CliMode
  BY <1>7, <1>9 DEF CliMode
<1>10. CASE End
  BY <1>10 DEF End
<1>11. CASE UNCHANGED vars
  BY <1>11 DEF vars, WithKey
<1>12. QED
  BY <1>1, <1>2, <1>3, <1>4, <1>5, <1>6, <1>8, <1>9, <1>10, <1>11 DEF Next

\* The invariant holds of every start.
LEMMA Invariance == Spec => []KInv
<1>1. Init => KInv
  BY DEF Init, KInv
<1>2. QED
  BY <1>1, StepPreserves, PTL DEF Spec

\* A running proxy's API is enabled, has a key, and listens on the port that its
\* address and its settings agree on (main.c, ensure_api_key and the modes).
THEOREM ReadyCorrect == Spec => []MgmtReady
BY Invariance, InvariantImplies, PTL

\* The first key of a run for which none was named stays the key of all later
\* such runs (load_key_file and save_key_file).
THEOREM KeyCorrect == Spec => []KeyReused
BY Invariance, InvariantImplies, PTL

\* A flag is in force in every mode (main.c, config-file mode included).
THEOREM FlagsCorrect == Spec => []FlagsInForce
BY Invariance, InvariantImplies, PTL

=============================================================================
