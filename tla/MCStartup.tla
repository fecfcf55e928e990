----------------------------- MODULE MCStartup -----------------------------
(* Constants of the Startup instances that TLC checks.                      *)
EXTENDS Startup

Line(k, v) == [key |-> k, value |-> v]
PortAndAddress == <<Line("mgmt-port", 30001), Line("mgmt-addr", AnyAddress)>>
KeyPortAndAddress == <<Line("mgmt-key", "file")>> \o PortAndAddress

\* Every combination of modes, files and flags; a key may be given and be empty.
CommandLine(config, files) ==
  [config : {config}, global : files, key : {NoKey, EmptyKey, "flag"}, port : {0, 30000},
   addr : {NoKey, "10.0.0.1"}]
AllFlags ==
  CommandLine(TRUE, {PortAndAddress, KeyPortAndAddress}) \cup CommandLine(FALSE, {<<>>})
ConfigOnly ==
  [config : {TRUE}, global : {PortAndAddress}, key : {NoKey}, port : {0}, addr : {NoKey}]

=============================================================================
