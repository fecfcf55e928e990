--------------------------- MODULE MCConfigStore ---------------------------
(* Constants of the ConfigStore instances that TLC checks.                  *)
EXTENDS ConfigStore

TwoSlots == {0, 1}
TwoPorts == {27960, 27961}
RealRemotes == {"10.0.0.2"}
AnyRemotes == {"10.0.0.2", AnyAddress}

\* A server on either port, and one that the file cannot hold.
New(port, address) ==
  [listen_port |-> port, remote |-> address, limits |-> "default",
   hostname_tag |-> "none", masters |-> 1]
NewServers == {New(p, "10.0.0.2") : p \in TwoPorts}
AnyServers == {New(27961, "10.0.0.2"), New(27960, AnyAddress)}

\* The example file with one server, with mgmt-key in its [global] section or
\* without.
FileWith(key) ==
  [exists |-> TRUE, mgmt_key |-> key,
   servers |-> <<[listen_port |-> 27960, remote |-> "10.0.0.2", limits |-> "default",
                  tags |-> {"plain"}, masters |-> 1]>>]
PlainFiles == {FileWith(FALSE)}
ExampleFiles == {FileWith(FALSE), FileWith(TRUE)}

=============================================================================
