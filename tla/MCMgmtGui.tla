----------------------------- MODULE MCMgmtGui -----------------------------
(* Constants of the MgmtGui instances that TLC checks.                      *)
EXTENDS MgmtGui, TLC

OneSaved == {(1 :> "h1")}
TwoSlots == {0, 1}

Empty == [i \in TwoSlots |-> None]
OneServer == (0 :> "p") @@ Empty
TwoServers == (1 :> "q") @@ OneServer
TwoProxies == {("h1" :> TwoServers) @@ [h \in Hosts |-> Empty]}

=============================================================================
