------------------------------ MODULE MCRelay ------------------------------
(* Constants of the Relay instances that TLC checks.                        *)
EXTENDS Relay, TLC

CONSTANTS c1, c2

Cfg(clients, rate) ==
  [listen_port |-> 27960, max_clients |-> clients, max_query_sessions |-> 1,
   max_new_per_sec |-> rate, session_timeout |-> 5, query_timeout |-> 1,
   master_count |-> 0, heartbeat_enabled |-> 0]

OneServer == {0}
FdsTo3 == 0 .. 3
FdsTo4 == 0 .. 4
OneInstant == {1000}

\* One server with the smallest pools: one player, one query.
SmallConfigs == {Cfg(1, 1)}
SmallStartup == (0 :> Cfg(1, 1))

\* Two administrators clear the server of its players, remove it and add it
\* again.  At the second instant every timeout has passed, and the one-second
\* window of the rate limiter.
LoopCommands ==
  {[cmd |-> c, server |-> 0] : c \in {"kick_all", "remove_server"}}
    \cup {[cmd |-> "add_server", config |-> Cfg(1, 1)]}
TwoInstants == {1000, 1006}
Clients2 == Permutations({c1, c2})

\* A server that announces itself to a master, or not, as it is told, and time
\* enough for a silent session to go.
KickCommands == {[cmd |-> "kick", server |-> 0, client |-> c1]}
Set(key, v) == [cmd |-> "set", server |-> 0, key |-> key, value |-> v]
FairCommands ==
  {[cmd |-> "set_master", server |-> 0, masters |-> n] : n \in {0, 1}}
    \cup {Set("master_broadcast", v) : v \in {0, 1}}
    \cup {Set("max_clients", 0)}
    \cup KickCommands
FairInstants == {1000, 1006, 1011, 1300}

TuningCommands == {Set("max_clients", 2)}

=============================================================================
