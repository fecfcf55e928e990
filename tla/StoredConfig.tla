---------------------------- MODULE StoredConfig ----------------------------
(***************************************************************************)
(* What the configuration file promises: the servers of a proxy that comes *)
(* up are those that were last stored, storing takes them over as a whole, *)
(* and nothing but storing changes them, wherever the process dies.        *)
(* ConfigStore is the implementation.                                      *)
(***************************************************************************)
CONSTANT
  Normal(_)   \* servers as they come back from the file

VARIABLES
  up,         \* whether the proxy runs
  running,    \* its servers, in the order of their slots; none when it is down
  stored      \* the servers it would come up with

vars == <<up, running, stored>>

\* Servers are tuned, added or removed.
Change == up /\ UNCHANGED <<up, stored>>

Save == up /\ stored' = Normal(running) /\ UNCHANGED <<up, running>>

Crash == up /\ ~up' /\ running' = <<>> /\ UNCHANGED stored

Start == ~up /\ up' /\ running' = stored /\ UNCHANGED stored

Next == Change \/ Save \/ Crash \/ Start

Spec == ~up /\ running = <<>> /\ [][Next]_vars

=============================================================================
