---------------------------- MODULE MCSessionMap ----------------------------
(* Instance of SessionMap for TLC: three slots in a table of five, with     *)
(* addresses that collide, wrap round the end of the table, or both.        *)
EXTENDS SessionMap, TLC

CONSTANTS a1, a2, a3, a4

MCAddrHash == (a1 :> 4) @@ (a2 :> 4) @@ (a3 :> 3) @@ (a4 :> 0)
MCFd == 5 .. 8
MCFdHash == (5 :> 1) @@ (6 :> 1) @@ (7 :> 2) @@ (8 :> 0)

=============================================================================
