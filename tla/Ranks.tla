-------------------------------- MODULE Ranks --------------------------------
(* The order of slots and of positions: the first, the second, and so on.   *)
EXTENDS Naturals, FiniteSets

\* How many of S come no later than s, and the i-th of S.
Rank(S, s) == Cardinality({t \in S : t <= s})
Nth(S, i) == CHOOSE s \in S : Rank(S, s) = i

=============================================================================
