----------------------------- MODULE MCMgmtConn -----------------------------
(* Constants of the MgmtConn instance that TLC checks.                      *)
EXTENDS MgmtConn, TLC

CONSTANTS a1, a2, a3

TwoSlots == {0, 1}
ThreeAdmins == {a1, a2, a3}
Symmetry == Permutations({a2, a3})

Command(n) == [i \in 1 .. n |-> "other"] \o <<"LF">>
Key == <<"key", "LF">>

\* Lines in one piece or many; a line that fills the buffer, and one that is a
\* byte longer; "\r\n"; a '\0'; a key that comes too late or is wrong.
AllScripts ==
  {Key \o Command(1) \o Command(0) \o Command(1),
   Key \o Command(MGMT_BUF_SIZE - 2) \o Command(1),
   Key \o Command(MGMT_BUF_SIZE - 1) \o Command(1),
   <<"key", "CR", "LF", "other", "CR", "LF">> \o Command(1),
   Key \o <<"other", "NUL", "LF">> \o Command(1),
   <<"wrong", "LF">> \o Key \o Command(1),
   Command(1) \o Key,
   <<"wrong", "key", "LF">> \o Command(1)}

\* For those who come before, after or at the same time: one is accepted, leaves
\* an incomplete line in the buffer and ends when it likes, one is refused.
ShortScripts == {Key \o <<"other">>, Command(0)}

OneOfManyScripts == [a \in Admins |-> IF a = a1 THEN AllScripts ELSE ShortScripts]

=============================================================================
