---------------------------- MODULE MCPacketPath ----------------------------
(* Constants of the PacketPath instance that TLC checks: packets as clients *)
(* and game servers send them, and odd ones.                                *)
EXTENDS PacketPath

Bytes ==
  {Marker, Space, Newline, Nul, Backslash, Quote, "seq", "name", "v", "tag", "a1", "a2"}
    \cup Words

Pair(key) == <<Backslash, key, Backslash, "v">>

\* connect packets as q3proto.h:124 describes them: blanks, the userinfo with or
\* without quotes, and a line end.  The userinfo is up to 2 pairs; one has a
\* realip, and one a value that reads like the key.
Userinfos ==
  {<<>>, Pair("name"), Pair("name") \o Pair("name"), Pair("realip"),
   <<Backslash, "name", Backslash, "realip">>}
Gaps == {<<Space>>, <<Space, Space>>}
Ends == {<<>>, <<Newline>>, <<Nul>>, <<Newline, Nul>>}
Quoted(gap, info, end) == <<Marker, "connect">> \o gap \o <<Quote>> \o info \o <<Quote>> \o end
Unquoted(gap, info, end) == <<Marker, "connect">> \o gap \o info \o end

\* Other ways to write it, an open quote among them, which are not to harm.
OddConnects ==
  {<<Marker>> \o lead \o <<"connect">> \o gap \o info :
     lead \in {<<>>, <<Space>>, <<Newline>>},
     gap \in {<<>>, <<Newline>>, <<Space>>},
     info \in {<<>>, <<Quote>>, <<Quote>> \o Pair("name"), <<Newline, Newline>>, <<Nul>>}}

MCClientPackets ==
  {Quoted(g, i, e) : g \in Gaps, i \in Userinfos, e \in Ends}
    \cup {Unquoted(g, i, e) : g \in Gaps, i \in Userinfos \ {<<>>}, e \in Ends}
    \cup OddConnects
    \cup {<<Marker, "getinfo">>, <<Marker>>, <<>>, <<"seq", Quote>>,
          [j \in 1 .. RECV_BUF_SIZE + 1 |-> "v"], [j \in 1 .. Q3_MAX_PACKET_SIZE |-> "seq"]}

\* Answers of a game server: key-value pairs and, in a statusResponse, players.
Infos ==
  {Pair("name"), Pair("hostname"), Pair("sv_hostname"),
   Pair("name") \o Pair("sv_hostname"), Pair("sv_hostname") \o Pair("name"),
   Pair("hostname") \o Pair("sv_hostname"), Pair("hostname") \o Pair("name"),
   <<Backslash, "hostname", Backslash>>}
Players == {<<>>, <<Newline, Quote, "hostname", Quote, Newline>>}
Response(cmd, info, players) == <<Marker, cmd, Newline>> \o info \o players

MCServerPackets ==
  {Response(c, i, p) : c \in Responses \cup {"connect"}, i \in Infos, p \in Players}
    \cup {<<Marker, "infoResponse">>, <<Marker, "statusResponse", Backslash, "hostname">>,
          <<"seq">> \o Pair("hostname"), <<>>, [j \in 1 .. RECV_BUF_SIZE + 2 |-> "v"]}

MCTags == {<<>>, <<"tag">>, <<"tag", Backslash, "hostname", Backslash>>}

=============================================================================
