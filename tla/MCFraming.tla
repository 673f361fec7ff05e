------------------------------ MODULE MCFraming ------------------------------
(* Frames for TLC, of the repository's sizes, with the octets that matter.  *)
EXTENDS Framing

Server == <<1, 2, 3, 4, 5, 6>>
Plain  == <<32, 32, 20, 21, 22, 23>>     \* "20:20:14:15:16:17"
Broken == <<32, CR, LT, 21, 22, 23>>     \* an address with a terminator in it
Name   == <<115, 101, 110, 115, 95, 110, 101, 116>>   \* "sens_net"
Secret == <<49, 50, 51, 52>>                          \* "1234"
Hi     == <<104, 105>>
Talk   == <<LT, 111>>                    \* a text that begins with 't'
Brace  == <<LT, 97, 97, 97, 123>>        \* "taaa{": '{' lands where a length is
Long   == [k \in 1 .. 58 |-> 97]         \* console lines may be this long
Seven(n, dst) ==                         \* length octet '\r' and checksum 't'
  LET rest == Word(1) \o <<n, dst>> \o [k \in 1 .. 6 |-> 97] \o Terminator
  IN [k \in 1 .. 6 |-> 97] \o <<(LT - Checksum(rest)) % 256>>

JoinReq(mac) ==
  [octets |-> JoinReqMessage(mac, 1, 1, Name, Secret), to |-> "server",
   says |-> [kind |-> "JOINREQ", mac |-> mac, net |-> 1, slots |-> 1,
             user |-> Pad(Name, 10), password |-> Pad(Secret, 10)]]
Status(n, dst, text) ==
  [octets |-> StatusMessage(1, n, dst, text), to |-> "server",
   says |-> [kind |-> "STATUS", net |-> 1, src |-> n, dst |-> dst, text |-> text]]
Sync(net) ==
  [octets |-> SyncMessage(net, 5), to |-> "client",
   says |-> [kind |-> "SYNC", net |-> net, time |-> 5, access |-> 2]]
JoinResp(id) ==
  [octets |-> JoinRespMessage(0, Server, Plain, 1, id), to |-> "client",
   says |-> [kind |-> "JOINRESP", status |-> 0, server |-> Server, mac |-> Plain,
             net |-> 1, id |-> id]]
Control(src, dst, text) ==
  [octets |-> ControlMessage(1, 5, src, dst, text), to |-> "client",
   says |-> [kind |-> "CONTRL", net |-> 1, status |-> 5, src |-> src, dst |-> dst, text |-> text]]

ToServer == {JoinReq(Plain), JoinReq(Broken), Status(4, 5, Hi), Status(4, 13, Talk),
             Status(5, 4, Long), Status(4, 5, Seven(4, 5))}
InClientsAir == {Sync(1), Sync(CR + 256 * LT), JoinResp(4), JoinResp(130),
                 Control(5, 4, Hi), Control(5, 13, Talk), Control(5, 13, Brace),
                 Control(5, 6, Long),
                 Status(5, 4, Long), Status(5, 13, Talk)}
InTheAir == [server |-> ToServer, client |-> InClientsAir]
=============================================================================
