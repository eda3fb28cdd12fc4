---------------------------- MODULE MCUdpTransport ----------------------------
(* Two addresses, one of them with two ports; datagrams of up to 3 bytes.  *)
EXTENDS UdpTransport

MCPeers == {<<"plc", 1>>, <<"plc", 2>>, <<"other", 1>>}
MCDatagrams ==
  {[from |-> <<"plc", 1>>, id |-> 1, size |-> 3], [from |-> <<"plc", 1>>, id |-> 2, size |-> 1],
   [from |-> <<"plc", 2>>, id |-> 3, size |-> 2], [from |-> <<"other", 1>>, id |-> 4, size |-> 3],
   [from |-> <<"other", 1>>, id |-> 5, size |-> 0]}
=============================================================================
