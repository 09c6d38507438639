---------------------------- MODULE MCProxySession ----------------------------
(***************************************************************************)
(* Instances of ProxySession: peers on this machine and on a LAN of which  *)
(* a /26 may connect, written both ways; destinations in every form.       *)
(***************************************************************************)
EXTENDS ProxySession

Public == V4(93, 184, 216, 34)
MappedLoopback == V6(0, "ffff", <<127, 0, 0, 1>>)
NativeV6 == V6(9729, "other", <<0, 0, 0, 1>>)
Lan1 == V4(192, 168, 1, 130)
Lan2 == V6(0, "ffff", <<192, 168, 1, 190>>)
Outside == V4(192, 168, 1, 200)
Self == V4(127, 0, 0, 1)

MCPeers == {Self, Lan1, Lan2, Outside}
MCCidrs == {[net |-> V4(192, 168, 1, 128), len |-> 26]}

Dest(form, addr, port) == [form |-> form, addr |-> addr, port |-> port]

MCDestinations ==
    {Dest("address", Public, 1), Dest("address", Public, 0),
     Dest("address", MappedLoopback, 1), Dest("address", NativeV6, 1),
     Dest("literal", Lan1, 1), Dest("literal", NativeV6, 1),
     Dest("name", Malformed, 1), Dest("invalid", Malformed, 1), Dest("unknown", Malformed, 1)}

Bytes == {"0x05", "0x04", "A-Z", "other"}

\* Guesses at a password: one peer's, as many as it takes to use up what one
\* step of time gives back, and those of more peers than are tracked; an
\* authenticated client that dials; every destination, on a tunnel without IPv6
\* and on one with it.
MCListeners ==
    {[auth |-> TRUE, hasV6 |-> FALSE, allowPrivate |-> FALSE, peers |-> {Lan1}, bytes |-> {"0x05", "A-Z"},
      destinations |-> {}, connections |-> 5, replaced |-> FALSE],
     [auth |-> TRUE, hasV6 |-> FALSE, allowPrivate |-> FALSE, peers |-> MCPeers, bytes |-> {"A-Z"},
      destinations |-> {}, connections |-> 4, replaced |-> FALSE],
     [auth |-> TRUE, hasV6 |-> FALSE, allowPrivate |-> FALSE, peers |-> MCPeers, bytes |-> Bytes,
      destinations |-> {Dest("address", Public, 1)}, connections |-> 2,
      replaced |-> FALSE],
     [auth |-> FALSE, hasV6 |-> FALSE, allowPrivate |-> FALSE, peers |-> MCPeers, bytes |-> Bytes,
      destinations |-> MCDestinations, connections |-> 2,
      replaced |-> TRUE],
     [auth |-> FALSE, hasV6 |-> TRUE, allowPrivate |-> TRUE, peers |-> MCPeers, bytes |-> Bytes,
      destinations |-> MCDestinations, connections |-> 2,
      replaced |-> TRUE]}

MCAnswers == {<<>>, <<MappedLoopback>>, <<MappedLoopback, Public>>, <<NativeV6, Public>>,
              <<Public, Lan1>>}
=============================================================================
