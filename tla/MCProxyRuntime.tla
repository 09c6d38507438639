---------------------------- MODULE MCProxyRuntime ----------------------------
(* An instance of ProxyRuntime for TLC. *)
EXTENDS ProxyRuntime

Vpn == V4(10, 8, 0, 1)
Stub == V4(127, 0, 0, 53)
MappedStub == V6(0, "ffff", <<127, 0, 0, 53>>)
Native == V6(64768, "other", <<0, 0, 0, 53>>)
Corp == CHOOSE domain \in Domains : TRUE

\* A list split at its commas, in which one fragment is not all addresses;
\* a loopback server in its mapped spelling; and no server at all, but search
\* domains.
MCPushes ==
    { << Option("dns server address", <<Malformed>>), Option("text", <<Vpn>>),
         Option("text", <<Native, Malformed>>), Option("ipv6", <<>>) >>,
      << Option("ipv6", <<>>), Option("dhcp-option DNS", <<MappedStub>>) >>,
      << Option("ifconfig", <<Vpn, Vpn>>), Option("ignored", <<Stub>>),
         Option("dns search-domains", <<Corp, Malformed>>), Option("dhcp-option DOMAIN", <<Corp>>) >> }

MCFallback == <<V4(9, 9, 9, 9), Stub>>
MCCarriesV6 == <<FALSE, TRUE>>
=============================================================================
