------------------------------- MODULE NetAddr -------------------------------
(***************************************************************************)
(* IP addresses, and the rules that say which of them a socket may have at *)
(* either end: the destination policy and the tunnel-source check of       *)
(* proxy/src/egress.rs, the endpoint check of daemon/src/policy/types.rs,  *)
(* the resolver denylist the daemon keeps a copy of                        *)
(* (daemon/src/session/proxy/resolver_denylist.rs), and the client list of *)
(* proxy/src/listener/cidr.rs.                                             *)
(*                                                                         *)
(* An address keeps what those rules look at.  `oct` are the four octets   *)
(* of an IPv4 address, or the last four of an IPv6 one; `seg` is the first *)
(* segment of an IPv6 address and `mid` says whether segments 1 to 5 are   *)
(* all zero, zero up to a final ffff, or anything else.                    *)
(***************************************************************************)
EXTENDS Integers, Sequences

Octet == 0..255

V4(a, b, c, d) == [fam |-> 4, seg |-> 0, mid |-> "zero", oct |-> <<a, b, c, d>>]

V6(seg, mid, oct) == [fam |-> 6, seg |-> seg, mid |-> mid, oct |-> oct]

Quad == Octet \X Octet \X Octet \X Octet

Segment == 0..(2 ^ 16 - 1)

\* Stands for whatever does not parse as an address.
Malformed == [fam |-> 0, seg |-> 0, mid |-> "zero", oct |-> <<0, 0, 0, 0>>]

Addresses ==
    [fam : {4}, seg : {0}, mid : {"zero"}, oct : Quad]
      \cup [fam : {6}, seg : Segment, mid : {"zero", "ffff", "other"}, oct : Quad]

-----------------------------------------------------------------------------
(* The predicates of the standard library the rules are written with.      *)

IsMapped(a) == a.fam = 6 /\ a.seg = 0 /\ a.mid = "ffff"

IsUnspecified(a) == a.seg = 0 /\ a.mid = "zero" /\ a.oct = <<0, 0, 0, 0>>

IsLoopback(a) ==
    IF a.fam = 4 THEN a.oct[1] = 127
    ELSE a.seg = 0 /\ a.mid = "zero" /\ a.oct = <<0, 0, 0, 1>>

IsMulticast(a) == IF a.fam = 4 THEN a.oct[1] \in 224..239 ELSE a.seg >= 65280

IsBroadcast(a) == a.oct = <<255, 255, 255, 255>>

IsPrivate(a) ==
    \/ a.oct[1] = 10
    \/ a.oct[1] = 172 /\ a.oct[2] \in 16..31
    \/ a.oct[1] = 192 /\ a.oct[2] = 168

\* segments()[0] & 0xffc0 == 0xfe80 and, for IPv4, 169.254/16.
IsLinkLocal(a) ==
    IF a.fam = 4 THEN a.oct[1] = 169 /\ a.oct[2] = 254 ELSE a.seg \in 65152..65215

\* segments()[0] & 0xfe00 == 0xfc00.
IsUniqueLocal(a) == a.seg \in 64512..65023

\* segments()[..6] == [0; 6].
FirstSixZero(a) == a.seg = 0 /\ a.mid = "zero"

-----------------------------------------------------------------------------
(* egress.rs.                                                              *)

\* Mutant: the mapped spelling is left as it is.
CanonicalAsWritten(a) == a

\* canonicalize, canonical_ip: ::ffff:a.b.c.d is a.b.c.d.
Canonical(a) ==
    IF IsMapped(a) THEN [fam |-> 4, seg |-> 0, mid |-> "zero", oct |-> a.oct] ELSE a

DenyReasonV4(a, allowPrivate) ==
    CASE IsLoopback(a) -> "Loopback"
      [] a.oct[1] = 0 -> "Unspecified"
      [] IsLinkLocal(a) -> "LinkLocal"
      [] IsMulticast(a) -> "Multicast"
      [] IsBroadcast(a) -> "Broadcast"
      [] IsPrivate(a) /\ ~allowPrivate -> "Private"
      [] OTHER -> "None"

DenyReasonV6(a, allowPrivate) ==
    CASE IsLoopback(a) -> "Loopback"
      [] IsUnspecified(a) -> "Unspecified"
      [] IsMulticast(a) -> "Multicast"
      [] IsLinkLocal(a) -> "LinkLocal"
      [] FirstSixZero(a) /\ ~IsLoopback(a) /\ ~IsUnspecified(a) -> "Reserved"
      [] IsUniqueLocal(a) /\ ~allowPrivate -> "Private"
      [] OTHER -> "None"

\* check_destination: "None" lets the dial go on.
CheckDestination(addr, allowPrivate) ==
    LET a == Canonical(addr)
    IN  IF a.fam = 4 THEN DenyReasonV4(a, allowPrivate) ELSE DenyReasonV6(a, allowPrivate)

\* validate_tunnel_source: what a tun device may call its own address.
ValidTunnelSource(a) ==
    IF a.fam = 4
    THEN /\ ~IsUnspecified(a) /\ ~IsLoopback(a) /\ ~IsLinkLocal(a)
         /\ ~IsMulticast(a) /\ ~IsBroadcast(a) /\ a.oct[1] # 0
    ELSE /\ ~IsUnspecified(a) /\ ~IsLoopback(a) /\ ~IsMulticast(a)
         /\ ~IsLinkLocal(a) /\ ~IsMapped(a) /\ ~FirstSixZero(a)

-----------------------------------------------------------------------------
(* policy/types.rs: the addresses a tunnel policy is made for.             *)

ValidateAddress(family, a) ==
    /\ a.fam = family
    /\ ~IsUnspecified(a) /\ ~IsLoopback(a) /\ ~IsMulticast(a) /\ ~IsLinkLocal(a)
    /\ a.fam = 4 => ~IsBroadcast(a) /\ a.oct[1] # 0

-----------------------------------------------------------------------------
(* resolver_denylist.rs, written out a second time in the daemon.          *)

IsUsableV4(a) ==
    /\ ~IsLoopback(a) /\ a.oct[1] # 0 /\ ~IsLinkLocal(a)
    /\ ~IsMulticast(a) /\ ~IsBroadcast(a)

IsUsableV6(a) ==
    /\ ~IsLoopback(a) /\ ~IsUnspecified(a) /\ ~IsMulticast(a)
    /\ ~IsLinkLocal(a) /\ ~FirstSixZero(a)

IsUsableResolver(addr) ==
    LET a == Canonical(addr) IN IF a.fam = 4 THEN IsUsableV4(a) ELSE IsUsableV6(a)

-----------------------------------------------------------------------------
(* cidr.rs: which remote clients may talk to a listener.                   *)

\* prefix_matches: whole octets, then the remainder under its mask.
PrefixMatches(network, peer, prefixLen) ==
    LET whole == prefixLen \div 8
        unit == 2 ^ (8 - (prefixLen % 8))
    IN  /\ \A i \in 1..whole : network[i] = peer[i]
        /\ prefixLen % 8 = 0 \/ network[whole + 1] \div unit = peer[whole + 1] \div unit

\* The octets of an address.  "other" stands for one such middle part.
Octets(a) ==
    IF a.fam = 4 THEN a.oct
    ELSE <<a.seg \div 256, a.seg % 256>>
           \o [i \in 1..10 |-> CASE a.mid = "zero" -> 0
                                 [] a.mid = "ffff" -> IF i > 8 THEN 255 ELSE 0
                                 [] OTHER -> 1]
           \o a.oct

\* Cidr::new refuses a prefix longer than the family's addresses; a rule
\* without a prefix is one address.
MaxPrefix(a) == IF a.fam = 4 THEN 32 ELSE 128

ValidCidr(cidr) == cidr.len <= MaxPrefix(cidr.net)

\* Cidr::contains: the peer's spelling does not matter, the rule's does.
CidrContains(cidr, peer) ==
    LET p == Canonical(peer)
    IN  cidr.net.fam = p.fam /\ PrefixMatches(Octets(cidr.net), Octets(p), cidr.len)

\* is_peer_allowed: this machine always, others when a network names them.
IsPeerAllowed(allowed, peer) ==
    \/ IsLoopback(Canonical(peer))
    \/ \E c \in allowed : CidrContains(c, peer)
=============================================================================
