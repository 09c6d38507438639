------------------------------ MODULE TunnelDns -------------------------------
(***************************************************************************)
(* How a tunnel's nameservers are chosen: what PushReply makes of a        *)
(* PUSH_REPLY (daemon/src/session/dns.rs), the plan ProxyPublisher makes   *)
(* of that (session/proxy.rs), and the pool the resolver makes of the plan *)
(* (proxy/src/resolver/config.rs).                                         *)
(*                                                                         *)
(* A pushed option is its kind and its tokens.  A token that parses as an  *)
(* address is that address; every other one is Malformed.  A search domain *)
(* is a name, or Malformed when normalise_domain refuses it.               *)
(***************************************************************************)
EXTENDS NetAddr, FiniteSetsExt

\* The fold of SequencesExt, without the rest of that module: proofs about a list
\* are slow with all of it in scope.
FoldLeft(op(_, _), base, list) ==
    MapThenFoldSet(LAMBDA x, acc : op(acc, x), base, LAMBDA i : list[i], LAMBDA S : Max(S), DOMAIN list)

Option(kind, tokens) == [kind |-> kind, tokens |-> tokens]

\* What an option is to `absorb`: "text" is whatever it does not know, "ignored"
\* what it knows and passes over.
DomainKinds == {"dhcp-option DOMAIN", "dns search-domains"}
Kinds == DomainKinds \cup {"dhcp-option DNS", "dns server address", "ifconfig", "ipv6", "ignored", "text"}

Parses(token) == token # Malformed

\* The elements of a list that are in S, in the order of the list.
Kept(list, S) == FoldLeft(LAMBDA out, x : IF x \in S THEN Append(out, x) ELSE out, <<>>, list)

\* The servers a tunnel that carries IPv6, or does not, can reach.
Reachable(servers, hasV6) == {s \in Range(servers) : hasV6 \/ s.fam = 4}

-----------------------------------------------------------------------------
(* dns.rs: the fold over the options of one push.                          *)

Accumulator ==
    [servers |-> <<>>, domains |-> <<>>, ifconfig |-> FALSE, hasV6 |-> FALSE,
     dropped |-> 0, droppedDomains |-> 0, inList |-> FALSE]

AddOnce(s, x) == IF x \in Range(s) THEN s ELSE Append(s, x)

WithParsedAddress(acc, address) == [acc EXCEPT !.servers = AddOnce(@, address)]

WithDroppedAddress(acc) == [acc EXCEPT !.dropped = @ + 1]

WithAddress(acc, token) ==
    IF Parses(token) THEN WithParsedAddress(acc, token) ELSE WithDroppedAddress(acc)

WithDomain(acc, token) ==
    IF Parses(token) THEN [acc EXCEPT !.domains = AddOnce(@, token)]
    ELSE [acc EXCEPT !.droppedDomains = @ + 1]

WithoutContinuation(acc) == [acc EXCEPT !.inList = FALSE]

\* absorb_dhcp_option: only the first token counts, and one must be there.
FirstToken(tokens) == IF tokens = <<>> THEN Malformed ELSE Head(tokens)

AbsorbIfconfig(acc, tokens) ==
    IF Len(tokens) >= 2 /\ \A i \in {1, 2} : Parses(tokens[i]) /\ tokens[i].fam = 4
    THEN [acc EXCEPT !.ifconfig = TRUE] ELSE WithDroppedAddress(acc)

\* A fragment of a comma-separated address list, or the option after it.
AbsorbContinuation(acc, tokens) ==
    IF acc.inList /\ tokens # <<>> /\ \A i \in DOMAIN tokens : Parses(tokens[i])
    THEN FoldLeft(WithParsedAddress, acc, tokens)
    ELSE WithoutContinuation(acc)

Absorb(acc, option) ==
    LET fresh == WithoutContinuation(acc)
    IN  CASE option.kind = "dhcp-option DNS" -> WithAddress(fresh, FirstToken(option.tokens))
          [] option.kind = "dhcp-option DOMAIN" -> WithDomain(fresh, FirstToken(option.tokens))
          [] option.kind = "dns server address" ->
                [FoldLeft(WithAddress, fresh, option.tokens) EXCEPT !.inList = TRUE]
          [] option.kind = "dns search-domains" -> FoldLeft(WithDomain, fresh, option.tokens)
          [] option.kind = "ifconfig" -> AbsorbIfconfig(fresh, option.tokens)
          [] option.kind = "ipv6" -> [fresh EXCEPT !.hasV6 = TRUE]
          [] option.kind = "ignored" -> fresh
          [] OTHER -> AbsorbContinuation(acc, option.tokens)

\* PushReply::from_log_text.
PushReply(options) == FoldLeft(Absorb, Accumulator, options)

-----------------------------------------------------------------------------
(* The verdict, and the cell it is kept in.                                *)

Missing(reason) ==
    [captured |-> FALSE, servers |-> <<>>, domains |-> <<>>, reason |-> reason]

NoneReceived == Missing("NoPushReply")

MissingReason(reply) ==
    CASE reply.servers # <<>> -> "UnreachableFamily"
      [] reply.servers = <<>> /\ reply.dropped = 0 -> "NoDnsOptions"
      [] OTHER -> "AllAddressesMalformed"

\* PushReply::capture: servers of a family the push says the tunnel carries.
Capture(reply) ==
    LET usable == Kept(reply.servers, Reachable(reply.servers, reply.hasV6))
    IN  IF usable = <<>> THEN Missing(MissingReason(reply))
        ELSE [captured |-> TRUE, servers |-> usable, domains |-> reply.domains,
              reason |-> "none"]

\* DnsCaptureCell::absorb: a push without servers never demotes one with.
AbsorbCapture(cell, capture) ==
    IF capture.captured \/ ~cell.captured THEN capture ELSE cell

-----------------------------------------------------------------------------
(* session/proxy.rs: plan_dns, fallback_plan and usable_servers.           *)

UsableServers(servers, hasV6) ==
    LET allowed == Kept(servers, {s \in Range(servers) : IsUsableResolver(s)})
        usable == Kept(allowed, Reachable(allowed, hasV6))
    IN  [usable |-> usable, denied |-> Len(servers) - Len(allowed),
         wrongFamily |-> Len(allowed) - Len(usable)]

\* VettedServers::gap: a denied server is the reason given first.
Gap(vetted) == IF vetted.denied > 0 THEN "Denied" ELSE "UnreachableFamily"

FallbackPlan(reason, fallback, hasV6) ==
    LET vetted == UsableServers(fallback, hasV6)
    IN  IF vetted.usable = <<>>
        THEN [source |-> "NoResolver", servers |-> <<>>, domains |-> <<>>, reason |-> reason]
        ELSE [source |-> "TunnelFallback", servers |-> vetted.usable, domains |-> <<>>,
              reason |-> reason]

PlanDns(capture, fallback, hasV6) ==
    LET vetted == UsableServers(capture.servers, hasV6)
    IN  CASE ~capture.captured -> FallbackPlan(capture.reason, fallback, hasV6)
          [] capture.captured /\ vetted.usable = <<>> ->
                FallbackPlan(Gap(vetted), fallback, hasV6)
          [] OTHER -> [source |-> "Pushed", servers |-> vetted.usable,
                       domains |-> capture.domains, reason |-> "none"]

-----------------------------------------------------------------------------
(* resolver/config.rs.                                                     *)

\* `usable`: family, then policy, then duplicates.
UsableNameservers(servers, hasV6) ==
    FoldLeft(AddOnce, <<>>,
        Kept(servers, {s \in Reachable(servers, hasV6) : CheckDestination(s, TRUE) = "None"}))

\* select_nameservers: the pushed ones first, then what the fallback adds.
SelectNameservers(pushed, fallback, hasV6) ==
    LET first == UsableNameservers(pushed, hasV6)
        more == UsableNameservers(fallback, hasV6)
        rest == Kept(more, Range(more) \ Range(first))
    IN  [accepted |-> first \o rest,
         source |-> CASE first = <<>> /\ rest = <<>> -> "None"
                      [] first # <<>> /\ rest = <<>> -> "Pushed"
                      [] first = <<>> /\ rest # <<>> -> "Fallback"
                      [] OTHER -> "PushedWithFallback"]

-----------------------------------------------------------------------------
(* What openvpn means by the options, for comparison.                      *)

\* The servers a push names, one option at a time and without a fold: an
\* address counts when it is a token of a `dns server` option, or of the
\* unbroken run of address-only fragments behind one, or the first token of
\* a `dhcp-option DNS`.
NamedServers(options) ==
    { s \in UNION { Range(options[i].tokens) : i \in DOMAIN options } :
        /\ Parses(s)
        /\ \E i \in DOMAIN options :
             \/ options[i].kind = "dhcp-option DNS" /\ FirstToken(options[i].tokens) = s
             \/ /\ s \in Range(options[i].tokens)
                /\ \E j \in 1..i :
                     /\ options[j].kind = "dns server address"
                     /\ \A k \in j + 1..i :
                          /\ options[k].kind = "text" /\ options[k].tokens # <<>>
                          /\ \A n \in DOMAIN options[k].tokens : Parses(options[k].tokens[n]) }
=============================================================================
