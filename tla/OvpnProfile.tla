------------------------------ MODULE OvpnProfile ------------------------------
(***************************************************************************)
(* Validating an .ovpn profile and emitting its canonical form             *)
(* (shared/src/ovpn: lexer, directive, args, profile, mod).                *)
(*                                                                         *)
(* A text is a sequence of lines and a line a sequence of atoms: words,     *)
(* which no operation here looks into, and the characters that mean        *)
(* something to the lexer.  A token is a sequence of atoms; sizes are      *)
(* counted in atoms.                                                       *)
(***************************************************************************)
EXTENDS Integers, Sequences, FiniteSets, SequencesExt

CONSTANTS
    MaxFileBytes, MaxDirectives, MaxLineBytes, MaxInlineBytes, MaxInlineBlocks, MaxArgs

SizeOf(text) == FoldLeft(LAMBDA sum, line : sum + Len(line) + 1, 0, text)

Trim(line) ==
    LET ink == {i \in DOMAIN line : line[i] # " "}
    IN IF ink = {} THEN <<>> ELSE SubSeq(line, Min(ink), Max(ink))

Capitals == [REMOTE |-> "remote", CA |-> "ca", VPN |-> "vpn"]
Lower(token) == [i \in DOMAIN token |-> IF token[i] \in DOMAIN Capitals THEN Capitals[token[i]]
                                        ELSE token[i]]

-----------------------------------------------------------------------------
(* The lexer.                                                              *)

\* tokenize: a character behind a backslash does not by itself start a token.
Tokenizing == [tokens |-> <<>>, current |-> <<>>, some |-> FALSE, quote |-> "", escaped |-> FALSE,
               over |-> FALSE]

TokenizeAtom(t, c) ==
    CASE t.over -> t
      [] ~t.over /\ t.escaped -> [t EXCEPT !.current = Append(@, c), !.escaped = FALSE]
      [] ~t.over /\ ~t.escaped ->
         CASE c = "\\" /\ t.quote # "'" -> [t EXCEPT !.escaped = TRUE]
           [] c \in {"'", "\""} /\ t.quote \in {"", c} ->
                [t EXCEPT !.quote = IF @ = c THEN "" ELSE c, !.some = TRUE]
           [] c \in {"#", ";"} /\ t.quote = "" -> [t EXCEPT !.over = TRUE]
           [] c = " " /\ t.quote = "" ->
                IF t.some THEN [t EXCEPT !.tokens = Append(@, t.current), !.current = <<>>,
                                         !.some = FALSE]
                ELSE t
           [] OTHER -> [t EXCEPT !.current = Append(@, c), !.some = TRUE]

Tokenize(line) ==
    LET t == FoldLeft(TokenizeAtom, Tokenizing, line)
    IN [error |-> t.quote # "" \/ t.escaped,
        tokens |-> IF t.some THEN Append(t.tokens, t.current) ELSE t.tokens]

Lexed == [error |-> "", items |-> <<>>, open |-> <<>>, body |-> <<>>, blocks |-> 0]
Fails(l, why) == [l EXCEPT !.error = why]

\* close_tag: the name between </ and >, or nothing.
CloseTag(line) ==
    LET t == Trim(line)
    IN IF Len(t) >= 3 /\ SubSeq(t, 1, 2) = <<"<", "/">> /\ Last(t) = ">"
       THEN Lower(SubSeq(t, 3, Len(t) - 1)) ELSE <<>>

\* Between an opening tag and its closing one every line is body; finish_block
\* makes no difference between no line and one empty line.
LexInside(l, line) ==
    LET grown == Append(l.body, line)
    IN IF CloseTag(line) = l.open
       THEN IF l.blocks + 1 > MaxInlineBlocks THEN Fails(l, "TooManyInlineBlocks")
            ELSE [l EXCEPT !.open = <<>>, !.body = <<>>, !.blocks = @ + 1,
                           !.items = Append(@, [k |-> "block", tag |-> l.open[1],
                                                body |-> IF l.body = << <<>> >> THEN <<>> ELSE l.body])]
       ELSE IF SizeOf(grown) > MaxInlineBytes THEN Fails(l, "InlineBlockTooLarge")
       ELSE [l EXCEPT !.body = grown]

Marks == {" ", "'", "\"", "\\", "#", ";", "<", "/", ">", "|", "..", "NUL"}

\* open_tag
LexTag(l, t) ==
    LET inner == IF Last(t) = ">" THEN SubSeq(t, 2, Len(t) - 1) ELSE <<>>
    IN CASE inner # <<>> /\ inner[1] = "/" -> Fails(l, "UnexpectedInlineClose")
         [] inner # <<>> /\ Len(inner) = 1 /\ inner[1] \notin Marks -> [l EXCEPT !.open = Lower(inner)]
         [] OTHER -> Fails(l, "ForbiddenInlineTag")

LexDirective(l, line) ==
    LET t == Tokenize(line)
        name(token) == IF Len(token) = 1 THEN Lower(token)[1] ELSE "in no table"
    IN CASE t.error -> Fails(l, "UnterminatedQuote")
         [] ~t.error /\ t.tokens = <<>> -> l
         [] ~t.error /\ t.tokens # <<>> ->
              IF Len(t.tokens) - 1 > MaxArgs THEN Fails(l, "TooManyArguments")
              ELSE [l EXCEPT !.items = Append(@, [k |-> "directive", name |-> name(t.tokens[1]),
                                                  args |-> Tail(t.tokens)])]

LexLine(l, line) ==
    LET t == Trim(line)
    IN CASE l.error # "" -> l
         [] l.error = "" /\ Contains(line, "NUL") -> Fails(l, "NulByte")
         [] l.error = "" /\ ~Contains(line, "NUL") ->
            CASE l.open # <<>> -> LexInside(l, line)
              [] l.open = <<>> /\ (t = <<>> \/ t[1] \in {"#", ";"}) -> l
              [] OTHER -> IF Len(line) > MaxLineBytes THEN Fails(l, "LineTooLong")
                          ELSE IF t[1] = "<" THEN LexTag(l, t) ELSE LexDirective(l, line)

\* The end of the text: an open block is an error.
LexEnd(l) == IF l.error = "" /\ l.open # <<>> THEN Fails(l, "UnterminatedInlineBlock") ELSE l

\* lex
Lex(text) == LexEnd(FoldLeft(LexLine, Lexed, text))

-----------------------------------------------------------------------------
(* Arguments.                                                              *)

Is(token, word) == token = <<word>>
OneOf(token, words) == Len(token) = 1 /\ token[1] \in words

\* check_charset
Permitted(token) == \A i \in DOMAIN token : token[i] \notin Marks \ {" ", "/"}

\* The numerals texts mention, with what u32::parse makes of them.
Numerals == ("0" :> 0) @@ ("1" :> 1) @@ ("2" :> 2) @@ ("9" :> 9) @@ ("12" :> 12) @@ ("443" :> 443)
    @@ ("0443" :> 443) @@ ("65535" :> 65535) @@ ("65536" :> 65536) @@ ("1194" :> 1194) @@ ("4" :> 4)

\* parse_u32_in
NumIn(token, lo, hi) == OneOf(token, DOMAIN Numerals) /\ Numerals[token[1]] \in lo..hi
Decimal(token) == <<ToString(Numerals[token[1]])>>

\* parse_host, with how the address or name is written out again.
Hosts == ("vpn.example" :> "vpn.example") @@ ("10.8.0.1" :> "10.8.0.1")
    @@ ("2001:DB8::1" :> "2001:db8::1") @@ ("2001:db8::1" :> "2001:db8::1")
IsHost(token) == OneOf(token, DOMAIN Hosts)
HostForm(token) == <<Hosts[token[1]]>>

\* to_ascii_uppercase, of fingerprints and option types.
Uppercase == ("aa:bb" :> "AA:BB") @@ ("dns" :> "DNS")
Upper(token) == [i \in DOMAIN token |-> IF token[i] \in DOMAIN Uppercase THEN Uppercase[token[i]]
                                        ELSE token[i]]

Arity(args, lo, hi) == Len(args) \in lo..hi
Omitted(args, i) == Len(args) < i
Port(token) == NumIn(token, 1, 65535)

-----------------------------------------------------------------------------
(* Directives.                                                             *)

InlineMaterial == {"ca", "cert", "key", "dh", "tls-auth", "tls-crypt", "tls-crypt-v2", "pkcs12",
                   "crl-verify", "extra-certs"}

\* Names that start with `management`, as far as texts mention them.
Management == {"management", "management-client"}

HardReject == {
    "plugin", "pkcs11-providers", "pkcs11-id", "pkcs11-id-management", "pkcs11-cert-private",
    "pkcs11-private-mode", "pkcs11-protected-authentication", "pkcs11-pin-cache",
    "cryptoapicert", "engine", "providers", "up", "down", "route-up", "route-pre-down",
    "ipchange", "tls-verify", "auth-user-pass-verify", "client-connect", "client-disconnect",
    "learn-address", "tls-export-cert", "client-crresponse", "tls-crypt-v2-verify",
    "auth-gen-token-secret", "log", "log-append", "status", "status-version", "writepid",
    "tmp-dir", "cd", "chroot", "client-config-dir", "ccd-exclusive", "iproute", "setcon",
    "askpass", "capath", "setenv-safe", "config", "http-proxy-user-pass",
    "auth-token-secret-file"}

ConnectionScoped == {
    "remote", "proto", "port", "lport", "rport", "nobind", "float", "connect-retry",
    "connect-retry-max", "connect-timeout", "explicit-exit-notify", "http-proxy", "socks-proxy",
    "tun-mtu", "tun-mtu-extra", "fragment", "mssfix"}

InertSetenv == {"CLIENT_CERT", "GENERIC_CONFIG", "USERNAME_AS_COMMON_NAME", "FORWARD_COMPATIBLE",
                "ALLOW_PASSWORD_SAVE", "AUTOLOGIN"}

IsInertSetenv(args) == Arity(args, 2, 2) /\ OneOf(args[1], InertSetenv) /\ OneOf(args[2], {"0", "1"})
First(args, word) == args # <<>> /\ Is(args[1], word)

\* reject_dangerous
Dangerous(name, args) ==
    \/ name \in Management \cup HardReject
    \/ name = "dns-updown" /\ ~First(args, "disable")
    \/ name = "dev" /\ First(args, "tap")
    \/ name = "setenv" /\ ~IsInertSetenv(args)

\* Classified
Rejected(why) == [as |-> "error", why |-> why, name |-> "", args |-> <<>>]
Classified(as, name, args) == [as |-> as, why |-> "", name |-> name, args |-> args]
EmitIf(ok, name, args) ==
    IF ok THEN Classified("emit", name, args) ELSE Rejected("InvalidArgument")

Flags == {"client", "pull", "tls-client", "nobind", "float", "remote-random", "persist-key",
          "persist-tun", "auth-nocache", "mute-replay-warnings", "auth-user-pass"}

AsFlag(name, args) ==
    IF args # <<>> THEN Rejected("InvalidArgument")
    ELSE Classified(IF name = "auth-user-pass" THEN name ELSE "emit", name, <<>>)

MaxSeconds == 86400
Ranges == [
    port |-> <<1, 65535>>, lport |-> <<0, 65535>>, rport |-> <<1, 65535>>,
    ping |-> <<1, MaxSeconds>>, fragment |-> <<0, 65536>>, mssfix |-> <<0, 9000>>,
    sndbuf |-> <<0, 16777216>>, rcvbuf |-> <<0, 16777216>>, mute |-> <<0, 1000>>]
    @@ ("reneg-sec" :> <<0, MaxSeconds>>) @@ ("ping-restart" :> <<1, MaxSeconds>>)
    @@ ("tun-mtu" :> <<68, 65536>>) @@ ("tun-mtu-extra" :> <<0, 65536>>)
    @@ ("connect-timeout" :> <<1, 600>>) @@ ("connect-retry-max" :> <<0, 1000>>)

Numbers == DOMAIN Ranges \cup {"verb", "keepalive", "connect-retry", "resolv-retry",
                               "explicit-exit-notify"}

\* as_number: verb is clamped, and a second argument of a range is not looked at.
AsNumber(name, args) ==
    CASE name = "verb" ->
           IF Arity(args, 1, 1) /\ NumIn(args[1], 0, 11)
           THEN Classified("emit", name, <<IF NumIn(args[1], 5, 11) THEN <<"4">> ELSE Decimal(args[1])>>)
           ELSE Rejected("InvalidArgument")
      [] name \in {"keepalive", "connect-retry"} ->
           EmitIf(Arity(args, 1, 2) /\ \A i \in DOMAIN args : NumIn(args[i], 0, MaxSeconds),
                  name, args)
      [] name = "resolv-retry" ->
           EmitIf(Arity(args, 1, 1) /\ (Is(args[1], "infinite") \/ NumIn(args[1], 0, MaxSeconds)),
                  name, args)
      [] name = "explicit-exit-notify" ->
           EmitIf(Arity(args, 0, 1) /\ (Omitted(args, 1) \/ NumIn(args[1], 0, 2)), name, args)
      [] name \in DOMAIN Ranges ->
           EmitIf(/\ Arity(args, 1, 2)
                  /\ Is(args[1], "infinite") \/ NumIn(args[1], Ranges[name][1], Ranges[name][2]),
                  name, args)

Versions == {"1.0", "1.1", "1.2", "1.3"}
Allowed == [topology |-> {"subnet", "net30", "p2p"}]
    @@ ("dev-type" :> {"tun"}) @@ ("remote-cert-tls" :> {"server"})
    @@ ("ns-cert-type" :> {"server"}) @@ ("key-direction" :> {"0", "1"})
    @@ ("route-method" :> {"exe", "ipapi", "adaptive"})
    @@ ("tls-version-min" :> Versions) @@ ("tls-version-max" :> Versions)

\* parse_transport: what each spelling is normalised to.
Transport == [udp |-> "udp", udp4 |-> "udp4", udp6 |-> "udp6",
              tcp |-> "tcp", tcp4 |-> "tcp4", tcp6 |-> "tcp6"]
    @@ ("tcp-client" :> "tcp") @@ ("tcp4-client" :> "tcp4") @@ ("tcp6-client" :> "tcp6")

Devices == {"tun", "tun0", "utun", "utun7"}     \* tun or utun, with or without digits
Keywords == DOMAIN Allowed \cup {"dns-updown", "setenv", "proto", "dev"}

\* as_keyword: proto keeps its spelling, remote does not.
AsKeyword(name, args) ==
    CASE name \in {"dns-updown", "setenv"} -> Classified("ignored", name, args)
      [] name = "proto" -> EmitIf(Arity(args, 1, 1) /\ OneOf(args[1], DOMAIN Transport), name, args)
      [] name = "dev" -> EmitIf(Arity(args, 1, 1) /\ OneOf(args[1], Devices), name, args)
      [] name \in DOMAIN Allowed ->
           EmitIf(/\ Arity(args, 1, IF name = "tls-version-min" THEN 2 ELSE 1)
                  /\ OneOf(args[1], Allowed[name])
                  /\ (Omitted(args, 2) \/ Is(args[2], "or-highest")),
                  name, args)

TokenLists == {"cipher", "data-ciphers", "data-ciphers-fallback", "auth", "tls-cipher",
               "tls-ciphersuites", "remote-cert-eku", "remote-cert-ku"}
Crypto == TokenLists \cup {"peer-fingerprint", "verify-x509-name"}

\* as_crypto
AsCrypto(name, args) ==
    CASE name = "peer-fingerprint" ->
           IF Arity(args, 1, 1) /\ OneOf(args[1], {"aa:bb", "AA:BB"})
           THEN Classified("emit", name, <<Upper(args[1])>>) ELSE Rejected("InvalidArgument")
      [] name = "verify-x509-name" ->
           EmitIf(/\ Arity(args, 1, 2)
                  /\ (Omitted(args, 2) \/ OneOf(args[2], {"name", "name-prefix", "subject"})),
                  name, args)
      [] name \in TokenLists ->
           EmitIf(Arity(args, 1, IF name = "remote-cert-ku" THEN 8 ELSE 1), name, args)

\* parse_remote and Remote::to_directive: the port defaults to 1194.
Remote(args) ==
    IF /\ Arity(args, 1, 3) /\ IsHost(args[1]) /\ (Omitted(args, 2) \/ Port(args[2]))
       /\ (Omitted(args, 3) \/ OneOf(args[3], DOMAIN Transport))
    THEN Classified("remote", "remote",
                    <<HostForm(args[1]), IF Len(args) >= 2 THEN Decimal(args[2]) ELSE <<"1194">> >>
                    \o IF Len(args) = 3 THEN <<<<Transport[args[3][1]]>>>> ELSE <<>>)
    ELSE Rejected("InvalidArgument")

\* parse_proxy: a third argument that is no keyword would be a path.
Proxy(name, args) ==
    IF /\ Arity(args, 2, 4) /\ IsHost(args[1]) /\ Port(args[2])
       /\ (Omitted(args, 3) \/ OneOf(args[3], {"auto", "auto-nct"}))
       /\ (Omitted(args, 4) \/ OneOf(args[4], {"basic", "digest", "ntlm2", "none"}))
    THEN Classified("emit", name, <<HostForm(args[1]), Decimal(args[2])>> \o SubSeq(args, 3, Len(args)))
    ELSE Rejected("InvalidArgument")

\* parse_static_challenge and StaticChallenge::to_directive
Challenge(args) ==
    IF /\ Arity(args, 2, 3) /\ NumIn(args[2], 0, 1)
       /\ (Omitted(args, 3) \/ NumIn(args[3], 0, 255))
    THEN Classified("static-challenge", "static-challenge",
                    <<args[1]>> \o [i \in 1..(Len(args) - 1) |-> Decimal(args[i + 1])])
    ELSE Rejected("InvalidArgument")

\* parse_route, redirect-gateway, parse_dhcp_option
Retained(name, args) ==
    IF CASE name = "route" -> Arity(args, 1, 4) /\ (Omitted(args, 4) \/ NumIn(args[4], 0, 65535))
         [] name = "redirect-gateway" -> TRUE
         [] name = "dhcp-option" -> Arity(args, 1, 8)
    THEN Classified("retain", name, IF name = "dhcp-option" THEN <<Upper(args[1])>> \o Tail(args)
                                    ELSE args)
    ELSE Rejected("InvalidArgument")

Routing == {"route", "redirect-gateway", "dhcp-option"}
Typed == Routing \cup {"remote", "static-challenge", "http-proxy", "socks-proxy"}

\* as_typed
AsTyped(name, args) ==
    CASE name = "remote" -> Remote(args)
      [] name \in Routing -> Retained(name, args)
      [] name = "static-challenge" -> Challenge(args)
      [] name \in {"http-proxy", "socks-proxy"} -> Proxy(name, args)

\* classify
Classify(raw, connection) ==
    LET name == raw.name  args == raw.args
    IN IF Dangerous(name, args) THEN Rejected("ForbiddenDirective")
       ELSE IF \E i \in DOMAIN args : ~Permitted(args[i]) THEN Rejected("UnsafeArgument")
       ELSE IF connection /\ name \notin ConnectionScoped THEN Rejected("ForbiddenDirective")
       ELSE CASE name \in Flags -> AsFlag(name, args)
              [] name \in Numbers -> AsNumber(name, args)
              [] name \in Keywords -> AsKeyword(name, args)
              [] name \in Crypto -> AsCrypto(name, args)
              [] name \in Typed -> AsTyped(name, args)
              [] OTHER -> Rejected("UnknownDirective")

-----------------------------------------------------------------------------
(* parse_profile and to_canonical_config.                                  *)

Parts == [error |-> "", count |-> 0, directives |-> <<>>, connections |-> <<>>,
          inline |-> <<>>, remotes |-> 0, retained |-> <<>>]

Emitted(c) == [name |-> c.name, args |-> c.args]

\* absorb
Absorb(p, c) ==
    CASE c.as = "ignored" -> p
      [] c.as = "retain" -> [p EXCEPT !.retained = Append(@, Emitted(c))]
      [] OTHER -> [p EXCEPT !.directives = Append(@, Emitted(c)),
                            !.remotes = @ + IF c.as = "remote" THEN 1 ELSE 0]

\* One directive counts towards the limit wherever it stands.
CountAndAbsorb(p, c) ==
    IF p.count + 1 > MaxDirectives THEN [p EXCEPT !.error = "TooManyDirectives"]
    ELSE IF c.as = "error" THEN [p EXCEPT !.error = c.why]
    ELSE Absorb([p EXCEPT !.count = @ + 1], c)

ParseDirective(p, raw, connection) == CountAndAbsorb(p, Classify(raw, connection))

\* parse_connection: its items, and what the profile gets of them.
ParseNested(p, item) ==
    IF p.error # "" THEN p
    ELSE IF item.k = "block" THEN [p EXCEPT !.error = "NestedInlineBlock"]
    ELSE ParseDirective(p, item, TRUE)

PushConnection(p, inner) ==
    IF inner.error # "" THEN [p EXCEPT !.error = inner.error]
    ELSE [p EXCEPT !.count = inner.count, !.remotes = @ + inner.remotes,
                   !.connections = Append(@, inner.directives)]

ParseConnection(p, block) ==
    LET lexed == Lex(block.body)
    IN PushConnection(p, FoldLeft(ParseNested, [Parts EXCEPT !.error = lexed.error, !.count = p.count],
                                  lexed.items))

ParseItem(p, item) ==
    IF p.error # "" THEN p
    ELSE IF item.k = "directive" THEN ParseDirective(p, item, FALSE)
    ELSE IF item.tag = "connection" THEN ParseConnection(p, item)
    ELSE IF item.tag \notin InlineMaterial THEN [p EXCEPT !.error = "ForbiddenInlineTag"]
    ELSE IF \E i \in DOMAIN p.inline : p.inline[i].tag = item.tag
    THEN [p EXCEPT !.error = "DuplicateInlineTag"]
    ELSE [p EXCEPT !.inline = Append(@, [tag |-> item.tag, body |-> item.body])]

\* parse_profile: the size comes before everything, what is missing after it.
ParseEnd(p) ==
    CASE p.error # "" -> p
      [] p.error = "" /\ p.count = 0 /\ p.inline = <<>> -> [p EXCEPT !.error = "EmptyProfile"]
      [] OTHER -> IF p.remotes = 0 THEN [p EXCEPT !.error = "MissingRemote"] ELSE p

ParseProfile(text) ==
    LET lexed == Lex(text)
    IN IF SizeOf(text) > MaxFileBytes THEN [Parts EXCEPT !.error = "FileTooLarge"]
       ELSE ParseEnd(FoldLeft(ParseItem, [Parts EXCEPT !.error = lexed.error], lexed.items))

Valid(text) == ParseProfile(text).error = ""

\* Mutant: an argument is written as it is.
WrittenBare(d) == FoldLeft(LAMBDA out, a : out \o <<" ">> \o a, <<d.name>>, d.args)

\* Display of EmittedDirective: an argument that is empty or has a space is quoted.
Written(d) ==
    LET quoted(a) == IF a = <<>> \/ Contains(a, " ") THEN <<"\"">> \o a \o <<"\"">> ELSE a
    IN FoldLeft(LAMBDA out, a : out \o <<" ">> \o quoted(a), <<d.name>>, d.args)

Block(tag, lines) == << <<"<", tag, ">">> >> \o lines \o << <<"<", "/", tag, ">">> >>

\* to_canonical_config: an empty body is written as an empty line.
CanonicalConfig(p) ==
    LET written(ds) == [i \in DOMAIN ds |-> Written(ds[i])]
        body(m) == IF m.body = <<>> THEN << <<>> >> ELSE m.body
    IN written(p.directives)
       \o FoldLeft(LAMBDA out, ds : out \o Block("connection", written(ds)), <<>>, p.connections)
       \o FoldLeft(LAMBDA out, m : out \o Block(m.tag, body(m)), <<>>, p.inline)

\* dhcp_dns_servers
DhcpDnsServers(p) ==
    {i \in DOMAIN p.retained : /\ p.retained[i].name = "dhcp-option" /\ Len(p.retained[i].args) >= 2
                               /\ OneOf(p.retained[i].args[1], {"DNS", "DNS6"})}

===============================================================================
