------------------------------ MODULE MCRequests -------------------------------
(* Requests on a few tasks, for profiles of a remote and one thing more.    *)
EXTENDS Requests

TasksMC == 1..3

-----------------------------------------------------------------------------
(* Profiles.                                                               *)

D(name, args) == FoldLeft(LAMBDA out, a : out \o <<" ", a>>, <<name>>, args)
Host == D("remote", <<"vpn.example", "443">>)

\* What stands next to the remote: of each table, what it takes and what not.
Beside == {
    D("client", <<>>), D("client", <<"x">>), D("auth-user-pass", <<>>),
    D("auth-user-pass", <<"file">>), D("verb", <<"9">>), D("verb", <<"12">>),
    D("verb", <<"2", "2">>), D("keepalive", <<"9", "12">>), D("keepalive", <<"9", "x">>),
    D("resolv-retry", <<"infinite">>), D("resolv-retry", <<"x">>),
    D("explicit-exit-notify", <<>>), D("explicit-exit-notify", <<"9">>),
    D("port", <<"0">>), D("tun-mtu", <<"65536">>), D("mssfix", <<"infinite", "x">>),
    D("dns-updown", <<"disable">>), D("dns-updown", <<"force">>), D("setenv", <<"AUTOLOGIN", "1">>),
    D("setenv", <<"AUTOLOGIN", "1", "1">>), D("setenv", <<"PATH", "1">>), D("proto", <<"tcp-client">>),
    D("proto", <<"sctp">>), D("dev", <<"tun0">>), D("dev", <<"tap">>), D("dev", <<"eth0">>),
    D("tls-version-min", <<"1.2", "or-highest">>), D("topology", <<"subnet", "or-highest">>),
    D("peer-fingerprint", <<"aa:bb">>), D("peer-fingerprint", <<"x">>),
    D("verify-x509-name", <<"x", "name">>), D("verify-x509-name", <<"x", "y">>),
    D("cipher", <<"AES">>), D("remote-cert-ku", <<"x", "y">>), D("cipher", <<"x", "y">>),
    D("remote", <<"2001:DB8::1">>), D("REMOTE", <<"10.8.0.1", "0443", "tcp4-client">>),
    D("remote", <<"vpn.example", "65536">>), D("route", <<"x", "y", "z", "1">>),
    D("route", <<"x", "y", "z", "q">>), D("redirect-gateway", <<"def1">>),
    D("dhcp-option", <<"dns", "10.8.0.1">>), D("dhcp-option", <<>>),
    D("http-proxy", <<"10.8.0.1", "443", "auto">>),
    D("http-proxy", <<"10.8.0.1", "443", "file">>), D("static-challenge", <<"x", "1", "1">>),
    D("static-challenge", <<"x", "2">>), D("up", <<"x">>), D("management", <<"x">>),
    D("frobnicate", <<>>), D("cipher", <<"|">>), D("cipher", <<"..">>), D("#", <<"x">>), <<" ">>, <<"NUL">>,
    <<"static-challenge", " ", "\"", "a", " ", "b", "\"", " ", "0">>,
    <<"static-challenge", " ", "a", "\\", " ", "b", " ", "'", "1", "'">>,
    <<"verify-x509-name", " ", "\"", "\"">>, <<"cipher", " ", "\\", "a", " ", "b">>,
    <<"cipher", " ", "\"", "a">>, <<"cipher", " ", "a", "\\">>, <<"client", ";", "x">>,
    <<"<", "ca">>, <<"<", "/", "ca", ">">>, <<"<", "a", " ", "b", ">">>,
    D("cipher", <<"x", "x", "x">>), D("verb", <<"1", "1", "1", "1", "1">>),
    D("verb", <<"1", "1", "1", "1", "1", "1">>)}

\* The inline blocks, with lines for their bodies.
Body == {<<>>, << <<>> >>, << <<"KEY">> >>, << <<"KEY">>, <<"KEY">> >>, <<Host>>,
         << <<"<", "/", "key", ">">> >>, << D("client", <<>>) >>, Block("ca", <<>>),
         << <<"KEY", "KEY", "KEY", "KEY", "KEY", "KEY">> >>, << <<"\"">> >>}
Blocks == {Block(tag, body) : tag \in {"ca", "connection"}, body \in Body}
    \cup {Block("auth-user-pass", <<>>), Block("CA", << <<"KEY">> >>)}

\* What also stands next to anything else.
Pairs == {D("remote", <<"2001:DB8::1">>), D("route", <<"x">>), D("dns-updown", <<"disable">>)}

TextsMC ==
    {<<Host, line>> : line \in Beside} \cup {<<Host>> \o block : block \in Blocks}
    \cup {<<a, b>> : a \in Beside, b \in Pairs} \cup Blocks
    \cup {<<>>, <<Host, Host, Host, Host>>, [n \in 1..MaxFileBytes |-> Host]}
    \cup {<<Host>> \o Block("ca", <<>>) \o Block(tag, <<>>) : tag \in {"ca", "key"}}
    \cup {<<Host>> \o Block("ca", <<>>) \o Block("key", <<>>) \o Block("cert", <<>>),
          << <<"<", "ca", ">">>, Host>>}

-----------------------------------------------------------------------------
(* Plans.                                                                  *)

Vpn == <<"vpn">>
Simple == [totp |-> FALSE, seed |-> "absent", password |-> "absent"]
Plan == [requests |-> [t \in TasksMC |-> NoRequest], files |-> <<>>, edits |-> {}, questions |-> {},
         typed |-> {}, setup |-> Simple]
Holding(text) == [i \in {Vpn} |-> [by |-> 0, text |-> text]]
Requested(a, b, c) == [Plan EXCEPT !.requests = <<a, b, c>>]

\* One import of any text, looked at and connected afterwards.
Importing ==
    {Requested(ImportRequest(<<"VPN", " ", "#">>, text), Request("connect", Vpn), NoRequest) :
        text \in TextsMC}

\* Requests that meet in the directory and in the session.
Secure == <<Host, D("dhcp-option", <<"dns", "10.8.0.1">>)>> \o Block("ca", << <<"KEY">> >>)
Meeting ==
    LET import(name) == ImportRequest(name, Secure)
    IN { Requested(import(Vpn), import(<<"-", "vpn", "-", "-", "1">>), import(Vpn)),
         Requested(import(Vpn), import(Vpn), Request("delete", Vpn)),
         Requested(import(<<" ", "#">>), import(<<"a", "-", "b", "-", "c">>), Request("list", <<>>)),
         [Requested(Request("delete", Vpn), Request("connect", Vpn), Request("disconnect", <<>>))
             EXCEPT !.files = Holding(Secure)],
         [Requested(Request("connect", Vpn), Request("connect", Vpn), Request("disconnect", <<>>))
             EXCEPT !.files = Holding(<<Host>>)],
         [Requested(Request("disconnect", <<>>), Request("connect", Vpn), Request("disconnect", <<>>))
             EXCEPT !.files = Holding(<<Host>>)],
         [Requested(Request("get", Vpn), Request("connect", Vpn), Request("delete", <<"..", "/", "x">>))
             EXCEPT !.files = Holding(<<Host>>),
                    !.edits = {<<Host, D("up", <<"x">>)>>, <<Host, D("route", <<"x">>)>>}] }

\* One attempt with its questions, for what settings and keyring hold.
SetupsMC == [totp : BOOLEAN, seed : {"absent", "unusable", "short", "long"},
             password : {"absent", "stored", "unreadable"}]
Asking ==
    {[Requested(Request("connect", Vpn), NoRequest, NoRequest)
        EXCEPT !.files = Holding(<<Host>>), !.setup = s, !.typed = Shapes, !.questions = Questions] :
            s \in {x \in SetupsMC : ~x.totp => x.seed = "absent"}}

PlansMC == Importing \cup Meeting \cup Asking

===============================================================================
