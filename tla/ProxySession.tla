----------------------------- MODULE ProxySession -----------------------------
(***************************************************************************)
(* What happens between a client connecting to the proxy and the relay:    *)
(* admission and first-byte dispatch (proxy/src/listener/session.rs), the  *)
(* SOCKS5 and HTTP CONNECT front ends (socks5.rs, http.rs) with the        *)
(* authentication limiter they share, and the dial (dialer.rs, resolver.rs,*)
(* egress.rs).                                                             *)
(*                                                                         *)
(* Sessions run in parallel; the limiter is locked once to ask for         *)
(* capacity and once more to record a failure.  A connection slot is used  *)
(* again when its session is over.  What a client sends is abstract: each  *)
(* message says how the reader judges it, a destination says which form it *)
(* was written in.  Time passes in steps that refill one token.            *)
(***************************************************************************)
EXTENDS NetAddr, FiniteSetsExt, Functions

CONSTANTS
    Slots,          \* Connections at one time
    Peers,          \* Addresses clients connect from
    AllowedCidrs,   \* ListenerConfig.allowed_cidrs
    Listeners,      \* The configurations to consider, see `on` below
    AnswerLists,    \* What nameservers answer
    Burst,          \* AUTH_FAILURE_BURST
    MaxTracked,     \* MAX_TRACKED_PEERS
    MaxTicks        \* Bound on time

ASSUME ProxySessionAssumption ==
    /\ Burst \in Nat \ {0} /\ MaxTracked \in Nat \ {0}
    /\ IsFiniteSet(Slots) /\ Slots # {}

ASSUME PeerAssumption ==
    /\ Peers \subseteq Addresses /\ IsFiniteSet(Peers)
    /\ \A cidr \in AllowedCidrs : cidr.net \in Addresses /\ cidr.len \in Nat /\ ValidCidr(cidr)

VARIABLES
    on,         \* The listener: whether it wants authentication, whether its
                \* tunnel has IPv6 and the policy lets private addresses
                \* through; who its clients are, what they speak and ask for
                \* and how often, and whether its tunnel is replaced (bounds)
    conn,       \* The session in each slot
    bucket,     \* AuthRateLimiter.buckets: tokens of the tracked peers
    guesses,    \* History: failures recorded since a peer's bucket was made
    ticks,      \* Time
    current,    \* Whether the egress handle is still current
    counters,   \* ResolverCounters
    failures,   \* ProxyStats.auth_failures
    unheard,    \* History: denials whose client did not take them
    opened      \* How many connections there have been

vars == <<on, conn, bucket, guesses, ticks, current, counters, failures, unheard, opened>>

\* A session: where it is, its peer and front end, whether the credentials it
\* presented are right, what it has told the client, the candidates that are
\* left to dial, and the address of the socket it has.
Session(st, peer, proto, knew, verdicts, cands, to) ==
    [st |-> st, peer |-> peer, proto |-> proto, knew |-> knew, verdicts |-> verdicts,
     cands |-> cands, to |-> to]

Idle == Session("none", Malformed, "none", FALSE, <<>>, <<>>, Malformed)

Become(c, s) == conn' = [conn EXCEPT ![c] = s]

\* The front end is chosen; the client presents something; a step of the dial.
Speak(c, st, proto) ==
    Become(c, Session(st, conn[c].peer, proto, FALSE, conn[c].verdicts, <<>>, Malformed))

Go(c, st, knew) ==
    Become(c, Session(st, conn[c].peer, conn[c].proto, knew, conn[c].verdicts, <<>>, Malformed))

Try(c, st, cands, to) ==
    Become(c, Session(st, conn[c].peer, conn[c].proto, conn[c].knew, conn[c].verdicts, cands, to))

\* The session ends with what it wrote last: a verdict, or nothing.
Over(c, verdict) ==
    Become(c, Session("over", Malformed, "none", FALSE, conn[c].verdicts \o verdict, <<>>, Malformed))

Refused == <<"failure">>
Silently == <<>>

\* Waiting for the client to say something, under the handshake timeout.
Reading == {"dispatch", "greet", "auth", "request", "head"}

\* Or to take the denial that is being written, under the same timeout.
Waiting == Reading \cup {"denying"}

Negotiating == Waiting \cup {"capacity", "verify"}

-----------------------------------------------------------------------------
(* listener/session.rs.                                                    *)

\* admit: before any byte is read.
Admit(c, peer) ==
    /\ conn[c].st \in {"none", "over"} /\ opened < on.connections
    /\ IsPeerAllowed(AllowedCidrs, peer)
    /\ Become(c, Session("dispatch", peer, "none", FALSE, <<>>, <<>>, Malformed))
    /\ opened' = opened + 1
    /\ UNCHANGED <<bucket, guesses, ticks, current, counters, failures, unheard>>

\* classify, on the byte peek_first_byte saw.
Dispatch(c, byte) ==
    /\ conn[c].st = "dispatch"
    /\ CASE byte = "0x05" -> Speak(c, "greet", "socks5")
         [] byte = "A-Z" -> Speak(c, "head", "http")
         [] OTHER -> Over(c, Silently)
    /\ UNCHANGED <<bucket, guesses, ticks, current, counters, failures, unheard, opened>>

-----------------------------------------------------------------------------
(* AuthRateLimiter.                                                        *)

Tracked == DOMAIN bucket

\* Mutant: the last token is one too many.
HasCapacityAlways(peer) == peer \in Tracked => bucket[peer] >= 0

HasCapacity(peer) == peer \in Tracked => bucket[peer] >= 1

\* Mutant: the most drained peer goes.
MakeRoomDrained(buckets) ==
    LET kept == {q \in DOMAIN buckets : buckets[q] < Burst}
        least == {p \in kept : \A q \in kept : buckets[p] <= buckets[q]}
    IN  IF Cardinality(kept) < MaxTracked THEN {[p \in kept |-> buckets[p]]}
        ELSE {[p \in kept \ {gone} |-> buckets[p]] : gone \in least}

\* Peers that have refilled are dropped; if none had, one of those with the
\* most tokens goes.  The map is never more than full, so one is enough.
MakeRoom(buckets) ==
    LET kept == {q \in DOMAIN buckets : buckets[q] < Burst}
        most == {p \in kept : \A q \in kept : buckets[q] <= buckets[p]}
    IN  IF Cardinality(kept) < MaxTracked THEN {[p \in kept |-> buckets[p]]}
        ELSE {[p \in kept \ {gone} |-> buckets[p]] : gone \in most}

\* record_failure_at.
RecordFailure(peer) ==
    LET next == Max({(IF peer \in Tracked THEN bucket[peer] ELSE Burst) - 1, 0})
        room == IF Cardinality(Tracked) >= MaxTracked /\ peer \notin Tracked
                THEN MakeRoom(bucket) ELSE {bucket}
    IN  \E kept \in room :
          /\ bucket' = [p \in DOMAIN kept \cup {peer} |-> IF p = peer THEN next ELSE kept[p]]
          /\ guesses' = [p \in Peers |-> CASE p = peer -> IF p \in Tracked THEN guesses[p] + 1 ELSE 1
                                            [] p # peer /\ p \in DOMAIN kept -> guesses[p]
                                            [] OTHER -> 0]

\* Time refills every bucket (Bucket::refilled).
Tick ==
    /\ ticks < MaxTicks /\ ticks' = ticks + 1
    /\ bucket' = [p \in Tracked |-> Min({bucket[p] + 1, Burst})]
    /\ UNCHANGED <<conn, guesses, current, counters, failures, unheard, opened>>

-----------------------------------------------------------------------------
(* socks5.rs: greet, authenticate, read_request.                           *)

\* No method offered is malformed, and like a bad version has no reply.
Greet(c, methods) ==
    /\ conn[c].st = "greet"
    /\ CASE methods = {} -> Over(c, Silently)
         [] methods # {} /\ (IF on.auth THEN "userpass" ELSE "none") \notin methods -> Over(c, Refused)
         [] OTHER -> Go(c, IF on.auth THEN "auth" ELSE "request", conn[c].knew)
    /\ UNCHANGED <<bucket, guesses, ticks, current, counters, failures, unheard, opened>>

\* The sub-negotiation has been read; an unknown version has no reply.
ReadCredentials(c, secret) ==
    /\ conn[c].st = "auth"
    /\ IF secret = "unversioned" THEN Over(c, Silently) ELSE Go(c, "capacity", secret = "right")
    /\ UNCHANGED <<bucket, guesses, ticks, current, counters, failures, unheard, opened>>

\* Where a session goes once it is allowed to ask for a destination.
Authorized(c) == Go(c, IF conn[c].proto = "socks5" THEN "request" ELSE "target", conn[c].knew)

\* has_capacity: a throttled client is denied like any other.
CheckCapacity(c) ==
    /\ conn[c].st = "capacity"
    /\ Go(c, IF HasCapacity(conn[c].peer) THEN "verify" ELSE "denying", conn[c].knew)
    /\ UNCHANGED <<bucket, guesses, ticks, current, counters, failures, unheard, opened>>

\* Credentials::verify and record_failure.
Verify(c) ==
    /\ conn[c].st = "verify"
    /\ IF conn[c].knew THEN Authorized(c) /\ UNCHANGED <<bucket, guesses>>
       ELSE Go(c, "denying", FALSE) /\ RecordFailure(conn[c].peer)
    /\ UNCHANGED <<ticks, current, counters, failures, unheard, opened>>

\* Mutant: the errors of one front end are no failures to the listener.
DenySocks5Only(c) ==
    /\ conn[c].st = "denying" /\ Over(c, Refused)
    /\ failures' = IF conn[c].proto = "socks5" THEN failures + 1 ELSE failures
    /\ UNCHANGED <<bucket, guesses, ticks, current, counters, unheard, opened>>

\* The denial, which does not say why, is written; the error is then one that
\* `serve` counts.
Deny(c) ==
    /\ conn[c].st = "denying" /\ Over(c, Refused) /\ failures' = failures + 1
    /\ UNCHANGED <<bucket, guesses, ticks, current, counters, unheard, opened>>

\* read_target, finish_ip_target, domain_target: "ok", or the error.
Socks5Target(d) ==
    CASE d.form = "unknown" -> "Malformed"
      [] d.form = "invalid" -> "InvalidDestination"
      [] d.form \in {"address", "literal"} /\ d.addr.fam = 6 /\ ~on.hasV6 ->
            "AddressTypeNotSupported"
      [] OTHER -> IF d.port = 0 THEN "InvalidDestination" ELSE "ok"

\* What the dialer is given: an address to connect to, or a name to look up.
SetTarget(c, d) ==
    IF d.form = "name" THEN Try(c, "resolve", <<>>, Malformed) ELSE Try(c, "dial", <<d.addr>>, Malformed)

\* The address is read before the command is judged; framing errors close
\* without a reply.
Request(c, d, command) ==
    /\ conn[c].st = "request"
    /\ LET error == IF Socks5Target(d) = "ok" /\ command # "CONNECT"
                    THEN "CommandNotSupported" ELSE Socks5Target(d)
       IN  CASE error = "ok" -> SetTarget(c, d)
             [] error = "Malformed" -> Over(c, Silently)
             [] OTHER -> Over(c, Refused)
    /\ UNCHANGED <<bucket, guesses, ticks, current, counters, failures, unheard, opened>>

-----------------------------------------------------------------------------
(* http.rs: read_head, parse_head, authorize, target_from_authority.       *)

\* The head is complete, or has outgrown its cap, or breaks a framing rule.
\* Without the header the client is told to authenticate, uncounted.
ReadHead(c, head) ==
    /\ conn[c].st = "head"
    /\ CASE head = "malformed" \/ (on.auth /\ head = "anonymous") -> Over(c, Refused)
         [] on.auth /\ head \in {"right", "wrong"} -> Go(c, "capacity", head = "right")
         [] OTHER -> Go(c, "target", conn[c].knew)
    /\ UNCHANGED <<bucket, guesses, ticks, current, counters, failures, unheard, opened>>

\* The port is parsed first, and an IPv6 literal needs its brackets.
HttpTarget(d) ==
    CASE d.form \in {"unknown", "invalid"} \/ d.port = 0 -> "InvalidDestination"
      [] d.form = "literal" /\ d.addr.fam = 6 -> "InvalidDestination"
      [] d.form = "address" /\ d.port # 0 /\ d.addr.fam = 6 /\ ~on.hasV6 -> "Ipv6Unsupported"
      [] OTHER -> "ok"

Target(c, d) ==
    /\ conn[c].st = "target"
    /\ IF HttpTarget(d) = "ok" THEN SetTarget(c, d) ELSE Over(c, Refused)
    /\ UNCHANGED <<bucket, guesses, ticks, current, counters, failures, unheard, opened>>

-----------------------------------------------------------------------------
(* Timeouts and clients that leave.                                        *)

\* A denial that could not be written ends in an error that nobody counts.
Unheard(c) == unheard' = IF conn[c].st = "denying" THEN unheard + 1 ELSE unheard

\* Mutant: the dispatch byte may take for ever.
HandshakeTimeoutNoPeek(c) ==
    /\ conn[c].st \in Waiting \ {"dispatch"} /\ Unheard(c)
    /\ Over(c, IF conn[c].proto = "http" THEN Refused ELSE Silently)
    /\ UNCHANGED <<bucket, guesses, ticks, current, counters, failures, opened>>

\* peek_first_byte and SOCKS5 close; HTTP answers 408 first.
HandshakeTimeout(c) ==
    /\ conn[c].st \in Waiting /\ Unheard(c)
    /\ Over(c, IF conn[c].proto = "http" THEN Refused ELSE Silently)
    /\ UNCHANGED <<bucket, guesses, ticks, current, counters, failures, opened>>

\* End of file: a truncated HTTP head is malformed, the rest is an i/o error.
ClientLeaves(c) ==
    /\ conn[c].st \in Waiting \cup {"relay"} /\ Unheard(c)
    /\ Over(c, IF conn[c].st = "head" THEN Refused ELSE Silently)
    /\ UNCHANGED <<bucket, guesses, ticks, current, counters, failures, opened>>

-----------------------------------------------------------------------------
(* dialer.rs, resolver.rs and egress.rs.                                   *)

Count(counter) == counters' = [counters EXCEPT ![counter] = @ + 1]

\* A failed dial is answered with the code of its DialError.
DialFailed(c) == Over(c, Refused)

\* TunnelResolver::resolve, up to the query.
Resolve(c) ==
    /\ conn[c].st = "resolve"
    /\ IF current THEN Try(c, "lookup", <<>>, Malformed) /\ UNCHANGED counters
       ELSE DialFailed(c) /\ Count("refused")
    /\ UNCHANGED <<bucket, guesses, ticks, current, failures, unheard, opened>>

\* accept_answers: families the tunnel carries, then the destination policy.
AcceptAnswers(answers) ==
    SelectSeq(answers, LAMBDA a : /\ on.hasV6 \/ Canonical(a).fam = 4
                                  /\ CheckDestination(a, on.allowPrivate) = "None")

Answered(c, answers) ==
    /\ conn[c].st = "lookup"
    /\ LET accepted == AcceptAnswers(answers)
       IN  IF accepted # <<>> THEN Try(c, "dial", accepted, Malformed) /\ Count("lookups")
           ELSE DialFailed(c) /\ Count("failed")
    /\ UNCHANGED <<bucket, guesses, ticks, current, failures, unheard, opened>>

\* `classify`, and the resolver's own total timeout.
LookupFails(c) ==
    /\ conn[c].st = "lookup" /\ DialFailed(c) /\ Count("failed")
    /\ UNCHANGED <<bucket, guesses, ticks, current, failures, unheard, opened>>

\* TunEgress::tcp refuses: stale, denied, or of a family the tunnel lacks.
EgressRefuses(addr) ==
    \/ ~current
    \/ CheckDestination(addr, on.allowPrivate) # "None"
    \/ Canonical(addr).fam = 6 /\ ~on.hasV6

\* The next candidate after one that failed, or the last one's error.
NextCandidate(c, rest) ==
    IF rest # <<>> THEN Try(c, "dial", rest, Malformed) ELSE DialFailed(c)

\* TcpDialer::tcp, candidate by candidate.
Dial(c) ==
    /\ conn[c].st = "dial"
    /\ LET addr == Head(conn[c].cands)
           rest == Tail(conn[c].cands)
       IN  IF EgressRefuses(addr) THEN NextCandidate(c, rest)
           ELSE Try(c, "connecting", rest, Canonical(addr))
    /\ UNCHANGED <<bucket, guesses, ticks, current, counters, failures, unheard, opened>>

ConnectFails(c) ==
    /\ conn[c].st = "connecting" /\ NextCandidate(c, conn[c].cands)
    /\ UNCHANGED <<bucket, guesses, ticks, current, counters, failures, unheard, opened>>

\* dial_upstream: the deadline HTTP puts on the whole of Dialer::tcp.
DialUpstreamTimeout(c) ==
    /\ conn[c].st \in {"resolve", "lookup", "dial", "connecting"} /\ conn[c].proto = "http"
    /\ Over(c, Refused)
    /\ UNCHANGED <<bucket, guesses, ticks, current, counters, failures, unheard, opened>>

\* The success reply, then the relay.
Connected(c) ==
    /\ conn[c].st = "connecting"
    /\ Become(c, Session("relay", conn[c].peer, conn[c].proto, conn[c].knew,
                         Append(conn[c].verdicts, "success"), <<>>, conn[c].to))
    /\ UNCHANGED <<bucket, guesses, ticks, current, counters, failures, unheard, opened>>

\* Another tunnel is published while this listener's sessions still run.
TunnelReplaced ==
    /\ on.replaced /\ current /\ current' = FALSE
    /\ UNCHANGED <<conn, bucket, guesses, ticks, counters, failures, unheard, opened>>

-----------------------------------------------------------------------------

Init ==
    /\ on \in Listeners
    /\ conn = [c \in Slots |-> Idle] /\ bucket = [p \in {} |-> 0]
    /\ guesses = [p \in Peers |-> 0] /\ ticks = 0 /\ current = TRUE
    /\ counters = [lookups |-> 0, failed |-> 0, refused |-> 0]
    /\ failures = 0 /\ unheard = 0 /\ opened = 0

\* What the client of a slot does, and what the session makes of it.
ClientStep(c) ==
    \/ \E p \in Peers : p \in on.peers /\ Admit(c, p)
    \/ \E byte \in on.bytes : Dispatch(c, byte)
    \/ \E m \in SUBSET {"none", "userpass"} : Greet(c, m)
    \/ \E secret \in {"right", "wrong", "unversioned"} : ReadCredentials(c, secret)
    \/ \E d \in on.destinations, command \in {"CONNECT", "BIND"} : Request(c, d, command)
    \/ \E head \in {"malformed", "anonymous", "right", "wrong"} : ReadHead(c, head)
    \/ ClientLeaves(c)

\* What the session does by itself.
SessionStep(c) ==
    \/ CheckCapacity(c) \/ Verify(c) \/ Deny(c) \/ \E d \in on.destinations : Target(c, d)
    \/ Resolve(c) \/ Dial(c)

RemoteStep(c) ==
    \/ \E answers \in AnswerLists : Answered(c, answers)
    \/ ConnectFails(c) \/ Connected(c)

Step ==
    \/ \E c \in Slots : ClientStep(c) \/ SessionStep(c) \/ RemoteStep(c)
                        \/ HandshakeTimeout(c) \/ LookupFails(c) \/ DialUpstreamTimeout(c)
    \/ Tick \/ TunnelReplaced

Next == Step /\ UNCHANGED on

Spec == Init /\ [][Next]_vars

\* Sessions are polled and their timers fire; nothing is assumed of clients,
\* nameservers and destinations.
FairSpec ==
    /\ Spec
    /\ \A c \in Slots :
         /\ WF_vars(SessionStep(c) /\ UNCHANGED on)
         /\ WF_vars(HandshakeTimeout(c) /\ UNCHANGED on)
         /\ WF_vars(LookupFails(c) /\ UNCHANGED on)
         /\ WF_vars(DialUpstreamTimeout(c) /\ UNCHANGED on)

-----------------------------------------------------------------------------
(* Properties.                                                             *)

\* Every variable keeps its type.
TypeOK ==
    /\ \A c \in Slots :
         /\ conn[c].st \in Negotiating \cup {"none", "target", "resolve", "lookup", "dial",
                                             "connecting", "relay", "over"}
         /\ conn[c].peer \in Peers \cup {Malformed} /\ Len(conn[c].verdicts) <= 1
         /\ conn[c].st = "dial" => conn[c].cands # <<>>
    /\ Tracked \subseteq Peers /\ \A p \in Tracked : bucket[p] \in 0..Burst
    /\ guesses \in [Peers -> 0..on.connections] /\ ticks \in 0..MaxTicks
    /\ opened \in 0..on.connections

\* The bit k of an address, counted from the top.
Bit(octets, k) == (octets[(k - 1) \div 8 + 1] \div 2 ^ (7 - ((k - 1) % 8))) % 2

\* Whoever has a session is this machine, or agrees with an allowed network in
\* every bit of its prefix (is_peer_allowed, prefix_matches).
AdmittedIsAllowed ==
    \A c \in Slots :
        LET p == Canonical(conn[c].peer)
        IN  conn[c].st \notin {"none", "over"} =>
              \/ IsLoopback(p)
              \/ \E cidr \in AllowedCidrs :
                   /\ cidr.net.fam = p.fam
                   /\ \A k \in 1..cidr.len : Bit(Octets(cidr.net), k) = Bit(Octets(p), k)

\* Past the handshake.
Granted == {"target", "resolve", "lookup", "dial", "connecting", "relay"}

\* A client that is dialled for was admitted and, through either front end,
\* presented the credentials (negotiate of socks5.rs and http.rs); and whatever
\* it asked for, by address, by literal or by a name that answers with it, no
\* socket goes to an address the policy denies or the tunnel cannot carry, in
\* any spelling (canonicalize, check_destination).
DialledIsAllowed ==
    /\ AdmittedIsAllowed
    /\ \A c \in Slots : on.auth /\ conn[c].st \in Granted => conn[c].knew
    /\ \A c \in Slots : conn[c].st \in {"connecting", "relay"} =>
        LET a == conn[c].to
        IN  /\ a.fam = 6 => on.hasV6
            /\ ~IsMapped(a) /\ ~IsLoopback(a) /\ ~IsLinkLocal(a) /\ ~IsMulticast(a)
            /\ (IsPrivate(a) /\ a.fam = 4) => on.allowPrivate

\* A bucket pays for its burst and for what time gives back.  The check and the
\* record are two lock acquisitions, so that the sessions of a peer that have
\* passed the check when its last token goes get one guess each beyond that, and
\* time may bring a last token back once a step (has_capacity_at,
\* record_failure_at).  The limiter never tracks more peers than its bound.
GuessesAreBounded ==
    /\ \A p \in Peers :
         guesses[p] <= Burst + ticks + (ticks + 1) * (Cardinality(Slots) - 1)
    /\ Cardinality(Tracked) <= MaxTracked

\* "An attacker cannot flush their own throttle by flooding from others": a
\* throttled peer gets capacity back by time alone, unless every tracked peer
\* was as drained as it was.
ThrottleSurvivesFlood ==
    [][\A p \in Peers :
         (ticks' = ticks /\ ~HasCapacity(p) /\ p \notin DOMAIN bucket')
            => \A q \in Tracked : bucket[q] = 0]_vars

\* A client is given one verdict, and success only with an upstream behind it
\* (handshake of socks5.rs and http.rs).
VerdictsAreTrue ==
    \A c \in Slots :
        /\ Len(conn[c].verdicts) <= 1
        /\ conn[c].verdicts = <<"success">> => conn[c].st \in {"relay", "over"}

\* The sessions there are, and those that are being denied.
Served == {c \in Slots : conn[c].st \notin {"none", "over"}}
Denied == {c \in Slots : conn[c].st = "denying"}

\* What is reported is true: the verdicts, and the failures.  Every failure the
\* limiter recorded is one the user is told of, unless its client did not take
\* the denial, and no session is counted twice (is_auth_failure,
\* record_auth_failure).
ReportsAreTrue ==
    /\ VerdictsAreTrue
    /\ SumFunction(guesses) <= failures + unheard + Cardinality(Denied)
    /\ failures + unheard + Cardinality(Served) <= opened

\* The statistics show every failure the limiter has recorded.
EveryFailureIsCounted == SumFunction(guesses) <= failures + Cardinality(Denied)

\* A client that stops talking does not hold a session before the relay: every
\* negotiation and every lookup ends (the handshake timeouts, peek_first_byte,
\* total_timeout), and so does an HTTP client's dial, black-holed destination or
\* not (dial_upstream).
SessionsMoveOn ==
    \A c \in Slots :
        /\ (conn[c].st \in Negotiating \cup {"lookup"})
              ~> (conn[c].st \notin Negotiating \cup {"lookup"})
        /\ (conn[c].st = "connecting" /\ conn[c].proto = "http")
              ~> (conn[c].st # "connecting" \/ conn[c].proto # "http")

\* proxy/src/listener.rs:81: connect_timeout "Bounds the upstream dial, which
\* the handshake timeout does not cover", whichever front end dials.
DialIsBounded ==
    \A c \in Slots : (conn[c].st = "connecting") ~> (conn[c].st # "connecting")
=============================================================================
