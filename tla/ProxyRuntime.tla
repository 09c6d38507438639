----------------------------- MODULE ProxyRuntime -----------------------------
(***************************************************************************)
(* The proxy's life beside the tunnel's: ProxyPublisher and the DNS tap    *)
(* (daemon/src/session/proxy.rs, proxy/capture.rs), the runtime that links *)
(* the worker (proxy/runtime.rs), and the worker's egress, resolver,       *)
(* accept loops and sessions (proxy/src/egress.rs, resolver.rs, dialer.rs, *)
(* listener.rs, listener/session.rs, stats.rs).                            *)
(*                                                                         *)
(* VPN sessions follow each other, as Session shows; session n is `n`.     *)
(* Every publication that gets as far as a new egress generation g starts  *)
(* at most one listener, and g names it.  An accept loop, and every client *)
(* it admitted, is a task of its own that goes on after `shutdown` has     *)
(* returned; what a client says before it is connected is the matter of    *)
(* module ProxySession.                                                    *)
(***************************************************************************)
EXTENDS TunnelDns

CONSTANTS
    Clients,        \* Local connections to the proxy
    Addrs,          \* The configured bind addresses, all loopback
    Domains,        \* The names normalise_domain makes of search domains
    Pushes,         \* The PUSH_REPLY option lists a server may send
    Fallback,       \* ProxySettings.fallback_dns
    CarriesV6,      \* Whether the tunnel of each VPN session carries IPv6
    MaxSessions,    \* Bound on VPN sessions
    MaxCandidates   \* Bound on the addresses a name resolves to

ASSUME ProxyRuntimeAssumption ==
    /\ MaxSessions \in Nat /\ MaxCandidates \in Nat \ {0}
    /\ CarriesV6 \in [1..MaxSessions -> BOOLEAN]
    /\ IsFiniteSet(Clients)

\* What the words of an option come to.
Tokens == Addresses \cup Domains \cup {Malformed}

ASSUME PushAssumption ==
    /\ \A options \in Pushes : options \in Seq([kind : Kinds, tokens : Seq(Tokens)])
    /\ Fallback \in Seq(Addresses)

VARIABLES
    n,          \* The VPN session
    phase,      \* "idle", "bound", "publishing", "up", "closing" or "revoked"
    mgmt,       \* Whether its management stream is still read
    capture,    \* DnsCaptureCell
    named,      \* History: the servers its own pushes name
    step,       \* Where `publish` is
    plan,       \* The TunnelDnsPlan of the publication, until it is revoked
    live,       \* EgressState.live_generation
    slot,       \* The generation in EgressState.current, 0 for none
    rslot,      \* The generation in ResolverState.current, 0 for none
    pool,       \* The nameservers of each generation's resolver
    tunnelOf,   \* History: the VPN session of each generation
    listener,   \* The generation in ProxyPublisher.listener, 0 for none
    stopped,    \* Listeners whose acceptors have been signalled
    acceptor,   \* Each listener's accept loops
    client,     \* Each client connection
    active      \* Each listener's active_sessions

dns == <<capture, named, plan>>
egress == <<live, slot, rslot, pool, tunnelOf>>
tasks == <<acceptor, client, active>>
vars == <<n, phase, mgmt, dns, step, egress, listener, stopped, tasks>>

Generations == 1..MaxSessions

NoPlan == FallbackPlan("NoPushReply", <<>>, FALSE)

Absent == [gen |-> 0, addr |-> "none", st |-> "none", left |-> 0, sock |-> 0]

\* A session holds its SessionGuard from its first poll to its end.
Counted == {"serving", "named", "lookup", "dial", "connecting", "relay"}

ClientsOf(g, a) == {c \in Clients : client[c].gen = g /\ client[c].addr = a}

HoldsPort(g, a) == acceptor[g][a] \notin {"none", "gone"}

-----------------------------------------------------------------------------
(* The DNS tap.                                                            *)

\* Mutant: a new management socket keeps what the last one captured.
BindKeepsCapture ==
    /\ phase = "idle" /\ n < MaxSessions
    /\ n' = n + 1 /\ phase' = "bound" /\ mgmt' = TRUE /\ named' = {}
    /\ UNCHANGED <<capture, plan, step, egress, listener, stopped, tasks>>

\* TappedTransportFactory::bind.
Bind ==
    /\ phase = "idle" /\ n < MaxSessions
    /\ n' = n + 1 /\ phase' = "bound" /\ mgmt' = TRUE
    /\ capture' = NoneReceived /\ named' = {}
    /\ UNCHANGED <<plan, step, egress, listener, stopped, tasks>>

\* TappedStream::poll_read to DnsCaptureCell::absorb: a log line that is an
\* accepted push; any other line changes nothing.
ObservePush(options) ==
    /\ mgmt
    /\ capture' = AbsorbCapture(capture, Capture(PushReply(options)))
    /\ named' = IF phase = "revoked" THEN named ELSE named \cup NamedServers(options)
    /\ UNCHANGED <<n, phase, mgmt, plan, step, egress, listener, stopped, tasks>>

-----------------------------------------------------------------------------
(* ProxyPublisher::publish and LinkedRuntime::start.                       *)

\* stop_listener: LinkedListener::shutdown signals and does not wait.
StopListener ==
    /\ stopped' = stopped \cup ({listener} \ {0})
    /\ listener' = 0

BeginPublish ==
    /\ phase = "bound" /\ phase' = "publishing" /\ step' = "plan"
    /\ StopListener
    /\ UNCHANGED <<n, mgmt, dns, egress, tasks>>

\* Any failure is the caller's to tear down; nothing published is withdrawn.
PublishFails == phase' = "closing" /\ step' = "none" /\ plan' = NoPlan

Plan ==
    /\ step = "plan"
    /\ LET planned == PlanDns(capture, Fallback, CarriesV6[n])
       IN  IF planned.source = "NoResolver" THEN PublishFails
           ELSE plan' = planned /\ step' = "generation" /\ UNCHANGED phase
    /\ UNCHANGED <<n, mgmt, capture, named, egress, listener, stopped, tasks>>

\* EgressState::tunnel_up, up to fetch_add.
NextGeneration ==
    /\ step = "generation" /\ step' = "slot" /\ live' = live + 1
    /\ tunnelOf' = [tunnelOf EXCEPT ![live'] = n]
    /\ UNCHANGED <<n, phase, mgmt, dns, slot, rslot, pool, listener, stopped, tasks>>

\* resolve_ifindex finds no device, or validate_tunnel_source refuses it.
NoSuchTunnel ==
    /\ step = "generation" /\ PublishFails
    /\ UNCHANGED <<n, mgmt, capture, named, egress, listener, stopped, tasks>>

\* The rest of it: the identity is stored.
StoreIdentity ==
    /\ step = "slot" /\ step' = "resolver" /\ slot' = live
    /\ UNCHANGED <<n, phase, mgmt, dns, live, rslot, pool, tunnelOf, listener, stopped, tasks>>

\* ResolverState::tunnel_up with the planned servers and no fallback of its own.
StartResolver ==
    /\ step = "resolver" /\ step' = "bind" /\ rslot' = live
    /\ pool' = [pool EXCEPT ![live] =
                  SelectNameservers(plan.servers, <<>>, CarriesV6[n]).accepted]
    /\ UNCHANGED <<n, phase, mgmt, dns, live, slot, tunnelOf, listener, stopped, tasks>>

\* listener::start: bind_all skips a loopback address it cannot have, and an
\* accept loop is spawned for each it has.
BindAll(bound) ==
    /\ step = "bind" /\ bound # {}
    /\ \A a \in bound, g \in Generations : ~HoldsPort(g, a)
    /\ acceptor' = [acceptor EXCEPT ![live] =
                      [a \in Addrs |-> IF a \in bound THEN "accepting" ELSE "none"]]
    /\ step' = "store"
    /\ UNCHANGED <<n, phase, mgmt, dns, egress, listener, stopped, client, active>>

BindFails ==
    /\ step = "bind" /\ PublishFails
    /\ UNCHANGED <<n, mgmt, capture, named, egress, listener, stopped, tasks>>

StoreListener ==
    /\ step = "store" /\ step' = "none" /\ phase' = "up" /\ listener' = live
    /\ UNCHANGED <<n, mgmt, dns, egress, stopped, tasks>>

-----------------------------------------------------------------------------
(* ProxyPublisher::revoke and what teardown does after it.                 *)

Revoke ==
    /\ phase \in {"bound", "up", "closing"} /\ phase' = "revoked"
    /\ StopListener /\ capture' = NoneReceived /\ named' = {} /\ plan' = NoPlan
    /\ UNCHANGED <<n, mgmt, step, egress, tasks>>

\* The management channel is closed after the policy is removed.
CloseManagement ==
    /\ phase = "revoked" /\ phase' = "idle" /\ mgmt' = FALSE
    /\ UNCHANGED <<n, dns, step, egress, listener, stopped, tasks>>

-----------------------------------------------------------------------------
(* accept_loop.                                                            *)

\* `select!` picks among the ready branches at random: a client may still be
\* accepted after the signal.
Accept(c, g, a) ==
    /\ acceptor[g][a] = "accepting" /\ client[c].st = "none"
    /\ client' = [client EXCEPT ![c] =
                    [gen |-> g, addr |-> a, st |-> "spawned", left |-> 0, sock |-> 0]]
    /\ UNCHANGED <<n, phase, mgmt, dns, step, egress, listener, stopped, acceptor, active>>

\* EMFILE and the like: the loop sleeps, deaf to the signal.
AcceptError(g, a) ==
    /\ acceptor[g][a] = "accepting"
    /\ acceptor' = [acceptor EXCEPT ![g][a] = "backoff"]
    /\ UNCHANGED <<n, phase, mgmt, dns, step, egress, listener, stopped, client, active>>

BackoffEnds(g, a) ==
    /\ acceptor[g][a] = "backoff"
    /\ acceptor' = [acceptor EXCEPT ![g][a] = "accepting"]
    /\ UNCHANGED <<n, phase, mgmt, dns, step, egress, listener, stopped, client, active>>

\* The signal is seen, and abort_all flags every session of this loop.
SeeStop(g, a) ==
    /\ acceptor[g][a] = "accepting" /\ g \in stopped
    /\ acceptor' = [acceptor EXCEPT ![g][a] = "aborting"]
    /\ UNCHANGED <<n, phase, mgmt, dns, step, egress, listener, stopped, client, active>>

\* Client c goes on in state st, with `left` candidates and socket `sock`.
Becomes(c, gen, st, left, sock) ==
    client' = [client EXCEPT ![c] = [gen |-> gen, addr |-> client[c].addr, st |-> st,
                                     left |-> left, sock |-> sock]]

Moves(c, st, left, sock) == Becomes(c, client[c].gen, st, left, sock)

Vanishes(c) == Becomes(c, 0, "over", client[c].left, 0)

\* The session's future is dropped: guard, sockets and all.
End(c) ==
    /\ Vanishes(c)
    /\ active' = IF client[c].st \in Counted
                 THEN [active EXCEPT ![client[c].gen] = @ - 1] ELSE active

Aborting(c) == client[c].gen # 0 /\ acceptor[client[c].gen][client[c].addr] = "aborting"

\* Mutants: an aborted session leaves the gauge alone, and the loop waits
\* for sessions to end by themselves.
SessionAbortedUncounted(c) ==
    /\ Aborting(c)
    /\ Vanishes(c)
    /\ UNCHANGED <<n, phase, mgmt, dns, step, egress, listener, stopped, acceptor, active>>

SessionAbortedWaits(c) ==
    /\ Aborting(c) /\ client[c].st = "spawned" /\ End(c)
    /\ UNCHANGED <<n, phase, mgmt, dns, step, egress, listener, stopped, acceptor>>

SessionAborted(c) ==
    /\ Aborting(c) /\ End(c)
    /\ UNCHANGED <<n, phase, mgmt, dns, step, egress, listener, stopped, acceptor>>

\* The loop returns and its TcpListener is closed.
AcceptorEnds(g, a) ==
    /\ acceptor[g][a] = "aborting" /\ ClientsOf(g, a) = {}
    /\ acceptor' = [acceptor EXCEPT ![g][a] = "gone"]
    /\ UNCHANGED <<n, phase, mgmt, dns, step, egress, listener, stopped, client, active>>

-----------------------------------------------------------------------------
(* A client's session: `admit`'s task, TunnelDialer::tcp and the relay.    *)

\* The task is polled, with its client in state `from`.
Polled(c, from) == client[c].st = from /\ client[c].gen # 0 /\ ~Aborting(c)

IsCurrent(g) == g = live

SessionStep == UNCHANGED <<n, phase, mgmt, dns, step, egress, listener, stopped, acceptor>>

SessionStarts(c) ==
    /\ Polled(c, "spawned")
    /\ Moves(c, "serving", client[c].left, 0)
    /\ active' = [active EXCEPT ![client[c].gen] = @ + 1]
    /\ SessionStep

\* The handshake has produced a Target: an address, or a name.
Negotiated(c, target) ==
    /\ Polled(c, "serving")
    /\ Moves(c, target, 1, 0)
    /\ UNCHANGED active /\ SessionStep

\* TunnelResolver::resolve, up to the query.
Resolve(c) ==
    /\ Polled(c, "named")
    /\ IF pool[client[c].gen] # <<>> /\ IsCurrent(client[c].gen)
       THEN Moves(c, "lookup", client[c].left, 0) /\ UNCHANGED active
       ELSE End(c)
    /\ SessionStep

Answered(c, candidates) ==
    /\ Polled(c, "lookup")
    /\ Moves(c, "dial", candidates, 0)
    /\ UNCHANGED active /\ SessionStep

\* Mutant: the dial relies on the check made before the lookup.
DialUnchecked(c) ==
    /\ Polled(c, "dial") /\ SessionStep
    /\ Moves(c, "connecting", client[c].left, client[c].gen)
    /\ UNCHANGED active

\* TunEgress::tcp: ensure_current, then a pinned socket that connects.  A
\* refused candidate is followed by the next.
Dial(c) ==
    /\ Polled(c, "dial") /\ SessionStep
    /\ IF IsCurrent(client[c].gen)
       THEN /\ Moves(c, "connecting", client[c].left, client[c].gen)
            /\ UNCHANGED active
       ELSE IF client[c].left > 1
            THEN Moves(c, "dial", client[c].left - 1, 0) /\ UNCHANGED active
            ELSE End(c)

ConnectFails(c) ==
    /\ Polled(c, "connecting") /\ SessionStep
    /\ IF client[c].left > 1
       THEN /\ Moves(c, "dial", client[c].left - 1, 0)
            /\ UNCHANGED active
       ELSE End(c)

Connected(c) ==
    /\ Polled(c, "connecting") /\ SessionStep
    /\ Moves(c, "relay", client[c].left, client[c].sock) /\ UNCHANGED active

\* The client or its destination hangs up, the handshake or the lookup fails.
HangsUp(c) ==
    /\ \E st \in {"serving", "lookup", "relay"} : Polled(c, st)
    /\ End(c) /\ SessionStep

-----------------------------------------------------------------------------

Init ==
    /\ n = 0 /\ phase = "idle" /\ mgmt = FALSE
    /\ capture = NoneReceived /\ named = {} /\ plan = NoPlan
    /\ step = "none" /\ live = 0 /\ slot = 0 /\ rslot = 0
    /\ pool = [g \in Generations |-> <<>>] /\ tunnelOf = [g \in Generations |-> 0]
    /\ listener = 0 /\ stopped = {}
    /\ acceptor = [g \in Generations |-> [a \in Addrs |-> "none"]]
    /\ client = [c \in Clients |-> Absent] /\ active = [g \in Generations |-> 0]

PublisherStep ==
    \/ Bind \/ \E options \in Pushes : ObservePush(options)
    \/ BeginPublish \/ Plan \/ NextGeneration \/ NoSuchTunnel \/ StoreIdentity
    \/ StartResolver \/ \E bound \in SUBSET Addrs : BindAll(bound)
    \/ BindFails \/ StoreListener \/ Revoke \/ CloseManagement

AcceptorStep(g, a) ==
    \/ \E c \in Clients : Accept(c, g, a)
    \/ AcceptError(g, a) \/ BackoffEnds(g, a) \/ SeeStop(g, a) \/ AcceptorEnds(g, a)

ClientStep(c) ==
    \/ SessionAborted(c) \/ SessionStarts(c) \/ Resolve(c) \/ Dial(c)
    \/ \E target \in {"dial", "named"} : Negotiated(c, target)
    \/ \E k \in 1..MaxCandidates : Answered(c, k)
    \/ ConnectFails(c) \/ Connected(c) \/ HangsUp(c)

Next ==
    \/ PublisherStep
    \/ \E g \in Generations, a \in Addrs : AcceptorStep(g, a)
    \/ \E c \in Clients : ClientStep(c)

Spec == Init /\ [][Next]_vars

\* The runtime polls its tasks and its timers fire.  SeeStop is strongly
\* fair because `select!` chooses at random: an acceptor whose socket is
\* always ready, with clients or with errors, still comes to the signal.
\* Nothing is assumed of clients, destinations or nameservers.
FairSpec ==
    /\ Spec
    /\ \A g \in Generations, a \in Addrs :
         /\ SF_vars(SeeStop(g, a))
         /\ WF_vars(BackoffEnds(g, a)) /\ WF_vars(AcceptorEnds(g, a))
    /\ \A c \in Clients : WF_vars(SessionAborted(c))

-----------------------------------------------------------------------------
(* Properties.                                                             *)

\* Every variable keeps its type.
TypeOK ==
    /\ n \in 0..MaxSessions /\ mgmt \in BOOLEAN
    /\ phase \in {"idle", "bound", "publishing", "up", "closing", "revoked"}
    /\ step \in {"none", "plan", "generation", "slot", "resolver", "bind", "store"}
    /\ {live, slot, rslot, listener} \subseteq 0..MaxSessions
    /\ stopped \subseteq Generations
    /\ tunnelOf \in [Generations -> 0..MaxSessions]
    /\ \A g \in Generations, a \in Addrs :
         acceptor[g][a] \in {"none", "accepting", "backoff", "aborting", "gone"}
    /\ client \in [Clients -> [gen : 0..MaxSessions, addr : Addrs \cup {"none"},
                               st : Counted \cup {"none", "spawned", "over"},
                               left : 0..MaxCandidates, sock : 0..MaxSessions]]
    /\ active \in [Generations -> 0..Cardinality(Clients)]

\* A listener nobody has told to stop belongs to the tunnel that is up or coming
\* up: revoke runs before anything else of a session is torn down.
UnstoppedIsCurrent ==
    \A g \in Generations :
        (g \notin stopped /\ \E a \in Addrs : HoldsPort(g, a))
            => phase \in {"publishing", "up"} /\ tunnelOf[g] = n

\* Once the listener is up, its resolver has a server to ask.  The servers are
\* those the tunnel's own push named or the configured fallback, never an earlier
\* tunnel's (DnsCaptureCell, PushReply, plan_dns), and each is one the egress
\* would dial: the daemon's copy of the destination rules and the worker's own
\* agree (resolver_denylist.rs, check_destination).
PoolIsPlanned ==
    phase = "up" =>
        /\ pool[live] # <<>> /\ Range(pool[live]) = Range(plan.servers)
        /\ Range(pool[live]) \subseteq IF plan.source = "Pushed" THEN named ELSE Range(Fallback)
        /\ \A s \in Range(pool[live]) :
             CheckDestination(s, TRUE) = "None" /\ (s.fam = 4 \/ CarriesV6[n])

\* What the proxy serves is its own tunnel's, the listener and the nameservers
\* behind it.
ListenerIsOwn == UnstoppedIsCurrent /\ PoolIsPlanned

\* Once a later tunnel is published, no client of an earlier one opens a
\* socket, however late its accept loop sees the signal (TunEgress::tcp).
NoSocketOnOldTunnel ==
    [][\A c \in Clients :
         (client'[c].sock # 0 /\ client[c].sock = 0) =>
            \A g \in Generations : tunnelOf[g] <= tunnelOf[client[c].gen]]_vars

\* active_sessions is the number of sessions that are running, however they
\* end (SessionGuard).
GaugeCounts ==
    \A g \in Generations :
        active[g] = Cardinality({c \in Clients : client[c].gen = g /\ client[c].st \in Counted})

\* A listener told to stop lets go of its ports and of every client, those
\* that never say another word included (accept_loop, JoinSet::shutdown).
StopEndsSessions ==
    \A g \in Generations :
        (g \in stopped) ~> (\A a \in Addrs : ~HoldsPort(g, a) /\ ClientsOf(g, a) = {})

\* The abstract specification this one implements.
Promise == INSTANCE PinnedSockets WITH
    tunnel <- live,
    handle <- [c \in Clients |-> client[c].gen],
    socket <- [c \in Clients |-> client[c].sock]

\* Egress, listener and sessions together keep the promise of PinnedSockets.
KeepsPromise == Promise!Spec

\* proxy/src/egress.rs:157: a handle is current "False once the tunnel has been
\* replaced or torn down".  After revoke no handle dials.
TornDownIsStale ==
    [][\A c \in Clients :
         (client'[c].sock # 0 /\ client[c].sock = 0) => phase \notin {"revoked", "idle"}]_vars
=============================================================================
