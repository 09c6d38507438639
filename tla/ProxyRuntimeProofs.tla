-------------------------- MODULE ProxyRuntimeProofs --------------------------
(***************************************************************************)
(* The proxy implements PinnedSockets, for any number of clients, bind     *)
(* addresses, VPN sessions and candidate addresses: a socket is opened     *)
(* only under the identity published last.  Its gauge counts the sessions  *)
(* that run, a listener that has not been told to stop is the current      *)
(* tunnel's, and what it resolves through is what that tunnel was pushed,  *)
(* for any push of any length, whatever its tokens.                        *)
(***************************************************************************)
EXTENDS ProxyRuntime, FiniteSetTheorems, SequenceTheorems, WellFoundedInduction, TLAPS

Acceptor == {"none", "accepting", "backoff", "aborting", "gone"}

Client == [gen : 0..MaxSessions, addr : Addrs \cup {"none"},
           st : Counted \cup {"none", "spawned", "over"}, left : Int, sock : 0..MaxSessions]

Types ==
    /\ n \in Nat /\ live \in Nat /\ tunnelOf \in [Generations -> Nat]
    /\ acceptor \in [Generations -> [Addrs -> Acceptor]]
    /\ client \in [Clients -> Client]

\* Generations are counted in the order of the VPN sessions they belong to.
InOrder ==
    /\ \A g \in Generations : tunnelOf[g] <= n
    /\ live \in Generations => \A g \in Generations : tunnelOf[g] <= tunnelOf[live]

\* An accept loop is spawned after its generation was counted, and a client
\* has the generation of its loop.  It holds a socket only between Dial and
\* its end.
Follows ==
    /\ \A g \in Generations, a \in Addrs : acceptor[g][a] # "none" => g <= live
    /\ \A c \in Clients :
         /\ client[c].gen <= live
         /\ client[c].st = "none" => client[c].gen = 0
         /\ client[c].sock # 0 => client[c].st \in {"connecting", "relay"}

IInv == Types /\ InOrder /\ Follows

-----------------------------------------------------------------------------
(* The invariant.                                                          *)

\* The variables the invariant and the promise are about.
observed == <<n, live, tunnelOf, acceptor, client>>

\* The publisher's steps do not touch a client, and count generations up.
LEMMA PublisherKeeps ==
  ASSUME IInv, PublisherStep
  PROVE  /\ IInv'
         /\ client' = client /\ live' \in {live, live + 1}
         /\ tunnelOf' = tunnelOf \/ live' = live + 1
  <1> USE ProxyRuntimeAssumption DEF IInv, Generations
  <1>1. CASE Bind
    BY <1>1 DEF Bind, dns, egress, tasks, Types, InOrder, Follows
  <1>2. CASE NextGeneration
    <2>1. /\ live' = live + 1 /\ UNCHANGED <<n, acceptor, client>>
          /\ tunnelOf' = [tunnelOf EXCEPT ![live + 1] = n]
      BY Zenon, <1>2 DEF NextGeneration, tasks
    <2>2. Types'
      <3>1. n \in Nat /\ live' \in Nat /\ tunnelOf \in [Generations -> Nat]
        BY <2>1 DEF Types
      <3>2. tunnelOf' \in [Generations -> Nat]
        <4> HIDE DEF Generations, IInv
        <4> QED BY Zenon, <2>1, <3>1
      <3> QED BY Zenon, <2>1, <3>1, <3>2 DEF Types
    <2>3. InOrder'
      <3>1. \A g \in Generations : tunnelOf'[g] = IF g = live + 1 THEN n ELSE tunnelOf[g]
        BY Zenon, <2>1 DEF Types
      <3>2. \A g \in Generations : tunnelOf'[g] <= n
        BY <3>1 DEF Types, InOrder
      <3>3. live' \in Generations => tunnelOf'[live'] = n
        BY Zenon, <2>1, <3>1
      <3> QED BY Zenon, <2>1, <3>2, <3>3 DEF InOrder
    <2>4. Follows'
      <3>1. \A c \in Clients : client[c].gen \in Nat
        BY DEF Types, Client
      <3> QED BY <2>1, <3>1 DEF Types, Follows
    <2> QED BY Zenon, <2>1, <2>2, <2>3, <2>4
  <1>3. CASE \E bound \in SUBSET Addrs : BindAll(bound)
    <2>1. PICK bound \in SUBSET Addrs :
              acceptor' = [acceptor EXCEPT ![live] =
                             [a \in Addrs |-> IF a \in bound THEN "accepting" ELSE "none"]]
      BY Zenon, <1>3 DEF BindAll
    <2>2. UNCHANGED <<n, live, tunnelOf, client>>
      BY Zenon, <1>3 DEF BindAll, egress
    <2>3. [a \in Addrs |-> IF a \in bound THEN "accepting" ELSE "none"] \in [Addrs -> Acceptor]
      BY Zenon DEF Acceptor
    <2>4. Types' /\ InOrder'
      BY Zenon, <2>1, <2>2, <2>3 DEF Types, InOrder
    <2>5. \A g \in Generations : g # live => acceptor'[g] = acceptor[g]
      BY Zenon, <2>1 DEF Types
    <2>6. Follows'
      BY <2>2, <2>5 DEF Types, Follows
    <2> QED BY Zenon, <2>2, <2>4, <2>6
  <1>4. CASE UNCHANGED observed
    BY Zenon, <1>4 DEF observed, Types, InOrder, Follows
  <1>5. \/ Bind \/ NextGeneration \/ \E bound \in SUBSET Addrs : BindAll(bound)
        \/ UNCHANGED observed
    BY Zenon DEF PublisherStep, ObservePush, BeginPublish, Plan, NoSuchTunnel, StoreIdentity,
           StartResolver, BindFails, StoreListener, Revoke, CloseManagement, egress, tasks,
           observed
  <1> QED BY Zenon, <1>1, <1>2, <1>3, <1>4, <1>5 DEF Bind, NextGeneration, BindAll, egress, tasks, observed

\* The accept loop's own steps do not touch a client.
LEMMA AcceptorKeeps ==
  ASSUME IInv, NEW g \in Generations, NEW a \in Addrs,
         AcceptError(g, a) \/ BackoffEnds(g, a) \/ SeeStop(g, a) \/ AcceptorEnds(g, a)
  PROVE  IInv' /\ UNCHANGED <<client, live, tunnelOf>>
  <1>1. PICK s \in Acceptor : acceptor' = [acceptor EXCEPT ![g][a] = s]
    BY Zenon DEF AcceptError, BackoffEnds, SeeStop, AcceptorEnds, Acceptor
  <1>2. UNCHANGED <<n, live, tunnelOf, client>> /\ acceptor[g][a] # "none"
    BY Zenon DEF AcceptError, BackoffEnds, SeeStop, AcceptorEnds, egress
  <1> QED BY Zenon, <1>1, <1>2 DEF IInv, Types, InOrder, Follows

\* A client that is admitted had no handle, and gets that of its loop.
LEMMA AcceptKeeps ==
  ASSUME IInv, NEW c \in Clients, NEW g \in Generations, NEW a \in Addrs, Accept(c, g, a)
  PROVE  /\ IInv' /\ UNCHANGED <<live, tunnelOf>>
         /\ client[c].gen = 0 /\ client[c].sock = 0 /\ g \in 1..live
         /\ client' = [client EXCEPT ![c] = client'[c]]
         /\ client'[c].gen = g /\ client'[c].sock = 0
  <1> DEFINE new == [gen |-> g, addr |-> a, st |-> "spawned", left |-> 0, sock |-> 0]
  <1>1. /\ client' = [client EXCEPT ![c] = new] /\ UNCHANGED <<n, live, tunnelOf, acceptor>>
        /\ acceptor[g][a] = "accepting" /\ client[c].st = "none"
    BY Zenon DEF Accept, egress
  <1>2. new \in Client
    BY ProxyRuntimeAssumption DEF Client, Generations
  <1>3. g \in 1..live
    BY <1>1, ProxyRuntimeAssumption DEF IInv, Types, Follows, Generations
  <1>4. client[c].gen = 0 /\ client[c].sock = 0
    BY Zenon, <1>1 DEF IInv, Types, Follows
  <1>5. client'[c] = new
    BY Zenon, <1>1 DEF IInv, Types
  <1>6. Types' /\ InOrder'
    BY Zenon, <1>1, <1>2 DEF IInv, Types, InOrder
  <1>7. \A d \in Clients : d # c => client'[d] = client[d]
    BY Zenon, <1>1 DEF IInv, Types
  <1>8. /\ client'[c].gen = g /\ client'[c].sock = 0 /\ client'[c].st = "spawned"
        /\ g <= live
    BY <1>3, <1>5
  <1>9. Follows'
    BY Zenon, <1>1, <1>7, <1>8 DEF IInv, Follows
  <1> QED BY Zenon, <1>1, <1>3, <1>4, <1>5, <1>6, <1>8, <1>9 DEF IInv

\* A client that moves on keeps its handle or gives it up, and has a socket
\* only when it dials or has dialled.
LEMMA BecomesKeeps ==
  ASSUME IInv, NEW c \in Clients, NEW gen \in {0, client[c].gen},
         NEW st \in Counted \cup {"over"}, NEW left \in Int,
         NEW sock \in {0, client[c].gen, client[c].sock},
         sock # 0 => st \in {"connecting", "relay"},
         Becomes(c, gen, st, left, sock), UNCHANGED <<n, live, tunnelOf, acceptor>>
  PROVE  /\ IInv' /\ client'[c].gen = gen /\ client'[c].sock = sock
         /\ client' = [client EXCEPT ![c] = client'[c]]
  <1> DEFINE new == [gen |-> gen, addr |-> client[c].addr, st |-> st, left |-> left,
                     sock |-> sock]
  <1>1. client' = [client EXCEPT ![c] = new]
    BY Zenon DEF Becomes
  <1>2. new \in Client /\ client[c].gen <= live /\ client[c].gen \in Nat
    BY ProxyRuntimeAssumption DEF IInv, Types, Follows, Client
  <1>3. client'[c] = new /\ new.gen <= live
    BY <1>1, <1>2 DEF IInv, Types
  <1>4. st # "none"
    BY Zenon DEF Counted
  <1>5. Types' /\ InOrder'
    BY Zenon, <1>1, <1>2 DEF IInv, Types, InOrder
  <1>a. \A d \in Clients : d # c => client'[d] = client[d]
    BY Zenon, <1>1 DEF IInv, Types
  <1>b. /\ client'[c].gen <= live /\ client'[c].st = st /\ st # "none"
        /\ client'[c].sock = sock
    BY <1>3, <1>4
  <1>6. Follows'
    <2> SUFFICES ASSUME NEW d \in Clients
                 PROVE  /\ client'[d].gen <= live
                        /\ client'[d].st = "none" => client'[d].gen = 0
                        /\ client'[d].sock # 0 => client'[d].st \in {"connecting", "relay"}
      BY Zenon DEF IInv, Follows
    <2>1. CASE d = c
      BY Zenon, <1>b, <2>1
    <2>2. CASE d # c
      BY Zenon, <1>a, <2>2 DEF IInv, Follows
    <2> QED BY Zenon, <2>1, <2>2
  <1>7. client'[c].gen = gen /\ client'[c].sock = sock
    BY <1>3
  <1>8. client' = [client EXCEPT ![c] = client'[c]]
    BY Zenon, <1>1, <1>3
  <1> QED BY Zenon, <1>5, <1>6, <1>7, <1>8 DEF IInv

-----------------------------------------------------------------------------
(* A client's steps.                                                       *)

\* What a step of a client does to its handle and its socket: it keeps both,
\* gives both up, opens a socket under the identity published last, or closes
\* the socket of a candidate that did not answer.
ClientDoes(c) ==
    /\ client' = [client EXCEPT ![c] = client'[c]] /\ UNCHANGED <<live, tunnelOf>>
    /\ \/ client'[c].gen = client[c].gen /\ client'[c].sock = client[c].sock
       \/ client[c].gen # 0 /\ client'[c].gen = 0 /\ client'[c].sock = 0
       \/ /\ client[c].sock = 0 /\ client[c].gen = live
          /\ client'[c].gen = live /\ client'[c].sock = live
       \/ client'[c].gen = client[c].gen /\ client[c].sock # 0 /\ client'[c].sock = 0

\* A session that ends gives up its handle and its socket.
LEMMA EndDoes ==
  ASSUME IInv, NEW c \in Clients, End(c), client[c].gen # 0,
         UNCHANGED <<n, live, tunnelOf, acceptor>>
  PROVE  IInv' /\ ClientDoes(c)
  <1>1. client[c].left \in Int
    BY Zenon DEF IInv, Types, Client
  <1>2. Becomes(c, 0, "over", client[c].left, 0)
    BY Zenon DEF End, Vanishes
  <1>3. /\ IInv' /\ client'[c].gen = 0 /\ client'[c].sock = 0
        /\ client' = [client EXCEPT ![c] = client'[c]]
    BY Zenon, <1>1, <1>2, BecomesKeeps
  <1> QED BY Zenon, <1>3 DEF ClientDoes

\* Every step of a client is one of those four.
LEMMA ClientKeeps ==
  ASSUME IInv, NEW c \in Clients, ClientStep(c)
  PROVE  IInv' /\ ClientDoes(c)
  <1>a. UNCHANGED <<n, live, tunnelOf, acceptor>>
    BY Zenon DEF ClientStep, SessionAborted, SessionStarts, Resolve, Dial, Negotiated, Answered,
           ConnectFails, Connected, HangsUp, SessionStep, egress
  <1>b. /\ client[c].left \in Int
        /\ client[c].sock # 0 => client[c].st \in {"connecting", "relay"}
    BY Zenon DEF IInv, Types, Client, Follows
  <1>c. client[c].gen # 0
    BY Zenon DEF ClientStep, SessionAborted, SessionStarts, Resolve, Dial, Negotiated, Answered,
           ConnectFails, Connected, HangsUp, Polled, Aborting
  <1>1. CASE End(c)
    BY Zenon, <1>1, <1>a, <1>c, EndDoes
  <1>2. ASSUME NEW st \in Counted, NEW left \in Int, Moves(c, st, left, 0)
        PROVE  IInv' /\ ClientDoes(c)
    <2>1. /\ IInv' /\ client'[c].gen = client[c].gen /\ client'[c].sock = 0
          /\ client' = [client EXCEPT ![c] = client'[c]]
      BY Zenon, <1>2, <1>a, BecomesKeeps DEF Moves
    <2> QED BY Zenon, <2>1, <1>a DEF ClientDoes
  <1>3. CASE SessionStarts(c)
    BY Zenon, <1>2, <1>3, <1>b DEF SessionStarts, Counted
  <1>4. CASE \E target \in {"dial", "named"} : Negotiated(c, target)
    BY <1>2, <1>4 DEF Negotiated, Counted
  <1>5. CASE Resolve(c)
    BY Zenon, <1>1, <1>2, <1>5, <1>b DEF Resolve, Counted
  <1>6. CASE \E k \in 1..MaxCandidates : Answered(c, k)
    BY <1>2, <1>6 DEF Answered, Counted
  <1>7. CASE Dial(c)
    <2>1. CASE client[c].gen = live /\ Moves(c, "connecting", client[c].left, client[c].gen)
      <3>1. "connecting" \in Counted
        BY Zenon DEF Counted
      <3>2. /\ IInv' /\ client'[c].gen = client[c].gen /\ client'[c].sock = client[c].gen
            /\ client' = [client EXCEPT ![c] = client'[c]]
        BY Zenon, <2>1, <3>1, <1>a, <1>b, BecomesKeeps DEF Moves
      <3>3. client[c].sock = 0
        BY Zenon, <1>7, <1>b DEF Dial, Polled
      <3> QED BY Zenon, <2>1, <3>2, <3>3, <1>a DEF ClientDoes
    <2>2. CASE Moves(c, "dial", client[c].left - 1, 0)
      BY <2>2, <1>2, <1>b DEF Counted
    <2> QED BY Zenon, <2>1, <2>2, <1>1, <1>7 DEF Dial, IsCurrent
  <1>8. CASE ConnectFails(c)
    BY <1>1, <1>2, <1>8, <1>b DEF ConnectFails, Counted
  <1>9. CASE Connected(c)
    <2>1. "relay" \in Counted
      BY Zenon DEF Counted
    <2>2. /\ IInv' /\ client'[c].gen = client[c].gen /\ client'[c].sock = client[c].sock
          /\ client' = [client EXCEPT ![c] = client'[c]]
      BY Zenon, <1>9, <2>1, <1>a, <1>b, BecomesKeeps DEF Connected, Moves
    <2> QED BY Zenon, <2>2, <1>a DEF ClientDoes
  <1>10. CASE SessionAborted(c) \/ HangsUp(c)
    BY Zenon, <1>1, <1>10 DEF SessionAborted, HangsUp
  <1> QED BY Zenon, <1>3, <1>4, <1>5, <1>6, <1>7, <1>8, <1>9, <1>10 DEF ClientStep

-----------------------------------------------------------------------------
(* The theorems.                                                           *)

\* The inductive invariant holds of every behaviour of the proxy.
THEOREM ProxyInvariance == Spec => []IInv
  <1>1. Init => IInv
    <2> SUFFICES ASSUME Init PROVE IInv
      OBVIOUS
    <2>1. Absent \in Client
      BY ProxyRuntimeAssumption DEF Absent, Client
    <2>2. Types
      BY Zenon, <2>1 DEF Init, Types, Acceptor
    <2>3. InOrder
      BY DEF Init, InOrder, Generations
    <2>4. Follows
      BY DEF Init, Follows, Absent
    <2> QED BY Zenon, <2>2, <2>3, <2>4 DEF IInv
  <1>2. IInv /\ [Next]_vars => IInv'
    <2> SUFFICES ASSUME IInv, [Next]_vars PROVE IInv'
      OBVIOUS
    <2>1. CASE PublisherStep
      BY Zenon, <2>1, PublisherKeeps
    <2>2. CASE \E g \in Generations, a \in Addrs : AcceptorStep(g, a)
      BY Zenon, <2>2, AcceptorKeeps, AcceptKeeps DEF AcceptorStep
    <2>3. CASE \E c \in Clients : ClientStep(c)
      BY Zenon, <2>3, ClientKeeps
    <2>4. CASE UNCHANGED vars
      BY Zenon, <2>4 DEF vars, egress, tasks, IInv, Types, InOrder, Follows
    <2> QED BY Zenon, <2>1, <2>2, <2>3, <2>4 DEF Next
  <1> QED BY <1>1, <1>2, PTL DEF Spec

\* Once a later tunnel is published, no client of an earlier one opens a
\* socket (TunEgress::tcp checks its generation at every dial).
THEOREM NoSocketOnOldTunnelAlways == Spec => NoSocketOnOldTunnel
  <1>1. IInv /\ [Next]_vars
          => [\A c \in Clients :
                (client'[c].sock # 0 /\ client[c].sock = 0) =>
                    \A g \in Generations : tunnelOf[g] <= tunnelOf[client[c].gen]]_vars
    <2> SUFFICES ASSUME IInv, Next, NEW c \in Clients,
                        client'[c].sock # 0, client[c].sock = 0, NEW g \in Generations
                 PROVE  tunnelOf[g] <= tunnelOf[client[c].gen]
      OBVIOUS
    <2>1. client \in [Clients -> Client] /\ live \in Nat
      BY Zenon DEF IInv, Types
    <2>2. PICK d \in Clients : ClientDoes(d)
      <3>1. CASE PublisherStep
        BY Zenon, <3>1, PublisherKeeps
      <3>2. CASE \E h \in Generations, a \in Addrs : AcceptorStep(h, a)
        <4>1. PICK h \in Generations, a \in Addrs : AcceptorStep(h, a)
          BY Zenon, <3>2
        <4>2. CASE \E d \in Clients : Accept(d, h, a)
          <5>1. PICK d \in Clients : Accept(d, h, a)
            BY Zenon, <4>2
          <5>2. client' = [client EXCEPT ![d] = client'[d]] /\ client'[d].sock = 0
            BY Zenon, <5>1, AcceptKeeps
          <5> QED BY Zenon, <5>2, <2>1
        <4> QED BY Zenon, <4>1, <4>2, AcceptorKeeps DEF AcceptorStep
      <3> QED BY Zenon, <3>1, <3>2, ClientKeeps DEF Next
    <2>3. d = c
      BY Zenon, <2>1, <2>2 DEF ClientDoes
    <2>4. client[c].gen = live
      BY Zenon, <2>2, <2>3 DEF ClientDoes
    <2>5. live \in Generations
      <3>1. client[c].gen \in 0..MaxSessions /\ client[c].gen # 0
        BY Zenon, <2>1, <2>2, <2>3, <2>4 DEF ClientDoes, Client
      <3> QED BY <2>4, <3>1, ProxyRuntimeAssumption DEF Generations
    <2> QED BY Zenon, <2>4, <2>5 DEF IInv, InOrder
  <1> QED BY <1>1, ProxyInvariance, PTL DEF Spec, NoSocketOnOldTunnel

\* The handles and sockets of the promise, as functions of the clients.
LEMMA Mapped ==
  ASSUME client \in [Clients -> Client], NEW c \in Clients,
         client' = [client EXCEPT ![c] = client'[c]]
  PROVE  /\ [d \in Clients |-> client'[d].gen]
              = [[d \in Clients |-> client[d].gen] EXCEPT ![c] = client'[c].gen]
         /\ [d \in Clients |-> client'[d].sock]
              = [[d \in Clients |-> client[d].sock] EXCEPT ![c] = client'[c].sock]
  <1>1. \A d \in Clients : d # c => client'[d] = client[d]
    OBVIOUS
  <1> QED BY Zenon, <1>1

\* The proxy's egress, accept loops and sessions together implement
\* PinnedSockets, whose only way to open a socket is under the identity
\* published last.
THEOREM ProxyKeepsPromise == Spec => KeepsPromise
  <1> DEFINE handle == [c \in Clients |-> client[c].gen]
             socket == [c \in Clients |-> client[c].sock]
  <1>1. Init => Promise!Init
    BY DEF Init, Promise!Init, Absent
  <1>2. IInv /\ [Next]_vars => [Promise!Next]_(Promise!vars)
    <2> SUFFICES ASSUME IInv, [Next]_vars
                 PROVE  \/ Promise!Next
                        \/ live' = live /\ handle' = handle /\ socket' = socket
      BY Zenon DEF Promise!vars
    <2>0. client \in [Clients -> Client] /\ live \in Nat
      BY Zenon DEF IInv, Types
    <2>1. CASE PublisherStep
      <3>1. client' = client /\ live' \in {live, live + 1}
        BY Zenon, <2>1, PublisherKeeps
      <3> QED BY Zenon, <3>1 DEF Promise!Next, Promise!Replace
    <2>2. CASE \E g \in Generations, a \in Addrs : AcceptorStep(g, a)
      <3>1. PICK g \in Generations, a \in Addrs : AcceptorStep(g, a)
        BY Zenon, <2>2
      <3>2. CASE \E c \in Clients : Accept(c, g, a)
        <4>1. PICK c \in Clients : Accept(c, g, a)
          BY Zenon, <3>2
        <4>2. /\ live' = live /\ client[c].gen = 0 /\ client[c].sock = 0 /\ g \in 1..live
              /\ client' = [client EXCEPT ![c] = client'[c]]
              /\ client'[c].gen = g /\ client'[c].sock = 0
          BY Zenon, <4>1, AcceptKeeps
        <4>3. /\ handle' = [handle EXCEPT ![c] = g]
              /\ socket' = [socket EXCEPT ![c] = 0]
          BY Zenon, <4>2, <2>0, Mapped
        <4>4. socket' = socket
          BY Zenon, <4>2, <4>3
        <4>5. Promise!Admit(c)
          BY Zenon, <4>2, <4>3, <4>4 DEF Promise!Admit
        <4> QED BY Zenon, <4>5 DEF Promise!Next
      <3> QED BY Zenon, <3>1, <3>2, AcceptorKeeps DEF AcceptorStep
    <2>3. CASE \E c \in Clients : ClientStep(c)
      <3>1. PICK c \in Clients : ClientDoes(c)
        BY Zenon, <2>3, ClientKeeps
      <3>2. /\ handle' = [handle EXCEPT ![c] = client'[c].gen]
            /\ socket' = [socket EXCEPT ![c] = client'[c].sock]
            /\ live' = live
        BY Zenon, <3>1, <2>0, Mapped DEF ClientDoes
      <3>3. CASE client'[c].gen = client[c].gen /\ client'[c].sock = client[c].sock
        BY Zenon, <3>2, <3>3
      <3>4. CASE client[c].gen # 0 /\ client'[c].gen = 0 /\ client'[c].sock = 0
        <4>1. Promise!Leave(c)
          BY Zenon, <3>2, <3>4 DEF Promise!Leave
        <4> QED BY Zenon, <4>1 DEF Promise!Next
      <3>5. CASE /\ client[c].sock = 0 /\ client[c].gen = live
                 /\ client'[c].gen = live /\ client'[c].sock = live
        <4>1. handle' = handle
          BY Zenon, <3>2, <3>5
        <4>2. Promise!Open(c)
          BY Zenon, <3>2, <3>5, <4>1 DEF Promise!Open
        <4> QED BY Zenon, <4>2 DEF Promise!Next
      <3>6. CASE client'[c].gen = client[c].gen /\ client[c].sock # 0 /\ client'[c].sock = 0
        <4>1. handle' = handle
          BY Zenon, <3>2, <3>6
        <4>2. Promise!Close(c)
          BY Zenon, <3>2, <3>6, <4>1 DEF Promise!Close
        <4> QED BY Zenon, <4>2 DEF Promise!Next
      <3> QED BY Zenon, <3>1, <3>3, <3>4, <3>5, <3>6 DEF ClientDoes
    <2>4. CASE UNCHANGED vars
      BY Zenon, <2>4 DEF vars, egress, tasks
    <2> QED BY Zenon, <2>1, <2>2, <2>3, <2>4 DEF Next
  <1> QED BY <1>1, <1>2, ProxyInvariance, PTL DEF Spec, KeepsPromise, Promise!Spec

-----------------------------------------------------------------------------
(* The gauge.                                                              *)

Counts(c, g) == client[c].gen = g /\ client[c].st \in Counted

Running(g) == {c \in Clients : Counts(c, g)}

\* GaugeCounts, with the gauges there are.
GInv ==
    /\ active \in [Generations -> Int]
    /\ \A g \in Generations : active[g] = Cardinality(Running(g))

\* When one client changes, a listener's sessions are one more, one fewer or
\* the same ones.
LEMMA OneClient ==
  ASSUME IInv, NEW c \in Clients, client' = [client EXCEPT ![c] = client'[c]],
         NEW g
  PROVE  /\ Cardinality(Running(g)) \in Int
         /\ Cardinality(Running(g)') = Cardinality(Running(g))
              + (IF Counts(c, g)' /\ ~Counts(c, g) THEN 1
                 ELSE IF Counts(c, g) /\ ~Counts(c, g)' THEN -1 ELSE 0)
  <1>1. \A d \in Clients : d # c => client'[d] = client[d]
    BY Zenon DEF IInv, Types
  <1>2. Running(g)' = IF Counts(c, g)' THEN Running(g) \cup {c} ELSE Running(g) \ {c}
    BY Zenon, <1>1 DEF Running, Counts
  <1>3. IsFiniteSet(Running(g))
    BY Zenon, FS_Subset, ProxyRuntimeAssumption DEF Running
  <1>4. c \in Running(g) <=> Counts(c, g)
    BY Zenon DEF Running
  <1>5. Cardinality(Running(g)) \in Int
    BY SMTT(30), <1>3, FS_CardinalityType
  <1>6. CASE Counts(c, g)'
    <2>1. Cardinality(Running(g) \cup {c})
            = IF c \in Running(g) THEN Cardinality(Running(g)) ELSE Cardinality(Running(g)) + 1
      BY Zenon, <1>3, FS_AddElement
    <2> QED BY <1>2, <1>4, <1>5, <1>6, <2>1
  <1>7. CASE ~Counts(c, g)'
    <2>1. Cardinality(Running(g) \ {c})
            = IF c \in Running(g) THEN Cardinality(Running(g)) - 1 ELSE Cardinality(Running(g))
      BY Zenon, <1>3, FS_RemoveElement
    <2> QED BY <1>2, <1>4, <1>5, <1>7, <2>1
  <1> QED BY Zenon, <1>5, <1>6, <1>7

\* A session that goes on, or has not begun, leaves the gauge alone.
LEMMA GoesOn ==
  ASSUME IInv, GInv, NEW c \in Clients, client' = [client EXCEPT ![c] = client'[c]],
         \A g \in Generations : Counts(c, g)' <=> Counts(c, g), active' = active
  PROVE  GInv'
  <1>1. \A g \in Generations : Cardinality(Running(g)') = Cardinality(Running(g))
    BY OneClient
  <1> QED BY Zenon, <1>1 DEF GInv

\* SessionGuard: the gauge goes up and down with the session, once each.
LEMMA GaugeStep ==
  ASSUME IInv, GInv, [Next]_vars
  PROVE  GInv'
  <1>1. CASE UNCHANGED <<client, active>>
    BY Zenon, <1>1 DEF GInv, Running, Counts
  <1>2. ASSUME NEW c \in Clients, NEW g \in Generations, NEW a \in Addrs, Accept(c, g, a)
        PROVE  GInv'
    <2>1. client' = [client EXCEPT ![c] = client'[c]] /\ client[c].st = "none"
      BY Zenon, <1>2, AcceptKeeps DEF Accept
    <2>2. client'[c].st = "spawned" /\ active' = active
      BY Zenon, <1>2 DEF Accept, IInv, Types
    <2>3. \A h : ~Counts(c, h) /\ ~Counts(c, h)'
      BY Zenon, <2>1, <2>2 DEF Counts, Counted
    <2> QED BY Zenon, <2>1, <2>2, <2>3, GoesOn
  <1>3. ASSUME NEW c \in Clients, ClientStep(c)
        PROVE  GInv'
    <2>0. client \in [Clients -> Client] /\ active \in [Generations -> Int]
      BY Zenon DEF IInv, Types, GInv
    <2>1. client' = [client EXCEPT ![c] = client'[c]]
      BY Zenon, <1>3, ClientKeeps DEF ClientDoes
    <2>2. client[c].gen \in Generations
      <3>1. client[c].gen # 0
        BY Zenon, <1>3 DEF ClientStep, SessionAborted, SessionStarts, Resolve, Dial, Negotiated,
             Answered, ConnectFails, Connected, HangsUp, Polled, Aborting
      <3>2. client[c].gen \in 0..MaxSessions
        BY Zenon, <2>0 DEF Client
      <3> QED BY <3>1, <3>2, ProxyRuntimeAssumption DEF Generations
    <2>3. CASE End(c)
      <3>1. client'[c].gen = 0
        BY Zenon, <2>0, <2>3 DEF End, Vanishes, Becomes
      <3>2. \A g \in Generations : ~Counts(c, g)'
        BY <3>1, ProxyRuntimeAssumption DEF Counts, Generations
      <3>3. CASE client[c].st \in Counted
        <4>1. active' = [active EXCEPT ![client[c].gen] = @ - 1]
          BY Zenon, <2>3, <3>3 DEF End
        <4>2. \A g \in Generations : Counts(c, g) <=> g = client[c].gen
          BY Zenon, <3>3 DEF Counts
        <4>3. \A g \in Generations :
                 /\ Cardinality(Running(g)) \in Int
                 /\ Cardinality(Running(g)')
                     = IF g = client[c].gen THEN Cardinality(Running(g)) - 1
                       ELSE Cardinality(Running(g))
          BY <2>1, <3>2, <4>2, OneClient
        <4>4. active' \in [Generations -> Int]
          BY <2>0, <2>2, <4>1
        <4> QED BY Zenon, <2>0, <2>2, <4>1, <4>3, <4>4 DEF GInv
      <3>4. CASE client[c].st \notin Counted
        <4>1. active' = active /\ \A g \in Generations : ~Counts(c, g)
          BY Zenon, <2>3, <3>4 DEF End, Counts
        <4> QED BY Zenon, <2>1, <3>2, <4>1, GoesOn
      <3> QED BY Zenon, <3>3, <3>4
    <2>4. CASE SessionStarts(c)
      <3>1. /\ client'[c].gen = client[c].gen /\ client'[c].st = "serving"
            /\ client[c].st = "spawned" /\ active' = [active EXCEPT ![client[c].gen] = @ + 1]
        BY Zenon, <2>0, <2>4 DEF SessionStarts, Moves, Becomes, Polled
      <3>2. \A g \in Generations : ~Counts(c, g) /\ (Counts(c, g)' <=> g = client[c].gen)
        BY Zenon, <3>1 DEF Counts, Counted
      <3>3. \A g \in Generations :
               /\ Cardinality(Running(g)) \in Int
               /\ Cardinality(Running(g)')
                   = IF g = client[c].gen THEN Cardinality(Running(g)) + 1
                     ELSE Cardinality(Running(g))
        BY <2>1, <3>2, OneClient
      <3>4. active' \in [Generations -> Int]
        BY <2>0, <2>2, <3>1
      <3> QED BY Zenon, <2>0, <2>2, <3>1, <3>3, <3>4 DEF GInv
    <2>5. ASSUME NEW st \in Counted, NEW left, NEW sock, client[c].st \in Counted,
                 Moves(c, st, left, sock), UNCHANGED active
          PROVE  GInv'
      <3>1. client'[c].gen = client[c].gen /\ client'[c].st = st
        BY Zenon, <2>0, <2>5 DEF Moves, Becomes
      <3>2. \A g \in Generations : Counts(c, g)' <=> Counts(c, g)
        BY Zenon, <2>5, <3>1 DEF Counts
      <3> QED BY Zenon, <2>1, <2>5, <3>2, GoesOn
    <2>6. CASE \/ Resolve(c) \/ Dial(c) \/ ConnectFails(c) \/ Connected(c)
               \/ \E target \in {"dial", "named"} : Negotiated(c, target)
               \/ \E k \in 1..MaxCandidates : Answered(c, k)
      BY SMTT(30), <2>3, <2>5, <2>6 DEF Resolve, Dial, ConnectFails, Connected, Negotiated, Answered,
           Polled, Counted
    <2> QED BY Zenon, <1>3, <2>3, <2>4, <2>6 DEF ClientStep, SessionAborted, HangsUp
  <1>4. CASE PublisherStep
    BY Zenon, <1>1, <1>4 DEF PublisherStep, Bind, ObservePush, BeginPublish, Plan, NextGeneration,
         NoSuchTunnel, StoreIdentity, StartResolver, BindAll, BindFails, StoreListener, Revoke,
         CloseManagement, tasks
  <1>5. CASE \E g \in Generations, a \in Addrs : AcceptorStep(g, a)
    BY Zenon, <1>1, <1>2, <1>5 DEF AcceptorStep, AcceptError, BackoffEnds, SeeStop, AcceptorEnds
  <1>6. CASE UNCHANGED vars
    BY Zenon, <1>1, <1>6 DEF vars, tasks
  <1> QED BY Zenon, <1>3, <1>4, <1>5, <1>6 DEF Next

\* active_sessions is the number of sessions that run, for any number of
\* clients and however they end (SessionGuard).
THEOREM GaugeCountsAlways == Spec => []GaugeCounts
  <1>1. Init => GInv
    <2> SUFFICES ASSUME Init PROVE GInv
      OBVIOUS
    <2>1. \A h \in Generations : Running(h) = {}
      BY Zenon DEF Init, Running, Counts, Absent, Counted
    <2> QED BY SMTT(30), <2>1, FS_EmptySet DEF Init, GInv
  <1>2. GInv => GaugeCounts
    BY Zenon DEF GInv, GaugeCounts, Running, Counts
  <1> QED BY <1>1, <1>2, ProxyInvariance, GaugeStep, PTL DEF Spec

-----------------------------------------------------------------------------
(* The listener.                                                           *)

\* The publisher's place in `publish` and its listener agree with its phase,
\* a generation is counted at most once in a VPN session, and an accept loop
\* that nobody has told to stop is that of the listener stored or about to be.
Stage ==
    /\ n \in 0..MaxSessions /\ listener \in {0, live}
    /\ (step # "none") <=> (phase = "publishing")
    /\ listener # 0 => phase = "up"
    /\ live <= n
    /\ phase = "bound" \/ step \in {"plan", "generation"} => live < n
    /\ phase = "up" \/ step \in {"slot", "resolver", "bind", "store"} =>
         live \in Generations /\ tunnelOf[live] = n

Unstopped ==
    \A g \in Generations, a \in Addrs :
        HoldsPort(g, a) /\ g \notin stopped => g = live /\ (step = "store" \/ listener = live)

LInv == Stage /\ Unstopped

\* The publisher's own steps.
LEMMA PublisherListens ==
  ASSUME IInv, LInv, PublisherStep
  PROVE  LInv'
  <1> USE ProxyRuntimeAssumption DEF LInv, Generations, HoldsPort
  <1>0. n \in Nat /\ live \in Nat
    BY Zenon DEF IInv, Types
  <1>1. CASE Bind
    BY SMTT(30), <1>0, <1>1 DEF Bind, egress, tasks, Stage, Unstopped
  <1>2. CASE \E options \in Pushes : ObservePush(options)
    BY Zenon, <1>0, <1>2 DEF ObservePush, egress, tasks, Stage, Unstopped
  <1>3. CASE BeginPublish
    BY Zenon, <1>0, <1>3 DEF BeginPublish, StopListener, egress, tasks, Stage, Unstopped
  <1>4. CASE Plan \/ NoSuchTunnel
    BY Zenon, <1>0, <1>4 DEF Plan, NoSuchTunnel, PublishFails, egress, tasks, Stage, Unstopped
  <1>5. CASE NextGeneration
    <2>1. live + 1 \in Generations /\ listener = 0
      BY <1>0, <1>5 DEF NextGeneration, Stage
    <2>2. tunnelOf'[live + 1] = n /\ live' = live + 1
      BY Zenon, <2>1, <1>5 DEF NextGeneration, IInv, Types
    <2>3. Stage'
      BY <1>0, <1>5, <2>1, <2>2 DEF NextGeneration, Stage
    <2>4. Unstopped'
      BY <1>0, <1>5, <2>1, <2>2 DEF NextGeneration, Stage, Unstopped, tasks
    <2> QED BY Zenon, <2>3, <2>4
  <1>6. CASE StoreIdentity \/ StartResolver
    BY Zenon, <1>0, <1>6 DEF StoreIdentity, StartResolver, tasks, Stage, Unstopped
  <1>7. CASE \E bound \in SUBSET Addrs : BindAll(bound)
    <2>1. /\ step = "bind" /\ step' = "store"
          /\ \A g \in Generations : g # live => acceptor'[g] = acceptor[g]
          /\ UNCHANGED <<n, phase, live, tunnelOf, listener, stopped>>
      BY Zenon, <1>7 DEF BindAll, egress, IInv, Types
    <2>2. Stage'
      BY Zenon, <1>0, <2>1 DEF Stage
    <2>3. Unstopped'
      BY Zenon, <1>0, <2>1 DEF Stage, Unstopped
    <2> QED BY Zenon, <2>2, <2>3
  <1>8. CASE BindFails
    BY Zenon, <1>0, <1>8 DEF BindFails, PublishFails, egress, tasks, Stage, Unstopped
  <1>9. CASE StoreListener
    BY Zenon, <1>0, <1>9 DEF StoreListener, egress, tasks, Stage, Unstopped
  <1>10. CASE Revoke
    BY Zenon, <1>0, <1>10 DEF Revoke, StopListener, egress, tasks, Stage, Unstopped
  <1>11. CASE CloseManagement
    BY Zenon, <1>0, <1>11 DEF CloseManagement, egress, tasks, Stage, Unstopped
  <1> QED BY Zenon, <1>1, <1>2, <1>3, <1>4, <1>5, <1>6, <1>7, <1>8, <1>9, <1>10, <1>11
          DEF PublisherStep

\* They agree in every reachable state.
THEOREM ListenerInvariance == Spec => []LInv
  <1>1. Init => LInv
    BY ProxyRuntimeAssumption DEF Init, LInv, Stage, Unstopped, HoldsPort, Generations
  <1>2. IInv /\ LInv /\ [Next]_vars => LInv'
    <2> SUFFICES ASSUME IInv, LInv, [Next]_vars PROVE LInv'
      OBVIOUS
    <2>1. CASE PublisherStep
      BY Zenon, <2>1, PublisherListens
    <2>2. CASE \E g \in Generations, a \in Addrs : AcceptorStep(g, a)
      <3>1. PICK g \in Generations, a \in Addrs : AcceptorStep(g, a)
        BY Zenon, <2>2
      <3>2. UNCHANGED <<n, phase, step, live, tunnelOf, listener, stopped>>
        BY Zenon, <3>1 DEF AcceptorStep, Accept, AcceptError, BackoffEnds, SeeStop, AcceptorEnds, egress
      <3>3. \A h \in Generations, b \in Addrs : HoldsPort(h, b)' => HoldsPort(h, b)
        <4>1. acceptor \in [Generations -> [Addrs -> Acceptor]]
          BY Zenon DEF IInv, Types
        <4>2. \/ acceptor' = acceptor
              \/ /\ acceptor[g][a] \notin {"none", "gone"}
                 /\ \E v \in Acceptor : acceptor' = [acceptor EXCEPT ![g][a] = v]
          BY Zenon, <3>1 DEF AcceptorStep, Accept, AcceptError, BackoffEnds, SeeStop, AcceptorEnds,
               Acceptor
        <4>3. CASE acceptor' = acceptor
          BY Zenon, <4>3 DEF HoldsPort
        <4>4. CASE /\ acceptor[g][a] \notin {"none", "gone"}
                   /\ \E v \in Acceptor : acceptor' = [acceptor EXCEPT ![g][a] = v]
          BY <4>1, <4>4 DEF HoldsPort
        <4> QED BY Zenon, <4>2, <4>3, <4>4
      <3> QED BY Zenon, <3>2, <3>3 DEF LInv, Stage, Unstopped
    <2>3. CASE \E c \in Clients : ClientStep(c)
      <3>1. UNCHANGED <<n, phase, step, live, tunnelOf, listener, stopped, acceptor>>
        BY Zenon, <2>3 DEF ClientStep, SessionAborted, SessionStarts, Resolve, Dial, Negotiated,
             Answered, ConnectFails, Connected, HangsUp, SessionStep, egress
      <3> QED BY Zenon, <3>1 DEF LInv, Stage, Unstopped, HoldsPort
    <2>4. CASE UNCHANGED vars
      BY Zenon, <2>4 DEF vars, egress, tasks, LInv, Stage, Unstopped, HoldsPort
    <2> QED BY Zenon, <2>1, <2>2, <2>3, <2>4 DEF Next
  <1> QED BY <1>1, <1>2, ProxyInvariance, PTL DEF Spec

\* An accept loop that is spawned for one tunnel is told to stop before the
\* next VPN session begins: an unstopped listener belongs to the session that
\* is up or coming up (ProxyPublisher::revoke, stop_listener).
THEOREM UnstoppedIsCurrentAlways == Spec => []UnstoppedIsCurrent
  <1>1. LInv => UnstoppedIsCurrent
    <2> SUFFICES ASSUME LInv, NEW g \in Generations, g \notin stopped,
                        NEW a \in Addrs, HoldsPort(g, a)
                 PROVE  phase \in {"publishing", "up"} /\ tunnelOf[g] = n
      BY Zenon DEF UnstoppedIsCurrent
    <2>1. g = live /\ g # 0 /\ (step = "store" \/ listener = live)
      BY DEF LInv, Unstopped, Generations
    <2> QED BY Zenon, <2>1 DEF LInv, Stage
  <1> QED BY <1>1, ListenerInvariance, PTL

-----------------------------------------------------------------------------
(* Folds.  FoldLeft goes through the places of a sequence, so what it      *)
(* computes is a function over their subsets; induction is over these.     *)

\* A nonempty set of naturals has a least one.
LEMMA LeastNat ==
  ASSUME NEW T \in SUBSET Nat, T # {}
  PROVE  \E k \in T : \A m \in T : k <= m
  <1> DEFINE R == {ss \in Nat \X Nat : ss[1] < ss[2]}
  <1>1. IsWellFoundedOn(R, Nat)
    BY NatLessThanWellFounded DEF OpToRel
  <1>2. PICK k \in T : \A m \in T : ~(<<m, k>> \in R)
    <2> HIDE DEF R
    <2> QED BY Zenon, <1>1, WFMin
  <1>3. \A m \in T : ~(m < k)
    BY Zenon, <1>2
  <1> QED BY <1>3

\* Of any sets of elements of a finite set, one is minimal.
LEMMA MinimalSet ==
  ASSUME NEW S, IsFiniteSet(S), NEW T \in SUBSET SUBSET S, T # {}
  PROVE  \E U \in T : \A V \in T : V \subseteq U => V = U
  <1>1. IsWellFoundedOn(StrictSubsetOrdering(S), SUBSET S)
    BY FS_StrictSubsetOrderingWellFounded, FS_FiniteSubsetsOfFinite
  <1>2. PICK U \in T : \A V \in T : ~(<<V, U>> \in StrictSubsetOrdering(S))
    BY <1>1, WFMin
  <1> QED BY Zenon, <1>2 DEF StrictSubsetOrdering

\* What a fold that takes element pick[s] of a set s last has for each subset.
Folds(h, base, turn, pick, S, V) ==
    /\ h \in [SUBSET S -> V]
    /\ \A s \in SUBSET S : h[s] = IF s = {} THEN base ELSE turn[<<pick[s], h[s \ {pick[s]}]>>]

\* Two such functions agree where both are defined.
LEMMA FoldsAgree ==
  ASSUME NEW S, IsFiniteSet(S), NEW V, NEW base, NEW turn, NEW pick,
         \A s \in SUBSET S : s # {} => pick[s] \in s,
         NEW A \in SUBSET S, NEW B \in SUBSET S, A \subseteq B,
         NEW g, Folds(g, base, turn, pick, A, V), NEW h, Folds(h, base, turn, pick, B, V)
  PROVE  \A s \in SUBSET A : g[s] = h[s]
  <1> DEFINE Bad == {s \in SUBSET A : g[s] # h[s]}
  <1> SUFFICES ASSUME Bad # {} PROVE FALSE
    OBVIOUS
  <1>0. Bad \in SUBSET SUBSET S
    OBVIOUS
  <1>1. PICK s \in Bad : \A t \in Bad : t \subseteq s => t = s
    <2> HIDE DEF Bad
    <2> QED BY <1>0, MinimalSet
  <1>2. PICK x : x = pick[s]
    OBVIOUS
  <1>3. s # {} => x \in s
    BY <1>1, <1>2
  <1>4. g[s] = IF s = {} THEN base ELSE turn[<<x, g[s \ {x}]>>]
    BY <1>1, <1>2 DEF Folds
  <1>5. h[s] = IF s = {} THEN base ELSE turn[<<x, h[s \ {x}]>>]
    BY <1>1, <1>2 DEF Folds
  <1>6. s # {} => g[s \ {x}] = h[s \ {x}]
    BY <1>1, <1>3
  <1> QED BY Zenon, <1>1, <1>4, <1>5, <1>6

\* There is one for every finite set.
LEMMA FoldsExist ==
  ASSUME NEW S, IsFiniteSet(S), NEW V, NEW base \in V, NEW turn \in [S \X V -> V], NEW pick,
         \A s \in SUBSET S : s # {} => pick[s] \in s
  PROVE  \E h : Folds(h, base, turn, pick, S, V)
  <1> DEFINE Bad == {U \in SUBSET S : ~\E h : Folds(h, base, turn, pick, U, V)}
  <1> SUFFICES ASSUME Bad # {} PROVE FALSE
    OBVIOUS
  <1>0. Bad \in SUBSET SUBSET S
    OBVIOUS
  <1>1. PICK U \in Bad : \A W \in Bad : W \subseteq U => W = U
    <2> HIDE DEF Bad
    <2> QED BY <1>0, MinimalSet
  <1> DEFINE H(W) == CHOOSE h : Folds(h, base, turn, pick, W, V)
             g == [s \in SUBSET U |-> IF s = {} THEN base
                                      ELSE turn[<<pick[s], H(s \ {pick[s]})[s \ {pick[s]}]>>]]
  <1>2. \A W \in SUBSET U : W # U => Folds(H(W), base, turn, pick, W, V)
    BY Zenon, <1>1
  <1>3. \A s \in SUBSET U : s # {} => pick[s] \in s /\ pick[s] \in S
    BY <1>1
  <1> HIDE DEF H
  <1>4. ASSUME NEW W \in SUBSET U, W # U PROVE g[W] = H(W)[W]
    <2>1. Folds(H(W), base, turn, pick, W, V)
      BY Zenon, <1>2, <1>4
    <2>2. CASE W = {}
      BY Zenon, <2>1, <2>2 DEF Folds
    <2>3. CASE W # {}
      <3> DEFINE X == W \ {pick[W]}
      <3>1. X \in SUBSET U /\ X # U /\ X \subseteq W /\ X \in SUBSET S /\ W \in SUBSET S
        BY <1>1, <1>3, <2>3
      <3>2. Folds(H(X), base, turn, pick, X, V)
        BY Zenon, <1>2, <3>1
      <3>3. PICK k : k = H(W)
        OBVIOUS
      <3>4. PICK l : l = H(X)
        OBVIOUS
      <3>5. l[X] = k[X]
        <4> HIDE DEF X
        <4>1. Folds(k, base, turn, pick, W, V) /\ Folds(l, base, turn, pick, X, V)
          BY Zenon, <2>1, <3>2, <3>3, <3>4
        <4>2. \A s \in SUBSET X : l[s] = k[s]
          BY <3>1, <4>1, FoldsAgree
        <4> QED BY <4>2
      <3>6. k[W] = turn[<<pick[W], k[X]>>]
        BY Zenon, <2>1, <2>3, <3>3 DEF Folds
      <3>7. g[W] = turn[<<pick[W], l[X]>>]
        BY Zenon, <2>3, <3>4
      <3> QED BY Zenon, <3>3, <3>5, <3>6, <3>7
    <2> QED BY <2>2, <2>3
  <1>5. ASSUME NEW s \in SUBSET U, s # {}
        PROVE  /\ g[s \ {pick[s]}] = H(s \ {pick[s]})[s \ {pick[s]}]
               /\ H(s \ {pick[s]})[s \ {pick[s]}] \in V
    <2>1. PICK t : t = s \ {pick[s]}
      BY Zenon
    <2>2. t \in SUBSET U /\ t # U
      BY <1>3, <1>5, <2>1
    <2> HIDE DEF g
    <2>4. g[t] = H(t)[t]
      BY Zenon, <1>4, <2>2
    <2>5. H(t)[t] \in V
      <3>1. H(t) \in [SUBSET t -> V]
        BY Zenon, <1>2, <2>2 DEF Folds
      <3> QED BY <3>1
    <2> QED BY Zenon, <2>1, <2>4, <2>5
  <1>6. Folds(g, base, turn, pick, U, V)
    <2>1. \A s \in SUBSET U : g[s] = IF s = {} THEN base ELSE turn[<<pick[s], g[s \ {pick[s]}]>>]
      BY Zenon, <1>5
    <2>2. \A s \in SUBSET U : g[s] \in V
      BY Zenon, <1>3, <1>5
    <2>3. g \in [SUBSET U -> V]
      BY Zenon, <2>2
    <2> HIDE DEF g
    <2> QED BY Zenon, <2>1, <2>3 DEF Folds
  <1> QED BY Zenon, <1>1, <1>6

\* The greatest of finitely many numbers is one of them.
LEMMA GreatestIsIn ==
  ASSUME NEW m \in Nat, NEW s \in SUBSET (1..m), s # {}
  PROVE  Max(s) \in s /\ \A x \in s : x <= Max(s)
  <1> DEFINE T == {m - x : x \in s}
  <1>1. T \in SUBSET Nat /\ T # {}
    <2>1. \A x \in s : m - x \in Nat
      OBVIOUS
    <2> QED BY Zenon, <2>1
  <1>2. PICK k \in T : \A j \in T : k <= j
    <2> HIDE DEF T
    <2> QED BY <1>1, LeastNat
  <1>3. PICK x \in s : k = m - x
    BY <1>2
  <1>4. \A y \in s : x >= y
    <2> SUFFICES ASSUME NEW y \in s PROVE x >= y
      OBVIOUS
    <2>1. k <= m - y
      BY <1>2
    <2>2. x \in Int /\ y \in Int
      OBVIOUS
    <2> QED BY <2>1, <2>2, <1>3
  <1>5. \E z \in s : \A y \in s : z >= y
    BY <1>4
  <1>6. Max(s) \in s /\ \A y \in s : Max(s) >= y
    BY Zenon, <1>5 DEF Max
  <1> QED BY <1>6

\* A fold over the first m indices of a sequence.
IndexFold(h, base, turn, m, V) ==
    /\ h \in [SUBSET (1..m) -> V]
    /\ \A s \in SUBSET (1..m) : h[s] = IF s = {} THEN base ELSE turn[<<Max(s), h[s \ {Max(s)}]>>]

\* It is defined.
LEMMA IndexFoldExists ==
  ASSUME NEW m \in Nat, NEW V, NEW base \in V, NEW turn \in [(1..m) \X V -> V]
  PROVE  \E h : IndexFold(h, base, turn, m, V)
  <1>1. PICK S : S = 1..m
    OBVIOUS
  <1>2. IsFiniteSet(S)
    BY <1>1, FS_Interval
  <1>3. PICK pick : pick = [s \in SUBSET S |-> Max(s)]
    BY Zenon
  <1>4. \A s \in SUBSET S : s # {} => pick[s] \in s
    BY Zenon, <1>1, <1>3, GreatestIsIn
  <1>5. turn \in [S \X V -> V]
    BY Zenon, <1>1
  <1>6. PICK h : Folds(h, base, turn, pick, S, V)
    BY Zenon, <1>2, <1>4, <1>5, FoldsExist
  <1>7. \A s \in SUBSET S : h[s] = IF s = {} THEN base ELSE turn[<<Max(s), h[s \ {Max(s)}]>>]
    BY Zenon, <1>3, <1>6 DEF Folds
  <1>8. h \in [SUBSET S -> V]
    BY Zenon, <1>6 DEF Folds
  <1> QED BY Zenon, <1>1, <1>7, <1>8 DEF IndexFold

\* The prefixes of the indices, one longer than the other.
LEMMA IndexPrefixes ==
  /\ 1..0 = {}
  /\ \A k \in Nat : k >= 1 => 1..k # {} /\ Max(1..k) = k /\ (1..k) \ {k} = 1..(k - 1)
  <1>1. {} = 1..0
    <2>1. \A x \in 1..0 : x >= 1 /\ x <= 0 /\ x \in Int
      OBVIOUS
    <2>2. \A x \in 1..0 : FALSE
      BY <2>1
    <2> QED BY Zenon, <2>2
  <1>2. ASSUME NEW k \in Nat, k >= 1
        PROVE 1..k # {} /\ Max(1..k) = k /\ (1..k) \ {k} = 1..(k - 1)
    <2>1. k \in 1..k /\ \A x \in 1..k : x <= k
      BY <1>2
    <2>2. Max(1..k) \in 1..k /\ \A x \in 1..k : x <= Max(1..k)
      <3>1. PICK s : s = 1..k
        OBVIOUS
      <3>2. s \in SUBSET (1..k) /\ s # {}
        BY Zenon, <2>1, <3>1
      <3> QED BY Zenon, <3>1, <3>2, GreatestIsIn
    <2>3. Max(1..k) = k
      BY <2>1, <2>2
    <2>4. (1..k) \ {k} = 1..(k - 1)
      BY <1>2
    <2> QED BY <2>1, <2>3, <2>4
  <1> QED BY <1>1, <1>2

\* Induction over the first m naturals.
LEMMA IndexInduction ==
  ASSUME NEW m \in Nat, NEW G \in SUBSET (0..m), 0 \in G, \A k \in 1..m : k - 1 \in G => k \in G
  PROVE  \A k \in 0..m : k \in G
  <1> DEFINE Bad == (0..m) \ G
  <1> SUFFICES ASSUME Bad # {} PROVE FALSE
    OBVIOUS
  <1>1. Bad \in SUBSET Nat
    OBVIOUS
  <1>2. PICK k \in Bad : \A j \in Bad : k <= j
    <2> HIDE DEF Bad
    <2> QED BY <1>1, LeastNat
  <1>3. k \in 1..m /\ k - 1 \in 0..m /\ ~(k <= k - 1)
    BY <1>2
  <1>4. k - 1 \in G
    BY <1>2, <1>3
  <1> QED BY <1>2, <1>3, <1>4

\* Keeping the first of equals, step by turn.
OnceTrace(r, list, T) ==
    /\ r[0] = <<>> /\ \A k \in 0..Len(list) : r[k] \in Seq(T)
    /\ \A k \in 1..Len(list) : r[k] = AddOnce(r[k - 1], list[k])
    /\ FoldLeft(AddOnce, <<>>, list) = r[Len(list)]

\* Every list is gone through so.
LEMMA AddOnceFolds ==
  ASSUME NEW T, NEW list \in Seq(T)
  PROVE  \E r : OnceTrace(r, list, T)
  <1>1. PICK m \in Nat : m = Len(list)
    OBVIOUS
  <1>2. PICK V : V = Seq(T)
    OBVIOUS
  <1>3. PICK base : base = <<>>
    OBVIOUS
  <1> DEFINE Eq(i) == i = [s \in SUBSET (1..m) |->
                             IF s = {} THEN base ELSE AddOnce(i[s \ {Max(s)}], list[Max(s)])]
             it == CHOOSE i : Eq(i)
             turn == [kv \in (1..m) \X V |-> AddOnce(kv[2], list[kv[1]])]
  <1>4. DOMAIN list = 1..m /\ base \in V /\ \A k \in 1..m : list[k] \in T
    BY <1>1, <1>2, <1>3
  <1>5. turn \in [(1..m) \X V -> V]
    BY <1>2, <1>4 DEF AddOnce
  <1>6. PICK h : IndexFold(h, base, turn, m, V)
    <2> HIDE DEF turn
    <2> QED BY Zenon, <1>4, <1>5, IndexFoldExists
  <1>7. ASSUME NEW s \in SUBSET (1..m), s # {}
        PROVE  h[s] = AddOnce(h[s \ {Max(s)}], list[Max(s)])
    <2>1. Max(s) \in 1..m
      BY Zenon, <1>7, GreatestIsIn
    <2>2. h[s \ {Max(s)}] \in V
      BY Zenon, <1>6 DEF IndexFold
    <2>3. h[s] = turn[<<Max(s), h[s \ {Max(s)}]>>]
      BY Zenon, <1>6, <1>7 DEF IndexFold
    <2> QED BY <2>1, <2>2, <2>3
  <1>8. Eq(it)
    <2>1. Eq(h)
      BY Zenon, <1>6, <1>7 DEF IndexFold
    <2> QED BY Zenon, <2>1
  <1>9. FoldLeft(AddOnce, <<>>, list) = it[1..m]
    BY <1>3, <1>4 DEF FoldLeft, MapThenFoldSet
  <1> HIDE DEF it
  <1>10. /\ it[{}] = base
         /\ \A s \in SUBSET (1..m) : s # {} => it[s] = AddOnce(it[s \ {Max(s)}], list[Max(s)])
    BY Zenon, <1>8
  <1>11. PICK r : r = [k \in 0..m |-> it[1..k]]
    BY Zenon
  <1>12. r[0] = base
    BY <1>10, <1>11, IndexPrefixes
  <1>13. ASSUME NEW k \in 1..m
         PROVE  r[k] = AddOnce(r[k - 1], list[k])
    <2>1. k - 1 \in 0..m /\ k \in 0..m /\ k \in Nat /\ k >= 1
      OBVIOUS
    <2>2. 1..k \in SUBSET (1..m)
      OBVIOUS
    <2>3. it[1..k] = AddOnce(it[1..(k - 1)], list[k])
      BY Zenon, <1>10, <2>1, <2>2, IndexPrefixes
    <2> QED BY Zenon, <1>11, <2>1, <2>3
  <1>14. \A k \in 0..m : r[k] \in V
    <2> DEFINE G == {k \in 0..m : r[k] \in V}
    <2>1. 0 \in G
      BY <1>4, <1>12
    <2>2. ASSUME NEW k \in 1..m, k - 1 \in G
          PROVE  k \in G
      <3>1. r[k] = turn[<<k, r[k - 1]>>]
        BY <1>13, <2>2
      <3>2. r[k - 1] \in V
        BY <2>2
      <3> HIDE DEF turn
      <3> QED BY <1>5, <3>1, <3>2
    <2>3. G \in SUBSET (0..m)
      OBVIOUS
    <2> HIDE DEF G
    <2>4. \A k \in 0..m : k \in G
      BY SMTT(30), <2>1, <2>2, <2>3, IndexInduction
    <2> QED BY <2>4 DEF G
  <1>15. FoldLeft(AddOnce, <<>>, list) = r[m]
    BY <1>9, <1>11
  <1> QED BY Zenon, <1>1, <1>2, <1>3, <1>12, <1>13, <1>14, <1>15 DEF OnceTrace

\* Filtering, step by turn.
KeptTrace(r, list, S, T) ==
    /\ r[0] = <<>> /\ \A k \in 0..Len(list) : r[k] \in Seq(T)
    /\ \A k \in 1..Len(list) : r[k] = (IF list[k] \in S THEN Append(r[k - 1], list[k]) ELSE r[k - 1])
    /\ Kept(list, S) = r[Len(list)]

\* Every list is filtered so.
LEMMA KeptFolds ==
  ASSUME NEW T, NEW list \in Seq(T), NEW S
  PROVE  \E r : KeptTrace(r, list, S, T)
  <1>1. PICK m \in Nat : m = Len(list)
    OBVIOUS
  <1>2. PICK V : V = Seq(T)
    OBVIOUS
  <1>3. PICK base : base = <<>>
    OBVIOUS
  <1> DEFINE Eq(i) == i = [s \in SUBSET (1..m) |->
                             IF s = {} THEN base ELSE (IF list[Max(s)] \in S THEN Append(i[s \ {Max(s)}], list[Max(s)]) ELSE i[s \ {Max(s)}])]
             it == CHOOSE i : Eq(i)
             turn == [kv \in (1..m) \X V |-> (IF list[kv[1]] \in S THEN Append(kv[2], list[kv[1]]) ELSE kv[2])]
  <1>4. DOMAIN list = 1..m /\ base \in V /\ \A k \in 1..m : list[k] \in T
    BY <1>1, <1>2, <1>3
  <1>5. turn \in [(1..m) \X V -> V]
    BY SMTT(30), <1>2, <1>4
  <1>6. PICK h : IndexFold(h, base, turn, m, V)
    <2> HIDE DEF turn
    <2> QED BY Zenon, <1>4, <1>5, IndexFoldExists
  <1>7. ASSUME NEW s \in SUBSET (1..m), s # {}
        PROVE  h[s] = (IF list[Max(s)] \in S THEN Append(h[s \ {Max(s)}], list[Max(s)]) ELSE h[s \ {Max(s)}])
    <2>1. Max(s) \in 1..m
      BY Zenon, <1>7, GreatestIsIn
    <2>2. h[s \ {Max(s)}] \in V
      BY Zenon, <1>6 DEF IndexFold
    <2>3. h[s] = turn[<<Max(s), h[s \ {Max(s)}]>>]
      BY Zenon, <1>6, <1>7 DEF IndexFold
    <2> QED BY SMTT(30), <2>1, <2>2, <2>3
  <1>8. Eq(it)
    <2>1. Eq(h)
      BY Zenon, <1>6, <1>7 DEF IndexFold
    <2> QED BY Zenon, <2>1
  <1>9. Kept(list, S) = it[1..m]
    BY <1>3, <1>4 DEF FoldLeft, MapThenFoldSet, Kept
  <1> HIDE DEF it
  <1>10. /\ it[{}] = base
         /\ \A s \in SUBSET (1..m) : s # {} => it[s] = (IF list[Max(s)] \in S THEN Append(it[s \ {Max(s)}], list[Max(s)]) ELSE it[s \ {Max(s)}])
    BY Zenon, <1>8
  <1>11. PICK r : r = [k \in 0..m |-> it[1..k]]
    BY Zenon
  <1>12. r[0] = base
    BY <1>10, <1>11, IndexPrefixes
  <1>13. ASSUME NEW k \in 1..m
         PROVE  r[k] = (IF list[k] \in S THEN Append(r[k - 1], list[k]) ELSE r[k - 1])
    <2>1. k - 1 \in 0..m /\ k \in 0..m /\ k \in Nat /\ k >= 1
      OBVIOUS
    <2>2. 1..k \in SUBSET (1..m)
      OBVIOUS
    <2>3. it[1..k] = (IF list[k] \in S THEN Append(it[1..(k - 1)], list[k]) ELSE it[1..(k - 1)])
      BY Zenon, <1>10, <2>1, <2>2, IndexPrefixes
    <2> QED BY Zenon, <1>11, <2>1, <2>3
  <1>14. \A k \in 0..m : r[k] \in V
    <2> DEFINE G == {k \in 0..m : r[k] \in V}
    <2>1. 0 \in G
      BY <1>4, <1>12
    <2>2. ASSUME NEW k \in 1..m, k - 1 \in G
          PROVE  k \in G
      <3>1. r[k] = turn[<<k, r[k - 1]>>]
        BY SMTT(30), <1>13, <2>2
      <3>2. r[k - 1] \in V
        BY <2>2
      <3> HIDE DEF turn
      <3> QED BY <1>5, <3>1, <3>2
    <2>3. G \in SUBSET (0..m)
      OBVIOUS
    <2> HIDE DEF G
    <2>4. \A k \in 0..m : k \in G
      BY <2>1, <2>2, <2>3, IndexInduction
    <2> QED BY <2>4 DEF G
  <1>15. Kept(list, S) = r[m]
    BY <1>9, <1>11
  <1> QED BY Zenon, <1>1, <1>2, <1>3, <1>12, <1>13, <1>14, <1>15 DEF KeptTrace

\* What a list gains by an element at its end.
LEMMA AppendRange ==
  ASSUME NEW T, NEW list \in Seq(T), NEW x \in T
  PROVE  Append(list, x) \in Seq(T) /\ Range(Append(list, x)) = Range(list) \cup {x}
  <1>1. /\ Append(list, x) \in Seq(T) /\ Len(Append(list, x)) = Len(list) + 1
        /\ Append(list, x)[Len(list) + 1] = x
        /\ \A i \in 1..Len(list) : Append(list, x)[i] = list[i]
    OBVIOUS
  <1>2. PICK app : app = Append(list, x)
    BY Zenon
  <1>3. /\ DOMAIN list = 1..Len(list) /\ DOMAIN app = 1..(Len(list) + 1) /\ Len(list) \in Nat
        /\ app[Len(list) + 1] = x /\ \A i \in 1..Len(list) : app[i] = list[i]
    BY <1>1, <1>2
  <1>4. Range(app) = Range(list) \cup {x}
    <2>1. \A i \in DOMAIN app : app[i] \in Range(list) \cup {x}
      BY <1>3 DEF Range
    <2>2. \A i \in DOMAIN list : i \in DOMAIN app /\ app[i] = list[i]
      BY <1>3
    <2>3. Len(list) + 1 \in DOMAIN app
      BY <1>3
    <2> QED BY Zenon, <1>3, <2>1, <2>2, <2>3 DEF Range
  <1> QED BY Zenon, <1>1, <1>2, <1>4

\* The same, when an element that is there is not added again.
LEMMA OnceRange ==
  \A T : \A list \in Seq(T), x \in T :
    AddOnce(list, x) \in Seq(T) /\ Range(AddOnce(list, x)) = Range(list) \cup {x}
  <1> TAKE T
  <1> TAKE list \in Seq(T), x \in T
  <1> QED BY AppendRange DEF AddOnce

\* The elements of the first k places.
Upto(list, k) == {list[i] : i \in 1..k}

\* They grow by one element at a time, to all of the list's.
LEMMA UptoGrows ==
  ASSUME NEW T, NEW list \in Seq(T)
  PROVE  /\ Upto(list, 0) = {} /\ Upto(list, Len(list)) = Range(list)
         /\ \A k \in 1..Len(list) : Upto(list, k) = Upto(list, k - 1) \cup {list[k]} /\ list[k] \in T
  <1>1. Upto(list, 0) = {}
    BY Zenon, IndexPrefixes DEF Upto
  <1>2. DOMAIN list = 1..Len(list) /\ Len(list) \in Nat
    OBVIOUS
  <1>3. Upto(list, Len(list)) = Range(list)
    BY Zenon, <1>2 DEF Upto, Range
  <1>4. ASSUME NEW k \in 1..Len(list)
        PROVE  Upto(list, k) = Upto(list, k - 1) \cup {list[k]} /\ list[k] \in T
    <2>1. list[k] \in T
      OBVIOUS
    <2>2. 1..k = (1..(k - 1)) \cup {k}
      BY <1>2
    <2> QED BY Zenon, <2>1, <2>2 DEF Upto
  <1> QED BY Zenon, <1>1, <1>3, <1>4

\* A filtered list has what is in the set, and nothing else.
LEMMA KeptIs ==
  ASSUME NEW T, NEW list \in Seq(T), NEW S
  PROVE  Kept(list, S) \in Seq(T) /\ Range(Kept(list, S)) = Range(list) \cap S
  <1>0. PICK r : KeptTrace(r, list, S, T)
    BY Zenon, KeptFolds
  <1>1. /\ r[0] = <<>> /\ \A k \in 0..Len(list) : r[k] \in Seq(T)
        /\ \A k \in 1..Len(list) :
             r[k] = (IF list[k] \in S THEN Append(r[k - 1], list[k]) ELSE r[k - 1])
        /\ Kept(list, S) = r[Len(list)]
    BY Zenon, <1>0 DEF KeptTrace
  <1>2. PICK m \in Nat : m = Len(list)
    OBVIOUS
  <1> DEFINE G == {k \in 0..m : Range(r[k]) = Upto(list, k) \cap S}
  <1>3. 0 \in G
    <2>1. Range(<<>>) = {}
      BY DEF Range
    <2>2. 0 \in 0..m
      OBVIOUS
    <2> QED BY Zenon, <1>1, <2>1, <2>2, UptoGrows
  <1>4. ASSUME NEW k \in 1..m, k - 1 \in G
        PROVE  k \in G
    <2>1. k \in 0..m /\ k - 1 \in 0..m
      OBVIOUS
    <2>2. r[k - 1] \in Seq(T) /\ Range(r[k - 1]) = Upto(list, k - 1) \cap S
      BY Zenon, <1>1, <1>2, <1>4, <2>1
    <2>3. Upto(list, k) = Upto(list, k - 1) \cup {list[k]} /\ list[k] \in T
      BY Zenon, <1>2, UptoGrows
    <2>4. r[k] = (IF list[k] \in S THEN Append(r[k - 1], list[k]) ELSE r[k - 1])
      BY Zenon, <1>1, <1>2
    <2>5. Range(Append(r[k - 1], list[k])) = Range(r[k - 1]) \cup {list[k]}
      BY <2>2, <2>3, AppendRange
    <2>6. Range(r[k]) = Upto(list, k) \cap S
      BY Zenon, <2>2, <2>3, <2>4, <2>5
    <2> QED BY Zenon, <2>1, <2>6
  <1>5. G \in SUBSET (0..m)
    OBVIOUS
  <1>6. m \in G
    <2> HIDE DEF G
    <2>1. \A k \in 0..m : k \in G
      BY <1>3, <1>4, <1>5, IndexInduction
    <2> QED BY SMTT(30), <2>1
  <1> QED BY <1>1, <1>2, <1>6, UptoGrows

\* Keeping the first of equals keeps every element.
LEMMA AddOnceIs ==
  ASSUME NEW T, NEW list \in Seq(T)
  PROVE  /\ FoldLeft(AddOnce, <<>>, list) \in Seq(T)
         /\ Range(FoldLeft(AddOnce, <<>>, list)) = Range(list)
  <1>0. PICK r : OnceTrace(r, list, T)
    BY AddOnceFolds
  <1>1. /\ r[0] = <<>> /\ \A k \in 0..Len(list) : r[k] \in Seq(T)
        /\ \A k \in 1..Len(list) : r[k] = AddOnce(r[k - 1], list[k])
        /\ FoldLeft(AddOnce, <<>>, list) = r[Len(list)]
    BY Zenon, <1>0 DEF OnceTrace
  <1>2. PICK m \in Nat : m = Len(list)
    OBVIOUS
  <1> DEFINE G == {k \in 0..m : Range(r[k]) = Upto(list, k)}
  <1>3. 0 \in G
    <2>1. Range(<<>>) = {}
      BY DEF Range
    <2>2. 0 \in 0..m
      OBVIOUS
    <2> QED BY Zenon, <1>1, <2>1, <2>2, UptoGrows
  <1>4. ASSUME NEW k \in 1..m, k - 1 \in G
        PROVE  k \in G
    <2>1. k \in 0..m /\ k - 1 \in 0..m
      OBVIOUS
    <2>2. r[k - 1] \in Seq(T) /\ Range(r[k - 1]) = Upto(list, k - 1)
      BY Zenon, <1>1, <1>2, <1>4, <2>1
    <2>3. Upto(list, k) = Upto(list, k - 1) \cup {list[k]} /\ list[k] \in T
      BY Zenon, <1>2, UptoGrows
    <2>4. r[k] = AddOnce(r[k - 1], list[k])
      BY Zenon, <1>1, <1>2
    <2>5. Range(AddOnce(r[k - 1], list[k])) = Range(r[k - 1]) \cup {list[k]}
      <3>1. PICK q \in Seq(T), x \in T : q = r[k - 1] /\ x = list[k]
        BY Zenon, <2>2, <2>3
      <3>2. Range(AddOnce(q, x)) = Range(q) \cup {x}
        BY OnceRange
      <3> QED BY Zenon, <3>1, <3>2
    <2>6. Range(r[k]) = Upto(list, k)
      BY Zenon, <2>2, <2>3, <2>4, <2>5
    <2> QED BY Zenon, <2>1, <2>6
  <1>5. G \in SUBSET (0..m)
    BY SMTT(30)
  <1>6. m \in G
    <2> HIDE DEF G
    <2>1. \A k \in 0..m : k \in G
      BY <1>3, <1>4, <1>5, IndexInduction
    <2> QED BY <2>1
  <1> QED BY <1>1, <1>2, <1>6, UptoGrows

-----------------------------------------------------------------------------
(* What a push says.                                                       *)

Acc(T) ==
    [servers : Seq(T), domains : Seq(T), ifconfig : BOOLEAN, hasV6 : BOOLEAN,
     dropped : Nat, droppedDomains : Nat, inList : BOOLEAN]

Parsed(S) == {x \in S : Parses(x)}

\* Three of the functions that go through tokens.
LEMMA TokenSteps ==
  ASSUME NEW T, NEW acc \in Acc(T), NEW x \in T
  PROVE  /\ WithParsedAddress(acc, x) \in Acc(T) /\ WithAddress(acc, x) \in Acc(T)
         /\ WithDomain(acc, x) \in Acc(T)
         /\ WithParsedAddress(acc, x).inList = acc.inList
         /\ WithAddress(acc, x).inList = acc.inList
         /\ WithDomain(acc, x).inList = acc.inList
         /\ WithParsedAddress(acc, x).servers = AddOnce(acc.servers, x)
         /\ WithAddress(acc, x).servers = IF Parses(x) THEN AddOnce(acc.servers, x) ELSE acc.servers
         /\ WithDomain(acc, x).servers = acc.servers
  <1>1. acc.servers \in Seq(T) /\ acc.domains \in Seq(T) /\ acc.dropped \in Nat /\ acc.droppedDomains \in Nat
    BY DEF Acc
  <1>2. AddOnce(acc.servers, x) \in Seq(T) /\ AddOnce(acc.domains, x) \in Seq(T)
    BY <1>1 DEF AddOnce
  <1>3. acc.dropped + 1 \in Nat /\ acc.droppedDomains + 1 \in Nat
    BY <1>1
  <1>4. PICK a \in Seq(T), b \in Seq(T), c \in Nat, d \in Nat :
          /\ a = AddOnce(acc.servers, x) /\ b = AddOnce(acc.domains, x)
          /\ c = acc.dropped + 1 /\ d = acc.droppedDomains + 1
    BY Zenon, <1>2, <1>3
  <1>5. /\ WithParsedAddress(acc, x) = [acc EXCEPT !.servers = a]
        /\ WithDroppedAddress(acc) = [acc EXCEPT !.dropped = c]
        /\ WithDomain(acc, x) = IF Parses(x) THEN [acc EXCEPT !.domains = b]
                                ELSE [acc EXCEPT !.droppedDomains = d]
    BY Zenon, <1>4 DEF WithParsedAddress, WithDroppedAddress, WithDomain
  <1>6. /\ [acc EXCEPT !.servers = a] \in Acc(T) /\ [acc EXCEPT !.dropped = c] \in Acc(T)
        /\ [acc EXCEPT !.domains = b] \in Acc(T) /\ [acc EXCEPT !.droppedDomains = d] \in Acc(T)
    BY Zenon, <1>4 DEF Acc
  <1>7. /\ [acc EXCEPT !.servers = a].inList = acc.inList
        /\ [acc EXCEPT !.dropped = c].inList = acc.inList
        /\ [acc EXCEPT !.domains = b].inList = acc.inList
        /\ [acc EXCEPT !.droppedDomains = d].inList = acc.inList
        /\ [acc EXCEPT !.servers = a].servers = a
        /\ [acc EXCEPT !.dropped = c].servers = acc.servers
        /\ [acc EXCEPT !.domains = b].servers = acc.servers
        /\ [acc EXCEPT !.droppedDomains = d].servers = acc.servers
    BY DEF Acc
  <1> QED BY Zenon, <1>4, <1>5, <1>6, <1>7 DEF WithAddress

\* with_parsed_address over tokens, step by turn.
ParsedTrace(r, acc, tokens, T) ==
    /\ r[0] = acc /\ \A k \in 0..Len(tokens) : r[k] \in Acc(T)
    /\ \A k \in 1..Len(tokens) : r[k] = WithParsedAddress(r[k - 1], tokens[k])
    /\ FoldLeft(WithParsedAddress, acc, tokens) = r[Len(tokens)]

\* All tokens are gone through so.
LEMMA ParsedFolds ==
  ASSUME NEW T, NEW acc \in Acc(T), NEW tokens \in Seq(T)
  PROVE  \E r : ParsedTrace(r, acc, tokens, T)
  <1>1. PICK m \in Nat : m = Len(tokens)
    OBVIOUS
  <1>2. PICK V : V = Acc(T)
    OBVIOUS
  <1>3. PICK base : base = acc
    OBVIOUS
  <1> DEFINE Eq(i) == i = [s \in SUBSET (1..m) |->
                             IF s = {} THEN base ELSE WithParsedAddress(i[s \ {Max(s)}], tokens[Max(s)])]
             it == CHOOSE i : Eq(i)
             turn == [kv \in (1..m) \X V |-> WithParsedAddress(kv[2], tokens[kv[1]])]
  <1>4. DOMAIN tokens = 1..m /\ base \in V /\ \A k \in 1..m : tokens[k] \in T
    BY <1>1, <1>2, <1>3
  <1>5. turn \in [(1..m) \X V -> V]
    BY <1>2, <1>4, TokenSteps
  <1>6. PICK h : IndexFold(h, base, turn, m, V)
    <2> HIDE DEF turn
    <2> QED BY Zenon, <1>4, <1>5, IndexFoldExists
  <1>7. ASSUME NEW s \in SUBSET (1..m), s # {}
        PROVE  h[s] = WithParsedAddress(h[s \ {Max(s)}], tokens[Max(s)])
    <2>1. Max(s) \in 1..m
      BY Zenon, <1>7, GreatestIsIn
    <2>2. h[s \ {Max(s)}] \in V
      BY Zenon, <1>6 DEF IndexFold
    <2>3. h[s] = turn[<<Max(s), h[s \ {Max(s)}]>>]
      BY Zenon, <1>6, <1>7 DEF IndexFold
    <2> QED BY <2>1, <2>2, <2>3
  <1>8. Eq(it)
    <2>1. Eq(h)
      BY Zenon, <1>6, <1>7 DEF IndexFold
    <2> QED BY Zenon, <2>1
  <1>9. FoldLeft(WithParsedAddress, acc, tokens) = it[1..m]
    BY <1>3, <1>4 DEF FoldLeft, MapThenFoldSet
  <1> HIDE DEF it
  <1>10. /\ it[{}] = base
         /\ \A s \in SUBSET (1..m) : s # {} => it[s] = WithParsedAddress(it[s \ {Max(s)}], tokens[Max(s)])
    BY Zenon, <1>8
  <1>11. PICK r : r = [k \in 0..m |-> it[1..k]]
    BY Zenon
  <1>12. r[0] = base
    BY <1>10, <1>11, IndexPrefixes
  <1>13. ASSUME NEW k \in 1..m
         PROVE  r[k] = WithParsedAddress(r[k - 1], tokens[k])
    <2>1. k - 1 \in 0..m /\ k \in 0..m /\ k \in Nat /\ k >= 1
      OBVIOUS
    <2>2. 1..k \in SUBSET (1..m)
      OBVIOUS
    <2>3. it[1..k] = WithParsedAddress(it[1..(k - 1)], tokens[k])
      BY Zenon, <1>10, <2>1, <2>2, IndexPrefixes
    <2> QED BY Zenon, <1>11, <2>1, <2>3
  <1>14. \A k \in 0..m : r[k] \in V
    <2> DEFINE G == {k \in 0..m : r[k] \in V}
    <2>1. 0 \in G
      BY <1>4, <1>12
    <2>2. ASSUME NEW k \in 1..m, k - 1 \in G
          PROVE  k \in G
      <3>1. r[k] = turn[<<k, r[k - 1]>>]
        BY <1>13, <2>2
      <3>2. r[k - 1] \in V
        BY <2>2
      <3> HIDE DEF turn
      <3> QED BY SMTT(30), <1>5, <3>1, <3>2
    <2>3. G \in SUBSET (0..m)
      OBVIOUS
    <2> HIDE DEF G
    <2>4. \A k \in 0..m : k \in G
      BY SMTT(30), <2>1, <2>2, <2>3, IndexInduction
    <2> QED BY <2>4 DEF G
  <1>15. FoldLeft(WithParsedAddress, acc, tokens) = r[m]
    BY SMTT(30), <1>9, <1>11
  <1> QED BY Zenon, <1>1, <1>2, <1>3, <1>12, <1>13, <1>14, <1>15 DEF ParsedTrace

\* with_address over tokens, step by turn.
AddressTrace(r, acc, tokens, T) ==
    /\ r[0] = acc /\ \A k \in 0..Len(tokens) : r[k] \in Acc(T)
    /\ \A k \in 1..Len(tokens) : r[k] = WithAddress(r[k - 1], tokens[k])
    /\ FoldLeft(WithAddress, acc, tokens) = r[Len(tokens)]

\* All tokens are gone through so.
LEMMA AddressFolds ==
  ASSUME NEW T, NEW acc \in Acc(T), NEW tokens \in Seq(T)
  PROVE  \E r : AddressTrace(r, acc, tokens, T)
  <1>1. PICK m \in Nat : m = Len(tokens)
    OBVIOUS
  <1>2. PICK V : V = Acc(T)
    OBVIOUS
  <1>3. PICK base : base = acc
    OBVIOUS
  <1> DEFINE Eq(i) == i = [s \in SUBSET (1..m) |->
                             IF s = {} THEN base ELSE WithAddress(i[s \ {Max(s)}], tokens[Max(s)])]
             it == CHOOSE i : Eq(i)
             turn == [kv \in (1..m) \X V |-> WithAddress(kv[2], tokens[kv[1]])]
  <1>4. DOMAIN tokens = 1..m /\ base \in V /\ \A k \in 1..m : tokens[k] \in T
    BY <1>1, <1>2, <1>3
  <1>5. turn \in [(1..m) \X V -> V]
    BY SMTT(30), <1>2, <1>4, TokenSteps
  <1>6. PICK h : IndexFold(h, base, turn, m, V)
    <2> HIDE DEF turn
    <2> QED BY Zenon, <1>4, <1>5, IndexFoldExists
  <1>7. ASSUME NEW s \in SUBSET (1..m), s # {}
        PROVE  h[s] = WithAddress(h[s \ {Max(s)}], tokens[Max(s)])
    <2>1. Max(s) \in 1..m
      BY Zenon, <1>7, GreatestIsIn
    <2>2. h[s \ {Max(s)}] \in V
      BY Zenon, <1>6 DEF IndexFold
    <2>3. h[s] = turn[<<Max(s), h[s \ {Max(s)}]>>]
      BY Zenon, <1>6, <1>7 DEF IndexFold
    <2> QED BY <2>1, <2>2, <2>3
  <1>8. Eq(it)
    <2>1. Eq(h)
      BY Zenon, <1>6, <1>7 DEF IndexFold
    <2> QED BY Zenon, <2>1
  <1>9. FoldLeft(WithAddress, acc, tokens) = it[1..m]
    BY <1>3, <1>4 DEF FoldLeft, MapThenFoldSet
  <1> HIDE DEF it
  <1>10. /\ it[{}] = base
         /\ \A s \in SUBSET (1..m) : s # {} => it[s] = WithAddress(it[s \ {Max(s)}], tokens[Max(s)])
    BY Zenon, <1>8
  <1>11. PICK r : r = [k \in 0..m |-> it[1..k]]
    BY Zenon
  <1>12. r[0] = base
    BY <1>10, <1>11, IndexPrefixes
  <1>13. ASSUME NEW k \in 1..m
         PROVE  r[k] = WithAddress(r[k - 1], tokens[k])
    <2>1. k - 1 \in 0..m /\ k \in 0..m /\ k \in Nat /\ k >= 1
      OBVIOUS
    <2>2. 1..k \in SUBSET (1..m)
      OBVIOUS
    <2>3. it[1..k] = WithAddress(it[1..(k - 1)], tokens[k])
      BY Zenon, <1>10, <2>1, <2>2, IndexPrefixes
    <2> QED BY Zenon, <1>11, <2>1, <2>3
  <1>14. \A k \in 0..m : r[k] \in V
    <2> DEFINE G == {k \in 0..m : r[k] \in V}
    <2>1. 0 \in G
      BY <1>4, <1>12
    <2>2. ASSUME NEW k \in 1..m, k - 1 \in G
          PROVE  k \in G
      <3>1. r[k] = turn[<<k, r[k - 1]>>]
        BY <1>13, <2>2
      <3>2. r[k - 1] \in V
        BY <2>2
      <3> HIDE DEF turn
      <3> QED BY <1>5, <3>1, <3>2
    <2>3. G \in SUBSET (0..m)
      OBVIOUS
    <2> HIDE DEF G
    <2>4. \A k \in 0..m : k \in G
      BY <2>1, <2>2, <2>3, IndexInduction
    <2> QED BY <2>4 DEF G
  <1>15. FoldLeft(WithAddress, acc, tokens) = r[m]
    BY <1>9, <1>11
  <1> QED BY Zenon, <1>1, <1>2, <1>3, <1>12, <1>13, <1>14, <1>15 DEF AddressTrace

\* with_domain over tokens, step by turn.
DomainTrace(r, acc, tokens, T) ==
    /\ r[0] = acc /\ \A k \in 0..Len(tokens) : r[k] \in Acc(T)
    /\ \A k \in 1..Len(tokens) : r[k] = WithDomain(r[k - 1], tokens[k])
    /\ FoldLeft(WithDomain, acc, tokens) = r[Len(tokens)]

\* All tokens are gone through so.
LEMMA DomainFolds ==
  ASSUME NEW T, NEW acc \in Acc(T), NEW tokens \in Seq(T)
  PROVE  \E r : DomainTrace(r, acc, tokens, T)
  <1>1. PICK m \in Nat : m = Len(tokens)
    OBVIOUS
  <1>2. PICK V : V = Acc(T)
    OBVIOUS
  <1>3. PICK base : base = acc
    OBVIOUS
  <1> DEFINE Eq(i) == i = [s \in SUBSET (1..m) |->
                             IF s = {} THEN base ELSE WithDomain(i[s \ {Max(s)}], tokens[Max(s)])]
             it == CHOOSE i : Eq(i)
             turn == [kv \in (1..m) \X V |-> WithDomain(kv[2], tokens[kv[1]])]
  <1>4. DOMAIN tokens = 1..m /\ base \in V /\ \A k \in 1..m : tokens[k] \in T
    BY <1>1, <1>2, <1>3
  <1>5. turn \in [(1..m) \X V -> V]
    BY SMTT(30), <1>2, <1>4, TokenSteps
  <1>6. PICK h : IndexFold(h, base, turn, m, V)
    <2> HIDE DEF turn
    <2> QED BY Zenon, <1>4, <1>5, IndexFoldExists
  <1>7. ASSUME NEW s \in SUBSET (1..m), s # {}
        PROVE  h[s] = WithDomain(h[s \ {Max(s)}], tokens[Max(s)])
    <2>1. Max(s) \in 1..m
      BY Zenon, <1>7, GreatestIsIn
    <2>2. h[s \ {Max(s)}] \in V
      BY Zenon, <1>6 DEF IndexFold
    <2>3. h[s] = turn[<<Max(s), h[s \ {Max(s)}]>>]
      BY Zenon, <1>6, <1>7 DEF IndexFold
    <2> QED BY <2>1, <2>2, <2>3
  <1>8. Eq(it)
    <2>1. Eq(h)
      BY Zenon, <1>6, <1>7 DEF IndexFold
    <2> QED BY Zenon, <2>1
  <1>9. FoldLeft(WithDomain, acc, tokens) = it[1..m]
    BY <1>3, <1>4 DEF FoldLeft, MapThenFoldSet
  <1> HIDE DEF it
  <1>10. /\ it[{}] = base
         /\ \A s \in SUBSET (1..m) : s # {} => it[s] = WithDomain(it[s \ {Max(s)}], tokens[Max(s)])
    BY Zenon, <1>8
  <1>11. PICK r : r = [k \in 0..m |-> it[1..k]]
    BY Zenon
  <1>12. r[0] = base
    BY <1>10, <1>11, IndexPrefixes
  <1>13. ASSUME NEW k \in 1..m
         PROVE  r[k] = WithDomain(r[k - 1], tokens[k])
    <2>1. k - 1 \in 0..m /\ k \in 0..m /\ k \in Nat /\ k >= 1
      OBVIOUS
    <2>2. 1..k \in SUBSET (1..m)
      OBVIOUS
    <2>3. it[1..k] = WithDomain(it[1..(k - 1)], tokens[k])
      BY Zenon, <1>10, <2>1, <2>2, IndexPrefixes
    <2> QED BY Zenon, <1>11, <2>1, <2>3
  <1>14. \A k \in 0..m : r[k] \in V
    <2> DEFINE G == {k \in 0..m : r[k] \in V}
    <2>1. 0 \in G
      BY <1>4, <1>12
    <2>2. ASSUME NEW k \in 1..m, k - 1 \in G
          PROVE  k \in G
      <3>1. r[k] = turn[<<k, r[k - 1]>>]
        BY <1>13, <2>2
      <3>2. r[k - 1] \in V
        BY <2>2
      <3> HIDE DEF turn
      <3> QED BY <1>5, <3>1, <3>2
    <2>3. G \in SUBSET (0..m)
      OBVIOUS
    <2> HIDE DEF G
    <2>4. \A k \in 0..m : k \in G
      BY <2>1, <2>2, <2>3, IndexInduction
    <2> QED BY <2>4 DEF G
  <1>15. FoldLeft(WithDomain, acc, tokens) = r[m]
    BY <1>9, <1>11
  <1> QED BY Zenon, <1>1, <1>2, <1>3, <1>12, <1>13, <1>14, <1>15 DEF DomainTrace

\* A continuation adds all its addresses.
LEMMA ParsedIs ==
  ASSUME NEW T, NEW acc \in Acc(T), NEW tokens \in Seq(T)
  PROVE  /\ FoldLeft(WithParsedAddress, acc, tokens) \in Acc(T)
         /\ FoldLeft(WithParsedAddress, acc, tokens).inList = acc.inList
         /\ Range(FoldLeft(WithParsedAddress, acc, tokens).servers) = Range(acc.servers) \cup Range(tokens)
  <1>0. PICK r : ParsedTrace(r, acc, tokens, T)
    BY ParsedFolds
  <1>1. /\ r[0] = acc /\ \A k \in 0..Len(tokens) : r[k] \in Acc(T)
        /\ \A k \in 1..Len(tokens) : r[k] = WithParsedAddress(r[k - 1], tokens[k])
        /\ FoldLeft(WithParsedAddress, acc, tokens) = r[Len(tokens)]
    BY Zenon, <1>0 DEF ParsedTrace
  <1>2. PICK m \in Nat : m = Len(tokens)
    OBVIOUS
  <1> DEFINE G == {k \in 0..m : /\ Range(r[k].servers) = Range(acc.servers) \cup Upto(tokens, k)
                               /\ r[k].inList = acc.inList}
  <1>3. 0 \in G
    <2>1. 0 \in 0..m
      OBVIOUS
    <2> QED BY Zenon, <1>1, <2>1, UptoGrows DEF Parsed
  <1>4. ASSUME NEW k \in 1..m, k - 1 \in G
        PROVE  k \in G
    <2>1. k \in 0..m /\ k - 1 \in 0..m
      OBVIOUS
    <2>2. PICK a \in Acc(T) : a = r[k - 1]
      BY Zenon, <1>1, <1>2, <2>1
    <2>3. Range(a.servers) = Range(acc.servers) \cup Upto(tokens, k - 1) /\ a.inList = acc.inList
      BY Zenon, <1>4, <2>2
    <2>4. Upto(tokens, k) = Upto(tokens, k - 1) \cup {tokens[k]} /\ tokens[k] \in T
      BY Zenon, <1>2, UptoGrows
    <2>5. PICK x \in T : x = tokens[k]
      BY Zenon, <2>4
    <2>6. r[k] = WithParsedAddress(a, x)
      BY Zenon, <1>1, <1>2, <2>2, <2>5
    <2>7. WithParsedAddress(a, x).inList = a.inList /\ WithParsedAddress(a, x).servers = AddOnce(a.servers, x)
      BY TokenSteps
    <2>8. Range(AddOnce(a.servers, x)) = Range(a.servers) \cup {x}
      <3>1. a.servers \in Seq(T)
        BY DEF Acc
      <3> QED BY <3>1, OnceRange
    <2>9. Range(r[k].servers) = Range(acc.servers) \cup Upto(tokens, k) /\ r[k].inList = acc.inList
      BY Zenon, <2>3, <2>4, <2>5, <2>6, <2>7, <2>8 DEF Parsed
    <2> QED BY Zenon, <2>1, <2>9
  <1>5. G \in SUBSET (0..m)
    OBVIOUS
  <1>6. m \in G
    <2> HIDE DEF G
    <2>1. \A k \in 0..m : k \in G
      BY <1>3, <1>4, <1>5, IndexInduction
    <2> QED BY SMTT(30), <2>1
  <1>7. Upto(tokens, m) = Range(tokens)
    BY <1>2, UptoGrows
  <1>8. m \in 0..m
    OBVIOUS
  <1> QED BY Zenon, <1>1, <1>2, <1>6, <1>7, <1>8

\* A list adds those of its tokens that are addresses.
LEMMA AddressIs ==
  ASSUME NEW T, NEW acc \in Acc(T), NEW tokens \in Seq(T)
  PROVE  /\ FoldLeft(WithAddress, acc, tokens) \in Acc(T)
         /\ FoldLeft(WithAddress, acc, tokens).inList = acc.inList
         /\ Range(FoldLeft(WithAddress, acc, tokens).servers) = Range(acc.servers) \cup Parsed(Range(tokens))
  <1>0. PICK r : AddressTrace(r, acc, tokens, T)
    BY AddressFolds
  <1>1. /\ r[0] = acc /\ \A k \in 0..Len(tokens) : r[k] \in Acc(T)
        /\ \A k \in 1..Len(tokens) : r[k] = WithAddress(r[k - 1], tokens[k])
        /\ FoldLeft(WithAddress, acc, tokens) = r[Len(tokens)]
    BY Zenon, <1>0 DEF AddressTrace
  <1>2. PICK m \in Nat : m = Len(tokens)
    OBVIOUS
  <1> DEFINE G == {k \in 0..m : /\ Range(r[k].servers) = Range(acc.servers) \cup Parsed(Upto(tokens, k))
                               /\ r[k].inList = acc.inList}
  <1>3. 0 \in G
    <2>1. 0 \in 0..m
      OBVIOUS
    <2> QED BY Zenon, <1>1, <2>1, UptoGrows DEF Parsed
  <1>4. ASSUME NEW k \in 1..m, k - 1 \in G
        PROVE  k \in G
    <2>1. k \in 0..m /\ k - 1 \in 0..m
      OBVIOUS
    <2>2. PICK a \in Acc(T) : a = r[k - 1]
      BY Zenon, <1>1, <1>2, <2>1
    <2>3. Range(a.servers) = Range(acc.servers) \cup Parsed(Upto(tokens, k - 1)) /\ a.inList = acc.inList
      BY Zenon, <1>4, <2>2
    <2>4. Upto(tokens, k) = Upto(tokens, k - 1) \cup {tokens[k]} /\ tokens[k] \in T
      BY Zenon, <1>2, UptoGrows
    <2>5. PICK x \in T : x = tokens[k]
      BY Zenon, <2>4
    <2>6. r[k] = WithAddress(a, x)
      BY Zenon, <1>1, <1>2, <2>2, <2>5
    <2>7. WithAddress(a, x).inList = a.inList /\ WithAddress(a, x).servers = IF Parses(x) THEN AddOnce(a.servers, x) ELSE a.servers
      BY TokenSteps
    <2>8. Range(AddOnce(a.servers, x)) = Range(a.servers) \cup {x}
      <3>1. a.servers \in Seq(T)
        BY DEF Acc
      <3> QED BY <3>1, OnceRange
    <2>9. Range(r[k].servers) = Range(acc.servers) \cup Parsed(Upto(tokens, k)) /\ r[k].inList = acc.inList
      BY Zenon, <2>3, <2>4, <2>5, <2>6, <2>7, <2>8 DEF Parsed
    <2> QED BY Zenon, <2>1, <2>9
  <1>5. G \in SUBSET (0..m)
    OBVIOUS
  <1>6. m \in G
    <2> HIDE DEF G
    <2>1. \A k \in 0..m : k \in G
      BY <1>3, <1>4, <1>5, IndexInduction
    <2> QED BY <2>1
  <1>7. Upto(tokens, m) = Range(tokens)
    BY <1>2, UptoGrows
  <1>8. m \in 0..m
    OBVIOUS
  <1> QED BY Zenon, <1>1, <1>2, <1>6, <1>7, <1>8

\* Search domains add no server.
LEMMA DomainIs ==
  ASSUME NEW T, NEW acc \in Acc(T), NEW tokens \in Seq(T)
  PROVE  /\ FoldLeft(WithDomain, acc, tokens) \in Acc(T)
         /\ FoldLeft(WithDomain, acc, tokens).inList = acc.inList
         /\ Range(FoldLeft(WithDomain, acc, tokens).servers) = Range(acc.servers) \cup {}
  <1>0. PICK r : DomainTrace(r, acc, tokens, T)
    BY DomainFolds
  <1>1. /\ r[0] = acc /\ \A k \in 0..Len(tokens) : r[k] \in Acc(T)
        /\ \A k \in 1..Len(tokens) : r[k] = WithDomain(r[k - 1], tokens[k])
        /\ FoldLeft(WithDomain, acc, tokens) = r[Len(tokens)]
    BY Zenon, <1>0 DEF DomainTrace
  <1>2. PICK m \in Nat : m = Len(tokens)
    OBVIOUS
  <1> DEFINE G == {k \in 0..m : /\ Range(r[k].servers) = Range(acc.servers) \cup {}
                               /\ r[k].inList = acc.inList}
  <1>3. 0 \in G
    <2>1. 0 \in 0..m
      OBVIOUS
    <2> QED BY Zenon, <1>1, <2>1, UptoGrows DEF Parsed
  <1>4. ASSUME NEW k \in 1..m, k - 1 \in G
        PROVE  k \in G
    <2>1. k \in 0..m /\ k - 1 \in 0..m
      OBVIOUS
    <2>2. PICK a \in Acc(T) : a = r[k - 1]
      BY Zenon, <1>1, <1>2, <2>1
    <2>3. Range(a.servers) = Range(acc.servers) \cup {} /\ a.inList = acc.inList
      BY Zenon, <1>4, <2>2
    <2>4. Upto(tokens, k) = Upto(tokens, k - 1) \cup {tokens[k]} /\ tokens[k] \in T
      BY Zenon, <1>2, UptoGrows
    <2>5. PICK x \in T : x = tokens[k]
      BY Zenon, <2>4
    <2>6. r[k] = WithDomain(a, x)
      BY Zenon, <1>1, <1>2, <2>2, <2>5
    <2>7. WithDomain(a, x).inList = a.inList /\ WithDomain(a, x).servers = a.servers
      BY TokenSteps
    <2>8. Range(AddOnce(a.servers, x)) = Range(a.servers) \cup {x}
      <3>1. a.servers \in Seq(T)
        BY DEF Acc
      <3> QED BY <3>1, OnceRange
    <2>9. Range(r[k].servers) = Range(acc.servers) \cup {} /\ r[k].inList = acc.inList
      BY Zenon, <2>3, <2>4, <2>5, <2>6, <2>7, <2>8 DEF Parsed
    <2> QED BY Zenon, <2>1, <2>9
  <1>5. G \in SUBSET (0..m)
    BY SMTT(30)
  <1>6. m \in G
    <2> HIDE DEF G
    <2>1. \A k \in 0..m : k \in G
      BY <1>3, <1>4, <1>5, IndexInduction
    <2> QED BY <2>1
  <1>7. Upto(tokens, m) = Range(tokens)
    BY <1>2, UptoGrows
  <1>8. m \in 0..m
    OBVIOUS
  <1> QED BY Zenon, <1>1, <1>2, <1>6, <1>7, <1>8

\* Nothing but addresses.
AllParse(tokens) == tokens # <<>> /\ \A i \in DOMAIN tokens : Parses(tokens[i])

\* Whether the fragment behind option o continues a list of servers, when o
\* itself does or does not, and the servers o names.
ListAfter(inside, o) ==
    o.kind = "dns server address" \/ (inside /\ o.kind = "text" /\ AllParse(o.tokens))

NamesBy(inside, o) ==
    { s \in Range(o.tokens) :
        Parses(s) /\ \/ o.kind = "dhcp-option DNS" /\ FirstToken(o.tokens) = s
                     \/ ListAfter(inside, o) }

OptionsOver(T) == [kind : Kinds, tokens : Seq(T)]

\* `absorb`: what one option does to the servers and to the open list.
LEMMA AbsorbIs ==
  ASSUME NEW T, Malformed \in T, NEW acc \in Acc(T), NEW o \in OptionsOver(T)
  PROVE  /\ Absorb(acc, o) \in Acc(T)
         /\ Absorb(acc, o).inList <=> ListAfter(acc.inList, o)
         /\ Range(Absorb(acc, o).servers) = Range(acc.servers) \cup NamesBy(acc.inList, o)
  <1>1. PICK tokens \in Seq(T) : tokens = o.tokens
    BY DEF OptionsOver
  <1>2. PICK kind \in Kinds : kind = o.kind
    BY DEF OptionsOver
  <1>3. PICK fresh \in Acc(T) : fresh = WithoutContinuation(acc) /\ fresh.servers = acc.servers
                                /\ fresh.inList = FALSE
    <2>1. /\ [acc EXCEPT !.inList = FALSE] \in Acc(T)
          /\ [acc EXCEPT !.inList = FALSE].servers = acc.servers
          /\ [acc EXCEPT !.inList = FALSE].inList = FALSE
      BY Zenon DEF Acc
    <2> QED BY Zenon, <2>1 DEF WithoutContinuation
  <1>4. ASSUME kind \notin {"dns server address", "dhcp-option DNS", "text"}
        PROVE  NamesBy(acc.inList, o) = {} /\ ~ListAfter(acc.inList, o)
    BY Zenon, <1>2, <1>4 DEF NamesBy, ListAfter
  <1>5. DOMAIN tokens = 1..Len(tokens) /\ Len(tokens) \in Nat
    OBVIOUS
  <1>55. FirstToken(tokens) \in T
    <2>1. tokens # <<>> => Head(tokens) \in T
      OBVIOUS
    <2> QED BY Zenon, <2>1 DEF FirstToken
  <1>6. CASE kind = "dhcp-option DNS"
    <2>1. PICK x \in T : x = FirstToken(tokens)
      BY Zenon, <1>55
    <2>2. Absorb(acc, o) = WithAddress(fresh, x)
      BY Zenon, <1>1, <1>2, <1>3, <1>6, <2>1 DEF Absorb
    <2>3. /\ WithAddress(fresh, x) \in Acc(T) /\ WithAddress(fresh, x).inList = FALSE
          /\ WithAddress(fresh, x).servers = IF Parses(x) THEN AddOnce(acc.servers, x) ELSE acc.servers
      <3>1. /\ WithAddress(fresh, x) \in Acc(T) /\ WithAddress(fresh, x).inList = fresh.inList
            /\ WithAddress(fresh, x).servers = IF Parses(x) THEN AddOnce(fresh.servers, x) ELSE fresh.servers
        BY TokenSteps
      <3> QED BY Zenon, <1>3, <3>1
    <2>4. Range(AddOnce(acc.servers, x)) = Range(acc.servers) \cup {x}
      <3>1. acc.servers \in Seq(T)
        BY DEF Acc
      <3> QED BY SMTT(30), <3>1, OnceRange
    <2>5. ~ListAfter(acc.inList, o)
      BY Zenon, <1>2, <1>6 DEF ListAfter
    <2>6. Parses(x) => x \in Range(tokens)
      <3>1. tokens # <<>> => tokens[1] = Head(tokens) /\ 1 \in DOMAIN tokens
        OBVIOUS
      <3> QED BY Zenon, <2>1, <3>1 DEF FirstToken, Parses, Range
    <2>7. NamesBy(acc.inList, o) = Parsed({x})
      BY Zenon, <1>1, <1>2, <1>6, <2>1, <2>5, <2>6 DEF NamesBy, Parsed
    <2> QED BY Zenon, <2>2, <2>3, <2>4, <2>5, <2>7 DEF Parsed
  <1>7. CASE kind = "dhcp-option DOMAIN"
    <2>1. PICK x \in T : x = FirstToken(tokens)
      BY Zenon, <1>55
    <2>2. Absorb(acc, o) = WithDomain(fresh, x)
      BY Zenon, <1>1, <1>2, <1>3, <1>7, <2>1 DEF Absorb
    <2>3. /\ WithDomain(fresh, x) \in Acc(T) /\ WithDomain(fresh, x).inList = FALSE
          /\ WithDomain(fresh, x).servers = acc.servers
      <3>1. /\ WithDomain(fresh, x) \in Acc(T) /\ WithDomain(fresh, x).inList = fresh.inList
            /\ WithDomain(fresh, x).servers = fresh.servers
        BY TokenSteps
      <3> QED BY Zenon, <1>3, <3>1
    <2> QED BY Zenon, <1>4, <1>7, <2>2, <2>3
  <1>8. CASE kind = "dns server address"
    <2>1. PICK a \in Acc(T) : a = FoldLeft(WithAddress, fresh, tokens)
                              /\ Range(a.servers) = Range(acc.servers) \cup Parsed(Range(tokens))
      <3>1. /\ FoldLeft(WithAddress, fresh, tokens) \in Acc(T)
            /\ Range(FoldLeft(WithAddress, fresh, tokens).servers)
                 = Range(fresh.servers) \cup Parsed(Range(tokens))
        BY AddressIs
      <3> QED BY Zenon, <1>3, <3>1
    <2>2. Absorb(acc, o) = [a EXCEPT !.inList = TRUE]
      BY Zenon, <1>1, <1>2, <1>3, <1>8, <2>1 DEF Absorb
    <2>3. /\ [a EXCEPT !.inList = TRUE] \in Acc(T) /\ [a EXCEPT !.inList = TRUE].inList = TRUE
          /\ [a EXCEPT !.inList = TRUE].servers = a.servers
      BY Zenon DEF Acc
    <2>4. ListAfter(acc.inList, o) /\ NamesBy(acc.inList, o) = Parsed(Range(tokens))
      BY Zenon, <1>1, <1>2, <1>8 DEF NamesBy, ListAfter, Parsed
    <2> QED BY Zenon, <2>1, <2>2, <2>3, <2>4
  <1>9. CASE kind = "dns search-domains"
    <2>1. PICK a \in Acc(T) : a = FoldLeft(WithDomain, fresh, tokens) /\ a.inList = FALSE
                              /\ Range(a.servers) = Range(acc.servers)
      <3>1. /\ FoldLeft(WithDomain, fresh, tokens) \in Acc(T)
            /\ FoldLeft(WithDomain, fresh, tokens).inList = fresh.inList
            /\ Range(FoldLeft(WithDomain, fresh, tokens).servers) = Range(fresh.servers) \cup {}
        BY DomainIs
      <3> QED BY Zenon, <1>3, <3>1
    <2>2. Absorb(acc, o) = a
      BY Zenon, <1>1, <1>2, <1>3, <1>9, <2>1 DEF Absorb
    <2> QED BY Zenon, <1>4, <1>9, <2>1, <2>2
  <1>10. CASE kind = "ifconfig"
    <2>1. /\ [fresh EXCEPT !.ifconfig = TRUE] \in Acc(T)
          /\ [fresh EXCEPT !.ifconfig = TRUE].servers = acc.servers
          /\ [fresh EXCEPT !.ifconfig = TRUE].inList = FALSE
      BY Zenon, <1>3 DEF Acc
    <2>2. PICK c \in Nat : c = fresh.dropped + 1
      BY DEF Acc
    <2>3. /\ [fresh EXCEPT !.dropped = c] \in Acc(T)
          /\ [fresh EXCEPT !.dropped = c].servers = acc.servers
          /\ [fresh EXCEPT !.dropped = c].inList = FALSE
      BY Zenon, <1>3 DEF Acc
    <2>4. Absorb(acc, o) \in {[fresh EXCEPT !.ifconfig = TRUE], [fresh EXCEPT !.dropped = c]}
      <3>1. Absorb(acc, o) = AbsorbIfconfig(fresh, tokens)
        BY Zenon, <1>1, <1>2, <1>3, <1>10 DEF Absorb
      <3> QED BY Zenon, <2>2, <3>1 DEF AbsorbIfconfig, WithDroppedAddress
    <2> QED BY Zenon, <1>4, <1>10, <2>1, <2>3, <2>4
  <1>11. CASE kind = "ipv6"
    <2>1. /\ [fresh EXCEPT !.hasV6 = TRUE] \in Acc(T)
          /\ [fresh EXCEPT !.hasV6 = TRUE].servers = acc.servers
          /\ [fresh EXCEPT !.hasV6 = TRUE].inList = FALSE
      BY Zenon, <1>3 DEF Acc
    <2>2. Absorb(acc, o) = [fresh EXCEPT !.hasV6 = TRUE]
      BY Zenon, <1>1, <1>2, <1>3, <1>11 DEF Absorb
    <2> QED BY Zenon, <1>4, <1>11, <2>1, <2>2
  <1>12. CASE kind = "ignored"
    <2>1. Absorb(acc, o) = fresh
      BY Zenon, <1>1, <1>2, <1>3, <1>12 DEF Absorb
    <2> QED BY Zenon, <1>3, <1>4, <1>12, <2>1
  <1>13. CASE kind = "text"
    <2>1. Absorb(acc, o) = AbsorbContinuation(acc, tokens)
      BY Zenon, <1>1, <1>2, <1>13 DEF Absorb
    <2>2. CASE acc.inList /\ AllParse(tokens)
      <3>1. PICK a \in Acc(T) : a = FoldLeft(WithParsedAddress, acc, tokens)
                                /\ a.inList = acc.inList
                                /\ Range(a.servers) = Range(acc.servers) \cup Range(tokens)
        BY ParsedIs
      <3>2. Absorb(acc, o) = a
        BY Zenon, <2>1, <2>2, <3>1 DEF AbsorbContinuation, AllParse
      <3>3. ListAfter(acc.inList, o) /\ NamesBy(acc.inList, o) = Range(tokens)
        <4>1. \A s \in Range(tokens) : Parses(s)
          BY Zenon, <2>2 DEF AllParse, Range
        <4> QED BY Zenon, <1>1, <1>2, <1>13, <2>2, <4>1 DEF NamesBy, ListAfter
      <3> QED BY Zenon, <2>2, <3>1, <3>2, <3>3
    <2>3. CASE ~(acc.inList /\ AllParse(tokens))
      <3>1. Absorb(acc, o) = fresh
        BY Zenon, <1>3, <2>1, <2>3 DEF AbsorbContinuation, AllParse
      <3>2. ~ListAfter(acc.inList, o) /\ NamesBy(acc.inList, o) = {}
        BY Zenon, <1>1, <1>2, <1>13, <2>3 DEF NamesBy, ListAfter
      <3> QED BY Zenon, <1>3, <3>1, <3>2
    <2> QED BY Zenon, <2>2, <2>3
  <1> QED BY Zenon, <1>2, <1>6, <1>7, <1>8, <1>9, <1>10, <1>11, <1>12, <1>13 DEF Kinds, DomainKinds

\* A push starts with nothing.
LEMMA AccumulatorTyped ==
  \A T : /\ Accumulator \in Acc(T) /\ Range(Accumulator.servers) = {}
         /\ Accumulator.inList = FALSE
  BY DEF Accumulator, Acc, Range

\* A push, option by option.
PushTrace(r, options, T) ==
    /\ r[0] = Accumulator /\ \A k \in 0..Len(options) : r[k] \in Acc(T)
    /\ \A k \in 1..Len(options) : r[k] = Absorb(r[k - 1], options[k])
    /\ FoldLeft(Absorb, Accumulator, options) = r[Len(options)]

\* Every push is absorbed so.
LEMMA AbsorbFolds ==
  ASSUME NEW T, Malformed \in T, NEW options \in Seq(OptionsOver(T))
  PROVE  \E r : PushTrace(r, options, T)
  <1>1. PICK m \in Nat : m = Len(options)
    OBVIOUS
  <1>2. PICK V : V = Acc(T)
    OBVIOUS
  <1>3. PICK base : base = Accumulator
    OBVIOUS
  <1> DEFINE Eq(i) == i = [s \in SUBSET (1..m) |->
                             IF s = {} THEN base ELSE Absorb(i[s \ {Max(s)}], options[Max(s)])]
             it == CHOOSE i : Eq(i)
             turn == [kv \in (1..m) \X V |-> Absorb(kv[2], options[kv[1]])]
  <1>4. DOMAIN options = 1..m /\ base \in V /\ \A k \in 1..m : options[k] \in OptionsOver(T)
    BY SMTT(30), <1>1, <1>2, <1>3, AccumulatorTyped
  <1>5. turn \in [(1..m) \X V -> V]
    BY SMTT(30), <1>2, <1>4, AbsorbIs
  <1>6. PICK h : IndexFold(h, base, turn, m, V)
    <2> HIDE DEF turn
    <2> QED BY Zenon, <1>4, <1>5, IndexFoldExists
  <1>7. ASSUME NEW s \in SUBSET (1..m), s # {}
        PROVE  h[s] = Absorb(h[s \ {Max(s)}], options[Max(s)])
    <2>1. Max(s) \in 1..m
      BY Zenon, <1>7, GreatestIsIn
    <2>2. h[s \ {Max(s)}] \in V
      BY Zenon, <1>6 DEF IndexFold
    <2>3. h[s] = turn[<<Max(s), h[s \ {Max(s)}]>>]
      BY Zenon, <1>6, <1>7 DEF IndexFold
    <2> QED BY <2>1, <2>2, <2>3
  <1>8. Eq(it)
    <2>1. Eq(h)
      BY Zenon, <1>6, <1>7 DEF IndexFold
    <2> QED BY Zenon, <2>1
  <1>9. FoldLeft(Absorb, Accumulator, options) = it[1..m]
    BY <1>3, <1>4 DEF FoldLeft, MapThenFoldSet
  <1> HIDE DEF it
  <1>10. /\ it[{}] = base
         /\ \A s \in SUBSET (1..m) : s # {} => it[s] = Absorb(it[s \ {Max(s)}], options[Max(s)])
    BY Zenon, <1>8
  <1>11. PICK r : r = [k \in 0..m |-> it[1..k]]
    BY Zenon
  <1>12. r[0] = base
    BY <1>10, <1>11, IndexPrefixes
  <1>13. ASSUME NEW k \in 1..m
         PROVE  r[k] = Absorb(r[k - 1], options[k])
    <2>1. k - 1 \in 0..m /\ k \in 0..m /\ k \in Nat /\ k >= 1
      OBVIOUS
    <2>2. 1..k \in SUBSET (1..m)
      OBVIOUS
    <2>3. it[1..k] = Absorb(it[1..(k - 1)], options[k])
      BY Zenon, <1>10, <2>1, <2>2, IndexPrefixes
    <2> QED BY Zenon, <1>11, <2>1, <2>3
  <1>14. \A k \in 0..m : r[k] \in V
    <2> DEFINE G == {k \in 0..m : r[k] \in V}
    <2>1. 0 \in G
      BY <1>4, <1>12
    <2>2. ASSUME NEW k \in 1..m, k - 1 \in G
          PROVE  k \in G
      <3>1. r[k] = turn[<<k, r[k - 1]>>]
        BY <1>13, <2>2
      <3>2. r[k - 1] \in V
        BY <2>2
      <3> HIDE DEF turn
      <3> QED BY SMTT(30), <1>5, <3>1, <3>2
    <2>3. G \in SUBSET (0..m)
      OBVIOUS
    <2> HIDE DEF G
    <2>4. \A k \in 0..m : k \in G
      BY SMTT(30), <2>1, <2>2, <2>3, IndexInduction
    <2> QED BY <2>4 DEF G
  <1>15. FoldLeft(Absorb, Accumulator, options) = r[m]
    BY <1>9, <1>11
  <1> QED BY Zenon, <1>1, <1>2, <1>3, <1>12, <1>13, <1>14, <1>15 DEF PushTrace

\* Whether a list of servers is open behind the first k options.
InList(options, k) ==
    \E j \in 1..k :
        /\ options[j].kind = "dns server address"
        /\ \A i \in j + 1..k : options[i].kind = "text" /\ AllParse(options[i].tokens)

\* It is open as the fold's flag says.
LEMMA InListGrows ==
  ASSUME NEW options
  PROVE  /\ ~InList(options, 0)
         /\ \A k \in Nat : k >= 1 =>
              (InList(options, k) <=> ListAfter(InList(options, k - 1), options[k]))
  <1>1. ~InList(options, 0)
    BY Zenon, IndexPrefixes DEF InList
  <1>2. ASSUME NEW k \in Nat, k >= 1
        PROVE  InList(options, k) <=> ListAfter(InList(options, k - 1), options[k])
    <2>1. k \in 1..k /\ k + 1..k = {}
      <3>1. \A i \in k + 1..k : FALSE
        BY <1>2
      <3> QED BY <1>2, <3>1
    <2>2. \A j \in 1..(k - 1) : j \in 1..k /\ j + 1..k = (j + 1..k - 1) \cup {k}
      BY <1>2
    <2>22. \A j \in 1..(k - 1) : \A i \in j + 1..k : i \in j + 1..k - 1 \/ i = k
      BY <1>2
    <2>3. \A j \in 1..k : j = k \/ j \in 1..(k - 1)
      BY <1>2
    <2>4. ASSUME options[k].kind = "dns server address"
          PROVE  InList(options, k)
      BY Zenon, <2>1, <2>4 DEF InList
    <2>5. ASSUME InList(options, k - 1), options[k].kind = "text", AllParse(options[k].tokens)
          PROVE  InList(options, k)
      <3>1. PICK j \in 1..(k - 1) :
              /\ options[j].kind = "dns server address"
              /\ \A i \in j + 1..k - 1 : options[i].kind = "text" /\ AllParse(options[i].tokens)
        BY Zenon, <2>5 DEF InList
      <3>2. \A i \in j + 1..k : options[i].kind = "text" /\ AllParse(options[i].tokens)
        <4> TAKE i \in j + 1..k
        <4>1. i \in j + 1..k - 1 \/ i = k
          BY Zenon, <2>22, <3>1
        <4> QED BY Zenon, <2>5, <3>1, <4>1
      <3> QED BY Zenon, <2>2, <3>1, <3>2 DEF InList
    <2>6. ASSUME InList(options, k), options[k].kind # "dns server address"
          PROVE  InList(options, k - 1) /\ options[k].kind = "text" /\ AllParse(options[k].tokens)
      <3>1. PICK j \in 1..k :
              /\ options[j].kind = "dns server address"
              /\ \A i \in j + 1..k : options[i].kind = "text" /\ AllParse(options[i].tokens)
        BY Zenon, <2>6 DEF InList
      <3>2. j \in 1..(k - 1)
        BY Zenon, <2>3, <2>6, <3>1
      <3>3. options[k].kind = "text" /\ AllParse(options[k].tokens)
        BY Zenon, <2>2, <3>1, <3>2
      <3>4. \A i \in j + 1..k - 1 : options[i].kind = "text" /\ AllParse(options[i].tokens)
        BY Zenon, <2>2, <3>1, <3>2
      <3> QED BY Zenon, <3>1, <3>2, <3>3, <3>4 DEF InList
    <2> QED BY Zenon, <2>4, <2>5, <2>6 DEF ListAfter
  <1> QED BY Zenon, <1>1, <1>2

\* The servers the first k options name.
NamedUpto(options, k) == UNION {NamesBy(InList(options, i - 1), options[i]) : i \in 1..k}

\* With all of them, those NamedServers has.
LEMMA NamedUptoIs ==
  ASSUME NEW T, NEW options \in Seq(OptionsOver(T))
  PROVE  NamedUpto(options, Len(options)) = NamedServers(options)
  <1>1. DOMAIN options = 1..Len(options) /\ Len(options) \in Nat
    OBVIOUS
  <1>2. ASSUME NEW i \in 1..Len(options)
        PROVE  InList(options, i) <=> ListAfter(InList(options, i - 1), options[i])
    <2>1. i \in Nat /\ i >= 1
      OBVIOUS
    <2> QED BY Zenon, <2>1, InListGrows
  <1>3. ASSUME NEW i \in 1..Len(options), NEW s
        PROVE  FirstToken(options[i].tokens) = s /\ Parses(s) => s \in Range(options[i].tokens)
    <2>0. PICK o \in OptionsOver(T) : o = options[i]
      BY <1>1
    <2>1. PICK tokens \in Seq(T) : tokens = options[i].tokens
      BY <2>0 DEF OptionsOver
    <2>4. tokens # <<>> => tokens[1] = Head(tokens) /\ 1 \in DOMAIN tokens
      OBVIOUS
    <2>5. FirstToken(tokens) = s /\ Parses(s) => s \in Range(tokens)
      BY Zenon, <2>4 DEF FirstToken, Parses, Range
    <2> QED BY Zenon, <2>1, <2>5
  <1>4. ASSUME NEW s
        PROVE  s \in NamedUpto(options, Len(options))
                 <=> \E i \in 1..Len(options) :
                       /\ s \in Range(options[i].tokens) /\ Parses(s)
                       /\ \/ options[i].kind = "dhcp-option DNS" /\ FirstToken(options[i].tokens) = s
                          \/ InList(options, i)
    <2>1. s \in NamedUpto(options, Len(options))
            <=> \E i \in 1..Len(options) : s \in NamesBy(InList(options, i - 1), options[i])
      BY Zenon DEF NamedUpto
    <2>2. ASSUME NEW i \in 1..Len(options)
          PROVE  s \in NamesBy(InList(options, i - 1), options[i])
                   <=> /\ s \in Range(options[i].tokens) /\ Parses(s)
                       /\ \/ options[i].kind = "dhcp-option DNS" /\ FirstToken(options[i].tokens) = s
                          \/ ListAfter(InList(options, i - 1), options[i])
      BY Zenon DEF NamesBy
    <2> QED BY Zenon, <1>2, <2>1, <2>2
  <1>5. ASSUME NEW s
        PROVE  s \in NamedServers(options)
                 <=> \E i \in 1..Len(options) :
                       /\ s \in Range(options[i].tokens) /\ Parses(s)
                       /\ \/ options[i].kind = "dhcp-option DNS" /\ FirstToken(options[i].tokens) = s
                          \/ InList(options, i)
    BY Zenon, <1>1, <1>3 DEF NamedServers, InList, AllParse
  <1>6. \A s : s \in NamedUpto(options, Len(options)) <=> s \in NamedServers(options)
    BY Zenon, <1>4, <1>5
  <1> QED BY Zenon, <1>6

\* What a push is once its first k options are absorbed.
AbsorbedUpto(acc, options, k) ==
    Range(acc.servers) = NamedUpto(options, k) /\ (acc.inList <=> InList(options, k))

\* PushReply::from_log_text has exactly the servers the push names, whatever the
\* options are and in whatever order they come.
THEOREM PushReplyIsFaithful ==
  ASSUME NEW T, Malformed \in T, NEW options \in Seq(OptionsOver(T))
  PROVE  /\ PushReply(options) \in Acc(T)
         /\ Range(PushReply(options).servers) = NamedServers(options)
  <1>0. PICK r : PushTrace(r, options, T)
    BY AbsorbFolds
  <1>1. /\ r[0] = Accumulator /\ \A k \in 0..Len(options) : r[k] \in Acc(T)
        /\ \A k \in 1..Len(options) : r[k] = Absorb(r[k - 1], options[k])
        /\ FoldLeft(Absorb, Accumulator, options) = r[Len(options)]
    BY Zenon, <1>0 DEF PushTrace
  <1>2. PICK m \in Nat : m = Len(options)
    OBVIOUS
  <1> DEFINE G == {k \in 0..m : AbsorbedUpto(r[k], options, k)}
  <1>3. 0 \in G
    <2>1. 0 \in 0..m
      OBVIOUS
    <2>2. NamedUpto(options, 0) = {}
      BY Zenon, IndexPrefixes DEF NamedUpto
    <2>3. AbsorbedUpto(Accumulator, options, 0)
      BY Zenon, <2>2, AccumulatorTyped, InListGrows DEF AbsorbedUpto
    <2> QED BY Zenon, <1>1, <2>1, <2>3
  <1>4. ASSUME NEW k \in 1..m, k - 1 \in G
        PROVE  k \in G
    <2>1. k \in 0..m /\ k - 1 \in 0..m /\ k \in Nat /\ k >= 1 /\ 1..k = (1..(k - 1)) \cup {k}
      OBVIOUS
    <2>2. PICK a \in Acc(T) : a = r[k - 1]
      BY Zenon, <1>1, <1>2, <2>1
    <2>3. Range(a.servers) = NamedUpto(options, k - 1) /\ (a.inList <=> InList(options, k - 1))
      <3>1. AbsorbedUpto(a, options, k - 1)
        BY Zenon, <1>4, <2>2
      <3> QED BY Zenon, <3>1 DEF AbsorbedUpto
    <2>4. PICK o \in OptionsOver(T) : o = options[k]
      BY <1>2
    <2>5. r[k] = Absorb(a, o)
      BY Zenon, <1>1, <1>2, <2>2, <2>4
    <2>6. /\ Absorb(a, o).inList <=> ListAfter(a.inList, o)
          /\ Range(Absorb(a, o).servers) = Range(a.servers) \cup NamesBy(a.inList, o)
      BY Zenon, AbsorbIs
    <2>7. NamedUpto(options, k) = NamedUpto(options, k - 1) \cup NamesBy(InList(options, k - 1), options[k])
      BY Zenon, <2>1 DEF NamedUpto
    <2>8. NamesBy(a.inList, o) = NamesBy(InList(options, k - 1), options[k])
      BY Zenon, <2>3, <2>4 DEF NamesBy, ListAfter
    <2>9. Range(Absorb(a, o).servers) = NamedUpto(options, k)
      BY Zenon, <2>3, <2>6, <2>7, <2>8
    <2>10. Absorb(a, o).inList <=> InList(options, k)
      BY Zenon, <2>1, <2>3, <2>4, <2>6, InListGrows DEF ListAfter
    <2>11. AbsorbedUpto(Absorb(a, o), options, k)
      BY Zenon, <2>9, <2>10 DEF AbsorbedUpto
    <2> QED BY Zenon, <2>1, <2>5, <2>11
  <1>5. G \in SUBSET (0..m)
    OBVIOUS
  <1>6. m \in G
    <2> HIDE DEF G
    <2>1. \A k \in 0..m : k \in G
      BY <1>3, <1>4, <1>5, IndexInduction
    <2> QED BY SMTT(30), <2>1
  <1>7. NamedUpto(options, m) = NamedServers(options)
    BY <1>2, NamedUptoIs
  <1>8. m \in 0..m
    OBVIOUS
  <1>9. Range(r[m].servers) = NamedServers(options)
    BY Zenon, <1>6, <1>7 DEF AbsorbedUpto
  <1> QED BY Zenon, <1>1, <1>2, <1>8, <1>9 DEF PushReply

-----------------------------------------------------------------------------
(* From the push to the pool.                                              *)

\* resolver_denylist.rs mirrors the proxy's own check.
LEMMA DaemonMirrors == \A s : IsUsableResolver(s) <=> CheckDestination(s, TRUE) = "None"
  <1> TAKE s
  <1>1. PICK c : c = Canonical(s)
    OBVIOUS
  <1>2. IsUsableV4(c) <=> DenyReasonV4(c, TRUE) = "None"
    BY Zenon DEF IsUsableV4, DenyReasonV4
  <1>3. IsUsableV6(c) <=> DenyReasonV6(c, TRUE) = "None"
    BY Zenon DEF IsUsableV6, DenyReasonV6
  <1> QED BY Zenon, <1>1, <1>2, <1>3 DEF IsUsableResolver, CheckDestination

\* The servers of a list that egress lets the resolver dial.
Dialled(servers, hasV6) ==
    {s \in Range(servers) : CheckDestination(s, TRUE) = "None" /\ (s.fam = 4 \/ hasV6)}

\* `capture` takes its servers from the push.
LEMMA CaptureIs ==
  ASSUME NEW T, NEW reply \in Acc(T)
  PROVE  /\ Capture(reply).captured \in BOOLEAN /\ Capture(reply).servers \in Seq(T)
         /\ Range(Capture(reply).servers) \subseteq Range(reply.servers)
  <1>1. PICK list \in Seq(T) : list = reply.servers
    BY DEF Acc
  <1>2. PICK S : S = Reachable(reply.servers, reply.hasV6)
    OBVIOUS
  <1>3. PICK usable \in Seq(T) : usable = Kept(list, S) /\ Range(usable) = Range(list) \cap S
    BY KeptIs
  <1>4. <<>> \in Seq(T) /\ Range(<<>>) = {}
    BY DEF Range
  <1>5. CASE usable = <<>>
    <2>1. Capture(reply) = Missing(MissingReason(reply))
      BY Zenon, <1>1, <1>2, <1>3, <1>5 DEF Capture
    <2>2. PICK reason : reason = MissingReason(reply)
      OBVIOUS
    <2>3. Missing(reason).captured = FALSE /\ Missing(reason).servers = <<>>
      BY DEF Missing
    <2> QED BY Zenon, <1>4, <2>1, <2>2, <2>3
  <1>6. CASE usable # <<>>
    <2>1. PICK domains : domains = reply.domains
      OBVIOUS
    <2>2. Capture(reply) = [captured |-> TRUE, servers |-> usable, domains |-> domains,
                            reason |-> "none"]
      BY Zenon, <1>1, <1>2, <1>3, <1>6, <2>1 DEF Capture
    <2>3. Capture(reply).captured = TRUE /\ Capture(reply).servers = usable
      BY <2>2
    <2> QED BY Zenon, <1>1, <1>3, <2>3
  <1> QED BY Zenon, <1>5, <1>6

\* `usable_servers` keeps the servers egress lets the resolver dial.
LEMMA UsableIs ==
  ASSUME NEW T, NEW list \in Seq(T), NEW hasV6 \in BOOLEAN
  PROVE  /\ UsableServers(list, hasV6).usable \in Seq(T)
         /\ Range(UsableServers(list, hasV6).usable) = Dialled(list, hasV6)
  <1>1. PICK S : S = {s \in Range(list) : IsUsableResolver(s)}
    BY Zenon
  <1>2. PICK allowed \in Seq(T) : allowed = Kept(list, S) /\ Range(allowed) = Range(list) \cap S
    BY KeptIs
  <1>3. PICK R : R = Reachable(allowed, hasV6)
    OBVIOUS
  <1>4. PICK usable \in Seq(T) : usable = Kept(allowed, R) /\ Range(usable) = Range(allowed) \cap R
    BY KeptIs
  <1>5. PICK d, w : d = Len(list) - Len(allowed) /\ w = Len(allowed) - Len(usable)
    OBVIOUS
  <1>6. UsableServers(list, hasV6) = [usable |-> usable, denied |-> d, wrongFamily |-> w]
    BY Zenon, <1>1, <1>2, <1>3, <1>4, <1>5 DEF UsableServers
  <1>7. UsableServers(list, hasV6).usable = usable
    BY <1>6
  <1>8. Range(usable) = Dialled(list, hasV6)
    BY Zenon, <1>1, <1>2, <1>3, <1>4, DaemonMirrors DEF Reachable, Dialled
  <1> QED BY Zenon, <1>7, <1>8

\* A plan: servers there are, all of them ones the resolver can dial, and from
\* where its source says.
Plans(planned, pushed, fallback, hasV6, T) ==
    /\ planned.servers \in Seq(T) /\ planned.servers # <<>>
    /\ Range(planned.servers) \subseteq
         IF planned.source = "Pushed" THEN Dialled(pushed, hasV6) ELSE Dialled(fallback, hasV6)

\* `fallback_plan`.
LEMMA FallbackPlanIs ==
  ASSUME NEW T, NEW fallback \in Seq(T), NEW hasV6 \in BOOLEAN, NEW reason, NEW pushed,
         FallbackPlan(reason, fallback, hasV6).source # "NoResolver"
  PROVE  Plans(FallbackPlan(reason, fallback, hasV6), pushed, fallback, hasV6, T)
  <1>1. PICK usable \in Seq(T) : /\ usable = UsableServers(fallback, hasV6).usable
                                 /\ Range(usable) = Dialled(fallback, hasV6)
    BY UsableIs
  <1>2. PICK planned : planned = FallbackPlan(reason, fallback, hasV6)
    OBVIOUS
  <1>3. CASE usable = <<>>
    <2>1. planned = [source |-> "NoResolver", servers |-> <<>>, domains |-> <<>>, reason |-> reason]
      BY Zenon, <1>1, <1>2, <1>3 DEF FallbackPlan
    <2> QED BY <1>2, <2>1
  <1>4. CASE usable # <<>>
    <2>1. planned = [source |-> "TunnelFallback", servers |-> usable, domains |-> <<>>, reason |-> reason]
      BY Zenon, <1>1, <1>2, <1>4 DEF FallbackPlan
    <2>2. planned.source = "TunnelFallback" /\ planned.servers = usable
      BY <2>1
    <2> QED BY Zenon, <1>1, <1>2, <1>4, <2>2 DEF Plans
  <1> QED BY Zenon, <1>3, <1>4

\* `plan_dns`.
LEMMA PlanIs ==
  ASSUME NEW T, NEW cell, cell.captured \in BOOLEAN, cell.servers \in Seq(T),
         NEW fallback \in Seq(T), NEW hasV6 \in BOOLEAN,
         PlanDns(cell, fallback, hasV6).source # "NoResolver"
  PROVE  Plans(PlanDns(cell, fallback, hasV6), cell.servers, fallback, hasV6, T)
  <1>1. PICK pushed \in Seq(T) : pushed = cell.servers
    BY Zenon
  <1>2. PICK vetted : vetted = UsableServers(pushed, hasV6)
    OBVIOUS
  <1>3. PICK usable \in Seq(T) : usable = vetted.usable /\ Range(usable) = Dialled(pushed, hasV6)
    BY <1>2, UsableIs
  <1>4. PICK planned : planned = PlanDns(cell, fallback, hasV6)
    OBVIOUS
  <1>5. CASE ~cell.captured
    <2>1. PICK reason : reason = cell.reason
      OBVIOUS
    <2>2. planned = FallbackPlan(reason, fallback, hasV6)
      BY Zenon, <1>4, <1>5, <2>1 DEF PlanDns
    <2> QED BY <1>4, <2>2, FallbackPlanIs
  <1>6. CASE cell.captured /\ usable = <<>>
    <2>1. PICK reason : reason = Gap(vetted)
      OBVIOUS
    <2>2. planned = FallbackPlan(reason, fallback, hasV6)
      BY Zenon, <1>1, <1>2, <1>3, <1>4, <1>6, <2>1 DEF PlanDns
    <2> QED BY <1>4, <2>2, FallbackPlanIs
  <1>7. CASE cell.captured /\ usable # <<>>
    <2>1. PICK domains : domains = cell.domains
      OBVIOUS
    <2>2. planned = [source |-> "Pushed", servers |-> usable, domains |-> domains, reason |-> "none"]
      BY Zenon, <1>1, <1>2, <1>3, <1>4, <1>7, <2>1 DEF PlanDns
    <2>3. planned.source = "Pushed" /\ planned.servers = usable
      BY <2>2
    <2> QED BY Zenon, <1>1, <1>3, <1>4, <1>7, <2>3 DEF Plans
  <1> QED BY Zenon, <1>5, <1>6, <1>7

\* `select_nameservers` accepts every server of a plan, and no other.
LEMMA SelectIs ==
  ASSUME NEW T, NEW list \in Seq(T), NEW hasV6 \in BOOLEAN, Range(list) \subseteq Dialled(list, hasV6)
  PROVE  /\ SelectNameservers(list, <<>>, hasV6).accepted \in Seq(T)
         /\ Range(SelectNameservers(list, <<>>, hasV6).accepted) = Range(list)
  <1>1. ASSUME NEW some \in Seq(T)
        PROVE  /\ UsableNameservers(some, hasV6) \in Seq(T)
               /\ Range(UsableNameservers(some, hasV6)) = Dialled(some, hasV6)
    <2>1. PICK S : S = {s \in Reachable(some, hasV6) : CheckDestination(s, TRUE) = "None"}
      BY Zenon
    <2>2. PICK kept \in Seq(T) : kept = Kept(some, S) /\ Range(kept) = Range(some) \cap S
      BY KeptIs
    <2>3. PICK once \in Seq(T) : once = FoldLeft(AddOnce, <<>>, kept) /\ Range(once) = Range(kept)
      BY AddOnceIs
    <2>4. UsableNameservers(some, hasV6) = once
      BY Zenon, <2>1, <2>2, <2>3 DEF UsableNameservers
    <2>5. Range(once) = Dialled(some, hasV6)
      BY Zenon, <2>1, <2>2, <2>3 DEF Reachable, Dialled
    <2> QED BY Zenon, <2>4, <2>5
  <1>2. PICK first \in Seq(T) : first = UsableNameservers(list, hasV6) /\ Range(first) = Dialled(list, hasV6)
    BY Zenon, <1>1
  <1>3. <<>> \in Seq(T) /\ Range(<<>>) = {}
    BY DEF Range
  <1>4. PICK more \in Seq(T) : more = UsableNameservers(<<>>, hasV6) /\ Range(more) = {}
    <2>1. Dialled(<<>>, hasV6) = {}
      BY Zenon, <1>3 DEF Dialled
    <2> QED BY Zenon, <1>1, <1>3, <2>1
  <1>5. PICK S : S = Range(more) \ Range(first)
    BY Zenon
  <1>6. PICK rest \in Seq(T) : rest = Kept(more, S) /\ Range(rest) = Range(more) \cap S
    BY KeptIs
  <1>7. rest = <<>>
    <2>1. DOMAIN rest = {}
      BY Zenon, <1>4, <1>6 DEF Range
    <2> QED BY <2>1
  <1>8. first \o rest = first
    BY <1>7
  <1>9. SelectNameservers(list, <<>>, hasV6).accepted = first \o rest
    <2>1. PICK a, b : /\ a = first \o rest
                      /\ b = CASE first = <<>> /\ rest = <<>> -> "None"
                               [] first # <<>> /\ rest = <<>> -> "Pushed"
                               [] first = <<>> /\ rest # <<>> -> "Fallback"
                               [] OTHER -> "PushedWithFallback"
      BY Zenon
    <2>2. SelectNameservers(list, <<>>, hasV6) = [accepted |-> a, source |-> b]
      BY Zenon, <1>2, <1>4, <1>5, <1>6, <2>1 DEF SelectNameservers
    <2> QED BY <2>1, <2>2
  <1>10. Range(first) = Range(list)
    BY Zenon, <1>2 DEF Dialled
  <1> QED BY Zenon, <1>8, <1>9, <1>10

\* What is captured before the publication is this tunnel's own.  From the plan on
\* there are servers to ask, from where the plan says they are, and each is one
\* that egress lets the resolver dial; from the resolver on they are its pool.
Planned ==
    /\ plan.servers \in Seq(Tokens) /\ plan.servers # <<>>
    /\ Range(plan.servers) \subseteq Dialled(plan.servers, CarriesV6[n])
    /\ Range(plan.servers) \subseteq IF plan.source = "Pushed" THEN named ELSE Range(Fallback)

Fed ==
    /\ capture.captured \in BOOLEAN /\ capture.servers \in Seq(Tokens)
    /\ pool \in [Generations -> Seq(Tokens)]
    /\ phase \in {"bound", "publishing"} => Range(capture.servers) \subseteq named
    /\ phase = "up" \/ step \in {"generation", "slot", "resolver", "bind", "store"} => Planned
    /\ phase = "up" \/ step \in {"bind", "store"} => Range(pool[live]) = Range(plan.servers)

\* Nothing captured.
LEMMA NothingCaptured ==
  /\ NoneReceived.captured = FALSE /\ NoneReceived.servers \in Seq(Tokens)
  /\ Range(NoneReceived.servers) = {}
  <1>1. NoneReceived.captured = FALSE /\ NoneReceived.servers = <<>>
    BY DEF NoneReceived, Missing
  <1>2. <<>> \in Seq(Tokens) /\ Range(<<>>) = {}
    BY DEF Range
  <1> QED BY Zenon, <1>1, <1>2

\* A push that is observed.
LEMMA ObservedIsNamed ==
  ASSUME Fed, NEW options \in Pushes, ObservePush(options)
  PROVE  /\ capture'.captured \in BOOLEAN /\ capture'.servers \in Seq(Tokens)
         /\ phase \in {"bound", "publishing"} => Range(capture'.servers) \subseteq named'
         /\ named \subseteq named'
  <1>1. PICK T : T = Tokens
    OBVIOUS
  <1>2. Malformed \in T /\ options \in Seq(OptionsOver(T))
    BY Zenon, <1>1, PushAssumption DEF Tokens, OptionsOver
  <1>3. PICK reply \in Acc(T) : /\ reply = PushReply(options)
                                /\ Range(reply.servers) = NamedServers(options)
    BY SMTT(30), <1>2, PushReplyIsFaithful
  <1>4. PICK new : /\ new = Capture(reply) /\ new.captured \in BOOLEAN /\ new.servers \in Seq(T)
                   /\ Range(new.servers) \subseteq Range(reply.servers)
    BY CaptureIs
  <1>5. capture' \in {capture, new}
    BY Zenon, <1>3, <1>4 DEF ObservePush, AbsorbCapture
  <1>6. named \subseteq named' /\ (phase # "revoked" => NamedServers(options) \subseteq named')
    BY Zenon DEF ObservePush
  <1>7. capture.captured \in BOOLEAN /\ capture.servers \in Seq(T)
        /\ (phase \in {"bound", "publishing"} => Range(capture.servers) \subseteq named)
    BY Zenon, <1>1 DEF Fed
  <1>8. CASE capture' = capture
    BY Zenon, <1>1, <1>6, <1>7, <1>8
  <1>9. CASE capture' = new
    <2>1. phase \in {"bound", "publishing"} => phase # "revoked"
      OBVIOUS
    <2> QED BY Zenon, <1>1, <1>3, <1>4, <1>6, <1>9, <2>1
  <1> QED BY Zenon, <1>5, <1>8, <1>9

\* Whether a tunnel carries IPv6 is known while it is published.
LEMMA FamilyKnown ==
  ASSUME IInv, Stage, step \in {"plan", "resolver"}
  PROVE  CarriesV6[n] \in BOOLEAN
  <1>1. live \in Nat /\ n \in 0..MaxSessions
    BY Zenon DEF IInv, Types, Stage
  <1>2. live < n \/ (live <= n /\ live \in Generations)
    BY Zenon DEF Stage
  <1>3. n \in 1..MaxSessions
    BY <1>1, <1>2, ProxyRuntimeAssumption DEF Generations
  <1> QED BY Zenon, <1>3, ProxyRuntimeAssumption

\* The plan that is made of the capture, unless there is none.
LEMMA PlanIsOwn ==
  ASSUME IInv, Stage, Fed, Plan
  PROVE  step' # "none" => Planned'
  <1>1. PICK T : T = Tokens
    OBVIOUS
  <1>2. PICK v6 \in BOOLEAN : v6 = CarriesV6[n]
    BY Zenon, FamilyKnown DEF Plan
  <1>3. PICK planned : planned = PlanDns(capture, Fallback, v6)
    OBVIOUS
  <1>4. UNCHANGED <<n, named>> /\ phase = "publishing"
    BY Zenon DEF Plan, Stage
  <1>5. CASE planned.source # "NoResolver"
    <2>1. plan' = planned
      BY Zenon, <1>2, <1>3, <1>5 DEF Plan
    <2>2. Fallback \in Seq(T)
      <3>1. Addresses \subseteq T
        BY Zenon, <1>1 DEF Tokens
      <3>2. PICK A : A = Addresses
        OBVIOUS
      <3>3. A \subseteq T /\ Fallback \in Seq(A)
        BY Zenon, <3>1, <3>2, PushAssumption
      <3> QED BY <3>3
    <2>3. capture.captured \in BOOLEAN /\ capture.servers \in Seq(T)
          /\ Range(capture.servers) \subseteq named
      BY Zenon, <1>1, <1>4 DEF Fed
    <2>4. Plans(planned, capture.servers, Fallback, v6, T)
      BY SMTT(30), <1>3, <1>5, <2>2, <2>3, PlanIs
    <2>5. PICK servers, source : servers = planned.servers /\ source = planned.source
      OBVIOUS
    <2>6. /\ servers \in Seq(T) /\ servers # <<>>
          /\ Range(servers) \subseteq IF source = "Pushed" THEN Dialled(capture.servers, v6)
                                      ELSE Dialled(Fallback, v6)
      BY Zenon, <2>4, <2>5 DEF Plans
    <2>7. /\ Range(servers) \subseteq Dialled(servers, v6)
          /\ Range(servers) \subseteq IF source = "Pushed" THEN named ELSE Range(Fallback)
      BY Zenon, <2>3, <2>6 DEF Dialled
    <2> QED BY Zenon, <1>1, <1>2, <1>4, <2>1, <2>5, <2>6, <2>7 DEF Planned
  <1>6. CASE planned.source = "NoResolver"
    <2>1. step' = "none"
      BY Zenon, <1>2, <1>3, <1>6 DEF Plan, PublishFails
    <2> QED BY Zenon, <2>1
  <1> QED BY Zenon, <1>5, <1>6

\* The publisher's own steps.
LEMMA PublisherFeeds ==
  ASSUME IInv, Stage, Fed, PublisherStep
  PROVE  Fed'
  <1>1. CASE Bind
    <2>1. step = "none"
      BY Zenon, <1>1 DEF Bind, Stage
    <2> QED BY Zenon, <1>1, <2>1, NothingCaptured DEF Bind, egress, Fed
  <1>2. CASE \E options \in Pushes : ObservePush(options)
    <2>1. PICK options \in Pushes : ObservePush(options)
      BY Zenon, <1>2
    <2>2. /\ capture'.captured \in BOOLEAN /\ capture'.servers \in Seq(Tokens)
          /\ phase \in {"bound", "publishing"} => Range(capture'.servers) \subseteq named'
          /\ named \subseteq named'
      BY Zenon, <2>1, ObservedIsNamed
    <2>3. UNCHANGED <<n, phase, plan, step, pool, live>>
      BY Zenon, <2>1 DEF ObservePush, egress
    <2>4. Planned => Planned'
      BY Zenon, <2>2, <2>3 DEF Planned
    <2> QED BY Zenon, <2>2, <2>3, <2>4 DEF Fed
  <1>3. CASE BeginPublish
    <2>1. UNCHANGED <<capture, named, pool>> /\ phase = "bound" /\ phase' = "publishing" /\ step' = "plan"
      BY Zenon, <1>3 DEF BeginPublish, dns, egress
    <2> QED BY Zenon, <2>1 DEF Fed
  <1>4. CASE Plan
    <2>1. UNCHANGED <<capture, named, pool, n>> /\ phase = "publishing" /\ phase' \in {"publishing", "closing"}
      BY Zenon, <1>4 DEF Plan, egress, Stage, PublishFails
    <2>2. step' \in {"none", "generation"}
      BY Zenon, <1>4 DEF Plan, PublishFails
    <2>3. step' # "none" => Planned'
      BY Zenon, <1>4, PlanIsOwn
    <2> QED BY Zenon, <2>1, <2>2, <2>3 DEF Fed
  <1>5. CASE NoSuchTunnel \/ BindFails
    <2>1. UNCHANGED <<capture, named, pool>> /\ phase' = "closing" /\ step' = "none"
      BY Zenon, <1>5 DEF NoSuchTunnel, BindFails, PublishFails, egress
    <2> QED BY Zenon, <2>1 DEF Fed
  <1>6. CASE NextGeneration \/ StoreIdentity
    <2>1. /\ UNCHANGED <<capture, named, plan, pool, n, phase>>
          /\ step \in {"generation", "slot"} /\ step' \in {"slot", "resolver"}
      BY Zenon, <1>6 DEF NextGeneration, StoreIdentity, dns
    <2>2. phase = "publishing"
      BY Zenon, <2>1 DEF Stage
    <2>3. Planned'
      BY Zenon, <2>1 DEF Fed, Planned
    <2> QED BY Zenon, <2>1, <2>2, <2>3 DEF Fed
  <1>7. CASE StartResolver
    <2>1. /\ UNCHANGED <<capture, named, plan, live, n, phase>>
          /\ step = "resolver" /\ step' = "bind"
          /\ pool' = [pool EXCEPT ![live] =
                        SelectNameservers(plan.servers, <<>>, CarriesV6[n]).accepted]
      BY Zenon, <1>7 DEF StartResolver, dns
    <2>2. phase = "publishing" /\ live \in Generations
      BY Zenon, <2>1 DEF Stage
    <2>3. PICK T : T = Tokens
      OBVIOUS
    <2>4. PICK v6 \in BOOLEAN : v6 = CarriesV6[n]
      BY Zenon, <2>1, FamilyKnown
    <2>5. Planned
      BY Zenon, <2>1 DEF Fed
    <2>6. PICK servers \in Seq(T) : servers = plan.servers /\ Range(servers) \subseteq Dialled(servers, v6)
      BY Zenon, <2>3, <2>4, <2>5 DEF Planned
    <2>7. PICK accepted \in Seq(T) : /\ accepted = SelectNameservers(servers, <<>>, v6).accepted
                                     /\ Range(accepted) = Range(servers)
      BY SMTT(30), <2>6, SelectIs
    <2>8. pool \in [Generations -> Seq(T)] /\ pool' = [pool EXCEPT ![live] = accepted]
      BY Zenon, <2>1, <2>3, <2>4, <2>6, <2>7 DEF Fed
    <2>9. pool' \in [Generations -> Seq(T)] /\ pool'[live] = accepted
      BY Zenon, <2>2, <2>8
    <2>10. Planned'
      BY Zenon, <2>1, <2>5 DEF Planned
    <2> QED BY Zenon, <2>1, <2>2, <2>3, <2>6, <2>7, <2>9, <2>10 DEF Fed
  <1>8. CASE (\E bound \in SUBSET Addrs : BindAll(bound)) \/ StoreListener
    <2>1. /\ UNCHANGED <<capture, named, plan, live, n, pool>>
          /\ step \in {"bind", "store"} /\ step' \in {"store", "none"}
          /\ phase' \in {phase, "up"}
      BY Zenon, <1>8 DEF BindAll, StoreListener, dns, egress
    <2>2. Planned'
      BY Zenon, <2>1 DEF Fed, Planned
    <2> QED BY Zenon, <2>1, <2>2 DEF Fed
  <1>9. CASE Revoke
    <2>1. /\ UNCHANGED <<step, pool>> /\ phase \in {"bound", "up", "closing"} /\ phase' = "revoked"
          /\ capture' = NoneReceived
      BY Zenon, <1>9 DEF Revoke, egress
    <2>2. step' = "none"
      BY Zenon, <2>1 DEF Stage
    <2> QED BY Zenon, <2>1, <2>2, NothingCaptured DEF Fed
  <1>10. CASE CloseManagement
    <2>1. UNCHANGED <<step, pool, capture>> /\ phase = "revoked" /\ phase' = "idle"
      BY Zenon, <1>10 DEF CloseManagement, egress, dns
    <2>2. step' = "none"
      BY Zenon, <2>1 DEF Stage
    <2> QED BY Zenon, <2>1, <2>2 DEF Fed
  <1> QED BY Zenon, <1>1, <1>2, <1>3, <1>4, <1>5, <1>6, <1>7, <1>8, <1>9, <1>10 DEF PublisherStep

\* What the proxy serves is its own tunnel's: a listener nobody has told to stop
\* belongs to the tunnel that is up or coming up, and once it is up its resolver
\* has servers to ask, every one named by that tunnel's own push or by the
\* fallback, and one that egress dials (DnsCaptureCell, PushReply, plan_dns,
\* select_nameservers, resolver_denylist.rs, check_destination).
THEOREM ListenerIsOwnAlways == Spec => []ListenerIsOwn
  <1>1. Init => Fed
    <2> SUFFICES ASSUME Init PROVE Fed
      OBVIOUS
    <2>1. <<>> \in Seq(Tokens)
      OBVIOUS
    <2>2. pool \in [Generations -> Seq(Tokens)]
      BY Zenon, <2>1 DEF Init
    <2>3. phase = "idle" /\ step = "none" /\ capture = NoneReceived
      BY Zenon DEF Init
    <2> QED BY Zenon, <2>2, <2>3, NothingCaptured DEF Fed
  <1>2. IInv /\ Stage /\ Fed /\ [Next]_vars => Fed'
    <2> SUFFICES ASSUME IInv, Stage, Fed, [Next]_vars PROVE Fed'
      OBVIOUS
    <2>1. CASE PublisherStep
      BY Zenon, <2>1, PublisherFeeds
    <2>2. CASE UNCHANGED <<n, phase, step, capture, named, plan, pool, live>>
      BY Zenon, <2>2 DEF Fed, Planned
    <2>3. CASE \E g \in Generations, a \in Addrs : AcceptorStep(g, a)
      BY Zenon, <2>2, <2>3 DEF AcceptorStep, Accept, AcceptError, BackoffEnds, SeeStop, AcceptorEnds,
           egress, dns
    <2>4. CASE \E c \in Clients : ClientStep(c)
      BY Zenon, <2>2, <2>4 DEF ClientStep, SessionAborted, SessionStarts, Resolve, Dial, Negotiated,
           Answered, ConnectFails, Connected, HangsUp, SessionStep, egress, dns
    <2>5. CASE UNCHANGED vars
      BY Zenon, <2>2, <2>5 DEF vars, egress, dns
    <2> QED BY Zenon, <2>1, <2>3, <2>4, <2>5 DEF Next
  <1>3. Fed => PoolIsPlanned
    <2> SUFFICES ASSUME Fed, phase = "up"
                 PROVE  /\ pool[live] # <<>> /\ Range(pool[live]) = Range(plan.servers)
                        /\ Range(pool[live]) \subseteq
                             IF plan.source = "Pushed" THEN named ELSE Range(Fallback)
                        /\ \A s \in Range(pool[live]) :
                             CheckDestination(s, TRUE) = "None" /\ (s.fam = 4 \/ CarriesV6[n])
      BY Zenon DEF PoolIsPlanned
    <2>1. Planned /\ Range(pool[live]) = Range(plan.servers)
      BY Zenon DEF Fed
    <2>2. Range(plan.servers) # {} /\ Range(<<>>) = {}
      <3>0. PICK T : T = Tokens
        OBVIOUS
      <3>1. PICK list \in Seq(T) : list = plan.servers /\ list # <<>>
        BY Zenon, <2>1, <3>0 DEF Planned
      <3>2. list[1] \in Range(list)
        BY <3>1 DEF Range
      <3>3. Range(<<>>) = {}
        BY DEF Range
      <3> QED BY Zenon, <3>1, <3>2, <3>3
    <2> QED BY Zenon, <2>1, <2>2 DEF Planned, Dialled
  <1>4. LInv => Stage
    BY Zenon DEF LInv
  <1> QED BY <1>1, <1>2, <1>3, <1>4, ProxyInvariance, ListenerInvariance, UnstoppedIsCurrentAlways, PTL
          DEF Spec, ListenerIsOwn
=============================================================================
