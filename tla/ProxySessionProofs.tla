-------------------------- MODULE ProxySessionProofs ---------------------------
(***************************************************************************)
(* Proofs about NetAddr and ProxySession: what the address rules have in   *)
(* common for every address, and that whoever is dialled for was allowed,  *)
(* wherever the socket goes is allowed, a peer's guesses are paid for, and *)
(* the failures told of are the ones there were, for any number of         *)
(* parallel sessions, peers, networks and tokens.                          *)
(***************************************************************************)
EXTENDS ProxySession, FiniteSetTheorems, SequenceTheorems, WellFoundedInduction, TLAPS

(* The rules of NetAddr.                                                   *)

\* canonicalize removes the mapped spelling for good.
LEMMA CanonicalFixed ==
    ASSUME NEW a \in Addresses
    PROVE  /\ Canonical(a) \in Addresses /\ ~IsMapped(Canonical(a))
           /\ Canonical(Canonical(a)) = Canonical(a)
<1>1. CASE IsMapped(a)
  <2>1. a.oct \in Quad
    BY DEF Addresses
  <2>2. Canonical(a) = [fam |-> 4, seg |-> 0, mid |-> "zero", oct |-> a.oct]
    BY <1>1 DEF Canonical
  <2>3. Canonical(a) \in [fam : {4}, seg : {0}, mid : {"zero"}, oct : Quad]
    BY <2>1, <2>2
  <2>4. ~IsMapped(Canonical(a))
    BY <2>2 DEF IsMapped
  <2>5. Canonical(Canonical(a)) = Canonical(a)
    BY Zenon, <2>4 DEF Canonical
  <2> QED
    BY Zenon, <2>3, <2>4, <2>5 DEF Addresses
<1>2. CASE ~IsMapped(a)
  BY Zenon, <1>2 DEF Canonical
<1> QED
  BY Zenon, <1>1, <1>2

\* The two spellings of one destination are judged alike: what check_destination
\* says of an address it says of its canonical form.
THEOREM SpellingIsIrrelevant ==
    ASSUME NEW a \in Addresses, NEW allowPrivate \in BOOLEAN
    PROVE  /\ CheckDestination(Canonical(a), allowPrivate) = CheckDestination(a, allowPrivate)
           /\ IsUsableResolver(Canonical(a)) <=> IsUsableResolver(a)
BY CanonicalFixed DEF CheckDestination, IsUsableResolver

\* resolver_denylist.rs promises to mirror the proxy's own check: the daemon
\* publishes exactly the nameservers that egress lets the resolver dial.
THEOREM ResolverMirrorsEgress ==
    ASSUME NEW a \in Addresses
    PROVE  IsUsableResolver(a) <=> CheckDestination(a, TRUE) = "None"
<1> DEFINE c == Canonical(a)
<1>1. CASE c.fam = 4
  <2>1. IsUsableV4(c) <=> DenyReasonV4(c, TRUE) = "None"
    BY Zenon DEF IsUsableV4, DenyReasonV4
  <2> QED
    BY Zenon, <1>1, <2>1 DEF IsUsableResolver, CheckDestination
<1>2. CASE c.fam # 4
  <2>1. IsUsableV6(c) <=> DenyReasonV6(c, TRUE) = "None"
    BY Zenon DEF IsUsableV6, DenyReasonV6
  <2> QED
    BY Zenon, <1>2, <2>1 DEF IsUsableResolver, CheckDestination
<1> QED
  BY Zenon, <1>1, <1>2

\* A tunnel the proxy agrees to pin sockets to has an address that a policy can
\* be installed for, and for IPv4 the two checks are the same.
THEOREM SourceCarriesPolicy ==
    ASSUME NEW a \in Addresses
    PROVE  /\ ValidTunnelSource(a) => ValidateAddress(a.fam, a)
           /\ a.fam = 4 => (ValidTunnelSource(a) <=> ValidateAddress(4, a))
<1>1. a.fam \in {4, 6}
  BY DEF Addresses
<1>2. CASE a.fam = 4
  BY <1>2, Zenon DEF ValidTunnelSource, ValidateAddress
<1>3. CASE a.fam = 6
  <2>1. a.fam # 4
    BY <1>3
  <2> QED
    BY <2>1, Zenon DEF ValidTunnelSource, ValidateAddress
<1> QED
  BY <1>1, <1>2, <1>3
-----------------------------------------------------------------------------
(* cidr.rs: the prefix, bit by bit.                                        *)

\* The octets of an address are integers, as many as its longest prefix needs.
LEMMA OctetsAreIntegers ==
    ASSUME NEW a \in Addresses
    PROVE  \A i \in 1..(MaxPrefix(a) \div 8) : Octets(a)[i] \in Int
<1>1. a.fam \in {4, 6}
  BY DEF Addresses
<1>2. a.seg \in Int
  <2>1. 0 \in Segment
    BY DEF Segment
  <2>2. a.seg \in Segment
    BY <2>1, SMT DEF Addresses
  <2> QED
    BY <2>2 DEF Segment
<1>3. a.oct \in Seq(Int) /\ Len(a.oct) = 4
  <2> DEFINE q == a.oct
  <2>1. q \in Quad
    BY Zenon DEF Addresses
  <2> HIDE DEF q
  <2>2. /\ q = <<q[1], q[2], q[3], q[4]>>
        /\ q[1] \in Octet /\ q[2] \in Octet /\ q[3] \in Octet /\ q[4] \in Octet
    BY <2>1 DEF Quad
  <2>3. \A x, y, z, w \in Int : <<x, y, z, w>> \in Seq(Int) /\ Len(<<x, y, z, w>>) = 4
    OBVIOUS
  <2>4. q[1] \in Int /\ q[2] \in Int /\ q[3] \in Int /\ q[4] \in Int
    BY <2>2 DEF Octet
  <2>5. q \in Seq(Int) /\ Len(q) = 4
    BY <2>2, <2>3, <2>4, ZenonT(30)
  <2> QED
    BY Zenon, <2>5 DEF q
<1>4. CASE a.fam = 4
  <2>1. Octets(a) = a.oct /\ MaxPrefix(a) \div 8 = 4
    BY <1>4 DEF Octets, MaxPrefix
  <2> QED
    BY <1>3, <2>1
<1>5. CASE a.fam = 6
  <2> DEFINE first == a.seg \div 256
             second == a.seg % 256
             top == <<first, second>>
             middle == [i \in 1..10 |-> CASE a.mid = "zero" -> 0
                                          [] a.mid = "ffff" -> IF i > 8 THEN 255 ELSE 0
                                          [] OTHER -> 1]
             low == a.oct
  <2>1. MaxPrefix(a) \div 8 = 16
    BY <1>5 DEF MaxPrefix
  <2>2. Octets(a) = (top \o middle) \o low
    <3>1. a.fam # 4
      BY <1>5
    <3> QED
      BY <3>1, Zenon DEF Octets
  <2>3. top \in Seq(Int) /\ Len(top) = 2
    <3>1. first \in Int /\ second \in Int
      BY <1>2
    <3> HIDE DEF first, second
    <3> QED
      BY <3>1
  <2>4. middle \in Seq(Int) /\ Len(middle) = 10
    <3>1. middle \in [1..10 -> Int] /\ 10 \in Nat
      OBVIOUS
    <3> HIDE DEF middle
    <3>2. middle \in Seq(Int)
      BY Zenon, <3>1, SeqDef
    <3> QED
      BY <3>1, <3>2, LenProperties
  <2>5. low \in Seq(Int) /\ Len(low) = 4
    BY Zenon, <1>3
  <2> HIDE DEF top, middle, low
  <2>6. top \o middle \in Seq(Int) /\ Len(top \o middle) = Len(top) + Len(middle)
    BY <2>3, <2>4, ConcatProperties, Zenon
  <2> DEFINE upper == top \o middle
  <2>7. upper \in Seq(Int) /\ Len(upper) = 12
    BY <2>3, <2>4, <2>6
  <2> HIDE DEF upper
  <2>8. upper \o low \in Seq(Int) /\ Len(upper \o low) = Len(upper) + Len(low)
    BY <2>5, <2>7, ConcatProperties, Zenon
  <2>9. Octets(a) = upper \o low
    BY Zenon, <2>2 DEF upper
  <2>10. Octets(a) \in Seq(Int) /\ Len(Octets(a)) = 16
    BY <2>5, <2>7, <2>8, <2>9
  <2> QED
    BY Zenon, <2>1, <2>10, ElementOfSeq
<1> QED
  BY Zenon, <1>1, <1>4, <1>5

\* Two octets that agree above a mask agree in each of the bits it leaves.
LEMMA MaskKeepsBits ==
    ASSUME NEW x \in Int, NEW y \in Int, NEW r \in 1..7, NEW j \in 0..(r - 1),
           x \div 2 ^ (8 - r) = y \div 2 ^ (8 - r)
    PROVE  (x \div 2 ^ (7 - j)) % 2 = (y \div 2 ^ (7 - j)) % 2
<1> DEFINE F(n) == x \div 2 ^ n = y \div 2 ^ n
<1>1. F(1) => F(2)
  <2>1. 2 ^ 1 = 2 /\ 2 ^ 2 = 4
    OBVIOUS
  <2>2. x \div 2 = y \div 2 => x \div 4 = y \div 4
    OBVIOUS
  <2> QED
    BY <2>1, <2>2
<1>2. F(2) => F(3)
  <2>1. 2 ^ 2 = 4 /\ 2 ^ 3 = 8
    OBVIOUS
  <2>2. x \div 4 = y \div 4 => x \div 8 = y \div 8
    OBVIOUS
  <2> QED
    BY <2>1, <2>2
<1>3. F(3) => F(4)
  <2>1. 2 ^ 3 = 8 /\ 2 ^ 4 = 16
    OBVIOUS
  <2>2. x \div 8 = y \div 8 => x \div 16 = y \div 16
    OBVIOUS
  <2> QED
    BY <2>1, <2>2
<1>4. F(4) => F(5)
  <2>1. 2 ^ 4 = 16 /\ 2 ^ 5 = 32
    OBVIOUS
  <2>2. x \div 16 = y \div 16 => x \div 32 = y \div 32
    OBVIOUS
  <2> QED
    BY <2>1, <2>2
<1>5. F(5) => F(6)
  <2>1. 2 ^ 5 = 32 /\ 2 ^ 6 = 64
    OBVIOUS
  <2>2. x \div 32 = y \div 32 => x \div 64 = y \div 64
    OBVIOUS
  <2> QED
    BY <2>1, <2>2
<1>6. F(6) => F(7)
  <2>1. 2 ^ 6 = 64 /\ 2 ^ 7 = 128
    OBVIOUS
  <2>2. x \div 64 = y \div 64 => x \div 128 = y \div 128
    OBVIOUS
  <2> QED
    BY Zenon, <2>1, <2>2
<1>7. F(8 - r)
  OBVIOUS
<1> HIDE DEF F
<1>8. F(7 - j)
  BY <1>1, <1>2, <1>3, <1>4, <1>5, <1>6, <1>7
<1> QED
  BY Zenon, <1>8 DEF F

\* prefix_matches compares whole octets and one remainder under its mask; that
\* is agreement in every bit of the prefix.
LEMMA PrefixIsBits ==
    ASSUME NEW net, NEW peer, NEW len \in Nat, NEW size \in Nat, len <= 8 * size,
           \A i \in 1..size : net[i] \in Int /\ peer[i] \in Int,
           PrefixMatches(net, peer, len)
    PROVE  \A k \in 1..len : Bit(net, k) = Bit(peer, k)
<1> DEFINE whole == len \div 8
           r == len % 8
<1> SUFFICES ASSUME NEW k \in 1..len
             PROVE  Bit(net, k) = Bit(peer, k)
  OBVIOUS
<1> DEFINE i == (k - 1) \div 8 + 1
           j == (k - 1) % 8
<1>1. i \in 1..(whole + 1) /\ j \in 0..7 /\ (i = whole + 1 => j < r)
  OBVIOUS
<1>2. whole \in Nat /\ r \in 0..7 /\ (r # 0 => whole + 1 <= size)
  OBVIOUS
<1>3. /\ \A n \in 1..whole : net[n] = peer[n]
      /\ r = 0 \/ net[whole + 1] \div 2 ^ (8 - r) = peer[whole + 1] \div 2 ^ (8 - r)
  BY DEF PrefixMatches
<1>4. /\ Bit(net, k) = (net[i] \div 2 ^ (7 - j)) % 2
      /\ Bit(peer, k) = (peer[i] \div 2 ^ (7 - j)) % 2
  BY Zenon DEF Bit
<1> HIDE DEF whole, r, i, j
<1>5. CASE i \in 1..whole
  <2>1. net[i] = peer[i]
    BY Zenon, <1>3, <1>5
  <2> QED
    BY Zenon, <1>4, <2>1
<1>6. CASE i = whole + 1
  <2>1. r \in 1..7 /\ j \in 0..(r - 1) /\ i \in 1..size
    BY <1>1, <1>2, <1>6
  <2>2. net[i] \in Int /\ peer[i] \in Int
    BY Zenon, <2>1
  <2>3. net[i] \div 2 ^ (8 - r) = peer[i] \div 2 ^ (8 - r)
    BY <1>3, <1>6, <2>1
  <2> QED
    BY Zenon, <1>4, <2>1, <2>2, <2>3, MaskKeepsBits
<1> QED
  BY <1>1, <1>2, <1>5, <1>6

\* A peer admit lets through is this machine, or has the bits of a network.
LEMMA AllowedIsNamed ==
    ASSUME NEW peer \in Addresses, IsPeerAllowed(AllowedCidrs, peer)
    PROVE  LET p == Canonical(peer)
           IN  \/ IsLoopback(p)
               \/ \E cidr \in AllowedCidrs :
                    /\ cidr.net.fam = p.fam
                    /\ \A k \in 1..cidr.len : Bit(Octets(cidr.net), k) = Bit(Octets(p), k)
<1> DEFINE p == Canonical(peer)
<1>1. CASE IsLoopback(p)
  BY <1>1
<1>2. CASE \E cidr \in AllowedCidrs : CidrContains(cidr, peer)
  <2>1. PICK cidr \in AllowedCidrs : CidrContains(cidr, peer)
    BY Zenon, <1>2
  <2>2. cidr.net.fam = p.fam /\ PrefixMatches(Octets(cidr.net), Octets(p), cidr.len)
    BY Zenon, <2>1 DEF CidrContains
  <2>3. cidr.net \in Addresses /\ cidr.len \in Nat /\ cidr.len <= MaxPrefix(cidr.net)
    BY Zenon, PeerAssumption DEF ValidCidr
  <2>4. p \in Addresses
    BY Zenon, CanonicalFixed
  <2> DEFINE size == MaxPrefix(p) \div 8
  <2>5. size \in Nat /\ MaxPrefix(p) = 8 * size /\ MaxPrefix(cidr.net) = MaxPrefix(p)
    BY <2>2 DEF MaxPrefix
  <2>6. \A i \in 1..size : Octets(cidr.net)[i] \in Int /\ Octets(p)[i] \in Int
    BY Zenon, <2>3, <2>4, <2>5, OctetsAreIntegers
  <2> HIDE DEF size, p
  <2>7. cidr.len <= 8 * size
    BY Zenon, <2>3, <2>5
  <2>8. \A k \in 1..cidr.len : Bit(Octets(cidr.net), k) = Bit(Octets(p), k)
    BY <2>2, <2>3, <2>5, <2>6, <2>7, PrefixIsBits
  <2> QED
    BY Zenon, <2>2, <2>8 DEF p
<1> QED
  BY Zenon, <1>1, <1>2 DEF IsPeerAllowed

-----------------------------------------------------------------------------
(* Sessions.                                                               *)

States == Negotiating \cup Granted \cup {"none", "over"}

\* An address a listener's tunnel may have a socket to.
Carried(l, a) ==
    /\ a.fam = 6 => l.hasV6
    /\ ~IsMapped(a) /\ ~IsLoopback(a) /\ ~IsLinkLocal(a) /\ ~IsMulticast(a)
    /\ (IsPrivate(a) /\ a.fam = 4) => l.allowPrivate

\* What a session of a listener is, wherever it stands.
SessionOK(l, s) ==
    /\ s.st \in States
    /\ s.st \notin {"none", "over"} => s.peer \in Peers /\ IsPeerAllowed(AllowedCidrs, s.peer)
    /\ l.auth /\ s.st \in Granted \cup {"request"} => s.knew
    /\ s.st \in {"connecting", "relay"} => Carried(l, s.to)
    /\ s.st \notin {"relay", "over"} => s.verdicts = <<>>
    /\ s.st = "relay" => s.verdicts = <<"success">>
    /\ s.st = "over" => s.verdicts \in {<<>>, <<"failure">>, <<"success">>}

\* The inductive invariant of the sessions.
SInv == on \in Listeners /\ DOMAIN conn = Slots /\ \A c \in Slots : SessionOK(on, conn[c])

\* A session goes on in its slot, and not to the verification or the denial.
Moves(c) == \E s : SessionOK(on, s) /\ s.st \notin {"verify", "denying"} /\ Become(c, s)

\* An established session says nothing more; every other one has said nothing.
LEMMA OverMoves ==
    ASSUME SInv, NEW c \in Slots, NEW verdict \in {Silently, Refused},
           conn[c].st \notin {"none", "over"}, conn[c].st = "relay" => verdict = Silently,
           Over(c, verdict)
    PROVE  Moves(c)
<1> DEFINE s == Session("over", Malformed, "none", FALSE, conn[c].verdicts \o verdict, <<>>,
                        Malformed)
<1>1. s.st = "over" /\ s.verdicts = conn[c].verdicts \o verdict
  BY DEF Session
<1>2. conn[c].verdicts = IF conn[c].st = "relay" THEN <<"success">> ELSE <<>>
  BY Zenon DEF SInv, SessionOK
<1>3. /\ <<>> \o <<>> = <<>> /\ <<>> \o <<"failure">> = <<"failure">>
      /\ <<"success">> \o <<>> = <<"success">>
  OBVIOUS
<1>4. s.verdicts \in {<<>>, <<"failure">>, <<"success">>}
  <2>1. CASE conn[c].st = "relay"
    BY Zenon, <1>1, <1>2, <1>3, <2>1 DEF Silently
  <2>2. CASE conn[c].st # "relay" /\ verdict = Silently
    BY Zenon, <1>1, <1>2, <1>3, <2>2 DEF Silently
  <2>3. CASE conn[c].st # "relay" /\ verdict = Refused
    BY Zenon, <1>1, <1>2, <1>3, <2>3 DEF Refused
  <2> QED
    BY Zenon, <2>1, <2>2, <2>3
<1>5. SessionOK(on, s) /\ s.st \notin {"verify", "denying"} /\ Become(c, s)
  <2>1. Become(c, s)
    BY Zenon DEF Over
  <2> HIDE DEF s
  <2> QED
    BY Zenon, <1>1, <1>4, <2>1 DEF SessionOK, States, Granted
<1> QED
  BY Zenon, <1>5 DEF Moves

\* A session that goes on without a verdict keeps what holds of it, if it is
\* past the credentials only where it may be, and has no socket.
LEMMA GoMoves ==
    ASSUME SInv, NEW c \in Slots,
           NEW st \in States \ {"none", "over", "verify", "denying", "connecting", "relay"},
           conn[c].st \notin {"none", "over", "relay"}, NEW knew,
           on.auth /\ st \in Granted \cup {"request"} => knew,
           NEW proto, NEW cands,
           Become(c, Session(st, conn[c].peer, proto, knew, conn[c].verdicts, cands, Malformed))
    PROVE  Moves(c)
<1> DEFINE s == Session(st, conn[c].peer, proto, knew, conn[c].verdicts, cands, Malformed)
<1>1. s.st = st /\ s.peer = conn[c].peer /\ s.knew = knew /\ s.verdicts = conn[c].verdicts
  BY DEF Session
<1>2. SessionOK(on, conn[c])
  BY DEF SInv
<1>3. Become(c, s)
  OBVIOUS
<1> HIDE DEF s
<1>4. SessionOK(on, s)
  BY <1>1, <1>2 DEF SessionOK
<1> QED
  BY <1>1, <1>3, <1>4 DEF Moves

\* The state of a slot, and nothing else, changes.
LEMMA BecomeKeeps ==
    ASSUME SInv, NEW c \in Slots, NEW s, SessionOK(on, s), Become(c, s), on' = on
    PROVE  SInv' /\ conn'[c] = s /\ \A d \in Slots \ {c} : conn'[d] = conn[d]
<1>1. /\ DOMAIN conn' = Slots /\ conn'[c] = s
      /\ \A d \in Slots \ {c} : conn'[d] = conn[d]
  BY Zenon DEF SInv, Become
<1>2. \A d \in Slots : SessionOK(on, conn'[d])
  BY Zenon, <1>1 DEF SInv
<1> QED
  BY Zenon, <1>1, <1>2 DEF SInv

\* The same of a move.
LEMMA MoveKeeps ==
    ASSUME SInv, NEW c \in Slots, Moves(c), on' = on
    PROVE  /\ SInv' /\ conn'[c].st \notin {"verify", "denying"}
           /\ \A d \in Slots \ {c} : conn'[d] = conn[d]
<1>1. PICK s : SessionOK(on, s) /\ s.st \notin {"verify", "denying"} /\ Become(c, s)
  BY Zenon DEF Moves
<1> QED
  BY Zenon, <1>1, BecomeKeeps

\* A session that has presented credentials is denied.
LEMMA DenyingKeeps ==
    ASSUME SInv, NEW c \in Slots, conn[c].st \in {"capacity", "verify"}, on' = on,
           NEW knew, Go(c, "denying", knew)
    PROVE  SInv' /\ conn'[c].st = "denying" /\ \A d \in Slots \ {c} : conn'[d] = conn[d]
<1> DEFINE s == Session("denying", conn[c].peer, conn[c].proto, knew, conn[c].verdicts, <<>>,
                        Malformed)
<1>1. s.st = "denying" /\ s.peer = conn[c].peer /\ s.verdicts = conn[c].verdicts
  BY DEF Session
<1>2. Become(c, s)
  BY Zenon DEF Go
<1> HIDE DEF s
<1>3. SessionOK(on, conn[c])
  BY Zenon DEF SInv
<1>4. SessionOK(on, s)
  BY Zenon, <1>1, <1>3 DEF SessionOK, States, Negotiating, Waiting, Granted
<1> QED
  BY Zenon, <1>1, <1>2, <1>4, BecomeKeeps

\* admit: a new session is of a peer that is allowed, and has said nothing.
LEMMA AdmitMoves ==
    ASSUME SInv, NEW c \in Slots, NEW p \in Peers, Admit(c, p)
    PROVE  Moves(c)
<1> DEFINE s == Session("dispatch", p, "none", FALSE, <<>>, <<>>, Malformed)
<1>1. s.st = "dispatch" /\ s.peer = p /\ s.verdicts = <<>>
  BY Zenon DEF Session
<1>2. Become(c, s) /\ IsPeerAllowed(AllowedCidrs, p)
  BY Zenon DEF Admit
<1> HIDE DEF s
<1> QED
  BY Zenon, <1>1, <1>2 DEF Moves, SessionOK, States, Negotiating, Waiting, Reading, Granted

\* A session that may ask is given what it asks for.
LEMMA TargetMoves ==
    ASSUME SInv, NEW c \in Slots, NEW d, conn[c].st \in {"request", "target"}, SetTarget(c, d)
    PROVE  Moves(c)
<1>1. {"resolve", "dial"} \subseteq States \ {"none", "over", "verify", "denying", "connecting", "relay"}
  BY DEF States, Granted
<1>2. on.auth => conn[c].knew
  BY Zenon DEF SInv, SessionOK, Granted
<1>3. Try(c, "resolve", <<>>, Malformed) \/ Try(c, "dial", <<d.addr>>, Malformed)
  BY Zenon DEF SetTarget
<1>4. ASSUME Try(c, "resolve", <<>>, Malformed)
      PROVE  Moves(c)
  BY Zenon, <1>1, <1>2, <1>4, GoMoves DEF Try
<1>5. ASSUME Try(c, "dial", <<d.addr>>, Malformed)
      PROVE  Moves(c)
  BY Zenon, <1>1, <1>2, <1>5, GoMoves DEF Try
<1> QED
  BY Zenon, <1>3, <1>4, <1>5

\* What the client says moves its session, or ends it.
LEMMA ClientMoves ==
    ASSUME SInv, NEW c \in Slots, ClientStep(c)
    PROVE  Moves(c) /\ UNCHANGED <<bucket, guesses, ticks>>
<1>1. CASE \E p \in Peers : Admit(c, p)
  BY Zenon, <1>1, AdmitMoves DEF Admit
<1>2. ASSUME NEW byte, Dispatch(c, byte)
      PROVE  Moves(c) /\ UNCHANGED <<bucket, guesses, ticks>>
  <2>1. conn[c].st = "dispatch"
    BY Zenon, <1>2 DEF Dispatch
  <2>2. Speak(c, "greet", "socks5") \/ Speak(c, "head", "http") \/ Over(c, Silently)
    BY Zenon, <1>2 DEF Dispatch
  <2>3. ASSUME Speak(c, "greet", "socks5") \/ Speak(c, "head", "http")
        PROVE  Moves(c)
    <3>1. {"greet", "head"} \subseteq States \ {"none", "over", "verify", "denying", "connecting", "relay"}
      BY Zenon DEF States, Negotiating, Waiting, Reading
    <3>2. {"greet", "head"} \cap (Granted \cup {"request"}) = {}
      BY Zenon DEF Granted
    <3> QED
      BY Zenon, <2>1, <2>3, <3>1, <3>2, GoMoves DEF Speak
  <2>4. ASSUME Over(c, Silently)
        PROVE  Moves(c)
    BY Zenon, <2>1, <2>4, OverMoves
  <2> QED
    BY Zenon, <1>2, <2>2, <2>3, <2>4 DEF Dispatch
<1>3. ASSUME NEW methods, Greet(c, methods)
      PROVE  Moves(c) /\ UNCHANGED <<bucket, guesses, ticks>>
  <2>1. conn[c].st = "greet"
    BY Zenon, <1>3 DEF Greet
  <2>2. \/ Over(c, Silently) \/ Over(c, Refused)
        \/ Go(c, IF on.auth THEN "auth" ELSE "request", conn[c].knew)
    BY Zenon, <1>3 DEF Greet
  <2>3. ASSUME Go(c, IF on.auth THEN "auth" ELSE "request", conn[c].knew)
        PROVE  Moves(c)
    <3> DEFINE st == IF on.auth THEN "auth" ELSE "request"
    <3>1. st \in States \ {"none", "over", "verify", "denying", "connecting", "relay"}
      BY Zenon DEF States, Negotiating, Waiting, Reading
    <3>2. on.auth /\ st \in Granted \cup {"request"} => conn[c].knew
      BY Zenon DEF Granted
    <3>3. Go(c, st, conn[c].knew)
      BY Zenon, <2>3
    <3> HIDE DEF st
    <3> QED
      BY Zenon, <2>1, <3>1, <3>2, <3>3, GoMoves DEF Go
  <2>4. ASSUME Over(c, Silently) \/ Over(c, Refused)
        PROVE  Moves(c)
    BY Zenon, <2>1, <2>4, OverMoves
  <2> QED
    BY Zenon, <1>3, <2>2, <2>3, <2>4 DEF Greet
<1>4. ASSUME NEW knew \in BOOLEAN, conn[c].st \in {"auth", "head"}, Go(c, "capacity", knew)
      PROVE  Moves(c)
  <2>1. "capacity" \in States \ {"none", "over", "verify", "denying", "connecting", "relay"}
    BY Zenon DEF States, Negotiating
  <2>2. "capacity" \notin Granted \cup {"request"}
    BY Zenon DEF Granted
  <2> QED
    BY Zenon, <1>4, <2>1, <2>2, GoMoves DEF Go
<1>5. ASSUME NEW secret, ReadCredentials(c, secret)
      PROVE  Moves(c) /\ UNCHANGED <<bucket, guesses, ticks>>
  <2>1. conn[c].st = "auth"
    BY Zenon, <1>5 DEF ReadCredentials
  <2>2. Over(c, Silently) \/ Go(c, "capacity", secret = "right")
    BY Zenon, <1>5 DEF ReadCredentials
  <2>3. Moves(c)
    <3>1. (secret = "right") \in BOOLEAN
      OBVIOUS
    <3> QED
      BY Zenon, <1>4, <2>1, <2>2, <3>1, OverMoves
  <2> QED
    BY Zenon, <1>5, <2>3 DEF ReadCredentials
<1>6. ASSUME NEW d \in on.destinations, NEW command, Request(c, d, command)
      PROVE  Moves(c) /\ UNCHANGED <<bucket, guesses, ticks>>
  <2>1. conn[c].st = "request"
    BY Zenon, <1>6 DEF Request
  <2>2. SetTarget(c, d) \/ Over(c, Silently) \/ Over(c, Refused)
    BY <1>6 DEF Request
  <2>3. ASSUME SetTarget(c, d)
        PROVE  Moves(c)
    BY <2>1, <2>3, TargetMoves
  <2>4. ASSUME Over(c, Silently) \/ Over(c, Refused)
        PROVE  Moves(c)
    BY <2>1, <2>4, OverMoves
  <2> QED
    BY <1>6, <2>2, <2>3, <2>4 DEF Request
<1>7. ASSUME NEW head \in {"malformed", "anonymous", "right", "wrong"}, ReadHead(c, head)
      PROVE  Moves(c) /\ UNCHANGED <<bucket, guesses, ticks>>
  <2>1. conn[c].st = "head"
    BY Zenon, <1>7 DEF ReadHead
  <2>2. \/ Over(c, Refused) \/ Go(c, "capacity", head = "right")
        \/ ~on.auth /\ Go(c, "target", conn[c].knew)
    BY Zenon, <1>7 DEF ReadHead
  <2>3. ASSUME ~on.auth, Go(c, "target", conn[c].knew)
        PROVE  Moves(c)
    <3>1. "target" \in States \ {"none", "over", "verify", "denying", "connecting", "relay"}
      BY Zenon DEF States, Granted
    <3> QED
      BY Zenon, <2>1, <2>3, <3>1, GoMoves DEF Go
  <2>4. ASSUME Go(c, "capacity", head = "right")
        PROVE  Moves(c)
    <3>1. (head = "right") \in BOOLEAN
      OBVIOUS
    <3> QED
      BY Zenon, <1>4, <2>1, <2>4, <3>1
  <2>5. ASSUME Over(c, Refused)
        PROVE  Moves(c)
    BY Zenon, <2>1, <2>5, OverMoves
  <2> QED
    BY Zenon, <1>7, <2>2, <2>3, <2>4, <2>5 DEF ReadHead
<1>8. CASE ClientLeaves(c)
  <2>1. conn[c].st \in Waiting \cup {"relay"}
    BY Zenon, <1>8 DEF ClientLeaves
  <2>2. Over(c, IF conn[c].st = "head" THEN Refused ELSE Silently)
    BY Zenon, <1>8 DEF ClientLeaves
  <2>3. Moves(c)
    <3>1. CASE conn[c].st = "head"
      BY Zenon, <2>2, <3>1, OverMoves
    <3>2. CASE conn[c].st # "head"
      BY Zenon, <2>1, <2>2, <3>2, OverMoves DEF Waiting, Reading
    <3> QED
      BY Zenon, <3>1, <3>2
  <2> QED
    BY Zenon, <1>8, <2>3 DEF ClientLeaves
<1> QED
  BY Zenon, <1>1, <1>2, <1>3, <1>5, <1>6, <1>7, <1>8 DEF ClientStep

\* check_destination and the family check leave only addresses that are carried.
LEMMA EgressCarries ==
    ASSUME NEW addr, ~EgressRefuses(addr)
    PROVE  Carried(on, Canonical(addr))
<1> DEFINE a == Canonical(addr)
<1>1. ~IsMapped(a)
  BY Zenon DEF Canonical, IsMapped
<1>2. a.fam = 6 => on.hasV6
  BY Zenon DEF EgressRefuses
<1>3. CheckDestination(addr, on.allowPrivate) = "None"
  BY Zenon DEF EgressRefuses
<1>4. ~IsLoopback(a) /\ ~IsLinkLocal(a) /\ ~IsMulticast(a) /\ (IsPrivate(a) /\ a.fam = 4 => on.allowPrivate)
  <2>1. CASE a.fam = 4
    <3>1. DenyReasonV4(a, on.allowPrivate) = "None"
      BY Zenon, <1>3, <2>1 DEF CheckDestination
    <3> HIDE DEF a
    <3> QED
      BY Zenon, <3>1 DEF DenyReasonV4
  <2>2. CASE a.fam # 4
    <3>1. DenyReasonV6(a, on.allowPrivate) = "None"
      BY Zenon, <1>3, <2>2 DEF CheckDestination
    <3> HIDE DEF a
    <3> QED
      BY Zenon, <2>2, <3>1 DEF DenyReasonV6
  <2> QED
    BY Zenon, <2>1, <2>2
<1> QED
  BY Zenon, <1>1, <1>2, <1>4 DEF Carried

\* A candidate that is next, or none that is left.
LEMMA NextCandidateMoves ==
    ASSUME SInv, NEW c \in Slots, NEW rest, conn[c].st \in {"dial", "connecting"},
           NextCandidate(c, rest)
    PROVE  Moves(c)
<1>1. "dial" \in States \ {"none", "over", "verify", "denying", "connecting", "relay"}
  BY Zenon DEF States, Granted
<1>2. on.auth => conn[c].knew
  BY Zenon DEF SInv, SessionOK, Granted
<1>3. CASE Try(c, "dial", rest, Malformed)
  BY Zenon, <1>1, <1>2, <1>3, GoMoves DEF Try
<1>4. CASE Over(c, Refused)
  BY Zenon, <1>4, OverMoves
<1> QED
  BY Zenon, <1>3, <1>4 DEF NextCandidate, DialFailed

\* Dialling: the egress refuses the candidate, or gets a socket to it.
LEMMA DialMoves ==
    ASSUME SInv, NEW c \in Slots, Dial(c)
    PROVE  Moves(c) /\ UNCHANGED <<bucket, guesses, ticks>>
<1> DEFINE addr == Head(conn[c].cands)
           rest == Tail(conn[c].cands)
<1>1. conn[c].st = "dial"
  BY DEF Dial
<1>2. CASE EgressRefuses(addr)
  <2>1. NextCandidate(c, rest)
    BY <1>2 DEF Dial
  <2> QED
    BY <1>1, <2>1, NextCandidateMoves DEF Dial
<1>3. CASE ~EgressRefuses(addr)
  <2> DEFINE s == Session("connecting", conn[c].peer, conn[c].proto, conn[c].knew,
                          conn[c].verdicts, rest, Canonical(addr))
  <2>1. Become(c, s)
    BY Zenon, <1>3 DEF Dial, Try
  <2>2. Carried(on, Canonical(addr))
    BY Zenon, <1>3, EgressCarries
  <2>3. /\ s.st = "connecting" /\ s.peer = conn[c].peer /\ s.knew = conn[c].knew
        /\ s.verdicts = conn[c].verdicts /\ s.to = Canonical(addr)
    BY Zenon DEF Session
  <2>4. SessionOK(on, conn[c])
    BY Zenon DEF SInv
  <2> HIDE DEF s, addr
  <2>5. SessionOK(on, s)
    BY Zenon, <1>1, <2>2, <2>3, <2>4 DEF SessionOK, States, Granted
  <2>6. Moves(c)
    BY Zenon, <2>1, <2>3, <2>5 DEF Moves
  <2> QED
    BY Zenon, <2>6 DEF Dial
<1> QED
  BY Zenon, <1>2, <1>3

\* What the session does by itself apart from the limiter's two locks.
LEMMA OwnStepMoves ==
    ASSUME SInv, NEW c \in Slots,
           (\E d \in on.destinations : Target(c, d)) \/ Resolve(c) \/ Dial(c) \/ Deny(c)
    PROVE  Moves(c) /\ UNCHANGED <<bucket, guesses, ticks>>
<1>1. ASSUME NEW d \in on.destinations, Target(c, d)
      PROVE  Moves(c) /\ UNCHANGED <<bucket, guesses, ticks>>
  <2>1. conn[c].st = "target"
    BY Zenon, <1>1 DEF Target
  <2>2. SetTarget(c, d) \/ Over(c, Refused)
    BY Zenon, <1>1 DEF Target
  <2>3. Moves(c)
    BY <2>1, <2>2, TargetMoves, OverMoves
  <2> QED
    BY Zenon, <1>1, <2>3 DEF Target
<1>2. CASE Resolve(c)
  <2>1. conn[c].st = "resolve"
    BY Zenon, <1>2 DEF Resolve
  <2>2. Try(c, "lookup", <<>>, Malformed) \/ Over(c, Refused)
    BY Zenon, <1>2 DEF Resolve, DialFailed
  <2>3. "lookup" \in States \ {"none", "over", "verify", "denying", "connecting", "relay"}
    BY Zenon DEF States, Granted
  <2>4. on.auth => conn[c].knew
    BY Zenon, <2>1 DEF SInv, SessionOK, Granted
  <2>5. ASSUME Try(c, "lookup", <<>>, Malformed)
        PROVE  Moves(c)
    BY Zenon, <2>1, <2>3, <2>4, <2>5, GoMoves DEF Try
  <2>6. Moves(c)
    BY Zenon, <2>1, <2>2, <2>5, OverMoves
  <2> QED
    BY Zenon, <1>2, <2>6 DEF Resolve
<1>3. CASE Deny(c)
  <2>1. Over(c, Refused) /\ conn[c].st = "denying"
    BY Zenon, <1>3 DEF Deny
  <2>2. Moves(c)
    BY Zenon, <2>1, OverMoves
  <2> QED
    BY Zenon, <1>3, <2>2 DEF Deny
<1> QED
  BY Zenon, <1>1, <1>2, <1>3, DialMoves

\* The nameserver and the destination answer.
LEMMA RemoteMoves ==
    ASSUME SInv, NEW c \in Slots, RemoteStep(c)
    PROVE  Moves(c) /\ UNCHANGED <<bucket, guesses, ticks>>
<1>1. ASSUME NEW answers, Answered(c, answers)
      PROVE  Moves(c) /\ UNCHANGED <<bucket, guesses, ticks>>
  <2> DEFINE accepted == AcceptAnswers(answers)
  <2>1. conn[c].st = "lookup"
    BY Zenon, <1>1 DEF Answered
  <2>2. Try(c, "dial", accepted, Malformed) \/ Over(c, Refused)
    BY Zenon, <1>1 DEF Answered, DialFailed
  <2>3. "dial" \in States \ {"none", "over", "verify", "denying", "connecting", "relay"}
    BY Zenon DEF States, Granted
  <2>4. on.auth => conn[c].knew
    BY Zenon, <2>1 DEF SInv, SessionOK, Granted
  <2> HIDE DEF accepted
  <2>5. ASSUME Try(c, "dial", accepted, Malformed)
        PROVE  Moves(c)
    BY Zenon, <2>1, <2>3, <2>4, <2>5, GoMoves DEF Try
  <2>6. Moves(c)
    BY Zenon, <2>1, <2>2, <2>5, OverMoves
  <2> QED
    BY Zenon, <1>1, <2>6 DEF Answered
<1>2. CASE ConnectFails(c)
  BY <1>2, NextCandidateMoves DEF ConnectFails
<1>3. CASE Connected(c)
  <2> DEFINE s == Session("relay", conn[c].peer, conn[c].proto, conn[c].knew,
                          Append(conn[c].verdicts, "success"), <<>>, conn[c].to)
  <2>1. conn[c].st = "connecting" /\ Become(c, s)
    BY Zenon, <1>3 DEF Connected
  <2>2. SessionOK(on, conn[c])
    BY Zenon DEF SInv
  <2>3. Append(conn[c].verdicts, "success") = <<"success">>
    <3>1. conn[c].verdicts = <<>>
      BY Zenon, <2>1, <2>2 DEF SessionOK
    <3>2. Append(<<>>, "success") = <<"success">>
      OBVIOUS
    <3> QED
      BY Zenon, <3>1, <3>2
  <2>4. /\ s.st = "relay" /\ s.peer = conn[c].peer /\ s.knew = conn[c].knew
        /\ s.verdicts = <<"success">> /\ s.to = conn[c].to
    BY Zenon, <2>3 DEF Session
  <2> HIDE DEF s
  <2>5. SessionOK(on, s)
    BY Zenon, <2>1, <2>2, <2>4 DEF SessionOK, States, Granted
  <2>6. Moves(c)
    BY Zenon, <2>1, <2>4, <2>5 DEF Moves
  <2> QED
    BY Zenon, <1>3, <2>6 DEF Connected
<1> QED
  BY Zenon, <1>1, <1>2, <1>3 DEF RemoteStep

\* The timeouts end a session that is not established.
LEMMA TimeoutMoves ==
    ASSUME SInv, NEW c \in Slots, HandshakeTimeout(c) \/ LookupFails(c) \/ DialUpstreamTimeout(c)
    PROVE  Moves(c) /\ UNCHANGED <<bucket, guesses, ticks>>
<1>1. conn[c].st \notin {"none", "over", "relay"} /\ (Over(c, Silently) \/ Over(c, Refused))
  BY Zenon DEF HandshakeTimeout, LookupFails, DialUpstreamTimeout, Waiting, Reading, DialFailed
<1>2. Moves(c)
  BY Zenon, <1>1, OverMoves
<1> QED
  BY Zenon, <1>2 DEF HandshakeTimeout, LookupFails, DialUpstreamTimeout

-----------------------------------------------------------------------------
(* The limiter.                                                            *)

\* The sessions that have passed the check and not recorded anything yet.
Verifying(p) == {c \in Slots : conn[c].st = "verify" /\ conn[c].peer = p}

\* Guesses an empty bucket lets through.
Spare == Cardinality(Slots) - 1

LimiterTypes ==
    /\ Tracked \subseteq Peers /\ IsFiniteSet(Tracked) /\ Cardinality(Tracked) <= MaxTracked
    /\ bucket \in [Tracked -> 0..Burst] /\ guesses \in [Peers -> Nat] /\ ticks \in Nat

\* A bucket that is not empty has been paid for in full, apart from what got
\* through while it was empty before; one that is empty still owes a guess to
\* each session that is verifying.
Spent(p) ==
    /\ p \notin Tracked => guesses[p] = 0
    /\ p \in Tracked /\ bucket[p] >= 1 =>
          guesses[p] + bucket[p] <= Burst + ticks + ticks * Spare
    /\ p \in Tracked /\ bucket[p] = 0 =>
          guesses[p] + Cardinality(Verifying(p)) <= Burst + ticks + (ticks + 1) * Spare

\* The inductive invariant of the limiter.
LInv == LimiterTypes /\ \A p \in Peers : Spent(p)

\* The constants as numbers.
LEMMA LimiterNumbers ==
    /\ Burst \in Nat /\ Burst >= 1 /\ MaxTracked \in Nat /\ MaxTracked >= 1
    /\ IsFiniteSet(Slots) /\ Spare \in Nat
<1>1. IsFiniteSet(Slots) /\ Slots # {}
  BY Zenon, ProxySessionAssumption
<1>2. Cardinality(Slots) \in Nat /\ Cardinality(Slots) # 0
  BY Zenon, <1>1, FS_CardinalityType, FS_EmptySet
<1> QED
  BY <1>1, <1>2, ProxySessionAssumption DEF Spare

\* Saturating subtraction and the cap of a refill.
LEMMA TokensAreCapped ==
    /\ \A n \in Int : Max({n, 0}) = IF n >= 0 THEN n ELSE 0
    /\ \A n, m \in Int : Min({n, m}) = IF n <= m THEN n ELSE m
<1>1. ASSUME NEW n \in Int
      PROVE  Max({n, 0}) = IF n >= 0 THEN n ELSE 0
  <2>1. \E x \in {n, 0} : \A y \in {n, 0} : x >= y
    OBVIOUS
  <2> QED
    BY <2>1 DEF Max
<1>2. ASSUME NEW n \in Int, NEW m \in Int
      PROVE  Min({n, m}) = IF n <= m THEN n ELSE m
  <2>1. \E x \in {n, m} : \A y \in {n, m} : x <= y
    OBVIOUS
  <2> QED
    BY <2>1 DEF Min
<1> QED
  BY Zenon, <1>1, <1>2

\* The verifying sessions are finitely many, and leave one slot for the session
\* that is not among them.
LEMMA VerifyingIsFinite ==
    ASSUME NEW p
    PROVE  /\ IsFiniteSet(Verifying(p)) /\ Cardinality(Verifying(p)) \in Nat
           /\ \A c \in Slots : c \notin Verifying(p) => Cardinality(Verifying(p)) <= Spare
<1>1. IsFiniteSet(Slots)
  BY Zenon, LimiterNumbers
<1>2. Verifying(p) \subseteq Slots
  BY Zenon DEF Verifying
<1>3. IsFiniteSet(Verifying(p)) /\ Cardinality(Verifying(p)) \in Nat
  BY Zenon, <1>1, <1>2, FS_Subset, FS_CardinalityType
<1>4. ASSUME NEW c \in Slots, c \notin Verifying(p)
      PROVE  Cardinality(Verifying(p)) <= Spare
  <2>1. Verifying(p) \subseteq Slots \ {c}
    BY Zenon, <1>2, <1>4
  <2>2. IsFiniteSet(Slots \ {c}) /\ Cardinality(Slots \ {c}) = Cardinality(Slots) - 1
    BY Zenon, <1>1, FS_RemoveElement
  <2> QED
    BY <2>1, <2>2, FS_Subset DEF Spare
<1> QED
  BY Zenon, <1>3, <1>4

\* Where nothing is recorded and nobody starts to verify, nothing is owed.
LEMMA CalmKeeps ==
    ASSUME LInv, UNCHANGED <<bucket, guesses, ticks>>,
           \A p \in Peers : Verifying(p)' \subseteq Verifying(p)
    PROVE  LInv'
<1>1. LimiterTypes'
  BY Zenon DEF LInv, LimiterTypes, Tracked
<1>2. ASSUME NEW p \in Peers
      PROVE  Spent(p)'
  <2>1. Cardinality(Verifying(p)') <= Cardinality(Verifying(p)) /\ Cardinality(Verifying(p)') \in Nat
    BY Zenon, VerifyingIsFinite, FS_Subset, FS_CardinalityType
  <2>2. Cardinality(Verifying(p)) \in Nat
    BY Zenon, VerifyingIsFinite
  <2>3. Spent(p) /\ ticks \in Nat /\ Spare \in Nat /\ guesses[p] \in Nat /\ Burst \in Nat
    BY Zenon, LimiterNumbers DEF LInv, LimiterTypes
  <2>4. ticks * Spare \in Nat /\ (ticks + 1) * Spare \in Nat
    BY <2>3
  <2> QED
    BY <2>1, <2>2, <2>3, <2>4 DEF Spent, Tracked
<1> QED
  BY Zenon, <1>1, <1>2 DEF LInv

\* Time gives every bucket a token, and an empty one a last token to lose.
LEMMA TickKeeps ==
    ASSUME LInv, Tick
    PROVE  LInv'
<1>1. /\ ticks \in Nat /\ ticks' = ticks + 1 /\ guesses' = guesses
      /\ bucket' = [p \in Tracked |-> Min({bucket[p] + 1, Burst})]
      /\ \A p \in Peers : Verifying(p)' = Verifying(p)
  BY Zenon DEF LInv, LimiterTypes, Tick, Verifying
<1>2. \A p \in Tracked : bucket[p] \in 0..Burst
  BY Zenon DEF LInv, LimiterTypes
<1>3. /\ Tracked' = Tracked
      /\ \A p \in Tracked : bucket'[p] = IF bucket[p] + 1 <= Burst THEN bucket[p] + 1 ELSE Burst
  BY <1>1, <1>2, LimiterNumbers, TokensAreCapped DEF Tracked
<1>4. LimiterTypes'
  <2>1. \A p \in Tracked : bucket'[p] \in 0..Burst
    BY <1>2, <1>3, LimiterNumbers
  <2>2. bucket' \in [Tracked -> 0..Burst]
    BY Zenon, <1>1, <1>3, <2>1 DEF Tracked
  <2> QED
    BY <1>1, <1>3, <2>2 DEF LInv, LimiterTypes
<1>5. ASSUME NEW p \in Peers
      PROVE  Spent(p)'
  <2>1. Spent(p) /\ Spare \in Nat /\ guesses[p] \in Nat /\ Burst \in Nat /\ Burst >= 1
    BY Zenon, LimiterNumbers DEF LInv, LimiterTypes
  <2>2. Cardinality(Verifying(p)) \in Nat
    BY Zenon, VerifyingIsFinite
  <2> DEFINE paid == ticks * Spare
  <2>3. paid \in Nat /\ (ticks + 1) * Spare = paid + Spare
    BY <1>1, <2>1
  <2>4. ticks' * Spare = paid + Spare /\ guesses'[p] = guesses[p]
    BY Zenon, <1>1, <2>3
  <2>5. CASE p \notin Tracked
    BY Zenon, <1>1, <1>3, <2>1, <2>5 DEF Spent
  <2>6. CASE p \in Tracked
    <3>1. /\ bucket[p] \in Nat /\ bucket'[p] \in Nat
          /\ bucket'[p] >= 1 /\ bucket'[p] <= bucket[p] + 1
      BY <1>2, <1>3, <2>1, <2>6
    <3>2. CASE bucket[p] >= 1
      <4>1. guesses[p] + bucket[p] <= Burst + ticks + paid
        BY Zenon, <2>1, <2>6, <3>2 DEF Spent
      <4>2. guesses'[p] + bucket'[p] <= Burst + ticks' + ticks' * Spare
        <5> HIDE DEF paid
        <5> QED
          BY <1>1, <2>1, <2>3, <2>4, <3>1, <4>1
      <4> QED
        BY <1>3, <2>6, <3>1, <4>2 DEF Spent
    <3>3. CASE bucket[p] = 0
      <4>1. guesses[p] + Cardinality(Verifying(p)) <= Burst + ticks + (paid + Spare)
        BY Zenon, <2>1, <2>3, <2>6, <3>3 DEF Spent
      <4>2. guesses'[p] + bucket'[p] <= Burst + ticks' + ticks' * Spare
        <5> HIDE DEF paid
        <5> QED
          BY <1>1, <2>1, <2>2, <2>3, <2>4, <3>1, <3>3, <4>1
      <4> QED
        BY <1>3, <2>6, <3>1, <4>2 DEF Spent
    <3> QED
      BY <3>1, <3>2, <3>3
  <2> QED
    BY Zenon, <2>5, <2>6
<1> QED
  BY Zenon, <1>4, <1>5 DEF LInv

\* What is left when room has been made: some of the buckets as they were, one
\* less than fit, and a drained one only goes when all are drained.
Roomy(kept) ==
    /\ DOMAIN kept \subseteq Tracked /\ \A p \in DOMAIN kept : kept[p] = bucket[p]
    /\ Cardinality(DOMAIN kept) < MaxTracked
    /\ \A p \in Tracked \ DOMAIN kept : bucket[p] < 1 => \A q \in Tracked : bucket[q] = 0

\* The eviction of record_failure_at makes room, and spares the drained.
LEMMA MakeRoomIsRoomy ==
    ASSUME LimiterTypes, Cardinality(Tracked) >= MaxTracked, NEW kept \in MakeRoom(bucket)
    PROVE  Roomy(kept)
<1> DEFINE some == {q \in Tracked : bucket[q] < Burst}
           most == {p \in some : \A q \in some : bucket[q] <= bucket[p]}
<1>1. /\ IsFiniteSet(Tracked) /\ Cardinality(Tracked) \in Nat /\ Cardinality(Tracked) <= MaxTracked
      /\ \A q \in Tracked : bucket[q] \in Nat
  BY FS_CardinalityType, LimiterNumbers DEF LimiterTypes
<1>2. some \subseteq Tracked /\ IsFiniteSet(some) /\ Cardinality(some) \in Nat
  BY Zenon, <1>1, FS_Subset, FS_CardinalityType
<1>3. CASE Cardinality(some) < MaxTracked
  <2>1. kept = [p \in some |-> bucket[p]]
    BY Zenon, <1>3 DEF MakeRoom, Tracked
  <2>2. \A p \in Tracked \ some : ~(bucket[p] < 1)
    BY <1>1, LimiterNumbers
  <2> HIDE DEF some
  <2> QED
    BY <1>2, <1>3, <2>1, <2>2 DEF Roomy
<1>4. CASE ~(Cardinality(some) < MaxTracked)
  <2>1. PICK gone \in most : kept = [p \in some \ {gone} |-> bucket[p]]
    BY Zenon, <1>4 DEF MakeRoom, Tracked
  <2>2. some = Tracked
    <3>1. Cardinality(some) = Cardinality(Tracked)
      <4>1. Cardinality(some) <= Cardinality(Tracked)
        BY Zenon, <1>1, <1>2, FS_Subset
      <4> QED
        BY <1>1, <1>2, <1>4, <4>1, LimiterNumbers
    <3> HIDE DEF some
    <3> QED
      BY Zenon, <1>1, <1>2, <3>1, FS_Subset
  <2>3. gone \in some /\ \A q \in some : bucket[q] <= bucket[gone]
    OBVIOUS
  <2> HIDE DEF some, most
  <2>4. DOMAIN kept = some \ {gone} /\ \A p \in DOMAIN kept : kept[p] = bucket[p]
    BY Zenon, <2>1
  <2>5. Cardinality(DOMAIN kept) < MaxTracked
    <3>1. Cardinality(some \ {gone}) = Cardinality(some) - 1
      BY Zenon, <1>2, <2>3, FS_RemoveElement
    <3> QED
      BY <1>1, <1>2, <2>2, <2>4, <3>1, LimiterNumbers
  <2>6. \A p \in Tracked \ DOMAIN kept : bucket[p] < 1 => \A q \in Tracked : bucket[q] = 0
    BY <1>1, <2>2, <2>3, <2>4
  <2> QED
    BY Zenon, <2>2, <2>4, <2>5, <2>6 DEF Roomy
<1> QED
  BY Zenon, <1>3, <1>4

\* What a recorded failure does to the map: a token of the peer's goes, the
\* others keep theirs, or are forgotten with their guesses.
LEMMA FailureIsRecorded ==
    ASSUME LimiterTypes, NEW peer \in Peers, RecordFailure(peer)
    PROVE  /\ IsFiniteSet(Tracked') /\ Cardinality(Tracked') <= MaxTracked
           /\ Tracked' \subseteq Tracked \cup {peer} /\ peer \in Tracked'
           /\ bucket' \in [Tracked' -> 0..Burst] /\ guesses' \in [Peers -> Nat]
           /\ bucket'[peer] = IF peer \in Tracked THEN (IF bucket[peer] >= 1 THEN bucket[peer] - 1 ELSE 0)
                              ELSE Burst - 1
           /\ guesses'[peer] = IF peer \in Tracked THEN guesses[peer] + 1 ELSE 1
           /\ \A p \in Peers \ {peer} :
                IF p \in Tracked' THEN bucket'[p] = bucket[p] /\ guesses'[p] = guesses[p]
                ELSE guesses'[p] = 0
           /\ \A p \in Tracked \ Tracked' : bucket[p] < 1 => \A q \in Tracked : bucket[q] = 0
<1> DEFINE before == IF peer \in Tracked THEN bucket[peer] ELSE Burst
           next == Max({before - 1, 0})
           room == IF Cardinality(Tracked) >= MaxTracked /\ peer \notin Tracked
                   THEN MakeRoom(bucket) ELSE {bucket}
<1>1. PICK kept \in room :
        /\ bucket' = [p \in DOMAIN kept \cup {peer} |-> IF p = peer THEN next ELSE kept[p]]
        /\ guesses' = [p \in Peers |-> CASE p = peer -> IF p \in Tracked THEN guesses[p] + 1 ELSE 1
                                          [] p # peer /\ p \in DOMAIN kept -> guesses[p]
                                          [] OTHER -> 0]
  BY Zenon DEF RecordFailure
<1>2. /\ IsFiniteSet(Tracked) /\ Cardinality(Tracked) \in Nat /\ Cardinality(Tracked) <= MaxTracked
      /\ \A q \in Tracked : bucket[q] \in 0..Burst
      /\ guesses \in [Peers -> Nat] /\ Tracked \subseteq Peers
  BY Zenon, FS_CardinalityType DEF LimiterTypes
<1>3. /\ before \in 0..Burst /\ next \in 0..Burst
      /\ next = IF before >= 1 THEN before - 1 ELSE 0
  <2>1. before \in 0..Burst
    BY <1>2, LimiterNumbers
  <2> HIDE DEF before
  <2>2. before - 1 \in Int
    BY <2>1
  <2>3. next = IF before - 1 >= 0 THEN before - 1 ELSE 0
    BY Zenon, <2>2, TokensAreCapped
  <2> QED
    BY <2>1, <2>3, LimiterNumbers
<1>4. /\ DOMAIN kept \subseteq Tracked /\ \A p \in DOMAIN kept : kept[p] = bucket[p]
      /\ Cardinality(DOMAIN kept) < MaxTracked \/ peer \in DOMAIN kept
      /\ \A p \in Tracked \ DOMAIN kept : bucket[p] < 1 => \A q \in Tracked : bucket[q] = 0
  <2>1. CASE Cardinality(Tracked) >= MaxTracked /\ peer \notin Tracked
    <3>1. kept \in MakeRoom(bucket)
      BY Zenon, <2>1
    <3>2. Roomy(kept)
      BY Zenon, <2>1, <3>1, MakeRoomIsRoomy
    <3> QED
      BY Zenon, <3>2 DEF Roomy
  <2>2. CASE ~(Cardinality(Tracked) >= MaxTracked /\ peer \notin Tracked)
    <3>1. kept = bucket
      BY Zenon, <2>2
    <3> QED
      BY <1>2, <2>2, <3>1, LimiterNumbers DEF Tracked
  <2> QED
    BY Zenon, <2>1, <2>2
<1> HIDE DEF next, room
<1>5. Tracked' = DOMAIN kept \cup {peer}
  BY Zenon, <1>1 DEF Tracked
<1>6. IsFiniteSet(Tracked') /\ Cardinality(Tracked') <= MaxTracked
  <2>1. IsFiniteSet(DOMAIN kept) /\ Cardinality(DOMAIN kept) \in Nat
        /\ Cardinality(DOMAIN kept) <= Cardinality(Tracked)
    BY Zenon, <1>2, <1>4, FS_Subset, FS_CardinalityType
  <2>2. /\ IsFiniteSet(DOMAIN kept \cup {peer})
        /\ Cardinality(DOMAIN kept \cup {peer}) =
             IF peer \in DOMAIN kept THEN Cardinality(DOMAIN kept) ELSE Cardinality(DOMAIN kept) + 1
    BY Zenon, <2>1, FS_AddElement
  <2> QED
    BY <1>2, <1>4, <1>5, <2>1, <2>2, LimiterNumbers
<1>7. \A p \in Tracked' : bucket'[p] = IF p = peer THEN next ELSE bucket[p]
  BY Zenon, <1>1, <1>4, <1>5
<1>8. bucket' \in [Tracked' -> 0..Burst]
  <2>1. \A p \in Tracked' : bucket'[p] \in 0..Burst
    BY Zenon, <1>2, <1>3, <1>4, <1>5, <1>7
  <2> QED
    BY Zenon, <1>1, <1>5, <2>1
<1>9. /\ guesses' \in [Peers -> Nat]
      /\ guesses'[peer] = IF peer \in Tracked THEN guesses[peer] + 1 ELSE 1
      /\ \A p \in Peers \ {peer} : guesses'[p] = IF p \in DOMAIN kept THEN guesses[p] ELSE 0
  BY <1>1, <1>2
<1>10. bucket'[peer] = IF peer \in Tracked THEN (IF bucket[peer] >= 1 THEN bucket[peer] - 1 ELSE 0)
                       ELSE Burst - 1
  BY Zenon, <1>3, <1>5, <1>7, LimiterNumbers
<1>11. \A p \in Peers \ {peer} :
         IF p \in Tracked' THEN bucket'[p] = bucket[p] /\ guesses'[p] = guesses[p]
         ELSE guesses'[p] = 0
  BY Zenon, <1>5, <1>7, <1>9
<1>12. \A p \in Tracked \ Tracked' : bucket[p] < 1 => \A q \in Tracked : bucket[q] = 0
  BY Zenon, <1>4, <1>5
<1> QED
  BY Zenon, <1>4, <1>5, <1>6, <1>8, <1>9, <1>10, <1>11, <1>12

\* A session that moves leaves the limiter's account as it is.
LEMMA MoveIsCalm ==
    ASSUME SInv, LInv, NEW c \in Slots, Moves(c), on' = on, UNCHANGED <<bucket, guesses, ticks>>
    PROVE  LInv'
<1>1. conn'[c].st # "verify" /\ \A d \in Slots \ {c} : conn'[d] = conn[d]
  BY MoveKeeps
<1>2. \A p \in Peers : Verifying(p)' \subseteq Verifying(p)
  BY Zenon, <1>1 DEF Verifying
<1> QED
  BY Zenon, <1>2, CalmKeeps

-----------------------------------------------------------------------------
(* The two locks of an authentication.                                     *)

\* has_capacity: a session that goes on to verify does so on a bucket that is
\* not empty, which owes nothing.
LEMMA CheckKeeps ==
    ASSUME SInv, LInv, NEW c \in Slots, CheckCapacity(c), on' = on
    PROVE  SInv' /\ LInv'
<1>1. conn[c].st = "capacity" /\ UNCHANGED <<bucket, guesses, ticks>>
  BY Zenon DEF CheckCapacity
<1>2. CASE HasCapacity(conn[c].peer)
  <2> DEFINE s == Session("verify", conn[c].peer, conn[c].proto, conn[c].knew, conn[c].verdicts,
                          <<>>, Malformed)
  <2>1. Become(c, s)
    BY Zenon, <1>2 DEF CheckCapacity, Go
  <2>2. /\ s.st = "verify" /\ s.peer = conn[c].peer /\ s.knew = conn[c].knew
        /\ s.verdicts = conn[c].verdicts
    BY Zenon DEF Session
  <2> HIDE DEF s
  <2>3. SessionOK(on, conn[c])
    BY Zenon DEF SInv
  <2>4. SessionOK(on, s)
    BY Zenon, <1>1, <2>2, <2>3 DEF SessionOK, States, Negotiating, Granted
  <2>5. /\ DOMAIN conn' = Slots /\ conn'[c] = s
        /\ \A d \in Slots \ {c} : conn'[d] = conn[d]
    BY Zenon, <2>1 DEF SInv, Become
  <2>6. SInv'
    <3>1. \A d \in Slots : SessionOK(on, conn'[d])
      BY Zenon, <2>4, <2>5 DEF SInv
    <3> QED
      BY Zenon, <2>5, <3>1 DEF SInv
  <2>7. ASSUME NEW p \in Peers
        PROVE  Spent(p)'
    <3>1. CASE p = conn[c].peer
      <4>1. p \in Tracked => bucket[p] >= 1
        BY Zenon, <1>2, <3>1 DEF HasCapacity
      <4>2. Spent(p) /\ (p \in Tracked => bucket[p] \in Nat)
        BY DEF LInv, LimiterTypes
      <4>3. Tracked' = Tracked
        BY Zenon, <1>1 DEF Tracked
      <4> QED
        BY <1>1, <4>1, <4>2, <4>3 DEF Spent
    <3>2. CASE p # conn[c].peer
      <4>1. Verifying(p)' = Verifying(p)
        BY Zenon, <1>1, <2>2, <2>5, <3>2 DEF Verifying
      <4>2. Spent(p)
        BY Zenon DEF LInv
      <4> QED
        BY Zenon, <1>1, <4>1, <4>2 DEF Spent, Tracked
    <3> QED
      BY Zenon, <3>1, <3>2
  <2>8. LimiterTypes'
    BY Zenon, <1>1 DEF LInv, LimiterTypes, Tracked
  <2> QED
    BY Zenon, <2>6, <2>7, <2>8 DEF LInv
<1>3. CASE ~HasCapacity(conn[c].peer)
  <2>1. Go(c, "denying", conn[c].knew)
    BY Zenon, <1>3 DEF CheckCapacity
  <2>2. SInv' /\ conn'[c].st = "denying" /\ \A d \in Slots \ {c} : conn'[d] = conn[d]
    BY <1>1, <2>1, DenyingKeeps
  <2>3. \A p \in Peers : Verifying(p)' \subseteq Verifying(p)
    BY <2>2 DEF Verifying
  <2> QED
    BY Zenon, <1>1, <2>2, <2>3, CalmKeeps
<1> QED
  BY Zenon, <1>2, <1>3

\* record_failure takes a token, or what an empty bucket owed.
LEMMA VerifyKeeps ==
    ASSUME SInv, LInv, NEW c \in Slots, Verify(c), on' = on
    PROVE  SInv' /\ LInv'
<1>1. conn[c].st = "verify" /\ ticks' = ticks
  BY Zenon DEF Verify
<1>2. CASE conn[c].knew
  <2> DEFINE st == IF conn[c].proto = "socks5" THEN "request" ELSE "target"
  <2>1. Go(c, st, conn[c].knew) /\ UNCHANGED <<bucket, guesses, ticks>>
    BY Zenon, <1>2 DEF Verify, Authorized
  <2>2. st \in States \ {"none", "over", "verify", "denying", "connecting", "relay"}
    BY Zenon DEF States, Negotiating, Waiting, Reading, Granted
  <2> HIDE DEF st
  <2>3. Moves(c)
    BY Zenon, <1>1, <1>2, <2>1, <2>2, GoMoves DEF Go
  <2> QED
    BY Zenon, <2>1, <2>3, MoveKeeps, MoveIsCalm
<1>3. CASE ~conn[c].knew
  <2> DEFINE peer == conn[c].peer
  <2>1. Go(c, "denying", FALSE) /\ RecordFailure(peer)
    BY Zenon, <1>3 DEF Verify
  <2>3. SInv' /\ conn'[c].st = "denying" /\ \A d \in Slots \ {c} : conn'[d] = conn[d]
    BY Zenon, <1>1, <2>1, DenyingKeeps
  <2>4. PICK q \in Peers : q = peer
    BY Zenon, <1>1 DEF SInv, SessionOK
  <2>5. RecordFailure(q)
    BY Zenon, <2>1, <2>4
  <2>6. LimiterTypes /\ \A p \in Peers : Spent(p)
    BY Zenon DEF LInv
  <2>7. /\ IsFiniteSet(Tracked') /\ Cardinality(Tracked') <= MaxTracked
        /\ Tracked' \subseteq Tracked \cup {q} /\ q \in Tracked'
        /\ bucket' \in [Tracked' -> 0..Burst] /\ guesses' \in [Peers -> Nat]
        /\ bucket'[q] = IF q \in Tracked THEN (IF bucket[q] >= 1 THEN bucket[q] - 1 ELSE 0)
                        ELSE Burst - 1
        /\ guesses'[q] = IF q \in Tracked THEN guesses[q] + 1 ELSE 1
        /\ \A p \in Peers \ {q} :
             IF p \in Tracked' THEN bucket'[p] = bucket[p] /\ guesses'[p] = guesses[p]
             ELSE guesses'[p] = 0
    BY Zenon, <2>5, <2>6, FailureIsRecorded
  <2>8. LimiterTypes'
    BY Zenon, <1>1, <2>6, <2>7 DEF LimiterTypes
  <2>9. Verifying(q)' = Verifying(q) \ {c} /\ c \in Verifying(q) /\ c \notin Verifying(q)'
    BY <1>1, <2>3, <2>4 DEF Verifying
  <2>10. Cardinality(Verifying(q)) \in Nat /\ Cardinality(Verifying(q)') \in Nat
         /\ Cardinality(Verifying(q)') = Cardinality(Verifying(q)) - 1
         /\ Cardinality(Verifying(q)') <= Spare
    <3>1. IsFiniteSet(Verifying(q)) /\ Cardinality(Verifying(q)) \in Nat
      BY Zenon, VerifyingIsFinite
    <3>2. Verifying(q)' \subseteq Slots \ {c}
      BY Zenon, <2>9 DEF Verifying
    <3>3. IsFiniteSet(Slots \ {c}) /\ Cardinality(Slots \ {c}) = Spare
      BY Zenon, LimiterNumbers, FS_RemoveElement DEF Spare
    <3>4. Cardinality(Verifying(q)') <= Spare
      BY Zenon, <3>2, <3>3, FS_Subset
    <3> QED
      BY Zenon, <2>9, <3>1, <3>4, FS_RemoveElement, FS_CardinalityType
  <2>11. Spent(q)'
    <3> DEFINE paid == ticks * Spare
    <3>1. /\ ticks \in Nat /\ guesses[q] \in Nat /\ Spare \in Nat /\ Burst \in Nat /\ Burst >= 1
          /\ q \in Tracked => bucket[q] \in 0..Burst
      BY Zenon, <2>6, LimiterNumbers DEF LimiterTypes
    <3>2. paid \in Nat /\ (ticks + 1) * Spare = paid + Spare
      BY <3>1
    <3>3. Spent(q)
      BY Zenon, <2>6
    <3>4. bucket'[q] >= 1 => guesses'[q] + bucket'[q] <= Burst + ticks + paid
      <4>1. CASE q \notin Tracked
        <5> HIDE DEF paid
        <5> QED
          BY SMTT(30), <2>7, <3>1, <3>2, <4>1
      <4>2. CASE q \in Tracked /\ bucket[q] >= 1
        <5>1. guesses[q] + bucket[q] <= Burst + ticks + paid
          BY Zenon, <3>3, <4>2 DEF Spent
        <5> HIDE DEF paid
        <5> QED
          BY <2>7, <3>1, <3>2, <4>2, <5>1
      <4>3. CASE q \in Tracked /\ ~(bucket[q] >= 1)
        BY <2>7, <4>3
      <4> QED
        BY Zenon, <4>1, <4>2, <4>3
    <3>5. bucket'[q] = 0 =>
            guesses'[q] + Cardinality(Verifying(q)') <= Burst + ticks + (paid + Spare)
      <4>1. CASE q \notin Tracked
        <5> HIDE DEF paid
        <5> QED
          BY <2>7, <2>10, <3>1, <3>2, <4>1
      <4>2. CASE q \in Tracked /\ bucket[q] >= 1
        <5>1. guesses[q] + bucket[q] <= Burst + ticks + paid
          BY Zenon, <3>3, <4>2 DEF Spent
        <5> HIDE DEF paid
        <5> QED
          BY <2>7, <2>10, <3>1, <3>2, <4>2, <5>1
      <4>3. CASE q \in Tracked /\ ~(bucket[q] >= 1)
        <5>1. guesses[q] + Cardinality(Verifying(q)) <= Burst + ticks + (paid + Spare)
          BY <3>1, <3>2, <3>3, <4>3 DEF Spent
        <5> HIDE DEF paid
        <5> QED
          BY <2>7, <2>10, <3>1, <3>2, <4>3, <5>1
      <4> QED
        BY Zenon, <4>1, <4>2, <4>3
    <3> QED
      BY Zenon, <1>1, <2>7, <3>2, <3>4, <3>5 DEF Spent
  <2>12. ASSUME NEW p \in Peers \ {q}
         PROVE  Spent(p)'
    <3>1. Verifying(p)' = Verifying(p)
      BY Zenon, <1>1, <2>3, <2>4 DEF Verifying
    <3>2. p \in Tracked' => p \in Tracked
      BY Zenon, <2>7
    <3>3. Spent(p)
      BY Zenon, <2>6
    <3> QED
      BY Zenon, <1>1, <2>7, <3>1, <3>2, <3>3 DEF Spent
  <2> QED
    BY Zenon, <2>3, <2>8, <2>11, <2>12 DEF LInv
<1> QED
  BY Zenon, <1>2, <1>3

-----------------------------------------------------------------------------
(* Sums over finite sets, by induction over their subsets.                 *)

\* Of any sets of elements of a finite set, one is minimal.
LEMMA MinimalSet ==
    ASSUME NEW S, IsFiniteSet(S), NEW T \in SUBSET SUBSET S, T # {}
    PROVE  \E U \in T : \A V \in T : V \subseteq U => V = U
<1>1. IsWellFoundedOn(StrictSubsetOrdering(S), SUBSET S)
  BY FS_StrictSubsetOrderingWellFounded, FS_FiniteSubsetsOfFinite
<1>2. PICK U \in T : \A V \in T : ~(<<V, U>> \in StrictSubsetOrdering(S))
  BY <1>1, WFMin
<1> QED
  BY Zenon, <1>2 DEF StrictSubsetOrdering

\* The element a fold takes out of a set first.
Some(s) == CHOOSE x \in s : TRUE

\* h adds up f over every subset of S.
Adds(h, f, S) == h = [s \in SUBSET S |-> IF s = {} THEN 0 ELSE f[Some(s)] + h[s \ {Some(s)}]]

\* Two such functions agree where both are defined.
LEMMA AddsAgree ==
    ASSUME NEW S, IsFiniteSet(S), NEW f, NEW U \in SUBSET S, NEW V \in SUBSET S, U \subseteq V,
           NEW g, Adds(g, f, U), NEW h, Adds(h, f, V)
    PROVE  \A s \in SUBSET U : g[s] = h[s]
<1> DEFINE Bad == {s \in SUBSET U : g[s] # h[s]}
<1> SUFFICES ASSUME Bad # {} PROVE FALSE
  OBVIOUS
<1>0. Bad \in SUBSET SUBSET S
  OBVIOUS
<1>1. PICK s \in Bad : \A t \in Bad : t \subseteq s => t = s
  <2> HIDE DEF Bad
  <2> QED
    BY <1>0, MinimalSet
<1>2. s = {} => g[s] = h[s]
  BY <1>1 DEF Adds
<1>3. s # {} => /\ g[s] = f[Some(s)] + g[s \ {Some(s)}]
                /\ h[s] = f[Some(s)] + h[s \ {Some(s)}]
  BY Zenon, <1>1 DEF Adds
<1>4. s # {} => Some(s) \in s
  BY DEF Some
<1>5. s # {} => g[s \ {Some(s)}] = h[s \ {Some(s)}]
  BY <1>1, <1>4
<1> QED
  BY <1>1, <1>2, <1>3, <1>5

\* There is one for every finite set.
LEMMA AddsExists ==
    ASSUME NEW S, IsFiniteSet(S), NEW f
    PROVE  \E h : Adds(h, f, S)
<1> DEFINE Bad == {U \in SUBSET S : ~\E h : Adds(h, f, U)}
<1> SUFFICES ASSUME Bad # {} PROVE FALSE
  OBVIOUS
<1>0. Bad \in SUBSET SUBSET S
  OBVIOUS
<1>1. PICK U \in Bad : \A V \in Bad : V \subseteq U => V = U
  <2> HIDE DEF Bad
  <2> QED
    BY <1>0, MinimalSet
<1> DEFINE G(V) == (CHOOSE h : Adds(h, f, V))[V]
           g == [s \in SUBSET U |-> IF s = {} THEN 0 ELSE f[Some(s)] + G(s \ {Some(s)})]
<1>2. \A V \in SUBSET U : V # U => Adds(CHOOSE h : Adds(h, f, V), f, V)
  BY <1>1
<1>3. ASSUME NEW V \in SUBSET U, V # U PROVE g[V] = G(V)
  <2> DEFINE k == CHOOSE h : Adds(h, f, V)
  <2>1. Adds(k, f, V)
    BY <1>2, <1>3
  <2>2. CASE V = {}
    BY Zenon, <2>1, <2>2 DEF Adds
  <2>3. CASE V # {}
    <3> DEFINE W == V \ {Some(V)}
    <3>1. Some(V) \in V
      BY <2>3 DEF Some
    <3>2. W \in SUBSET U /\ W # U /\ W \subseteq V /\ W \in SUBSET S /\ V \in SUBSET S
      BY <3>1
    <3>3. PICK l : l = CHOOSE h : Adds(h, f, W)
      OBVIOUS
    <3>4. Adds(l, f, W)
      BY Zenon, <1>2, <3>2, <3>3
    <3> HIDE DEF k
    <3>5. l[W] = k[W]
      <4> HIDE DEF W
      <4> QED
        BY <2>1, <3>2, <3>4, AddsAgree
    <3>6. k[V] = f[Some(V)] + k[W]
      BY Zenon, <2>1, <2>3 DEF Adds
    <3>7. g[V] = f[Some(V)] + l[W]
      BY <2>3, <3>3, <3>2
    <3> QED
      BY <3>5, <3>6, <3>7 DEF k
  <2> QED
    BY <2>2, <2>3
<1>4. \A s \in SUBSET U : s # {} => g[s \ {Some(s)}] = G(s \ {Some(s)})
  <2> SUFFICES ASSUME NEW s \in SUBSET U, s # {} PROVE g[s \ {Some(s)}] = G(s \ {Some(s)})
    BY Zenon
  <2>1. Some(s) \in s
    BY DEF Some
  <2> HIDE DEF g, G
  <2> QED
    BY <1>3, <2>1
<1>5. Adds(g, f, U)
  <2>1. g = [s \in SUBSET U |-> IF s = {} THEN 0 ELSE f[Some(s)] + G(s \ {Some(s)})]
    OBVIOUS
  <2> HIDE DEF g, G
  <2> QED
    BY Zenon, <1>4, <2>1 DEF Adds
<1> QED
  BY <1>1, <1>5

\* SumFunction is what such a function has for the whole domain.
LEMMA SumIs ==
    ASSUME NEW S, IsFiniteSet(S), NEW f, S = DOMAIN f
    PROVE  \E h : Adds(h, f, S) /\ SumFunction(f) = h[S]
<1> DEFINE h == CHOOSE g : g = [s \in SUBSET S |-> IF s = {} THEN 0 ELSE f[Some(s)] + g[s \ {Some(s)}]]
<1>1. Adds(h, f, S)
  <2>1. \E g : g = [s \in SUBSET S |-> IF s = {} THEN 0 ELSE f[Some(s)] + g[s \ {Some(s)}]]
    <3>1. PICK g : Adds(g, f, S)
      BY AddsExists
    <3> QED
      BY <3>1, Zenon DEF Adds
  <2>2. h = [s \in SUBSET S |-> IF s = {} THEN 0 ELSE f[Some(s)] + h[s \ {Some(s)}]]
    BY <2>1, Zenon
  <2> QED
    BY <2>2, Zenon DEF Adds
<1>2. SumFunction(f) = h[S]
  BY DEF SumFunction, SumFunctionOnSet, FoldFunctionOnSet, MapThenFoldSet, Some
<1> QED
  BY Zenon, <1>1, <1>2

\* When one term grows by one at most and none of the others does, so does the
\* sum.
LEMMA SumGrows ==
    ASSUME NEW S, IsFiniteSet(S), NEW f \in [S -> Nat], NEW g \in [S -> Nat], NEW p \in S,
         g[p] <= f[p] + 1, \A q \in S \ {p} : g[q] <= f[q]
    PROVE  SumFunction(f) \in Nat /\ SumFunction(g) \in Nat /\ SumFunction(g) <= SumFunction(f) + 1
<1>1. PICK a : Adds(a, f, S) /\ SumFunction(f) = a[S]
  <2>1. S = DOMAIN f
    OBVIOUS
  <2> QED
    BY <2>1, SumIs
<1>2. PICK b : Adds(b, g, S) /\ SumFunction(g) = b[S]
  <2>1. S = DOMAIN g
    OBVIOUS
  <2> QED
    BY <2>1, SumIs
<1> DEFINE Good(s) == a[s] \in Nat /\ b[s] \in Nat /\ b[s] <= a[s] + IF p \in s THEN 1 ELSE 0
           Bad == {s \in SUBSET S : ~Good(s)}
<1> SUFFICES ASSUME Bad # {} PROVE FALSE
  BY <1>1, <1>2
<1>3. Bad \in SUBSET SUBSET S
  OBVIOUS
<1>4. PICK s \in Bad : \A t \in Bad : t \subseteq s => t = s
  <2> HIDE DEF Bad
  <2> QED
    BY <1>3, MinimalSet
<1>5. CASE s = {}
  <2>1. a[s] = 0 /\ b[s] = 0
    BY <1>1, <1>2, <1>5 DEF Adds
  <2> QED
    BY <1>4, <1>5, <2>1
<1>6. CASE s # {}
  <2>1. PICK x : x = Some(s)
    OBVIOUS
  <2>2. x \in s /\ x \in S /\ s \in SUBSET S
    BY <1>4, <1>6, <2>1 DEF Some
  <2>3. PICK t : t = s \ {x}
    BY Zenon
  <2>4. a[s] = f[x] + a[t] /\ b[s] = g[x] + b[t]
    BY Zenon, <1>1, <1>2, <1>6, <2>1, <2>2, <2>3 DEF Adds
  <2>5. Good(t)
    BY <1>4, <2>2, <2>3
  <2>6. f[x] \in Nat /\ g[x] \in Nat /\ g[x] <= f[x] + IF x = p THEN 1 ELSE 0
    BY <2>2
  <2>7. p \in s <=> (x = p \/ p \in t)
    BY <2>2, <2>3
  <2>8. ~(x = p /\ p \in t)
    BY <2>3
  <2>9. Good(s)
    BY <2>4, <2>5, <2>6, <2>7, <2>8
  <2> QED
    BY <1>4, <2>9
<1> QED
  BY <1>5, <1>6

\* Zeros add up to zero.
LEMMA SumOfNothing ==
    ASSUME NEW S, IsFiniteSet(S), NEW f, f = [s \in S |-> 0]
    PROVE  SumFunction(f) = 0
<1>1. PICK a : Adds(a, f, S) /\ SumFunction(f) = a[S]
  <2>1. S = DOMAIN f
    OBVIOUS
  <2> QED
    BY <2>1, SumIs
<1> DEFINE Bad == {s \in SUBSET S : a[s] # 0}
<1> SUFFICES ASSUME Bad # {} PROVE FALSE
  BY <1>1
<1>3. Bad \in SUBSET SUBSET S
  OBVIOUS
<1>4. PICK s \in Bad : \A t \in Bad : t \subseteq s => t = s
  <2> HIDE DEF Bad
  <2> QED
    BY <1>3, MinimalSet
<1>5. s # {} => Some(s) \in s
  BY DEF Some
<1>6. a[s] = IF s = {} THEN 0 ELSE f[Some(s)] + a[s \ {Some(s)}]
  BY Zenon, <1>1, <1>4 DEF Adds
<1>7. s # {} => f[Some(s)] = 0 /\ a[s \ {Some(s)}] = 0
  BY <1>4, <1>5
<1> QED
  BY <1>4, <1>6, <1>7

-----------------------------------------------------------------------------
(* The failures the user is told of.                                       *)

\* Whatever the limiter remembers has been reported, is about to be, or was
\* denied to a client that did not take the denial; and what has been reported
\* or lost and what is still served was opened once each.
Told ==
    /\ failures \in Nat /\ unheard \in Nat /\ opened \in Nat /\ SumFunction(guesses) \in Nat
    /\ SumFunction(guesses) <= failures + unheard + Cardinality(Denied)
    /\ failures + unheard + Cardinality(Served) <= opened

\* What an element adds to the size of a set.
Weight(c, S) == IF c \in S THEN 1 ELSE 0

\* Two sets of slots that differ in one slot at most.
LEMMA CountAt ==
    ASSUME NEW A \in SUBSET Slots, NEW B \in SUBSET Slots, NEW c, A \ {c} = B \ {c}
    PROVE  /\ Cardinality(A) \in Nat /\ Cardinality(B) \in Nat
           /\ Cardinality(A) + Weight(c, B) = Cardinality(B) + Weight(c, A)
<1>1. IsFiniteSet(A) /\ IsFiniteSet(B)
  BY Zenon, ProxySessionAssumption, FS_Subset
<1>2. Cardinality(A) \in Nat /\ Cardinality(B) \in Nat
  BY Zenon, <1>1, FS_CardinalityType
<1>3. Cardinality(A \ {c}) = IF c \in A THEN Cardinality(A) - 1 ELSE Cardinality(A)
  BY Zenon, <1>1, FS_RemoveElement
<1>4. Cardinality(B \ {c}) = IF c \in B THEN Cardinality(B) - 1 ELSE Cardinality(B)
  BY Zenon, <1>1, FS_RemoveElement
<1> QED
  BY <1>2, <1>3, <1>4 DEF Weight

\* The account of a step of one slot: `more` is recorded, `told` reported and
\* `lost` not heard, and `new` sessions are opened.
LEMMA SlotTells ==
    ASSUME Told, NEW c \in Slots, \A d \in Slots \ {c} : conn'[d] = conn[d],
           NEW told \in {0, 1}, NEW lost \in {0, 1}, NEW new \in {0, 1}, NEW more \in {0, 1},
           failures' = failures + told, unheard' = unheard + lost, opened' = opened + new,
           SumFunction(guesses') \in Nat, SumFunction(guesses') <= SumFunction(guesses) + more,
           more + Weight(c, Denied) <= told + lost + Weight(c, Denied'),
           told + lost + Weight(c, Served') <= new + Weight(c, Served)
    PROVE  Told'
<1>1. /\ Denied \in SUBSET Slots /\ Denied' \in SUBSET Slots
      /\ Served \in SUBSET Slots /\ Served' \in SUBSET Slots
      /\ Denied \ {c} = Denied' \ {c} /\ Served \ {c} = Served' \ {c}
  BY DEF Denied, Served
<1>2. /\ Cardinality(Denied) \in Nat /\ Cardinality(Denied') \in Nat
      /\ Cardinality(Denied) + Weight(c, Denied') = Cardinality(Denied') + Weight(c, Denied)
  BY Zenon, <1>1, CountAt
<1>3. /\ Cardinality(Served) \in Nat /\ Cardinality(Served') \in Nat
      /\ Cardinality(Served) + Weight(c, Served') = Cardinality(Served') + Weight(c, Served)
  BY Zenon, <1>1, CountAt
<1>4. /\ Weight(c, Denied) \in {0, 1} /\ Weight(c, Denied') \in {0, 1}
      /\ Weight(c, Served) \in {0, 1} /\ Weight(c, Served') \in {0, 1}
  BY Zenon DEF Weight
<1> QED
  BY <1>2, <1>3, <1>4 DEF Told

\* What a slot weighs follows from its state.
LEMMA Weighs ==
    ASSUME NEW c \in Slots
    PROVE  /\ Weight(c, Denied) = IF conn[c].st = "denying" THEN 1 ELSE 0
           /\ Weight(c, Denied') = IF conn'[c].st = "denying" THEN 1 ELSE 0
           /\ Weight(c, Served) = IF conn[c].st \in {"none", "over"} THEN 0 ELSE 1
           /\ Weight(c, Served') = IF conn'[c].st \in {"none", "over"} THEN 0 ELSE 1
<1> QED
  BY Zenon DEF Weight, Denied, Served

\* Whoever leaves or takes too long is counted neither, and is not heard of when
\* it was being denied.
LEMMA LeavingTells ==
    ASSUME SInv, Told, NEW c \in Slots, on' = on, HandshakeTimeout(c) \/ ClientLeaves(c)
    PROVE  Told'
<1>1. Moves(c)
  BY Zenon, TimeoutMoves, ClientMoves DEF ClientStep
<1>2. conn'[c].st # "denying" /\ \A d \in Slots \ {c} : conn'[d] = conn[d]
  BY <1>1, MoveKeeps
<1>3. conn[c].st \notin {"none", "over"}
  BY Zenon DEF HandshakeTimeout, ClientLeaves, Waiting, Reading
<1>4. /\ UNCHANGED <<guesses, failures, opened>> /\ Unheard(c)
  BY Zenon DEF HandshakeTimeout, ClientLeaves
<1>5. \E verdict : Over(c, verdict)
  BY Zenon DEF HandshakeTimeout, ClientLeaves
<1>6. conn'[c].st = "over"
  BY <1>5 DEF Over, Become, Session, SInv
<1>7. /\ failures \in Nat /\ unheard \in Nat /\ opened \in Nat
      /\ SumFunction(guesses) \in Nat /\ SumFunction(guesses') = SumFunction(guesses)
  BY Zenon, <1>4 DEF Told
<1>8. PICK lost \in {0, 1} : lost = IF conn[c].st = "denying" THEN 1 ELSE 0
  BY Zenon
<1>9. /\ failures' = failures + 0 /\ unheard' = unheard + lost /\ opened' = opened + 0
      /\ SumFunction(guesses') \in Nat /\ SumFunction(guesses') <= SumFunction(guesses) + 0
  BY <1>4, <1>7, <1>8 DEF Unheard
<1>10. /\ 0 + Weight(c, Denied) <= 0 + lost + Weight(c, Denied')
       /\ 0 + lost + Weight(c, Served') <= 0 + Weight(c, Served)
  BY <1>3, <1>6, <1>8, Weighs
<1> QED
  BY <1>2, <1>9, <1>10, SlotTells

\* A step that neither records, nor reports, nor opens.
LEMMA QuietTells ==
    ASSUME Told, NEW c \in Slots, \A d \in Slots \ {c} : conn'[d] = conn[d],
           UNCHANGED <<guesses, failures, unheard, opened>>,
           conn[c].st \notin {"none", "over", "denying"}
    PROVE  Told'
<1>1. /\ failures \in Nat /\ unheard \in Nat /\ opened \in Nat
      /\ SumFunction(guesses) \in Nat /\ SumFunction(guesses') = SumFunction(guesses)
  BY Zenon DEF Told
<1>2. /\ failures' = failures + 0 /\ unheard' = unheard + 0 /\ opened' = opened + 0
      /\ SumFunction(guesses') \in Nat /\ SumFunction(guesses') <= SumFunction(guesses) + 0
  BY <1>1
<1>3. /\ 0 + Weight(c, Denied) <= 0 + 0 + Weight(c, Denied')
      /\ 0 + 0 + Weight(c, Served') <= 0 + Weight(c, Served)
  BY Weighs
<1> QED
  BY <1>2, <1>3, SlotTells

\* A client's steps: the one that opens a session, those that leave, the others.
LEMMA ClientTells ==
    ASSUME SInv, Told, NEW c \in Slots, on' = on, ClientStep(c)
    PROVE  Told'
<1>1. conn'[c].st # "denying" /\ \A d \in Slots \ {c} : conn'[d] = conn[d]
  BY ClientMoves, MoveKeeps
<1>2. ASSUME NEW p \in Peers, Admit(c, p)
      PROVE  Told'
  <2>1. conn[c].st \in {"none", "over"} /\ UNCHANGED <<guesses, failures, unheard>>
        /\ opened' = opened + 1
    BY Zenon, <1>2 DEF Admit
  <2>2. /\ failures \in Nat /\ unheard \in Nat /\ opened \in Nat
        /\ SumFunction(guesses) \in Nat /\ SumFunction(guesses') = SumFunction(guesses)
    BY Zenon, <2>1 DEF Told
  <2>3. /\ failures' = failures + 0 /\ unheard' = unheard + 0
        /\ SumFunction(guesses') \in Nat /\ SumFunction(guesses') <= SumFunction(guesses) + 0
    BY <2>1, <2>2
  <2>4. /\ 0 + Weight(c, Denied) <= 0 + 0 + Weight(c, Denied')
        /\ 0 + 0 + Weight(c, Served') <= 1 + Weight(c, Served)
    BY <2>1, Weighs
  <2> QED
    BY <1>1, <2>1, <2>3, <2>4, SlotTells
<1>3. CASE ClientLeaves(c)
  BY Zenon, <1>3, LeavingTells
<1>4. CASE ~ClientLeaves(c) /\ ~\E p \in Peers : Admit(c, p)
  <2>1. /\ UNCHANGED <<guesses, failures, unheard, opened>>
        /\ conn[c].st \in {"dispatch", "greet", "auth", "request", "head"}
    BY Zenon, <1>4 DEF ClientStep, Dispatch, Greet, ReadCredentials, Request, ReadHead
  <2> QED
    BY <1>1, <2>1, QuietTells
<1> QED
  BY Zenon, <1>2, <1>3, <1>4

\* The session's own steps: the capacity check may deny, the verification records
\* and denies, and the denial is reported when it has been written.
LEMMA SessionTells ==
    ASSUME SInv, LInv, Told, NEW c \in Slots, on' = on, SessionStep(c)
    PROVE  Told'
<1>1. CASE CheckCapacity(c)
  <2>1. /\ conn[c].st = "capacity" /\ UNCHANGED <<guesses, failures, unheard, opened>>
        /\ \E st : Go(c, st, conn[c].knew)
    BY Zenon, <1>1 DEF CheckCapacity
  <2>2. \A d \in Slots \ {c} : conn'[d] = conn[d]
    BY Zenon, <2>1 DEF Go, Become, SInv
  <2> QED
    BY <2>1, <2>2, QuietTells
<1>2. CASE Verify(c)
  <2>1. /\ conn[c].st = "verify" /\ UNCHANGED <<failures, unheard, opened>>
    BY Zenon, <1>2 DEF Verify
  <2>2. CASE conn[c].knew
    <3>1. guesses' = guesses /\ \E st : Go(c, st, conn[c].knew)
      BY Zenon, <1>2, <2>2 DEF Verify, Authorized
    <3>2. \A d \in Slots \ {c} : conn'[d] = conn[d]
      BY Zenon, <3>1 DEF Go, Become, SInv
    <3> QED
      BY <2>1, <3>1, <3>2, QuietTells
  <2>3. CASE ~conn[c].knew
    <3>1. RecordFailure(conn[c].peer) /\ Go(c, "denying", FALSE)
      BY Zenon, <1>2, <2>3 DEF Verify
    <3>2. PICK q \in Peers : q = conn[c].peer
      BY Zenon, <2>1 DEF SInv, SessionOK
    <3>3. LimiterTypes /\ RecordFailure(q)
      BY Zenon, <3>1, <3>2 DEF LInv
    <3>4. /\ guesses \in [Peers -> Nat] /\ guesses' \in [Peers -> Nat]
          /\ guesses'[q] = guesses[q] + 1 \/ guesses'[q] = 1
          /\ \A p \in Peers \ {q} : guesses'[p] = guesses[p] \/ guesses'[p] = 0
      BY Zenon, <3>3, FailureIsRecorded DEF LimiterTypes
    <3>5. guesses'[q] <= guesses[q] + 1 /\ \A p \in Peers \ {q} : guesses'[p] <= guesses[p]
      BY <3>4
    <3>6. PICK f \in [Peers -> Nat] : f = guesses
      BY Zenon, <3>4
    <3>7. PICK g \in [Peers -> Nat] : g = guesses'
      BY Zenon, <3>4
    <3>8. SumFunction(g) \in Nat /\ SumFunction(g) <= SumFunction(f) + 1
      <4>1. g[q] <= f[q] + 1 /\ \A p \in Peers \ {q} : g[p] <= f[p]
        BY Zenon, <3>5, <3>6, <3>7
      <4>2. IsFiniteSet(Peers)
        BY Zenon, PeerAssumption
      <4> QED
        BY Zenon, <4>1, <4>2, SumGrows
    <3>9. SumFunction(guesses') \in Nat /\ SumFunction(guesses') <= SumFunction(guesses) + 1
      BY Zenon, <3>6, <3>7, <3>8
    <3>10. conn'[c].st = "denying" /\ \A d \in Slots \ {c} : conn'[d] = conn[d]
      BY Zenon, <2>1, <3>1, DenyingKeeps
    <3>11. failures' = failures + 0 /\ unheard' = unheard + 0 /\ opened' = opened + 0
      BY <2>1 DEF Told
    <3>12. /\ 1 + Weight(c, Denied) <= 0 + 0 + Weight(c, Denied')
           /\ 0 + 0 + Weight(c, Served') <= 0 + Weight(c, Served)
      BY <2>1, <3>10, Weighs
    <3> QED
      BY <3>9, <3>10, <3>11, <3>12, SlotTells
  <2> QED
    BY Zenon, <2>2, <2>3
<1>3. CASE Deny(c)
  <2>1. /\ conn[c].st = "denying" /\ UNCHANGED <<guesses, unheard, opened>>
        /\ failures' = failures + 1 /\ Over(c, Refused)
    BY Zenon, <1>3 DEF Deny
  <2>2. conn'[c].st = "over" /\ \A d \in Slots \ {c} : conn'[d] = conn[d]
    BY <2>1 DEF Over, Become, Session, SInv
  <2>3. /\ failures \in Nat /\ unheard \in Nat /\ opened \in Nat
        /\ SumFunction(guesses) \in Nat /\ SumFunction(guesses') = SumFunction(guesses)
    BY Zenon, <2>1 DEF Told
  <2>4. /\ unheard' = unheard + 0 /\ opened' = opened + 0
        /\ SumFunction(guesses') \in Nat /\ SumFunction(guesses') <= SumFunction(guesses) + 0
    BY <2>1, <2>3
  <2>5. /\ 0 + Weight(c, Denied) <= 1 + 0 + Weight(c, Denied')
        /\ 1 + 0 + Weight(c, Served') <= 0 + Weight(c, Served)
    BY <2>1, <2>2, Weighs
  <2> QED
    BY <2>1, <2>2, <2>4, <2>5, SlotTells
<1>4. CASE (\E d \in on.destinations : Target(c, d)) \/ Resolve(c) \/ Dial(c)
  <2>1. /\ UNCHANGED <<guesses, failures, unheard, opened>>
        /\ conn[c].st \in {"target", "resolve", "dial"}
    BY Zenon, <1>4 DEF Target, Resolve, Dial
  <2>2. \A d \in Slots \ {c} : conn'[d] = conn[d]
    BY <1>4, OwnStepMoves, MoveKeeps
  <2> QED
    BY <2>1, <2>2, QuietTells
<1> QED
  BY Zenon, <1>1, <1>2, <1>3, <1>4 DEF SessionStep

\* The account survives every step.
LEMMA StepTells ==
    ASSUME SInv, LInv, Told, [Next]_vars
    PROVE  Told'
<1>1. ASSUME on' = on, NEW c \in Slots, RemoteStep(c)
      PROVE  Told'
  <2>1. /\ UNCHANGED <<guesses, failures, unheard, opened>>
        /\ conn[c].st \in {"lookup", "connecting"}
    BY Zenon, <1>1 DEF RemoteStep, Answered, ConnectFails, Connected
  <2>2. \A d \in Slots \ {c} : conn'[d] = conn[d]
    BY <1>1, RemoteMoves, MoveKeeps
  <2> QED
    BY <2>1, <2>2, QuietTells
<1>2. ASSUME on' = on, NEW c \in Slots, LookupFails(c) \/ DialUpstreamTimeout(c)
      PROVE  Told'
  <2>1. /\ UNCHANGED <<guesses, failures, unheard, opened>>
        /\ conn[c].st \in {"resolve", "lookup", "dial", "connecting"}
    BY Zenon, <1>2 DEF LookupFails, DialUpstreamTimeout
  <2>2. \A d \in Slots \ {c} : conn'[d] = conn[d]
    BY <1>2, TimeoutMoves, MoveKeeps
  <2> QED
    BY <2>1, <2>2, QuietTells
<1>3. ASSUME UNCHANGED <<conn, guesses, failures, unheard, opened>>
      PROVE  Told'
  BY Zenon, <1>3 DEF Told, Denied, Served
<1>4. CASE Tick \/ TunnelReplaced
  BY Zenon, <1>3, <1>4 DEF Tick, TunnelReplaced
<1>5. CASE UNCHANGED vars
  BY Zenon, <1>3, <1>5 DEF vars
<1> QED
  BY Zenon, <1>1, <1>2, <1>4, <1>5, ClientTells, SessionTells, LeavingTells DEF Next, Step

-----------------------------------------------------------------------------
(* The theorems.                                                           *)

\* Both invariants survive every step.
LEMMA StepKeeps ==
    ASSUME SInv, LInv, [Next]_vars
    PROVE  SInv' /\ LInv'
<1>1. ASSUME on' = on, NEW c \in Slots, Moves(c) /\ UNCHANGED <<bucket, guesses, ticks>>
      PROVE  SInv' /\ LInv'
  BY Zenon, <1>1, MoveKeeps, MoveIsCalm
<1>2. ASSUME on' = on, NEW c \in Slots, ClientStep(c) \/ RemoteStep(c)
      PROVE  SInv' /\ LInv'
  BY Zenon, <1>1, <1>2, ClientMoves, RemoteMoves
<1>3. ASSUME on' = on, NEW c \in Slots, SessionStep(c)
      PROVE  SInv' /\ LInv'
  <2>1. CASE CheckCapacity(c)
    BY Zenon, <1>3, <2>1, CheckKeeps
  <2>2. CASE Verify(c)
    BY Zenon, <1>3, <2>2, VerifyKeeps
  <2>3. CASE (\E d \in on.destinations : Target(c, d)) \/ Resolve(c) \/ Dial(c) \/ Deny(c)
    BY Zenon, <1>1, <1>3, <2>3, OwnStepMoves
  <2> QED
    BY Zenon, <1>3, <2>1, <2>2, <2>3 DEF SessionStep
<1>4. ASSUME on' = on, NEW c \in Slots,
             HandshakeTimeout(c) \/ LookupFails(c) \/ DialUpstreamTimeout(c)
      PROVE  SInv' /\ LInv'
  BY Zenon, <1>1, <1>4, TimeoutMoves
<1>5. CASE on' = on /\ Tick
  <2>1. conn' = conn
    BY Zenon, <1>5 DEF Tick
  <2>2. SInv'
    BY Zenon, <1>5, <2>1 DEF SInv
  <2> QED
    BY Zenon, <1>5, <2>2, TickKeeps
<1>6. ASSUME on' = on, conn' = conn, UNCHANGED <<bucket, guesses, ticks>>
      PROVE  SInv' /\ LInv'
  <2>1. \A p \in Peers : Verifying(p)' \subseteq Verifying(p)
    BY Zenon, <1>6 DEF Verifying
  <2>2. SInv'
    BY Zenon, <1>6 DEF SInv
  <2> QED
    BY Zenon, <1>6, <2>1, <2>2, CalmKeeps
<1>7. CASE on' = on /\ TunnelReplaced
  BY Zenon, <1>6, <1>7 DEF TunnelReplaced
<1>8. CASE UNCHANGED vars
  BY Zenon, <1>6, <1>8 DEF vars
<1> QED
  BY Zenon, <1>2, <1>3, <1>4, <1>5, <1>7, <1>8 DEF Next, Step

\* The listener starts without sessions and tracks nobody.
LEMMA InitKeeps == Init => SInv /\ LInv
<1> SUFFICES ASSUME Init
             PROVE  SInv /\ LInv
  OBVIOUS
<1>1. SInv
  BY Zenon DEF Init, SInv, SessionOK, Idle, Session, States, Granted
<1>2. Tracked = {}
  BY Zenon DEF Init, Tracked
<1>3. IsFiniteSet(Tracked) /\ Cardinality(Tracked) = 0
  BY Zenon, <1>2, FS_EmptySet
<1>4. LimiterTypes
  <2>1. bucket \in [Tracked -> 0..Burst]
    BY Zenon, <1>2 DEF Init
  <2> QED
    BY <1>2, <1>3, <2>1, LimiterNumbers DEF Init, LimiterTypes
<1>5. \A p \in Peers : Spent(p)
  BY Zenon, <1>2 DEF Init, Spent
<1> QED
  BY Zenon, <1>1, <1>4, <1>5 DEF LInv

\* In every reachable state the sessions are where they may be and the limiter's
\* account is in order.
THEOREM SessionInvariance == Spec => [](SInv /\ LInv)
<1>1. Init => SInv /\ LInv
  BY Zenon, InitKeeps
<1>2. (SInv /\ LInv) /\ [Next]_vars => (SInv /\ LInv)'
  BY Zenon, StepKeeps
<1> QED
  BY <1>1, <1>2, PTL DEF Spec

\* Whoever is dialled for was admitted and knew the credentials, and no socket
\* goes where the policy or the tunnel does not let it, whatever the listener,
\* the networks, the destinations and the answers (admit, authorize,
\* check_destination).
THEOREM DialledIsAllowedAlways == Spec => []DialledIsAllowed
<1>1. SInv => DialledIsAllowed
  <2> SUFFICES ASSUME SInv
               PROVE  DialledIsAllowed
    OBVIOUS
  <2>1. AdmittedIsAllowed
    <3> SUFFICES ASSUME NEW c \in Slots, conn[c].st \notin {"none", "over"}
                 PROVE  LET p == Canonical(conn[c].peer)
                        IN  \/ IsLoopback(p)
                            \/ \E cidr \in AllowedCidrs :
                                 /\ cidr.net.fam = p.fam
                                 /\ \A k \in 1..cidr.len :
                                      Bit(Octets(cidr.net), k) = Bit(Octets(p), k)
      BY Zenon DEF AdmittedIsAllowed
    <3>1. conn[c].peer \in Peers /\ IsPeerAllowed(AllowedCidrs, conn[c].peer)
      BY Zenon DEF SInv, SessionOK
    <3>2. conn[c].peer \in Addresses
      BY Zenon, <3>1, PeerAssumption
    <3> QED
      BY <3>1, <3>2, AllowedIsNamed, Zenon
  <2>2. \A c \in Slots : on.auth /\ conn[c].st \in Granted => conn[c].knew
    BY Zenon DEF SInv, SessionOK
  <2>3. \A c \in Slots : conn[c].st \in {"connecting", "relay"} => Carried(on, conn[c].to)
    BY Zenon DEF SInv, SessionOK
  <2> QED
    BY <2>1, <2>2, <2>3, Zenon DEF DialledIsAllowed, Carried
<1> QED
  BY <1>1, SessionInvariance, PTL

\* A client hears one verdict, and success only of a socket that is there
\* (handshake of socks5.rs and http.rs).
THEOREM VerdictsAreTrueAlways == Spec => []VerdictsAreTrue
<1>1. SInv => VerdictsAreTrue
  <2> SUFFICES ASSUME SInv, NEW c \in Slots
               PROVE  /\ Len(conn[c].verdicts) <= 1
                      /\ conn[c].verdicts = <<"success">> => conn[c].st \in {"relay", "over"}
    BY Zenon DEF VerdictsAreTrue
  <2>1. conn[c].verdicts \in {<<>>, <<"failure">>, <<"success">>}
    BY Zenon DEF SInv, SessionOK
  <2>2. Len(<<>>) = 0 /\ Len(<<"failure">>) = 1 /\ Len(<<"success">>) = 1 /\ <<>> # <<"success">>
    OBVIOUS
  <2>3. conn[c].verdicts = <<"success">> => conn[c].st \in {"relay", "over"}
    BY Zenon, <2>2 DEF SInv, SessionOK
  <2>4. Len(conn[c].verdicts) \in {0, 1}
    BY <2>1, <2>2, Zenon
  <2>5. \A n \in {0, 1} : n <= 1
    OBVIOUS
  <2> QED
    BY <2>3, <2>4, <2>5, Zenon
<1> QED
  BY <1>1, SessionInvariance, PTL

\* What is reported is true: the verdicts, and the count of failures.  What the
\* limiter holds against its peers is made up for by the failures reported, by
\* the denials still being written and by those whose client left or stalled
\* first, however the limiter makes room and whoever verifies meanwhile; and
\* neither a report nor a lost one belongs to two sessions (record_failure_at,
\* is_auth_failure, record_auth_failure).
THEOREM ReportsAreTrueAlways == Spec => []ReportsAreTrue
<1>1. Init => Told
  <2> SUFFICES ASSUME Init
               PROVE  Told
    OBVIOUS
  <2>1. PICK f : f = guesses
    OBVIOUS
  <2>2. f = [p \in Peers |-> 0]
    BY Zenon, <2>1 DEF Init
  <2>3. SumFunction(f) = 0
    BY <2>2, PeerAssumption, SumOfNothing
  <2>4. \A c \in Slots : conn[c].st = "none"
    BY DEF Init, Idle, Session
  <2>5. Denied = {} /\ Served = {}
    BY <2>4 DEF Denied, Served
  <2>6. Cardinality(Denied) = 0 /\ Cardinality(Served) = 0
    BY Zenon, <2>5, FS_EmptySet
  <2> QED
    BY <2>1, <2>3, <2>6 DEF Init, Told
<1>2. SInv /\ LInv /\ Told /\ [Next]_vars => Told'
  BY Zenon, StepTells
<1>3. Spec => []Told
  BY <1>1, <1>2, SessionInvariance, PTL DEF Spec
<1>4. VerdictsAreTrue /\ Told => ReportsAreTrue
  BY Zenon DEF ReportsAreTrue, Told
<1> QED
  BY <1>3, <1>4, VerdictsAreTrueAlways, PTL

\* A peer's failures since its bucket was made are paid for by the burst, by
\* time, and by one guess of each parallel session for every time the bucket
\* ran empty; and the map keeps its bound (has_capacity_at, record_failure_at).
THEOREM GuessesAreBoundedAlways == Spec => []GuessesAreBounded
<1>1. LInv => GuessesAreBounded
  <2> SUFFICES ASSUME LInv
               PROVE  GuessesAreBounded
    OBVIOUS
  <2>1. ASSUME NEW p \in Peers
        PROVE  guesses[p] <= Burst + ticks + (ticks + 1) * Spare
    <3> DEFINE paid == ticks * Spare
    <3>1. /\ ticks \in Nat /\ guesses[p] \in Nat /\ Spare \in Nat /\ Burst \in Nat
          /\ p \in Tracked => bucket[p] \in Nat
      BY LimiterNumbers DEF LInv, LimiterTypes
    <3>2. paid \in Nat /\ (ticks + 1) * Spare = paid + Spare
      BY <3>1
    <3>3. Spent(p) /\ Cardinality(Verifying(p)) \in Nat
      BY Zenon, VerifyingIsFinite DEF LInv
    <3>4. \/ p \notin Tracked /\ guesses[p] = 0
          \/ /\ bucket[p] \in Nat /\ bucket[p] >= 1
             /\ guesses[p] + bucket[p] <= Burst + ticks + paid
          \/ guesses[p] + Cardinality(Verifying(p)) <= Burst + ticks + (ticks + 1) * Spare
      BY <3>1, <3>3 DEF Spent
    <3> HIDE DEF paid
    <3> QED
      BY <3>1, <3>2, <3>3, <3>4
  <2> QED
    BY Zenon, <2>1 DEF GuessesAreBounded, Spare, LInv, LimiterTypes
<1> QED
  BY <1>1, SessionInvariance, PTL

\* A peer without capacity is forgotten only when every tracked peer is without
\* (record_failure_at makes room for another).
THEOREM ThrottleSurvivesFloodAlways == Spec => ThrottleSurvivesFlood
<1>1. ASSUME SInv, LInv, [Next]_vars
      PROVE  [\A p \in Peers : (ticks' = ticks /\ ~HasCapacity(p) /\ p \notin DOMAIN bucket')
                 => \A q \in Tracked : bucket[q] = 0]_vars
  <2> SUFFICES ASSUME NEW p \in Peers, ticks' = ticks, ~HasCapacity(p), p \notin DOMAIN bucket'
               PROVE  \A q \in Tracked : bucket[q] = 0
    OBVIOUS
  <2>1. p \in Tracked /\ bucket[p] \in Nat /\ ~(bucket[p] >= 1) /\ p \notin Tracked'
    BY <1>1 DEF HasCapacity, Tracked, LInv, LimiterTypes
  <2>2. bucket' # bucket
    BY Zenon, <2>1 DEF Tracked
  <2>3. PICK c \in Slots : Verify(c) /\ ~conn[c].knew
    <3>1. ~UNCHANGED vars
      BY Zenon, <2>2 DEF vars
    <3>2. ~Tick /\ ~TunnelReplaced
      BY <2>2, <1>1 DEF Tick, TunnelReplaced, LInv, LimiterTypes
    <3>3. PICK c \in Slots : \/ ClientStep(c) \/ SessionStep(c) \/ RemoteStep(c)
                             \/ HandshakeTimeout(c) \/ LookupFails(c) \/ DialUpstreamTimeout(c)
      BY Zenon, <1>1, <3>1, <3>2 DEF Next, Step
    <3>4. SessionStep(c)
      BY SMTT(30), <1>1, <2>2, <3>3, ClientMoves, RemoteMoves, TimeoutMoves
    <3>5. Verify(c)
      BY <1>1, <2>2, <3>4, OwnStepMoves DEF SessionStep, CheckCapacity
    <3> QED
      BY Zenon, <2>2, <3>5 DEF Verify
  <2>4. conn[c].peer \in Peers /\ RecordFailure(conn[c].peer)
    BY Zenon, <1>1, <2>3 DEF Verify, SInv, SessionOK
  <2>5. \A r \in Tracked \ Tracked' : bucket[r] < 1 => \A q \in Tracked : bucket[q] = 0
    BY <1>1, <2>4, FailureIsRecorded DEF LInv
  <2> QED
    BY <2>1, <2>5
<1>2. SInv /\ LInv /\ [Next]_vars =>
        [\A p \in Peers : (ticks' = ticks /\ ~HasCapacity(p) /\ p \notin DOMAIN bucket')
            => \A q \in Tracked : bucket[q] = 0]_vars
  BY Zenon, <1>1
<1> QED
  BY <1>2, SessionInvariance, PTL DEF Spec, ThrottleSurvivesFlood
===============================================================================
