-------------------------- MODULE MgmtConnectProofs ---------------------------
(***************************************************************************)
(* The handshake on the channel to openvpn, from what MgmtClientProofs     *)
(* proves of its traffic: a connect that succeeds has done all it          *)
(* promises, for any callers, parameters and queue sizes.                  *)
(***************************************************************************)
EXTENDS MgmtClientProofs

\* A part of a reply to `connect` is on its way.
OwnLine(stream) == \E i \in DOMAIN stream : stream[i].line.of = Connector

\* A command of `connect` that will be answered is queued.
OwnAwaited(q, v) == \E i \in DOMAIN q : q[i].from = Connector /\ Awaited(q[i], v)

\* How many commands of the handshake were sent, where `connect` is at c and its
\* last `send` stands at st.
SentBy(c, st) == IF c = Greeting THEN 0 ELSE IF st = None THEN c - 1 ELSE c

\* openvpn has read a prefix of the handshake, and the rest of what was sent is
\* queued; `connect` goes on once what it sent last was read and answered.
Shaken(q, s, done, c, st, v, a) ==
    /\ c \in FailedAt..ConnectedAt /\ a \in {"running", "ended"} /\ v \in Nat
    /\ done \in Seq(Verbs) /\ \A i \in 1..Len(done) : done[i] = Handshake[i]
    /\ c >= 1 => v >= 5
    /\ c \in {Greeting, ConnectedAt} => st = None
    /\ st = "SUCCESS" => Len(done) = c
    /\ c = ConnectedAt => Len(done) = 5
    /\ a = "running" =>
         /\ Trails(q, Len(done), SentBy(c, st), v)
         /\ OwnAwaited(q, v) => st = "waiting"
         /\ OwnLine(s) => st = "waiting" /\ Len(done) = c

ShakenInv ==
    Shaken(Queued, buffered \o wire, peer.done, connect, result[Connector].st, peer.version, actor)

\* The places of `connect`.
LEMMA PlacesAre == FailedAt = -1 /\ Greeting = 0 /\ ConnectedAt = 6
  BY DEF FailedAt, Greeting, ConnectedAt, Handshake

\* The queue and the stream change by what is not of `connect`.
LEMMA ShakenKept ==
  ASSUME NEW q, NEW s, NEW done, NEW c, NEW st, NEW v, NEW a, Shaken(q, s, done, c, st, v, a),
         NEW z, NEW w, Trails(q, Len(done), SentBy(c, st), v) => Trails(z, Len(done), SentBy(c, st), v),
         OwnAwaited(z, v) => OwnAwaited(q, v), OwnLine(w) => OwnLine(s)
  PROVE  Shaken(z, w, done, c, st, v, a)
  BY Zenon DEF Shaken

\* Where `connect` is left, and what it is told last.
LeftAt(done, c, e, ts) ==
    /\ e \in {c, FailedAt} /\ (ts = "SUCCESS" => Len(done) = e) /\ (e \in {Greeting, ConnectedAt} => ts = None)

\* The actor is gone.
LEMMA ShakenEnds ==
  ASSUME NEW q, NEW s, NEW done, NEW c, NEW st, NEW v, NEW a, Shaken(q, s, done, c, st, v, a),
         NEW z, NEW w, NEW e, NEW ts, LeftAt(done, c, e, ts)
  PROVE  Shaken(z, w, done, e, ts, v, "ended")
  <1>1. FailedAt \in FailedAt..ConnectedAt /\ ~(FailedAt >= 1) /\ FailedAt # ConnectedAt
    BY PlacesAre
  <1>2. "ended" # "running"
    OBVIOUS
  <1> QED BY Zenon, <1>1, <1>2 DEF Shaken, LeftAt

\* openvpn reads the first command.
LEMMA ShakenReads ==
  ASSUME NEW q \in Seq(Commands), q # <<>>, NEW s, NEW done, NEW c, NEW st, NEW v,
         Shaken(q, s, done, c, st, v, "running"),
         NEW w, OwnLine(w) => OwnLine(s) \/ (q[1].from = Connector /\ Awaited(q[1], v))
  PROVE  Shaken(Tail(q), w, IF q[1].from = Connector THEN Append(done, q[1].verb) ELSE done, c, st, v, "running")
  <1>1. PICK z : z = Tail(q)
    BY Zenon
  <1>2. PICK n : n = SentBy(c, st)
    BY Zenon
  <1>3. done \in Seq(Verbs) /\ c \in FailedAt..ConnectedAt /\ Trails(q, Len(done), n, v)
    BY Zenon, <1>2 DEF Shaken
  <1>4. PICK d \in Nat : d = Len(done)
    BY <1>3, LenProperties
  <1>5. OwnAwaited(z, v) => OwnAwaited(q, v)
    <2>1. Len(q) \in Nat /\ DOMAIN q = 1..Len(q) /\ z \in Seq(Commands) /\ Len(z) = Len(q) - 1
      BY <1>1, LenProperties, HeadTailProperties
    <2>2. DOMAIN z = 1..Len(z) /\ \A i \in 1..Len(z) : z[i] = q[i + 1]
      BY SMTT(30), <1>1, <2>1, LenProperties, HeadTailProperties
    <2>3. \A i \in 1..Len(z) : i + 1 \in 1..Len(q)
      BY <2>1
    <2> QED BY Zenon, <2>1, <2>2, <2>3 DEF OwnAwaited
  <1>6. CASE q[1].from # Connector
    <2>1. Trails(q, Len(done), n, v) => Trails(z, Len(done), n, v)
      BY <1>1, <1>6, TrailsRead
    <2>2. Shaken(z, w, done, c, st, v, "running")
      <3>1. OwnLine(w) => OwnLine(s)
        BY Zenon, <1>6
      <3> QED BY <1>2, <1>5, <2>1, <3>1, ShakenKept
    <2> QED BY Zenon, <1>1, <1>6, <2>2
  <1>7. CASE q[1].from = Connector
    <2>1. Trails(q, d, n, v)
      BY Zenon, <1>3, <1>4
    <2>2. Trails(z, d + 1, n, v) /\ d + 1 <= n /\ q[1].verb = Handshake[d + 1] /\ (Awaited(q[1], v) => d + 1 = n)
      BY <1>1, <1>7, <2>1, TrailsRead
    <2>3. n \in Nat
      BY Zenon, <2>2 DEF Trails
    <2>4. c # Greeting /\ c \in Int
      BY <1>2, <1>3, <2>2, PlacesAre DEF SentBy
    <2>5. st # None => n = c
      BY Zenon, <1>2, <2>4 DEF SentBy
    <2>6. d # n
      BY <2>2, <2>3
    <2>7. st # "SUCCESS" /\ ~OwnLine(s)
      <3>1. "SUCCESS" # None /\ "waiting" # None
        BY DEF None
      <3> QED BY Zenon, <1>4, <2>5, <2>6, <3>1 DEF Shaken
    <2>8. c # ConnectedAt
      <3>1. CASE c = ConnectedAt
        <4>1. st = None /\ d = 5 /\ n = c - 1
          BY Zenon, <1>2, <1>4, <2>4, <3>1 DEF Shaken, SentBy
        <4> QED BY <2>6, <3>1, <4>1, PlacesAre
      <3> QED BY <3>1
    <2>9. OwnLine(w) => st = "waiting" /\ d + 1 = c
      <3>1. 1 \in DOMAIN q
        BY EmptySeq, LenProperties
      <3>2. Awaited(q[1], v) => st = "waiting"
        BY Zenon, <1>7, <3>1 DEF Shaken, OwnAwaited
      <3>3. "waiting" # None
        BY DEF None
      <3> QED BY Zenon, <2>2, <2>5, <2>7, <3>2, <3>3
    <2>10. OwnAwaited(z, v) => st = "waiting"
      BY Zenon, <1>5 DEF Shaken
    <2>11. PICK after : after = Append(done, q[1].verb)
      BY Zenon
    <2>12. q[1].verb \in Verbs
      <3>1. q[1] \in Commands
        BY SMTT(30), EmptySeq, ElementOfSeq
      <3> QED BY <3>1 DEF Commands
    <2>13. /\ after \in Seq(Verbs) /\ Len(after) = d + 1 /\ after[d + 1] = Handshake[d + 1]
           /\ \A i \in 1..d : after[i] = done[i]
      BY <1>3, <1>4, <2>2, <2>11, <2>12, AppendProperties
    <2>14. \A i \in 1..Len(after) : after[i] = Handshake[i]
      <3>1. \A i \in 1..(d + 1) : i \in 1..d \/ i = d + 1
        OBVIOUS
      <3>2. \A i \in 1..d : done[i] = Handshake[i]
        BY Zenon, <1>4 DEF Shaken
      <3> QED BY Zenon, <2>13, <3>1, <3>2
    <2>15. Shaken(z, w, after, c, st, v, "running")
      <3>1. Trails(z, Len(after), SentBy(c, st), v)
        BY Zenon, <1>2, <2>2, <2>13
      <3>2. OwnLine(w) => st = "waiting" /\ Len(after) = c
        BY Zenon, <2>9, <2>13
      <3> QED BY Zenon, <2>7, <2>8, <2>10, <2>13, <2>14, <3>1, <3>2 DEF Shaken
    <2> QED BY Zenon, <1>1, <1>7, <2>11, <2>15
  <1> QED BY <1>6, <1>7

\* `connect` queues the next command, and waits for the answer where there is one.
LEMMA ShakenSends ==
  ASSUME NEW q \in Seq(Commands), NEW s, NEW done, NEW c \in 1..5, NEW v,
         Shaken(q, s, done, c, None, v, "running"),
         NEW command \in Commands, command.from = Connector, command.verb = Handshake[c]
  PROVE  /\ Awaited(command, v) => Shaken(Append(q, command), s, done, c, "waiting", v, "running")
         /\ ~Awaited(command, v) => Shaken(Append(q, command), s, done, c + 1, None, v, "running")
  <1>1. c \in 1..5 /\ c \in Int /\ c # Greeting /\ c # ConnectedAt
    BY PlacesAre
  <1>2. "waiting" # None /\ "waiting" # "SUCCESS" /\ None # "SUCCESS"
    BY DEF None
  <1>3. ~OwnAwaited(q, v) /\ ~OwnLine(s)
    BY Zenon, <1>2 DEF Shaken
  <1>4. PICK n : n = c - 1
    BY Zenon
  <1>5. n + 1 = c
    BY <1>1, <1>4
  <1>6. PICK z : z = Append(q, command)
    BY Zenon
  <1>7. Trails(q, Len(done), n, v)
    BY Zenon, <1>1, <1>4 DEF Shaken, SentBy
  <1>8. Trails(z, Len(done), c, v)
    <2>1. \A i \in DOMAIN q : q[i].from = Connector => ~Awaited(q[i], v)
      BY Zenon, <1>3 DEF OwnAwaited
    <2>2. command.verb = Handshake[n + 1]
      BY Zenon, <1>5
    <2>3. Trails(Append(q, command), Len(done), n + 1, v)
      BY <1>7, <2>1, <2>2, TrailsAdded
    <2> QED BY Zenon, <1>5, <1>6, <2>3
  <1>9. CASE Awaited(command, v)
    <2>1. SentBy(c, "waiting") = c
      BY Zenon, <1>1, <1>2 DEF SentBy
    <2>2. Shaken(z, s, done, c, "waiting", v, "running")
      BY Zenon, <1>1, <1>2, <1>3, <1>8, <2>1 DEF Shaken
    <2> QED BY Zenon, <1>6, <1>9, <2>2
  <1>10. CASE ~Awaited(command, v)
    <2>1. c + 1 # Greeting /\ (c + 1) - 1 = c /\ c + 1 \in FailedAt..ConnectedAt /\ c >= 1
      BY SMTT(30), <1>1, PlacesAre
    <2>2. c + 1 # ConnectedAt
      <3>1. c # 1 => Handshake[c] # "version"
        BY Zenon, <1>1, HandshakeIs
      <3>2. command.verb = "version"
        BY Zenon, <1>10 DEF Awaited
      <3>3. c = 1
        BY Zenon, <3>1, <3>2
      <3> QED BY <3>3, PlacesAre
    <2>3. SentBy(c + 1, None) = c
      BY Zenon, <2>1 DEF SentBy
    <2>4. ~OwnAwaited(z, v)
      <3>1. \A i \in DOMAIN z : (i \in DOMAIN q /\ z[i] = q[i]) \/ z[i] = command
        BY <1>6
      <3> QED BY Zenon, <1>3, <1>10, <3>1 DEF OwnAwaited
    <2>5. Shaken(z, s, done, c + 1, None, v, "running")
      BY Zenon, <1>2, <1>3, <1>8, <2>1, <2>2, <2>3, <2>4 DEF Shaken
    <2> QED BY Zenon, <1>6, <1>10, <2>5
  <1> QED BY <1>9, <1>10

\* A SUCCESS moves `connect` on.
LEMMA ShakenGoesOn ==
  ASSUME NEW q, NEW s, NEW done, NEW c \in 1..5, NEW v, NEW a,
         Shaken(q, s, done, c, "SUCCESS", v, a)
  PROVE  Shaken(q, s, done, c + 1, None, v, a)
  <1>1. c \in 1..5 /\ c # Greeting /\ c + 1 # Greeting /\ (c + 1) - 1 = c /\ c + 1 \in FailedAt..ConnectedAt /\ c >= 1
    BY PlacesAre
  <1>2. c + 1 = ConnectedAt => c = 5
    BY <1>1, PlacesAre
  <1>3. "SUCCESS" # None /\ "SUCCESS" # "waiting"
    BY DEF None
  <1>4. SentBy(c + 1, None) = c /\ SentBy(c, "SUCCESS") = c
    BY Zenon, <1>1, <1>3 DEF SentBy
  <1> QED BY Zenon, <1>1, <1>2, <1>3, <1>4 DEF Shaken

\* The greeting starts the handshake, from the version floor on.
LEMMA ShakenGreeted ==
  ASSUME NEW q, NEW s, NEW done, NEW st, NEW v, NEW a, Shaken(q, s, done, Greeting, st, v, a), v >= 5
  PROVE  Shaken(q, s, done, 1, st, v, a)
  <1>1. 1 # Greeting /\ 1 # ConnectedAt /\ 1 \in FailedAt..ConnectedAt /\ 1 - 1 = 0
    BY PlacesAre
  <1>2. st = None /\ None # "SUCCESS" /\ None # "waiting"
    <2>1. None # "SUCCESS" /\ None # "waiting"
      BY DEF None
    <2> QED BY Zenon, <2>1 DEF Shaken
  <1>3. SentBy(Greeting, st) = 0 /\ SentBy(1, st) = 0
    BY Zenon, <1>1, <1>2 DEF SentBy
  <1> QED BY Zenon, <1>1, <1>2, <1>3 DEF Shaken

\* `connect` is told something: a reply to it was on its way.
LEMMA ShakenTold ==
  ASSUME NEW q, NEW s, NEW done, NEW c, NEW v, Shaken(q, s, done, c, "waiting", v, "running"), OwnLine(s),
         NEW st, st \notin {None, "waiting"}, NEW z, NEW w, NEW a \in {"running", "ended"}, ~OwnLine(w),
         a = "running" => /\ Trails(q, Len(done), SentBy(c, "waiting"), v) => Trails(z, Len(done), SentBy(c, "waiting"), v)
                          /\ OwnAwaited(z, v) => OwnAwaited(q, v)
  PROVE  Shaken(z, w, done, c, st, v, a)
  <1>1. "waiting" # None
    BY DEF None
  <1>2. c \notin {Greeting, ConnectedAt} /\ Len(done) = c
    BY Zenon, <1>1 DEF Shaken
  <1>3. SentBy(c, "waiting") = c /\ SentBy(c, st) = c
    BY Zenon, <1>1, <1>2 DEF SentBy
  <1>4. ~OwnAwaited(q, v)
    <2>1. Trails(q, Len(done), Len(done), v)
      BY Zenon, <1>2, <1>3 DEF Shaken
    <2>2. Len(done) \in Nat
      BY Zenon, <2>1 DEF Trails
    <2>3. \A j \in DOMAIN q : q[j].from # Connector
      BY <2>1, <2>2, TrailsDone
    <2> QED BY Zenon, <2>3 DEF OwnAwaited
  <1> QED BY Zenon, <1>2, <1>3, <1>4 DEF Shaken

\* No event is a reply to `connect`.
LEMMA OwnLineCat ==
  ASSUME NEW s \in Seq(Halves), NEW w \in Seq(Halves)
  PROVE  /\ OwnLine(s \o w) => OwnLine(s) \/ OwnLine(w)
         /\ Quiet(w) => ~OwnLine(w)
  <1>1. PICK m \in Nat, k \in Nat : m = Len(s) /\ k = Len(w)
    <2>1. Len(s) \in Nat /\ Len(w) \in Nat
      BY LenProperties
    <2> QED BY Zenon, <2>1
  <1>2. PICK z \in Seq(Halves) : z = s \o w
    BY Zenon, ConcatProperties
  <1>3. DOMAIN s = 1..m /\ DOMAIN w = 1..k /\ DOMAIN z = 1..(m + k)
    BY <1>1, <1>2, LenProperties, ConcatProperties
  <1>4. \A i \in 1..(m + k) : z[i] = IF i <= m THEN s[i] ELSE w[i - m]
    BY <1>1, <1>2, ConcatProperties
  <1>5. \A i \in 1..(m + k) : (i <= m => i \in 1..m) /\ (~(i <= m) => i - m \in 1..k)
    OBVIOUS
  <1>6. OwnLine(z) => OwnLine(s) \/ OwnLine(w)
    BY Zenon, <1>3, <1>4, <1>5 DEF OwnLine
  <1>7. None # Connector
    BY DEF None, Connector
  <1>8. Quiet(w) => ~OwnLine(w)
    BY Zenon, <1>7 DEF Quiet, OwnLine
  <1> QED BY Zenon, <1>2, <1>6, <1>8

\* A step that `connect` has no part in.
LEMMA ShakenStays ==
  ASSUME ShakenInv, peer'.done = peer.done, peer'.version = peer.version, connect' = connect,
         result'[Connector].st = result[Connector].st, actor' = actor,
         \A d, n : Trails(Queued, d, n, peer.version) => Trails(Queued', d, n, peer.version),
         OwnAwaited(Queued', peer.version) => OwnAwaited(Queued, peer.version),
         OwnLine(buffered' \o wire') => OwnLine(buffered \o wire)
  PROVE  ShakenInv'
  <1>1. PICK q, s, done, c, st, v, a :
          /\ q = Queued /\ s = buffered \o wire /\ done = peer.done /\ c = connect
          /\ st = result[Connector].st /\ v = peer.version /\ a = actor
    BY Zenon
  <1>2. PICK z, w : z = Queued' /\ w = buffered' \o wire'
    BY Zenon
  <1>3. Shaken(q, s, done, c, st, v, a)
    BY Zenon, <1>1 DEF ShakenInv
  <1>4. Trails(q, Len(done), SentBy(c, st), v) => Trails(z, Len(done), SentBy(c, st), v)
    BY Zenon, <1>1, <1>2
  <1>5. (OwnAwaited(z, v) => OwnAwaited(q, v)) /\ (OwnLine(w) => OwnLine(s))
    BY Zenon, <1>1, <1>2
  <1>6. Shaken(z, w, done, c, st, v, a)
    BY Zenon, <1>3, <1>4, <1>5, ShakenKept
  <1> QED BY Zenon, <1>1, <1>2, <1>6 DEF ShakenInv

\* openvpn reads a command.
LEMMA PeerReadsS ==
  ASSUME XInv, ShakenInv, toPeer # <<>>, NEW shape \in Shapes(Head(toPeer)), PeerReads(shape)
  PROVE  ShakenInv'
  <1>1. PICK command : command = Head(toPeer)
    BY Zenon
  <1>2. PICK lines, n : /\ Sends(lines, command, n, peer.version) /\ PeerAfter(command, n)
                        /\ wire' = wire \o Wired(lines)
    BY Zenon, <1>1, PeerReadsIs
  <1>3. /\ toPeer' = Tail(toPeer) /\ outbox' = outbox /\ channel' = channel /\ result' = result
        /\ buffered' = buffered /\ connect' = connect /\ actor' = actor /\ actor = "running"
    BY Zenon DEF PeerReads
  <1>4. PICK q \in Seq(Commands) : q = Queued
    BY QueuedIs
  <1>5. q # <<>> /\ Queued' = Tail(q) /\ Head(q) = command
    <2>1. Queued # <<>> /\ Queued' = Tail(Queued) /\ Head(Queued) = Head(toPeer)
      BY <1>3, FirstIsRead
    <2> QED BY Zenon, <1>1, <1>4, <2>1
  <1>6. q[1] = command
    BY <1>5
  <1>7. PICK s, done, c, st, v : /\ s = buffered \o wire /\ done = peer.done /\ c = connect
                                 /\ st = result[Connector].st /\ v = peer.version
    BY Zenon
  <1>8. Shaken(q, s, done, c, st, v, "running")
    BY Zenon, <1>3, <1>4, <1>7 DEF ShakenInv
  <1>9. PICK x : x = Wired(lines)
    BY Zenon
  <1>10. lines \in Seq(Lines) /\ (~Awaited(command, v) => lines = <<>>)
         /\ \A i \in 1..Len(lines) : lines[i].of \in {None, command.from}
    BY Zenon, <1>2, <1>7 DEF Sends
  <1>11. /\ x \in Seq(Halves) /\ Len(x) = 2 * Len(lines)
         /\ \A i \in 1..2 * Len(lines) : (i + 1) \div 2 \in 1..Len(lines) /\ x[i].line = lines[(i + 1) \div 2]
    BY SMTT(30), <1>9, <1>10, WiredIs
  <1>12. OwnLine(x) => command.from = Connector /\ Awaited(command, v)
    <2>1. DOMAIN x = 1..2 * Len(lines)
      <3>1. DOMAIN x = 1..Len(x)
        BY <1>11, LenProperties
      <3> QED BY Zenon, <1>11, <3>1
    <2>2. None # Connector
      BY DEF None, Connector
    <2>3. lines = <<>> => DOMAIN x = {}
      BY <2>1
    <2> QED BY Zenon, <1>10, <1>11, <2>1, <2>2, <2>3 DEF OwnLine
  <1>13. wire \in Seq(Halves) /\ buffered \in Seq(Halves) /\ s \in Seq(Halves)
    BY <1>7 DEF XInv
  <1>14. buffered \o (wire \o x) = s \o x
    <2>1. PICK b, w, S : b = buffered /\ w = wire /\ S = Halves
      BY Zenon
    <2>2. b \in Seq(S) /\ w \in Seq(S) /\ x \in Seq(S)
      BY Zenon, <1>11, <1>13, <2>1
    <2>3. (b \o w) \o x = b \o (w \o x)
      BY SMTT(30), <2>2, ConcatAssociative
    <2> QED BY Zenon, <1>7, <2>1, <2>3
  <1>15. OwnLine(s \o x) => OwnLine(s) \/ (q[1].from = Connector /\ Awaited(q[1], v))
    <2>1. OwnLine(s \o x) => OwnLine(s) \/ OwnLine(x)
      BY SMTT(30), <1>11, <1>13, OwnLineCat
    <2> QED BY Zenon, <1>6, <1>12, <2>1
  <1>16. Shaken(Tail(q), s \o x, IF q[1].from = Connector THEN Append(done, q[1].verb) ELSE done, c, st, v, "running")
    BY SMTT(30), <1>5, <1>8, <1>15, ShakenReads
  <1>17. /\ buffered' \o wire' = s \o x /\ peer'.version = v
         /\ peer'.done = IF q[1].from = Connector THEN Append(done, q[1].verb) ELSE done
    BY Zenon, <1>2, <1>3, <1>6, <1>7, <1>9, <1>14 DEF PeerAfter
  <1> QED BY Zenon, <1>3, <1>5, <1>7, <1>16, <1>17 DEF ShakenInv

\* A step of openvpn's own, of the actor's queues, or of a task.
LEMMA OthersS ==
  ASSUME XInv, ShakenInv,
         \/ PeerHolds \/ PeerBreaks \/ PeerStops \/ Write \/ TakeCommand \/ Receive \/ UNCHANGED mgmtVars
         \/ \E t \in Callers : GiveUp(t) \/ \E raw \in Params : Send(t, raw)
  PROVE  ShakenInv'
  <1>1. ASSUME peer' = peer \/ PeerKept, connect' = connect, result'[Connector].st = result[Connector].st,
               actor' = actor, Queued' = Queued, OwnLine(buffered' \o wire') => OwnLine(buffered \o wire)
        PROVE  ShakenInv'
    BY Zenon, <1>1, ShakenStays DEF PeerKept
  <1>2. CASE PeerHolds \/ PeerBreaks \/ PeerStops
    <2>1. PeerKept
      BY Zenon, <1>2, PeerEventIs DEF XInv
    <2>2. /\ toPeer' = toPeer /\ outbox' = outbox /\ channel' = channel /\ result' = result
          /\ buffered' = buffered /\ connect' = connect /\ actor' = actor
      BY Zenon, <1>2 DEF PeerHolds, PeerBreaks, PeerStops
    <2>3. Queued' = Queued
      BY Zenon, <2>2 DEF Queued
    <2>4. OwnLine(buffered' \o wire') => OwnLine(buffered \o wire)
      <3>1. CASE wire' = wire
        BY Zenon, <2>2, <3>1
      <3>2. ASSUME NEW f \in Events, wire' = wire \o Wired(<<Line(f, None)>>)
            PROVE  OwnLine(buffered' \o wire') => OwnLine(buffered \o wire)
        <4>1. PICK lines : lines = <<Line(f, None)>>
          BY Zenon
        <4>2. PICK x : x = Wired(lines)
          BY Zenon
        <4>3. x \in Seq(Halves) /\ Quiet(x)
          BY <4>1, <4>2, EventWired
        <4>4. PICK s, w, b : s = b \o w /\ w = wire /\ b = buffered
          BY Zenon
        <4>5. w \in Seq(Halves) /\ b \in Seq(Halves) /\ s \in Seq(Halves)
          <5>1. w \in Seq(Halves) /\ b \in Seq(Halves)
            BY Zenon, <4>4 DEF XInv
          <5> QED BY <4>4, <5>1, ConcatProperties
        <4>6. b \o (w \o x) = s \o x
          BY SMTT(30), <4>3, <4>4, <4>5, ConcatAssociative
        <4>7. OwnLine(s \o x) => OwnLine(s)
          BY <4>3, <4>5, OwnLineCat
        <4> QED BY Zenon, <2>2, <3>2, <4>1, <4>2, <4>4, <4>6, <4>7
      <3>3. "HOLD" \in Events /\ "UPDOWN" \in Events
        BY DEF Events
      <3> QED BY Zenon, <1>2, <3>1, <3>2, <3>3 DEF PeerHolds, PeerBreaks, PeerStops
    <2> QED BY Zenon, <1>1, <2>1, <2>2, <2>3, <2>4
  <1>3. CASE Write \/ TakeCommand
    <2>1. Queued' = Queued
      BY Zenon, <1>3, MovesOn
    <2>2. peer' = peer /\ result' = result /\ buffered' = buffered /\ wire' = wire /\ connect' = connect /\ actor' = actor
      BY Zenon, <1>3 DEF Write, TakeCommand
    <2> QED BY Zenon, <1>1, <2>1, <2>2
  <1>4. CASE Receive \/ UNCHANGED mgmtVars
    <2>1. /\ peer' = peer /\ result' = result /\ buffered' = buffered /\ wire' = wire /\ connect' = connect
          /\ actor' = actor /\ toPeer' = toPeer /\ outbox' = outbox /\ channel' = channel
      BY Zenon, <1>4 DEF Receive, mgmtVars
    <2>2. Queued' = Queued
      BY Zenon, <2>1 DEF Queued
    <2> QED BY Zenon, <1>1, <2>1, <2>2
  <1>5. ASSUME NEW t \in Callers, GiveUp(t) \/ \E raw \in Params : Send(t, raw)
        PROVE  ShakenInv'
    <2>1. t # Connector /\ t \in Tasks /\ t \in Parties
      BY Zenon, PartiesDiffer DEF Tasks, Parties
    <2>2. \E out : result' = [result EXCEPT ![t] = out]
      BY Zenon, <1>5 DEF GiveUp, Send, Enqueue
    <2>3. result'[Connector] = result[Connector]
      <3>1. PICK out : result' = [result EXCEPT ![t] = out]
        BY Zenon, <2>2
      <3>2. DOMAIN result = Tasks
        BY DEF XInv, OwnResults
      <3> QED BY <2>1, <3>1, <3>2, PartiesDiffer
    <2>4. /\ peer' = peer /\ buffered' = buffered /\ wire' = wire /\ connect' = connect
          /\ actor' = actor /\ toPeer' = toPeer /\ outbox' = outbox
      BY Zenon, <1>5 DEF GiveUp, Send
    <2>5. CASE channel' = channel
      <3>1. Queued' = Queued
        BY Zenon, <2>4, <2>5 DEF Queued
      <3> QED BY Zenon, <1>1, <2>3, <2>4, <3>1
    <2>6. ASSUME NEW raw \in Params, channel' = Append(channel, Command(t, "send", EscapeParam(raw)))
          PROVE  ShakenInv'
      <3>1. PICK e : e = Command(t, "send", EscapeParam(raw))
        BY Zenon
      <3>2. e \in Commands /\ e.from # Connector
        <4>1. EscapeParam(raw) \in Written
          BY Zenon DEF Written
        <4> QED BY <2>1, <3>1, <4>1 DEF Commands, Command, Verbs
      <3>3. PICK q \in Seq(Commands) : q = Queued
        BY QueuedIs
      <3>4. PICK z : z = Append(q, e)
        BY Zenon
      <3>5. Queued' = z
        <4>1. Queued' = Append(Queued, e)
          BY <2>4, <2>6, <3>1, <3>2, LastIsAdded
        <4> QED BY Zenon, <3>3, <3>4, <4>1
      <3>6. \A d, n : Trails(q, d, n, peer.version) => Trails(z, d, n, peer.version)
        BY <3>2, <3>4, TrailsAmong
      <3>7. OwnAwaited(z, peer.version) => OwnAwaited(q, peer.version)
        <4>1. \A i \in DOMAIN z : (i \in DOMAIN q /\ z[i] = q[i]) \/ z[i] = e
          BY <3>2, <3>4
        <4> QED BY Zenon, <3>2, <4>1 DEF OwnAwaited
      <3> QED BY Zenon, <2>3, <2>4, <3>3, <3>5, <3>6, <3>7, ShakenStays
    <2>7. channel' = channel \/ \E raw \in Params : channel' = Append(channel, Command(t, "send", EscapeParam(raw)))
      BY Zenon, <1>5 DEF GiveUp, Send, Enqueue
    <2> QED BY Zenon, <2>5, <2>6, <2>7
  <1> QED BY Zenon, <1>2, <1>3, <1>4, <1>5

\* The actor is gone.
LEMMA EndS ==
  ASSUME ShakenInv, NEW results, End(results), peer' = peer, connect' \in {connect, FailedAt},
         results[Connector].st = "SUCCESS" => Len(peer.done) = connect',
         connect' \in {Greeting, ConnectedAt} => results[Connector].st = None
  PROVE  ShakenInv'
  <1>1. PICK q, s, done, c, st, v, a :
          /\ q = Queued /\ s = buffered \o wire /\ done = peer.done /\ c = connect
          /\ st = result[Connector].st /\ v = peer.version /\ a = actor
    BY Zenon
  <1>2. Shaken(q, s, done, c, st, v, a)
    BY Zenon, <1>1 DEF ShakenInv
  <1>3. PICK z, w, e, ts : z = Queued' /\ w = buffered' \o wire' /\ e = connect' /\ ts = result'[Connector].st
    BY Zenon
  <1>4. (ts = "Closed" /\ results[Connector].st = "waiting") \/ ts = results[Connector].st
    <2>1. PICK out : out = Outcome("Closed")
      BY Zenon
    <2>2. out.st = "Closed"
      BY Zenon, <2>1 DEF Outcome
    <2>3. result' = [t \in Tasks |-> IF results[t].st = "waiting" THEN out ELSE results[t]]
      BY Zenon, <2>1 DEF End, Closed
    <2>4. result'[Connector] = IF results[Connector].st = "waiting" THEN out ELSE results[Connector]
      BY <2>3, PartiesDiffer
    <2> QED BY Zenon, <1>3, <2>2, <2>4
  <1>5. "Closed" # "SUCCESS" /\ "waiting" # None
    BY DEF None
  <1>6. LeftAt(done, c, e, ts)
    BY Zenon, <1>1, <1>3, <1>4, <1>5 DEF LeftAt
  <1>7. Shaken(z, w, done, e, ts, v, "ended")
    BY Zenon, <1>2, <1>6, ShakenEnds
  <1>8. actor' = "ended"
    BY Zenon DEF End
  <1> QED BY Zenon, <1>1, <1>3, <1>7, <1>8 DEF ShakenInv

\* The actor ends of itself.
LEMMA EndingS ==
  ASSUME XInv, ShakenInv, Expired \/ ReadEof \/ ClientDropped
  PROVE  ShakenInv'
  <1>1. peer' = peer /\ connect' = connect
    BY Zenon DEF Expired, ReadEof, ClientDropped
  <1>2. ASSUME NEW results, End(results), results[Connector] # result[Connector] =>
                 /\ result[Connector].st = "waiting" /\ results[Connector].st # "SUCCESS"
        PROVE  ShakenInv'
    <2>1. "waiting" # None
      BY DEF None
    <2>2. /\ results[Connector].st = "SUCCESS" => Len(peer.done) = connect'
          /\ connect' \in {Greeting, ConnectedAt} => results[Connector].st = None
      BY Zenon, <1>1, <1>2, <2>1 DEF ShakenInv, Shaken
    <2>3. connect' \in {connect, FailedAt}
      BY Zenon, <1>1
    <2> QED BY Zenon, <1>1, <1>2, <2>2, <2>3, EndS
  <1>3. ASSUME NEW st \in {"Timeout", "Eof"}
        PROVE  Answer(result, pending, Outcome(st))[Connector] # result[Connector] =>
                 /\ result[Connector].st = "waiting" /\ Answer(result, pending, Outcome(st))[Connector].st # "SUCCESS"
    <2>1. PICK out : out = Outcome(st)
      BY Zenon
    <2>2. out.st # "SUCCESS"
      BY SMTT(30), <1>3, <2>1 DEF Outcome
    <2>3. DOMAIN result = Tasks
      BY Zenon DEF XInv, OwnResults
    <2>4. Answer(result, pending, out)[Connector] # result[Connector] =>
            result[Connector].st = "waiting" /\ Answer(result, pending, out)[Connector] = out
      BY <2>3, PartiesDiffer DEF Answer
    <2> QED BY Zenon, <2>1, <2>2, <2>4
  <1>4. "Timeout" \in {"Timeout", "Eof"} /\ "Eof" \in {"Timeout", "Eof"}
    OBVIOUS
  <1> QED BY Zenon, <1>2, <1>3, <1>4 DEF Expired, ReadEof, ClientDropped

\* connect
LEMMA ConnectS ==
  ASSUME XInv, ShakenInv, ConnectStep
  PROVE  ShakenInv'
  <1>1. PICK q, s, done, c, st, v, a :
          /\ q = Queued /\ s = buffered \o wire /\ done = peer.done /\ c = connect
          /\ st = result[Connector].st /\ v = peer.version /\ a = actor
    BY Zenon
  <1>2. Shaken(q, s, done, c, st, v, a)
    BY Zenon, <1>1 DEF ShakenInv
  <1>3. ASSUME ConnectFails, result[Connector].st # "SUCCESS" PROVE ShakenInv'
    <2>1. FailedAt # Greeting /\ FailedAt # ConnectedAt
      BY PlacesAre
    <2>2. End(result) /\ peer' = peer /\ connect' = FailedAt
      BY Zenon, <1>3 DEF ConnectFails
    <2> QED BY Zenon, <1>3, <2>1, <2>2, EndS
  <1>4. CASE NoGreeting \/ (Greeted /\ ConnectFails)
    <2>1. connect = Greeting /\ ConnectFails
      BY Zenon, <1>4 DEF NoGreeting, Greeted
    <2>2. None # "SUCCESS"
      BY DEF None
    <2>3. result[Connector].st # "SUCCESS"
      BY Zenon, <1>1, <1>2, <2>1, <2>2 DEF Shaken
    <2> QED BY Zenon, <1>3, <2>1, <2>3
  <1>5. CASE Greeted /\ ~ConnectFails
    <2>1. c = Greeting /\ UNCHANGED <<peer, toPeer, wire, buffered, body, outbox, pending, channel, actor, result, typed>>
      BY Zenon, <1>1, <1>5, GreetedIs DEF Greeted
    <2>2. connect' = connect \/ (connect' = 1 /\ v >= 5)
      <3>1. PICK g, first : g = feed["greeting"].lagged /\ first = Head(feed["greeting"].queue)
        BY Zenon
      <3>2. v < 5 \/ v >= 5
        BY <1>2 DEF Shaken
      <3>3. (g \/ (first = "INFO" /\ v < 5)) \/ (~g /\ (first = "INFO" => v >= 5))
        BY Zenon, <3>2
      <3>4. ~g /\ (first = "INFO" => v >= 5) /\ connect' = IF first = "INFO" THEN 1 ELSE connect
        BY Zenon, <1>1, <1>5, <3>1, <3>3 DEF Greeted
      <3> QED BY Zenon, <3>4
    <2>3. Queued' = q /\ buffered' \o wire' = s
      BY Zenon, <1>1, <2>1 DEF Queued
    <2>4. CASE connect' = connect
      BY Zenon, <1>1, <1>2, <2>1, <2>3, <2>4 DEF ShakenInv
    <2>5. CASE connect' = 1 /\ v >= 5
      <3>1. Shaken(q, s, done, Greeting, st, v, a)
        BY Zenon, <1>2, <2>1
      <3>2. Shaken(q, s, done, 1, st, v, a)
        BY <2>5, <3>1, ShakenGreeted
      <3> QED BY Zenon, <1>1, <2>1, <2>3, <2>5, <3>2 DEF ShakenInv
    <2> QED BY <2>2, <2>4, <2>5
  <1>6. CASE HandshakeSends
    <2>1. PICK e : e = Command(Connector, Handshake[connect], <<>>)
      BY Zenon
    <2>2. connect \in DOMAIN Handshake /\ connect \in 1..5
      BY Zenon, <1>6, HandshakeIs DEF HandshakeSends
    <2>3. e \in Commands /\ e.from = Connector /\ e.verb = Handshake[c]
      <3>1. e \in Commands /\ e.from = Connector /\ e.verb = Handshake[connect]
        BY <2>1, <2>2, HandshakeCommand
      <3> QED BY Zenon, <1>1, <3>1
    <2>4. st = None /\ peer' = peer /\ toPeer' = toPeer /\ outbox' = outbox /\ wire' = wire /\ buffered' = buffered
          /\ actor' = actor
      BY Zenon, <1>1, <1>6 DEF HandshakeSends
    <2>5. buffered' \o wire' = s
      BY Zenon, <1>1, <2>4
    <2>6. ASSUME NEW x, result' = [result EXCEPT ![Connector] = Outcome(x)] PROVE result'[Connector].st = x
      <3>1. PICK out : out = Outcome(x)
        BY Zenon
      <3>2. out.st = x
        BY <3>1 DEF Outcome
      <3>3. result' = [result EXCEPT ![Connector] = out]
        BY Zenon, <2>6, <3>1
      <3>4. DOMAIN result = Tasks
        BY DEF XInv, OwnResults
      <3>5. result'[Connector] = out
        BY <3>3, <3>4, PartiesDiffer
      <3> QED BY Zenon, <3>2, <3>5
    <2>7. CASE actor = "ended"
      <3>1. result' = [result EXCEPT ![Connector] = Outcome("Closed")] /\ channel' = channel /\ connect' = connect
        BY Zenon, <1>6, <2>1, <2>7 DEF HandshakeSends, Enqueue
      <3>2. result'[Connector].st = "Closed"
        BY Zenon, <2>6, <3>1
      <3>3. "Closed" # "SUCCESS" /\ c \notin {Greeting, ConnectedAt}
        BY SMTT(30), <1>1, <2>2, PlacesAre
      <3>4. Shaken(q, s, done, c, "Closed", v, "ended")
        <4>1. LeftAt(done, c, c, "Closed")
          BY Zenon, <3>3 DEF LeftAt
        <4> QED BY <1>2, <4>1, ShakenEnds
      <3>5. Queued' = q
        BY Zenon, <1>1, <2>4, <3>1 DEF Queued
      <3> QED BY Zenon, <1>1, <2>4, <2>5, <2>7, <3>1, <3>2, <3>4, <3>5 DEF ShakenInv
    <2>8. CASE actor # "ended"
      <3>1. a = "running" /\ q \in Seq(Commands)
        BY Zenon, <1>1, <1>2, <2>8, QueuedIs DEF Shaken
      <3>2. channel' = Append(channel, e)
        BY Zenon, <1>6, <2>1, <2>8 DEF HandshakeSends, Enqueue
      <3>3. Queued' = Append(q, e)
        <4>1. Queued' = Append(Queued, e)
          BY SMTT(30), <2>3, <2>4, <3>2, LastIsAdded
        <4> QED BY Zenon, <1>1, <4>1
      <3>4. /\ Awaited(e, v) => Shaken(Append(q, e), s, done, c, "waiting", v, "running")
            /\ ~Awaited(e, v) => Shaken(Append(q, e), s, done, c + 1, None, v, "running")
        <4>1. Shaken(q, s, done, c, None, v, "running") /\ c \in 1..5
          BY Zenon, <1>1, <1>2, <2>2, <2>4, <3>1
        <4> QED BY Zenon, <2>3, <3>1, <4>1, ShakenSends
      <3>5. ExpectsReply(e) <=> Awaited(e, v)
        BY Zenon, <1>1 DEF ExpectsReply, Awaited
      <3>6. CASE Awaited(e, v)
        <4>1. result' = [result EXCEPT ![Connector] = Outcome("waiting")] /\ connect' = connect
          BY Zenon, <1>6, <2>1, <2>8, <3>5, <3>6 DEF HandshakeSends, Enqueue
        <4>2. result'[Connector].st = "waiting"
          BY Zenon, <2>6, <4>1
        <4> QED BY Zenon, <1>1, <2>4, <2>5, <3>1, <3>3, <3>4, <3>6, <4>1, <4>2 DEF ShakenInv
      <3>7. CASE ~Awaited(e, v)
        <4>1. result' = result /\ connect' = connect + 1
          BY Zenon, <1>6, <2>1, <2>8, <3>5, <3>7 DEF HandshakeSends
        <4> QED BY Zenon, <1>1, <2>4, <2>5, <3>1, <3>3, <3>4, <3>7, <4>1 DEF ShakenInv
      <3> QED BY <3>6, <3>7
    <2> QED BY <2>7, <2>8
  <1>7. CASE HandshakeGoesOn
    <2>1. connect \in 1..5
      BY Zenon, <1>7, HandshakeIs DEF HandshakeGoesOn
    <2>2. CASE result[Connector].st # "SUCCESS"
      BY Zenon, <1>3, <1>7, <2>2 DEF HandshakeGoesOn
    <2>3. CASE result[Connector].st = "SUCCESS"
      <3>1. /\ result' = [result EXCEPT ![Connector] = Outcome(None)] /\ connect' = connect + 1
            /\ UNCHANGED <<peer, toPeer, wire, buffered, body, outbox, pending, channel, actor, typed, feed>>
        BY Zenon, <1>7, <2>3 DEF HandshakeGoesOn
      <3>2. result'[Connector].st = None
        <4>1. PICK out : out = Outcome(None)
          BY Zenon
        <4>2. out.st = None
          BY <4>1 DEF Outcome
        <4>3. result' = [result EXCEPT ![Connector] = out]
          BY Zenon, <3>1, <4>1
        <4>4. DOMAIN result = Tasks
          BY DEF XInv, OwnResults
        <4>5. result'[Connector] = out
          BY <4>3, <4>4, PartiesDiffer
        <4> QED BY Zenon, <4>2, <4>5
      <3>3. Shaken(q, s, done, c, "SUCCESS", v, a) /\ c \in 1..5
        BY Zenon, <1>1, <1>2, <2>1, <2>3
      <3>4. Shaken(q, s, done, c + 1, None, v, a)
        BY <3>3, ShakenGoesOn
      <3>5. Queued' = q /\ buffered' \o wire' = s
        BY Zenon, <1>1, <3>1 DEF Queued
      <3> QED BY Zenon, <1>1, <3>1, <3>2, <3>4, <3>5 DEF ShakenInv
    <2> QED BY <2>2, <2>3
  <1> QED BY Zenon, <1>4, <1>5, <1>6, <1>7 DEF ConnectStep

\* A read.
LEMMA ReadS ==
  ASSUME XInv, XInv', ShakenInv, NEW k \in 1..Len(wire), Read(k)
  PROVE  ShakenInv'
  <1>1. PICK chunk, rest, r : RoutedBy(chunk, rest, r)
    BY ReadRouted
  <1>2. PICK x : x = r[Len(chunk)]
    BY Zenon
  <1>3. Carried(x, outbox, result, chunk \o rest) /\ ReadsBy(chunk, rest, r)
    BY Zenon, <1>1, <1>2 DEF RoutedBy
  <1>4. peer' = peer /\ connect' = connect /\ actor = "running"
    BY Zenon, ReadIs
  <1>5. PICK q, s, done, c, st, v :
          /\ q = Queued /\ s = buffered \o wire /\ done = peer.done /\ c = connect
          /\ st = result[Connector].st /\ v = peer.version
    BY Zenon
  <1>6. Shaken(q, s, done, c, st, v, "running")
    BY Zenon, <1>4, <1>5 DEF ShakenInv
  <1>7. chunk \in Seq(Halves) /\ rest \in Seq(Halves) /\ chunk \o rest = s
    BY Zenon, <1>3, <1>5 DEF ReadsBy
  <1>8. x.result[Connector] # result[Connector] =>
          /\ st = "waiting" /\ x.result[Connector].st \notin {None, "waiting"} /\ x.pending = None /\ OwnLine(s)
    BY Zenon, <1>3, <1>5, <1>7, PartiesDiffer DEF Carried, OwnLine
  <1>9. CASE x.actor = "ended"
    <2>1. End(x.result)
      BY Zenon, <1>2, <1>3, <1>9 DEF ReadsBy
    <2>2. "waiting" # None
      BY DEF None
    <2>3. CASE x.result[Connector] = result[Connector]
      <3>1. /\ x.result[Connector].st = "SUCCESS" => Len(peer.done) = connect'
            /\ connect' \in {Greeting, ConnectedAt} => x.result[Connector].st = None
            /\ connect' \in {connect, FailedAt}
        BY Zenon, <1>4, <1>5, <1>6, <2>3 DEF Shaken
      <3> QED BY Zenon, <1>4, <2>1, <3>1, EndS
    <2>4. CASE x.result[Connector] # result[Connector]
      <3>1. /\ x.result[Connector].st = "SUCCESS" => Len(peer.done) = connect'
            /\ connect' \in {Greeting, ConnectedAt} => x.result[Connector].st = None
            /\ connect' \in {connect, FailedAt}
        BY Zenon, <1>4, <1>5, <1>6, <1>8, <2>2, <2>4 DEF Shaken
      <3> QED BY Zenon, <1>4, <2>1, <3>1, EndS
    <2> QED BY <2>3, <2>4
  <1>10. CASE x.actor # "ended"
    <2>1. /\ result' = x.result /\ outbox' = x.outbox /\ channel' = channel /\ toPeer' = toPeer
          /\ wire' = rest /\ buffered' = Rest(chunk) /\ actor' = actor /\ pending' = x.pending
      BY Zenon, <1>2, <1>3, <1>10 DEF ReadsBy
    <2>2. PICK h \in Seq({HoldRelease}) : outbox' = outbox \o h
      BY Zenon, <1>3, <2>1 DEF Carried
    <2>3. PICK m, n : Inserted(Queued, Queued', m, n)
      BY <2>1, <2>2, ReleasesComeBetween
    <2>4. PICK z, w : z = Queued' /\ w = buffered' \o wire'
      BY Zenon
    <2>5. q \in Seq(Commands) /\ Inserted(q, z, m, n)
      BY Zenon, <1>5, <2>3, <2>4, QueuedIs
    <2>6. \A d, y : Trails(q, d, y, v) => Trails(z, d, y, v)
      BY <2>5, TrailsAmong
    <2>7. OwnAwaited(z, v) => OwnAwaited(q, v)
      <3>1. \A i \in DOMAIN z : z[i] = HoldRelease \/ \E j \in DOMAIN q : z[i] = q[j]
        BY <2>5, InsertedOnly
      <3>2. HoldRelease.from # Connector
        BY Zenon DEF HoldRelease, Command, Actor, Connector
      <3> QED BY Zenon, <3>1, <3>2 DEF OwnAwaited
    <2>8. CASE x.result[Connector] = result[Connector]
      <3>1. OwnLine(w) => OwnLine(s)
        <4>1. \E a \in Nat : /\ Len(Rest(chunk) \o rest) = Len(chunk \o rest) - a
                             /\ \A i \in 1..Len(Rest(chunk) \o rest) : (Rest(chunk) \o rest)[i] = (chunk \o rest)[i + a]
          BY Zenon, <1>7, RestIs
        <4>2. PICK a \in Nat : Len(w) = Len(s) - a /\ \A i \in 1..Len(w) : w[i] = s[i + a]
          BY Zenon, <1>7, <2>1, <2>4, <4>1
        <4>3. w \in Seq(Halves) /\ s \in Seq(Halves)
          <5>1. Rest(chunk) \in Seq(Halves)
            BY <1>7, RestIs
          <5>2. Rest(chunk) \o rest \in Seq(Halves) /\ chunk \o rest \in Seq(Halves)
            BY Zenon, <1>7, <5>1, ConcatProperties
          <5> QED BY Zenon, <1>7, <2>1, <2>4, <5>2
        <4>4. Len(w) \in Nat /\ Len(s) \in Nat /\ DOMAIN w = 1..Len(w) /\ DOMAIN s = 1..Len(s)
          BY <4>3, LenProperties
        <4>5. \A i \in 1..Len(w) : i + a \in 1..Len(s)
          BY <4>2, <4>4
        <4> QED BY Zenon, <4>2, <4>4, <4>5 DEF OwnLine
      <3>2. Trails(q, Len(done), SentBy(c, st), v) => Trails(z, Len(done), SentBy(c, st), v)
        BY Zenon, <2>6
      <3>3. Shaken(z, w, done, c, st, v, "running")
        BY SMTT(30), <1>6, <2>7, <3>1, <3>2, ShakenKept
      <3> QED BY Zenon, <1>4, <1>5, <2>1, <2>4, <2>8, <3>3 DEF ShakenInv
    <2>9. CASE x.result[Connector] # result[Connector]
      <3>1. ~OwnLine(w)
        <4>1. pending' = None
          BY Zenon, <1>8, <2>1, <2>9
        <4>2. Quiet(buffered' \o wire')
          BY Zenon, <4>1 DEF XInv, Matched, Settled, Quiet
        <4>3. None # Connector
          BY DEF None, Connector
        <4> QED BY Zenon, <2>4, <4>2, <4>3 DEF OwnLine, Quiet
      <3>2. PICK ts : ts = x.result[Connector].st
        BY Zenon
      <3>3. Shaken(q, s, done, c, "waiting", v, "running") /\ OwnLine(s) /\ ts \notin {None, "waiting"}
        BY Zenon, <1>6, <1>8, <2>9, <3>2
      <3>4. Shaken(z, w, done, c, ts, v, "running")
        <4>1. Trails(q, Len(done), SentBy(c, "waiting"), v) => Trails(z, Len(done), SentBy(c, "waiting"), v)
          BY Zenon, <2>6
        <4> QED BY SMTT(30), <2>7, <3>1, <3>3, <4>1, ShakenTold
      <3> QED BY Zenon, <1>4, <1>5, <2>1, <2>4, <3>2, <3>4 DEF ShakenInv
    <2> QED BY <2>8, <2>9
  <1> QED BY <1>9, <1>10

\* The handshake goes on in order.
LEMMA ShakenInductive ==
  ASSUME XInv, XInv', ShakenInv, [MgmtNext]_mgmtVars
  PROVE  ShakenInv'
  <1>1. CASE ReadStep
    BY Zenon, <1>1, ReadS DEF ReadStep
  <1>2. CASE \E t \in Callers : GiveUp(t) \/ \E raw \in Params : Send(t, raw)
    BY Zenon, <1>2, OthersS
  <1> QED BY Zenon, <1>1, <1>2, OthersS, PeerReadsS, ConnectS, EndingS DEF MgmtNext, PeerStep

\* It starts so.
LEMMA ShakenInitially ==
  ASSUME MgmtInit, XInv
  PROVE  ShakenInv
  <1>1. PICK ver \in Versions : peer = [version |-> ver, alive |-> TRUE, held |-> TRUE, holds |-> 0, broke |-> FALSE,
                                        prompts |-> 0, got |-> {}, done |-> <<>>]
    BY Zenon DEF MgmtInit
  <1>2. peer.done = <<>>
    BY <1>1
  <1>3. peer.version \in Nat /\ connect = Greeting /\ actor = "running" /\ buffered = <<>>
    BY Zenon DEF MgmtInit, XInv
  <1>4. PICK q, s, st, v : q = Queued /\ s = buffered \o wire /\ st = result[Connector].st /\ v = peer.version
    BY Zenon
  <1>5. st = None
    <2>1. PICK out : out = Outcome(None)
      BY Zenon
    <2>2. out.st = None
      BY <2>1 DEF Outcome
    <2>3. result = [t \in Tasks |-> out]
      BY Zenon, <2>1 DEF MgmtInit
    <2>4. result[Connector] = out
      BY <2>3, PartiesDiffer
    <2> QED BY Zenon, <1>4, <2>2, <2>4
  <1>6. DOMAIN q = {}
    <2>1. (<<>> \o <<>>) \o <<>> = <<>> /\ DOMAIN <<>> = {}
      OBVIOUS
    <2> QED BY Zenon, <1>4, <2>1 DEF MgmtInit, Queued
  <1>7. Trails(q, 0, 0, v)
    <2>1. \A j \in DOMAIN q : q[j].from # Connector
      BY Zenon, <1>6
    <2> QED BY <2>1, TrailsNone
  <1>8. ~OwnLine(s)
    <2>1. pending = None
      BY Zenon DEF MgmtInit
    <2>2. Quiet(buffered \o wire)
      BY Zenon, <2>1 DEF XInv, Matched, Settled, Quiet
    <2>3. None # Connector
      BY DEF None, Connector
    <2> QED BY Zenon, <1>4, <2>2, <2>3 DEF OwnLine, Quiet
  <1>9. ~OwnAwaited(q, v)
    BY Zenon, <1>6 DEF OwnAwaited
  <1>10. /\ Greeting \in FailedAt..ConnectedAt /\ ~(Greeting >= 1) /\ Greeting # ConnectedAt
         /\ <<>> \in Seq(Verbs) /\ Len(<<>>) = 0 /\ 1..0 = {}
    BY PlacesAre
  <1>11. None # "SUCCESS"
    BY DEF None
  <1>12. SentBy(Greeting, st) = 0
    BY Zenon DEF SentBy
  <1>13. Shaken(q, s, <<>>, Greeting, st, v, "running")
    BY Zenon, <1>3, <1>4, <1>5, <1>7, <1>8, <1>9, <1>10, <1>11, <1>12 DEF Shaken
  <1> QED BY Zenon, <1>2, <1>3, <1>4, <1>13 DEF ShakenInv

\* The handshake is the function of its commands.
LEMMA HandshakeIsFunction == Handshake = [i \in 1..5 |-> Handshake[i]]
  BY DEF Handshake

\* A completed connect has had the whole handshake read.
LEMMA ShakenCompletes ==
  ASSUME ShakenInv, connect = ConnectedAt
  PROVE  peer.done = Handshake /\ peer.version >= 5
  <1>1. PICK done : done = peer.done
    BY Zenon
  <1>2. done \in Seq(Verbs) /\ Len(done) = 5 /\ (\A i \in 1..Len(done) : done[i] = Handshake[i])
    BY Zenon, <1>1 DEF ShakenInv, Shaken
  <1>3. ConnectedAt >= 1
    BY PlacesAre
  <1>4. peer.version >= 5
    BY Zenon, <1>3 DEF ShakenInv, Shaken
  <1>5. PICK shake : shake = Handshake
    BY Zenon
  <1>6. shake = [i \in 1..5 |-> shake[i]]
    BY Zenon, <1>5, HandshakeIsFunction
  <1>7. done = [i \in 1..5 |-> done[i]]
    BY <1>2
  <1>8. done = shake
    BY Zenon, <1>2, <1>5, <1>6, <1>7
  <1> QED BY Zenon, <1>1, <1>4, <1>5, <1>8

-----------------------------------------------------------------------------
(* No prompt is missed.                                                    *)

\* An open receiver.
Receiving(q, l, n) == [open |-> TRUE, queue |-> q, lagged |-> l, prompts |-> n]

\* The receiver that `connect` hands out, of the receivers f.
Handed(f, q, l, n) == "events" \in DOMAIN f /\ q \in Seq(Events) /\ f["events"] = Receiving(q, l, n)

\* Of n prompts sent, each is on its way, in the queue of the receiver that
\* `connect` hands out, or read from it, unless that one fell behind.
Heeded(f, a, n, stream) ==
    \E q, l, m :
      /\ Handed(f, q, l, m) /\ m \in Nat
      /\ \/ a = "ended" \/ l = TRUE
         \/ n = (CountOf(stream, PromptHalves) + CountOf(q, {"PASSWORD"})) + m

HeededInv == Heeded(feed, actor, peer.prompts, buffered \o wire)

\* Another queue for a receiver, and another `lagged`.
LEMMA ReceivingExcept ==
  ASSUME NEW u, NEW q, NEW l, NEW n, NEW g, g = [open |-> u, queue |-> q, lagged |-> l, prompts |-> n],
         NEW z, NEW w, NEW h, NEW k, h = [g EXCEPT !.queue = z], k = [g EXCEPT !.queue = z, !.lagged = w]
  PROVE  /\ h = [open |-> u, queue |-> z, lagged |-> l, prompts |-> n]
         /\ k = [open |-> u, queue |-> z, lagged |-> w, prompts |-> n]
  <1>1. h = [open |-> u, queue |-> z, lagged |-> l, prompts |-> n]
    OBVIOUS
  <1>2. k = [open |-> u, queue |-> z, lagged |-> w, prompts |-> n]
    BY Zenon
  <1> QED BY Zenon, <1>1, <1>2

\* A receiver gets the event, or falls behind.
LEMMA BroadcastIs ==
  ASSUME NEW f, NEW q, NEW l, NEW n, Handed(f, q, l, n), NEW e \in Events
  PROVE  Handed(Broadcast(f, e), Append(q, e), l, n) \/ \E z : Handed(Broadcast(f, e), z, TRUE, n)
  <1>0. "events" \in DOMAIN f /\ q \in Seq(Events) /\ f["events"] = Receiving(q, l, n)
    BY Zenon DEF Handed
  <1>1. PICK g : g = f["events"]
    BY Zenon
  <1>2. g = Receiving(q, l, n) /\ g.open = TRUE /\ g.queue = q
    BY <1>0, <1>1 DEF Receiving
  <1>3. PICK z : z = Append(Tail(q), e)
    BY Zenon
  <1>4. PICK y : y = Append(q, e)
    BY Zenon
  <1>5. /\ [g EXCEPT !.queue = Append(@, e)] = Receiving(y, l, n)
        /\ [g EXCEPT !.queue = Append(Tail(@), e), !.lagged = TRUE] = Receiving(z, TRUE, n)
    <2>1. PICK u : u = TRUE
      BY Zenon
    <2>2. g = [open |-> u, queue |-> q, lagged |-> l, prompts |-> n]
      BY Zenon, <1>2, <2>1 DEF Receiving
    <2>3. PICK h, k : h = [g EXCEPT !.queue = z] /\ k = [g EXCEPT !.queue = z, !.lagged = u]
      BY Zenon
    <2>4. k = [open |-> u, queue |-> z, lagged |-> u, prompts |-> n]
      BY Zenon, <2>2, <2>3, ReceivingExcept
    <2>5. PICK i, j : i = [g EXCEPT !.queue = y] /\ j = [g EXCEPT !.queue = y, !.lagged = u]
      BY Zenon
    <2>6. i = [open |-> u, queue |-> y, lagged |-> l, prompts |-> n]
      BY Zenon, <2>2, <2>5, ReceivingExcept
    <2> QED BY Zenon, <1>2, <1>3, <1>4, <2>1, <2>3, <2>4, <2>5, <2>6 DEF Receiving
  <1>6. PICK b : b = Broadcast(f, e)
    BY Zenon
  <1>7. /\ "events" \in DOMAIN b
        /\ b["events"] = CASE ~g.open -> g
                           [] g.open /\ Len(g.queue) < EventChannel -> [g EXCEPT !.queue = Append(@, e)]
                           [] OTHER -> [g EXCEPT !.queue = Append(Tail(@), e), !.lagged = TRUE]
    BY Zenon, <1>0, <1>1, <1>6 DEF Broadcast
  <1>8. CASE Len(q) < EventChannel
    <2>1. b["events"] = [g EXCEPT !.queue = Append(@, e)]
      BY Zenon, <1>2, <1>7, <1>8
    <2>2. y \in Seq(Events)
      BY <1>0, <1>4, AppendProperties
    <2> QED BY Zenon, <1>4, <1>5, <1>6, <1>7, <2>1, <2>2 DEF Handed
  <1>9. CASE ~(Len(q) < EventChannel)
    <2>1. b["events"] = [g EXCEPT !.queue = Append(Tail(@), e), !.lagged = TRUE]
      BY Zenon, <1>2, <1>7, <1>9
    <2>2. q # <<>>
      <3>1. EventChannel \in Nat /\ EventChannel # 0 /\ Len(q) \in Nat
        BY <1>0, MgmtClientAssumption, LenProperties
      <3>2. Len(q) # 0
        BY SMTT(30), <1>9, <3>1
      <3> QED BY <1>0, <3>2
    <2>3. z \in Seq(Events)
      <3>1. Tail(q) \in Seq(Events)
        BY <1>0, <2>2, HeadTailProperties
      <3> QED BY <1>3, <3>1, AppendProperties
    <2> QED BY Zenon, <1>5, <1>6, <1>7, <2>1, <2>3 DEF Handed
  <1> QED BY Zenon, <1>8, <1>9

\* What a receiver with queue q0 has got of the first k halves of a chunk.
Heard(x, chunk, k, q0, l0, n) ==
    \E q, l :
      /\ Handed(x.feed, q, l, n)
      /\ \/ x.actor = "ended" \/ l = TRUE
         \/ /\ l = l0
            /\ CountOf(q, {"PASSWORD"}) = CountOf(q0, {"PASSWORD"}) + CountOf(SubSeq(chunk, 1, k), PromptHalves)

\* One half more of a chunk, in counting.
LEMMA CountUpto ==
  ASSUME NEW chunk \in Seq(Halves), NEW k \in 1..Len(chunk), NEW half, half = chunk[k]
  PROVE  /\ CountOf(SubSeq(chunk, 1, k - 1), PromptHalves) \in Nat
         /\ CountOf(SubSeq(chunk, 1, k), PromptHalves)
              = CountOf(SubSeq(chunk, 1, k - 1), PromptHalves) + (IF half \in PromptHalves THEN 1 ELSE 0)
  <1>1. PICK s, t : s = SubSeq(chunk, 1, k - 1) /\ t = SubSeq(chunk, 1, k)
    BY Zenon
  <1>2. half \in Halves
    BY ElementOfSeq
  <1>3. s \in Seq(Halves) /\ t = Append(s, half)
    BY <1>1, <1>2
  <1>4. CountOf(Append(s, half), PromptHalves) = CountOf(s, PromptHalves) + (IF half \in PromptHalves THEN 1 ELSE 0)
    BY SMTT(30), <1>2, <1>3, CountAppend
  <1>5. CountOf(s, PromptHalves) \in Nat
    BY SMTT(30), <1>3, CountIsNat
  <1> QED BY Zenon, <1>1, <1>3, <1>4, <1>5

\* What a line is in that count.
LEMMA HeardStep ==
  ASSUME NEW chunk \in Seq(Halves), NEW k \in 1..Len(chunk), NEW x, NEW stream, NEW p, NEW b,
         RoutedUpto(x, stream, k - 1, p, b), NEW q0 \in Seq(Events), NEW l0, NEW n,
         Heard(x, chunk, k - 1, q0, l0, n)
  PROVE  Heard(RouteNext(x, chunk[k]), chunk, k, q0, l0, n)
  <1>1. PICK half \in Halves : half = chunk[k]
    BY ElementOfSeq
  <1>2. PICK line \in Lines : line = half.line
    BY DEF Halves
  <1>3. PICK q, l :
          /\ Handed(x.feed, q, l, n)
          /\ \/ x.actor = "ended" \/ l = TRUE
             \/ /\ l = l0
                /\ CountOf(q, {"PASSWORD"})
                     = CountOf(q0, {"PASSWORD"}) + CountOf(SubSeq(chunk, 1, k - 1), PromptHalves)
    BY Zenon DEF Heard
  <1>4. PICK j, i, c, c0 : /\ j = CountOf(SubSeq(chunk, 1, k - 1), PromptHalves) /\ i = CountOf(SubSeq(chunk, 1, k), PromptHalves)
                           /\ c = CountOf(q, {"PASSWORD"}) /\ c0 = CountOf(q0, {"PASSWORD"})
    BY Zenon
  <1>5. j \in Nat /\ i = j + (IF half \in PromptHalves THEN 1 ELSE 0)
    BY Zenon, <1>1, <1>4, CountUpto
  <1>6. c \in Nat /\ c0 \in Nat
    BY Zenon, <1>3, <1>4, CountIsNat DEF Handed
  <1>7. half \in PromptHalves <=> half.part = 2 /\ line.frame = "PASSWORD"
    BY Zenon, <1>2 DEF PromptHalves
  <1>8. x.actor \in {"running", "ended"}
    BY Zenon DEF RoutedUpto
  <1>9. PICK y : y = RouteNext(x, half)
    BY Zenon
  <1>10. CASE ~(half.part = 2 /\ x.actor = "running")
    <2>1. y = x
      BY Zenon, <1>9, <1>10 DEF RouteNext
    <2>2. x.actor = "ended" \/ i = j
      <3>1. CASE x.actor = "ended"
        BY Zenon, <3>1
      <3>2. CASE half.part # 2
        BY SMTT(30), <1>5, <1>7, <3>2
      <3> QED BY Zenon, <1>8, <1>10, <3>1, <3>2
    <2> QED BY Zenon, <1>1, <1>3, <1>4, <1>8, <1>9, <2>1, <2>2 DEF Heard
  <1>11. CASE half.part = 2 /\ x.actor = "running"
    <2>1. PICK o, s, d, r, f, a : /\ o = x.outbox /\ s = x.pending /\ d = x.body
                                  /\ r = x.result /\ f = x.feed /\ a = x.actor
      BY Zenon
    <2>2. x = Routing(o, s, d, r, f, a)
      BY Zenon, <2>1 DEF RoutedUpto
    <2>3. y = RouteLine(Routing(o, s, d, r, f, a), line)
      BY Zenon, <1>2, <1>9, <1>11, <2>2 DEF RouteNext
    <2>4. CASE line.frame \in Events
      <3>1. PICK o2, f2, a2 : o2 = OutboxAfter(o, line) /\ f2 = FeedAfter(f, line) /\ a2 = ActorAfter(a, line)
        BY Zenon
      <3>2. y = Routing(o2, s, d, r, f2, a2)
        BY SMTT(30), <2>3, <2>4, <3>1, RouteLineIs
      <3>3. y.feed = f2 /\ y.actor = a2
        BY <3>2, RoutingFields
      <3>4. CASE line.frame = "UPDOWN"
        <4>1. f2 = f /\ a2 = "ended"
          BY Zenon, <3>1, <3>4 DEF FeedAfter, ActorAfter
        <4> QED BY Zenon, <1>1, <1>3, <1>8, <1>9, <2>1, <3>3, <4>1 DEF Heard
      <3>5. CASE line.frame # "UPDOWN"
        <4>1. PICK e : e = line.frame
          BY Zenon
        <4>2. f2 = Broadcast(f, e) /\ a2 = a /\ e \in Events
          BY Zenon, <2>4, <3>1, <3>5, <4>1 DEF FeedAfter, ActorAfter
        <4>3. Handed(f, q, l, n)
          BY Zenon, <1>3, <2>1
        <4>4. Handed(f2, Append(q, e), l, n) \/ \E z : Handed(f2, z, TRUE, n)
          BY Zenon, <4>2, <4>3, BroadcastIs
        <4>5. CASE \E z : Handed(f2, z, TRUE, n)
          BY Zenon, <1>1, <1>9, <3>3, <4>5 DEF Heard
        <4>6. CASE Handed(f2, Append(q, e), l, n)
          <5>1. PICK z : z = Append(q, e)
            BY Zenon
          <5>2. q \in Seq(Events)
            BY Zenon, <4>3 DEF Handed
          <5>3. CountOf(z, {"PASSWORD"}) = c + (IF e \in {"PASSWORD"} THEN 1 ELSE 0)
            BY Zenon, <1>4, <4>2, <5>1, <5>2, CountAppend
          <5>4. e \in {"PASSWORD"} <=> half \in PromptHalves
            BY Zenon, <1>7, <1>11, <4>1
          <5>5. c = c0 + j => CountOf(z, {"PASSWORD"}) = c0 + i
            <6>1. PICK u \in {0, 1} : u = IF half \in PromptHalves THEN 1 ELSE 0
              BY Zenon
            <6>2. i = j + u /\ CountOf(z, {"PASSWORD"}) = c + u
              BY Zenon, <1>5, <5>3, <5>4, <6>1
            <6> QED BY SMTT(30), <1>5, <1>6, <6>2
          <5> QED BY Zenon, <1>1, <1>3, <1>4, <1>9, <2>1, <3>3, <4>2, <4>6, <5>1, <5>5 DEF Heard
        <4> QED BY Zenon, <4>4, <4>5, <4>6
      <3> QED BY <3>4, <3>5
    <2>5. CASE line.frame \notin Events
      <3>1. \E o2, s2, d2, r2 : y = Routing(o2, s2, d2, r2, f, a)
        <4>1. CASE s = None
          <5>1. y = Routing(o, s, <<>>, r, f, a)
            BY SMTT(30), <2>3, <2>5, <4>1, RouteLineIs
          <5> QED BY Zenon, <5>1
        <4>2. CASE s # None /\ line.frame = "DATA"
          <5>1. y = Routing(o, s, Append(d, line.of), r, f, a)
            BY <2>3, <4>2, RouteLineIs
          <5> QED BY Zenon, <5>1
        <4>3. CASE s # None /\ line.frame # "DATA"
          <5>1. y = Routing(o, None, <<>>, Answer(r, s, Replied(line, d)), f, a)
            BY <2>3, <2>5, <4>3, RouteLineIs
          <5> QED BY Zenon, <5>1
        <4> QED BY <4>1, <4>2, <4>3
      <3>2. PICK o2, s2, d2, r2 : y = Routing(o2, s2, d2, r2, f, a)
        BY Zenon, <3>1
      <3>4. y.feed = f /\ y.actor = a
        BY <3>2, RoutingFields
      <3>3. i = j
        <4>1. "PASSWORD" \in Events
          BY DEF Events
        <4>2. half \notin PromptHalves
          BY Zenon, <1>7, <2>5, <4>1
        <4> QED BY <1>5, <4>2
      <3> QED BY Zenon, <1>1, <1>3, <1>4, <1>8, <1>9, <2>1, <3>4, <3>3 DEF Heard
    <2> QED BY <2>4, <2>5
  <1> QED BY <1>10, <1>11

\* Of what a read leaves, all the prompts of it are in the part not read.
LEMMA RestCounts ==
  ASSUME NEW chunk \in Seq(Halves), NEW rest \in Seq(Halves)
  PROVE  /\ CountOf(chunk \o rest, PromptHalves) = CountOf(chunk, PromptHalves) + CountOf(rest, PromptHalves)
         /\ CountOf(Rest(chunk) \o rest, PromptHalves) = CountOf(rest, PromptHalves)
         /\ CountOf(chunk, PromptHalves) \in Nat /\ CountOf(rest, PromptHalves) \in Nat
  <1>1. CountOf(chunk \o rest, PromptHalves) = CountOf(chunk, PromptHalves) + CountOf(rest, PromptHalves)
    BY CountCat
  <1>2. CountOf(chunk, PromptHalves) \in Nat /\ CountOf(rest, PromptHalves) \in Nat
    BY CountIsNat
  <1>3. PICK t \in Seq(Halves) : t = Rest(chunk)
    BY RestIs
  <1>4. CountOf(t, PromptHalves) = 0
    <2>1. CASE chunk # <<>> /\ chunk[Len(chunk)].part = 1
      <3>1. PICK h : h = chunk[Len(chunk)]
        BY Zenon
      <3>2. t = <<h>> /\ h \notin PromptHalves
        BY SMTT(30), <1>3, <2>1, <3>1 DEF Rest, PromptHalves
      <3> QED BY Zenon, <3>2, CountOne
    <2>2. CASE ~(chunk # <<>> /\ chunk[Len(chunk)].part = 1)
      <3>1. t = <<>>
        BY Zenon, <1>3, <2>2 DEF Rest
      <3>2. DOMAIN t = {}
        BY <3>1
      <3> QED BY <3>2, CountNone
    <2> QED BY <2>1, <2>2
  <1>5. CountOf(t \o rest, PromptHalves) = CountOf(t, PromptHalves) + CountOf(rest, PromptHalves)
    BY CountCat
  <1>6. CountOf(t \o rest, PromptHalves) = CountOf(rest, PromptHalves)
    BY SMTT(30), <1>2, <1>4, <1>5
  <1> QED BY Zenon, <1>1, <1>2, <1>3, <1>6

\* A read passes every prompt it completes to the receiver.
LEMMA ReadH ==
  ASSUME XInv, HeededInv, NEW n \in 1..Len(wire), Read(n)
  PROVE  HeededInv'
  <1>1. PICK chunk, rest, r : RoutedBy(chunk, rest, r)
    BY ReadRouted
  <1>2. /\ chunk \in Seq(Halves) /\ rest \in Seq(Halves) /\ chunk \o rest = buffered \o wire
        /\ ReadsBy(chunk, rest, r)
    BY Zenon, <1>1 DEF RoutedBy, ReadsBy
  <1>3. peer' = peer /\ actor = "running"
    BY Zenon, ReadIs
  <1>4. PICK q, l, m :
          /\ Handed(feed, q, l, m) /\ m \in Nat
          /\ l = TRUE \/ peer.prompts = (CountOf(chunk \o rest, PromptHalves) + CountOf(q, {"PASSWORD"})) + m
    <2>1. actor # "ended"
      BY <1>3
    <2> QED BY Zenon, <1>2, <2>1 DEF HeededInv, Heeded
  <1>5. PICK k \in Nat : k = Len(chunk)
    BY <1>2, LenProperties
  <1>6. PICK stream, p, b : stream = chunk \o rest /\ p = pending /\ b = body
    BY Zenon
  <1>7. /\ \A j \in 0..k : RoutedUpto(r[j], stream, j, p, b)
        /\ \A j \in 1..k : r[j] = RouteNext(r[j - 1], chunk[j])
        /\ r[0] = Routing(outbox, pending, body, result, feed, actor)
    BY Zenon, <1>1, <1>5, <1>6 DEF RoutedBy, RouteTrace
  <1>8. q \in Seq(Events) /\ CountOf(q, {"PASSWORD"}) \in Nat
    <2>1. q \in Seq(Events)
      BY Zenon, <1>4 DEF Handed
    <2> QED BY <2>1, CountIsNat
  <1> DEFINE G == {j \in 0..k : Heard(r[j], chunk, j, q, l, m)}
  <1>9. 0 \in G
    <2>1. r[0].feed = feed
      BY <1>7, RoutingFields
    <2>2. PICK s : s = SubSeq(chunk, 1, 0)
      BY Zenon
    <2>3. DOMAIN s = {} /\ 0 \in 0..k
      BY <1>2, <2>2
    <2>4. CountOf(s, PromptHalves) = 0
      BY <2>3, CountNone
    <2>5. CountOf(q, {"PASSWORD"}) = CountOf(q, {"PASSWORD"}) + CountOf(s, PromptHalves)
      BY <1>8, <2>4
    <2> QED BY Zenon, <1>4, <2>1, <2>2, <2>3, <2>5 DEF Heard
  <1>10. ASSUME NEW j \in 1..k, j - 1 \in G PROVE j \in G
    <2>1. j \in 1..Len(chunk) /\ j \in 0..k /\ j - 1 \in 0..k
      BY <1>5
    <2>2. PICK x : x = r[j - 1]
      BY Zenon
    <2>3. RoutedUpto(x, stream, j - 1, p, b) /\ Heard(x, chunk, j - 1, q, l, m)
      BY Zenon, <1>7, <1>10, <2>1, <2>2
    <2>4. Heard(RouteNext(x, chunk[j]), chunk, j, q, l, m)
      BY SMTT(30), <1>2, <1>8, <2>1, <2>3, HeardStep
    <2> QED BY Zenon, <1>7, <2>1, <2>2, <2>4
  <1>11. k \in G
    <2>1. G \in SUBSET (0..k) /\ k \in 0..k
      OBVIOUS
    <2> HIDE DEF G
    <2> QED BY Zenon, <1>9, <1>10, <2>1, IndexInduction
  <1>12. PICK x : x = r[k]
    BY Zenon
  <1>13. SubSeq(chunk, 1, k) = chunk
    BY <1>2, <1>5
  <1>14. PICK z, y : /\ Handed(x.feed, z, y, m)
                     /\ \/ x.actor = "ended" \/ y = TRUE
                        \/ y = l /\ CountOf(z, {"PASSWORD"}) = CountOf(q, {"PASSWORD"}) + CountOf(chunk, PromptHalves)
    BY Zenon, <1>11, <1>12, <1>13 DEF Heard
  <1>15. feed' = x.feed /\ (x.actor = "ended" => End(x.result))
         /\ (x.actor # "ended" => wire' = rest /\ buffered' = Rest(chunk))
    BY Zenon, <1>2, <1>5, <1>12 DEF ReadsBy
  <1>16. CASE x.actor = "ended"
    <2>1. actor' = "ended"
      BY Zenon, <1>15, <1>16 DEF End
    <2> QED BY Zenon, <1>4, <1>14, <1>15, <2>1 DEF HeededInv, Heeded
  <1>17. CASE x.actor # "ended"
    <2>1. y = TRUE \/ peer.prompts = (CountOf(Rest(chunk) \o rest, PromptHalves) + CountOf(z, {"PASSWORD"})) + m
      <3>1. PICK a, d, c, e, f : /\ a = CountOf(chunk, PromptHalves) /\ d = CountOf(rest, PromptHalves)
                                 /\ c = CountOf(q, {"PASSWORD"}) /\ e = CountOf(z, {"PASSWORD"}) /\ f = peer.prompts
        BY Zenon
      <3>2. /\ CountOf(chunk \o rest, PromptHalves) = a + d /\ CountOf(Rest(chunk) \o rest, PromptHalves) = d
            /\ a \in Nat /\ d \in Nat /\ c \in Nat
        BY Zenon, <1>2, <1>8, <3>1, RestCounts
      <3>3. y = TRUE \/ (f = ((a + d) + c) + m /\ e = c + a)
        BY Zenon, <1>4, <1>14, <1>17, <3>1, <3>2
      <3>4. f = ((a + d) + c) + m /\ e = c + a => f = (d + e) + m
        BY <1>4, <3>2
      <3> QED BY Zenon, <3>1, <3>2, <3>3, <3>4
    <2> QED BY Zenon, <1>3, <1>4, <1>14, <1>15, <1>17, <2>1 DEF HeededInv, Heeded
  <1> QED BY SMTT(30), <1>16, <1>17

\* openvpn writes at the end of what is on its way.
LEMMA WireGrows ==
  ASSUME XInv, NEW x \in Seq(Halves), wire' = wire \o x, buffered' = buffered
  PROVE  buffered' \o wire' = (buffered \o wire) \o x /\ buffered \o wire \in Seq(Halves)
  <1>1. PICK b, w, S : b = buffered /\ w = wire /\ S = Halves
    BY Zenon
  <1>2. b \in Seq(S) /\ w \in Seq(S) /\ x \in Seq(S)
    BY Zenon, <1>1 DEF XInv
  <1>3. (b \o w) \o x = b \o (w \o x)
    BY SMTT(30), <1>2, ConcatAssociative
  <1>4. b \o w \in Seq(S)
    BY <1>2, ConcatProperties
  <1> QED BY Zenon, <1>1, <1>3, <1>4

\* More on the wire, with as many prompts as openvpn counts.
LEMMA HeededWired ==
  ASSUME XInv, HeededInv, NEW lines \in Seq(Lines), NEW n \in {0, 1},
         n = 0 => \A i \in 1..Len(lines) : lines[i].frame # "PASSWORD",
         n = 1 => Len(lines) >= 1 /\ \A i \in 1..Len(lines) : lines[i].frame = "PASSWORD" <=> i = Len(lines),
         wire' = wire \o Wired(lines), buffered' = buffered, feed' = feed, actor' = actor,
         peer'.prompts = peer.prompts + n
  PROVE  HeededInv'
  <1>1. PICK x : x = Wired(lines)
    BY Zenon
  <1>2. x \in Seq(Halves)
    BY <1>1, WiredIs
  <1>3. CountOf(x, PromptHalves) = n
    BY <1>1, PromptsWired
  <1>4. PICK s : s = buffered \o wire
    BY Zenon
  <1>5. wire' = wire \o x
    BY Zenon, <1>1
  <1>6. buffered' \o wire' = (buffered \o wire) \o x /\ buffered \o wire \in Seq(Halves)
    BY Zenon, <1>2, <1>5, WireGrows
  <1>7. buffered' \o wire' = s \o x /\ s \in Seq(Halves)
    BY Zenon, <1>4, <1>6
  <1>8. CountOf(s \o x, PromptHalves) = CountOf(s, PromptHalves) + CountOf(x, PromptHalves)
    BY SMTT(30), <1>2, <1>7, CountCat
  <1>9. CountOf(s, PromptHalves) \in Nat
    BY <1>7, CountIsNat
  <1>10. PICK q, l, m : /\ Handed(feed, q, l, m) /\ m \in Nat
                        /\ \/ actor = "ended" \/ l = TRUE
                           \/ peer.prompts = (CountOf(s, PromptHalves) + CountOf(q, {"PASSWORD"})) + m
    BY Zenon, <1>4 DEF HeededInv, Heeded
  <1>11. CountOf(q, {"PASSWORD"}) \in Nat
    BY <1>10, CountIsNat DEF Handed
  <1>12. peer.prompts = (CountOf(s, PromptHalves) + CountOf(q, {"PASSWORD"})) + m =>
           peer.prompts + n = (CountOf(s \o x, PromptHalves) + CountOf(q, {"PASSWORD"})) + m
    <2>1. PICK c, d, e, f : /\ c = CountOf(s, PromptHalves) /\ d = CountOf(q, {"PASSWORD"}) /\ e = CountOf(s \o x, PromptHalves)
                            /\ f = peer.prompts
      BY Zenon
    <2>2. c \in Nat /\ d \in Nat /\ m \in Nat /\ e = c + n
      BY Zenon, <1>3, <1>8, <1>9, <1>10, <1>11, <2>1
    <2>3. n \in Nat
      OBVIOUS
    <2>4. f = (c + d) + m => f + n = (e + d) + m
      BY <2>2, <2>3
    <2> QED BY Zenon, <2>1, <2>4
  <1>13. \/ actor' = "ended" \/ l = TRUE
         \/ peer'.prompts = (CountOf(buffered' \o wire', PromptHalves) + CountOf(q, {"PASSWORD"})) + m
    BY Zenon, <1>7, <1>10, <1>12
  <1> QED BY Zenon, <1>10, <1>13 DEF HeededInv, Heeded

\* openvpn writes.
LEMMA PeerH ==
  ASSUME XInv, HeededInv, PeerStep
  PROVE  HeededInv'
  <1>1. CASE PeerHolds \/ PeerBreaks
    <2>1. PICK f \in {"HOLD", "UPDOWN"} : wire' = wire \o Wired(<<Line(f, None)>>)
      BY Zenon, <1>1 DEF PeerHolds, PeerBreaks
    <2>2. f \in Events /\ f # "PASSWORD"
      BY DEF Events
    <2>3. PICK lines : lines = <<Line(f, None)>>
      BY Zenon
    <2>4. lines \in Seq(Lines) /\ Len(lines) = 1 /\ lines[1].frame = f
      BY SMTT(30), <2>2, <2>3, EventWired
    <2>5. \A i \in 1..Len(lines) : lines[i].frame # "PASSWORD"
      BY <2>2, <2>4
    <2>6. PeerKept /\ buffered' = buffered /\ feed' = feed /\ actor' = actor
      BY Zenon, <1>1, PeerEventIs DEF PeerHolds, PeerBreaks, XInv
    <2>7. PICK q, l, m : /\ Handed(feed, q, l, m) /\ m \in Nat
                         /\ \/ actor = "ended" \/ l = TRUE
                            \/ peer.prompts = (CountOf(buffered \o wire, PromptHalves) + CountOf(q, {"PASSWORD"})) + m
      BY Zenon DEF HeededInv, Heeded
    <2>8. CASE actor = "ended" \/ l = TRUE
      BY Zenon, <2>6, <2>7, <2>8 DEF HeededInv, Heeded
    <2>9. CASE peer.prompts = (CountOf(buffered \o wire, PromptHalves) + CountOf(q, {"PASSWORD"})) + m
      <3>1. buffered \o wire \in Seq(Halves) /\ q \in Seq(Events)
        <4>1. PICK b, w, S : b = buffered /\ w = wire /\ S = Halves
          BY Zenon
        <4>2. b \in Seq(S) /\ w \in Seq(S)
          BY Zenon, <4>1 DEF XInv
        <4>3. b \o w \in Seq(S)
          BY <4>2, ConcatProperties
        <4> QED BY Zenon, <2>7, <4>1, <4>3 DEF Handed
      <3>2. CountOf(buffered \o wire, PromptHalves) \in Nat /\ CountOf(q, {"PASSWORD"}) \in Nat
        BY Zenon, <3>1, CountIsNat
      <3>3. peer.prompts \in Nat
        BY <2>7, <2>9, <3>2
      <3>4. peer'.prompts = peer.prompts + 0
        BY <2>6, <3>3 DEF PeerKept
      <3>5. 0 \in {0, 1} /\ 0 # 1 /\ wire' = wire \o Wired(lines)
        BY <2>1, <2>3
      <3> QED BY Zenon, <2>4, <2>5, <2>6, <3>4, <3>5, HeededWired
    <2> QED BY Zenon, <2>7, <2>8, <2>9
  <1>2. CASE PeerStops
    <2>1. PeerKept /\ buffered' = buffered /\ wire' = wire /\ feed' = feed /\ actor' = actor
      BY Zenon, <1>2, PeerEventIs DEF PeerStops, XInv
    <2> QED BY Zenon, <2>1 DEF PeerKept, HeededInv
  <1>3. ASSUME toPeer # <<>>, NEW shape \in Shapes(Head(toPeer)), PeerReads(shape)
        PROVE  HeededInv'
    <2>1. PICK lines, n : /\ Sends(lines, Head(toPeer), n, peer.version) /\ PeerAfter(Head(toPeer), n)
                          /\ wire' = wire \o Wired(lines)
      BY Zenon, <1>3, PeerReadsIs
    <2>2. buffered' = buffered /\ feed' = feed /\ actor' = actor
      BY Zenon, <1>3 DEF PeerReads
    <2>3. /\ lines \in Seq(Lines) /\ n \in {0, 1}
          /\ n = 0 => \A i \in 1..Len(lines) : lines[i].frame # "PASSWORD"
          /\ n = 1 => Len(lines) >= 1 /\ \A i \in 1..Len(lines) : lines[i].frame = "PASSWORD" <=> i = Len(lines)
      BY Zenon, <2>1 DEF Sends
    <2>4. peer'.prompts = peer.prompts + n
      BY Zenon, <2>1 DEF PeerAfter
    <2> QED BY Zenon, <2>1, <2>2, <2>3, <2>4, HeededWired
  <1> QED BY Zenon, <1>1, <1>2, <1>3 DEF PeerStep

\* Whoever connected reads an event.
LEMMA ReceiveH ==
  ASSUME XInv, HeededInv, Receive
  PROVE  HeededInv'
  <1>1. PICK q, l, m : /\ Handed(feed, q, l, m) /\ m \in Nat
                       /\ \/ actor = "ended" \/ l = TRUE
                          \/ peer.prompts = (CountOf(buffered \o wire, PromptHalves) + CountOf(q, {"PASSWORD"})) + m
    BY Zenon DEF HeededInv, Heeded
  <1>2. "events" \in DOMAIN feed /\ q \in Seq(Events) /\ feed["events"] = Receiving(q, l, m)
    BY Zenon, <1>1 DEF Handed
  <1>3. feed["events"].queue = q /\ feed["events"].prompts = m
    BY <1>2 DEF Receiving
  <1>4. q # <<>>
    BY Zenon, <1>3 DEF Receive
  <1>5. PICK u : u = IF Head(q) = "PASSWORD" THEN 1 ELSE 0
    BY Zenon
  <1>6. u \in Nat
    BY <1>5
  <1>7. PICK z \in Seq(Events) : z = Tail(q)
    BY Zenon, <1>2, <1>4, HeadTailProperties
  <1>8. Handed(feed', z, l, m + u)
    <2>1. PICK g, y : g = feed /\ y = m + u
      BY Zenon
    <2>2. feed' = [g EXCEPT !["events"].queue = z, !["events"].prompts = y]
      BY Zenon, <1>3, <1>5, <1>7, <2>1 DEF Receive
    <2>3. PICK h : h = [g EXCEPT !["events"].queue = z]
      BY Zenon
    <2>4. PICK t : t = TRUE
      BY Zenon
    <2>5. PICK e : e = g["events"]
      BY Zenon
    <2>6. e = [open |-> t, queue |-> q, lagged |-> l, prompts |-> m]
      BY Zenon, <1>2, <2>1, <2>4, <2>5 DEF Receiving
    <2>7. PICK e2 : e2 = [e EXCEPT !.queue = z]
      BY Zenon
    <2>8. e2 = [open |-> t, queue |-> z, lagged |-> l, prompts |-> m]
      BY <2>6, <2>7
    <2>9. PICK e3 : e3 = [e2 EXCEPT !.prompts = y]
      BY Zenon
    <2>10. e3 = [open |-> t, queue |-> z, lagged |-> l, prompts |-> y]
      BY <2>8, <2>9
    <2>11. "events" \in DOMAIN g
      BY Zenon, <1>2, <2>1
    <2>12. DOMAIN h = DOMAIN g /\ h["events"] = e2
      BY SMTT(30), <2>3, <2>5, <2>7, <2>11
    <2>13. feed' = [h EXCEPT !["events"].prompts = y]
      BY <2>2, <2>3
    <2>14. "events" \in DOMAIN feed' /\ feed'["events"] = e3
      BY SMTT(30), <2>9, <2>11, <2>12, <2>13
    <2> QED BY Zenon, <2>1, <2>4, <2>10, <2>14 DEF Handed, Receiving
  <1>9. CountOf(q, {"PASSWORD"}) = u + CountOf(z, {"PASSWORD"})
    <2>1. CountOf(q, {"PASSWORD"}) = (IF Head(q) \in {"PASSWORD"} THEN 1 ELSE 0) + CountOf(Tail(q), {"PASSWORD"})
      BY SMTT(30), <1>2, <1>4, CountHead
    <2> QED BY Zenon, <1>5, <1>7, <2>1
  <1>10. CountOf(z, {"PASSWORD"}) \in Nat
    BY CountIsNat
  <1>11. actor' = actor /\ peer' = peer /\ buffered' = buffered /\ wire' = wire
    BY Zenon DEF Receive
  <1>12. peer.prompts = (CountOf(buffered \o wire, PromptHalves) + CountOf(q, {"PASSWORD"})) + m
           => peer.prompts = (CountOf(buffered \o wire, PromptHalves) + CountOf(z, {"PASSWORD"})) + (m + u)
    <2>1. PICK b, w, S : b = buffered /\ w = wire /\ S = Halves
      BY Zenon
    <2>2. b \in Seq(S) /\ w \in Seq(S)
      BY Zenon, <2>1 DEF XInv
    <2>3. b \o w \in Seq(S)
      BY <2>2, ConcatProperties
    <2>4. PICK c, d, e, f : /\ c = CountOf(b \o w, PromptHalves) /\ d = CountOf(q, {"PASSWORD"})
                            /\ e = CountOf(z, {"PASSWORD"}) /\ f = peer.prompts
      BY Zenon
    <2>5. c \in Nat
      BY Zenon, <2>3, <2>4, CountIsNat
    <2>6. d = u + e /\ e \in Nat /\ m \in Nat
      BY Zenon, <1>1, <1>9, <1>10, <2>4
    <2>7. f = (c + d) + m => f = (c + e) + (m + u)
      BY SMTT(30), <1>6, <2>5, <2>6
    <2> QED BY Zenon, <2>1, <2>4, <2>7
  <1>13. m + u \in Nat
    BY <1>1, <1>6
  <1> QED BY Zenon, <1>1, <1>8, <1>11, <1>12, <1>13 DEF HeededInv, Heeded

\* Every prompt is accounted for.
LEMMA HeededInductive ==
  ASSUME XInv, HeededInv, [MgmtNext]_mgmtVars
  PROVE  HeededInv'
  <1>1. ASSUME feed' = feed, actor' = actor, peer' = peer, wire' = wire, buffered' = buffered
        PROVE  HeededInv'
    BY Zenon, <1>1 DEF HeededInv
  <1>2. ASSUME feed' = feed, actor' = "ended"
        PROVE  HeededInv'
    BY Zenon, <1>2 DEF HeededInv, Heeded
  <1>3. CASE ConnectFails \/ Expired \/ ReadEof \/ ClientDropped \/ NoGreeting
    BY Zenon, <1>2, <1>3 DEF ConnectFails, Expired, ReadEof, ClientDropped, NoGreeting, End
  <1>4. CASE Greeted
    <2>1. CASE ConnectFails
      BY Zenon, <1>3, <2>1
    <2>2. CASE ~ConnectFails
      <3>1. UNCHANGED <<peer, toPeer, wire, buffered, body, outbox, pending, channel, actor, result, typed>>
        BY Zenon, <1>4, <2>2, GreetedIs
      <3>2. PICK g, y : g = feed /\ feed' = [g EXCEPT !["greeting"] = y]
        <4>1. PICK lag, first, v : lag = feed["greeting"].lagged /\ first = Head(feed["greeting"].queue) /\ v = peer.version
          BY Zenon
        <4>2. \E y : feed' = [feed EXCEPT !["greeting"] = y]
          <5>1. v < 5 \/ v >= 5
            BY <4>1 DEF XInv
          <5>2. (lag \/ (first = "INFO" /\ v < 5)) \/ (~lag /\ (first = "INFO" => v >= 5))
            BY Zenon, <5>1
          <5> QED BY Zenon, <1>4, <2>2, <4>1, <5>2 DEF Greeted
        <4> QED BY Zenon, <4>2
      <3>3. PICK q, l, m : /\ Handed(feed, q, l, m) /\ m \in Nat
                           /\ \/ actor = "ended" \/ l = TRUE
                              \/ peer.prompts = (CountOf(buffered \o wire, PromptHalves) + CountOf(q, {"PASSWORD"})) + m
        BY Zenon DEF HeededInv, Heeded
      <3>4. "events" \in DOMAIN g /\ "events" # "greeting"
        BY <3>2, <3>3 DEF Handed
      <3>5. "events" \in DOMAIN feed' /\ feed'["events"] = g["events"]
        BY Zenon, <3>2, <3>4
      <3>6. Handed(feed', q, l, m)
        BY Zenon, <3>2, <3>3, <3>5 DEF Handed
      <3> QED BY Zenon, <3>1, <3>3, <3>6 DEF HeededInv, Heeded
    <2> QED BY <2>1, <2>2
  <1>5. CASE HandshakeGoesOn
    BY Zenon, <1>1, <1>3, <1>5 DEF HandshakeGoesOn
  <1>6. CASE Write \/ TakeCommand \/ HandshakeSends \/ UNCHANGED mgmtVars
    BY Zenon, <1>1, <1>6 DEF Write, TakeCommand, HandshakeSends, mgmtVars
  <1>7. CASE \E t \in Callers : GiveUp(t) \/ \E raw \in Params : Send(t, raw)
    BY Zenon, <1>1, <1>7 DEF GiveUp, Send
  <1>8. CASE ReadStep
    BY Zenon, <1>8, ReadH DEF ReadStep
  <1> QED BY Zenon, <1>3, <1>4, <1>5, <1>6, <1>7, <1>8, PeerH, ReceiveH DEF MgmtNext, ConnectStep

\* Nothing is sent before the first step but the greeting.
LEMMA HeededInitially ==
  ASSUME MgmtInit, XInv
  PROVE  HeededInv
  <1>1. PICK ver \in Versions : peer = [version |-> ver, alive |-> TRUE, held |-> TRUE, holds |-> 0, broke |-> FALSE,
                                        prompts |-> 0, got |-> {}, done |-> <<>>]
    BY Zenon DEF MgmtInit
  <1>2. peer.prompts = 0
    BY <1>1
  <1>3. PICK f : f = FALSE
    BY Zenon
  <1>4. Handed(feed, <<>>, f, 0)
    <2>1. PICK t : t = TRUE
      BY Zenon
    <2>2. PICK g, h : g = [open |-> f, queue |-> <<>>, lagged |-> f, prompts |-> 0] /\ h = [g EXCEPT !.open = t]
      BY Zenon
    <2>3. h = [open |-> t, queue |-> <<>>, lagged |-> f, prompts |-> 0]
      BY <2>2
    <2>4. h = Subscribed
      BY Zenon, <1>3, <2>1, <2>2 DEF Subscribed, NotSubscribed
    <2>5. "events" \in DOMAIN feed /\ feed["events"] = h
      BY Zenon, <2>4 DEF MgmtInit, Receivers
    <2>6. <<>> \in Seq(Events)
      OBVIOUS
    <2> QED BY Zenon, <2>1, <2>3, <2>5, <2>6 DEF Handed, Receiving
  <1>5. CountOf(buffered \o wire, PromptHalves) = 0
    <2>1. wire \in Seq(Halves) /\ buffered = <<>>
      BY Zenon DEF MgmtInit, XInv
    <2>2. buffered \o wire = wire
      BY <2>1
    <2>3. CASE wire = <<>>
      <3>1. DOMAIN wire = {}
        BY <2>3
      <3>2. CountOf(wire, PromptHalves) = 0
        BY <3>1, CountNone
      <3> QED BY Zenon, <2>2, <3>2
    <2>4. CASE wire = Wired(<<Line("INFO", None)>>)
      <3>1. PICK lines : lines = <<Line("INFO", None)>>
        BY Zenon
      <3>2. "INFO" \in Events /\ 0 \in {0, 1} /\ 0 # 1
        BY DEF Events
      <3>3. lines \in Seq(Lines) /\ Len(lines) = 1 /\ lines[1].frame = "INFO"
        BY SMTT(30), <3>1, <3>2, EventWired
      <3>4. \A i \in 1..Len(lines) : lines[i].frame # "PASSWORD"
        BY SMTT(30), <3>3
      <3>5. CountOf(Wired(lines), PromptHalves) = 0
        BY <3>2, <3>3, <3>4, PromptsWired
      <3> QED BY Zenon, <2>2, <2>4, <3>1, <3>5
    <2> QED BY Zenon, <2>3, <2>4 DEF MgmtInit
  <1>6. CountOf(<<>>, {"PASSWORD"}) = 0
    <2>1. \A i \in DOMAIN <<>> : <<>>[i] \notin {"PASSWORD"}
      OBVIOUS
    <2> QED BY <2>1, CountNone
  <1>7. peer.prompts = (CountOf(buffered \o wire, PromptHalves) + CountOf(<<>>, {"PASSWORD"})) + 0
    BY SMTT(30), <1>2, <1>5, <1>6
  <1>8. 0 \in Nat
    OBVIOUS
  <1> QED BY Zenon, <1>4, <1>7, <1>8 DEF HeededInv, Heeded

\* What the two invariants say together.
LEMMA CompleteFollows ==
  ASSUME XInv, ShakenInv, HeededInv
  PROVE  ConnectIsComplete
  <1>1. connect = ConnectedAt => peer.done = Handshake /\ peer.version >= 5
    BY Zenon, ShakenCompletes
  <1>2. PICK b, w, S : b = buffered /\ w = wire /\ S = Halves
    BY Zenon
  <1>3. b \in Seq(S) /\ w \in Seq(S)
    BY Zenon, <1>2 DEF XInv
  <1>4. b \o w \in Seq(S)
    BY <1>3, ConcatProperties
  <1>5. PICK s \in Seq(Halves) : s = buffered \o wire
    BY Zenon, <1>2, <1>4
  <1>6. PICK q, l, m : /\ Handed(feed, q, l, m) /\ m \in Nat
                       /\ \/ actor = "ended" \/ l = TRUE
                          \/ peer.prompts = (CountOf(s, PromptHalves) + CountOf(q, {"PASSWORD"})) + m
    BY Zenon, <1>5 DEF HeededInv, Heeded
  <1>7. feed["events"] = Receiving(q, l, m)
    BY Zenon, <1>6 DEF Handed
  <1>8. feed["events"].queue = q /\ feed["events"].lagged = l /\ feed["events"].prompts = m
    BY <1>7 DEF Receiving
  <1>9. CountOf(s, PromptHalves) = Cardinality({i \in DOMAIN s : s[i].part = 2 /\ s[i].line.frame = "PASSWORD"})
    <2>1. \A i \in DOMAIN s : s[i] \in Halves
      BY LenProperties, ElementOfSeq
    <2>2. PlacesOf(s, PromptHalves) = {i \in DOMAIN s : s[i].part = 2 /\ s[i].line.frame = "PASSWORD"}
      BY Zenon, <2>1 DEF PlacesOf, PromptHalves
    <2> QED BY Zenon, <2>2 DEF CountOf
  <1>10. CountOf(q, {"PASSWORD"}) = Cardinality({i \in DOMAIN q : q[i] = "PASSWORD"})
    <2>1. PlacesOf(q, {"PASSWORD"}) = {i \in DOMAIN q : q[i] = "PASSWORD"}
      BY Zenon DEF PlacesOf
    <2> QED BY Zenon, <2>1 DEF CountOf
  <1> QED BY Zenon, <1>1, <1>5, <1>6, <1>8, <1>9, <1>10 DEF ConnectIsComplete

\* A connect that succeeded is complete: for any callers, parameters, management
\* versions and channel sizes, and however often openvpn holds again, it has had
\* the whole handshake read in order, with nobody's command before it (connect,
\* handshake), and the receiver it hands out has missed no prompt unless it fell
\* behind (subscribed before the actor starts).
THEOREM ConnectIsCompleteAlways == MgmtSpec => []ConnectIsComplete
  <1>1. MgmtInit => XInv /\ ShakenInv /\ HeededInv
    BY Zenon, XInvInitially, ShakenInitially, HeededInitially
  <1>2. XInv /\ ShakenInv /\ HeededInv /\ [MgmtNext]_mgmtVars => (XInv /\ ShakenInv /\ HeededInv)'
    BY Zenon, XInvInductive, ShakenInductive, HeededInductive
  <1>3. XInv /\ ShakenInv /\ HeededInv => ConnectIsComplete
    BY Zenon, CompleteFollows
  <1> QED BY <1>1, <1>2, <1>3, PTL DEF MgmtSpec

===============================================================================
