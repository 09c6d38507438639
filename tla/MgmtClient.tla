------------------------------ MODULE MgmtClient ------------------------------
(***************************************************************************)
(* The management client of daemon/src/mgmt: the actor that owns the       *)
(* socket (client.rs), the line splitter and the reply accumulator         *)
(* (codec.rs), the quoting of parameters (escape.rs), the connect          *)
(* handshake, and the tasks that send commands.                            *)
(*                                                                         *)
(* openvpn is external: it answers each command once, in order, except     *)
(* that management version 5 answers `version` with silence; it may enter  *)
(* hold again, and stop answering.  The protocol has no correlation        *)
(* id, so a reply carries the command it answers as history only.  A line  *)
(* travels in two parts and a read may end between them.                   *)
(***************************************************************************)
EXTENDS Integers, Sequences, FiniteSets

CONSTANTS
    Callers,        \* Tasks that send a command once connected
    Params,         \* The parameters they may send, as sequences of characters
    Versions,       \* The management versions openvpn may greet with
    OutboxLimit,    \* OUTBOX_LIMIT
    ChannelSize,    \* COMMAND_CHANNEL
    EventChannel,   \* EVENT_CHANNEL
    MaxHolds        \* Bound on how often openvpn enters hold

None == "none"
Connector == "connect"
Actor == "actor"

\* A hold event must find room, so the outbox outlasts one command per task.
ASSUME MgmtClientAssumption ==
    /\ ChannelSize \in Nat \ {0} /\ EventChannel \in Nat \ {0}
    /\ OutboxLimit \in Nat /\ OutboxLimit > Cardinality(Callers) + 2
    /\ Versions \subseteq Nat /\ \A raw \in Params : raw \in Seq(STRING)
    /\ {None, Connector, Actor} \cap Callers = {}

VARIABLES
    peer,       \* openvpn: its version, what it has read and how it stands
    toPeer,     \* Lines written to it
    wire,       \* Half lines on their way to the daemon
    buffered,   \* LineSplitter
    body,       \* ReplyAccumulator: the commands whose body lines it holds
    outbox, pending,
    channel,    \* The commands channel
    actor,      \* "running" or "ended"
    connect,    \* Where `connect` is
    result,     \* What each task's `send` returned
    typed,      \* History: the parameter each task sent
    feed        \* The broadcast receivers: await_greeting's, and the one
                \* `connect` hands out

mgmtVars == <<peer, toPeer, wire, buffered, body, outbox, pending, channel, actor,
              connect, result, typed, feed>>

-----------------------------------------------------------------------------
(* escape.rs.  "nl" is a newline, "q" a double quote, "b" a backslash.     *)

IsFramingHazard(char) == char = "nl"

\* escape_param: always quoted, a quote and a backslash escaped.
EscapeParam(raw) ==
    LET escaped[k \in 0..Len(raw)] ==
          IF k = 0 THEN <<"q">>
          ELSE Append(IF raw[k] \in {"q", "b"} THEN Append(escaped[k - 1], "b")
                      ELSE escaped[k - 1], raw[k])
    IN  Append(escaped[Len(raw)], "q")

Forbidden(raw) == \E i \in 1..Len(raw) : IsFramingHazard(raw[i])

\* openvpn's parse_line, on one parameter: what is between the quotes, a
\* backslash taking the next character as it is.
Lexed(state, text) == [state |-> state, text |-> text]

LexStep(lexed, char) ==
    CASE lexed.state = "escaped" \/ (lexed.state = "quoted" /\ char \notin {"q", "b"}) ->
           Lexed("quoted", Append(lexed.text, char))
      [] lexed.state = "quoted" /\ char = "b" -> Lexed("escaped", lexed.text)
      [] lexed.state = "quoted" /\ char = "q" -> Lexed("closed", lexed.text)
      [] lexed.state = "start" /\ char = "q" -> Lexed("quoted", lexed.text)
      [] lexed.state \in {"start", "closed"} /\ char = "sp" -> lexed
      [] OTHER -> Lexed("error", lexed.text)

Lex(chars) ==
    LET lexed[k \in 0..Len(chars)] ==
          IF k = 0 THEN Lexed("start", <<>>) ELSE LexStep(lexed[k - 1], chars[k])
    IN  lexed[Len(chars)]

-----------------------------------------------------------------------------
(* Lines.                                                                  *)

\* A command: who sent it, its verb and its parameter as written.
Command(from, verb, param) == [from |-> from, verb |-> verb, param |-> param]

HoldRelease == Command(Actor, "hold release", <<>>)

\* Mutant: the reply to `version` is never awaited.
ExpectsReplyNoVersion(command) == command.verb # "version"

\* handshake: `version` is awaited from REPLY_BEARING_VERSION on.
ExpectsReply(command) == command.verb = "version" => peer.version >= 6

\* A line from openvpn: its frame (codec.rs classify), and the command it
\* answers or None.
Line(frame, of) == [frame |-> frame, of |-> of]

Events == {"INFO", "HOLD", "PASSWORD", "UPDOWN"}

\* Each line in two parts, the newline in the second.
Wired(lines) ==
    [i \in 1..2 * Len(lines) |-> [line |-> lines[(i + 1) \div 2], part |-> 2 - (i % 2)]]

\* LineSplitter keeps what no newline has closed.
Rest(chunk) ==
    IF chunk # <<>> /\ chunk[Len(chunk)].part = 1 THEN <<chunk[Len(chunk)]>> ELSE <<>>

\* A broadcast receiver.
NotSubscribed == [open |-> FALSE, queue |-> <<>>, lagged |-> FALSE, prompts |-> 0]
Subscribed == [NotSubscribed EXCEPT !.open = TRUE]

-----------------------------------------------------------------------------
(* openvpn, external.                                                      *)

\* How it answers: in one line, or in lines closed by END.
Shapes(command) ==
    IF command.from \in Callers THEN {<<"SUCCESS">>, <<"DATA", "END">>} ELSE {<<"SUCCESS">>, <<"ERROR">>}

\* It reads a command: the reply, and for a released hold the prompt.
PeerReads(shape) ==
    /\ peer.alive /\ actor = "running"
    /\ LET command == Head(toPeer)
           silent == command.verb = "version" /\ peer.version < 6
           answer == IF silent THEN <<>> ELSE [i \in 1..Len(shape) |-> Line(shape[i], command.from)]
           released == command.verb = "hold release"
           prompt == IF released /\ peer.held THEN <<Line("PASSWORD", None)>> ELSE <<>>
       IN  /\ wire' = wire \o Wired(answer \o prompt)
           /\ peer' = [peer EXCEPT !.held = @ /\ ~released, !.prompts = @ + Len(prompt),
                                   !.got = IF command.from \in Callers
                                           THEN @ \cup {<<command.from, Lex(command.param)>>}
                                           ELSE @,
                                   !.done = IF command.from = Connector
                                            THEN Append(@, command.verb) ELSE @]
    /\ toPeer' = Tail(toPeer)
    /\ UNCHANGED <<buffered, body, outbox, pending, channel, actor, connect, result, typed, feed>>

\* Every reconnect and every retry enters hold again.
PeerHolds ==
    /\ peer.alive /\ actor = "running" /\ ~peer.held /\ peer.holds < MaxHolds
    /\ peer' = [peer EXCEPT !.held = TRUE, !.holds = @ + 1]
    /\ wire' = wire \o Wired(<<Line("HOLD", None)>>)
    /\ UNCHANGED <<toPeer, buffered, body, outbox, pending, channel, actor, connect, result, typed, feed>>

\* Out of hold, an up block without a device: the tracker cannot fold it.
PeerBreaks ==
    /\ peer.alive /\ actor = "running" /\ ~peer.held /\ ~peer.broke
    /\ peer' = [peer EXCEPT !.broke = TRUE]
    /\ wire' = wire \o Wired(<<Line("UPDOWN", None)>>)
    /\ UNCHANGED <<toPeer, buffered, body, outbox, pending, channel, actor, connect, result, typed, feed>>

\* It hangs, and whatever it was asked is never answered.
PeerStops ==
    /\ peer.alive /\ actor = "running" /\ peer' = [peer EXCEPT !.alive = FALSE]
    /\ UNCHANGED <<toPeer, wire, buffered, body, outbox, pending, channel, actor, connect, result,
                   typed, feed>>

-----------------------------------------------------------------------------
(* The actor.                                                              *)

\* The write at the top of the loop.
Write ==
    /\ actor = "running" /\ pending = None /\ outbox # <<>>
    /\ toPeer' = Append(toPeer, Head(outbox)) /\ outbox' = Tail(outbox)
    /\ pending' = IF ExpectsReply(Head(outbox)) THEN Head(outbox).from ELSE None
    /\ UNCHANGED <<peer, wire, buffered, body, channel, actor, connect, result, typed, feed>>

\* Waits(t): the task is inside `send`, behind its oneshot.
Waits(t) == result[t].st = "waiting"

Tasks == Callers \cup {Connector}

\* What a `send` returned: a reply with its body, or how it failed.
Outcome(st) == [st |-> st, to |-> None, lines |-> <<>>]

Replied(line, lines) == [st |-> line.frame, to |-> line.of, lines |-> lines]

\* answer_pending: nobody is there for the actor's own commands, or when the
\* task has dropped its oneshot.
Answer(results, slot, outcome) ==
    IF slot \in Tasks /\ results[slot].st = "waiting" THEN [results EXCEPT ![slot] = outcome] ELSE results

\* The actor is gone: its channel and what it had queued are dropped.
Closed(results) ==
    [t \in Tasks |-> IF results[t].st = "waiting" THEN Outcome("Closed") ELSE results[t]]

\* The lossy event channel keeps the newest, and tells who fell behind.
Broadcast(f, event) ==
    [r \in DOMAIN f |->
        CASE ~f[r].open -> f[r]
          [] f[r].open /\ Len(f[r].queue) < EventChannel -> [f[r] EXCEPT !.queue = Append(@, event)]
          [] OTHER -> [f[r] EXCEPT !.queue = Append(Tail(@), event), !.lagged = TRUE]]

\* Mutant: the hold is released only while nothing is outstanding.
RouteLineIdleHold(s, line) ==
    CASE line.frame \in Events ->
           [s EXCEPT !.feed = IF line.frame = "UPDOWN" THEN @ ELSE Broadcast(@, line.frame),
                     !.actor = IF line.frame = "UPDOWN" THEN "ended" ELSE @,
                     !.outbox = IF line.frame = "HOLD" /\ s.pending = None
                                THEN Append(@, HoldRelease) ELSE @]
      [] line.frame \notin Events /\ s.pending = None -> [s EXCEPT !.body = <<>>]
      [] s.pending # None /\ line.frame = "DATA" -> [s EXCEPT !.body = Append(@, line.of)]
      [] OTHER -> [s EXCEPT !.body = <<>>, !.pending = None,
                            !.result = Answer(@, s.pending, Replied(line, s.body))]

\* route_line, and what `drive` does with the outcome.  An UPDOWN line here
\* is one the tracker cannot fold, which ends the channel before it is sent on.
RouteLine(s, line) ==
    CASE line.frame \in Events ->
           [s EXCEPT !.feed = IF line.frame = "UPDOWN" THEN @ ELSE Broadcast(@, line.frame),
                     !.actor = IF line.frame = "UPDOWN" THEN "ended" ELSE @,
                     !.outbox = IF line.frame = "HOLD" /\ Len(@) < OutboxLimit
                                THEN Append(@, HoldRelease) ELSE @]
      [] line.frame \notin Events /\ s.pending = None -> [s EXCEPT !.body = <<>>]
      [] s.pending # None /\ line.frame = "DATA" -> [s EXCEPT !.body = Append(@, line.of)]
      [] OTHER -> [s EXCEPT !.body = <<>>, !.pending = None,
                            !.result = Answer(@, s.pending, Replied(line, s.body))]

\* LineSplitter::push and the loop over the lines it completes.  Lines after the
\* one that ended the channel are not looked at.
RouteNext(s, half) ==
    IF half.part = 2 /\ s.actor = "running" THEN RouteLine(s, half.line) ELSE s

Routed(s, chunk) ==
    LET after[k \in 0..Len(chunk)] == IF k = 0 THEN s ELSE RouteNext(after[k - 1], chunk[k])
    IN  after[Len(chunk)]

\* The actor returns and the socket with it: the task whose command is
\* pending may learn why, the others that their channel is closed.
End(results) ==
    /\ actor' = "ended" /\ result' = Closed(results)
    /\ pending' = None /\ outbox' = <<>> /\ channel' = <<>>
    /\ toPeer' = <<>> /\ wire' = <<>> /\ buffered' = <<>> /\ body' = <<>>

\* A read of any part of what has arrived.
Read(n) ==
    /\ actor = "running" /\ (pending # None \/ outbox = <<>>) /\ n <= Len(wire)
    /\ LET chunk == buffered \o SubSeq(wire, 1, n)
           s == Routed([outbox |-> outbox, pending |-> pending, body |-> body,
                        result |-> result, feed |-> feed, actor |-> actor], chunk)
       IN  /\ feed' = s.feed
           /\ IF s.actor = "ended" THEN End(s.result)
              ELSE /\ wire' = SubSeq(wire, n + 1, Len(wire)) /\ buffered' = Rest(chunk)
                   /\ body' = s.body /\ result' = s.result
                   /\ pending' = s.pending /\ outbox' = s.outbox
                   /\ UNCHANGED <<actor, channel, toPeer>>
    /\ UNCHANGED <<peer, connect, typed>>

\* COMMAND_TIMEOUT; the read is polled first (biased).
Expired ==
    /\ actor = "running" /\ pending # None /\ wire = <<>>
    /\ End(Answer(result, pending, Outcome("Timeout")))
    /\ UNCHANGED <<peer, connect, typed, feed>>

\* The stream ends.
ReadEof ==
    /\ actor = "running" /\ ~peer.alive /\ wire = <<>>
    /\ End(Answer(result, pending, Outcome("Eof")))
    /\ UNCHANGED <<peer, connect, typed, feed>>

\* The commands branch of the select.
TakeCommand ==
    /\ actor = "running" /\ (pending # None \/ outbox = <<>>) /\ wire = <<>>
    /\ channel # <<>> /\ Len(outbox) < OutboxLimit
    /\ outbox' = Append(outbox, Head(channel)) /\ channel' = Tail(channel)
    /\ UNCHANGED <<peer, toPeer, wire, buffered, body, pending, actor, connect, result, typed, feed>>

Handshake == <<"version", "state on", "bytecount 5", "log on", "hold release">>

\* `connect` counts the commands of the handshake, from the greeting on.
Greeting == 0
ConnectedAt == Len(Handshake) + 1
FailedAt == -1

-----------------------------------------------------------------------------
(* Senders.                                                                *)

\* MgmtClient::send, up to the wait for its oneshot.
Enqueue(t, command) ==
    IF actor = "ended" THEN result' = [result EXCEPT ![t] = Outcome("Closed")] /\ UNCHANGED channel
    ELSE /\ Len(channel) < ChannelSize
         /\ channel' = Append(channel, command) /\ result' = [result EXCEPT ![t] = Outcome("waiting")]

\* send_username, send_password, signal: build_command refuses what would
\* break the framing before anything is queued.
Send(t, raw) ==
    /\ connect = ConnectedAt /\ result[t].st = None
    /\ typed' = [typed EXCEPT ![t] = raw]
    /\ IF Forbidden(raw) THEN result' = [result EXCEPT ![t] = Outcome("Forbidden")] /\ UNCHANGED channel
       ELSE Enqueue(t, Command(t, "send", EscapeParam(raw)))
    /\ UNCHANGED <<peer, toPeer, wire, buffered, body, outbox, pending, actor, connect, feed>>

\* A caller's own deadline drops the future; the command stays queued.
GiveUp(t) ==
    /\ Waits(t) /\ result' = [result EXCEPT ![t] = Outcome("gave up")]
    /\ UNCHANGED <<peer, toPeer, wire, buffered, body, outbox, pending, channel, actor, connect,
                   typed, feed>>

-----------------------------------------------------------------------------
(* connect.                                                                *)

ConnectFails ==
    /\ connect' = FailedAt /\ End(result) /\ UNCHANGED <<peer, typed, feed>>

\* await_greeting: a receiver that lagged cannot prove the version floor.
\* `events` has been subscribed by then.
Greeted ==
    /\ connect = Greeting /\ feed["greeting"].queue # <<>>
    /\ LET first == Head(feed["greeting"].queue)
       IN  CASE feed["greeting"].lagged \/ (first = "INFO" /\ peer.version < 5) -> ConnectFails
             [] ~feed["greeting"].lagged /\ (first = "INFO" => peer.version >= 5) ->
                  /\ connect' = IF first = "INFO" THEN 1 ELSE connect
                  /\ feed' = [feed EXCEPT !["greeting"] =
                                 IF first = "INFO" THEN NotSubscribed
                                 ELSE [@ EXCEPT !.queue = Tail(@)]]
                  /\ UNCHANGED <<peer, toPeer, wire, buffered, body, outbox, pending, channel,
                                 actor, result, typed>>

\* No greeting in COMMAND_TIMEOUT, or the channel ended first.
NoGreeting ==
    /\ connect = Greeting /\ feed["greeting"].queue = <<>> /\ wire = <<>>
    /\ ConnectFails

\* `send`, or send_unacknowledged for a version that is not answered.
HandshakeSends ==
    /\ connect \in DOMAIN Handshake /\ result[Connector].st = None
    /\ LET command == Command(Connector, Handshake[connect], <<>>)
       IN  IF ExpectsReply(command) \/ actor = "ended"
           THEN Enqueue(Connector, command) /\ UNCHANGED connect
           ELSE /\ Len(channel) < ChannelSize /\ channel' = Append(channel, command)
                /\ connect' = connect + 1 /\ UNCHANGED result
    /\ UNCHANGED <<peer, toPeer, wire, buffered, body, outbox, pending, actor, typed, feed>>

\* A SUCCESS moves on; the last one completes the connect.
HandshakeGoesOn ==
    /\ connect \in DOMAIN Handshake /\ result[Connector].st \notin {None, "waiting"}
    /\ IF result[Connector].st # "SUCCESS" THEN ConnectFails
       ELSE /\ result' = [result EXCEPT ![Connector] = Outcome(None)]
            /\ connect' = connect + 1
            /\ UNCHANGED <<peer, toPeer, wire, buffered, body, outbox, pending, channel, actor,
                           typed, feed>>

\* Whoever connected reads the events it was handed.
Receive ==
    /\ connect = ConnectedAt /\ feed["events"].queue # <<>>
    /\ feed' = [feed EXCEPT !["events"].queue = Tail(@),
                            !["events"].prompts = @ + (IF Head(feed["events"].queue) = "PASSWORD"
                                                       THEN 1 ELSE 0)]
    /\ UNCHANGED <<peer, toPeer, wire, buffered, body, outbox, pending, channel, actor, connect,
                   result, typed>>

\* Every clone of the client is dropped: recv returns None, the actor ends.
ClientDropped ==
    /\ connect = ConnectedAt /\ actor = "running" /\ \A t \in Callers : result[t].st \notin {None, "waiting"}
    /\ wire = <<>> /\ channel = <<>> /\ (pending # None \/ outbox = <<>>)
    /\ End(result) /\ UNCHANGED <<peer, connect, typed, feed>>

-----------------------------------------------------------------------------

\* Mutant: the handed-out receiver is not subscribed before the handshake.
ReceiversLate == [r \in {"greeting", "events"} |-> IF r = "greeting" THEN Subscribed ELSE NotSubscribed]

Receivers == [r \in {"greeting", "events"} |-> Subscribed]

MgmtInit ==
    /\ \E v \in Versions :
         peer = [version |-> v, alive |-> TRUE, held |-> TRUE, holds |-> 0, broke |-> FALSE,
                 prompts |-> 0, got |-> {}, done |-> <<>>]
    /\ toPeer = <<>> /\ buffered = <<>> /\ body = <<>>
    /\ wire \in {Wired(<<Line("INFO", None)>>), <<>>}    \* It greets, or is silent
    /\ outbox = <<>> /\ pending = None /\ channel = <<>> /\ actor = "running" /\ connect = Greeting
    /\ result = [t \in Tasks |-> Outcome(None)] /\ typed = [t \in Callers |-> <<>>]
    /\ feed = Receivers

PeerStep ==
    \/ toPeer # <<>> /\ \E shape \in Shapes(Head(toPeer)) : PeerReads(shape)
    \/ PeerHolds \/ PeerBreaks \/ PeerStops

ReadStep == \E n \in 1..Len(wire) : Read(n)

ConnectStep == Greeted \/ NoGreeting \/ HandshakeSends \/ HandshakeGoesOn

MgmtNext ==
    \/ PeerStep \/ Write \/ ReadStep \/ Expired \/ ReadEof \/ TakeCommand
    \/ ConnectStep \/ Receive \/ ClientDropped
    \/ \E t \in Callers : GiveUp(t) \/ \E raw \in Params : Send(t, raw)

MgmtSpec == MgmtInit /\ [][MgmtNext]_mgmtVars

\* The actor's task is polled, its timer fires, and `connect` is polled.
\* Nothing is assumed of openvpn.
FairMgmtSpec ==
    /\ MgmtSpec
    /\ WF_mgmtVars(Write) /\ WF_mgmtVars(ReadStep) /\ WF_mgmtVars(Expired) /\ WF_mgmtVars(ReadEof)
    /\ WF_mgmtVars(TakeCommand) /\ WF_mgmtVars(ConnectStep)

-----------------------------------------------------------------------------
(* Properties.                                                             *)

\* Every variable keeps its type, and the queues their bounds.
MgmtTypeOK ==
    /\ actor \in {"running", "ended"} /\ connect \in FailedAt..ConnectedAt
    /\ Len(outbox) <= OutboxLimit /\ Len(channel) <= ChannelSize
    /\ pending \in Tasks \cup {Actor, None}
    /\ \A t \in Tasks : result[t].st \in {None, "waiting", "SUCCESS", "ERROR", "END", "Closed",
                                          "Timeout", "Eof", "Forbidden", "gave up"}
    /\ \A r \in DOMAIN feed : Len(feed[r].queue) <= EventChannel

\* A command and its reply are the caller's own, though the protocol has no
\* correlation id: the reply goes to the task whose command it answers, body and
\* all, whatever holds, abandoned commands and split reads come between (drive,
\* route_line), and openvpn's lexer makes of the line what the task typed
\* (escape_param, build_command).
ExchangeIsOwn ==
    /\ \A t \in Tasks :
         /\ result[t].to \in {None, t}
         /\ \A i \in 1..Len(result[t].lines) : result[t].lines[i] = t
    /\ \A got \in peer.got : got[2] = Lexed("closed", typed[got[1]])

\* A connect that succeeded has switched on the state, byte count and log
\* notifications and released the hold, in that order, with nobody's command
\* before them, on a version no lower than the floor.  It has missed nothing: a
\* prompt openvpn has sent is on its way, waiting in the receiver `connect`
\* hands out, or read from it, unless that receiver fell behind.
ConnectIsComplete ==
    LET stream == buffered \o wire
        queue == feed["events"].queue
        onWire == {i \in DOMAIN stream : stream[i].part = 2 /\ stream[i].line.frame = "PASSWORD"}
        queued == {i \in DOMAIN queue : queue[i] = "PASSWORD"}
    IN  /\ connect = ConnectedAt => peer.done = Handshake /\ peer.version >= 5
        /\ \/ actor = "ended" \/ feed["events"].lagged
           \/ peer.prompts = Cardinality(onWire) + Cardinality(queued) + feed["events"].prompts

\* Nobody waits for ever: no `send`, not for an openvpn that stopped answering
\* (COMMAND_TIMEOUT, answer_pending), and no openvpn in a hold it has entered
\* again (route_line: "the hold flag is persistent"), unless the channel ends.
NothingHangs ==
    /\ \A t \in Tasks : Waits(t) ~> ~Waits(t)
    /\ (peer.held /\ connect = ConnectedAt) ~> (~peer.held \/ actor = "ended")
=============================================================================
