-------------------------------- MODULE GuiLink --------------------------------
(***************************************************************************)
(* The GUI and the daemon over the IPC socket (daemon/src/ipc/mod.rs,      *)
(* handler.rs, ui/src-tauri/src/ipc_client.rs, commands.rs), with the      *)
(* prompts of one connection attempt as what the daemon pushes.            *)
(*                                                                         *)
(* A connection is one accepted socket.  Every line is dispatched on a     *)
(* task of its own as soon as it is read, so `up` holds the lines that     *)
(* have not been handled, in flight or in their tasks: any of them may be  *)
(* next.  `down` is the server's write queue with the lines the GUI has    *)
(* not read.  A pump task per connection competes for the lease on the     *)
(* `outbound` channel.                                                     *)
(***************************************************************************)
EXTENDS PromptBroker

CONSTANTS
    Callers,        \* Calls of Tauri commands
    Plans,          \* What a behaviour may hold: the requests of each caller, bounds
                    \* on its connections and prompts, and whether both ends are steady
    MaxConns,       \* The largest bound on connections among the plans
    Typed,          \* The shapes of reply the user may give
    WriteQueue      \* WRITE_QUEUE

ASSUME LinkAssumption ==
    /\ MaxConns \in Nat /\ WriteQueue \in Nat \ {0} /\ 0 \notin Callers
    /\ \A p \in Plans : p.conns \in 0..MaxConns

VARIABLES
    plan,       \* The plan of this behaviour
    server,     \* IpcServer::run: running, draining or stopped
    conn,       \* Each accepted connection
    holder,     \* The connection whose pump holds the lease, 0 if none
    attempt,    \* The connection attempt, and the connection and call that wait for it
    gui,        \* The actor of the GUI: its phase and connection
    commands,   \* The actor's command channel
    calls,      \* What each call of a command has come to
    shown       \* Prompts on the user's screen

linkVars == <<plan, server, conn, holder, attempt, gui, commands, calls, shown>>
guiVars == <<broker, linkVars>>

Conns == 1..MaxConns
NoConn == [at |-> "none", pump |-> FALSE, up |-> <<>>, down |-> <<>>]
NoAttempt == [at |-> "idle", conn |-> 0, call |-> 0, prompt |-> 0]
LostAttempt == [at |-> "lost", conn |-> 0, call |-> 0, prompt |-> 0]
NoCall == [st |-> "idle", kind |-> "none", conn |-> 0]

\* Lines in either direction.
Hello == [type |-> "hello"]
Request(k) == [type |-> "request", call |-> k]
PromptReply(i, s) == [type |-> "prompt_reply", id |-> i, shape |-> s]
Response(k) == [type |-> "response", call |-> k]
Refusal == [type |-> "refusal"]         \* An answer no caller waits for

Live == gui.at \in {"hello", "serving"}
PeerOpen(c) == Live /\ gui.conn = c

-----------------------------------------------------------------------------
(* The server's side of a connection.                                      *)

\* Queueing waits for room; once the peer has closed, the writer fails and the
\* message is lost.
Queue(cn, c, m) ==
    IF PeerOpen(c) /\ cn[c].at # "gone" THEN [cn EXCEPT ![c].down = Append(@, m)] ELSE cn

Room(c) == PeerOpen(c) /\ conn[c].at # "gone" => Len(conn[c].down) < WriteQueue

\* Aborting the pumps of the connections cs: the lease is free again.  A message
\* that waits for room may be in the pump's hands, and is then gone.
Release(cs) ==
    IF holder \in cs
    THEN /\ holder' = 0
         /\ \/ UNCHANGED outbound
            \/ outbound # <<>> /\ ~Room(holder) /\ outbound' = Tail(outbound)
    ELSE UNCHANGED <<holder, outbound>>

\* pump_outbound
TakeLease(c) ==
    /\ conn[c].at = "open" /\ conn[c].pump /\ holder = 0 /\ holder' = c
    /\ UNCHANGED <<broker, plan, server, conn, attempt, gui, commands, calls, shown>>

\* A message the pump has received but finds no room for counts as waiting in
\* the channel.  The pump ends when the writer has failed.
Pump ==
    /\ holder # 0 /\ outbound # <<>> /\ Room(holder)
    /\ outbound' = Tail(outbound)
    /\ \/ conn' = Queue(conn, holder, Head(outbound)) /\ UNCHANGED holder
       \/ ~PeerOpen(holder) /\ conn' = [conn EXCEPT ![holder].pump = FALSE] /\ holder' = 0
    /\ UNCHANGED <<ask, pending, issued, plan, server, attempt, gui, commands, calls, shown>>

\* read_loop: a line that fills the limit has no room for its newline and ends
\* the connection after one answer; the lines before it have their tasks.
Brim(m) == m.type = "request" /\ calls[m.call].kind = "brim"

\* The read loop has returned and its pump is aborted; the lines it has read
\* are with their tasks.
Closing(cn, read) == [at |-> "closing", pump |-> FALSE, up |-> read, down |-> cn.down]

ReadBrim(c) ==
    /\ conn[c].at = "open" /\ Room(c)
    /\ \E n \in DOMAIN conn[c].up :
         /\ Brim(conn[c].up[n]) /\ \A k \in 1..n - 1 : ~Brim(conn[c].up[k])
         /\ conn' = [Queue(conn, c, Refusal) EXCEPT ![c] = Closing(@, SubSeq(@.up, 1, n - 1))]
    /\ Release({c})
    /\ UNCHANGED <<ask, pending, issued, plan, server, attempt, gui, commands, calls, shown>>

\* The end of the stream is read after every line.
ReadEof(c) ==
    /\ conn[c].at = "open" /\ ~PeerOpen(c)
    /\ \A n \in DOMAIN conn[c].up : ~Brim(conn[c].up[n])
    /\ conn' = [conn EXCEPT ![c] = Closing(@, @.up)] /\ Release({c})
    /\ UNCHANGED <<ask, pending, issued, plan, server, attempt, gui, commands, calls, shown>>

\* The writer ends when the last sender is dropped, and every dispatched task
\* of the connection holds one.
Busy(c) == attempt.conn = c \/ conn[c].up # <<>>

ConnectionEnds(c) ==
    /\ conn[c].at = "closing" /\ ~Busy(c)
    /\ conn' = [conn EXCEPT ![c].at = "gone"]
    /\ UNCHANGED <<broker, plan, server, holder, attempt, gui, commands, calls, shown>>

-----------------------------------------------------------------------------
(* The connection attempt.                                                 *)

Attempt(where) == attempt' = [attempt EXCEPT !.at = where]
others == <<plan, server, holder, gui, commands, calls, shown>>

\* openvpn asks something only the user can answer.
Question(wants) ==
    /\ attempt.at = "working" /\ issued < plan.prompts /\ BeginAsk(wants)
    /\ UNCHANGED <<attempt, conn, others>>

\* A prompt came back: its answer goes to openvpn, an error ends the attempt.
AskReturns ==
    /\ attempt.at = "working" /\ ask.at \in {"answered", "failed"} /\ DropAsk
    /\ Attempt(IF ask.at = "answered" THEN "working" ELSE "closing")
    /\ UNCHANGED <<conn, others>>

\* The tunnel comes up, or openvpn refuses, is late or breaks the connection.
AttemptSettles ==
    /\ attempt.at = "working" /\ ask.at = "none"
    /\ Attempt("reporting") \/ Attempt("closing")
    /\ UNCHANGED <<broker, conn, others>>

\* A cancellation drops the question where it stands.
Abandoned == DropAsk /\ Attempt("closing")

\* So does the exit of openvpn, and `race` consumes the channel that tells it.
VpnExits ==
    /\ attempt.at = "working" /\ DropAsk /\ Attempt("panicking")
    /\ UNCHANGED <<conn, others>>

\* Teardown waits on that channel once more: the task of the request panics
\* before it withdraws the prompts, and its call is never answered.  The session
\* stays busy for as long as the daemon runs.
Panics ==
    /\ attempt.at = "panicking" /\ attempt' = LostAttempt
    /\ UNCHANGED <<broker, conn, others>>

\* The end of teardown.  One attempt has at most one prompt open.
Withdraw ==
    /\ attempt.at = "closing" /\ WithdrawAll
    /\ attempt' = IF pending = {} THEN [attempt EXCEPT !.at = "reporting"]
                  ELSE [at |-> "withdrawing", conn |-> attempt.conn, call |-> attempt.call,
                        prompt |-> CHOOSE i \in pending : TRUE]
    /\ UNCHANGED <<conn, others>>

\* The teardown budget may run out while the announcement waits for room.
AnnounceWithdrawal ==
    /\ attempt.at = "withdrawing" /\ Attempt("reporting")
    /\ Announce(attempt.prompt) \/ (Len(outbound) = OutboundLimit /\ UNCHANGED broker)
    /\ UNCHANGED <<conn, others>>

\* connect returns and its call is answered.
Report ==
    /\ attempt.at = "reporting" /\ Room(attempt.conn)
    /\ conn' = Queue(conn, attempt.conn, Response(attempt.call)) /\ attempt' = NoAttempt
    /\ UNCHANGED <<broker, others>>

-----------------------------------------------------------------------------
(* SessionHandler::dispatch.                                               *)

\* Line n of connection c is done with, and answered with m once there is room.
Done(c, n) == [conn EXCEPT ![c].up = SubSeq(@, 1, n - 1) \o SubSeq(@, n + 1, Len(@))]

Answering(c, n, m) ==
    /\ Room(c) /\ conn' = Queue(Done(c, n), c, m)
    /\ UNCHANGED <<plan, server, holder, gui, commands, calls, shown>>

\* A mismatched version is answered with an error; the connection stays open.
DispatchHello(c, n, m) ==
    /\ m.type = "hello" /\ Answering(c, n, IF gui.same THEN Hello ELSE Refusal)
    /\ UNCHANGED <<broker, attempt>>

DispatchReply(c, n, m) ==
    /\ m.type = "prompt_reply" /\ Deliver(m.id, m.shape) /\ Answering(c, n, Refusal)
    /\ UNCHANGED attempt

\* connect claims the slot and is answered when its attempt is over.
DispatchConnect(c, n, m) ==
    /\ IF attempt.at = "idle"
       THEN /\ attempt' = [at |-> "working", conn |-> c, call |-> m.call, prompt |-> 0]
            /\ conn' = Done(c, n)
            /\ UNCHANGED <<plan, server, holder, gui, commands, calls, shown>>
       ELSE Answering(c, n, Response(m.call)) /\ UNCHANGED attempt
    /\ UNCHANGED broker

\* disconnect cancels an attempt in flight and does not wait for it.
DispatchDisconnect(c, n, m) ==
    /\ IF attempt.at = "working" THEN Abandoned ELSE UNCHANGED <<broker, attempt>>
    /\ Answering(c, n, Response(m.call))

\* The other requests: status, proxy_info, proxy_stats and the catalogue.
DispatchOther(c, n, m) ==
    /\ Answering(c, n, Response(m.call)) /\ UNCHANGED <<broker, attempt>>

\* What a broken line was read after is dispatched, what follows it is not.
Dispatch ==
    \E c \in Conns : \E n \in DOMAIN conn[c].up :
        LET m == conn[c].up[n]
            is(kind) == m.type = "request" /\ calls[m.call].kind = kind
        IN /\ \A k \in 1..n : ~Brim(conn[c].up[k])
           /\ \/ DispatchHello(c, n, m) \/ DispatchReply(c, n, m)
              \/ is("connect") /\ DispatchConnect(c, n, m)
              \/ is("disconnect") /\ DispatchDisconnect(c, n, m)
              \/ is("status") /\ DispatchOther(c, n, m)

-----------------------------------------------------------------------------
(* Shutdown.                                                               *)

\* The accept loop and every read loop see the signal; what has not been read
\* never is.
Shutdown ==
    /\ server = "running" /\ server' = "draining"
    /\ \E read \in [Conns -> 0..Cardinality(Callers) + MaxPrompts + 1] :
         /\ \A c \in Conns : /\ read[c] <= Len(conn[c].up)
                              /\ \A n \in 1..read[c] : ~Brim(conn[c].up[n])
         /\ conn' = [c \in Conns |->
                       IF conn[c].at # "open" THEN conn[c]
                       ELSE Closing(conn[c], SubSeq(conn[c].up, 1, read[c]))]
    /\ Release(Conns)
    /\ UNCHANGED <<plan, ask, pending, issued, attempt, gui, commands, calls, shown>>

Drained == \A c \in Conns : conn[c].at \in {"none", "gone"}

\* drain waits for the connections, for DRAIN_TIMEOUT at most; the process then
\* ends with everything in it.  What the GUI does without a daemon is not
\* followed further.
Drain ==
    /\ server = "draining" /\ server' = "stopped"
    /\ ask' = NoAsk /\ pending' = {} /\ outbound' = <<>> /\ conn' = [c \in Conns |-> NoConn]
    /\ attempt' = NoAttempt /\ gui' = [gui EXCEPT !.at = "off"]
    /\ commands' = <<>> /\ calls' = [k \in Callers |-> NoCall] /\ shown' = {}
    /\ UNCHANGED <<plan, issued, holder>>

-----------------------------------------------------------------------------
(* The GUI.                                                                *)

Unfinished(k) == calls[k].st \in {"queued", "sent"}

\* IpcClientHandle::request and prompt_reply only put a command in the channel.
Call(k, kind) ==
    /\ calls[k].st = "idle" /\ gui.at # "off" /\ server # "stopped"
    /\ calls' = [calls EXCEPT ![k] = [st |-> "queued", kind |-> kind, conn |-> 0]]
    /\ commands' = Append(commands, Request(k))
    /\ UNCHANGED <<broker, plan, server, conn, holder, attempt, gui, shown>>

\* The caller has waited ten seconds; the command or the request stays.
CallTimeout(k) ==
    /\ Unfinished(k) /\ calls' = [calls EXCEPT ![k].st = "timeout"]
    /\ UNCHANGED <<broker, plan, server, conn, holder, attempt, gui, commands, shown>>

Reply(i, shape) ==
    /\ i \in shown /\ shown' = shown \ {i}
    /\ commands' = Append(commands, PromptReply(i, shape))
    /\ UNCHANGED <<broker, plan, server, conn, holder, attempt, gui, calls>>

\* connect_and_serve up to its first read.
Connect ==
    /\ gui.at = "down" /\ server = "running" /\ gui.conn < plan.conns
    /\ gui' = [at |-> "hello", conn |-> gui.conn + 1, same |-> gui.same]
    /\ conn' = [conn EXCEPT ![gui.conn + 1] =
                  [at |-> "open", pump |-> TRUE, up |-> <<Hello>>, down |-> <<>>]]
    /\ UNCHANGED <<broker, plan, server, holder, attempt, commands, calls, shown>>

\* Dropping `pending` ends every request that was sent on the connection.
Lost ==
    /\ gui' = [gui EXCEPT !.at = "down"]
    /\ conn' = [conn EXCEPT ![gui.conn].down = <<>>]
    /\ calls' = [k \in Callers |-> IF calls[k].st = "sent" THEN [calls[k] EXCEPT !.st = "gone"]
                                   ELSE calls[k]]

GuiEof ==
    /\ Live /\ conn[gui.conn].at = "gone" /\ conn[gui.conn].down = <<>> /\ Lost
    /\ UNCHANGED <<broker, plan, server, holder, attempt, commands, shown>>

\* The hello loop takes the daemon's hello and drops everything else.
HelloLine ==
    /\ gui.at = "hello" /\ conn[gui.conn].down # <<>>
    /\ gui' = IF Head(conn[gui.conn].down) = Hello THEN [gui EXCEPT !.at = "serving"] ELSE gui
    /\ conn' = [conn EXCEPT ![gui.conn].down = Tail(@)]
    /\ UNCHANGED <<broker, plan, server, holder, attempt, commands, calls, shown>>

\* Mutant: a response is matched to its call by arrival alone.
ResponseToAny(k) ==
    [j \in Callers |-> IF calls[j].st = "sent" THEN [calls[j] EXCEPT !.st = "answered"]
                       ELSE calls[j]]

\* Responses find their call by the id of the request.
ResponseTo(k) ==
    IF calls[k].st = "sent" /\ calls[k].conn = gui.conn
    THEN [calls EXCEPT ![k].st = "answered"] ELSE calls

HandleIncoming ==
    /\ gui.at = "serving" /\ conn[gui.conn].down # <<>>
    /\ LET m == Head(conn[gui.conn].down)
       IN /\ calls' = IF m.type = "response" THEN ResponseTo(m.call) ELSE calls
          /\ shown' = CASE m.type = "prompt" -> shown \cup {m.id}
                        [] m.type = "cancelled" -> shown \ {m.id}
                        [] OTHER -> shown
    /\ conn' = [conn EXCEPT ![gui.conn].down = Tail(@)]
    /\ UNCHANGED <<broker, plan, server, holder, attempt, gui, commands>>

\* handle_command: a request is registered before it is written, and one too
\* large to encode costs the connection.
HandleCommand ==
    /\ gui.at = "serving" /\ commands # <<>> /\ commands' = Tail(commands)
    /\ LET m == Head(commands)
           sent == IF m.type = "request" /\ calls[m.call].st = "queued"
                   THEN [calls EXCEPT ![m.call] = [st |-> "sent", kind |-> @.kind, conn |-> gui.conn]]
                   ELSE calls
       IN IF m.type = "request" /\ calls[m.call].kind = "huge"
          THEN /\ gui' = [gui EXCEPT !.at = "down"]
               /\ conn' = [conn EXCEPT ![gui.conn].down = <<>>]
               /\ calls' = [k \in Callers |->
                              IF sent[k].st = "sent" THEN [sent[k] EXCEPT !.st = "gone"]
                              ELSE sent[k]]
          ELSE /\ calls' = sent /\ conn' = [conn EXCEPT ![gui.conn].up = Append(@, m)]
               /\ UNCHANGED gui
    /\ UNCHANGED <<broker, plan, server, holder, attempt, shown>>

\* The application is closed, with all it held in memory.
Quit ==
    /\ gui.at # "off"
    /\ gui' = [gui EXCEPT !.at = "off"] /\ commands' = <<>> /\ shown' = {}
    /\ conn' = IF Live THEN [conn EXCEPT ![gui.conn].down = <<>>] ELSE conn
    /\ calls' = [k \in Callers |-> IF Unfinished(k) THEN [calls[k] EXCEPT !.st = "gone"]
                                   ELSE calls[k]]
    /\ UNCHANGED <<broker, plan, server, holder, attempt>>

Start ==
    /\ gui.at = "off" /\ server = "running" /\ gui.conn < plan.conns /\ gui' = [gui EXCEPT !.at = "down"]
    /\ UNCHANGED <<broker, plan, server, conn, holder, attempt, commands, calls, shown>>

-----------------------------------------------------------------------------
(* The whole system.                                                       *)

LinkInit ==
    /\ BrokerInit /\ plan \in Plans
    /\ server = "running" /\ conn = [c \in Conns |-> NoConn] /\ holder = 0
    /\ attempt = NoAttempt
    /\ gui \in [at : {"down"}, conn : {0}, same : BOOLEAN] /\ (plan.steady => gui.same)
    /\ commands = <<>> /\ calls = [k \in Callers |-> NoCall] /\ shown = {}

\* Steps that wait for room in the outbound channel.
SendStep ==
    \/ (SendPrompt \/ AnnounceExpiry) /\ UNCHANGED linkVars
    \/ AnnounceWithdrawal

\* Steps of the attempt that happen because its task is scheduled or a timer
\* fires.
AttemptStep ==
    \/ SendStep \/ AskReturns \/ AttemptSettles \/ Withdraw \/ Report \/ Panics
    \/ (TakeReply \/ PromptTimeout) /\ UNCHANGED linkVars

ConnStep(c) == ReadBrim(c) \/ ReadEof(c) \/ ConnectionEnds(c)
GuiStep == Connect \/ GuiEof \/ HelloLine \/ HandleIncoming \/ HandleCommand

Openvpn ==
    \/ \E wants \in BOOLEAN : Question(wants)
    \/ VpnExits
    \/ attempt.at # "idle" /\ Emit /\ UNCHANGED linkVars

\* In a steady plan neither the application nor the daemon is closed, and no call
\* takes ten seconds.
User ==
    \/ \E k \in Callers : \E kind \in plan.kinds[k] : Call(k, kind)
    \/ \E i \in Ids, s \in Typed : Reply(i, s)
    \/ ~plan.steady /\ (Quit \/ Start \/ Shutdown \/ \E k \in Callers : CallTimeout(k))

LinkNext ==
    \/ AttemptStep \/ Openvpn \/ Dispatch \/ Pump \/ Drain
    \/ \E c \in Conns : TakeLease(c) \/ ConnStep(c)
    \/ GuiStep \/ User

LinkSpec == LinkInit /\ [][LinkNext]_guiVars

\* Every task of the daemon and of the GUI is scheduled and timers fire.  Those
\* that wait for room or for the lease get it if it comes free again and again:
\* tokio's channels and locks serve their waiters in turn.
FairLinkSpec ==
    /\ LinkSpec
    /\ SF_guiVars(AttemptStep) /\ SF_guiVars(Dispatch) /\ SF_guiVars(Pump)
    /\ WF_guiVars(Drain) /\ WF_guiVars(GuiStep)
    /\ \A c \in Conns : WF_guiVars(TakeLease(c)) /\ SF_guiVars(ConnStep(c))

-----------------------------------------------------------------------------
(* Properties.                                                             *)

Lines == {Hello, Refusal, Event} \cup [type : {"request", "response"}, call : Callers]
         \cup [type : {"prompt", "cancelled"}, id : Ids]
         \cup [type : {"prompt_reply"}, id : Ids, shape : Shapes]

\* Type correctness; the write queue and the outbound channel keep their bounds.
LinkTypeOK ==
    /\ BrokerTypeOK /\ \A n \in DOMAIN outbound : outbound[n] \in Lines
    /\ attempt.at \in {"idle", "working", "closing", "withdrawing", "reporting",
                      "panicking", "lost"}
    /\ server \in {"running", "draining", "stopped"} /\ holder \in 0..MaxConns
    /\ \A c \in Conns : /\ conn[c].at \in {"none", "open", "closing", "gone"}
                         /\ Len(conn[c].down) <= WriteQueue
    /\ gui.at \in {"off", "down", "hello", "serving"} /\ shown \subseteq Ids
    /\ \A k \in Callers : calls[k].st \in {"idle", "queued", "sent", "answered", "timeout", "gone"}

\* An unanswered prompt does not outlive an attempt that ends, whether it times
\* out, is refused or is cancelled: an attempt that is about to report has
\* withdrawn its prompts, and the next one starts without any (withdraw_all).  An
\* attempt that panics leaves its own prompt behind, and never an older one.
PromptsAreWithdrawn ==
    /\ attempt.at \in {"idle", "withdrawing", "reporting"} => pending = {}
    /\ pending \subseteq {issued}

\* "an unanswered prompt must not outlive the attempt it belongs to"
\* (auth/prompt.rs), with the attempts that panic.
NoPromptOutlives == attempt.at \in {"idle", "reporting", "lost"} => pending = {}

\* The request of call k is in flight or in its task.
Unhandled(k) == \E c \in Conns : \E n \in DOMAIN conn[c].up : conn[c].up[n] = Request(k)

\* A call that has its answer runs no more: the response a caller takes is that
\* of its own request, also across reconnects (the pending map of the actor).
AnsweredMeansOver ==
    \A k \in Callers : calls[k].st = "answered" =>
        attempt.call # k /\ ~Unhandled(k)

\* Nobody waits for ever.  With a GUI that keeps coming back every attempt ends
\* or panics, although its prompt has to find room, a lease and a reader (ask,
\* pump_outbound).  A GUI of the daemon's version does not stay in the handshake,
\* whatever is pushed in between (connect_and_serve).  The server stops once it
\* is told to, even while an attempt waits for a user (drain).
NothingHangs ==
    /\ []<>(gui.at = "serving") => (attempt.at # "idle" ~> attempt.at \in {"idle", "lost"})
    /\ gui.same /\ gui.at = "hello" ~> gui.at # "hello"
    /\ server = "draining" ~> server = "stopped"

\* A request whose caller was told that it failed is not sent afterwards
\* (run_actor, request).
NoGhostRequest ==
    \A k \in Callers : calls[k].st = "timeout" /\ calls[k].conn = 0 =>
        attempt.call # k /\ ~Unhandled(k)

===============================================================================
