----------------------------- MODULE PromptBroker ------------------------------
(***************************************************************************)
(* Asking the user for a credential (daemon/src/auth/prompt.rs) from one   *)
(* connection attempt (session/handshake.rs, connect.rs).                  *)
(*                                                                         *)
(* The attempt asks one question at a time; `ask` is the future it waits   *)
(* in, which is dropped when the attempt is cancelled or openvpn exits.    *)
(* Messages leave over the bounded `outbound` channel.  What is typed is   *)
(* abstracted to its shape and to the prompt the user gave it to.          *)
(***************************************************************************)
EXTENDS Integers, Sequences, FiniteSets

CONSTANTS
    MaxPrompts,     \* Bound on the prompts of a behaviour
    OutboundLimit   \* EVENT_CHANNEL

ASSUME BrokerAssumption == MaxPrompts \in Nat /\ OutboundLimit \in Nat \ {0}

VARIABLES
    ask,        \* The future of PromptBroker::ask
    pending,    \* PromptBroker.pending: the outstanding prompts
    issued,     \* PromptBroker.sequence
    outbound    \* Messages of the daemon waiting for a connection

broker == <<ask, pending, issued, outbound>>

Ids == 1..MaxPrompts
Shapes == {"pair", "response", "cancel"}        \* PromptReply
Nothing == [shape |-> "none", to |-> 0]
NoAsk == [at |-> "none", id |-> 0, wants |-> FALSE, reply |-> Nothing]

\* Messages the daemon starts itself.
Prompted(i) == [type |-> "prompt", id |-> i]
Cancelled(i) == [type |-> "cancelled", id |-> i]
Event == [type |-> "event", id |-> 0]

\* Sending waits for room in the channel.
Push(m) == Len(outbound) < OutboundLimit /\ outbound' = Append(outbound, m)

\* ask, up to its first await: the entry exists before the message leaves.
BeginAsk(wants) ==
    /\ ask.at = "none" /\ issued < MaxPrompts
    /\ issued' = issued + 1 /\ pending' = pending \cup {issued'}
    /\ ask' = [at |-> "sending", id |-> issued', wants |-> wants, reply |-> Nothing]
    /\ UNCHANGED outbound

\* The send is not under the timeout.
SendPrompt ==
    /\ ask.at = "sending" /\ Push(Prompted(ask.id)) /\ ask' = [ask EXCEPT !.at = "asked"]
    /\ UNCHANGED <<pending, issued>>

\* Mutant: a reply goes to whatever prompt is open.
DeliverToAny(i, shape) ==
    /\ pending' = pending \ {ask.id}
    /\ ask' = IF ask.at \in {"sending", "asked"}
              THEN [ask EXCEPT !.reply = [shape |-> shape, to |-> i]] ELSE ask
    /\ UNCHANGED <<issued, outbound>>

\* deliver: the entry goes whatever becomes of the reply, which nobody receives
\* when the asking future is gone.
Deliver(i, shape) ==
    /\ pending' = pending \ {i}
    /\ ask' = IF i \in pending /\ ask.at \in {"sending", "asked"} /\ ask.id = i
              THEN [ask EXCEPT !.reply = [shape |-> shape, to |-> i]] ELSE ask
    /\ UNCHANGED <<issued, outbound>>

\* into_answer: a reply of the wrong shape is an error.
IntoAnswer(r, wants) == r.shape = IF wants THEN "pair" ELSE "response"

TakeReply ==
    /\ ask.at = "asked" /\ ask.reply # Nothing
    /\ ask' = [ask EXCEPT !.at = IF IntoAnswer(ask.reply, ask.wants) THEN "answered" ELSE "failed"]
    /\ UNCHANGED <<pending, issued, outbound>>

\* Mutant: only a withdrawal ends the wait.
PromptTimeoutNever ==
    /\ ask.at = "asked" /\ ask.reply = Nothing /\ ask.id \notin pending
    /\ ask' = [ask EXCEPT !.at = "failed"] /\ UNCHANGED <<pending, issued, outbound>>

\* After the timeout the prompt is withdrawn first and announced afterwards.
PromptTimeout ==
    /\ ask.at = "asked" /\ ask.reply = Nothing
    /\ pending' = pending \ {ask.id} /\ ask' = [ask EXCEPT !.at = "expiring"]
    /\ UNCHANGED <<issued, outbound>>

AnnounceExpiry ==
    /\ ask.at = "expiring" /\ Push(Cancelled(ask.id)) /\ ask' = [ask EXCEPT !.at = "failed"]
    /\ UNCHANGED <<pending, issued>>

\* `race` drops the asking future where it stands; its entry stays.
DropAsk == ask' = NoAsk /\ UNCHANGED <<pending, issued, outbound>>

\* Mutant: teardown ends without withdrawing.
WithdrawNothing == pending' = pending /\ UNCHANGED <<ask, issued, outbound>>

\* withdraw_all drains the map at once and announces each prompt afterwards.
WithdrawAll == pending' = {} /\ UNCHANGED <<ask, issued, outbound>>

Announce(i) == Push(Cancelled(i)) /\ UNCHANGED <<ask, pending, issued>>

\* An event that gets into the channel: AuthFlow::log waits for room, and
\* EventSink::emit drops it when there is none.
Emit == Push(Event) /\ UNCHANGED <<ask, pending, issued>>

BrokerInit == ask = NoAsk /\ pending = {} /\ issued = 0 /\ outbound = <<>>

BrokerTypeOK ==
    /\ ask.at \in {"none", "sending", "asked", "expiring", "answered", "failed"}
    /\ ask.id \in 0..issued /\ ask.reply \in [shape : Shapes, to : Ids] \cup {Nothing}
    /\ pending \subseteq 1..issued /\ issued \in 0..MaxPrompts /\ Len(outbound) <= OutboundLimit

\* What answers a prompt is what the user gave to that very prompt and of the
\* shape it asked for, however late or often replies arrive (deliver,
\* into_answer).
AnswerIsOwn ==
    /\ ask.reply # Nothing => ask.reply.to = ask.id
    /\ ask.at = "answered" => ask.reply.shape = IF ask.wants THEN "pair" ELSE "response"

\* A prompt that still waits for its reply can get it: its entry is in the map
\* until the reply, the timeout or the withdrawal takes it away.
WaitingIsPending == ask.at \in {"sending", "asked"} /\ ask.reply = Nothing => ask.id \in pending

===============================================================================
