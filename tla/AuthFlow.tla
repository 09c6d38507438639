------------------------------- MODULE AuthFlow --------------------------------
(***************************************************************************)
(* Answering openvpn's credential questions (daemon/src/auth/mod.rs,       *)
(* totp.rs, session/handshake.rs).                                         *)
(*                                                                         *)
(* One flow belongs to one connection attempt.  It takes a password from   *)
(* the keyring, a code from the generator, or asks the user through the    *)
(* broker.  A one-time code is the time step it is valid in.               *)
(***************************************************************************)
EXTENDS PromptBroker

CONSTANTS
    Setups,         \* What the settings and the keyring may hold
    MaxQuestions,   \* Bound on the questions of one attempt
    MaxStep         \* Bound on the clock, in time steps of the generator

ASSUME FlowAssumption == MaxStep \in Nat

VARIABLES
    setup,      \* TotpSettings and the keyring's content for the profile
    clock,      \* The current time step
    flow,       \* FlowState
    auth,       \* Where `authenticate` is, with the question it answers
    handed      \* What this flow has handed to openvpn so far

flowVars == <<setup, clock, flow, auth, handed>>

Need == {"Need", "NeedChallenge"}
Challenges == {"Dynamic", "DynamicAnonymous", "CrText"}
Questions == Need \cup Challenges \cup {"NeedNothing", "Rejected"}

NewFlow == [username |-> FALSE, offered |-> FALSE, lastStep |-> -1, warned |-> FALSE]
NotHanded == [stored |-> 0, codes |-> [s \in 0..MaxStep |-> 0]]

\* Where `authenticate` is, the question it answers, how many it was asked, and
\* whether the answer holds the stored password.
Auth(at, question, asked, stored) ==
    [at |-> at, question |-> question, asked |-> asked, stored |-> stored]

Idle == Auth("idle", "none", 0, FALSE)

Goto(a, where) == auth' = Auth(where, a.question, a.asked, a.stored)

\* authenticate starts, or returns: with the tunnel up, or with an error that is
\* followed by the teardown.
Finish(where) == auth' = Auth(where, "none", 0, FALSE)

AskUser(a, wants) == BeginAsk(wants) /\ Goto(a, "asking")

-----------------------------------------------------------------------------
(* AuthFlow.  No step has an await inside.                                 *)

\* ReplayGuard::admit remembers the step it let through.
Admit(f, step) == [f EXCEPT !.lastStep = step]

\* A code of the current step, unless that has been used.
GenerateCode(a) ==
    IF flow.lastStep = clock
    THEN Goto(a, "consumed") /\ UNCHANGED <<flow, handed>>
    ELSE /\ flow' = Admit(flow, clock)
         /\ handed' = [handed EXCEPT !.codes[clock] = @ + 1]
         /\ Goto(a, "answering")

\* second_factor: the generator is consulted only when it is switched on and a
\* seed is stored.
SecondFactor(a) ==
    \/ /\ ~setup.totp \/ setup.seed = "absent"
       /\ AskUser(a, FALSE) /\ UNCHANGED <<flow, handed>>
    \/ /\ setup.totp /\ setup.seed = "unusable"
       /\ Finish("closing") /\ UNCHANGED <<flow, handed, broker>>
    \/ /\ setup.totp /\ setup.seed = "short" /\ ~flow.warned
       /\ flow' = [flow EXCEPT !.warned = TRUE] /\ Goto(a, "warning")
       /\ UNCHANGED <<handed, broker>>
    \/ /\ setup.totp /\ (setup.seed = "long" \/ (setup.seed = "short" /\ flow.warned))
       /\ GenerateCode(a) /\ UNCHANGED broker

\* Mutant: the stored password is offered again after a rejection.
UsernamePasswordAgain(a) ==
    /\ IF flow.username /\ setup.password = "stored"
       THEN Goto(Auth("idle", a.question, a.asked, TRUE), "password") /\ UNCHANGED broker
       ELSE AskUser(a, TRUE)
    /\ UNCHANGED <<flow, handed>>

\* username_password: the keyring is asked once, and only for a known username.
UsernamePassword(a) ==
    LET consults == flow.username /\ ~flow.offered
    IN \/ /\ consults /\ setup.password = "stored"
          /\ flow' = [flow EXCEPT !.offered = TRUE]
          /\ Goto(Auth("idle", a.question, a.asked, TRUE), "password") /\ UNCHANGED <<handed, broker>>
       \/ /\ consults /\ setup.password = "unreadable"
          /\ Finish("closing") /\ UNCHANGED <<flow, handed, broker>>
       \/ /\ ~consults \/ setup.password = "absent"
          /\ AskUser(a, TRUE) /\ UNCHANGED <<flow, handed>>

\* handle_event: openvpn asks, and the flow starts to answer.
Ask(q) ==
    /\ auth.at = "waiting" /\ auth.asked < MaxQuestions
    /\ LET a == Auth("idle", q, auth.asked + 1, FALSE)
           nameless == q = "DynamicAnonymous" /\ ~flow.username
       IN \/ q \in Need /\ UsernamePassword(a)
          \/ q \in Challenges /\ ~nameless /\ SecondFactor(a)
          \/ /\ q \in {"NeedNothing", "Rejected"} \/ nameless
             /\ Finish("closing") /\ UNCHANGED <<flow, handed, broker>>
    /\ UNCHANGED <<setup, clock>>

\* The prompt came back.  A username typed is remembered, a password is not.
AskReturns ==
    /\ auth.at = "asking" /\ ask.at \in {"answered", "failed"} /\ DropAsk
    /\ \/ ask.at = "failed" /\ Finish("closing") /\ UNCHANGED flow
       \/ /\ ask.at = "answered" /\ ask.wants
          /\ flow' = [flow EXCEPT !.username = TRUE] /\ Goto(auth, "password")
       \/ ask.at = "answered" /\ ~ask.wants /\ Goto(auth, "answering") /\ UNCHANGED flow
    /\ UNCHANGED <<setup, clock, handed>>

\* The password is there: a static challenge wants a second factor with it.
HavePassword ==
    /\ auth.at = "password"
    /\ IF auth.question = "NeedChallenge" THEN SecondFactor(auth)
       ELSE Goto(auth, "answering") /\ UNCHANGED <<flow, handed, broker>>
    /\ UNCHANGED <<setup, clock>>

\* The notices of the flow: the short seed, and a code that is used up.
Notify ==
    /\ auth.at \in {"warning", "consumed"} /\ Emit
    /\ Goto(auth, IF auth.at = "warning" THEN "code" ELSE "instead")
    /\ UNCHANGED <<setup, clock, flow, handed>>

AfterNotice ==
    /\ \/ auth.at = "code" /\ GenerateCode(auth) /\ UNCHANGED broker
       \/ auth.at = "instead" /\ AskUser(auth, FALSE) /\ UNCHANGED <<flow, handed>>
    /\ UNCHANGED <<setup, clock>>

\* send_answer: openvpn takes the answer, or refuses the command.
Answer ==
    /\ auth.at = "answering"
    /\ handed' = [handed EXCEPT !.stored = @ + IF auth.stored THEN 1 ELSE 0]
    /\ auth' = Auth("waiting", "none", auth.asked, FALSE) \/ Finish("closing")
    /\ UNCHANGED <<setup, clock, flow, broker>>

-----------------------------------------------------------------------------
(* The attempt around the flow.                                            *)

\* run_connect: every attempt has a flow of its own.
BeginFlow ==
    /\ auth.at = "idle" /\ Finish("waiting")
    /\ flow' = NewFlow /\ handed' = NotHanded
    /\ UNCHANGED <<setup, clock, broker>>

\* The tunnel is up with its identity; or the deadline, which is looked at
\* between two questions only, has passed.
Settles ==
    /\ auth.at = "waiting" /\ (Finish("up") \/ Finish("closing"))
    /\ UNCHANGED <<setup, clock, flow, handed, broker>>

\* Where `authenticate` and `race` watch the cancellation and openvpn's exit.
Racing == {"waiting", "warning", "consumed", "asking"}

Abandon ==
    /\ auth.at \in Racing /\ Finish("closing") /\ DropAsk
    /\ UNCHANGED <<setup, clock, flow, handed>>

\* The end of teardown.  One flow has at most one prompt open.
Withdraw ==
    /\ auth.at = "closing" /\ WithdrawAll
    /\ IF pending = {} THEN Finish("reporting")
       ELSE auth' = Auth("withdrawing", "none", CHOOSE i \in pending : TRUE, FALSE)
    /\ UNCHANGED <<setup, clock, flow, handed>>

\* The teardown budget may run out while the announcement waits for room.
AnnounceWithdrawal ==
    /\ auth.at = "withdrawing" /\ Finish("reporting")
    /\ Announce(auth.asked) \/ (Len(outbound) = OutboundLimit /\ UNCHANGED broker)
    /\ UNCHANGED <<setup, clock, flow, handed>>

\* Time passes between two questions, and while the user types.
Tick ==
    /\ auth.at \in {"waiting", "asking"} /\ clock < MaxStep /\ setup.totp
    /\ clock' = clock + 1 /\ UNCHANGED <<setup, flow, auth, handed, broker>>

FlowInit ==
    /\ BrokerInit /\ setup \in Setups /\ clock = 0 /\ flow = NewFlow /\ auth = Idle
    /\ handed = NotHanded

\* What the attempt's task does when it is scheduled or its timers fire.
FlowStep ==
    \/ (SendPrompt \/ TakeReply \/ PromptTimeout \/ AnnounceExpiry) /\ UNCHANGED flowVars
    \/ AskReturns \/ HavePassword \/ Notify \/ AfterNotice \/ Answer \/ Withdraw
    \/ AnnounceWithdrawal

FlowTypeOK ==
    /\ setup \in Setups /\ clock \in 0..MaxStep /\ flow.lastStep \in -1..clock
    /\ auth.at \in Racing \cup {"idle", "password", "code", "instead", "answering", "closing",
                                "withdrawing", "reporting", "up"}

\* Nothing openvpn has refused is sent again in the same attempt, whatever it
\* asks and however often: offering the stored password again would lock the
\* account (username_password), and a generated code is good once
\* (ReplayGuard::admit).
NothingIsResent ==
    handed.stored <= 1 /\ \A s \in DOMAIN handed.codes : handed.codes[s] <= 1

===============================================================================
