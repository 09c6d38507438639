------------------------------- MODULE Session --------------------------------
(***************************************************************************)
(* The daemon's one connection (daemon/src/session/mod.rs, state.rs,       *)
(* connect.rs, handshake.rs, spawn.rs).                                    *)
(*                                                                         *)
(* Every IPC request runs on a task of its own, so `connect`, `disconnect` *)
(* and the supervisor of a live session interleave at every lock and       *)
(* await.  Each call of `connect` is an attempt c, which owns at most one  *)
(* openvpn, one management channel, one policy and one listener; its       *)
(* supervisor is the task run_connect spawns.  Profiles, credentials,      *)
(* addresses and texts are left out; the steps of a policy installation    *)
(* are those of TunnelPolicy and are single steps here.                    *)
(***************************************************************************)
EXTENDS Integers, FiniteSets

CONSTANTS
    Connects,       \* Calls of connect
    Disconnects,    \* Calls of disconnect
    Shutdown,       \* Those of them main makes before it returns
    None,
    Plans           \* Which calls are made, and whether a policy command may
                    \* outlast the teardown budget

ASSUME CallAssumption ==
    /\ Connects \cap Disconnects = {} /\ Shutdown \subseteq Disconnects
    /\ None \notin Connects
    /\ Plans \subseteq [calls : SUBSET (Connects \cup Disconnects), wedges : BOOLEAN]

VARIABLES
    plan,       \* The plan of this behaviour
    state,      \* StateCell
    pc,         \* Where each call of connect is
    err,        \* Why an attempt failed
    kpc,        \* Where each closer (a disconnect, a supervisor) is
    held,       \* The attempt whose resources a closer took out of `active`
    active,     \* Inner.active
    status,     \* The attempt Inner.status describes
    canceller,  \* The attempt whose sender Inner.cancel holds
    cancelled,  \* Attempts that were sent a cancellation
    proc,       \* Each attempt's openvpn process
    exitSeen,   \* Attempts whose exit receiver has yielded its value
    link,       \* What each attempt's tunnel watch says
    prompt,     \* Attempts with an outstanding prompt at the broker
    td,         \* Where the teardown of each attempt's resources is
    binding,    \* Attempts whose resources hold a TunnelBinding
    slot,       \* Whose proof ManagedPolicy.installed holds
    queued,     \* Attempts whose policy teardown is handed to a blocking thread
    job,        \* A policy teardown under the mutex: whose, and what it took
    kernel,     \* Attempts whose policy stands in the kernel
    listener,   \* The attempt the proxy listener is pinned to
    daemon      \* Whether the process still runs

calls == <<pc, err, kpc, held>>
cell == <<state, active, status, canceller, cancelled>>
child == <<proc, exitSeen, link>>
machine == <<slot, queued, job, kernel, listener>>
vars == <<calls, cell, child, prompt, td, binding, machine, daemon, plan>>

Closers == Disconnects \cup Connects

NoJob == [by |-> None, took |-> None]

-----------------------------------------------------------------------------
(* StateCell.                                                              *)

IsBusy(s) == s \in {"Connecting", "Authenticating", "Connected", "Disconnecting"}

Permits(from, to) ==
    \/ to = "Failed"
    \/ <<from, to>> \in
         {<<"Disconnected", "Connecting">>, <<"Failed", "Connecting">>,
          <<"Connecting", "Authenticating">>, <<"Connecting", "Connected">>,
          <<"Connecting", "Disconnecting">>, <<"Authenticating", "Connected">>,
          <<"Authenticating", "Disconnecting">>, <<"Connected", "Disconnecting">>,
          <<"Disconnecting", "Disconnected">>, <<"Failed", "Disconnected">>}

\* advance_with: the same state again is fine, an illegal one is refused.
MayAdvance(next) == state = next \/ Permits(state, next)

-----------------------------------------------------------------------------
(* Dropping resources, and what a failing attempt does.                    *)

\* Dropping ChannelControl closes the stop channel, and spawn::supervise then
\* kills the child.
Killed(p) == IF p \in {"running", "termed"} THEN "killed" ELSE p

Closed(l) == IF l = "off" THEN "off" ELSE "down"

Goto(c, where) == pc' = [pc EXCEPT ![c] = where]

\* An error before the attempt has a management channel: no teardown runs,
\* the resources are simply dropped.
FailEarly(c) ==
    /\ Goto(c, "recording") /\ err' = [err EXCEPT ![c] = "other"]
    /\ proc' = [proc EXCEPT ![c] = Killed(@)]

\* Mutant: the failure is reported without the teardown.
FailUntorn(c, why) ==
    Goto(c, "recording") /\ err' = [err EXCEPT ![c] = why] /\ UNCHANGED td

\* Any later error tears the attempt's resources down first.
Fail(c, why) ==
    /\ Goto(c, "failing") /\ err' = [err EXCEPT ![c] = why]
    /\ td' = [td EXCEPT ![c] = "revoke"]

-----------------------------------------------------------------------------
(* SessionManager::connect.                                                *)

\* No request is read any more once main has begun its own disconnect.
BeginConnect(c) ==
    /\ pc[c] = "idle" /\ c \in plan.calls /\ \A d \in Shutdown : kpc[d] = "idle"
    /\ IF IsBusy(state)
       THEN Goto(c, "rejected") /\ UNCHANGED state
       ELSE Goto(c, "begun") /\ state' = "Connecting"
    /\ UNCHANGED <<err, kpc, held, active, status, canceller, cancelled, child, prompt, td,
                   binding, machine, daemon, plan>>

\* run_connect replaces the sender; an attempt still holding a receiver of the
\* old one sees it closed.
ReplaceCancel(c) ==
    /\ pc[c] = "begun"
    /\ Goto(c, "loading") /\ canceller' = c
    /\ UNCHANGED <<err, kpc, held, state, active, status, cancelled, child, prompt, td,
                   binding, machine, daemon, plan>>

\* Profile, workspace, socket and process: an error leaves no child.
StartOpenvpn(c) ==
    /\ pc[c] = "loading"
    /\ \/ Goto(c, "accepting") /\ proc' = [proc EXCEPT ![c] = "running"] /\ UNCHANGED err
       \/ FailEarly(c)
    /\ UNCHANGED <<kpc, held, cell, exitSeen, link, prompt, td, binding, machine, daemon, plan>>

\* openvpn connects back and the management handshake runs.  The cancellation
\* is not watched here.
Accept(c) ==
    /\ pc[c] = "accepting"
    /\ \/ /\ proc[c] = "exited"
          /\ FailEarly(c) /\ exitSeen' = exitSeen \cup {c} /\ UNCHANGED link
       \/ FailEarly(c) /\ UNCHANGED <<exitSeen, link>>
       \/ /\ proc[c] = "running"
          /\ Goto(c, "advancing") /\ link' = [link EXCEPT ![c] = "connecting"]
          /\ UNCHANGED <<err, proc, exitSeen>>
    /\ UNCHANGED <<kpc, held, cell, prompt, td, binding, machine, daemon, plan>>

EnterAuth(c) ==
    /\ pc[c] = "advancing"
    /\ IF MayAdvance("Authenticating")
       THEN state' = "Authenticating" /\ Goto(c, "auth") /\ UNCHANGED <<err, td>>
       ELSE Fail(c, "illegal") /\ UNCHANGED state
    /\ UNCHANGED <<kpc, held, active, status, canceller, cancelled, child, prompt, binding,
                   machine, daemon, plan>>

\* authenticate returns at the top of its loop, before it looks at the
\* cancellation, once the watch says the tunnel is up.
Ready(c) ==
    /\ pc[c] = "auth" /\ link[c] = "up"
    /\ Goto(c, "installing")
    /\ UNCHANGED <<err, kpc, held, cell, child, prompt, td, binding, machine, daemon, plan>>

\* openvpn asks, and the flow has to ask the user.
Ask(c) ==
    /\ pc[c] = "auth" /\ link[c] = "connecting"
    /\ Goto(c, "answering") /\ prompt' = prompt \cup {c}
    /\ UNCHANGED <<err, kpc, held, cell, child, td, binding, machine, daemon, plan>>

\* The user answers, and openvpn accepts the answer line.
Answered(c) ==
    /\ pc[c] = "answering" /\ c \in prompt
    /\ Goto(c, "auth") /\ prompt' = prompt \ {c}
    /\ UNCHANGED <<err, kpc, held, cell, child, td, binding, machine, daemon, plan>>

\* The prompt times out, is cancelled by the user, or its answer is refused;
\* or it was withdrawn by another attempt's teardown.
AnswerFails(c) ==
    /\ pc[c] = "answering"
    /\ Fail(c, "other") /\ prompt' = prompt \ {c}
    /\ UNCHANGED <<kpc, held, cell, child, binding, machine, daemon, plan>>

\* The deadline, a fatal event, rejected credentials or a closed channel.
AuthFails(c) ==
    /\ pc[c] = "auth"
    /\ Fail(c, "other")
    /\ UNCHANGED <<kpc, held, cell, child, prompt, binding, machine, daemon, plan>>

\* The exit receiver fires in authenticate or in race.  A prompt under way is
\* abandoned and stays with the broker.
SeeExit(c) ==
    /\ pc[c] \in {"auth", "answering"} /\ proc[c] = "exited" /\ c \notin exitSeen
    /\ Fail(c, "other") /\ exitSeen' = exitSeen \cup {c}
    /\ UNCHANGED <<kpc, held, cell, proc, link, prompt, binding, machine, daemon, plan>>

\* The cancellation fires, or its sender is gone.
SeeCancel(c) ==
    /\ pc[c] \in {"auth", "answering"} /\ (c \in cancelled \/ canceller # c)
    /\ Fail(c, "cancelled")
    /\ UNCHANGED <<kpc, held, cell, child, prompt, binding, machine, daemon, plan>>

\* PolicyManager::install.  Its cleanup removes what earlier sessions left;
\* a failed installation is rolled back.
Install(c) ==
    /\ pc[c] = "installing"
    /\ \/ Goto(c, "keeping") /\ kernel' = {c} /\ UNCHANGED <<err, td>>
       \/ Fail(c, "other") /\ kernel' = {}
       \/ Fail(c, "other") /\ UNCHANGED kernel      \* No usable address
    /\ UNCHANGED <<kpc, held, cell, child, prompt, binding, slot, queued, job, listener,
                   daemon, plan>>

\* ManagedPolicy::install keeps the proof, under the mutex.
KeepProof(c) ==
    /\ pc[c] = "keeping" /\ job = NoJob
    /\ Goto(c, "publishing") /\ slot' = c /\ binding' = binding \cup {c}
    /\ UNCHANGED <<err, kpc, held, cell, child, prompt, td, queued, job, kernel,
                   listener, daemon, plan>>

\* ProxyPublisher::publish stops the old listener, then starts one or fails.
Publish(c) ==
    /\ pc[c] = "publishing"
    /\ \/ Goto(c, "committing") /\ listener' = c /\ UNCHANGED <<err, td>>
       \/ Fail(c, "other") /\ listener' = None
    /\ UNCHANGED <<kpc, held, cell, child, prompt, binding, slot, queued, job, kernel,
                   daemon, plan>>

\* The commit point of run_connect.
Commit(c) ==
    /\ pc[c] = "committing"
    /\ IF MayAdvance("Connected")
       THEN state' = "Connected" /\ Goto(c, "reporting") /\ UNCHANGED <<err, td>>
       ELSE Fail(c, "illegal") /\ UNCHANGED state
    /\ UNCHANGED <<kpc, held, active, status, canceller, cancelled, child, prompt, binding,
                   machine, daemon, plan>>

WriteStatus(c) ==
    /\ pc[c] = "reporting"
    /\ Goto(c, "storing") /\ status' = c
    /\ UNCHANGED <<err, kpc, held, state, active, canceller, cancelled, child, prompt, td,
                   binding, machine, daemon, plan>>

\* The resources go into the slot, dropping what is there, and the supervisor
\* is spawned.
Store(c) ==
    /\ pc[c] = "storing"
    /\ Goto(c, "done") /\ active' = c
    /\ kpc' = [kpc EXCEPT ![c] = "watching"]
    /\ proc' = [p \in Connects |-> IF p = active THEN Killed(proc[p]) ELSE proc[p]]
    /\ link' = [p \in Connects |-> IF p = active THEN Closed(link[p]) ELSE link[p]]
    /\ UNCHANGED <<err, held, state, status, canceller, cancelled, exitSeen, prompt, td,
                   binding, machine, daemon, plan>>

\* connect goes on once teardown returns, unless it panicked.
TornDown(c) ==
    /\ pc[c] = "failing" /\ td[c] \in {"done", "panicked"}
    /\ Goto(c, IF td[c] = "done" THEN "recording" ELSE "dead")
    /\ UNCHANGED <<err, kpc, held, cell, child, prompt, td, binding, machine, daemon, plan>>

RecordFailure(c) ==
    /\ pc[c] = "recording"
    /\ Goto(c, "done") /\ status' = None
    /\ state' = (IF err[c] = "cancelled" THEN "Disconnected" ELSE "Failed")
    /\ UNCHANGED <<err, kpc, held, active, canceller, cancelled, child, prompt, td, binding,
                   machine, daemon, plan>>

-----------------------------------------------------------------------------
(* SessionManager::disconnect and handle_loss.                             *)

KGoto(k, where) == kpc' = [kpc EXCEPT ![k] = where]

BeginDisconnect(d) ==
    /\ kpc[d] = "idle" /\ d \in plan.calls
    /\ \/ /\ state \in {"Disconnected", "Disconnecting"}    \* NotConnected, Busy
          /\ KGoto(d, "rejected") /\ UNCHANGED state
       \/ /\ state \in {"Connecting", "Authenticating"}
          /\ KGoto(d, "telling") /\ state' = "Disconnecting"
       \/ /\ state \in {"Connected", "Failed"}
          /\ KGoto(d, "cancelling") /\ state' = "Disconnecting"
    /\ UNCHANGED <<pc, err, held, active, status, canceller, cancelled, child, prompt, td,
                   binding, machine, daemon, plan>>

\* An attempt in flight is told, and left to tear itself down.
SendCancel(d) ==
    /\ kpc[d] \in {"telling", "cancelling"}
    /\ KGoto(d, IF kpc[d] = "cancelling" THEN "taking" ELSE "done")
    /\ cancelled' = cancelled \cup ({canceller} \ {None})
    /\ UNCHANGED <<pc, err, held, state, active, status, canceller, child, prompt, td, binding,
                   machine, daemon, plan>>

\* The supervisor of c sees the tunnel go, whoever made it go.
Loss(c) ==
    /\ kpc[c] = "watching" /\ link[c] = "down"
    /\ KGoto(c, "taking") /\ state' = "Disconnecting"
    /\ UNCHANGED <<pc, err, held, active, status, canceller, cancelled, child, prompt, td,
                   binding, machine, daemon, plan>>

\* Both take whatever session is active and tear it down.
Take(k) ==
    /\ kpc[k] = "taking"
    /\ active' = None /\ held' = [held EXCEPT ![k] = active]
    /\ IF active = None
       THEN KGoto(k, "finishing") /\ UNCHANGED td
       ELSE KGoto(k, "tearing") /\ td' = [td EXCEPT ![active] = "revoke"]
    /\ UNCHANGED <<pc, err, state, status, canceller, cancelled, child, prompt, binding,
                   machine, daemon, plan>>

Tore(k) ==
    /\ kpc[k] = "tearing" /\ td[held[k]] = "done"
    /\ KGoto(k, "finishing")
    /\ UNCHANGED <<pc, err, held, cell, child, prompt, td, binding, machine, daemon, plan>>

\* finish_disconnect lands in Disconnected, handle_loss in Failed.
FinishClosing(k) ==
    /\ kpc[k] = "finishing"
    /\ KGoto(k, "done") /\ status' = None
    /\ state' = (IF k \in Disconnects THEN "Disconnected" ELSE "Failed")
    /\ UNCHANGED <<pc, err, held, active, canceller, cancelled, child, prompt, td, binding,
                   machine, daemon, plan>>

-----------------------------------------------------------------------------
(* teardown_inner, run by whoever owns the resources of c.                 *)

TGoto(c, where) == td' = [td EXCEPT ![c] = where]

\* Mutant: the teardown starts with the policy.
RevokeForgotten(c) ==
    /\ td[c] = "revoke"
    /\ IF c \in binding
       THEN TGoto(c, "removing") /\ queued' = queued \cup {c}
       ELSE TGoto(c, "mgmt") /\ UNCHANGED queued
    /\ binding' = binding \ {c}
    /\ UNCHANGED <<calls, cell, child, prompt, slot, job, kernel, listener, daemon, plan>>

\* The identity is revoked first and unconditionally, then the policy teardown
\* goes to a blocking thread and is awaited.
Revoke(c) ==
    /\ td[c] = "revoke" /\ listener' = None
    /\ IF c \in binding
       THEN TGoto(c, "removing") /\ queued' = queued \cup {c}
       ELSE TGoto(c, "mgmt") /\ UNCHANGED queued
    /\ binding' = binding \ {c}
    /\ UNCHANGED <<calls, cell, child, prompt, slot, job, kernel, daemon, plan>>

\* ManagedPolicy::teardown takes the mutex and whatever proof is there.
PolicyJobBegin(c) ==
    /\ daemon = "running" /\ c \in queued /\ job = NoJob
    /\ queued' = queued \ {c}
    /\ job' = [by |-> c, took |-> slot] /\ slot' = None
    /\ UNCHANGED <<calls, cell, child, prompt, td, binding, kernel, listener, daemon, plan>>

\* It removes the policy it took, or gives up.  Policies share the table, so
\* one that was installed meanwhile can lose its floor as well.
PolicyJobEnd ==
    /\ job # NoJob
    /\ kernel' \in (IF job.took = None THEN {kernel} ELSE {kernel, kernel \ {job.took}, {}})
    /\ job' = NoJob
    /\ td' = [td EXCEPT ![job.by] = IF @ = "removing" THEN "mgmt" ELSE @]
    /\ UNCHANGED <<calls, cell, child, prompt, binding, slot, queued, listener, daemon, plan>>

\* Mutant: giving up does not drop the process control.
BudgetForgetsChild(c) ==
    /\ plan.wedges /\ td[c] \in {"removing", "mgmt", "stop", "withdraw"}
    /\ TGoto(c, "done")
    /\ UNCHANGED <<calls, cell, child, prompt, binding, machine, daemon, plan>>

\* TEARDOWN_BUDGET runs out, a policy command having been slow: the resources
\* are dropped where the teardown stands; a queued or running job goes on
\* without anyone waiting for it.
BudgetSpent(c) ==
    /\ plan.wedges /\ td[c] \in {"removing", "mgmt", "stop", "withdraw"}
    /\ TGoto(c, "done")
    /\ proc' = [proc EXCEPT ![c] = Killed(@)] /\ link' = [link EXCEPT ![c] = Closed(@)]
    /\ UNCHANGED <<calls, cell, exitSeen, prompt, binding, machine, daemon, plan>>

\* SIGTERM over the management channel, which is then closed.
CloseMgmt(c) ==
    /\ td[c] = "mgmt"
    /\ TGoto(c, "stop")
    /\ proc' = [proc EXCEPT ![c] = IF @ = "running" THEN "termed" ELSE @]
    /\ link' = [link EXCEPT ![c] = Closed(@)]
    /\ UNCHANGED <<calls, cell, exitSeen, prompt, binding, machine, daemon, plan>>

\* The exit receiver is polled; polling it once more after it has yielded its
\* value panics, and unwinding drops the resources.
AwaitExit(c) ==
    /\ td[c] = "stop"
    /\ IF c \in exitSeen
       THEN TGoto(c, "panicked") /\ UNCHANGED exitSeen
       ELSE /\ proc[c] = "exited"
            /\ TGoto(c, "withdraw") /\ exitSeen' = exitSeen \cup {c}
    /\ UNCHANGED <<calls, cell, proc, link, prompt, binding, machine, daemon, plan>>

\* Mutant: the wait for the exit has no bound.
GraceUnbounded(c) ==
    /\ td[c] = "stop" /\ c \notin exitSeen /\ proc[c] = "exited"
    /\ TGoto(c, "withdraw")
    /\ UNCHANGED <<calls, cell, child, prompt, binding, machine, daemon, plan>>

\* STOP_GRACE runs out: the child is killed, and waited for once more.
GraceSpent(c) ==
    /\ td[c] = "stop" /\ c \notin exitSeen
    /\ TGoto(c, "withdraw")
    /\ proc' = [proc EXCEPT ![c] = Killed(@)]
    /\ UNCHANGED <<calls, cell, exitSeen, link, prompt, binding, machine, daemon, plan>>

\* withdraw_all clears every prompt, also those of other attempts.
Withdraw(c) ==
    /\ td[c] = "withdraw"
    /\ TGoto(c, "done") /\ prompt' = {}
    /\ UNCHANGED <<calls, cell, child, binding, machine, daemon, plan>>

-----------------------------------------------------------------------------
(* openvpn.                                                                *)

LinkUp(c) ==
    /\ link[c] = "connecting" /\ proc[c] = "running"
    /\ link' = [link EXCEPT ![c] = "up"]
    /\ UNCHANGED <<calls, cell, proc, exitSeen, prompt, td, binding, machine, daemon, plan>>

LinkDown(c) ==
    /\ link[c] \in {"connecting", "up"}
    /\ link' = [link EXCEPT ![c] = "down"]
    /\ UNCHANGED <<calls, cell, proc, exitSeen, prompt, td, binding, machine, daemon, plan>>

Exit(c) ==
    /\ proc[c] \in {"running", "termed", "killed"}
    /\ proc' = [proc EXCEPT ![c] = "exited"] /\ link' = [link EXCEPT ![c] = Closed(@)]
    /\ UNCHANGED <<calls, cell, exitSeen, prompt, td, binding, machine, daemon, plan>>

-----------------------------------------------------------------------------

\* main returns once its own disconnect has: every task is gone, and the
\* children are killed with their handles.
Stop ==
    /\ daemon = "running" /\ daemon' = "stopped"
    /\ \E d \in Shutdown : kpc[d] \in {"done", "rejected"}
    /\ pc' = [c \in Connects |-> "dead"] /\ kpc' = [k \in Closers |-> "done"]
    /\ td' = [c \in Connects |-> "done"]
    /\ proc' = [c \in Connects |-> Killed(proc[c])]
    /\ listener' = None
    /\ UNCHANGED <<err, held, cell, exitSeen, link, prompt, binding, slot, queued, job,
                   kernel, plan>>

Init ==
    /\ plan \in Plans
    /\ state = "Disconnected" /\ active = None /\ status = None
    /\ canceller = None /\ cancelled = {}
    /\ pc = [c \in Connects |-> "idle"] /\ err = [c \in Connects |-> "none"]
    /\ kpc = [k \in Closers |-> IF k \in Disconnects THEN "idle" ELSE "off"]
    /\ held = [k \in Closers |-> None]
    /\ proc = [c \in Connects |-> "none"] /\ exitSeen = {}
    /\ link = [c \in Connects |-> "off"] /\ prompt = {}
    /\ td = [c \in Connects |-> "none"] /\ binding = {}
    /\ slot = None /\ queued = {} /\ job = NoJob /\ kernel = {} /\ listener = None
    /\ daemon = "running"

Attempting(c) ==
    \/ ReplaceCancel(c) \/ StartOpenvpn(c) \/ Accept(c) \/ EnterAuth(c)
    \/ Ready(c) \/ AnswerFails(c) \/ AuthFails(c) \/ SeeExit(c) \/ SeeCancel(c)
    \/ Install(c) \/ KeepProof(c) \/ Publish(c) \/ Commit(c) \/ WriteStatus(c) \/ Store(c)
    \/ TornDown(c) \/ RecordFailure(c)

Closing(k) == Take(k) \/ Tore(k) \/ FinishClosing(k)

TearingDown(c) ==
    \/ Revoke(c) \/ PolicyJobBegin(c) \/ BudgetSpent(c) \/ CloseMgmt(c)
    \/ AwaitExit(c) \/ GraceSpent(c) \/ Withdraw(c)

Next ==
    \/ \E c \in Connects :
        \/ BeginConnect(c) \/ Attempting(c) \/ Ask(c) \/ Answered(c)
        \/ Loss(c) \/ TearingDown(c)
        \/ LinkUp(c) \/ LinkDown(c) \/ Exit(c)
    \/ \E d \in Disconnects : BeginDisconnect(d) \/ SendCancel(d)
    \/ \E k \in Closers : Closing(k)
    \/ PolicyJobEnd
    \/ Stop

Spec == Init /\ [][Next]_vars

-----------------------------------------------------------------------------
(* Fairness: every task is polled, timeouts expire, a killed child dies.   *)

FairSpec ==
    /\ Spec
    /\ \A c \in Connects :
        /\ WF_vars(Attempting(c)) /\ WF_vars(TearingDown(c))
        /\ WF_vars(Loss(c)) /\ WF_vars(proc[c] = "killed" /\ Exit(c))
    /\ \A d \in Disconnects : WF_vars(SendCancel(d))
    /\ \A k \in Closers : WF_vars(Closing(k))
    /\ WF_vars(PolicyJobEnd)

-----------------------------------------------------------------------------
(* Properties.                                                             *)

\* Every variable keeps its type.
TypeOK ==
    /\ state \in {"Disconnected", "Connecting", "Authenticating", "Connected",
                  "Disconnecting", "Failed"}
    /\ pc \in [Connects -> {"idle", "rejected", "begun", "loading", "accepting", "advancing",
                            "auth", "answering", "installing", "keeping", "publishing",
                            "committing", "reporting", "storing", "failing", "recording",
                            "done", "dead"}]
    /\ err \in [Connects -> {"none", "illegal", "cancelled", "other"}]
    /\ kpc \in [Closers -> {"off", "idle", "rejected", "telling", "cancelling",
                            "watching", "taking", "tearing", "finishing", "done"}]
    /\ held \in [Closers -> Connects \cup {None}]
    /\ active \in Connects \cup {None} /\ status \in Connects \cup {None}
    /\ canceller \in Connects \cup {None} /\ slot \in Connects \cup {None}
    /\ listener \in Connects \cup {None}
    /\ proc \in [Connects -> {"none", "running", "termed", "killed", "exited"}]
    /\ link \in [Connects -> {"off", "connecting", "up", "down"}]
    /\ td \in [Connects -> {"none", "revoke", "removing", "mgmt", "stop",
                            "withdraw", "done", "panicked"}]
    /\ job \in [by : Connects \cup {None}, took : Connects \cup {None}]
    /\ cancelled \subseteq Connects /\ exitSeen \subseteq Connects /\ prompt \subseteq Connects
    /\ binding \subseteq Connects /\ queued \subseteq Connects /\ kernel \subseteq Connects
    /\ daemon \in {"running", "stopped"}

\* Attempts whose resources are still some task's to give up: the attempt's
\* own, the slot's, or a teardown's.
InFlight(c) ==
    pc[c] \in {"accepting", "advancing", "auth", "answering", "installing", "keeping",
               "publishing", "committing", "reporting", "storing"}

TearingNow(c) == td[c] \notin {"none", "done", "panicked"}

Owned(c) == InFlight(c) \/ active = c \/ TearingNow(c)

Alive(c) == proc[c] \in {"running", "termed"}

\* An attempt that has published its listener, a session in the slot and a
\* teardown at its first step: whoever may still revoke the listener.
Published(c) == pc[c] \in {"committing", "reporting", "storing"}

MayRevoke(c) == Published(c) \/ active = c \/ td[c] = "revoke"

\* No openvpn and no listener outlives its owner: on every error, panic, timeout
\* and lost race of connect, disconnect and the supervisor, a child that is
\* still to be stopped has a task that will stop it, and while there is a
\* listener somebody can still revoke it (SessionResources; teardown revokes
\* first).
NothingIsOrphaned ==
    /\ daemon = "running" => \A c \in Connects : Alive(c) => Owned(c)
    /\ listener # None => \E c \in Connects : MayRevoke(c)

\* Nobody has called disconnect.
Undisturbed == \A d \in Disconnects : kpc[d] = "idle"

\* Until somebody disconnects, the proxy is pinned only to the tunnel of the
\* session that can revoke it, and as long as no policy command outlasts its
\* teardown's budget that tunnel's policy stands, also from one session to the
\* next: install_policy publishes last, teardown revokes first.
ListenerIsCovered ==
    Undisturbed /\ listener # None =>
        /\ MayRevoke(listener)
        /\ ~plan.wedges => listener \in kernel

\* Until somebody disconnects, what the state cell says is true.  A session is
\* over only when it is gone: no live openvpn, no listener, nothing in the slot
\* or the status (connect, handle_loss and record_failure report after the
\* teardown).  One that is connected can be disconnected (run_connect commits,
\* then stores).
StateIsTrue ==
    Undisturbed =>
        /\ state \in {"Disconnected", "Failed"} =>
             /\ listener = None /\ active = None /\ status = None
             /\ \A c \in Connects : ~Alive(c)
        /\ state = "Connected" =>
             active # None \/ \E c \in Connects : pc[c] \in {"reporting", "storing"}

\* Every call comes to an end, an admitted connect as well as a disconnect, and
\* a tunnel that goes down under a live session is torn down (the timeouts of
\* connect.rs; the supervisor's watch is never lossy).
NothingHangs ==
    /\ \A c \in Connects : (pc[c] = "begun") ~> (pc[c] \in {"done", "dead"})
    /\ \A d \in Disconnects : (kpc[d] = "cancelling") ~> (kpc[d] = "done" \/ daemon = "stopped")
    /\ \A c \in Connects : (active = c /\ link[c] = "down") ~> (active # c \/ daemon = "stopped")

\* state.rs: busy is "True while a connection attempt or a live connection
\* owns the daemon's single v1 session slot".
BusyMeansOwned ==
    IsBusy(state) =>
        \/ active # None
        \/ \E c \in Connects : pc[c] \notin {"idle", "rejected", "done", "dead"}
        \/ \E k \in Closers : kpc[k] \in {"cancelling", "telling", "taking",
                                          "tearing", "finishing"}

\* mod.rs: resources are "torn down here rather than published into a slot no
\* one can reach".
NoUnreachableTunnel == active # None => state \in {"Connected", "Disconnecting"}

\* The tests expect `Disconnected` once disconnect has torn the session down:
\* with no other attempt made, nothing overwrites it.
DisconnectSticks ==
    \A d \in Disconnects, c \in Connects :
        (/\ kpc[d] = "done" /\ held[d] = c
         /\ \A other \in Connects \ {c} : pc[other] \in {"idle", "rejected"})
            => state = "Disconnected"

\* main.rs: "Shutdown must not leave a tunnel behind: the routes and the utun
\* outlive this process".
ShutdownLeavesNothing == daemon = "stopped" /\ job = NoJob => kernel = {}
=============================================================================
