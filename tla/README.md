# A TLA+ model of thisconnect

thisconnect runs a VPN connection on behalf of a desktop user without touching
the host's default route. The privileged daemon `thisconnectd` starts openvpn,
drives it over its management interface, installs policy routing for the tunnel
address and runs a local proxy whose sockets are pinned to that address. The
GUI talks to the daemon over a unix socket.

This directory models the control of that system: who may do what when, what a
failure at any point leaves behind, and what the interleaving of its tasks can
do. `PROJECT.json` lists, for every definition, the lines of source it stands
for; the parts of the system that are left out, with the reason; and what is
hard to test in this code, with the property that would catch it going wrong.

## The parts and their modules

| Part | Source | Module |
| --- | --- | --- |
| policy engine, Linux plan | `daemon/src/policy/{plan,mod,reconcile,command,linux}.rs`, `session/tunnel.rs` | `TunnelPolicy`, `LinuxPolicy` |
| watch socket, watchdog | `daemon/src/policy/{netlink,watch}.rs`, `session/watchdog.rs` | `WatchedPolicy` (extends `TunnelPolicy`) |
| state cell, session manager, attempt, teardown | `daemon/src/session/{state,mod,connect,handshake}.rs` | `Session` |
| tunnel tracker and watch | `daemon/src/mgmt/{tunnel,event}.rs`, `supervise` | `TunnelWatch` |
| management client | `daemon/src/mgmt/{client,codec,escape}.rs` | `MgmtClient` |
| prompt broker | `daemon/src/auth/prompt.rs` | `PromptBroker` |
| IPC server, GUI client | `daemon/src/ipc/mod.rs`, `ui/src-tauri/src/{ipc_client,commands}.rs` | `GuiLink` (extends `PromptBroker`) |
| credential flow | `daemon/src/auth/{mod,totp}.rs` | `AuthFlow` (extends `PromptBroker`) |
| profile validator | `shared/src/ovpn/` | `OvpnProfile` |
| profile store | `daemon/src/session/{store,profiles}.rs` | `ProfileStore` (extends `OvpnProfile`) |
| request handler | `daemon/src/handler.rs` | `Requests` (extends `ProfileStore`, `AuthFlow`) |
| openvpn process, its private directory | `daemon/src/session/{spawn,workspace,transport}.rs` | `OpenvpnProcess` |
| startup, signals, control socket, authorisation | `daemon/src/{main,signals,peerauth}.rs`, `ipc/listener.rs` | `Daemon` (extends `OpenvpnProcess`) |
| address rules | `proxy/src/{egress,listener/cidr}.rs`, `policy/types.rs`, `resolver_denylist.rs` | `NetAddr` |
| DNS capture and plan, resolver pool | `daemon/src/session/dns.rs`, `session/proxy.rs`, `proxy/src/resolver/` | `TunnelDns` (extends `NetAddr`) |
| publisher, egress, listener, life of a session | `daemon/src/session/proxy*`, `proxy/src/{egress,listener,dialer,stats}*` | `ProxyRuntime` (extends `TunnelDns`) |
| what the proxy promises of its sockets | `proxy/src/egress.rs` | `PinnedSockets` (abstract) |
| SOCKS5, HTTP, limiter, dial | `proxy/src/{socks5,http,dialer,resolver}.rs` | `ProxySession` (extends `NetAddr`) |

How they interact: a request of the GUI (`GuiLink`) becomes a task of the
handler (`Requests`), which edits the store or calls the session manager
(`Session`). An attempt starts openvpn in a directory of its own
(`OpenvpnProcess`), talks to it (`MgmtClient`), answers its questions
(`AuthFlow`, and through `PromptBroker` the GUI again), waits for the tunnel
(`TunnelWatch`), installs the policy (`TunnelPolicy`) and publishes the proxy
(`ProxyRuntime`), whose clients are `ProxySession`. While it is up a watchdog
guards the policy (`WatchedPolicy`). All of it lives and dies with the process
(`Daemon`). Where one module needs another's part only as one step, it has it as
one step and names the module that has the rest.

### TunnelPolicy, LinuxPolicy, WatchedPolicy

The kernel is the number of copies of each plan step that stand (`cnt`): `ip
rule add` appends copies, `ip route add` does not, a deletion removes one, a
table flush removes all. `op`, `at` and `phase` are where the session is:
`plan::install` and `plan::teardown` are loops over the steps, a command and a
read-back each, and every command and every read-back is an action, because
other actors act between them. `proof`, `lock` and `wat`/`wphase` are
`ManagedPolicy.installed`, its mutex and the watchdog's walk. With `Faults`, an
exit status can be wrong in both directions, a command may do nothing or not
start, and a probe may be unreadable. `DeletedByOthers` and `Crash` are the
environment; a crash is followed by the startup reconciliation, as in `main`.
`tampered` and `fresh` are history: steps others have deleted and nobody has
seen since, and whether the installation began on a clean machine.

The plan is a constant. `PlanAssumption` says what `Plan::new` accepts, and
`CleanupAssumption` that each installable step is found by some cleanup command;
`LinuxPolicy` builds the Linux plan and `MCTunnelPolicy` checks both assumptions
on it.

In `TunnelPolicy` a sweep may come at any moment. `WatchedPolicy` says when it
does: notifications in the socket's bounded buffer, the one `ENOBUFS` for what
did not fit, the reader task, the trigger channel, and the loop with its hold,
its drain, its interval and its biased shutdown. A datagram is the set of
messages it carries, since the reader only asks whether one is a deletion.

### Session

One `connect` call is an attempt `c`; `pc[c]` walks through `run_connect`,
`establish`, `authenticate` and `install_policy`. A closer (`disconnect`, or the
supervisor of an attempt) is at `kpc[k]`. The teardown of an attempt's resources
is at `td[c]`, whoever runs it. Each step ends at a lock or an await, so that
other tasks come between exactly where they can. `proc`, `link` and `exitSeen`
are openvpn, the tunnel watch and the one-shot exit receiver, which panics when
it is polled after it has yielded; the panic unwinds the task of that request
and nothing else. `slot`, `queued`, `job`, `kernel` and `listener` are the
policy proof, the blocking teardown jobs, the policies in the kernel and the
proxy. `Stop` is the end of `main`: it drops every task. A "plan" says which
calls are made and whether policy commands may outlast the teardown budget.

### TunnelWatch

openvpn's lines, collected into a block, folded by `TunnelTracker::observe` and
published by `advanced_to` on a watch channel, and the two readers:
`authenticate`, which pins the identity, and `supervise`. `unseen` is the watch
receiver's mark: a reader sees the latest value, once, however often it changed.
openvpn is modelled from the order of events the daemon relies on: a device is
opened or closed only outside CONNECTED.

### MgmtClient

`wire` are lines openvpn has sent, cut in two so that a read may end within one;
the actor's `pending` command, `outbox` and reply accumulator (`body`) are as in `client.rs` and
`codec.rs`. openvpn answers in order, once per command, except that management
version 5 answers `version` with silence. Nothing is assumed of it beyond that:
it may stop answering for good. A reply carries the command it belongs to as
history; the code cannot see it.

### PromptBroker, GuiLink

The broker's map, the future that waits in `ask`, and the bounded `outbound`
channel; on top of it the connections of the server (`up`, `down`, the lease on
the channel, one task per line) and the GUI's actor (hello, pending map, queue,
timeouts). The attempt whose prompts these are is reduced to what it does to
them. When openvpn exits under an attempt, whether it waits for openvpn or for
the user, the attempt consumes the exit receiver (`handshake.rs:52`, `:173`) and
the teardown polls it again and panics (`connect.rs:321`) before it withdraws
anything (`connect.rs:330`): the attempt is `lost`, its prompt stays in the map,
its call has no answer, and the daemon takes no other connect.

### OvpnProfile, ProfileStore, AuthFlow, Requests

A profile is a sequence of lines of atoms. `OvpnProfile` is a pure function from
a text to an error or a canonical form, with the lexer's quoting, the directive
tables, the limits and the writer. `ProfileStore` takes the directory system
call by system call. `AuthFlow` answers openvpn's questions out of the keyring,
the generator and the user. `Requests` runs the handler's tasks over both.

### OpenvpnProcess, Daemon

The runtime directory and the directories in it survive the daemon; `pid` and
`sequence` name them. An attempt walks from `creating` to `over`, a child is
`running`, `killed` or gone, and requests to stop it wait in a channel of
`StopSlots`. `Daemon` starts up in the order of `main`, is told to stop by a
signal at any moment, or is killed and started again on what is left. A setup
describes the machine: executables, socket unit, groups, what may fail.

### NetAddr, TunnelDns, ProxyRuntime, PinnedSockets, ProxySession

`NetAddr` is every address rule of the system, over what those rules look at.
`TunnelDns` folds a pushed option list into servers and those into a pool.
`ProxyRuntime` is the tap, the publisher, egress with its generations, the
accept loops and the clients through two VPN sessions; `PinnedSockets` is what
it promises. `ProxySession` is what one listener does with its clients before
the relay, with the authentication limiter they share. A client that is refused
for its credentials is `denying` until the denial has been written
(`socks5.rs:529`, `:541`, `http.rs:299`), and only then does the session end in
an error that `serve` counts in `failures`. A client that leaves or stalls first
makes it end in an i/o error or a timeout; `unheard` is the history of those.
`Dial` takes the generation check and the bind of the socket as one step, at the
moment of the check (`egress.rs:171`); `ProxyRuntime` has what may come after it.

## Runs

| Run | Instance | What it shows |
| --- | --- | --- |
| `policy_faults` | IPv4 plan of 4 steps, faults, 2 copies, 2 deletions, 1 crash | a published policy is complete but for what others deleted, fails closed, is taken down from the top, and a reported success is a clean machine |
| `policy_watched` | a rule and a route; a socket and a queue of 1; six setups | whatever is dropped on the way a deleted step comes back, once; watchdog and teardown stop |
| `session_calls` | two connects; a connect, a disconnect and the shutdown with slow commands; or two connects and a disconnect with slow commands | nothing is left without an owner, the state cell is true, every call ends |
| `watch_flaps` | four devices, three reconnects | the generation makes every reconnect visible, and no identity mixes two devices |
| `mgmt_client` | two callers, versions 4 to 6, one more hold | replies reach the command they answer, a connect is complete, nobody waits for good |
| `gui_link` | three plans of one or two calls, two connections, two prompts | an answer is that of its own prompt, a teardown that ends leaves no prompt, a response is that of its own call, and everything ends but what a panic leaves |
| `requests` | 322 texts through import and connect; meetings of three requests; questions for every setting | profiles are canonical at both ends, imports do not overwrite, nothing refused is sent again |
| `proxy_lifecycle` | two VPN sessions, two clients, three pushes | the listener is the current tunnel's, the gauge counts, a stop ends sessions, sockets are pinned |
| `proxy_sessions` | two sessions in parallel, four peers, five listeners, a limiter of 2 peers | who is dialled for and what, guesses, reports, and that silence does not hold a session |
| `daemon_life` | ten machines, two lives with one process id, two attempts | a child is set up, its directory goes, members are served, and all stops when told |

Each property has a mutant in `PROJECT.json`: a definition changed the way a
plausible bug would change it, under which TLC finds the property violated.

Two runs state what a document of the repository says and are expected to be
violated; each is a finding in `PROJECT.json`.

| Run | Disagreement |
| --- | --- |
| `policy_drain` | a trigger that arrives during the hold is thrown away, and only the periodic sweep finds the deletion |
| `daemon_reach` | each connect sets the runtime directory to 0700; in the packaged layout the control socket lies in it and the group can no longer reach it |

The type invariants (`TypeOK`, and the `...TypeOK` of the modules other modules
extend) describe the state and hold in every instance when added to its cfg; those
of `TunnelPolicy`, `WatchedPolicy` and `Session` are proved.

### Bounds, and why they are enough

- Policy: two copies are the least at which a single deletion does not clear a
  rule; two deletions the least that defeat the two fail-closed layers, so that
  `FailClosed` is not vacuous; one crash puts the reconciliation at any point of
  every other operation. The watchdog's capacities are 1, so that every buffer
  is full at some time; a longer queue only delays the loss. The safety theorems
  are for every value.
- Session: a second connect is what a leftover of the first can collide with, and
  a disconnect what can come between them. Until somebody disconnects there is
  one owner at a time; what fails after that is listed below under "Further
  disagreements".
- TunnelWatch: three reconnects are one before, one within and one after the
  window between pinning and supervision.
- MgmtClient: two callers are the least that can get each other's reply; the
  outbox limit lets one overflow happen.
- GuiLink: a channel of 1 is full after one prompt; a second connection is what a
  late answer or a lost prompt could go to, and a second prompt, of a second
  attempt, what a late reply to the first one could. In the plan with two prompts
  (`steady`) the GUI stays connected, of the same version, and its callers wait;
  quitting, timeouts and the shutdown are in the plan with one.
- Requests: limits are a few atoms, with texts on either side of each; three
  requests are a pair that meets and one that looks.
- ProxyRuntime: two tunnels are an old and a new one. ProxySession: two sessions
  guess in parallel, and five connections of a peer are what uses up the burst,
  the token one step of time gives back and both overshoots, so that the bound of
  `GuessesAreBounded` is reached; four peers and a table of two make room
  necessary. The listeners with many connections take no destinations: one has
  five of a single peer through either front end, one has four of all peers. Those
  that dial take two connections.
- Daemon: two lives with one process id are the least that can meet a leftover.

Deadlock is checked only in the policy runs, where a session may always be
started. Everywhere else the system really stops: all calls served, all
connections used up, the daemon gone.

### Fairness

tokio polls every task that is ready, and every wait on a child or a peer that
the code bounds has a timeout. So the steps of the daemon's own tasks and its
timers are weakly fair. Nothing is assumed of the others: a user need not
answer, call or delete anything, openvpn need not answer or exit (only a killed
process dies), and clients, destinations and nameservers may be silent for good.

Strong fairness is used where a task waits for something that is free again and
again. The policy mutex is a `std::sync::Mutex` (`session/tunnel.rs:14`), which
promises no order; but its only other user is the watchdog, which leaves it free
for the whole of `MIN_INTERVAL`, a second, after every sweep (`watchdog.rs:82`),
and a teardown that waits on it is woken and takes it in that time. The bounded
channel and the lease in `GuiLink` are tokio's and serve their waiters in turn,
and in `ProxyRuntime` the shutdown branch of an accept loop that always has
something else to do is picked in the end (`select!` picks among ready branches
at random). In `GuiLink` the GUI comes back while it has connections left, since
its actor reconnects for ever.

## Proofs

Eight modules hold theorems. They are for every value of the constants that
satisfies the named assumptions of the component's module. Every inductive
invariant below also holds in TLC on the instance of its run.

`PolicyProofs`, on `TunnelPolicy`: every safety property of `policy_faults`
(`TypeCorrectness`, `MissingOnlyIfTamperedAlways`, `FailClosedAlways`,
`LowerLayersOutlastAlways`, `RefusedMeansCleanAlways`,
`SuccessMeansCleanAlways`, `NothingComesBackAlways`), from `PlanAssumption`,
`CleanupAssumption` and `BoundAssumption`. All follow from one inductive
invariant `IInv`. `Flags` and `Positions` are the types, split because the
Boolean variables go to one prover and the arithmetic to another. `Control` ties
the mutex, the proof and the watchdog's position to what the session does: a
sweep is under way only under the mutex, and a teardown holds the mutex with the
proof gone. `Kernel` says what stands at each point: during an installation the
steps below `at`, during a rollback or a teardown nothing above `at`, and
everything while the policy is up, up to `tampered`. None of the properties is
inductive alone: that the published policy is complete needs that an
installation verified every step before the next one, and that a teardown ends
clean needs that nobody else can add a step meanwhile, which is `Control`.

On `WatchedPolicy`: `WatchImplementsPolicy`, every step of the policy with its
watchdog is a step of `TunnelPolicy` or a stutter, so that what is proved there
holds here (`WatchedPolicyIsSafe`). `NoDuplicatesAlways`: where commands do what
they say no rule stands twice. Its invariant `Single` adds to `IInv` that the
step about to be added has been seen missing, and that during a cleanup whatever
stands still has a command to come. `NothingIsMissedAlways`, also for a machine
without `Faults` (a probe that lies lets a walk pass over a missing step): the
invariant `WInv` says it from the moment the installation has come past a step,
and with the exact place of the walk, which has probed what is behind it.

`SessionProofs`: `NothingIsOrphanedAlways`, `ListenerIsCoveredAlways` and
`StateIsTrueAlways`, for any number of calls of `connect` and `disconnect`, with
or without commands that outlast their budget, from `CallAssumption`. `OInv`
says of each attempt alone what it can own where it is. `QuietInv` is about the
time until somebody disconnects: one attempt at a time occupies the daemon
(`Solitary`), the state cell says that it does, each of its tasks is where the
others expect it (`Stages`), and without slow commands a policy job is one its
teardown waits for (`Enforced`). That the listener is covered rests on all of
these, since only the admission in the state cell keeps a second attempt away
from the first one's policy.

`SessionProofs`, on `TunnelWatch`, whose variables are its own: `Generations`. The
invariant `GenerationInv` is that the watch shows the
tracker, that a block is never being read while openvpn is connected, and what a
supervisor may rely on (`Kept`): the same generation means the same identity.
`PublishedIsOpenAlways`: `OpenInv` follows a block line by line, so that the
variables collected so far are those of the one device that is open.

`ProxySessionProofs`, on the pure rules of `NetAddr`: the daemon's copy of the
resolver rules is the proxy's (`ResolverMirrorsEgress`), spelling does not change
a verdict (`SpellingIsIrrelevant`), and a tunnel address the proxy would pin is
one a policy can be installed for (`SourceCarriesPolicy`). On sessions, for any
listeners, peers, networks and limiter, from `ProxySessionAssumption` and
`PeerAssumption` (finitely many slots and peers, networks `Cidr::new` accepts):
`DialledIsAllowedAlways`, which includes that the masks of `prefix_matches`
compare exactly the bits of the prefix (`PrefixIsBits`), and
`VerdictsAreTrueAlways`, from what each place of a session implies about its
peer, credentials, verdicts and socket (`SInv`). `ReportsAreTrueAlways` adds the
failures. Its invariant `Told` is an account: what the limiter holds against all
peers together is at most the failures reported, the denials being written and
those nobody heard, and these and the sessions under way are at most the
connections opened, so that none is counted for two. Each step of a slot moves it
between these counts (`SlotTells`): a wrong password adds a guess and a denial, a
denial written or lost becomes a failure or an unheard one. The sum over the
peers is a fold, so it needs that a step changes one summand and that the others
are what they were, for any finite set of peers.
`GuessesAreBoundedAlways` and
`ThrottleSurvivesFloodAlways`, from `LInv`: a bucket that is not empty has been
paid for, but for what got through while it was empty, and an empty one still
owes a guess to each session that has passed the check. The capacity check and
the record are two lock acquisitions, so the bound is `Burst + ticks + (ticks +
1) * (sessions - 1)`: after every token that time gives back the sessions that
passed the check together get a guess each.

`ProxyRuntimeProofs`: `ProxyKeepsPromise`, the proxy implements `PinnedSockets`;
and `NoSocketOnOldTunnelAlways`. The invariant orders generations by tunnel
(`InOrder`) and says that a client has a generation that was counted before its
accept loop was spawned (`Follows`). `GaugeCountsAlways`, for finitely many
clients: the gauge is the cardinality of the sessions counted, and each step
changes both alike. `ListenerIsOwnAlways`, from `PushAssumption` (a pushed
option is of a known kind and its tokens are addresses, domains or malformed).
Its half about whose listener it is, `UnstoppedIsCurrentAlways`, follows from
`LInv`: the publisher's place, its phase and its listener agree (`Stage`), and an
accept loop nobody has stopped is the stored one's. Its half about the resolver
follows from `Fed`: what is captured before the publication was named by this
tunnel's push, from the plan on there are servers to ask and each may be dialled,
and from the resolver on they are its pool. `Fed` rests on what the folds over
options and servers compute: `PushReplyIsFaithful`, the servers kept of a push are
exactly those its options name, comma-separated lists that openvpn has split into
options of their own included; and that filtering, vetting and selecting keep
what may be dialled and drop nothing else.

`PolicyProofs`, on `GuiLink`, whose variables are its own: `AnswerIsOwnAlways`,
`PromptsAreWithdrawnAlways` and `WaitingIsPendingAlways`, for any number of
callers, connections and prompts. The invariant is that the broker's map holds at
most the last prompt issued (`Entries`), that it may do so without a future that
waits only while the attempt closes, panics or is lost, and that it is empty once
the attempt has withdrawn. An attempt cannot begin after a lost one, which is why
no later attempt finds the lost one's prompt. `AnsweredMeansOverAlways`,
from `LinkAssumption`: in `CInv` the request of a call is in one place at a time,
the queue of the actor, a connection or its task (`OnePlace`), and nowhere once
its response exists (`Settled`), which reconnects must keep for all queues
together.

`DaemonProofs`: `NoDirectoryIsForgottenAlways`, `NoDirectoryIsTakenOverAlways`
and `NoStopIsLostAlways`, for any attempts, process ids and machines. `FInv`
says that directory names are unique and that an attempt holds the directory it
made exactly while it is at a place that has one; `SInv` counts who may still
send a stop. `ChildIsSetUpAlways`, from `SetupAssumption`: `EInv` has the order in
which the files are written and the flag is decided. `MembersAreServedAlways`,
from `UserAssumption` (an account named like the group has it as its primary
group): `AInv` ties the policy in force to what the group said when it was read.

`MgmtClientProofs`: `ExchangeIsOwnAlways`, and `MgmtConnectProofs`, which extends
it: `ConnectIsCompleteAlways`, for any callers, parameters, versions, channel
sizes and number of holds, from `MgmtClientAssumption` (channels with room, an
outbox with room for a hold, versions that are numbers, parameters that are
texts, tasks with names of their own). Neither is inductive, and each rests on an
account of everything that is under way.
- `XInv`: at most one command is awaited, and the replies on the wire, the body
  lines read so far and the commands openvpn has yet to read are in this order
  what is left of the awaited one and of commands nobody awaits (`Matched`). A
  reply that finds nobody waiting is dropped, so that it can never be taken for
  the next one; this is where the silent `version` of old openvpns matters.
- `TypedInv`: a queued command carries the escaped form of what its task typed.
  With `EscapeParamIsLossless`, that openvpn's lexer undoes `escape_param` on a
  text of any length, it arrives as typed.
- `ShakenInv`: the commands of the handshake that openvpn has read, and those
  still queued, are in order a prefix of the handshake (`Trails`), and a reply to
  one means that it was read.
- `HeededInv`: the prompts openvpn has sent are as many as are on the wire,
  queued in the receiver that `connect` hands out, and read from it, unless the
  actor ended or the receiver lagged.

`RequestsProofs`: `NothingIsResentAlways`, for any questions, settings and
restarts, from `FlowAssumption`: the stored password counts as used from where it
is offered, so that it is in the answer under way, with openvpn, or dropped
(`StoredOnce`), and no code is of a later step than the one `ReplayGuard`
remembers (`CodesOnce`). `NoOverwriteAlways` is a property of each step: a file
is created only where there is none and written only by the task that created
it.

What a fold or a recursive function computes is proved by induction over the
positions of its list: the set of positions at which the claim fails has a least
element (`WFMin`), which is neither the first nor a later one (`IndexInduction`).
The library's induction rules themselves take an operator that the installed
provers cannot instantiate. The proofs are of the specifications without
fairness (`Spec`, `MgmtSpec`, `WatchSpec`, `LinkSpec`); the runs that check liveness add it.

Only model-checked:

- every liveness property, since fairness is out of the prover's reach: that
  includes `StopsWhenTold` with its safety part;
- `ProfilesAreCanonical` of `Requests`. It says that validating, writing and
  validating again changes nothing. That is a claim about five nested folds (atoms,
  lines, items, nested items, arguments) through every row of the directive
  tables, and numerals are written with `ToString`, of which the prover knows
  nothing;
- `NothingIsMissed` with `Faults`, where it is not claimed at all.

## Further disagreements

These properties state what a comment, a test or a document says. They are
defined in the modules, and TLC refutes them when they take the place of the
properties in the named cfg.

| Property | In the cfg of | The document | What the code does |
| --- | --- | --- | --- |
| `InstallStartsClean` | `policy_faults` | `main.rs:231-233` | a failed reconciliation is logged and a later installation goes ahead |
| `BusyMeansOwned` | `session_calls` | `state.rs:42-43` | openvpn exiting during authentication: the exit receiver is polled twice (`connect.rs:321`), the panic leaves the daemon busy for good |
| `NoUnreachableTunnel` | `session_calls` | `session/mod.rs:233-236` | resources are stored after a disconnect has finished (`mod.rs:247`) |
| `ShutdownLeavesNothing` | `session_calls` | `main.rs:349-351` | the process ends while an attempt's policy stands (`main.rs:352`) |
| `DisconnectSticks` | `session_calls` | `session/tests.rs:545` | the supervisor overwrites a disconnect's final state (`mod.rs:379`) |
| `ListenerIsCovered` without `~plan.wedges` | `session_calls`, with `wedges` in `QuietPlan` | `tunnel.rs:96-97` | an abandoned teardown removes the next session's policy (`tunnel.rs:137`) |
| `ListenerIsCovered` without `Undisturbed` | `session_calls` | `tunnel.rs:96-97` | a session stored after a disconnect has finished (`mod.rs:247`) meets the next one's listener |
| `PinnedIsCurrent` | `watch_flaps` | `mgmt/tunnel.rs:39` | a reconnect before the supervision starts is not noticed (`mod.rs:317`) |
| `DnsIsRetained` | `requests` | `docs/SPEC.md:640-641` | a stored profile is canonical and has lost its DNS options (`store.rs:81`) |
| `TornDownIsStale` | `proxy_lifecycle` | `egress.rs:157` | `revoke` does not bump the generation; a handle dials until its session is aborted |
| `DialIsBounded` | `proxy_sessions` | `listener.rs:81` | a SOCKS5 dial is not under `connect_timeout` as a whole |
| `NoPromptOutlives` | `gui_link` | `auth/prompt.rs:121-122` | openvpn exits under a prompt: the teardown panics (`connect.rs:321`) before it withdraws (`connect.rs:330`), and the prompt stays open |
| `NoGhostRequest` | `gui_link` | `docs/superpowers/specs/2026-09-06-ui-design.md:82-86` | a request whose caller was told it failed may still be sent after the reconnect |

No document says that the statistics show every failure the limiter has recorded,
and they do not: `EveryFailureIsCounted` is refuted in the instance of
`proxy_sessions`, by a client that does not take the denial (`socks5.rs:541`,
`http.rs:299`).

Met on the way and without a property of their own: messages that come before
the answer to hello are dropped (`ipc_client.rs:272`); a client that skips hello
is not refused (`docs/IPC.md:40-41`), and a version mismatch keeps the connection
open (`IPC.md:51`); `connect` is answered at its end, after the GUI's ten seconds
(`IPC.md:70`); the wait for room in the outbound channel is outside the prompt's
timeout (`prompt.rs:6-7`); a text at the size limit is imported although its
canonical form is larger (`store.rs:7-8`); a write that fails half way leaves a
truncated file that is listed, and refused when it is used; session directories
left by a crash are not cleaned up; an installation error other than
`RollbackFailed` does not imply a clean machine, since the cleanup before it is
not read back (`policy/mod.rs:186`).

## Not modelled

- The macOS backend, its route socket and its peer checks: other system calls
  behind the same engine. On Linux, the failing `ip -6` probe of a table that
  does not exist yet.
- The keyring, DNS queries, TLS and openvpn itself: outcomes that may be any.
- JSON, wire formats, command lines, log lines, the texts of management events:
  what is read out of them is modelled, not how.
- The pages of the GUI and their stores (TypeScript), the tray, the summary of a
  profile: presentation, driven by the events at which `GuiLink` ends.
- Byte counts of the relay and the bandwidth events: no decision depends on them.
- Two sessions with different addresses in the policy model; a following session
  meets what the previous one left on the same addresses.
- Time: a timeout may fire at any moment it is armed, except that the limiter's
  refill and the generator's time step are counted. The generator's clock is
  assumed not to go back; `totp.rs` reads the system's.

What is left of the implementation beyond these is data types, error texts,
builders and the parsing named above.
