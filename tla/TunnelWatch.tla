----------------------------- MODULE TunnelWatch -----------------------------
(***************************************************************************)
(* How a tunnel's state travels from openvpn to the tasks that rely on it  *)
(* (daemon/src/mgmt/tunnel.rs, mgmt/client.rs, session/handshake.rs and    *)
(* `supervise` of session/mod.rs).                                         *)
(*                                                                         *)
(* The management actor folds openvpn's events into a TunnelTracker and    *)
(* publishes a TunnelState on a watch channel.  A watch keeps only the     *)
(* latest value: a reader that was busy sees one change where there were   *)
(* several.  `authenticate` pins the session to the identity it reads;     *)
(* `supervise`, spawned after the policy is installed and the proxy        *)
(* published, decides from the watch when that session is over.            *)
(*                                                                         *)
(* openvpn describes a device in a block of UPDOWN lines, which the actor  *)
(* collects one by one; other tasks run between two of them.               *)
(***************************************************************************)
EXTENDS NetAddr

CONSTANTS
    Devices,        \* What openvpn's environment says of each tun device it may open
    Absent,         \* The value of a variable that is not set, or empty
    NoTunnel,
    MaxReconnects   \* Bound on how often openvpn re-enters CONNECTED

\* The variables TunnelIdentity is made of.
Keys == <<"dev", "ifconfig_local", "ifconfig_ipv6_local">>

ASSUME DeviceAssumption ==
    /\ MaxReconnects \in Nat /\ NoTunnel \notin Devices
    /\ \A d \in Devices : d = [key \in {Keys[n] : n \in DOMAIN Keys} |-> d[key]]

VARIABLES
    phase,      \* openvpn: "connecting", "connected" or "exited"
    tun,        \* openvpn's open tun device
    block,      \* Lines of an UPDOWN block the actor has not read yet
    reconnects, \* How often openvpn has reconnected
    actor,      \* The management actor: "running", "ended" or "aborted"
    tracker,    \* TunnelTracker
    watch,      \* The TunnelState on the channel
    at,         \* The session: "auth", "pinned", "supervised", "lost", "failed"
    pinned,     \* The identity policy and proxy were set up with
    base,       \* The generation `supervise` compares with
    unseen,     \* Whether the supervisor's receiver has a change to look at
    start       \* History: the TunnelState when `supervise` started

openvpn == <<phase, tun, block, reconnects>>
mgmt == <<actor, tracker, watch>>
session == <<at, pinned, base, start>>
watchVars == <<openvpn, mgmt, session, unseen>>

-----------------------------------------------------------------------------
(* UpDownCollector.                                                        *)

Line(type) == [type |-> type, key |-> "none", value |-> Absent]

EnvLines(d) == [n \in DOMAIN Keys |-> [type |-> "Env", key |-> Keys[n], value |-> d[Keys[n]]]]

Collector == [up |-> FALSE, env |-> <<>>]

\* Mutant: the lines of a block are told apart by its flag only.
ObserveKeepsEnv(c, line) ==
    CASE line.type = "Up" -> [c EXCEPT !.up = TRUE]
      [] line.type = "Env" -> [c EXCEPT !.env = Append(@, line)]
      [] line.type = "EnvBegin" -> c
      [] OTHER -> [c EXCEPT !.up = FALSE]

\* The next collector.
Observe(c, line) ==
    CASE line.type = "Up" -> [Collector EXCEPT !.up = TRUE]
      [] line.type = "Env" -> [c EXCEPT !.env = Append(@, line)]
      [] line.type = "EnvBegin" -> c
      [] OTHER -> Collector

\* The first value given for a key.
Get(env, key) ==
    LET Given(n) == env[n].key = key
    IN  IF \A n \in DOMAIN env : ~Given(n) THEN Absent
        ELSE env[CHOOSE n \in DOMAIN env : Given(n) /\ \A m \in 1 .. n - 1 : ~Given(m)].value

Finish(c) == [key \in {Keys[n] : n \in DOMAIN Keys} |-> Get(c.env, key)]

Down == [connected |-> FALSE, identity |-> NoTunnel, updown |-> Collector]

-----------------------------------------------------------------------------
(* TunnelTracker::observe.                                                 *)

\* A state event; leaving CONNECTED forgets the identity.
Transition(connected) ==
    [connected |-> connected,
     identity |-> IF connected \/ ~tracker.connected THEN tracker.identity ELSE NoTunnel,
     updown |-> tracker.updown]

\* One line of a block: its end is up with an identity, its start may be down.
FoldUpDown(line) ==
    [connected |-> tracker.connected,
     identity |-> CASE line.type = "Down" -> NoTunnel
                    [] line.type = "EnvEnd" /\ tracker.updown.up -> Finish(tracker.updown)
                    [] OTHER -> tracker.identity,
     updown |-> Observe(tracker.updown, line)]

\* The end of a block that names no device.
MissingDev(line) ==
    line.type = "EnvEnd" /\ tracker.updown.up /\ Finish(tracker.updown)["dev"] = Absent

-----------------------------------------------------------------------------
(* The watch channel.                                                      *)

\* Mutant: the generation counts nothing.
AdvancedToUncounted(next) ==
    [connected |-> next.connected, identity |-> next.identity, generation |-> watch.generation]

\* Entering CONNECTED, as seen from the last published state, is a new generation.
AdvancedTo(next) ==
    [connected |-> next.connected, identity |-> next.identity,
     generation |-> IF next.connected /\ ~watch.connected
                    THEN watch.generation + 1 ELSE watch.generation]

\* Receivers are woken only when the value changed.
PublishState(next) ==
    /\ watch' = AdvancedTo(next)
    /\ unseen' = (unseen \/ watch' # watch)

ObserveAndPublish(next) == tracker' = next /\ PublishState(next)

-----------------------------------------------------------------------------
(* openvpn's events, each folded in by the running actor.  openvpn writes  *)
(* a block in one go.                                                      *)

Speaks == actor = "running" /\ block = <<>>

OpenTun(d) ==
    /\ Speaks /\ phase = "connecting" /\ tun = NoTunnel
    /\ tun' = d
    /\ block' = <<Line("EnvBegin")>> \o EnvLines(d) \o <<Line("EnvEnd")>>
    /\ ObserveAndPublish(FoldUpDown(Line("Up")))
    /\ UNCHANGED <<phase, reconnects, actor, session>>

CloseTun ==
    /\ Speaks /\ phase = "connecting" /\ tun # NoTunnel
    /\ tun' = NoTunnel
    /\ block' = <<Line("EnvBegin")>> \o EnvLines(tun) \o <<Line("EnvEnd")>>
    /\ ObserveAndPublish(FoldUpDown(Line("Down")))
    /\ UNCHANGED <<phase, reconnects, actor, session>>

\* A fold error ends the actor after "disconnected" was published.
ReadLine ==
    /\ actor = "running" /\ block # <<>>
    /\ block' = Tail(block)
    /\ IF MissingDev(Head(block)) THEN actor' = "ended" /\ ObserveAndPublish(Down)
       ELSE UNCHANGED actor /\ ObserveAndPublish(FoldUpDown(Head(block)))
    /\ UNCHANGED <<phase, tun, reconnects, session>>

\* >STATE:CONNECTED.  After a reconnect that kept the device no UPDOWN block
\* has come before it.
EnterConnected ==
    /\ Speaks /\ phase = "connecting" /\ tun # NoTunnel
    /\ phase' = "connected" /\ ObserveAndPublish(Transition(TRUE))
    /\ UNCHANGED <<tun, block, reconnects, actor, session>>

\* >STATE:RECONNECTING.
Reconnect ==
    /\ Speaks /\ phase = "connected" /\ reconnects < MaxReconnects
    /\ phase' = "connecting" /\ reconnects' = reconnects + 1
    /\ ObserveAndPublish(Transition(FALSE))
    /\ UNCHANGED <<tun, block, actor, session>>

\* >FATAL, and openvpn is gone.
FatalEvent ==
    /\ Speaks /\ phase # "exited"
    /\ phase' = "exited" /\ tun' = NoTunnel /\ ObserveAndPublish(Transition(FALSE))
    /\ UNCHANGED <<block, reconnects, actor, session>>

\* End of file, a command timeout or an I/O error: run_actor publishes "disconnected" before the sender is dropped.
ActorEnds ==
    /\ actor = "running"
    /\ actor' = "ended" /\ tracker' = Down /\ PublishState(Down)
    /\ UNCHANGED <<openvpn, session>>

\* teardown aborts the actor's task wherever it is.
ActorAborted ==
    /\ actor = "running"
    /\ actor' = "aborted"
    /\ UNCHANGED <<openvpn, tracker, watch, session, unseen>>

-----------------------------------------------------------------------------
(* The session.                                                            *)

\* `ready` wants both halves.
TunnelReady ==
    /\ at = "auth" /\ watch.connected /\ watch.identity # NoTunnel
    /\ at' = "pinned" /\ pinned' = watch.identity
    /\ UNCHANGED <<openvpn, mgmt, base, start, unseen>>

AuthEnds ==
    /\ at = "auth" /\ actor # "running" /\ at' = "failed"
    /\ UNCHANGED <<openvpn, mgmt, pinned, base, start, unseen>>

\* install_policy and spec_from_identity: what a policy can be installed for.
\* Devices have names and MTUs that pass, and the daemon knows no gateway.
TunnelSpec(i) ==
    /\ i["ifconfig_local"] # Absent /\ ValidateAddress(4, i["ifconfig_local"])
    /\ i["ifconfig_ipv6_local"] # Absent => ValidateAddress(6, i["ifconfig_ipv6_local"])

\* The identity is refused, or the policy or the publication fails.
InstallFails ==
    /\ at = "pinned" /\ at' = "failed"
    /\ UNCHANGED <<openvpn, mgmt, pinned, base, start, unseen>>

\* The supervisor's receiver is a clone of one that has never been read, so
\* its first `changed` returns at once.
Supervise ==
    /\ at = "pinned" /\ TunnelSpec(pinned) /\ at' = "supervised"
    /\ base' = watch.generation /\ unseen' = TRUE /\ start' = watch
    /\ UNCHANGED <<openvpn, mgmt, pinned>>

\* Mutant: only a tunnel that is down counts as lost.
NoticeDownOnly ==
    /\ at = "supervised" /\ (unseen \/ actor # "running") /\ unseen' = FALSE
    /\ at' = IF ~watch.connected \/ (~unseen /\ actor # "running") THEN "lost" ELSE at
    /\ UNCHANGED <<openvpn, mgmt, pinned, base, start>>

\* A change is looked at; a closed channel with nothing left to look at ends
\* the supervision too.
Notice ==
    /\ at = "supervised" /\ (unseen \/ actor # "running") /\ unseen' = FALSE
    /\ at' = IF \/ ~watch.connected \/ watch.generation # base
                \/ ~unseen /\ actor # "running"
             THEN "lost" ELSE at
    /\ UNCHANGED <<openvpn, mgmt, pinned, base, start>>

-----------------------------------------------------------------------------

WatchInit ==
    /\ phase = "connecting" /\ tun = NoTunnel /\ block = <<>> /\ reconnects = 0
    /\ actor = "running" /\ tracker = Down
    /\ watch = [connected |-> FALSE, identity |-> NoTunnel, generation |-> 0]
    /\ at = "auth" /\ pinned = NoTunnel /\ base = 0 /\ unseen = FALSE /\ start = watch

WatchNext ==
    \/ \E d \in Devices : OpenTun(d)
    \/ CloseTun \/ ReadLine \/ EnterConnected \/ Reconnect \/ FatalEvent \/ ActorEnds \/ ActorAborted
    \/ TunnelReady \/ AuthEnds \/ InstallFails \/ Supervise \/ Notice

WatchSpec == WatchInit /\ [][WatchNext]_watchVars

\* The supervisor's task is polled.
FairWatchSpec == WatchSpec /\ WF_watchVars(Supervise \/ InstallFails) /\ WF_watchVars(Notice)

-----------------------------------------------------------------------------
(* Properties.                                                             *)

\* Every variable keeps its type.
WatchTypeOK ==
    /\ phase \in {"connecting", "connected", "exited"} /\ tun \in Devices \cup {NoTunnel}
    /\ reconnects \in 0..MaxReconnects /\ actor \in {"running", "ended", "aborted"}
    /\ tracker.connected \in BOOLEAN /\ tracker.updown.up \in BOOLEAN
    /\ Len(tracker.updown.env) <= Len(Keys) /\ Len(block) <= Len(Keys) + 2
    /\ {watch, start} \subseteq
         [connected : BOOLEAN, identity : Devices \cup {NoTunnel},
          generation : 0..MaxReconnects + 1]
    /\ at \in {"auth", "pinned", "supervised", "lost", "failed"}
    /\ pinned \in Devices \cup {NoTunnel} /\ base \in 0..MaxReconnects + 1
    /\ unseen \in BOOLEAN

\* Whatever flapped while the supervisor was not looking, a watch that shows
\* the generation it started from still shows the tunnel it started from
\* (TunnelState::advanced_to, TunnelTracker::transition).
SameGenerationSameTunnel ==
    (at = "supervised" /\ start.connected /\ watch.connected /\ watch.generation = base)
        => watch.identity = start.identity

\* What the watch offers to pin sockets to is the device openvpn has open, as
\* one block describes it: no variable is left over from a device before it
\* (UpDownCollector, and observe folds in every event that ends a device).
PublishedIsOpen ==
    (actor = "running" /\ watch.connected /\ watch.identity # NoTunnel) => watch.identity = tun

\* A session under supervision whose tunnel went down, came back as another
\* generation, or lost its management channel, is torn down, coalesced
\* changes or not (supervise).
LossIsNoticed ==
    (at = "supervised" /\ (actor # "running" \/ ~watch.connected \/ watch.generation # base))
        ~> (at = "lost")

\* mgmt/tunnel.rs: "a changed generation is what tells it the session it pinned
\* sockets to is gone".  A supervisor with nothing left to look at watches the
\* tunnel that policy and proxy are pinned to, not another one.
PinnedIsCurrent ==
    (at = "supervised" /\ ~unseen /\ actor = "running") => watch.identity \in {pinned, NoTunnel}
=============================================================================
