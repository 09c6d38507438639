-------------------------------- MODULE Daemon --------------------------------
(***************************************************************************)
(* The daemon as a process (main.rs, signals.rs, ipc/listener.rs,          *)
(* peerauth.rs, the accept loop of ipc/mod.rs): it decides who may drive   *)
(* it, acquires its control socket, installs its signal handlers, serves,  *)
(* and stops on a signal; or it is killed, and started again on whatever   *)
(* is left.  What its attempts do is OpenvpnProcess.                       *)
(*                                                                         *)
(* An account is a user, who may belong to the authorised group by their   *)
(* passwd entry or by the member list of /etc/group; a running program has *)
(* the groups of its login.  Linux, and the packaged socket unit.          *)
(***************************************************************************)
EXTENDS OpenvpnProcess

CONSTANTS
    Users,          \* Accounts, root among them
    Primary,        \* Those whose primary group is the authorised one
    MaxLives        \* Bound: times the daemon is started

\* A user of the group's name has it for their primary group.
ASSUME UserAssumption ==
    /\ "root" \in Users /\ Primary \subseteq Users
    /\ "thisconnect" \in Users => "thisconnect" \in Primary

VARIABLES
    phase,      \* What the daemon is doing
    life,       \* How often it was started
    ended,      \* How its last run ended
    path,       \* What is at the control socket's path
    fd,         \* What the daemon listens on
    policy,     \* PeerPolicy
    members,    \* The member list of the group
    logins,     \* Users whose programs have the group
    known,      \* Ghost: who belonged to the group when the daemon read it
    conns,      \* Users being served
    refused,    \* Ghost: users refused by this run
    byte,       \* The self-pipe holds a byte
    shutdown,   \* The value of the shutdown watch
    seen,       \* The accept loop has seen it
    edits       \* Changes so far

peers == <<policy, known, conns, refused>>
accounts == <<members, logins, edits>>
signals == <<byte, shutdown, seen>>
lifeVars == <<phase, life, ended, path, fd, peers, accounts, signals>>
vars == <<procVars, lifeVars>>

NoPolicy == [uids |-> {}, gids |-> {}]
Group == "thisconnect"
PrimaryGroup(u) == IF u \in Primary THEN Group ELSE u

Belong == members \cup Primary

-----------------------------------------------------------------------------
(* Who may drive the daemon.                                               *)

\* Mutant: the member list is not expanded.
GroupBackedGidOnly == [uids |-> {"root"}, gids |-> {Group}]

\* group_backed_policy: SO_PEERCRED reports the primary group only, so the
\* members are listed by uid.
GroupBackedPolicy == [uids |-> Belong \cup {"root"}, gids |-> {Group}]

\* resolve_policy: what is configured wins; otherwise the group, if it exists.
\* An empty policy is an error, and so is a malformed id.
ResolvePolicy ==
    LET configured == [uids |-> setup.uids, gids |-> setup.gids]
    IN  IF setup.malformed THEN NoPolicy
        ELSE IF configured # NoPolicy THEN configured
        ELSE IF setup.group THEN GroupBackedPolicy ELSE NoPolicy

\* PeerPolicy::permits, on what SO_PEERCRED says.
Permits(u) == u \in policy.uids \/ PrimaryGroup(u) \in policy.gids

-----------------------------------------------------------------------------
(* Starting.                                                               *)

\* The process ends by itself: main returns, with or without an error.
Exits(how) ==
    /\ phase' = "off" /\ ended' = how /\ RuntimeDrop
    /\ fd' = "none" /\ conns' = {} /\ byte' = FALSE
    /\ UNCHANGED <<pid, sequence, life, path, policy, known, refused, accounts, shutdown, seen>>

Launch ==
    /\ phase = "off" /\ life < MaxLives
    /\ phase' = "policy" /\ life' = life + 1
    /\ pid' \in Pids /\ sequence' = 0
    /\ policy' = NoPolicy /\ known' = {} /\ refused' = {}
    /\ byte' = FALSE /\ shutdown' = FALSE /\ seen' = FALSE
    /\ UNCHANGED <<setup, base, dirs, home, stuck, process, at, updown, args, faults, ended, path,
                   fd, conns, accounts>>

\* resolve_policy and authenticator.
Resolve ==
    /\ phase = "policy"
    /\ IF ResolvePolicy = NoPolicy THEN Exits("failed")
       ELSE /\ policy' = ResolvePolicy /\ phase' = "acquire"
            /\ known' = Belong
            /\ UNCHANGED <<procVars, life, ended, path, fd, conns, refused, accounts, signals>>

\* systemd_fd: one descriptor, and meant for this process.
SystemdFd == setup.listen = "ours"

\* acquire: the descriptor systemd passed, or a socket of its own in place of
\* a stale one.  Anything that is not a socket is left alone.
Acquire ==
    /\ phase = "acquire"
    /\ \/ /\ SystemdFd
          /\ fd' = (IF setup.listen = "ours" THEN "control" ELSE "unrelated")
          /\ UNCHANGED path /\ phase' = "building"
       \/ /\ ~SystemdFd /\ path # "file"
          /\ path' = "own" /\ fd' = "control" /\ phase' = "building"
    /\ UNCHANGED <<procVars, life, ended, peers, accounts, signals>>

\* tunnel_policy, and the other parts main puts together; then
\* reconcile_startup_state, whose outcome is only logged.
Build ==
    /\ phase = "building" /\ phase' = "signals"
    /\ UNCHANGED <<procVars, life, ended, path, fd, peers, accounts, signals>>

\* signals::install.
InstallSignals ==
    /\ phase = "signals" /\ phase' = "installed"
    /\ UNCHANGED <<procVars, life, ended, path, fd, peers, accounts, signals>>

\* The path is occupied or a call of acquire fails; there is no policy backend;
\* there is no pipe, handler or thread.
StartupFails == phase \in {"acquire", "building", "signals"} /\ Exits("failed")

\* Mutant: the accept loop subscribes to the shutdown when it starts.
ServeResubscribes ==
    /\ phase = "installed" /\ phase' = "serving" /\ seen' = shutdown
    /\ UNCHANGED <<procVars, life, ended, path, fd, peers, accounts, byte, shutdown>>

\* IpcServer::run, with the receiver main made before the handlers.
Serve ==
    /\ phase = "installed" /\ phase' = "serving"
    /\ UNCHANGED <<procVars, life, ended, path, fd, peers, accounts, signals>>

-----------------------------------------------------------------------------
(* Serving.                                                                *)

\* The kernel lets a program connect if it may search the directory and write
\* the socket.  systemd's is root:thisconnect 0660; one of the daemon's own
\* has the daemon's group.
Reaches(u) ==
    \/ u = "root"
    \/ /\ u \in logins /\ setup.listen = "ours"
       /\ ~setup.shared \/ base # "private"

\* A peer is authenticated before a byte of it is read.
Arrive(u) ==
    /\ phase = "serving" /\ u \in setup.visitors \ conns /\ Reaches(u)
    /\ IF Permits(u)
       THEN conns' = conns \cup {u} /\ UNCHANGED refused
       ELSE refused' = refused \cup {u} /\ UNCHANGED conns
    /\ UNCHANGED <<procVars, phase, life, ended, path, fd, policy, known, accounts, signals>>

Leave(u) ==
    /\ u \in conns /\ conns' = conns \ {u}
    /\ UNCHANGED <<procVars, phase, life, ended, path, fd, policy, known, refused, accounts,
                   signals>>

\* A connect request comes from somebody who is served.
Connect(a) ==
    /\ phase = "serving" /\ a \in setup.calls /\ conns # {} /\ Start(a)
    /\ UNCHANGED lifeVars

-----------------------------------------------------------------------------
(* Stopping.                                                               *)

\* SIGTERM or SIGINT: handle_signal.  Until the handlers are there, it kills
\* the process, and one after the first changes nothing.
Signal ==
    /\ phase \in {"installed", "serving", "draining", "closing"} /\ ~byte /\ ~shutdown
    /\ byte' = TRUE
    /\ UNCHANGED <<procVars, phase, life, ended, path, fd, peers, accounts, shutdown, seen>>

\* wait_for_signal returns once, and the thread ends.
WaitForSignal ==
    /\ byte /\ ~shutdown /\ shutdown' = TRUE /\ byte' = FALSE
    /\ UNCHANGED <<procVars, phase, life, ended, path, fd, peers, accounts, seen>>

\* The accept loop ends, and the connections are told as well.
SeeShutdown ==
    /\ phase = "serving" /\ shutdown /\ ~seen
    /\ seen' = TRUE /\ phase' = "draining"
    /\ UNCHANGED <<procVars, life, ended, path, fd, peers, accounts, byte, shutdown>>

\* drain: the connections end within DRAIN_TIMEOUT or are aborted.
Drain ==
    /\ phase = "draining" /\ phase' = "closing" /\ conns' = {}
    /\ UNCHANGED <<procVars, life, ended, path, fd, policy, known, refused, accounts, signals>>

\* main's own disconnect: a live session is torn down.
Disconnect(a) ==
    /\ phase = "closing" /\ at[a] = "live" /\ BeginTeardown(a)
    /\ UNCHANGED lifeVars

\* It waits for that teardown, but not for an attempt in flight.
Return ==
    /\ phase = "closing" /\ \A a \in Attempts : at[a] # "live" /\ ~Closing(a)
    /\ Exits("clean")

\* SIGKILL, a signal without a handler, a crash.
Crash ==
    /\ phase # "off" /\ phase' = "off" /\ ended' = "killed" /\ Die
    /\ fd' = "none" /\ conns' = {} /\ byte' = FALSE
    /\ UNCHANGED <<pid, sequence, life, path, policy, known, refused, accounts, shutdown, seen>>

-----------------------------------------------------------------------------
(* The machine.                                                            *)

\* usermod and a login.
Usermod(u) ==
    /\ edits < setup.edits /\ edits' = edits + 1
    /\ members' = (members \ {u}) \cup ({u} \ members)
    /\ UNCHANGED <<procVars, phase, life, ended, path, fd, peers, logins, signals>>

Login(u) ==
    /\ edits < setup.edits /\ edits' = edits + 1
    /\ logins' = (logins \ {u}) \cup ({u} \cap Belong) /\ logins' # logins
    /\ UNCHANGED <<procVars, phase, life, ended, path, fd, peers, members, signals>>

Init ==
    /\ ProcessInit
    /\ phase = "off" /\ life = 0 /\ ended = "never"
    /\ path = setup.path0 /\ fd = "none"
    /\ policy = NoPolicy /\ known = {} /\ conns = {} /\ refused = {}
    /\ members = setup.members /\ logins = members \cup Primary /\ edits = 0
    /\ byte = FALSE /\ shutdown = FALSE /\ seen = FALSE

Starting ==
    \/ Resolve \/ Acquire \/ Build \/ InstallSignals \/ StartupFails \/ Serve

Stopping == WaitForSignal \/ SeeShutdown \/ Drain \/ Return

Running(a) ==
    \/ AttemptStep(a) /\ UNCHANGED lifeVars
    \/ Supervise(a) /\ UNCHANGED lifeVars

Next ==
    \/ Launch \/ Starting \/ Stopping \/ Signal \/ Crash
    \/ \E u \in Users : Arrive(u) \/ Leave(u) \/ Usermod(u) \/ Login(u)
    \/ \E a \in Attempts :
        \/ Connect(a) \/ Disconnect(a) \/ Running(a)
        \/ (Commit(a) \/ BeginTeardown(a) \/ Abandon(a) \/ Openvpn(a)) /\ UNCHANGED lifeVars
    \/ Upgrade /\ UNCHANGED lifeVars

Spec == Init /\ [][Next]_vars

\* Every task and thread of the daemon is scheduled, timeouts expire, and a
\* killed child dies.
FairSpec ==
    /\ Spec
    /\ WF_vars(Starting) /\ WF_vars(Stopping)
    /\ \A a \in Attempts :
        /\ WF_vars(AttemptStep(a) /\ UNCHANGED lifeVars)
        /\ WF_vars(Supervise(a) /\ UNCHANGED lifeVars)
        /\ WF_vars(Disconnect(a))
        /\ WF_vars(child[a] = "killed" /\ Exit(a) /\ UNCHANGED lifeVars)

-----------------------------------------------------------------------------
(* Properties.                                                             *)

\* Every variable keeps its type.
TypeOK ==
    /\ ProcessTypeOK
    /\ phase \in {"off", "policy", "acquire", "building", "signals", "installed", "serving",
                  "draining", "closing"}
    /\ ended \in {"never", "clean", "failed", "killed"}
    /\ path \in {"absent", "file", "systemd", "own"}
    /\ fd \in {"none", "control", "unrelated"}
    /\ policy.uids \subseteq Users
    /\ \A s \in {members, logins, known, conns, refused} : s \subseteq Users
    /\ {byte, shutdown, seen} \subseteq BOOLEAN
    /\ phase = "off" => task = {} /\ conns = {}

\* What the daemon serves is its control socket, never a descriptor that happens
\* to have the number systemd uses (systemd_fd).  Only somebody the configuration
\* names, root, or an account that was in the group when the daemon read it is
\* served, and no such account is turned away, be it by passwd or by the member
\* list, whatever happens to the group or to logins meanwhile
\* (group_backed_policy; PeerPolicy is built once and never mutated).
MembersAreServed ==
    LET byGroup == setup.uids = {} /\ setup.gids = {}
    IN  /\ phase \in {"serving", "draining"} => fd = "control"
        /\ \A u \in conns : u \in setup.uids \/ PrimaryGroup(u) \in setup.gids
                             \/ (byGroup /\ u \in known \cup {"root"})
        /\ byGroup => refused \cap known = {}

\* A daemon that stopped by itself, in the middle of whatever, leaves no
\* openvpn that is not already killed (kill_on_drop, Drop).
StoppedMeansNoChild ==
    [][phase # "off" /\ phase' = "off" /\ ended' # "killed"
        => \A a \in task : child'[a] \notin {"running", "termed"}]_vars

\* Daemon and child stop when they are told to.  A signal that finds the handlers
\* in place stops the daemon, at whatever point of its start it arrives and
\* whatever it is doing (the self-pipe, and a watch whose receiver is older than
\* the handlers), and with it every openvpn; and an attempt that is over leaves
\* no openvpn behind.
StopsWhenTold == (byte ~> phase = "off") /\ StoppedMeansNoChild /\ ChildDies

\* packaging/linux/thisconnectd.tmpfiles: "members of thisconnect need +x to
\* reach the control socket".
MembersReach ==
    phase = "serving" /\ setup.listen = "ours" => \A u \in logins \cap known : Reaches(u)
=============================================================================
