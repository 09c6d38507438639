---------------------------- MODULE OpenvpnProcess ----------------------------
(***************************************************************************)
(* The openvpn an attempt starts, the private directory it reads its       *)
(* configuration from, and how it is stopped (session/spawn.rs,            *)
(* workspace.rs, transport.rs, the start and the end of connect.rs).       *)
(*                                                                         *)
(* What is on the disk outlives the daemon, which may be killed between    *)
(* any two steps; the module Daemon says when it starts, stops and dies.   *)
(* Attempts follow one another, as StateCell has it; the races between     *)
(* connect and disconnect are those of Session.  A child is its process    *)
(* state, a directory its name and which of its files are complete, and a  *)
(* release of openvpn whether it has a dns-updown handler of its own.      *)
(***************************************************************************)
EXTENDS Integers, Sequences, FiniteSets

CONSTANTS
    Attempts,       \* Calls of connect, over all runs of the daemon
    Pids,           \* Process ids the daemon may be given
    StopSlots,      \* Capacity of the stop channel
    Setups          \* How machines may be set up, and what happens on them

ASSUME StopAssumption == StopSlots \in Nat \ {0}
ASSUME SetupAssumption == \A s \in Setups : s.updown \in BOOLEAN

VARIABLES
    setup,      \* This machine's setup
    pid,        \* The daemon's process id
    sequence,   \* SEQUENCE
    base,       \* What the runtime directory is
    dirs,       \* The session directories in it
    at,         \* Where each attempt is
    home,       \* The name of the directory each attempt holds
    child,      \* Each attempt's openvpn
    stop,       \* Its stop channel
    control,    \* Attempts whose ChannelControl still exists
    task,       \* Attempts whose child a supervise task owns
    exit,       \* The exit channel
    updown,     \* Whether openvpn has a dns-updown handler of its own
    args,       \* What each attempt found out about openvpn, and passed it
    stuck,      \* Ghost: directories that could not be removed
    lost,       \* Ghost: stop requests a full channel refused
    faults      \* Failed system calls so far

files == <<base, dirs, home, sequence, stuck>>
process == <<child, stop, control, task, exit, lost>>
procVars == <<setup, pid, files, process, at, updown, args, faults>>

Bases == {"missing", "traversable", "private", "link", "file"}
NoHome == <<>>
NoArgs == [flag |-> FALSE, probed |-> FALSE, runs |-> FALSE]

Alive(a) == child[a] \in {"running", "termed", "killed"}
InFlight(a) == at[a] \in {"creating", "writing", "binding", "probing", "spawning",
                          "accepting", "auth"}
Closing(a) == at[a] \in {"asking", "terminating", "waiting", "killing"}
Holds(a) == home[a] # NoHome

\* A system call fails.
Fault == faults < setup.faults /\ faults' = faults + 1

-----------------------------------------------------------------------------
(* Finding openvpn, and what it accepts.                                   *)

\* resolve_openvpn: a configured path wins and must be absolute; otherwise the
\* absolute directories of PATH come before the known ones.
ResolveOpenvpn(s) ==
    LET executable(place) == place \in s.executables
        found == SelectSeq(SelectSeq(s.path, LAMBDA p : p # "relative") \o s.candidates,
                           executable)
    IN  IF s.configured # "none"
        THEN IF s.configured # "relative" /\ executable(s.configured)
             THEN s.configured ELSE "nowhere"
        ELSE IF found = <<>> THEN "nowhere" ELSE Head(found)

\* detect_capabilities: the option is left out only if openvpn ran and named
\* it as unrecognised.
ProbeAccepts(ran) == ~ran \/ updown

-----------------------------------------------------------------------------
(* SessionWorkspace.                                                       *)

Dir(a) == CHOOSE d \in dirs : d.name = home[a]

\* Mutant: the directory is removed by the teardown only.
DropKeepsDir(a) ==
    /\ home' = [home EXCEPT ![a] = NoHome] /\ control' = control \ {a}
    /\ UNCHANGED <<dirs, stuck, faults>>

\* Dropping SessionResources: the directory goes, or stays if it cannot be
\* removed; the stop channel and the exit channel close.
Drop(a) ==
    /\ home' = [home EXCEPT ![a] = NoHome] /\ control' = control \ {a}
    /\ \/ dirs' = {d \in dirs : d.name # home[a]} /\ UNCHANGED <<stuck, faults>>
       \/ Holds(a) /\ Fault /\ stuck' = stuck \cup {home[a]} /\ UNCHANGED dirs

Goto(a, where) == at' = [at EXCEPT ![a] = where]

\* The attempt is over, and its resources are dropped.
Discard(a) ==
    /\ Goto(a, "over") /\ Drop(a)
    /\ UNCHANGED <<setup, pid, base, sequence, child, stop, task, exit, lost, updown, args>>

\* connect, once StateCell has let it in, and resolve_openvpn.
Start(a) ==
    /\ at[a] = "idle" /\ \A b \in Attempts : ~InFlight(b) /\ ~Closing(b) /\ at[b] # "live"
    /\ Goto(a, IF ResolveOpenvpn(setup) = "nowhere" THEN "over" ELSE "creating")
    /\ UNCHANGED <<setup, pid, files, process, updown, args, faults>>

\* prepare_base refuses anything but a directory, and makes it 0700.
PrepareBase ==
    /\ base \notin {"link", "file"}
    /\ base' = "private"

\* SessionWorkspace::create.  The name of a directory that exists, left by a
\* daemon that died with the same pid, is refused; the next attempt takes
\* the next number.
Create(a) ==
    /\ at[a] = "creating" /\ PrepareBase
    /\ sequence' = sequence + 1
    /\ IF \E d \in dirs : d.name = <<pid, sequence>>
       THEN Goto(a, "over") /\ UNCHANGED <<home, dirs>>
       ELSE /\ home' = [home EXCEPT ![a] = <<pid, sequence>>]
            /\ dirs' = dirs \cup {[name |-> <<pid, sequence>>, by |-> a,
                                   config |-> "none", socket |-> "none"]}
            /\ Goto(a, "writing")
    /\ UNCHANGED <<setup, pid, process, updown, args, stuck, faults>>

\* The base is something else, or a system call of create fails.
CreateFails(a) ==
    /\ at[a] = "creating" /\ Goto(a, "over")
    /\ (base \in {"link", "file"} /\ UNCHANGED faults) \/ Fault
    /\ UNCHANGED <<setup, pid, files, process, updown, args>>

Fill(a, config, socket) ==
    dirs' = (dirs \ {Dir(a)}) \cup {[name |-> home[a], by |-> Dir(a).by, config |-> config,
                                     socket |-> socket]}

WriteConfig(a) ==
    /\ at[a] = "writing"
    /\ Fill(a, "full", "none") /\ Goto(a, "binding")
    /\ UNCHANGED <<setup, pid, base, home, sequence, stuck, process, updown, args, faults>>

\* Mutant: openvpn is probed and started before the socket exists.
BindLater(a) ==
    /\ at[a] = "binding" /\ Goto(a, "probing")
    /\ UNCHANGED <<setup, pid, files, process, updown, args, faults>>

\* UnixTransportFactory::bind, and restrict_socket.
Bind(a) ==
    /\ at[a] = "binding"
    /\ Fill(a, "full", "0600") /\ Goto(a, "probing")
    /\ UNCHANGED <<setup, pid, base, home, sequence, stuck, process, updown, args, faults>>

\* detect_capabilities and build_args.
Probe(a) ==
    /\ at[a] = "probing" /\ Goto(a, "spawning")
    /\ \E ran \in BOOLEAN :
        /\ IF ran THEN UNCHANGED faults ELSE Fault
        /\ args' = [args EXCEPT ![a] = [flag |-> ProbeAccepts(ran), probed |-> updown,
                                        runs |-> FALSE]]
    /\ UNCHANGED <<setup, pid, files, process, updown>>

\* SystemSpawner::spawn.
Spawn(a) ==
    /\ at[a] = "spawning" /\ Goto(a, "accepting")
    /\ child' = [child EXCEPT ![a] = "running"] /\ task' = task \cup {a}
    /\ control' = control \cup {a}
    /\ args' = [args EXCEPT ![a].runs = updown /\ ~args[a].flag]
    /\ UNCHANGED <<setup, pid, files, stop, exit, lost, updown, faults>>

\* Writing, binding or spawning fails; what was made is dropped.
StartFails(a) ==
    /\ at[a] \in {"writing", "binding", "spawning"} /\ faults < setup.faults
    /\ Goto(a, "over")
    /\ home' = [home EXCEPT ![a] = NoHome] /\ dirs' = dirs \ {Dir(a)}
    /\ faults' = faults + 1
    /\ UNCHANGED <<setup, pid, base, sequence, stuck, process, updown, args>>

\* openvpn connects back and the management handshake succeeds.
Accept(a) ==
    /\ at[a] = "accepting" /\ child[a] = "running" /\ exit[a] = "none"
    /\ Goto(a, "auth")
    /\ UNCHANGED <<setup, pid, files, process, updown, args, faults>>

\* The child is gone, nobody connected within ACCEPT_TIMEOUT, or the
\* management handshake failed: the resources are dropped where they are.
AcceptFails(a) == at[a] = "accepting" /\ Discard(a)

\* The tunnel is up, and the resources go into the slot.
Commit(a) ==
    /\ at[a] = "auth" /\ Goto(a, "live")
    /\ UNCHANGED <<setup, pid, files, process, updown, args, faults>>

-----------------------------------------------------------------------------
(* Stopping: ChannelControl, teardown_inner, supervise.                    *)

\* ChannelControl::request.
Request(a, what) ==
    LET open == a \in task
        room == Len(stop[a]) < StopSlots
    IN  /\ stop' = [stop EXCEPT ![a] = IF open /\ room THEN Append(@, what) ELSE @]
        /\ lost' = IF open /\ ~room THEN lost \cup {a} ELSE lost

\* bring_up fails, somebody disconnects, or the tunnel is lost.  The exit may
\* have been seen by then.
BeginTeardown(a) ==
    /\ at[a] \in {"auth", "live"} /\ Goto(a, "asking")
    /\ \/ UNCHANGED exit
       \/ at[a] = "auth" /\ exit[a] = "sent" /\ exit' = [exit EXCEPT ![a] = "taken"]
    /\ UNCHANGED <<setup, pid, files, child, stop, control, task, lost, updown, args, faults>>

\* SIGTERM over the management channel, which is then closed.
CloseMgmt(a) ==
    /\ at[a] = "asking" /\ Goto(a, "terminating")
    /\ child' = [child EXCEPT ![a] = IF @ = "running" THEN "termed" ELSE @]
    /\ UNCHANGED <<setup, pid, files, stop, control, task, exit, lost, updown, args, faults>>

Terminate(a) ==
    /\ at[a] = "terminating" /\ Goto(a, "waiting") /\ Request(a, "Term")
    /\ UNCHANGED <<setup, pid, files, child, control, task, exit, updown, args, faults>>

\* STOP_GRACE runs out on a child that has not exited.
Kill(a) ==
    /\ at[a] = "waiting" /\ exit[a] # "taken" /\ Goto(a, "killing") /\ Request(a, "Kill")
    /\ UNCHANGED <<setup, pid, files, child, control, task, exit, updown, args, faults>>

\* The exit arrives, the second grace runs out, or polling an exit that was
\* taken before panics: the resources are dropped.
Finish(a) ==
    /\ at[a] \in {"waiting", "killing"}
    /\ at[a] = "killing" \/ exit[a] \in {"sent", "taken"}
    /\ Discard(a)

\* TEARDOWN_BUDGET runs out, or the task of the request is aborted.
Abandon(a) ==
    /\ at[a] \in {"accepting", "auth"} \/ Closing(a)
    /\ Discard(a)

\* supervise takes a stop request; one that will never come is a kill.
HandleStop(a) ==
    /\ a \in task /\ (stop[a] # <<>> \/ (a \notin control /\ child[a] # "killed"))
    /\ IF stop[a] # <<>> /\ Head(stop[a]) = "Term"
       THEN child' = [child EXCEPT ![a] = IF @ = "running" THEN "termed" ELSE @]
       ELSE child' = [child EXCEPT ![a] = IF Alive(a) THEN "killed" ELSE @]
    /\ stop' = [stop EXCEPT ![a] = IF @ = <<>> THEN @ ELSE Tail(@)]
    /\ UNCHANGED <<setup, pid, files, at, control, task, exit, lost, updown, args, faults>>

\* supervise reaps the child, tells whoever still listens, and ends.
Reap(a) ==
    /\ a \in task /\ child[a] = "dead"
    /\ child' = [child EXCEPT ![a] = "reaped"] /\ task' = task \ {a}
    /\ exit' = [exit EXCEPT ![a] = "sent"] /\ stop' = [stop EXCEPT ![a] = <<>>]
    /\ UNCHANGED <<setup, pid, files, at, control, lost, updown, args, faults>>

\* openvpn ends: by itself, on a signal, or because its options were refused.
Exit(a) ==
    /\ Alive(a)
    /\ child' = [child EXCEPT ![a] = IF a \in task THEN "dead" ELSE "reaped"]
    /\ UNCHANGED <<setup, pid, files, at, stop, control, task, exit, lost, updown, args, faults>>

\* A release with a handler of its own is installed.
Upgrade ==
    /\ ~updown /\ updown' = TRUE
    /\ UNCHANGED <<setup, pid, files, process, at, args, faults>>

-----------------------------------------------------------------------------
(* The process around it.                                                  *)

Unfinished(a) == InFlight(a) \/ Closing(a) \/ at[a] = "live"

Ended == [a \in Attempts |-> IF Unfinished(a) THEN "over" ELSE at[a]]

\* The runtime goes with main: every task's resources are dropped, and
\* kill_on_drop kills every child that is still owned.
RuntimeDrop ==
    /\ at' = Ended /\ home' = [a \in Attempts |-> NoHome]
    /\ dirs' = {d \in dirs : \A a \in Attempts : home[a] # d.name}
    /\ task' = {} /\ control' = {} /\ stop' = [a \in Attempts |-> <<>>]
    /\ child' = [a \in Attempts |-> IF a \in task /\ Alive(a) THEN "killed"
                                   ELSE IF child[a] = "dead" THEN "reaped" ELSE child[a]]
    /\ UNCHANGED <<setup, base, stuck, exit, lost, updown, args, faults>>

\* The daemon is killed: the directories stay, and a child is nobody's.
Die ==
    /\ at' = Ended /\ home' = [a \in Attempts |-> NoHome]
    /\ stuck' = stuck \cup ({home[a] : a \in Attempts} \ {NoHome})
    /\ task' = {} /\ control' = {} /\ stop' = [a \in Attempts |-> <<>>]
    /\ child' = [a \in Attempts |-> IF child[a] = "dead" THEN "reaped" ELSE child[a]]
    /\ UNCHANGED <<setup, base, dirs, exit, lost, updown, args, faults>>

ProcessInit ==
    /\ setup \in Setups /\ pid \in Pids /\ sequence = 0
    /\ base = setup.base /\ updown = setup.updown
    /\ dirs = {} /\ home = [a \in Attempts |-> NoHome] /\ stuck = {}
    /\ at = [a \in Attempts |-> "idle"] /\ child = [a \in Attempts |-> "none"]
    /\ stop = [a \in Attempts |-> <<>>] /\ control = {} /\ task = {}
    /\ exit = [a \in Attempts |-> "none"] /\ args = [a \in Attempts |-> NoArgs]
    /\ lost = {} /\ faults = 0

AttemptStep(a) ==
    \/ Create(a) \/ CreateFails(a) \/ WriteConfig(a) \/ Bind(a) \/ Probe(a) \/ Spawn(a)
    \/ StartFails(a) \/ AcceptFails(a)
    \/ CloseMgmt(a) \/ Terminate(a) \/ Kill(a) \/ Finish(a)

Supervise(a) == HandleStop(a) \/ Reap(a)

Openvpn(a) == Accept(a) \/ Exit(a)

-----------------------------------------------------------------------------
(* Properties.                                                             *)

\* Every variable of the process keeps its type.
ProcessTypeOK ==
    /\ pid \in Pids /\ sequence \in Nat /\ base \in Bases
    /\ dirs \subseteq [name : Pids \X Nat, by : Attempts, config : {"none", "full"},
                       socket : {"none", "0600"}]
    /\ \A a \in Attempts :
        /\ Holds(a) => \E d \in dirs : d.name = home[a]
        /\ Len(stop[a]) \in 0..StopSlots
    /\ child \in [Attempts -> {"none", "running", "termed", "killed", "dead", "reaped"}]
    /\ exit \in [Attempts -> {"none", "sent", "taken"}]
    /\ {control, task, lost} \in SUBSET (SUBSET Attempts)

\* An attempt works in a directory nobody made before it, also under a pid that
\* a daemon which died had before; while its openvpn may still connect back, its
\* own configuration and socket are there in full (SessionWorkspace::create
\* refuses what exists; the socket comes first); and an openvpn with a handler
\* of its own runs with it switched off, whatever the probe met, unless another
\* release was installed after it (detect_capabilities keeps the flag on every
\* ambiguous outcome).
ChildIsSetUp ==
    \A a \in Attempts :
        /\ Holds(a) => Dir(a).by = a
        /\ Holds(a) /\ at[a] \in {"accepting", "auth", "live"} =>
                /\ base = "private"
                /\ Dir(a).config = "full" /\ Dir(a).socket = "0600"
        /\ Alive(a) /\ args[a].runs => ~args[a].probed

\* A directory once made never changes hands: what a dead daemon left is
\* neither reused nor removed by the next one.
NoDirectoryIsTakenOver ==
    [][\A d \in dirs, e \in dirs' : d.name = e.name => d.by = e.by]_procVars

\* No configuration outlives its attempt: every directory on the disk belongs
\* to an attempt that still runs, unless the daemon was killed or the file
\* system refused to remove it (Drop for SessionWorkspace).
NoDirectoryIsForgotten ==
    \A d \in dirs : d.name \in stuck \/ \E a \in Attempts : home[a] = d.name

\* Whatever a teardown asks of the supervisor reaches it: the polite request
\* and the kill fit the channel (mpsc::channel(2), try_send).
NoStopIsLost == lost = {}

\* An attempt that is over leaves no openvpn behind, however the attempt
\* ended and whatever openvpn makes of SIGTERM, as long as the daemon itself
\* is not killed (a dropped ChannelControl is a kill).
ChildDies ==
    \A a \in Attempts : (at[a] = "over" /\ a \in task) ~> ~(a \in task /\ Alive(a))
=============================================================================
