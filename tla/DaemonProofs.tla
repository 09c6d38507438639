----------------------------- MODULE DaemonProofs ------------------------------
(***************************************************************************)
(* The files of an attempt, the channel its openvpn is stopped through,    *)
(* what that openvpn starts with, and who the daemon serves: for any       *)
(* attempts, process ids, accounts and machines, across kills and restarts *)
(* of the daemon.                                                          *)
(***************************************************************************)
EXTENDS Daemon, TLAPS

\* Where an attempt has no directory: before it has made one, and at its end.
Homeless == {"idle", "creating", "over"}

Places == Homeless \cup {"writing", "binding", "probing", "spawning", "accepting", "auth", "live",
                         "asking", "terminating", "waiting", "killing"}

\* A directory has a name of its own, and an attempt has the directory it made
\* from when it has made it until it is over.
Files ==
    /\ \A d, e \in dirs : d.name = e.name => d = e
    /\ \A d \in dirs : d.name # NoHome
    /\ \A a \in Attempts : Holds(a) => \E d \in dirs : d.name = home[a] /\ d.by = a
    /\ \A a, b \in Attempts : Holds(a) /\ home[a] = home[b] => a = b
    /\ \A a \in Attempts : at[a] \in Homeless <=> ~Holds(a)

FInv ==
    /\ at \in [Attempts -> Places] /\ home = [a \in Attempts |-> home[a]]
    /\ Files /\ NoDirectoryIsForgotten

\* What the files depend on.
onDisk == <<dirs, home, stuck>>

-----------------------------------------------------------------------------
(* Each kind of step keeps the files in order.                             *)

\* The directory an attempt holds.
LEMMA OwnDir ==
  ASSUME FInv, NEW a \in Attempts, Holds(a)
  PROVE  Dir(a) \in dirs /\ Dir(a).name = home[a] /\ Dir(a).by = a
  <1>1. PICK d \in dirs : d.name = home[a] /\ d.by = a
    BY DEF FInv, Files
  <1>2. Dir(a) \in dirs /\ Dir(a).name = home[a]
    BY <1>1 DEF Dir
  <1> QED BY <1>1, <1>2 DEF FInv, Files

\* An attempt moves on with its files as they are.
LEMMA MoveKeeps ==
  ASSUME FInv, NEW a \in Attempts, NEW where \in Places, Goto(a, where), UNCHANGED onDisk,
         where \in Homeless <=> at[a] \in Homeless
  PROVE  FInv'
  BY DEF FInv, Files, Goto, onDisk, NoDirectoryIsForgotten, Holds

\* Nothing of it changes.
LEMMA StillKeeps == ASSUME FInv, UNCHANGED <<onDisk, at>> PROVE FInv'
  BY DEF FInv, Files, onDisk, NoDirectoryIsForgotten, Holds

\* SessionWorkspace::create.
LEMMA CreateKeeps == ASSUME FInv, NEW a \in Attempts, Create(a) PROVE FInv'
  <1> DEFINE name == <<pid, sequence>>
             new == [name |-> name, by |-> a, config |-> "none", socket |-> "none"]
  <1>0. at[a] = "creating" /\ ~Holds(a) /\ stuck' = stuck
    BY Zenon DEF Create, FInv, Files, Homeless
  <1>1. CASE \E d \in dirs : d.name = name
    <2>1. Goto(a, "over") /\ UNCHANGED onDisk
      BY Zenon, <1>0, <1>1 DEF Create, onDisk
    <2> QED BY Zenon, <1>0, <2>1, MoveKeeps DEF Homeless, Places
  <1>2. CASE ~\E d \in dirs : d.name = name
    <2>1. /\ home' = [home EXCEPT ![a] = name] /\ dirs' = dirs \cup {new}
          /\ at' = [at EXCEPT ![a] = "writing"]
      BY Zenon, <1>2 DEF Create, Goto
    <2>2. name # NoHome
      BY Zenon DEF NoHome
    <2>a. new \in dirs' /\ new.name = name /\ new.by = a
      BY Zenon, <2>1
    <2>3. \A b \in Attempts : home'[b] = (IF b = a THEN name ELSE home[b])
      BY Zenon, <2>1 DEF FInv, Files
    <2>4. \A b \in Attempts : at'[b] = (IF b = a THEN "writing" ELSE at[b])
      BY Zenon, <2>1 DEF FInv
    <2>5. \A b \in Attempts : Holds(b) => home[b] # name
      BY <1>2 DEF FInv, Files
    <2>6. /\ \A d, e \in dirs' : d.name = e.name => d = e
          /\ \A d \in dirs' : d.name # NoHome
      BY <1>2, <2>1, <2>2 DEF FInv, Files
    <2>7. \A b \in Attempts : Holds(b)' => \E d \in dirs' : d.name = home'[b] /\ d.by = b
      BY Zenon, <2>1, <2>3, <2>a DEF FInv, Files, Holds
    <2>8. \A b, c \in Attempts : Holds(b)' /\ home'[b] = home'[c] => b = c
      BY <2>2, <2>3, <2>5 DEF FInv, Files, Holds
    <2>9. \A b \in Attempts : at'[b] \in Homeless <=> ~Holds(b)'
      BY Zenon, <2>2, <2>3, <2>4 DEF FInv, Files, Holds, Homeless
    <2>10. NoDirectoryIsForgotten'
      <3>1. \A b \in Attempts : ~Holds(b) \/ home'[b] = home[b]
        BY <1>0, <2>3
      <3>2. \A d \in dirs : d.name \in stuck \/ \E b \in Attempts : home'[b] = d.name
        <4> SUFFICES ASSUME NEW d \in dirs, d.name \notin stuck
                     PROVE  \E b \in Attempts : home'[b] = d.name
          OBVIOUS
        <4>1. PICK b \in Attempts : home[b] = d.name
          BY Zenon DEF FInv, NoDirectoryIsForgotten
        <4>2. CASE Holds(b)
          BY Zenon, <4>1, <4>2, <3>1
        <4> QED BY Zenon, <4>1, <4>2 DEF FInv, Files, Holds
      <3> QED BY Zenon, <1>0, <2>1, <2>3, <2>a, <3>2 DEF NoDirectoryIsForgotten
    <2>11. at' \in [Attempts -> Places] /\ home' = [b \in Attempts |-> home'[b]]
      BY Zenon, <2>1 DEF FInv, Places
    <2> QED BY Zenon, <2>6, <2>7, <2>8, <2>9, <2>10, <2>11 DEF FInv, Files
  <1> QED BY Zenon, <1>1, <1>2

\* A file of the attempt's directory is written.
LEMMA FillKeeps ==
  ASSUME FInv, NEW a \in Attempts, NEW config, NEW file, NEW where \in Places,
         at[a] \notin Homeless, where \notin Homeless,
         Fill(a, config, file), Goto(a, where), UNCHANGED <<home, stuck>>
  PROVE  FInv'
  <1> DEFINE new == [name |-> home[a], by |-> Dir(a).by, config |-> config, socket |-> file]
  <1>1. Holds(a) /\ Dir(a) \in dirs /\ Dir(a).name = home[a] /\ Dir(a).by = a
    BY Zenon, OwnDir DEF FInv, Files
  <1>2. dirs' = (dirs \ {Dir(a)}) \cup {new}
    BY Zenon DEF Fill
  <1>3. new.name = home[a] /\ new.by = a /\ new \in dirs'
    BY Zenon, <1>1, <1>2
  <1>4. \A d \in dirs : d.name = home[a] => d = Dir(a)
    BY <1>1 DEF FInv, Files
  <1>5. /\ \A d, e \in dirs' : d.name = e.name => d = e
        /\ \A d \in dirs' : d.name # NoHome
    BY <1>1, <1>2, <1>3, <1>4 DEF FInv, Files, Holds
  <1>6. \A b \in Attempts : Holds(b)' => \E d \in dirs' : d.name = home'[b] /\ d.by = b
    <2> SUFFICES ASSUME NEW b \in Attempts, Holds(b), b # a
                 PROVE  \E d \in dirs' : d.name = home[b] /\ d.by = b
      BY Zenon, <1>3 DEF Holds
    <2>1. PICK d \in dirs : d.name = home[b] /\ d.by = b
      BY Zenon DEF FInv, Files
    <2>2. d # Dir(a)
      BY Zenon, <1>1, <2>1
    <2> QED BY Zenon, <1>2, <2>1, <2>2
  <1>7. at' = [at EXCEPT ![a] = where]
    BY Zenon DEF Goto
  <1>8. \A b \in Attempts : at'[b] \in Homeless <=> ~Holds(b)'
    BY Zenon, <1>7 DEF FInv, Files, Holds
  <1>9. NoDirectoryIsForgotten'
    BY Zenon, <1>2, <1>3 DEF FInv, NoDirectoryIsForgotten
  <1>10. at' \in [Attempts -> Places] /\ home' = [b \in Attempts |-> home'[b]]
    BY <1>7 DEF FInv
  <1>11. \A b, c \in Attempts : Holds(b)' /\ home'[b] = home'[c] => b = c
    BY DEF FInv, Files, Holds
  <1> QED BY <1>5, <1>6, <1>8, <1>9, <1>10, <1>11 DEF FInv, Files

\* The attempt is over: its directory is removed, or is noted as stuck.
LEMMA LeaveKeeps ==
  ASSUME FInv, NEW a \in Attempts, at[a] \notin Homeless, Goto(a, "over"),
         home' = [home EXCEPT ![a] = NoHome],
         \/ dirs' = {d \in dirs : d.name # home[a]} /\ stuck' = stuck
         \/ dirs' = dirs /\ stuck' = stuck \cup {home[a]}
  PROVE  FInv'
  <1>1. Holds(a)
    BY Zenon DEF FInv, Files
  <1>2. at' = [at EXCEPT ![a] = "over"]
    BY Zenon DEF Goto
  <1>3. \A b \in Attempts : home'[b] = (IF b = a THEN NoHome ELSE home[b])
    BY Zenon DEF FInv
  <1>4. \A b \in Attempts : at'[b] = (IF b = a THEN "over" ELSE at[b])
    BY Zenon, <1>2 DEF FInv
  <1>5. /\ \A d, e \in dirs' : d.name = e.name => d = e
        /\ \A d \in dirs' : d.name # NoHome
    BY Zenon DEF FInv, Files
  <1>6. \A b \in Attempts : Holds(b)' => \E d \in dirs' : d.name = home'[b] /\ d.by = b
    <2> SUFFICES ASSUME NEW b \in Attempts, Holds(b), b # a
                 PROVE  \E d \in dirs' : d.name = home[b] /\ d.by = b
      BY <1>3 DEF Holds
    <2>1. PICK d \in dirs : d.name = home[b] /\ d.by = b
      BY Zenon DEF FInv, Files
    <2>2. d.name # home[a]
      BY <1>1, <2>1 DEF FInv, Files
    <2> QED BY Zenon, <2>1, <2>2
  <1>7. \A b, c \in Attempts : Holds(b)' /\ home'[b] = home'[c] => b = c
    BY Zenon, <1>3 DEF FInv, Files, Holds
  <1>8. \A b \in Attempts : at'[b] \in Homeless <=> ~Holds(b)'
    BY Zenon, <1>3, <1>4 DEF FInv, Files, Holds, Homeless
  <1>9. NoDirectoryIsForgotten'
    <2> SUFFICES ASSUME NEW d \in dirs', d.name \notin stuck'
                 PROVE  \E b \in Attempts : home'[b] = d.name
      BY Zenon DEF NoDirectoryIsForgotten
    <2>1. d \in dirs /\ d.name \notin stuck /\ d.name # home[a]
      OBVIOUS
    <2>2. PICK b \in Attempts : home[b] = d.name
      BY Zenon, <2>1 DEF FInv, NoDirectoryIsForgotten
    <2> QED BY Zenon, <1>3, <2>1, <2>2
  <1>10. at' \in [Attempts -> Places] /\ home' = [b \in Attempts |-> home'[b]]
    BY Zenon, <1>2 DEF FInv, Places, Homeless
  <1> QED BY Zenon, <1>5, <1>6, <1>7, <1>8, <1>9, <1>10 DEF FInv, Files

\* The runtime goes with main, or the process is killed.
LEMMA EndKeeps == ASSUME FInv, RuntimeDrop \/ Die PROVE FInv'
  <1>1. at' = Ended /\ home' = [a \in Attempts |-> NoHome]
    BY Zenon DEF RuntimeDrop, Die
  <1>2. \A a \in Attempts : at'[a] \in Homeless /\ at'[a] \in Places
    BY Zenon, <1>1 DEF Ended, Unfinished, InFlight, Closing, FInv, Places, Homeless
  <1>3. at' \in [Attempts -> Places]
    BY Zenon, <1>1, <1>2 DEF Ended
  <1>4. \A a \in Attempts : ~Holds(a)'
    BY Zenon, <1>1 DEF Holds
  <1>5. dirs' \subseteq dirs
    BY Zenon DEF RuntimeDrop, Die
  <1>6. NoDirectoryIsForgotten'
    <2>1. CASE RuntimeDrop
      <3>1. stuck' = stuck /\ \A d \in dirs' : d \in dirs /\ \A a \in Attempts : home[a] # d.name
        BY Zenon, <2>1 DEF RuntimeDrop
      <3> QED BY Zenon, <3>1 DEF FInv, NoDirectoryIsForgotten
    <2>2. CASE Die
      <3>1. dirs' = dirs /\ stuck' = stuck \cup ({home[a] : a \in Attempts} \ {NoHome})
        BY Zenon, <2>2 DEF Die
      <3> QED BY <3>1 DEF FInv, Files, NoDirectoryIsForgotten
    <2> QED BY Zenon, <2>1, <2>2
  <1>7. Files'
    BY Zenon, <1>2, <1>4, <1>5 DEF FInv, Files
  <1> QED BY Zenon, <1>1, <1>3, <1>6, <1>7 DEF FInv

\* The steps of an attempt, of its supervisor and of its openvpn.
LEMMA ProcessKeeps ==
  ASSUME FInv, NEW a \in Attempts,
         \/ AttemptStep(a) \/ Supervise(a) \/ Openvpn(a) \/ Start(a) \/ Commit(a)
         \/ BeginTeardown(a) \/ Abandon(a)
  PROVE  FInv'
  <1>1. CASE Create(a)
    BY Zenon, <1>1, CreateKeeps
  <1>2. CASE CreateFails(a) \/ Start(a)
    <2>1. \E where \in {"over", "creating"} : Goto(a, where)
      BY Zenon, <1>2 DEF CreateFails, Start
    <2>2. at[a] \in Homeless /\ UNCHANGED onDisk
      BY Zenon, <1>2 DEF CreateFails, Start, Homeless, onDisk, files
    <2> QED BY Zenon, <2>1, <2>2, MoveKeeps DEF Homeless, Places
  <1>3. CASE WriteConfig(a)
    BY Zenon, <1>3, FillKeeps DEF WriteConfig, Homeless, Places
  <1>4. CASE Bind(a)
    BY Zenon, <1>4, FillKeeps DEF Bind, Homeless, Places
  <1>5. CASE StartFails(a)
    <2>1. at[a] \notin Homeless
      BY Zenon, <1>5 DEF StartFails, Homeless
    <2>2. Holds(a) /\ \A d \in dirs : d.name = home[a] <=> d = Dir(a)
      BY <2>1, OwnDir DEF FInv, Files
    <2>3. dirs' = {d \in dirs : d.name # home[a]}
      BY Zenon, <1>5, <2>2 DEF StartFails
    <2>4. Goto(a, "over") /\ home' = [home EXCEPT ![a] = NoHome] /\ stuck' = stuck
      BY Zenon, <1>5 DEF StartFails
    <2> QED BY Zenon, <2>1, <2>3, <2>4, LeaveKeeps
  <1>6. CASE AcceptFails(a) \/ Finish(a) \/ Abandon(a)
    <2>1. at[a] \notin Homeless /\ Discard(a)
      BY Zenon, <1>6 DEF AcceptFails, Finish, Abandon, Closing, Homeless
    <2>2. /\ Goto(a, "over") /\ home' = [home EXCEPT ![a] = NoHome]
          /\ \/ dirs' = {d \in dirs : d.name # home[a]} /\ stuck' = stuck
             \/ dirs' = dirs /\ stuck' = stuck \cup {home[a]}
      BY Zenon, <2>1 DEF Discard, Drop
    <2> QED BY Zenon, <2>1, <2>2, LeaveKeeps
  <1>7. CASE \/ Probe(a) \/ Spawn(a) \/ Accept(a) \/ Commit(a) \/ BeginTeardown(a)
             \/ CloseMgmt(a) \/ Terminate(a) \/ Kill(a)
    <2>1. UNCHANGED onDisk /\ at[a] \notin Homeless
      BY Zenon, <1>7 DEF Probe, Spawn, Accept, Commit, BeginTeardown, CloseMgmt, Terminate, Kill,
                  onDisk, files, Homeless
    <2>2. \E where \in Places \ Homeless : Goto(a, where)
      BY Zenon, <1>7 DEF Probe, Spawn, Accept, Commit, BeginTeardown, CloseMgmt, Terminate, Kill,
                  Places, Homeless
    <2> QED BY Zenon, <2>1, <2>2, MoveKeeps
  <1>8. CASE HandleStop(a) \/ Reap(a) \/ Exit(a)
    BY Zenon, <1>8, StillKeeps DEF HandleStop, Reap, Exit, onDisk, files
  <1> QED BY Zenon, <1>1, <1>2, <1>3, <1>4, <1>5, <1>6, <1>7, <1>8
          DEF AttemptStep, Supervise, Openvpn

\* What the daemon does around its attempts leaves their files alone.
LEMMA AroundKeeps ==
  ASSUME \/ Launch \/ Acquire \/ Build \/ InstallSignals \/ Serve \/ WaitForSignal
         \/ SeeShutdown \/ Drain \/ Signal \/ Upgrade
         \/ \E u \in Users : Arrive(u) \/ Leave(u) \/ Usermod(u) \/ Login(u)
  PROVE  UNCHANGED <<dirs, home, stuck, at, stop, lost>>
  BY Zenon DEF Launch, Acquire, Build, InstallSignals, Serve, WaitForSignal, SeeShutdown, Drain,
         Signal, Upgrade, Arrive, Leave, Usermod, Login, procVars, files, process

\* Every other step is a step of an attempt or ends them all.
LEMMA NextIs ==
  ASSUME Next
  PROVE  \/ \/ Launch \/ Acquire \/ Build \/ InstallSignals \/ Serve \/ WaitForSignal
            \/ SeeShutdown \/ Drain \/ Signal \/ Upgrade
            \/ \E u \in Users : Arrive(u) \/ Leave(u) \/ Usermod(u) \/ Login(u)
         \/ UNCHANGED <<dirs, home, stuck, at, stop, lost>>
         \/ RuntimeDrop \/ Die
         \/ \E a \in Attempts :
              \/ AttemptStep(a) \/ Supervise(a) \/ Openvpn(a) \/ Start(a) \/ Commit(a)
              \/ BeginTeardown(a) \/ Abandon(a)
  <1>1. Resolve => RuntimeDrop \/ UNCHANGED <<dirs, home, stuck, at, stop, lost>>
    BY Zenon DEF Resolve, Exits, procVars, files, process
  <1>2. StartupFails \/ Return => RuntimeDrop
    BY Zenon DEF StartupFails, Return, Exits
  <1>3. Crash => Die
    BY Zenon DEF Crash
  <1> QED BY Zenon, <1>1, <1>2, <1>3 DEF Next, Starting, Stopping, Running, Connect, Disconnect

-----------------------------------------------------------------------------
(* The theorems about files.                                               *)

\* The files are in order in every behaviour of the daemon.
THEOREM FileInvariance == Spec => []FInv
  <1>1. Init => FInv
    BY DEF Init, ProcessInit, FInv, Files, NoDirectoryIsForgotten, Holds, Homeless, Places
  <1>2. FInv /\ [Next]_vars => FInv'
    <2> SUFFICES ASSUME FInv, [Next]_vars PROVE FInv'
      OBVIOUS
    <2>1. CASE Next
      <3>1. CASE UNCHANGED <<dirs, home, stuck, at, stop, lost>>
        BY Zenon, <3>1, StillKeeps DEF onDisk
      <3> QED BY <2>1, <3>1, NextIs, AroundKeeps, EndKeeps, ProcessKeeps
    <2>2. CASE UNCHANGED vars
      BY <2>2, StillKeeps DEF vars, procVars, files, onDisk
    <2> QED BY <2>1, <2>2
  <1> QED BY <1>1, <1>2, PTL DEF Spec

\* No directory of an attempt that is over is left behind, unless the daemon
\* was killed or the file system refused (Drop for SessionWorkspace).
THEOREM NoDirectoryIsForgottenAlways == Spec => []NoDirectoryIsForgotten
  BY FileInvariance, PTL DEF FInv

\* A directory never changes hands, also when a process id comes back
\* (SessionWorkspace::create refuses a name that exists).
THEOREM NoDirectoryIsTakenOverAlways == Spec => NoDirectoryIsTakenOver
  <1>1. FInv /\ [Next]_vars
          => [\A d \in dirs, e \in dirs' : d.name = e.name => d.by = e.by]_procVars
    <2> SUFFICES ASSUME FInv, Next, NEW d \in dirs, NEW e \in dirs', d.name = e.name
                 PROVE  d.by = e.by
      BY DEF vars
    <2>0. e \in dirs => d.by = e.by
      BY DEF FInv, Files
    <2>1. CASE \E a \in Attempts : Create(a)
      <3>1. PICK a \in Attempts : Create(a)
        BY <2>1
      <3>2. e \in dirs \/ ~\E c \in dirs : c.name = e.name
        BY <3>1 DEF Create
      <3> QED BY Zenon, <2>0, <3>2
    <2>2. CASE \E a \in Attempts : WriteConfig(a) \/ Bind(a)
      <3>1. PICK a \in Attempts : WriteConfig(a) \/ Bind(a)
        BY Zenon, <2>2
      <3>2. Holds(a)
        BY Zenon, <3>1 DEF WriteConfig, Bind, FInv, Files, Homeless
      <3>3. Dir(a) \in dirs /\ Dir(a).name = home[a]
        BY Zenon, <3>2, OwnDir
      <3>4. e \in dirs \/ (e.name = home[a] /\ e.by = Dir(a).by)
        BY <3>1 DEF WriteConfig, Bind, Fill
      <3>5. e.name = home[a] => d = Dir(a)
        BY <3>3 DEF FInv, Files
      <3> QED BY Zenon, <2>0, <3>4, <3>5
    <2>3. CASE dirs' \subseteq dirs
      BY Zenon, <2>0, <2>3
    <2>4. ASSUME NEW a \in Attempts,
                 \/ AttemptStep(a) \/ Supervise(a) \/ Openvpn(a) \/ Start(a) \/ Commit(a)
                 \/ BeginTeardown(a) \/ Abandon(a),
                 ~Create(a), ~WriteConfig(a), ~Bind(a)
          PROVE  dirs' \subseteq dirs
      BY Zenon, <2>4 DEF AttemptStep, Supervise, Openvpn, Start, Commit, BeginTeardown, Abandon,
                  CreateFails, Probe, Spawn, StartFails, AcceptFails, CloseMgmt, Terminate,
                  Kill, Finish, HandleStop, Reap, Accept, Exit, Discard, Drop, files
    <2>5. RuntimeDrop \/ Die => dirs' \subseteq dirs
      BY Zenon DEF RuntimeDrop, Die
    <2> QED BY Zenon, <2>1, <2>2, <2>3, <2>4, <2>5, NextIs, AroundKeeps
  <1> QED BY <1>1, FileInvariance, PTL DEF Spec, NoDirectoryIsTakenOver

-----------------------------------------------------------------------------
(* The stop channel.                                                       *)

\* A teardown makes two requests at most, the second after the first.
SInv ==
    /\ lost = {}
    /\ stop \in [Attempts -> Seq({"Term", "Kill"})]
    /\ \A a \in Attempts :
         /\ at[a] \notin {"waiting", "killing", "over"} => Len(stop[a]) = 0
         /\ at[a] = "waiting" => Len(stop[a]) <= 1

\* A request that finds room is not lost.
LEMMA RequestFits ==
  ASSUME SInv, NEW a \in Attempts, NEW what \in {"Term", "Kill"}, Request(a, what),
         Len(stop[a]) < StopSlots
  PROVE  /\ lost' = {} /\ stop' \in [Attempts -> Seq({"Term", "Kill"})]
         /\ \A b \in Attempts : b # a => stop'[b] = stop[b]
         /\ Len(stop'[a]) <= Len(stop[a]) + 1
  <1>1. stop[a] \in Seq({"Term", "Kill"})
    BY Zenon DEF SInv
  <1>2. /\ stop' = [stop EXCEPT ![a] = IF a \in task THEN Append(@, what) ELSE @]
        /\ lost' = lost
    BY Zenon DEF Request
  <1>3. stop'[a] \in Seq({"Term", "Kill"}) /\ Len(stop'[a]) <= Len(stop[a]) + 1
    BY <1>1, <1>2 DEF SInv
  <1> QED BY Zenon, <1>2, <1>3 DEF SInv

\* Every step keeps to it, when the channel has the two slots of spawn.rs.
LEMMA StopKeeps ==
  ASSUME StopSlots >= 2, FInv, SInv, [Next]_vars
  PROVE  SInv'
  <1>0. at \in [Attempts -> Places] /\ StopSlots \in Nat
    BY Zenon, StopAssumption DEF FInv
  <1>1. CASE UNCHANGED <<at, stop, lost>>
    BY Zenon, <1>1 DEF SInv
  <1>2. CASE RuntimeDrop \/ Die
    <2>1. stop' = [a \in Attempts |-> <<>>] /\ lost' = lost
      BY Zenon, <1>2 DEF RuntimeDrop, Die
    <2> QED BY <2>1 DEF SInv
  <1>3. ASSUME NEW a \in Attempts, Terminate(a) PROVE SInv'
    <2>1. /\ at[a] = "terminating" /\ at' = [at EXCEPT ![a] = "waiting"]
          /\ Request(a, "Term")
      BY Zenon, <1>3 DEF Terminate, Goto
    <2>2. Len(stop[a]) = 0
      BY Zenon, <2>1 DEF SInv
    <2>3. /\ lost' = {} /\ stop' \in [Attempts -> Seq({"Term", "Kill"})]
          /\ \A b \in Attempts : b # a => stop'[b] = stop[b]
          /\ Len(stop'[a]) <= 1
      BY <1>0, <2>1, <2>2, RequestFits
    <2> QED BY Zenon, <1>0, <2>1, <2>3 DEF SInv
  <1>4. ASSUME NEW a \in Attempts, Kill(a) PROVE SInv'
    <2>1. /\ at[a] = "waiting" /\ at' = [at EXCEPT ![a] = "killing"]
          /\ Request(a, "Kill")
      BY Zenon, <1>4 DEF Kill, Goto
    <2>2. stop[a] \in Seq({"Term", "Kill"}) /\ Len(stop[a]) <= 1
      BY Zenon, <2>1 DEF SInv
    <2>3. /\ lost' = {} /\ stop' \in [Attempts -> Seq({"Term", "Kill"})]
          /\ \A b \in Attempts : b # a => stop'[b] = stop[b]
      <3>1. Len(stop[a]) < StopSlots
        BY <1>0, <2>2
      <3> QED BY Zenon, <2>1, <3>1, RequestFits
    <2> QED BY Zenon, <1>0, <2>1, <2>3 DEF SInv
  <1>5. ASSUME NEW a \in Attempts, HandleStop(a) \/ Reap(a) PROVE SInv'
    <2>1. UNCHANGED <<at, lost>>
      BY Zenon, <1>5 DEF HandleStop, Reap
    <2>2. stop[a] \in Seq({"Term", "Kill"})
      BY Zenon DEF SInv
    <2>3. \/ stop' = stop
          \/ stop[a] # <<>> /\ stop' = [stop EXCEPT ![a] = Tail(stop[a])]
          \/ stop' = [stop EXCEPT ![a] = <<>>]
      BY Zenon, <1>5 DEF HandleStop, Reap, SInv
    <2>4. CASE stop' = stop
      BY Zenon, <2>1, <2>4 DEF SInv
    <2>5. CASE stop[a] # <<>> /\ stop' = [stop EXCEPT ![a] = Tail(stop[a])]
      <3>1. Tail(stop[a]) \in Seq({"Term", "Kill"}) /\ Len(Tail(stop[a])) = Len(stop[a]) - 1
        BY <2>2, <2>5
      <3>2. Len(stop[a]) \in Nat /\ Len(stop[a]) # 0
        BY <2>2, <2>5
      <3> QED BY <2>1, <2>5, <3>1, <3>2 DEF SInv
    <2>6. CASE stop' = [stop EXCEPT ![a] = <<>>]
      BY <2>1, <2>6 DEF SInv
    <2> QED BY Zenon, <2>3, <2>4, <2>5, <2>6
  <1>6. ASSUME NEW a \in Attempts, NEW where, Goto(a, where), UNCHANGED <<stop, lost>>,
               where = "over" \/ (where # "waiting" /\ Len(stop[a]) = 0)
        PROVE  SInv'
    BY Zenon, <1>0, <1>6 DEF Goto, SInv
  <1>7. ASSUME NEW a \in Attempts,
               \/ Create(a) \/ CreateFails(a) \/ WriteConfig(a) \/ Bind(a) \/ Probe(a)
               \/ Spawn(a) \/ Accept(a) \/ Start(a) \/ Commit(a) \/ BeginTeardown(a)
               \/ CloseMgmt(a)
        PROVE  SInv'
    <2>1. /\ at[a] \notin {"waiting", "killing", "over"} /\ UNCHANGED <<stop, lost>>
      BY Zenon, <1>7 DEF Create, CreateFails, WriteConfig, Bind, Probe, Spawn, Accept, Start,
                  Commit, BeginTeardown, CloseMgmt, process
    <2>2. \E where : Goto(a, where) /\ where # "waiting"
      BY <1>7 DEF Create, CreateFails, WriteConfig, Bind, Probe, Spawn, Accept, Start,
                  Commit, BeginTeardown, CloseMgmt
    <2>3. Len(stop[a]) = 0
      BY Zenon, <2>1 DEF SInv
    <2> QED BY Zenon, <1>6, <2>1, <2>2, <2>3
  <1>8. ASSUME NEW a \in Attempts, StartFails(a) \/ AcceptFails(a) \/ Finish(a) \/ Abandon(a)
        PROVE  SInv'
    <2>1. Goto(a, "over") /\ UNCHANGED <<stop, lost>>
      BY Zenon, <1>8 DEF StartFails, AcceptFails, Finish, Abandon, Discard, process
    <2> QED BY Zenon, <1>6, <2>1
  <1>9. ASSUME NEW a \in Attempts, Exit(a) PROVE SInv'
    BY Zenon, <1>1, <1>9 DEF Exit
  <1>10. CASE UNCHANGED vars
    BY Zenon, <1>1, <1>10 DEF vars, procVars, process
  <1> QED BY Zenon, <1>1, <1>2, <1>3, <1>4, <1>5, <1>7, <1>8, <1>9, <1>10, NextIs, AroundKeeps
          DEF AttemptStep, Supervise, Openvpn

\* With two slots the polite request and the kill of a teardown both reach the
\* supervisor, whatever it is doing and wherever the teardown is given up
\* (ChannelControl::request drops what does not fit).
THEOREM NoStopIsLostAlways ==
  ASSUME StopSlots >= 2
  PROVE  Spec => []NoStopIsLost
  <1>1. Init => SInv
    BY DEF Init, ProcessInit, SInv
  <1>2. FInv /\ SInv /\ [Next]_vars => SInv'
    BY Zenon, StopKeeps
  <1>3. SInv => NoStopIsLost
    BY Zenon DEF SInv, NoStopIsLost
  <1> QED BY <1>1, <1>2, <1>3, FileInvariance, PTL DEF Spec

-----------------------------------------------------------------------------
(* What openvpn is started with.                                           *)

\* Where an attempt's directory is complete.
Furnished == {"probing", "spawning", "accepting", "auth", "live"}

\* The files are written in order, and the flag is decided before the start.
EInv ==
    /\ updown \in BOOLEAN /\ setup.updown \in BOOLEAN
    /\ args \in [Attempts -> [flag : BOOLEAN, probed : BOOLEAN, runs : BOOLEAN]]
    /\ \A a \in Attempts :
         /\ Holds(a) => base = "private"
         /\ \A d \in dirs : d.name = home[a] =>
              /\ at[a] \in Furnished \cup {"binding"} => d.config = "full"
              /\ at[a] \in Furnished => d.socket = "0600"
         /\ at[a] = "spawning" /\ args[a].probed => args[a].flag
         /\ args[a].runs => ~args[a].probed

\* What it depends on.
equipment == <<setup, base, dirs, home, at, updown, args>>

\* Nothing of it changes, but perhaps the release that is installed.
LEMMA StillSetUp ==
  ASSUME EInv, UNCHANGED <<setup, base, dirs, home, at, args>>, updown' \in BOOLEAN
  PROVE  EInv'
  BY Zenon DEF EInv, Holds

\* An attempt moves on with its files and options as they are.
LEMMA MoveSetUp ==
  ASSUME EInv, FInv, NEW a \in Attempts, NEW where, Goto(a, where),
         UNCHANGED <<setup, base, dirs, home, updown, args>>,
         \/ where \notin Furnished \cup {"binding"}
         \/ at[a] \in Furnished /\ where \in Furnished \ {"spawning"}
  PROVE  EInv'
  <1>1. \A b \in Attempts : at'[b] = (IF b = a THEN where ELSE at[b])
    BY Zenon DEF Goto, FInv
  <1> QED BY <1>1 DEF EInv, Holds, Furnished

\* SessionWorkspace::create, which has made the base private.
LEMMA CreateSetsUp == ASSUME EInv, FInv, NEW a \in Attempts, Create(a) PROVE EInv'
  <1> DEFINE name == <<pid, sequence>>
             new == [name |-> name, by |-> a, config |-> "none", socket |-> "none"]
  <1>0. base' = "private" /\ UNCHANGED <<setup, updown, args>>
    BY Zenon DEF Create, PrepareBase
  <1>1. CASE \E d \in dirs : d.name = name
    <2>1. Goto(a, "over") /\ UNCHANGED <<dirs, home>>
      BY Zenon, <1>1 DEF Create
    <2>2. \A b \in Attempts : at'[b] = (IF b = a THEN "over" ELSE at[b])
      BY Zenon, <2>1 DEF Goto, FInv
    <2> QED BY <1>0, <2>1, <2>2 DEF EInv, Holds, Furnished
  <1>2. CASE ~\E d \in dirs : d.name = name
    <2>1. /\ home' = [home EXCEPT ![a] = name] /\ dirs' = dirs \cup {new}
          /\ Goto(a, "writing")
      BY Zenon, <1>2 DEF Create
    <2>2. \A b \in Attempts : at'[b] = (IF b = a THEN "writing" ELSE at[b])
      BY Zenon, <2>1 DEF Goto, FInv
    <2>3. \A b \in Attempts : home'[b] = (IF b = a THEN name ELSE home[b])
      BY Zenon, <2>1 DEF FInv
    <2>4. \A b \in Attempts : at[b] \notin Homeless => home[b] # name
      BY SMTT(30), <1>2 DEF FInv, Files
    <2>5. \A b \in Attempts, d \in dirs' :
            d.name = home'[b] /\ at'[b] \in Furnished \cup {"binding"}
              => d \in dirs /\ home[b] = home'[b] /\ at[b] = at'[b]
      BY SMTT(30), <2>1, <2>2, <2>3, <2>4 DEF Furnished, Homeless
    <2>6. \A b \in Attempts, d \in dirs' : d.name = home'[b] =>
            /\ at'[b] \in Furnished \cup {"binding"} => d.config = "full"
            /\ at'[b] \in Furnished => d.socket = "0600"
      BY <2>5 DEF EInv
    <2>7. \A b \in Attempts : at'[b] = "spawning" => at[b] = "spawning"
      BY Zenon, <2>2
    <2> QED BY Zenon, <1>0, <2>6, <2>7 DEF EInv
  <1> QED BY Zenon, <1>1, <1>2

\* The configuration is written, and then the socket bound.
LEMMA FillSetsUp ==
  ASSUME EInv, FInv, NEW a \in Attempts, WriteConfig(a) \/ Bind(a)
  PROVE  EInv'
  <1>1. PICK file \in {"none", "0600"} :
          /\ Fill(a, "full", file)
          /\ \/ file = "none" /\ Goto(a, "binding")
             \/ file = "0600" /\ Goto(a, "probing")
    BY Zenon DEF WriteConfig, Bind
  <1> DEFINE new == [name |-> home[a], by |-> Dir(a).by, config |-> "full", socket |-> file]
  <1>2. UNCHANGED <<setup, base, home, updown, args>> /\ at[a] \in {"writing", "binding"}
    BY Zenon DEF WriteConfig, Bind
  <1>3. Holds(a)
    BY Zenon, <1>2 DEF FInv, Files, Homeless
  <1>4. Dir(a) \in dirs /\ Dir(a).name = home[a]
    BY Zenon, <1>3, OwnDir
  <1>5. dirs' = (dirs \ {Dir(a)}) \cup {new}
    BY Zenon, <1>1 DEF Fill
  <1>6. \A b \in Attempts : at'[b] = (IF b = a THEN (IF file = "none" THEN "binding" ELSE "probing")
                                      ELSE at[b])
    BY Zenon, <1>1 DEF Goto, FInv
  <1>7. \A d \in dirs' : d.name = home[a] => d = new
    BY <1>4, <1>5 DEF FInv, Files
  <1>8. \A b \in Attempts, d \in dirs' : b # a /\ d.name = home[b] => d \in dirs
    BY <1>3, <1>5 DEF FInv, Files
  <1>9. \A b \in Attempts, d \in dirs' : d.name = home'[b] =>
          /\ at'[b] \in Furnished \cup {"binding"} => d.config = "full"
          /\ at'[b] \in Furnished => d.socket = "0600"
    <2> SUFFICES ASSUME NEW b \in Attempts, NEW d \in dirs', d.name = home[b]
                 PROVE  /\ at'[b] \in Furnished \cup {"binding"} => d.config = "full"
                        /\ at'[b] \in Furnished => d.socket = "0600"
      BY Zenon, <1>2
    <2>1. CASE b = a
      <3>1. d.config = "full" /\ d.socket = file
        BY <1>7, <2>1
      <3> QED BY Zenon, <1>1, <1>6, <2>1, <3>1 DEF Furnished
    <2>2. CASE b # a
      BY <1>6, <1>8, <2>2 DEF EInv
    <2> QED BY Zenon, <2>1, <2>2
  <1>10. \A b \in Attempts : at'[b] = "spawning" => at[b] = "spawning"
    BY Zenon, <1>6
  <1> QED BY Zenon, <1>2, <1>9, <1>10 DEF EInv, Holds

\* detect_capabilities: a release with a handler gets the flag.
LEMMA ProbeSetsUp == ASSUME EInv, FInv, NEW a \in Attempts, Probe(a) PROVE EInv'
  <1>1. PICK ran \in BOOLEAN :
          args' = [args EXCEPT ![a] = [flag |-> ProbeAccepts(ran), probed |-> updown,
                                       runs |-> FALSE]]
    BY Zenon DEF Probe
  <1>2. ProbeAccepts(ran) \in BOOLEAN /\ updown \in BOOLEAN /\ (updown => ProbeAccepts(ran))
    BY Zenon DEF EInv, ProbeAccepts
  <1>3. args' \in [Attempts -> [flag : BOOLEAN, probed : BOOLEAN, runs : BOOLEAN]]
    BY Zenon, <1>1, <1>2 DEF EInv
  <1>4. \A b \in Attempts : b # a => args'[b] = args[b]
    BY Zenon, <1>1 DEF EInv
  <1>5. args'[a].probed = updown /\ args'[a].flag = ProbeAccepts(ran) /\ args'[a].runs = FALSE
    BY Zenon, <1>1 DEF EInv
  <1>6. /\ at[a] = "probing" /\ UNCHANGED <<setup, base, dirs, home, updown>>
        /\ \A b \in Attempts : at'[b] = (IF b = a THEN "spawning" ELSE at[b])
    BY Zenon DEF Probe, Goto, files, FInv
  <1>7. \A b \in Attempts : /\ at'[b] = "spawning" /\ args'[b].probed => args'[b].flag
                            /\ args'[b].runs => ~args'[b].probed
    BY SMTT(30), <1>2, <1>4, <1>5, <1>6 DEF EInv
  <1> QED BY <1>3, <1>6, <1>7 DEF EInv, Holds, Furnished

\* SystemSpawner::spawn.
LEMMA SpawnSetsUp == ASSUME EInv, FInv, NEW a \in Attempts, Spawn(a) PROVE EInv'
  <1>1. args' = [args EXCEPT ![a].runs = updown /\ ~args[a].flag]
    BY Zenon DEF Spawn
  <1>2. args[a] \in [flag : BOOLEAN, probed : BOOLEAN, runs : BOOLEAN]
    BY Zenon DEF EInv
  <1>3. args'[a] = [args[a] EXCEPT !.runs = updown /\ ~args[a].flag]
    BY Zenon, <1>1 DEF EInv
  <1>4. \A b \in Attempts : b # a => args'[b] = args[b]
    BY Zenon, <1>1 DEF EInv
  <1>5. /\ args'[a].probed = args[a].probed /\ args'[a].flag = args[a].flag
        /\ args'[a].runs = (updown /\ ~args[a].flag)
    BY Zenon, <1>2, <1>3
  <1>6. args'[a] \in [flag : BOOLEAN, probed : BOOLEAN, runs : BOOLEAN]
    BY Zenon, <1>2, <1>3
  <1>7. args' \in [Attempts -> [flag : BOOLEAN, probed : BOOLEAN, runs : BOOLEAN]]
    BY Zenon, <1>1, <1>6 DEF EInv
  <1>8. /\ at[a] = "spawning" /\ UNCHANGED <<setup, base, dirs, home, updown>>
        /\ \A b \in Attempts : at'[b] = (IF b = a THEN "accepting" ELSE at[b])
    BY Zenon DEF Spawn, Goto, files, FInv
  <1>9. \A b \in Attempts : /\ at'[b] = "spawning" /\ args'[b].probed => args'[b].flag
                            /\ args'[b].runs => ~args'[b].probed
    BY <1>4, <1>5, <1>8 DEF EInv
  <1> QED BY <1>7, <1>8, <1>9 DEF EInv, Holds, Furnished

\* An attempt gives its directory up.
LEMMA LeaveSetUp ==
  ASSUME EInv, FInv, NEW a \in Attempts, Goto(a, "over"),
         home' = [home EXCEPT ![a] = NoHome], dirs' \subseteq dirs,
         UNCHANGED <<setup, base, updown, args>>
  PROVE  EInv'
  <1>1. \A b \in Attempts : at'[b] = (IF b = a THEN "over" ELSE at[b])
    BY Zenon DEF Goto, FInv
  <1>2. \A b \in Attempts : home'[b] = (IF b = a THEN NoHome ELSE home[b])
    BY Zenon DEF FInv
  <1> QED BY <1>1, <1>2 DEF EInv, Holds, Furnished

\* Every attempt gives its directory up.
LEMMA EndSetUp == ASSUME EInv, FInv, RuntimeDrop \/ Die PROVE EInv'
  <1>1. /\ home' = [a \in Attempts |-> NoHome] /\ at' = Ended /\ dirs' \subseteq dirs
        /\ UNCHANGED <<setup, base, updown, args>>
    BY Zenon DEF RuntimeDrop, Die
  <1>2. \A a \in Attempts : at'[a] # "spawning" /\ home'[a] = NoHome
    BY Zenon, <1>1 DEF Ended, Unfinished, InFlight
  <1>3. \A d \in dirs' : d.name # NoHome
    BY Zenon, <1>1 DEF FInv, Files
  <1> QED BY Zenon, <1>1, <1>2, <1>3 DEF EInv, Holds

\* The steps of an attempt, of its supervisor and of its openvpn.
LEMMA ProcessSetsUp ==
  ASSUME EInv, FInv, NEW a \in Attempts,
         \/ AttemptStep(a) \/ Supervise(a) \/ Openvpn(a) \/ Start(a) \/ Commit(a)
         \/ BeginTeardown(a) \/ Abandon(a)
  PROVE  EInv'
  <1>1. CASE Create(a)
    BY Zenon, <1>1, CreateSetsUp
  <1>2. CASE WriteConfig(a) \/ Bind(a)
    BY Zenon, <1>2, FillSetsUp
  <1>3. CASE Probe(a)
    BY Zenon, <1>3, ProbeSetsUp
  <1>4. CASE Spawn(a)
    BY Zenon, <1>4, SpawnSetsUp
  <1>5. CASE StartFails(a) \/ AcceptFails(a) \/ Finish(a) \/ Abandon(a)
    <2>1. /\ Goto(a, "over") /\ home' = [home EXCEPT ![a] = NoHome] /\ dirs' \subseteq dirs
          /\ UNCHANGED <<setup, base, updown, args>>
      BY Zenon, <1>5 DEF StartFails, AcceptFails, Finish, Abandon, Discard, Drop
    <2> QED BY Zenon, <2>1, LeaveSetUp
  <1>6. CASE \/ CreateFails(a) \/ Start(a) \/ Accept(a) \/ Commit(a) \/ BeginTeardown(a)
             \/ CloseMgmt(a) \/ Terminate(a) \/ Kill(a)
    <2>1. UNCHANGED <<setup, base, dirs, home, updown, args>>
      BY Zenon, <1>6 DEF CreateFails, Start, Accept, Commit, BeginTeardown, CloseMgmt, Terminate, Kill,
                  files
    <2>2. \E where : /\ Goto(a, where)
                     /\ \/ where \notin Furnished \cup {"binding"}
                        \/ at[a] \in Furnished /\ where \in Furnished \ {"spawning"}
      BY <1>6 DEF CreateFails, Start, Accept, Commit, BeginTeardown, CloseMgmt, Terminate, Kill,
                  Furnished
    <2> QED BY Zenon, <2>1, <2>2, MoveSetUp
  <1>7. CASE HandleStop(a) \/ Reap(a) \/ Exit(a)
    <2>1. UNCHANGED equipment
      BY Zenon, <1>7 DEF HandleStop, Reap, Exit, files, equipment
    <2> QED BY Zenon, <2>1, StillSetUp DEF EInv, equipment
  <1> QED BY Zenon, <1>1, <1>2, <1>3, <1>4, <1>5, <1>6, <1>7 DEF AttemptStep, Supervise, Openvpn

\* Every other step leaves it alone, or is an upgrade, or ends all attempts.
LEMMA NextSetsUp == ASSUME EInv, FInv, [Next]_vars PROVE EInv'
  <1>1. CASE \/ Launch \/ Acquire \/ Build \/ InstallSignals \/ Serve \/ WaitForSignal
             \/ SeeShutdown \/ Drain \/ Signal \/ UNCHANGED vars
             \/ \E u \in Users : Arrive(u) \/ Leave(u) \/ Usermod(u) \/ Login(u)
    <2>1. UNCHANGED equipment
      BY Zenon, <1>1 DEF Launch, Acquire, Build, InstallSignals, Serve, WaitForSignal, SeeShutdown,
                  Drain, Signal, Arrive, Leave, Usermod, Login, vars, procVars, files, equipment
    <2> QED BY Zenon, <2>1, StillSetUp DEF EInv, equipment
  <1>2. CASE Upgrade
    BY Zenon, <1>2, StillSetUp DEF Upgrade, files
  <1>3. CASE Resolve
    <2>1. RuntimeDrop \/ UNCHANGED equipment
      BY Zenon, <1>3 DEF Resolve, Exits, procVars, files, equipment
    <2> QED BY Zenon, <2>1, StillSetUp, EndSetUp DEF EInv, equipment
  <1>4. CASE StartupFails \/ Return \/ Crash
    BY Zenon, <1>4, EndSetUp DEF StartupFails, Return, Exits, Crash
  <1>5. ASSUME NEW a \in Attempts,
               \/ AttemptStep(a) \/ Supervise(a) \/ Openvpn(a) \/ Start(a) \/ Commit(a)
               \/ BeginTeardown(a) \/ Abandon(a)
        PROVE  EInv'
    BY Zenon, <1>5, ProcessSetsUp
  <1> QED BY Zenon, <1>1, <1>2, <1>3, <1>4, <1>5
          DEF Next, Starting, Stopping, Running, Connect, Disconnect

\* openvpn is started on a configuration and a socket of its own that are
\* complete, in a directory only the daemon may search, and with its own DNS
\* handler switched off (SessionWorkspace::create, UnixTransportFactory::bind,
\* detect_capabilities), for any attempts, pids and machines.
THEOREM ChildIsSetUpAlways == Spec => []ChildIsSetUp
  <1>1. Init => EInv
    BY SetupAssumption DEF Init, ProcessInit, EInv, Holds, Furnished, NoArgs
  <1>2. FInv /\ EInv /\ [Next]_vars => EInv'
    BY Zenon, NextSetsUp
  <1>3. FInv /\ EInv => ChildIsSetUp
    <2> SUFFICES ASSUME FInv, EInv, NEW a \in Attempts
                 PROVE  /\ Holds(a) => Dir(a).by = a
                        /\ Holds(a) /\ at[a] \in {"accepting", "auth", "live"} =>
                             /\ base = "private"
                             /\ Dir(a).config = "full" /\ Dir(a).socket = "0600"
                        /\ Alive(a) /\ args[a].runs => ~args[a].probed
      BY Zenon DEF ChildIsSetUp
    <2> QED BY SMTT(30), OwnDir DEF EInv, Furnished
  <1> QED BY <1>1, <1>2, <1>3, FileInvariance, PTL DEF Spec

-----------------------------------------------------------------------------
(* Who is served.                                                          *)

ByGroup == setup.uids = {} /\ setup.gids = {}

\* Whom the policy in force permits, by the setup and what was read of the group.
Allowed(u) ==
    \/ u \in setup.uids \/ PrimaryGroup(u) \in setup.gids
    \/ ByGroup /\ u \in known \cup {"root"}

\* The policy is that of the setup once it is resolved, and nobody was met before.
AInv ==
    /\ phase \in {"building", "signals", "installed", "serving", "draining", "closing"}
         => fd = "control"
    /\ phase \in {"off", "policy"} => conns = {}
    /\ phase = "policy" => refused = {}
    /\ phase \notin {"off", "policy"} =>
         /\ \A u \in Users : Permits(u) => Allowed(u)
         /\ ByGroup => known \subseteq policy.uids
    /\ \A u \in conns : Allowed(u)
    /\ ByGroup => refused \cap known = {}

\* Steps that are not about clients.
LEMMA StillServed ==
  ASSUME AInv, UNCHANGED <<setup, conns, refused, policy, known, fd>>,
         \/ phase' = phase
         \/ phase \in {"building", "signals", "installed", "serving", "draining"}
              /\ phase' \in {"building", "signals", "installed", "serving", "draining", "closing"}
  PROVE  AInv'
  BY Zenon DEF AInv, Allowed, ByGroup, Permits

\* The daemon ends.
LEMMA EndServed ==
  ASSUME AInv, phase' = "off", conns' = {}, UNCHANGED <<setup, refused, known>>
  PROVE  AInv'
  BY Zenon DEF AInv, Allowed, ByGroup

\* What is resolved is what the setup or the group says.
LEMMA ResolveServes ==
  ASSUME AInv, Resolve, policy' = ResolvePolicy, phase' = "acquire", known' = Belong,
         ResolvePolicy # NoPolicy, UNCHANGED <<setup, fd, conns, refused>>
  PROVE  AInv'
  <1>1. phase = "policy" /\ conns = {} /\ refused = {}
    BY Zenon DEF AInv, Resolve
  <1>2. \/ policy' = [uids |-> setup.uids, gids |-> setup.gids] /\ ~ByGroup
        \/ policy' = [uids |-> known' \cup {"root"}, gids |-> {Group}] /\ ByGroup
    BY ZenonT(30) DEF ResolvePolicy, GroupBackedPolicy, NoPolicy, ByGroup
  <1>3. CASE policy' = [uids |-> setup.uids, gids |-> setup.gids] /\ ~ByGroup
    <2>1. policy'.uids = setup.uids /\ policy'.gids = setup.gids
      BY SMTT(30), <1>3
    <2> QED BY Zenon, <1>1, <1>3, <2>1 DEF AInv, Allowed, ByGroup, Permits
  <1>4. CASE policy' = [uids |-> known' \cup {"root"}, gids |-> {Group}] /\ ByGroup
    <2>1. policy'.uids = known' \cup {"root"} /\ policy'.gids = {Group}
      BY <1>4
    <2>2. \A u \in Users : PrimaryGroup(u) = Group => u \in known'
      BY Zenon, UserAssumption DEF PrimaryGroup, Group, Belong
    <2> QED BY Zenon, <1>1, <1>4, <2>1, <2>2 DEF AInv, Allowed, ByGroup, Permits
  <1> QED BY Zenon, <1>2, <1>3, <1>4

\* Every step serves those who are allowed, and turns away nobody who is.
LEMMA NextServes == ASSUME AInv, [Next]_vars PROVE AInv'
  <1>1. CASE \/ Build \/ InstallSignals \/ Serve \/ WaitForSignal \/ SeeShutdown \/ Signal
             \/ UNCHANGED vars \/ \E u \in Users : Usermod(u) \/ Login(u)
    <2>1. /\ UNCHANGED <<setup, conns, refused, policy, known, fd>>
          /\ \/ phase' = phase
             \/ /\ phase \in {"building", "signals", "installed", "serving", "draining"}
                /\ phase' \in {"building", "signals", "installed", "serving", "draining",
                               "closing"}
      BY Zenon, <1>1 DEF Build, InstallSignals, Serve, WaitForSignal, SeeShutdown, Signal, Usermod,
                  Login, vars, lifeVars, procVars, peers
    <2> QED BY Zenon, <2>1, StillServed
  <1>2. CASE \/ Upgrade /\ UNCHANGED lifeVars
             \/ \E a \in Attempts :
                  \/ Connect(a) \/ Disconnect(a) \/ Running(a)
                  \/ (Commit(a) \/ BeginTeardown(a) \/ Abandon(a) \/ Openvpn(a))
                       /\ UNCHANGED lifeVars
    <2>1. UNCHANGED lifeVars
      BY Zenon, <1>2 DEF Connect, Disconnect, Running
    <2>2. setup' = setup
      BY <1>2 DEF Upgrade, Connect, Disconnect, Running, Start, BeginTeardown, Commit, Abandon,
                  Openvpn, Accept, Exit, AttemptStep, Supervise, Create, CreateFails, WriteConfig,
                  Bind, Probe, Spawn, StartFails, AcceptFails, CloseMgmt, Terminate, Kill, Finish,
                  HandleStop, Reap, Discard
    <2> QED BY Zenon, <2>1, <2>2, StillServed DEF lifeVars, peers
  <1>3. CASE StartupFails \/ Return \/ Crash \/ (Resolve /\ ResolvePolicy = NoPolicy)
    <2>1. phase' = "off" /\ conns' = {} /\ UNCHANGED <<setup, refused, known>>
      BY Zenon, <1>3 DEF StartupFails, Return, Crash, Resolve, Exits, RuntimeDrop, Die
    <2> QED BY Zenon, <2>1, EndServed
  <1>4. CASE Resolve /\ ResolvePolicy # NoPolicy
    <2>1. /\ policy' = ResolvePolicy /\ phase' = "acquire" /\ known' = Belong
          /\ UNCHANGED <<setup, fd, conns, refused>>
      BY Zenon, <1>4 DEF Resolve, procVars
    <2> QED BY Zenon, <1>4, <2>1, ResolveServes
  <1>5. CASE Launch
    BY Zenon, <1>5 DEF Launch, AInv, Allowed, ByGroup
  <1>6. CASE Acquire
    <2>1. /\ phase = "acquire" /\ phase' = "building" /\ fd' = "control"
          /\ UNCHANGED <<setup, conns, refused, policy, known>>
      BY Zenon, <1>6 DEF Acquire, SystemdFd, procVars, peers
    <2> QED BY Zenon, <2>1 DEF AInv, Allowed, ByGroup, Permits
  <1>7. CASE Drain
    BY Zenon, <1>7 DEF Drain, AInv, Allowed, ByGroup, Permits, procVars
  <1>8. ASSUME NEW u \in Users, Arrive(u) PROVE AInv'
    <2>1. /\ phase = "serving" /\ UNCHANGED <<setup, phase, fd, policy, known>>
          /\ \/ Permits(u) /\ conns' = conns \cup {u} /\ refused' = refused
             \/ ~Permits(u) /\ refused' = refused \cup {u} /\ conns' = conns
      BY Zenon, <1>8 DEF Arrive, procVars
    <2> QED BY Zenon, <2>1 DEF AInv, Allowed, ByGroup, Permits
  <1>9. ASSUME NEW u \in Users, Leave(u) PROVE AInv'
    BY Zenon, <1>9 DEF Leave, AInv, Allowed, ByGroup, Permits, procVars
  <1> QED BY Zenon, <1>1, <1>2, <1>3, <1>4, <1>5, <1>6, <1>7, <1>8, <1>9 DEF Next, Starting, Stopping

\* The daemon serves on its control socket, serves nobody it was not told to,
\* and turns away no member of the group it read (systemd_fd, resolve_policy,
\* group_backed_policy), for any accounts, groups and changes of them.
THEOREM MembersAreServedAlways == Spec => []MembersAreServed
  <1>1. Init => AInv
    BY Zenon DEF Init, AInv
  <1>2. AInv /\ [Next]_vars => AInv'
    BY Zenon, NextServes
  <1>3. AInv => MembersAreServed
    BY Zenon DEF AInv, MembersAreServed, Allowed, ByGroup
  <1> QED BY <1>1, <1>2, <1>3, PTL DEF Spec

===============================================================================
