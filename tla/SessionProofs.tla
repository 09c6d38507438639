---------------------------- MODULE SessionProofs -----------------------------
(***************************************************************************)
(* No openvpn and no listener is orphaned, however many calls of connect   *)
(* and disconnect meet; and until somebody disconnects there is one owner  *)
(* at a time, the listener is its and the state cell is true.              *)
(*                                                                         *)
(* Then TunnelWatch, whose variables are its own: a supervisor that        *)
(* compares generations cannot mistake one tunnel for another, whatever    *)
(* devices openvpn opens and however often it reconnects while the         *)
(* supervisor is not looking; and what is published as connected is a      *)
(* tunnel whose device is open.                                            *)
(***************************************************************************)
EXTENDS Session, TunnelWatch, SequenceTheorems, TLAPS

\* An attempt that has not started its openvpn.
Early(c) == pc[c] \in {"idle", "rejected", "begun", "loading"}

\* What every attempt keeps to, whatever the others do.  An attempt has nothing
\* before it starts its openvpn; an exit that was seen is final; a teardown
\* withdraws prompts only after the child was stopped.
Ownership ==
    /\ \A c \in Connects : Early(c) =>
         proc[c] = "none" /\ c \notin exitSeen /\ td[c] = "none" /\ active # c
    /\ \A c \in exitSeen : proc[c] = "exited"
    /\ \A c \in Connects : td[c] = "withdraw" => ~Alive(c)

\* The inductive invariant behind NothingIsOrphaned.
OInv == TypeOK /\ Ownership /\ NothingIsOrphaned

\* Attempts that occupy the daemon's one session: under way, in the slot, or
\* being closed by their supervisor.
Live(c) ==
    \/ pc[c] \notin {"idle", "rejected", "done", "dead"}
    \/ active = c
    \/ kpc[c] \in {"watching", "taking", "tearing", "finishing"}

\* Where the one owner is, while nobody disconnects.
Stages ==
    /\ \A c \in Connects : kpc[c] \in {"watching", "taking", "tearing", "finishing"} =>
         /\ pc[c] = "done"
         /\ active = c <=> kpc[c] \in {"watching", "taking"}
         /\ kpc[c] # "watching" => state = "Disconnecting"
    /\ \A c \in Connects : active = c => kpc[c] \in {"watching", "taking"} /\ td[c] = "none"
    /\ \A c \in Connects : kpc[c] = "tearing" => held[c] = c
    /\ \A c \in Connects : TearingNow(c) => pc[c] = "failing" \/ kpc[c] = "tearing"
    /\ \A c \in Connects : InFlight(c) => td[c] = "none"

\* One owner at a time, and the state cell says that it is there.
Solitary ==
    /\ \A c, e \in Connects : Live(c) /\ Live(e) => c = e
    /\ \A c \in Connects : Live(c) => IsBusy(state)
    /\ Stages
    /\ \A c \in Connects : status = c =>
         pc[c] = "storing" \/ kpc[c] \in {"watching", "taking", "tearing", "finishing"}
    /\ listener # None => MayRevoke(listener)
    /\ state = "Connected" =>
         active # None \/ \E c \in Connects : pc[c] \in {"reporting", "storing"}

\* Policy teardowns somebody waits for; and a policy that stands from its
\* installation to the teardown's first step.
Enforced ==
    /\ \A c \in queued : td[c] = "removing" /\ job.by # c
    /\ job # NoJob => job.by \in Connects /\ td[job.by] = "removing"
    /\ \A c \in Connects :
         pc[c] \in {"keeping", "publishing"} \/ listener = c => c \in kernel

\* The inductive invariant of the sessions nobody disconnects.
QuietInv ==
    Undisturbed => /\ daemon = "running" /\ Solitary
                   /\ ~plan.wedges => Enforced

-----------------------------------------------------------------------------
(* One step of each task, for each layer of the invariant.                 *)

\* Every step keeps the types.
LEMMA TypeStep ==
    ASSUME TypeOK, [Next]_vars
    PROVE  TypeOK'
<1> USE CallAssumption DEF TypeOK, calls, cell, child, machine, Closers, NoJob
<1>1. ASSUME NEW c \in Connects, BeginConnect(c) PROVE TypeOK'
  BY <1>1 DEF BeginConnect, Goto, IsBusy
<1>2. ASSUME NEW c \in Connects, ReplaceCancel(c) PROVE TypeOK'
  BY <1>2 DEF ReplaceCancel, Goto
<1>3. ASSUME NEW c \in Connects, StartOpenvpn(c) PROVE TypeOK'
  BY <1>3 DEF StartOpenvpn, Goto, FailEarly, Killed
<1>4. ASSUME NEW c \in Connects, Accept(c) PROVE TypeOK'
  BY <1>4 DEF Accept, Goto, FailEarly, Killed
<1>5. ASSUME NEW c \in Connects, EnterAuth(c) PROVE TypeOK'
  BY <1>5 DEF EnterAuth, Goto, Fail, MayAdvance, Permits
<1>6. ASSUME NEW c \in Connects, Ready(c) PROVE TypeOK'
  BY <1>6 DEF Ready, Goto
<1>7. ASSUME NEW c \in Connects, AnswerFails(c) PROVE TypeOK'
  BY <1>7 DEF AnswerFails, Goto, Fail
<1>8. ASSUME NEW c \in Connects, AuthFails(c) PROVE TypeOK'
  BY <1>8 DEF AuthFails, Goto, Fail
<1>9. ASSUME NEW c \in Connects, SeeExit(c) PROVE TypeOK'
  BY <1>9 DEF SeeExit, Goto, Fail
<1>10. ASSUME NEW c \in Connects, SeeCancel(c) PROVE TypeOK'
  BY <1>10 DEF SeeCancel, Goto, Fail
<1>11. ASSUME NEW c \in Connects, Install(c) PROVE TypeOK'
  BY <1>11 DEF Install, Goto, Fail
<1>12. ASSUME NEW c \in Connects, KeepProof(c) PROVE TypeOK'
  BY <1>12 DEF KeepProof, Goto
<1>13. ASSUME NEW c \in Connects, Publish(c) PROVE TypeOK'
  BY <1>13 DEF Publish, Goto, Fail
<1>14. ASSUME NEW c \in Connects, Commit(c) PROVE TypeOK'
  BY <1>14 DEF Commit, Goto, Fail, MayAdvance, Permits
<1>15. ASSUME NEW c \in Connects, WriteStatus(c) PROVE TypeOK'
  BY <1>15 DEF WriteStatus, Goto
<1>16. ASSUME NEW c \in Connects, Store(c) PROVE TypeOK'
  BY <1>16 DEF Store, Goto, Killed, Closed
<1>17. ASSUME NEW c \in Connects, TornDown(c) PROVE TypeOK'
  BY <1>17 DEF TornDown, Goto
<1>18. ASSUME NEW c \in Connects, RecordFailure(c) PROVE TypeOK'
  BY Zenon, <1>18 DEF RecordFailure, Goto
<1>19. ASSUME NEW c \in Connects, Ask(c) PROVE TypeOK'
  BY <1>19 DEF Ask, Goto
<1>20. ASSUME NEW c \in Connects, Answered(c) PROVE TypeOK'
  BY <1>20 DEF Answered, Goto
<1>21. ASSUME NEW c \in Connects, Loss(c) PROVE TypeOK'
  BY <1>21 DEF Loss, KGoto
<1>22. ASSUME NEW c \in Connects, Revoke(c) PROVE TypeOK'
  BY <1>22 DEF Revoke, TGoto
<1>23. ASSUME NEW c \in Connects, PolicyJobBegin(c) PROVE TypeOK'
  BY <1>23 DEF PolicyJobBegin
<1>24. ASSUME NEW c \in Connects, BudgetSpent(c) PROVE TypeOK'
  BY <1>24 DEF BudgetSpent, TGoto, Killed, Closed
<1>25. ASSUME NEW c \in Connects, CloseMgmt(c) PROVE TypeOK'
  BY <1>25 DEF CloseMgmt, TGoto, Closed
<1>26. ASSUME NEW c \in Connects, AwaitExit(c) PROVE TypeOK'
  BY <1>26 DEF AwaitExit, TGoto
<1>27. ASSUME NEW c \in Connects, GraceSpent(c) PROVE TypeOK'
  BY <1>27 DEF GraceSpent, TGoto, Killed
<1>28. ASSUME NEW c \in Connects, Withdraw(c) PROVE TypeOK'
  BY <1>28 DEF Withdraw, TGoto
<1>29. ASSUME NEW c \in Connects, LinkUp(c) PROVE TypeOK'
  BY <1>29 DEF LinkUp
<1>30. ASSUME NEW c \in Connects, LinkDown(c) PROVE TypeOK'
  BY <1>30 DEF LinkDown
<1>31. ASSUME NEW c \in Connects, Exit(c) PROVE TypeOK'
  BY <1>31 DEF Exit, Closed
<1>32. ASSUME NEW d \in Disconnects, BeginDisconnect(d) PROVE TypeOK'
  BY <1>32 DEF BeginDisconnect, KGoto
<1>33. ASSUME NEW d \in Disconnects, SendCancel(d) PROVE TypeOK'
  BY <1>33 DEF SendCancel, KGoto
<1>34. ASSUME NEW k \in Closers, Take(k) PROVE TypeOK'
  BY <1>34 DEF Take, KGoto
<1>35. ASSUME NEW k \in Closers, Tore(k) PROVE TypeOK'
  BY <1>35 DEF Tore, KGoto
<1>36. ASSUME NEW k \in Closers, FinishClosing(k) PROVE TypeOK'
  BY Zenon, <1>36 DEF FinishClosing, KGoto
<1>37. CASE PolicyJobEnd
  <2>1. kernel' \subseteq Connects /\ job' \in [by : Connects \cup {None}, took : Connects \cup {None}]
    BY <1>37 DEF PolicyJobEnd
  <2>2. td' \in [Connects -> {"none", "revoke", "removing", "mgmt", "stop",
                            "withdraw", "done", "panicked"}]
    BY Zenon, <1>37 DEF PolicyJobEnd
  <2> QED
    BY <1>37, <2>1, <2>2 DEF PolicyJobEnd
<1>38. CASE Stop
  BY <1>38 DEF Stop, Killed
<1>39. CASE UNCHANGED vars
  BY <1>39 DEF vars
<1> QED
  BY Zenon, <1>1, <1>2, <1>3, <1>4, <1>5, <1>6, <1>7, <1>8, <1>9, <1>10, <1>11, <1>12, <1>13,
     <1>14, <1>15, <1>16, <1>17, <1>18, <1>19, <1>20, <1>21, <1>22, <1>23, <1>24, <1>25,
     <1>26, <1>27, <1>28, <1>29, <1>30, <1>31, <1>32, <1>33, <1>34, <1>35, <1>36, <1>37,
     <1>38, <1>39, Zenon
  DEF Next, Attempting, Closing, TearingDown

\* Every step leaves a live openvpn with an owner and a listener with somebody
\* who can revoke it: what gives up ownership kills the child or hands it on.
LEMMA OwnershipStep ==
    ASSUME TypeOK, Ownership, NothingIsOrphaned, [Next]_vars
    PROVE  (Ownership /\ NothingIsOrphaned)'
<1> USE CallAssumption DEF TypeOK, calls, cell, child, machine, Closers, NoJob, Ownership, NothingIsOrphaned,
        Early, Alive, Owned, InFlight, TearingNow, Published, MayRevoke
<1>1. ASSUME NEW c \in Connects, BeginConnect(c) PROVE (Ownership /\ NothingIsOrphaned)'
  BY <1>1 DEF BeginConnect, Goto, IsBusy
<1>2. ASSUME NEW c \in Connects, ReplaceCancel(c) PROVE (Ownership /\ NothingIsOrphaned)'
  BY <1>2 DEF ReplaceCancel, Goto
<1>3. ASSUME NEW c \in Connects, StartOpenvpn(c) PROVE (Ownership /\ NothingIsOrphaned)'
  BY <1>3 DEF StartOpenvpn, Goto, FailEarly, Killed
<1>4. ASSUME NEW c \in Connects, Accept(c) PROVE (Ownership /\ NothingIsOrphaned)'
  BY <1>4 DEF Accept, Goto, FailEarly, Killed
<1>5. ASSUME NEW c \in Connects, EnterAuth(c) PROVE (Ownership /\ NothingIsOrphaned)'
  BY <1>5 DEF EnterAuth, Goto, Fail, MayAdvance, Permits
<1>6. ASSUME NEW c \in Connects, Ready(c) PROVE (Ownership /\ NothingIsOrphaned)'
  BY <1>6 DEF Ready, Goto
<1>7. ASSUME NEW c \in Connects, AnswerFails(c) PROVE (Ownership /\ NothingIsOrphaned)'
  BY <1>7 DEF AnswerFails, Goto, Fail
<1>8. ASSUME NEW c \in Connects, AuthFails(c) PROVE (Ownership /\ NothingIsOrphaned)'
  BY <1>8 DEF AuthFails, Goto, Fail
<1>9. ASSUME NEW c \in Connects, SeeExit(c) PROVE (Ownership /\ NothingIsOrphaned)'
  BY <1>9 DEF SeeExit, Goto, Fail
<1>10. ASSUME NEW c \in Connects, SeeCancel(c) PROVE (Ownership /\ NothingIsOrphaned)'
  BY <1>10 DEF SeeCancel, Goto, Fail
<1>11. ASSUME NEW c \in Connects, Install(c) PROVE (Ownership /\ NothingIsOrphaned)'
  BY <1>11 DEF Install, Goto, Fail
<1>12. ASSUME NEW c \in Connects, KeepProof(c) PROVE (Ownership /\ NothingIsOrphaned)'
  BY <1>12 DEF KeepProof, Goto
<1>13. ASSUME NEW c \in Connects, Publish(c) PROVE (Ownership /\ NothingIsOrphaned)'
  BY <1>13 DEF Publish, Goto, Fail
<1>14. ASSUME NEW c \in Connects, Commit(c) PROVE (Ownership /\ NothingIsOrphaned)'
  BY <1>14 DEF Commit, Goto, Fail, MayAdvance, Permits
<1>15. ASSUME NEW c \in Connects, WriteStatus(c) PROVE (Ownership /\ NothingIsOrphaned)'
  BY <1>15 DEF WriteStatus, Goto
<1>16. ASSUME NEW c \in Connects, Store(c) PROVE (Ownership /\ NothingIsOrphaned)'
  BY <1>16 DEF Store, Goto, Killed, Closed
<1>17. ASSUME NEW c \in Connects, TornDown(c) PROVE (Ownership /\ NothingIsOrphaned)'
  BY <1>17 DEF TornDown, Goto
<1>18. ASSUME NEW c \in Connects, RecordFailure(c) PROVE (Ownership /\ NothingIsOrphaned)'
  BY <1>18 DEF RecordFailure, Goto
<1>19. ASSUME NEW c \in Connects, Ask(c) PROVE (Ownership /\ NothingIsOrphaned)'
  BY <1>19 DEF Ask, Goto
<1>20. ASSUME NEW c \in Connects, Answered(c) PROVE (Ownership /\ NothingIsOrphaned)'
  BY <1>20 DEF Answered, Goto
<1>21. ASSUME NEW c \in Connects, Loss(c) PROVE (Ownership /\ NothingIsOrphaned)'
  BY Zenon, <1>21 DEF Loss, KGoto
<1>22. ASSUME NEW c \in Connects, Revoke(c) PROVE (Ownership /\ NothingIsOrphaned)'
  BY <1>22 DEF Revoke, TGoto
<1>23. ASSUME NEW c \in Connects, PolicyJobBegin(c) PROVE (Ownership /\ NothingIsOrphaned)'
  BY Zenon, <1>23 DEF PolicyJobBegin
<1>24. ASSUME NEW c \in Connects, BudgetSpent(c) PROVE (Ownership /\ NothingIsOrphaned)'
  BY <1>24 DEF BudgetSpent, TGoto, Killed, Closed
<1>25. ASSUME NEW c \in Connects, CloseMgmt(c) PROVE (Ownership /\ NothingIsOrphaned)'
  BY <1>25 DEF CloseMgmt, TGoto, Closed
<1>26. ASSUME NEW c \in Connects, AwaitExit(c) PROVE (Ownership /\ NothingIsOrphaned)'
  BY <1>26 DEF AwaitExit, TGoto
<1>27. ASSUME NEW c \in Connects, GraceSpent(c) PROVE (Ownership /\ NothingIsOrphaned)'
  BY <1>27 DEF GraceSpent, TGoto, Killed
<1>28. ASSUME NEW c \in Connects, Withdraw(c) PROVE (Ownership /\ NothingIsOrphaned)'
  BY <1>28 DEF Withdraw, TGoto
<1>29. ASSUME NEW c \in Connects, LinkUp(c) PROVE (Ownership /\ NothingIsOrphaned)'
  BY Zenon, <1>29 DEF LinkUp
<1>30. ASSUME NEW c \in Connects, LinkDown(c) PROVE (Ownership /\ NothingIsOrphaned)'
  BY Zenon, <1>30 DEF LinkDown
<1>31. ASSUME NEW c \in Connects, Exit(c) PROVE (Ownership /\ NothingIsOrphaned)'
  BY <1>31 DEF Exit, Closed
<1>32. ASSUME NEW d \in Disconnects, BeginDisconnect(d) PROVE (Ownership /\ NothingIsOrphaned)'
  BY Zenon, <1>32 DEF BeginDisconnect, KGoto
<1>33. ASSUME NEW d \in Disconnects, SendCancel(d) PROVE (Ownership /\ NothingIsOrphaned)'
  BY Zenon, <1>33 DEF SendCancel, KGoto
<1>34. ASSUME NEW k \in Closers, Take(k) PROVE (Ownership /\ NothingIsOrphaned)'
  BY <1>34 DEF Take, KGoto
<1>35. ASSUME NEW k \in Closers, Tore(k) PROVE (Ownership /\ NothingIsOrphaned)'
  BY Zenon, <1>35 DEF Tore, KGoto
<1>36. ASSUME NEW k \in Closers, FinishClosing(k) PROVE (Ownership /\ NothingIsOrphaned)'
  BY Zenon, <1>36 DEF FinishClosing, KGoto
<1>37. CASE PolicyJobEnd
  BY <1>37 DEF PolicyJobEnd
<1>38. CASE Stop
  BY Zenon, <1>38 DEF Stop, Killed
<1>39. CASE UNCHANGED vars
  BY Zenon, <1>39 DEF vars
<1> QED
  BY Zenon, <1>1, <1>2, <1>3, <1>4, <1>5, <1>6, <1>7, <1>8, <1>9, <1>10, <1>11, <1>12, <1>13,
     <1>14, <1>15, <1>16, <1>17, <1>18, <1>19, <1>20, <1>21, <1>22, <1>23, <1>24, <1>25,
     <1>26, <1>27, <1>28, <1>29, <1>30, <1>31, <1>32, <1>33, <1>34, <1>35, <1>36, <1>37,
     <1>38, <1>39, Zenon
  DEF Next, Attempting, Closing, TearingDown

\* While nobody disconnects an attempt is admitted only when no other is live,
\* and the cell is left busy until it has given everything up.
LEMMA SolitaryStep ==
    ASSUME TypeOK, Ownership, QuietInv, [Next]_vars, Undisturbed'
    PROVE  (daemon = "running" /\ Solitary)'
<1> USE SMTT(30), CallAssumption
    DEF TypeOK, calls, cell, child, machine, Closers, NoJob, Ownership, NothingIsOrphaned,
        Early, Alive, Owned, InFlight, TearingNow, Published, MayRevoke, QuietInv,
        Undisturbed, Solitary, Live, Stages, IsBusy
<1>1. ASSUME NEW c \in Connects, BeginConnect(c) PROVE (daemon = "running" /\ Solitary)'
  BY <1>1 DEF BeginConnect, Goto
<1>2. ASSUME NEW c \in Connects, ReplaceCancel(c) PROVE (daemon = "running" /\ Solitary)'
  BY <1>2 DEF ReplaceCancel, Goto
<1>3. ASSUME NEW c \in Connects, StartOpenvpn(c) PROVE (daemon = "running" /\ Solitary)'
  BY <1>3 DEF StartOpenvpn, Goto, FailEarly, Killed
<1>4. ASSUME NEW c \in Connects, Accept(c) PROVE (daemon = "running" /\ Solitary)'
  BY <1>4 DEF Accept, Goto, FailEarly, Killed
<1>5. ASSUME NEW c \in Connects, EnterAuth(c) PROVE (daemon = "running" /\ Solitary)'
  BY SMTT(30), <1>5 DEF EnterAuth, Goto, Fail, MayAdvance, Permits
<1>6. ASSUME NEW c \in Connects, Ready(c) PROVE (daemon = "running" /\ Solitary)'
  BY <1>6 DEF Ready, Goto
<1>7. ASSUME NEW c \in Connects, AnswerFails(c) PROVE (daemon = "running" /\ Solitary)'
  BY <1>7 DEF AnswerFails, Goto, Fail
<1>8. ASSUME NEW c \in Connects, AuthFails(c) PROVE (daemon = "running" /\ Solitary)'
  BY <1>8 DEF AuthFails, Goto, Fail
<1>9. ASSUME NEW c \in Connects, SeeExit(c) PROVE (daemon = "running" /\ Solitary)'
  BY <1>9 DEF SeeExit, Goto, Fail
<1>10. ASSUME NEW c \in Connects, SeeCancel(c) PROVE (daemon = "running" /\ Solitary)'
  BY <1>10 DEF SeeCancel, Goto, Fail
<1>11. ASSUME NEW c \in Connects, Install(c) PROVE (daemon = "running" /\ Solitary)'
  BY <1>11 DEF Install, Goto, Fail
<1>12. ASSUME NEW c \in Connects, KeepProof(c) PROVE (daemon = "running" /\ Solitary)'
  BY <1>12 DEF KeepProof, Goto
<1>13. ASSUME NEW c \in Connects, Publish(c) PROVE (daemon = "running" /\ Solitary)'
  BY <1>13 DEF Publish, Goto, Fail
<1>14. ASSUME NEW c \in Connects, Commit(c) PROVE (daemon = "running" /\ Solitary)'
  BY <1>14 DEF Commit, Goto, Fail, MayAdvance, Permits
<1>15. ASSUME NEW c \in Connects, WriteStatus(c) PROVE (daemon = "running" /\ Solitary)'
  BY <1>15 DEF WriteStatus, Goto
<1>16. ASSUME NEW c \in Connects, Store(c) PROVE (daemon = "running" /\ Solitary)'
  BY <1>16 DEF Store, Goto, Killed, Closed
<1>17. ASSUME NEW c \in Connects, TornDown(c) PROVE (daemon = "running" /\ Solitary)'
  BY <1>17 DEF TornDown, Goto
<1>18. ASSUME NEW c \in Connects, RecordFailure(c) PROVE (daemon = "running" /\ Solitary)'
  BY <1>18 DEF RecordFailure, Goto
<1>19. ASSUME NEW c \in Connects, Ask(c) PROVE (daemon = "running" /\ Solitary)'
  BY <1>19 DEF Ask, Goto
<1>20. ASSUME NEW c \in Connects, Answered(c) PROVE (daemon = "running" /\ Solitary)'
  BY <1>20 DEF Answered, Goto
<1>21. ASSUME NEW c \in Connects, Loss(c) PROVE (daemon = "running" /\ Solitary)'
  BY <1>21 DEF Loss, KGoto
<1>22. ASSUME NEW c \in Connects, Revoke(c) PROVE (daemon = "running" /\ Solitary)'
  BY <1>22 DEF Revoke, TGoto
<1>23. ASSUME NEW c \in Connects, PolicyJobBegin(c) PROVE (daemon = "running" /\ Solitary)'
  BY <1>23 DEF PolicyJobBegin
<1>24. ASSUME NEW c \in Connects, BudgetSpent(c) PROVE (daemon = "running" /\ Solitary)'
  BY <1>24 DEF BudgetSpent, TGoto, Killed, Closed
<1>25. ASSUME NEW c \in Connects, CloseMgmt(c) PROVE (daemon = "running" /\ Solitary)'
  BY <1>25 DEF CloseMgmt, TGoto, Closed
<1>26. ASSUME NEW c \in Connects, AwaitExit(c) PROVE (daemon = "running" /\ Solitary)'
  BY <1>26 DEF AwaitExit, TGoto
<1>27. ASSUME NEW c \in Connects, GraceSpent(c) PROVE (daemon = "running" /\ Solitary)'
  BY <1>27 DEF GraceSpent, TGoto, Killed
<1>28. ASSUME NEW c \in Connects, Withdraw(c) PROVE (daemon = "running" /\ Solitary)'
  BY <1>28 DEF Withdraw, TGoto
<1>29. ASSUME NEW c \in Connects, LinkUp(c) PROVE (daemon = "running" /\ Solitary)'
  BY <1>29 DEF LinkUp
<1>30. ASSUME NEW c \in Connects, LinkDown(c) PROVE (daemon = "running" /\ Solitary)'
  BY <1>30 DEF LinkDown
<1>31. ASSUME NEW c \in Connects, Exit(c) PROVE (daemon = "running" /\ Solitary)'
  BY <1>31 DEF Exit, Closed
<1>32. ASSUME NEW d \in Disconnects, BeginDisconnect(d) PROVE (daemon = "running" /\ Solitary)'
  BY <1>32 DEF BeginDisconnect, KGoto
<1>33. ASSUME NEW d \in Disconnects, SendCancel(d) PROVE (daemon = "running" /\ Solitary)'
  BY Zenon, <1>33 DEF SendCancel, KGoto
<1>34. ASSUME NEW k \in Closers, Take(k) PROVE (daemon = "running" /\ Solitary)'
  BY SMTT(30), <1>34 DEF Take, KGoto
<1>35. ASSUME NEW k \in Closers, Tore(k) PROVE (daemon = "running" /\ Solitary)'
  BY <1>35 DEF Tore, KGoto
<1>36. ASSUME NEW k \in Closers, FinishClosing(k) PROVE (daemon = "running" /\ Solitary)'
  BY SMTT(30), <1>36 DEF FinishClosing, KGoto
<1>37. CASE PolicyJobEnd
  BY <1>37 DEF PolicyJobEnd
<1>38. CASE Stop
  BY SMTT(30), <1>38 DEF Stop, Killed
<1>39. CASE UNCHANGED vars
  BY <1>39 DEF vars
<1> QED
  BY Zenon, <1>1, <1>2, <1>3, <1>4, <1>5, <1>6, <1>7, <1>8, <1>9, <1>10, <1>11, <1>12, <1>13,
     <1>14, <1>15, <1>16, <1>17, <1>18, <1>19, <1>20, <1>21, <1>22, <1>23, <1>24, <1>25,
     <1>26, <1>27, <1>28, <1>29, <1>30, <1>31, <1>32, <1>33, <1>34, <1>35, <1>36, <1>37,
     <1>38, <1>39, Zenon
  DEF Next, Attempting, Closing, TearingDown

\* And while every policy teardown is waited for, none runs under a policy that
\* a listener relies on.
LEMMA EnforcedStep ==
    ASSUME TypeOK, Ownership, QuietInv, [Next]_vars, Undisturbed', ~plan'.wedges
    PROVE  Enforced'
<1> USE SMTT(30), CallAssumption
    DEF TypeOK, calls, cell, child, machine, Closers, NoJob, Ownership, Early, Alive, Owned,
        InFlight, TearingNow, Published, MayRevoke, QuietInv, Undisturbed, Solitary, Live,
        Stages, IsBusy, Enforced
<1>1. ASSUME NEW c \in Connects, BeginConnect(c) PROVE Enforced'
  BY <1>1 DEF BeginConnect, Goto
<1>2. ASSUME NEW c \in Connects, ReplaceCancel(c) PROVE Enforced'
  BY <1>2 DEF ReplaceCancel, Goto
<1>3. ASSUME NEW c \in Connects, StartOpenvpn(c) PROVE Enforced'
  BY <1>3 DEF StartOpenvpn, Goto, FailEarly, Killed
<1>4. ASSUME NEW c \in Connects, Accept(c) PROVE Enforced'
  BY SMTT(30), <1>4 DEF Accept, Goto, FailEarly, Killed
<1>5. ASSUME NEW c \in Connects, EnterAuth(c) PROVE Enforced'
  BY <1>5 DEF EnterAuth, Goto, Fail, MayAdvance, Permits
<1>6. ASSUME NEW c \in Connects, Ready(c) PROVE Enforced'
  BY <1>6 DEF Ready, Goto
<1>7. ASSUME NEW c \in Connects, AnswerFails(c) PROVE Enforced'
  BY <1>7 DEF AnswerFails, Goto, Fail
<1>8. ASSUME NEW c \in Connects, AuthFails(c) PROVE Enforced'
  BY <1>8 DEF AuthFails, Goto, Fail
<1>9. ASSUME NEW c \in Connects, SeeExit(c) PROVE Enforced'
  BY <1>9 DEF SeeExit, Goto, Fail
<1>10. ASSUME NEW c \in Connects, SeeCancel(c) PROVE Enforced'
  BY SMTT(30), <1>10 DEF SeeCancel, Goto, Fail
<1>11. ASSUME NEW c \in Connects, Install(c) PROVE Enforced'
  BY <1>11 DEF Install, Goto, Fail
<1>12. ASSUME NEW c \in Connects, KeepProof(c) PROVE Enforced'
  BY SMTT(30), <1>12 DEF KeepProof, Goto
<1>13. ASSUME NEW c \in Connects, Publish(c) PROVE Enforced'
  BY SMTT(30), <1>13 DEF Publish, Goto, Fail
<1>14. ASSUME NEW c \in Connects, Commit(c) PROVE Enforced'
  BY <1>14 DEF Commit, Goto, Fail, MayAdvance, Permits
<1>15. ASSUME NEW c \in Connects, WriteStatus(c) PROVE Enforced'
  BY <1>15 DEF WriteStatus, Goto
<1>16. ASSUME NEW c \in Connects, Store(c) PROVE Enforced'
  BY <1>16 DEF Store, Goto, Killed, Closed
<1>17. ASSUME NEW c \in Connects, TornDown(c) PROVE Enforced'
  BY <1>17 DEF TornDown, Goto
<1>18. ASSUME NEW c \in Connects, RecordFailure(c) PROVE Enforced'
  BY <1>18 DEF RecordFailure, Goto
<1>19. ASSUME NEW c \in Connects, Ask(c) PROVE Enforced'
  BY <1>19 DEF Ask, Goto
<1>20. ASSUME NEW c \in Connects, Answered(c) PROVE Enforced'
  BY <1>20 DEF Answered, Goto
<1>21. ASSUME NEW c \in Connects, Loss(c) PROVE Enforced'
  BY Zenon, <1>21 DEF Loss, KGoto
<1>22. ASSUME NEW c \in Connects, Revoke(c) PROVE Enforced'
  BY <1>22 DEF Revoke, TGoto
<1>23. ASSUME NEW c \in Connects, PolicyJobBegin(c) PROVE Enforced'
  BY Zenon, <1>23 DEF PolicyJobBegin
<1>24. ASSUME NEW c \in Connects, BudgetSpent(c) PROVE Enforced'
  BY Zenon, <1>24 DEF BudgetSpent, TGoto, Killed, Closed
<1>25. ASSUME NEW c \in Connects, CloseMgmt(c) PROVE Enforced'
  BY SMTT(30), <1>25 DEF CloseMgmt, TGoto, Closed
<1>26. ASSUME NEW c \in Connects, AwaitExit(c) PROVE Enforced'
  BY <1>26 DEF AwaitExit, TGoto
<1>27. ASSUME NEW c \in Connects, GraceSpent(c) PROVE Enforced'
  BY <1>27 DEF GraceSpent, TGoto, Killed
<1>28. ASSUME NEW c \in Connects, Withdraw(c) PROVE Enforced'
  BY <1>28 DEF Withdraw, TGoto
<1>29. ASSUME NEW c \in Connects, LinkUp(c) PROVE Enforced'
  BY Zenon, <1>29 DEF LinkUp
<1>30. ASSUME NEW c \in Connects, LinkDown(c) PROVE Enforced'
  BY Zenon, <1>30 DEF LinkDown
<1>31. ASSUME NEW c \in Connects, Exit(c) PROVE Enforced'
  BY Zenon, <1>31 DEF Exit, Closed
<1>32. ASSUME NEW d \in Disconnects, BeginDisconnect(d) PROVE Enforced'
  BY <1>32 DEF BeginDisconnect, KGoto
<1>33. ASSUME NEW d \in Disconnects, SendCancel(d) PROVE Enforced'
  BY Zenon, <1>33 DEF SendCancel, KGoto
<1>34. ASSUME NEW k \in Closers, Take(k) PROVE Enforced'
  BY <1>34 DEF Take, KGoto
<1>35. ASSUME NEW k \in Closers, Tore(k) PROVE Enforced'
  BY Zenon, <1>35 DEF Tore, KGoto
<1>36. ASSUME NEW k \in Closers, FinishClosing(k) PROVE Enforced'
  BY Zenon, <1>36 DEF FinishClosing, KGoto
<1>37. CASE PolicyJobEnd
  BY <1>37 DEF PolicyJobEnd
<1>38. CASE Stop
  BY Zenon, <1>38 DEF Stop, Killed
<1>39. CASE UNCHANGED vars
  BY Zenon, <1>39 DEF vars
<1> QED
  BY Zenon, <1>1, <1>2, <1>3, <1>4, <1>5, <1>6, <1>7, <1>8, <1>9, <1>10, <1>11, <1>12, <1>13,
     <1>14, <1>15, <1>16, <1>17, <1>18, <1>19, <1>20, <1>21, <1>22, <1>23, <1>24, <1>25,
     <1>26, <1>27, <1>28, <1>29, <1>30, <1>31, <1>32, <1>33, <1>34, <1>35, <1>36, <1>37,
     <1>38, <1>39, Zenon
  DEF Next, Attempting, Closing, TearingDown

-----------------------------------------------------------------------------
(* The theorems.                                                           *)

\* The invariant holds when the daemon has started.
LEMMA InitInv == Init => OInv /\ QuietInv
<1> SUFFICES ASSUME Init PROVE OInv /\ QuietInv
  OBVIOUS
<1> USE CallAssumption DEF Init, TypeOK, Closers, NoJob
<1>1. TypeOK
  OBVIOUS
<1>2. Ownership /\ NothingIsOrphaned
  BY Zenon DEF Ownership, NothingIsOrphaned, Early, Alive
<1>3. Solitary /\ Enforced
  BY Zenon DEF Solitary, Enforced, Live, Stages, TearingNow, InFlight
<1> QED
  BY Zenon, <1>1, <1>2, <1>3 DEF OInv, QuietInv

\* Every step of every task keeps it.
LEMMA StepInv == OInv /\ QuietInv /\ [Next]_vars => (OInv /\ QuietInv)'
<1> SUFFICES ASSUME OInv, QuietInv, [Next]_vars PROVE (OInv /\ QuietInv)'
  OBVIOUS
<1>1. OInv'
  BY TypeStep, OwnershipStep DEF OInv
<1>2. ASSUME Undisturbed' PROVE (daemon = "running" /\ Solitary)'
  BY <1>2, SolitaryStep DEF OInv
<1>3. ASSUME Undisturbed', ~plan'.wedges PROVE Enforced'
  BY <1>3, EnforcedStep DEF OInv
<1> QED
  BY <1>1, <1>2, <1>3 DEF QuietInv

\* The invariant holds throughout.
LEMMA Invariance == Spec => [](OInv /\ QuietInv)
BY InitInv, StepInv, PTL DEF Spec

\* Every variable keeps its type.
THEOREM TypeCorrectness == Spec => []TypeOK
<1>1. OInv => TypeOK
  BY DEF OInv
<1> QED
  BY Invariance, <1>1, PTL

\* However many connects, disconnects and supervisors race, and wherever one of
\* them fails, panics or runs out of its budget, a live openvpn has a task that
\* will stop it and a listener one that can revoke it (SessionResources,
\* teardown_inner).
THEOREM NothingIsOrphanedAlways == Spec => []NothingIsOrphaned
<1>1. OInv => NothingIsOrphaned
  BY DEF OInv
<1> QED
  BY Invariance, <1>1, PTL

\* Until somebody disconnects the listener is pinned to the one live session's
\* tunnel, and its policy stands unless a command outlasts the budget
\* (install_policy publishes last, teardown revokes first).
THEOREM ListenerIsCoveredAlways == Spec => []ListenerIsCovered
<1>1. OInv /\ QuietInv => ListenerIsCovered
  BY Zenon DEF OInv, TypeOK, QuietInv, Solitary, Enforced, ListenerIsCovered
<1> QED
  BY Invariance, <1>1, PTL

\* Until somebody disconnects the state cell is true, over any number of
\* sessions one after the other (connect, handle_loss and record_failure report
\* after the teardown; run_connect commits, then stores).
THEOREM StateIsTrueAlways == Spec => []StateIsTrue
<1>1. ASSUME OInv, QuietInv, Undisturbed PROVE StateIsTrue
  <2> USE <1>1 DEF OInv, QuietInv, Solitary, Live
  <2>1. \A c \in Connects : Owned(c) \/ MayRevoke(c) \/ status = c => Live(c)
    BY DEF Owned, MayRevoke, Published, InFlight, Stages, TearingNow
  <2>2. state \in {"Disconnected", "Failed"} => \A c \in Connects : ~Live(c)
    BY Zenon DEF IsBusy
  <2> QED
    BY <2>1, <2>2, CallAssumption DEF StateIsTrue, NothingIsOrphaned, TypeOK
<1>2. OInv /\ QuietInv => StateIsTrue
  BY Zenon, <1>1 DEF StateIsTrue
<1> QED
  BY Invariance, <1>2, PTL

-----------------------------------------------------------------------------
(* The watch over a tunnel.                                                *)

\* What a supervisor that started from `start` may rely on in w.
Kept(w) ==
    /\ base <= w.generation
    /\ (start.connected /\ w.connected /\ w.generation = base) => w.identity = start.identity

\* The watch shows the tracker while the actor runs.  A block is never being
\* read while openvpn is connected, so the identity of a connected tunnel
\* does not change.
GenerationInv ==
    /\ watch.generation \in Nat /\ base \in Nat
    /\ watch.connected \in BOOLEAN
    /\ actor = "running" =>
         /\ watch.connected = tracker.connected /\ watch.identity = tracker.identity
         /\ tracker.connected => phase = "connected" /\ block = <<>>
    /\ at = "supervised" => Kept(watch)

\* One publication: a generation is only left upwards, and the identity under
\* it changes only while the tunnel is down.
LEMMA PublishKeeps ==
    ASSUME NEW next, PublishState(next),
           watch.generation \in Nat, watch.connected \in BOOLEAN, next.connected \in BOOLEAN,
           (next.connected /\ watch.connected) => next.identity = watch.identity
    PROVE  /\ watch'.generation \in Nat /\ watch'.connected \in BOOLEAN
           /\ watch'.connected = next.connected /\ watch'.identity = next.identity
           /\ watch'.generation >= watch.generation
           /\ (watch'.connected /\ watch'.generation = watch.generation) =>
                watch.connected /\ watch'.identity = watch.identity
<1>1. watch' = AdvancedTo(next)
  BY DEF PublishState
<1>2. /\ watch'.connected = next.connected /\ watch'.identity = next.identity
      /\ watch'.generation = IF next.connected /\ ~watch.connected
                             THEN watch.generation + 1 ELSE watch.generation
  BY <1>1 DEF AdvancedTo
<1>3. CASE next.connected /\ ~watch.connected
  BY <1>2, <1>3
<1>4. CASE ~(next.connected /\ ~watch.connected)
  BY <1>2, <1>4
<1> QED
  BY <1>3, <1>4

\* What is kept of one state of the watch is kept of a later one that has a
\* higher generation or is the same tunnel.
LEMMA KeptOn ==
    ASSUME NEW v, NEW w, base \in Nat, v.generation \in Nat, w.generation \in Nat,
           w.generation >= v.generation,
           (w.connected /\ w.generation = v.generation) => v.connected /\ w.identity = v.identity,
           Kept(v)
    PROVE  Kept(w)
BY DEF Kept

\* The invariant holds before openvpn has said anything.
THEOREM InitGeneration == WatchInit => GenerationInv
BY DEF WatchInit, GenerationInv, Down, Kept

\* The steps of openvpn and of the actor.
LEMMA EventKeeps ==
    ASSUME GenerationInv, NEW next, ObserveAndPublish(next), next.connected \in BOOLEAN,
           actor = "running", actor' \in {"running", "ended"}, UNCHANGED session,
           (next.connected /\ tracker.connected) => next.identity = tracker.identity,
           next.connected => phase' = "connected" /\ block' = <<>>
    PROVE  GenerationInv'
<1>1. /\ watch.generation \in Nat /\ watch.connected \in BOOLEAN /\ base \in Nat
      /\ watch.connected = tracker.connected /\ watch.identity = tracker.identity
      /\ PublishState(next) /\ tracker' = next
      /\ base' = base /\ at' = at /\ start' = start
  BY DEF GenerationInv, ObserveAndPublish, session
<1>2. (next.connected /\ watch.connected) => next.identity = watch.identity
  BY <1>1
<1>3. /\ watch'.generation \in Nat /\ watch'.connected \in BOOLEAN
      /\ watch'.connected = next.connected /\ watch'.identity = next.identity
      /\ watch'.generation >= watch.generation
      /\ (watch'.connected /\ watch'.generation = watch.generation) =>
           watch.connected /\ watch'.identity = watch.identity
  BY <1>1, <1>2, PublishKeeps
<1>4. at = "supervised" => Kept(watch')
  BY <1>1, <1>3, KeptOn DEF GenerationInv
<1>5. at' = "supervised" => Kept(watch)'
  BY <1>1, <1>4 DEF Kept
<1> QED
  BY SMTT(30), <1>1, <1>3, <1>5 DEF GenerationInv

\* Every line openvpn writes, and every look of the supervisor, keeps it.
THEOREM StepGeneration == GenerationInv /\ [WatchNext]_watchVars => GenerationInv'
<1> SUFFICES ASSUME GenerationInv, [WatchNext]_watchVars PROVE GenerationInv'
  OBVIOUS
<1>1. ASSUME NEW d \in Devices, OpenTun(d) PROVE GenerationInv'
  <2>1. tracker.connected = FALSE
    BY <1>1 DEF GenerationInv, OpenTun, Speaks
  <2> DEFINE next == FoldUpDown(Line("Up"))
  <2>2. next.connected = FALSE
    BY <2>1 DEF FoldUpDown
  <2> QED
    BY Zenon, <1>1, <2>2, EventKeeps DEF OpenTun, Speaks
<1>2. CASE CloseTun
  <2>1. tracker.connected = FALSE
    BY <1>2 DEF GenerationInv, CloseTun, Speaks
  <2> DEFINE next == FoldUpDown(Line("Down"))
  <2>2. next.connected = FALSE
    BY <2>1 DEF FoldUpDown
  <2> QED
    BY Zenon, <1>2, <2>2, EventKeeps DEF CloseTun, Speaks
<1>3. CASE ReadLine
  <2>1. tracker.connected = FALSE
    BY <1>3 DEF GenerationInv, ReadLine
  <2>2. FoldUpDown(Head(block)).connected = FALSE /\ Down.connected = FALSE
    BY <2>1 DEF FoldUpDown, Down
  <2>3. CASE MissingDev(Head(block))
    BY Zenon, <1>3, <2>2, <2>3, EventKeeps DEF ReadLine
  <2>4. CASE ~MissingDev(Head(block))
    BY Zenon, <1>3, <2>2, <2>4, EventKeeps DEF ReadLine
  <2> QED
    BY <2>3, <2>4
<1>4. CASE EnterConnected
  <2> DEFINE next == Transition(TRUE)
  <2>1. next.connected = TRUE /\ next.identity = tracker.identity
    BY DEF Transition
  <2> QED
    BY Zenon, <1>4, <2>1, EventKeeps DEF EnterConnected, Speaks
<1>5. CASE Reconnect \/ FatalEvent
  <2> DEFINE next == Transition(FALSE)
  <2>1. next.connected = FALSE
    BY DEF Transition
  <2> QED
    BY Zenon, <1>5, <2>1, EventKeeps DEF Reconnect, FatalEvent, Speaks
<1>6. CASE ActorEnds
  <2>1. Down.connected = FALSE
    BY DEF Down
  <2> QED
    BY ZenonT(30), <1>6, <2>1, EventKeeps DEF ActorEnds, ObserveAndPublish
<1>7. CASE ActorAborted
  BY <1>7 DEF GenerationInv, ActorAborted, session, Kept
<1>8. CASE TunnelReady \/ AuthEnds \/ InstallFails
  BY <1>8 DEF GenerationInv, TunnelReady, AuthEnds, InstallFails, openvpn, mgmt, Kept
<1>9. CASE Supervise
  <2>1. UNCHANGED <<watch, actor, tracker, phase, block>> /\ base' = watch.generation /\ start' = watch
    BY Zenon, <1>9 DEF Supervise, openvpn, mgmt
  <2>2. Kept(watch)'
    BY <2>1 DEF GenerationInv, Kept
  <2> QED BY Zenon, <2>1, <2>2 DEF GenerationInv
<1>10. CASE Notice
  BY <1>10 DEF GenerationInv, Notice, openvpn, mgmt, Kept
<1>11. CASE UNCHANGED watchVars
  BY <1>11 DEF GenerationInv, watchVars, openvpn, mgmt, session, Kept
<1> QED
  BY <1>1, <1>2, <1>3, <1>4, <1>5, <1>6, <1>7, <1>8, <1>9, <1>10, <1>11 DEF WatchNext

\* However openvpn flaps while the supervisor does not look, the same
\* generation is the same tunnel (TunnelState::advanced_to).
THEOREM Generations == WatchSpec => []SameGenerationSameTunnel
<1>1. GenerationInv => SameGenerationSameTunnel
  BY DEF GenerationInv, Kept, SameGenerationSameTunnel
<1> QED
  BY InitGeneration, StepGeneration, <1>1, PTL DEF WatchSpec

-----------------------------------------------------------------------------
(* The identity that is published is the open device's.                    *)

\* The k-th line from the end of the block that describes d.
FromEnd(d, k) ==
    CASE k = 1 -> Line("EnvEnd")
      [] k \in 2..4 -> EnvLines(d)[5 - k]
      [] OTHER -> Line("EnvBegin")

\* The variables that were read when k lines are left.
Variables(d, k) ==
    LET e == EnvLines(d)
    IN  CASE k = 1 -> <<e[1], e[2], e[3]>>
          [] k = 2 -> <<e[1], e[2]>>
          [] k = 3 -> <<e[1]>>
          [] OTHER -> <<>>

\* What is left to read describes d, and while d is being opened the collector
\* has exactly the variables that were read.
Reading(d) ==
    /\ block \in Seq({FromEnd(d, k) : k \in 1..5}) /\ Len(block) \in 1..5
    /\ \A i \in 1..Len(block) : block[i] = FromEnd(d, Len(block) + 1 - i)
    /\ tracker.identity = NoTunnel
    /\ tun = NoTunnel => tracker.updown = [up |-> FALSE, env |-> tracker.updown.env]
    /\ tun # NoTunnel => /\ tun = d
                     /\ tracker.updown = [up |-> TRUE, env |-> Variables(d, Len(block))]

\* Until openvpn exits, an identity is that of the device it has open; a fatal
\* event leaves an identity behind, but no connection.
OpenInv ==
    actor = "running" =>
        /\ tun \in Devices \cup {NoTunnel} /\ tracker.connected \in BOOLEAN
        /\ watch.connected = tracker.connected /\ watch.identity = tracker.identity
        /\ phase = "exited" => ~tracker.connected
        /\ phase # "exited" => tracker.identity \in {NoTunnel, tun}
        /\ block # <<>> => \E d \in Devices : Reading(d)

\* A block as openvpn writes it.
LEMMA BlockIs ==
    ASSUME NEW d
    PROVE  LET b == <<Line("EnvBegin")>> \o EnvLines(d) \o <<Line("EnvEnd")>>
           IN  /\ b \in Seq({FromEnd(d, k) : k \in 1..5}) /\ Len(b) = 5
               /\ \A i \in 1..5 : b[i] = FromEnd(d, 6 - i)
<1> DEFINE S == {FromEnd(d, k) : k \in 1..5}
           s == <<Line("EnvBegin")>>
           e == EnvLines(d)
           t == <<Line("EnvEnd")>>
           a == s \o e
           b == a \o t
<1>1. DOMAIN Keys = 1..3
  BY DEF Keys
<1>2. /\ Line("EnvEnd") = FromEnd(d, 1) /\ Line("EnvBegin") = FromEnd(d, 5)
      /\ \A n \in 1..3 : e[n] = FromEnd(d, 5 - n)
  BY SMTT(30) DEF FromEnd
<1>3. /\ s \in [1..1 -> S] /\ s[1] = FromEnd(d, 5)
      /\ e \in [1..3 -> S]
      /\ t \in [1..1 -> S] /\ t[1] = FromEnd(d, 1)
  BY <1>1, <1>2 DEF EnvLines
<1> HIDE DEF S, s, e, t
<1>4. /\ s \in Seq(S) /\ e \in Seq(S) /\ t \in Seq(S)
  BY Zenon, <1>3, SeqDef
<1>5. Len(s) = 1 /\ Len(e) = 3 /\ Len(t) = 1
  BY <1>3, <1>4, LenProperties
<1>6. /\ a \in Seq(S) /\ Len(a) = Len(s) + Len(e)
      /\ \A i \in 1 .. Len(s) + Len(e) : a[i] = IF i <= Len(s) THEN s[i] ELSE e[i - Len(s)]
  BY <1>4, ConcatProperties, Zenon
<1>7. a \in Seq(S)
  BY <1>6
<1> HIDE DEF a
<1>8. /\ b \in Seq(S) /\ Len(b) = Len(a) + Len(t)
      /\ \A i \in 1 .. Len(a) + Len(t) : b[i] = IF i <= Len(a) THEN a[i] ELSE t[i - Len(a)]
  BY <1>4, <1>7, ConcatProperties, Zenon
<1> HIDE DEF b
<1>9. Len(b) = 5 /\ \A i \in 1..5 : b[i] = FromEnd(d, 6 - i)
  BY <1>2, <1>3, <1>5, <1>6, <1>8
<1> QED
  BY <1>8, <1>9, Zenon DEF S, s, e, t, a, b

\* A collector that has read all variables of d finishes with d.
LEMMA FinishIs ==
    ASSUME NEW d \in Devices, NEW c, c.env = Variables(d, 1)
    PROVE  Finish(c) = d
<1>1. /\ Keys[1] = "dev" /\ Keys[2] = "ifconfig_local" /\ Keys[3] = "ifconfig_ipv6_local"
      /\ DOMAIN Keys = 1..3
  BY DEF Keys
<1>2. /\ DOMAIN c.env = 1..3
      /\ \A n \in 1..3 : c.env[n].key = Keys[n] /\ c.env[n].value = d[Keys[n]]
  <2>1. \A n \in 1..3 : EnvLines(d)[n].key = Keys[n] /\ EnvLines(d)[n].value = d[Keys[n]]
    BY <1>1 DEF EnvLines
  <2>2. c.env = <<EnvLines(d)[1], EnvLines(d)[2], EnvLines(d)[3]>>
    BY DEF Variables
  <2> QED
    BY <2>1, <2>2
<1>3. \A m, n \in 1..3 : Keys[m] = Keys[n] => m = n
  BY <1>1
<1>4. ASSUME NEW n \in 1..3 PROVE Get(c.env, Keys[n]) = d[Keys[n]]
  <2> DEFINE First(i) == /\ c.env[i].key = Keys[n]
                         /\ \A m \in 1 .. i - 1 : ~(c.env[m].key = Keys[n])
  <2>1. First(n) /\ \A i \in 1..3 : First(i) => i = n
    BY <1>2, <1>3
  <2>2. (CHOOSE i \in DOMAIN c.env : First(i)) = n
    <3>1. \E i \in DOMAIN c.env : First(i)
      BY <2>1, <1>2
    <3> HIDE DEF First
    <3>2. First(CHOOSE i \in DOMAIN c.env : First(i)) /\ (CHOOSE i \in DOMAIN c.env : First(i)) \in 1..3
      BY <3>1, <1>2
    <3> QED
      BY <2>1, <3>2
  <2>3. ~\A i \in DOMAIN c.env : ~(c.env[i].key = Keys[n])
    BY <2>1, <1>2
  <2>4. Get(c.env, Keys[n]) = c.env[CHOOSE i \in DOMAIN c.env : First(i)].value
    BY <2>3 DEF Get
  <2> QED
    BY <2>2, <2>4, <1>2
<1>5. \A key \in {Keys[n] : n \in DOMAIN Keys} : Get(c.env, key) = d[key]
  BY <1>1, <1>4
<1> QED
  BY Zenon, <1>5, DeviceAssumption DEF Finish

\* One line of a block, read by the collector.
LEMMA LineIs ==
    ASSUME NEW d \in Devices, NEW n \in 2..5, NEW c, NEW line, line = FromEnd(d, n)
    PROVE  /\ line.type \notin {"Down", "EnvEnd"}
           /\ c = [up |-> FALSE, env |-> c.env] =>
                Observe(c, line) = [up |-> FALSE, env |-> Observe(c, line).env]
           /\ c = [up |-> TRUE, env |-> Variables(d, n)] =>
                Observe(c, line) = [up |-> TRUE, env |-> Variables(d, n - 1)]
<1>1. DOMAIN Keys = 1..3
  BY DEF Keys
<1>2. CASE n = 5
  <2>1. line.type = "EnvBegin"
    BY <1>2 DEF FromEnd, Line
  <2>2. Variables(d, n - 1) = Variables(d, n)
    BY <1>2 DEF Variables
  <2> QED
    BY <2>1, <2>2 DEF Observe
<1>3. CASE n \in 2..4
  <2>1. line = EnvLines(d)[5 - n]
    BY <1>3 DEF FromEnd
  <2>2. line.type = "Env"
    BY <1>1, <1>3, <2>1 DEF EnvLines
  <2>3. Observe(c, line) = [c EXCEPT !.env = Append(@, line)]
    BY <2>2 DEF Observe
  <2>4. Variables(d, n - 1) = Append(Variables(d, n), line)
    <3>1. CASE n = 2
      BY <2>1, <3>1 DEF Variables
    <3>2. CASE n = 3
      BY <2>1, <3>2 DEF Variables
    <3>3. CASE n = 4
      BY <2>1, <3>3 DEF Variables
    <3> QED
      BY <1>3, <3>1, <3>2, <3>3
  <2>5. ASSUME NEW up, NEW env, c = [up |-> up, env |-> env]
        PROVE  Observe(c, line) = [up |-> up, env |-> Append(env, line)]
    BY Zenon, <2>3, <2>5
  <2> QED
    BY <2>2, <2>4, <2>5
<1> QED
  BY <1>2, <1>3

\* What is left of a block after one line.
LEMMA RestIs ==
    ASSUME NEW S, NEW d, NEW b \in Seq(S), Len(b) \in 1..5,
           \A i \in 1..Len(b) : b[i] = FromEnd(d, Len(b) + 1 - i)
    PROVE  /\ Head(b) = FromEnd(d, Len(b))
           /\ Tail(b) \in Seq(S) /\ Len(Tail(b)) = Len(b) - 1
           /\ \A i \in 1..Len(Tail(b)) : Tail(b)[i] = FromEnd(d, Len(Tail(b)) + 1 - i)
<1> DEFINE t == Tail(b)
<1>1. b # <<>> /\ Head(b) = b[1]
  BY SMTT(30)
<1>2. t \in Seq(S) /\ Len(t) = Len(b) - 1 /\ \A i \in 1..Len(t) : t[i] = b[i + 1]
  BY <1>1, HeadTailProperties
<1> HIDE DEF t
<1>3. ASSUME NEW i \in 1..Len(t) PROVE t[i] = FromEnd(d, Len(t) + 1 - i)
  <2>1. i + 1 \in 1..Len(b) /\ Len(b) + 1 - (i + 1) = Len(t) + 1 - i
    BY <1>2
  <2> QED
    BY <1>2, <2>1
<1>4. Head(b) = FromEnd(d, Len(b))
  <2>1. 1 \in 1..Len(b) /\ Len(b) + 1 - 1 = Len(b)
    BY SMTT(30)
  <2> QED
    BY <1>1, <2>1
<1> QED
  BY <1>2, <1>3, <1>4 DEF t

\* A step of the actor within a block.
LEMMA LineKeeps ==
    ASSUME NEW d \in Devices, Reading(d), tun \in Devices \cup {NoTunnel}
    PROVE  LET next == FoldUpDown(Head(block))
           IN  /\ next.connected = tracker.connected /\ next.identity \in {NoTunnel, tun}
               /\ (block' = Tail(block) /\ block' # <<>> /\ tracker' = next /\ tun' = tun)
                     => Reading(d)'
<1> DEFINE S == {FromEnd(d, k) : k \in 1..5}
           n == Len(block)
           c == tracker.updown
           h == Head(block)
           next == FoldUpDown(h)
<1>1. /\ n \in 1..5 /\ tracker.identity = NoTunnel
      /\ tun = NoTunnel => c = [up |-> FALSE, env |-> c.env]
      /\ tun # NoTunnel => tun = d /\ c = [up |-> TRUE, env |-> Variables(d, n)]
  BY DEF Reading
<1>2. /\ h = FromEnd(d, n)
      /\ Tail(block) \in Seq(S) /\ Len(Tail(block)) = n - 1
      /\ \A i \in 1..Len(Tail(block)) : Tail(block)[i] = FromEnd(d, Len(Tail(block)) + 1 - i)
  <2>1. /\ block \in Seq(S) /\ Len(block) \in 1..5
        /\ \A i \in 1..Len(block) : block[i] = FromEnd(d, Len(block) + 1 - i)
    BY DEF Reading
  <2> HIDE DEF S
  <2> QED
    BY <2>1, RestIs
<1>3. /\ next.connected = tracker.connected /\ next.updown = Observe(c, h)
      /\ next.identity = CASE h.type = "Down" -> NoTunnel
                           [] h.type = "EnvEnd" /\ c.up -> Finish(c)
                           [] OTHER -> NoTunnel
  BY <1>1 DEF FoldUpDown
<1> HIDE DEF S, n, c, h, next
<1>4. CASE n = 1
  <2>1. h.type = "EnvEnd"
    BY <1>2, <1>4 DEF FromEnd, Line
  <2>2. c.up => tun = d /\ Finish(c) = d
    BY <1>1, <1>4, FinishIs
  <2>3. next.identity \in {NoTunnel, tun}
    BY <1>3, <2>1, <2>2
  <2>4. Tail(block) = <<>>
    <3>1. Len(Tail(block)) = 0
      BY <1>2, <1>4
    <3> QED
      BY <1>2, <3>1, EmptySeq, Zenon
  <2> QED
    BY Zenon, <1>3, <2>3, <2>4 DEF next, h
<1>5. CASE n # 1
  <2>1. n \in 2..5
    BY <1>1, <1>5
  <2>2. /\ h.type \notin {"Down", "EnvEnd"}
        /\ c = [up |-> FALSE, env |-> c.env] =>
             next.updown = [up |-> FALSE, env |-> next.updown.env]
        /\ c = [up |-> TRUE, env |-> Variables(d, n)] =>
             next.updown = [up |-> TRUE, env |-> Variables(d, n - 1)]
    BY <1>2, <1>3, <2>1, LineIs
  <2>3. next.identity = NoTunnel
    BY SMTT(30), <1>3, <2>2
  <2>4. ASSUME block' = Tail(block), block' # <<>>, tracker' = next, tun' = tun PROVE Reading(d)'
    <3>1. /\ block' \in Seq(S) /\ Len(block') = n - 1
          /\ \A i \in 1..Len(block') : block'[i] = FromEnd(d, Len(block') + 1 - i)
      BY <1>2, <2>4, Zenon
    <3>2. Len(block') \in 1..5
      BY <2>1, <3>1
    <3>3. /\ tracker'.identity = NoTunnel
          /\ tun' = NoTunnel => tracker'.updown = [up |-> FALSE, env |-> tracker'.updown.env]
          /\ tun' # NoTunnel => tun' = d /\ tracker'.updown = [up |-> TRUE, env |-> Variables(d, n - 1)]
      BY <1>1, <2>2, <2>3, <2>4
    <3> QED
      BY <3>1, <3>2, <3>3 DEF Reading, S
  <2> QED
    BY <1>3, <2>3, <2>4 DEF next, h
<1> QED
  BY SMTT(30), <1>4, <1>5

\* A block that has just been written.
LEMMA FreshBlock ==
    ASSUME NEW d \in Devices,
           block' = <<Line("EnvBegin")>> \o EnvLines(d) \o <<Line("EnvEnd")>>,
           tracker'.identity = NoTunnel,
           tun' = NoTunnel => tracker'.updown = [up |-> FALSE, env |-> tracker'.updown.env],
           tun' # NoTunnel => tun' = d /\ tracker'.updown = [up |-> TRUE, env |-> <<>>]
    PROVE  Reading(d)'
<1> DEFINE b == <<Line("EnvBegin")>> \o EnvLines(d) \o <<Line("EnvEnd")>>
           S == {FromEnd(d, k) : k \in 1..5}
<1>1. b \in Seq(S) /\ Len(b) = 5 /\ \A i \in 1..5 : b[i] = FromEnd(d, 6 - i)
  BY BlockIs, Zenon
<1>2. block' = b
  OBVIOUS
<1> HIDE DEF b, S
<1>3. block' \in Seq(S) /\ Len(block') = 5
  BY <1>1, <1>2, Zenon
<1>4. \A i \in 1..Len(block') : block'[i] = FromEnd(d, Len(block') + 1 - i)
  BY <1>1, <1>2, <1>3
<1>5. Len(block') \in 1..5 /\ Variables(d, Len(block')) = <<>>
  BY <1>3 DEF Variables
<1> QED
  BY <1>3, <1>4, <1>5, Zenon DEF Reading, S

\* The invariant holds before openvpn has said anything.
LEMMA InitOpen == WatchInit => OpenInv
BY DEF WatchInit, OpenInv, Down

\* Every line openvpn writes keeps it.
LEMMA StepOpen == OpenInv /\ [WatchNext]_watchVars => OpenInv'
<1> SUFFICES ASSUME OpenInv, [WatchNext]_watchVars, actor' = "running" PROVE OpenInv'
  BY DEF OpenInv
<1> USE DeviceAssumption
<1>1. ASSUME NEW next, ObserveAndPublish(next)
      PROVE  watch'.connected = tracker'.connected /\ watch'.identity = tracker'.identity
  BY <1>1 DEF ObserveAndPublish, PublishState, AdvancedTo
<1>2. ASSUME NEW d \in Devices, OpenTun(d) PROVE OpenInv'
  <2>1. /\ tracker' = FoldUpDown(Line("Up")) /\ tracker.identity = NoTunnel
        /\ tracker.connected \in BOOLEAN /\ ~(phase = "exited") /\ phase' = phase /\ tun' = d
    BY <1>2 DEF OpenInv, OpenTun, Speaks, ObserveAndPublish
  <2>2. /\ tracker'.connected = tracker.connected /\ tracker'.identity = NoTunnel
        /\ tracker'.updown = [up |-> TRUE, env |-> <<>>]
    BY Zenon, <2>1 DEF FoldUpDown, Line, Observe, Collector
  <2>3. Reading(d)'
    BY Zenon, <1>2, <2>1, <2>2, FreshBlock DEF OpenTun
  <2> QED
    BY <1>1, <1>2, <2>1, <2>2, <2>3 DEF OpenInv, OpenTun
<1>3. CASE CloseTun
  <2>1. /\ tracker' = FoldUpDown(Line("Down")) /\ tun \in Devices
        /\ tracker.connected \in BOOLEAN /\ ~(phase = "exited") /\ phase' = phase /\ tun' = NoTunnel
    BY <1>3 DEF OpenInv, CloseTun, Speaks, ObserveAndPublish
  <2>2. /\ tracker'.connected = tracker.connected /\ tracker'.identity = NoTunnel
        /\ tracker'.updown = [up |-> FALSE, env |-> <<>>]
    BY <2>1 DEF FoldUpDown, Line, Observe, Collector
  <2>3. PICK d \in Devices : d = tun
    BY <2>1
  <2>4. block' = <<Line("EnvBegin")>> \o EnvLines(d) \o <<Line("EnvEnd")>>
    BY <1>3, <2>3 DEF CloseTun
  <2>5. tracker'.updown = [up |-> FALSE, env |-> tracker'.updown.env]
    BY <2>2
  <2>6. Reading(d)'
    BY <2>1, <2>2, <2>4, <2>5, FreshBlock, Zenon
  <2> QED
    BY <1>1, <1>3, <2>1, <2>2, <2>6 DEF OpenInv, CloseTun
<1>4. CASE ReadLine
  <2>1. PICK d \in Devices : Reading(d)
    BY <1>4 DEF OpenInv, ReadLine
  <2>2. /\ tracker' = FoldUpDown(Head(block)) /\ block' = Tail(block) /\ tun' = tun /\ phase' = phase
        /\ watch'.connected = tracker'.connected /\ watch'.identity = tracker'.identity
    BY <1>1, <1>4 DEF ReadLine, ObserveAndPublish
  <2>3. /\ tracker'.connected = tracker.connected /\ tracker'.identity \in {NoTunnel, tun}
        /\ block' # <<>> => Reading(d)'
    BY <1>4, <2>1, <2>2, LineKeeps DEF OpenInv, ReadLine
  <2> QED
    BY <1>4, <2>2, <2>3 DEF OpenInv, ReadLine
<1>5. CASE EnterConnected
  BY Zenon, <1>1, <1>5 DEF OpenInv, EnterConnected, Speaks, ObserveAndPublish, Transition
<1>6. CASE Reconnect
  BY Zenon, <1>1, <1>6 DEF OpenInv, Reconnect, Speaks, ObserveAndPublish, Transition
<1>7. CASE FatalEvent
  BY Zenon, <1>1, <1>7 DEF OpenInv, FatalEvent, Speaks, ObserveAndPublish, Transition
<1>8. CASE ActorEnds \/ ActorAborted
  BY <1>8 DEF ActorEnds, ActorAborted
<1>9. CASE UNCHANGED <<openvpn, mgmt>>
  BY Zenon, <1>9 DEF OpenInv, Reading, openvpn, mgmt
<1> QED
  BY SMTT(30), <1>2, <1>3, <1>4, <1>5, <1>6, <1>7, <1>8, <1>9
  DEF WatchNext, TunnelReady, AuthEnds, InstallFails, Supervise, Notice, watchVars

\* Whichever devices openvpn opens and closes, and however its lines are cut up
\* between the actor's steps, a published identity is that of the open device,
\* whole (UpDownCollector, TunnelTracker::observe).
THEOREM PublishedIsOpenAlways == WatchSpec => []PublishedIsOpen
<1>1. OpenInv => PublishedIsOpen
  BY Zenon DEF OpenInv, PublishedIsOpen
<1> QED
  BY InitOpen, StepOpen, <1>1, PTL DEF WatchSpec
===============================================================================
