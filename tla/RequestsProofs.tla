---------------------------- MODULE RequestsProofs ----------------------------
(***************************************************************************)
(* Proofs about AuthFlow and ProfileStore as Requests puts them together:  *)
(* nothing is handed to openvpn twice in one attempt, however often it     *)
(* asks and whenever the daemon is restarted, and no import takes over     *)
(* another's file, for any number of requests.                             *)
(***************************************************************************)
EXTENDS Requests, TLAPS

-----------------------------------------------------------------------------
(* AuthFlow.                                                               *)

FlowState == [username : BOOLEAN, offered : BOOLEAN, lastStep : Int, warned : BOOLEAN]

Times == 0..MaxStep

HandedTypes == /\ flow \in FlowState /\ auth.stored \in BOOLEAN /\ clock \in Times
               /\ handed \in [stored : Nat, codes : [Times -> Nat]]

\* The stored password counts as used from where it is offered: it is in the
\* answer under way, or with openvpn, or was dropped.
StoredOnce ==
    /\ handed.stored \in {0, 1}
    /\ auth.stored = TRUE => handed.stored = 0 /\ flow.offered = TRUE
    /\ flow.offered = FALSE => handed.stored = 0

\* No code is of a later step than the one ReplayGuard remembers.
CodesOnce ==
    /\ flow.lastStep <= clock
    /\ \A s \in Times : handed.codes[s] <= 1 /\ (s > flow.lastStep => handed.codes[s] = 0)

\* The inductive invariant.
FInv == HandedTypes /\ StoredOnce /\ CodesOnce

\* A step that hands nothing over and offers nothing.
Quiet ==
    /\ handed' = handed /\ flow' \in FlowState
    /\ flow'.lastStep = flow.lastStep /\ flow'.offered = flow.offered
    /\ auth'.stored = FALSE \/ auth'.stored = auth.stored

\* It leaves the invariant alone, whether or not time passes.
LEMMA QuietKeeps ==
    ASSUME FInv, Quiet, clock' \in Times, clock' = clock \/ clock' = clock + 1
    PROVE  FInv'
<1>1. HandedTypes'
  BY Zenon DEF FInv, HandedTypes, Quiet
<1>2. StoredOnce'
  BY Zenon DEF FInv, HandedTypes, StoredOnce, Quiet
<1>3. CodesOnce'
  BY FlowAssumption DEF FInv, HandedTypes, CodesOnce, Quiet, Times, FlowState
<1> QED
  BY Zenon, <1>1, <1>2, <1>3 DEF FInv

\* The places `authenticate` goes to keep what the answer holds, or drop it.
LEMMA GotoKeepsStored ==
    /\ \A a, where : Goto(a, where) => auth'.stored = a.stored
    /\ \A where : Finish(where) => auth'.stored = FALSE
    /\ Idle.stored = FALSE
  BY DEF Goto, Finish, Auth, Idle

\* ReplayGuard::admit: a code is handed over for a step it does not remember.
LEMMA GenerateKeeps ==
    ASSUME FInv, NEW a, a.stored = FALSE \/ a.stored = auth.stored, GenerateCode(a), clock' = clock
    PROVE  FInv'
<1>1. auth'.stored = a.stored
  BY Zenon, GotoKeepsStored DEF GenerateCode
<1>2. CASE flow.lastStep = clock
  <2>1. flow' = flow /\ handed' = handed
    BY Zenon, <1>2 DEF GenerateCode
  <2> QED
    BY Zenon, <1>1, <2>1, QuietKeeps DEF Quiet, FInv, HandedTypes, Times
<1>3. CASE flow.lastStep # clock
  <2>1. /\ flow' = [flow EXCEPT !.lastStep = clock]
        /\ handed' = [handed EXCEPT !.codes[clock] = @ + 1]
    BY Zenon, <1>3 DEF GenerateCode, Admit
  <2>2. HandedTypes
    BY Zenon DEF FInv
  <2>3. flow' \in FlowState /\ flow'.lastStep = clock /\ flow'.offered = flow.offered
    BY <2>1, <2>2 DEF HandedTypes, FlowState, Times
  <2>4. /\ handed'.stored = handed.stored
        /\ handed' \in [stored : Nat, codes : [Times -> Nat]]
        /\ \A s \in Times : handed'.codes[s] = IF s = clock THEN handed.codes[s] + 1 ELSE handed.codes[s]
    <3>1. handed.stored \in Nat /\ handed.codes \in [Times -> Nat] /\ clock \in Times
      BY Zenon, <2>2 DEF HandedTypes
    <3>2. handed = [stored |-> handed.stored, codes |-> handed.codes]
      BY Zenon, <2>2 DEF HandedTypes
    <3>3. handed' = [stored |-> handed.stored, codes |-> [handed.codes EXCEPT ![clock] = @ + 1]]
      BY Zenon, <2>1, <3>1, <3>2
    <3>4. [handed.codes EXCEPT ![clock] = @ + 1] \in [Times -> Nat]
      BY <3>1
    <3> QED
      BY Zenon, <3>1, <3>3, <3>4
  <2>5. HandedTypes'
    BY Zenon, <1>1, <2>2, <2>3, <2>4 DEF HandedTypes
  <2>6. StoredOnce'
    BY Zenon, <1>1, <2>2, <2>3, <2>4 DEF FInv, StoredOnce, HandedTypes
  <2>7. handed.codes[clock] = 0
    BY <1>3, <2>2 DEF FInv, CodesOnce, HandedTypes, FlowState, Times
  <2>8. CodesOnce'
    BY SMTT(30), <2>2, <2>3, <2>4, <2>7, FlowAssumption
    DEF FInv, CodesOnce, HandedTypes, FlowState, Times
  <2> QED
    BY Zenon, <2>5, <2>6, <2>8 DEF FInv
<1> QED
  BY Zenon, <1>2, <1>3

\* second_factor hands over a generated code, or nothing.
LEMMA SecondFactorKeeps ==
    ASSUME FInv, NEW a, a.stored = FALSE \/ a.stored = auth.stored, SecondFactor(a), clock' = clock
    PROVE  FInv'
<1>1. CASE AskUser(a, FALSE) /\ UNCHANGED <<flow, handed>>
  BY Zenon, <1>1, QuietKeeps, GotoKeepsStored DEF AskUser, Quiet, FInv, HandedTypes, Times
<1>2. CASE Finish("closing") /\ UNCHANGED <<flow, handed>>
  BY Zenon, <1>2, QuietKeeps, GotoKeepsStored DEF Quiet, FInv, HandedTypes, Times
<1>3. CASE flow' = [flow EXCEPT !.warned = TRUE] /\ Goto(a, "warning") /\ handed' = handed
  <2>1. flow' \in FlowState /\ flow'.lastStep = flow.lastStep /\ flow'.offered = flow.offered
    BY Zenon, <1>3 DEF FInv, HandedTypes, FlowState
  <2> QED
    BY Zenon, <1>3, <2>1, QuietKeeps, GotoKeepsStored DEF Quiet, FInv, HandedTypes, Times
<1>4. CASE GenerateCode(a)
  BY Zenon, <1>4, GenerateKeeps
<1> QED
  BY Zenon, <1>1, <1>2, <1>3, <1>4 DEF SecondFactor

\* The keyring's password is offered where it has not been.
LEMMA UsernamePasswordKeeps ==
    ASSUME FInv, NEW a, a.stored = FALSE, UsernamePassword(a), clock' = clock
    PROVE  FInv'
<1>1. CASE /\ ~flow.offered /\ flow' = [flow EXCEPT !.offered = TRUE]
           /\ Goto(Auth("idle", a.question, a.asked, TRUE), "password") /\ handed' = handed
  <2>1. auth'.stored = TRUE
    BY <1>1, GotoKeepsStored DEF Auth
  <2>2. flow' \in FlowState /\ flow'.lastStep = flow.lastStep /\ flow'.offered = TRUE
    BY Zenon, <1>1 DEF FInv, HandedTypes, FlowState
  <2>3. HandedTypes'
    BY Zenon, <1>1, <2>1, <2>2 DEF FInv, HandedTypes
  <2>4. handed.stored = 0
    BY <1>1 DEF FInv, StoredOnce, HandedTypes
  <2>5. StoredOnce'
    BY Zenon, <1>1, <2>1, <2>2, <2>4 DEF StoredOnce
  <2>6. CodesOnce'
    BY Zenon, <1>1, <2>2 DEF FInv, CodesOnce
  <2> QED
    BY Zenon, <2>3, <2>5, <2>6 DEF FInv
<1>2. CASE Finish("closing") /\ UNCHANGED <<flow, handed>>
  BY Zenon, <1>2, QuietKeeps, GotoKeepsStored DEF Quiet, FInv, HandedTypes, Times
<1>3. CASE AskUser(a, TRUE) /\ UNCHANGED <<flow, handed>>
  BY Zenon, <1>3, QuietKeeps, GotoKeepsStored DEF AskUser, Quiet, FInv, HandedTypes, Times
<1> QED
  BY Zenon, <1>1, <1>2, <1>3 DEF UsernamePassword

\* A question starts with nothing in the answer.
LEMMA AskKeeps ==
    ASSUME FInv, NEW q, Ask(q)
    PROVE  FInv'
<1>0. PICK a : a = Auth("idle", q, auth.asked + 1, FALSE)
  OBVIOUS
<1>1. a.stored = FALSE /\ clock' = clock
  BY Zenon, <1>0 DEF Auth, Ask
<1>2. \/ UsernamePassword(a) \/ SecondFactor(a)
      \/ Finish("closing") /\ UNCHANGED <<flow, handed>>
  BY Zenon, <1>0 DEF Ask
<1>3. CASE Finish("closing") /\ UNCHANGED <<flow, handed>>
  BY Zenon, <1>1, <1>3, QuietKeeps, GotoKeepsStored DEF Quiet, FInv, HandedTypes, Times
<1> QED
  BY Zenon, <1>1, <1>2, <1>3, UsernamePasswordKeeps, SecondFactorKeeps

\* send_answer: what the answer held is with openvpn.
LEMMA AnswerKeeps ==
    ASSUME FInv, Answer
    PROVE  FInv'
<1>1. /\ handed' = [handed EXCEPT !.stored = @ + IF auth.stored THEN 1 ELSE 0]
      /\ flow' = flow /\ clock' = clock /\ auth'.stored = FALSE
  BY GotoKeepsStored DEF Answer, Auth
<1>2. HandedTypes
  BY Zenon DEF FInv
<1>3. /\ handed' \in [stored : Nat, codes : [Times -> Nat]] /\ handed'.codes = handed.codes
      /\ handed'.stored = handed.stored + IF auth.stored THEN 1 ELSE 0
  BY <1>1, <1>2 DEF HandedTypes
<1>4. HandedTypes'
  BY Zenon, <1>1, <1>2, <1>3 DEF HandedTypes
<1>5. StoredOnce'
  BY <1>1, <1>2, <1>3 DEF FInv, StoredOnce, HandedTypes
<1>6. CodesOnce'
  BY Zenon, <1>1, <1>3 DEF FInv, CodesOnce
<1> QED
  BY Zenon, <1>4, <1>5, <1>6 DEF FInv

\* A new flow has handed over nothing.
LEMMA FreshKeeps ==
    ASSUME clock \in Times, clock' = clock, flow' = NewFlow, handed' = NotHanded, auth'.stored = FALSE
    PROVE  FInv'
<1>1. /\ NewFlow \in FlowState /\ NewFlow.lastStep = -1 /\ NewFlow.offered = FALSE
      /\ NotHanded \in [stored : Nat, codes : [Times -> Nat]] /\ NotHanded.stored = 0
      /\ \A s \in Times : NotHanded.codes[s] = 0
  BY DEF NewFlow, FlowState, NotHanded, Times
<1>2. HandedTypes'
  BY Zenon, <1>1 DEF HandedTypes
<1>3. StoredOnce'
  BY Zenon, <1>1 DEF StoredOnce
<1>4. CodesOnce'
  BY <1>1, FlowAssumption DEF CodesOnce, Times
<1> QED
  BY <1>2, <1>3, <1>4 DEF FInv

\* Every other step of the attempt's task hands nothing over.
LEMMA FlowStepKeeps ==
    ASSUME FInv, FlowStep
    PROVE  FInv'
<1> USE QuietKeeps, GotoKeepsStored
<1>0. HandedTypes /\ clock \in Times
  BY Zenon DEF FInv, HandedTypes
<1>1. CASE UNCHANGED flowVars
  BY Zenon, <1>0, <1>1 DEF flowVars, Quiet, HandedTypes
<1>2. CASE AskReturns
  <2>1. flow' \in FlowState /\ flow'.lastStep = flow.lastStep /\ flow'.offered = flow.offered
    BY Zenon, <1>0, <1>2 DEF AskReturns, HandedTypes, FlowState
  <2>2. handed' = handed /\ clock' = clock /\ (auth'.stored = FALSE \/ auth'.stored = auth.stored)
    BY Zenon, <1>2 DEF AskReturns
  <2> QED
    BY <1>0, <2>1, <2>2 DEF Quiet
<1>3. CASE HavePassword
  <2>1. CASE SecondFactor(auth)
    <3>1. PICK a : a = auth
      OBVIOUS
    <3>2. SecondFactor(a) /\ a.stored = auth.stored /\ clock' = clock
      BY Zenon, <1>3, <2>1, <3>1 DEF HavePassword
    <3> QED
      BY Zenon, <3>2, SecondFactorKeeps
  <2>2. CASE Goto(auth, "answering") /\ UNCHANGED <<flow, handed>>
    BY Zenon, <1>0, <1>3, <2>2 DEF HavePassword, Quiet, HandedTypes
  <2> QED
    BY Zenon, <1>3, <2>1, <2>2 DEF HavePassword
<1>4. CASE Notify
  BY Zenon, <1>0, <1>4 DEF Notify, Quiet, HandedTypes
<1>5. CASE AfterNotice
  <2>1. CASE GenerateCode(auth)
    <3>1. PICK a : a = auth
      OBVIOUS
    <3>2. GenerateCode(a) /\ a.stored = auth.stored /\ clock' = clock
      BY Zenon, <1>5, <2>1, <3>1 DEF AfterNotice
    <3> QED
      BY Zenon, <3>2, GenerateKeeps
  <2>2. CASE AskUser(auth, FALSE) /\ UNCHANGED <<flow, handed>>
    BY Zenon, <1>0, <1>5, <2>2 DEF AfterNotice, AskUser, Quiet, HandedTypes
  <2> QED
    BY Zenon, <1>5, <2>1, <2>2 DEF AfterNotice
<1>6. CASE Answer
  BY Zenon, <1>6, AnswerKeeps
<1>7. CASE Withdraw
  <2>1. auth'.stored = FALSE
    BY <1>7 DEF Withdraw, Auth, Finish
  <2>2. UNCHANGED <<clock, flow, handed>>
    BY Zenon, <1>7 DEF Withdraw
  <2> QED
    BY Zenon, <1>0, <2>1, <2>2 DEF Quiet, HandedTypes
<1>8. CASE AnnounceWithdrawal
  BY Zenon, <1>0, <1>8 DEF AnnounceWithdrawal, Quiet, HandedTypes
<1> QED
  BY Zenon, <1>1, <1>2, <1>3, <1>4, <1>5, <1>6, <1>7, <1>8 DEF FlowStep

-----------------------------------------------------------------------------
(* The requests around it.                                                 *)

\* No request hands anything to openvpn; a new attempt and a restarted daemon
\* start with a flow that has not.
LEMMA FlowInvariance == Spec => []FInv
<1>1. Init => FInv
  <2> SUFFICES ASSUME Init PROVE FInv
    OBVIOUS
  <2>1. flow = NewFlow /\ handed = NotHanded /\ clock = 0 /\ auth.stored = FALSE
    BY Zenon, GotoKeepsStored DEF Init, FlowInit
  <2>2. /\ NewFlow \in FlowState /\ NewFlow.lastStep = -1 /\ NewFlow.offered = FALSE
        /\ NotHanded \in [stored : Nat, codes : [Times -> Nat]] /\ NotHanded.stored = 0
        /\ \A s \in Times : NotHanded.codes[s] = 0
    BY DEF NewFlow, FlowState, NotHanded, Times
  <2>3. HandedTypes
    <3>1. clock \in Times
      BY <2>1, FlowAssumption DEF Times
    <3>2. auth.stored \in BOOLEAN
      BY Zenon, <2>1
    <3> QED
      BY Zenon, <2>1, <2>2, <3>1, <3>2 DEF HandedTypes
  <2>4. StoredOnce
    BY Zenon, <2>1, <2>2 DEF StoredOnce
  <2>5. CodesOnce
    BY <2>1, <2>2, FlowAssumption DEF CodesOnce, Times
  <2> QED
    BY Zenon, <2>3, <2>4, <2>5 DEF FInv
<1>2. FInv /\ [Next]_vars => FInv'
  <2> SUFFICES ASSUME FInv, [Next]_vars PROVE FInv'
    OBVIOUS
  <2>0. HandedTypes /\ clock \in Times
    BY Zenon DEF FInv, HandedTypes
  <2>1. CASE UNCHANGED flowVars
    BY Zenon, <2>0, <2>1, QuietKeeps DEF flowVars, Quiet, HandedTypes
  <2>2. CASE UNCHANGED vars
    BY Zenon, <2>1, <2>2 DEF vars
  <2>3. CASE \E t \in Tasks : Arrive(t) \/ Handler(t)
    BY Zenon, <2>1, <2>3 DEF Arrive, Handler, CheckDelete, Connect, Disconnect, FinishDisconnect
  <2>4. CASE PromptReply \/ Read \/ Administer
    BY Zenon, <2>1, <2>4 DEF PromptReply, Read, Administer
  <2>5. CASE Establish
    <3>1. CASE BeginFlow
      BY Zenon, <2>0, <3>1, FreshKeeps, GotoKeepsStored DEF BeginFlow
    <3> QED
      BY Zenon, <2>1, <2>5, <3>1 DEF Establish
  <2>6. CASE Commit \/ Report
    BY Zenon, <2>0, <2>6, QuietKeeps, GotoKeepsStored DEF Commit, Report, Quiet, HandedTypes
  <2>7. CASE FlowStep
    BY Zenon, <2>7, FlowStepKeeps
  <2>8. CASE \E q \in plan.questions : Ask(q)
    BY Zenon, <2>8, AskKeeps
  <2>9. CASE Settles \/ Abandon
    BY Zenon, <2>0, <2>9, QuietKeeps, GotoKeepsStored DEF Settles, Abandon, Quiet, HandedTypes
  <2>10. CASE Tick
    <3>1. clock' = clock + 1 /\ clock' \in Times /\ UNCHANGED <<flow, auth, handed>>
      BY <2>0, <2>10, FlowAssumption DEF Tick, Times
    <3> QED
      BY Zenon, <2>0, <3>1, QuietKeeps DEF Quiet, HandedTypes
  <2>11. CASE Restart
    BY Zenon, <2>0, <2>11, FreshKeeps, GotoKeepsStored DEF Restart
  <2> QED
    BY Zenon, <2>2, <2>3, <2>4, <2>5, <2>6, <2>7, <2>8, <2>9, <2>10, <2>11 DEF Next, Attempt, Openvpn
<1> QED
  BY <1>1, <1>2, PTL DEF Spec

\* Whatever openvpn asks and however often, and wherever the user, the deadline
\* or a restart cuts in: one attempt hands over the stored password at most
\* once, and no generated code twice (username_password, ReplayGuard::admit).
THEOREM NothingIsResentAlways == Spec => []NothingIsResent
<1>1. FInv => NothingIsResent
  BY DEF FInv, HandedTypes, StoredOnce, CodesOnce, NothingIsResent
<1> QED
  BY <1>1, FlowInvariance, PTL

-----------------------------------------------------------------------------
(* ProfileStore.                                                           *)

\* What one step may do to the directory.
Kept == \A id \in DOMAIN files \cap DOMAIN files' : files'[id].by \in {0, files[id].by}

\* A file whose identifier is taken is left to its owner: created only where
\* there was none, written to only by the task that created it.
LEMMA StoreStepKeeps ==
    ASSUME NEW t, StoreStep(t)
    PROVE  Kept
<1>1. CASE UNCHANGED files
  BY Zenon, <1>1 DEF Kept
<1>2. CASE WritePrivate(t)
  <2>1. CASE ~Exists(tasks[t].id) /\ files' = Put(tasks[t].id, t, <<>>)
    BY Zenon, <2>1 DEF Kept, Put, Exists
  <2> QED
    BY Zenon, <1>1, <1>2, <2>1 DEF WritePrivate
<1>3. CASE WriteAll(t)
  <2>1. \/ files' = files
        \/ /\ files[tasks[t].id].by = t
           /\ \E text : files' = Put(tasks[t].id, t, text)
    BY Zenon, <1>3 DEF WriteAll
  <2>2. ASSUME NEW text, files' = Put(tasks[t].id, t, text), files[tasks[t].id].by = t
        PROVE  Kept
    BY Zenon, <2>2 DEF Kept, Put
  <2> QED
    BY Zenon, <1>1, <2>1, <2>2
<1>4. CASE Delete(t)
  <2>1. CASE files' = [i \in DOMAIN files \ {tasks[t].id} |-> files[i]]
    BY Zenon, <2>1 DEF Kept
  <2> QED
    BY Zenon, <1>1, <1>4, <2>1 DEF Delete
<1> QED
  BY Zenon, <1>1, <1>2, <1>3, <1>4 DEF StoreStep, ImportStart, AllocateId, Get, List

\* Two imports never share a file: whatever the order of their system calls,
\* what is under an identifier belongs to whoever created it or was edited from
\* outside (allocate_id, write_private's create_new).
THEOREM NoOverwriteAlways == Spec => NoOverwrite
<1>1. [Next]_vars => [Kept]_vars
  <2> SUFFICES ASSUME Next PROVE Kept
    BY Zenon DEF vars
  <2>1. CASE UNCHANGED files
    BY Zenon, <2>1 DEF Kept
  <2>2. CASE \E t \in Tasks : StoreStep(t)
    BY Zenon, <2>2, StoreStepKeeps
  <2>3. CASE Administer
    <3>1. PICK id, text : files' = [files EXCEPT ![id] = [by |-> 0, text |-> text]]
      BY Zenon, <2>3 DEF Administer, Edit
    <3> QED
      BY Zenon, <3>1 DEF Kept
  <2>4. CASE \E t \in Tasks : Arrive(t) \/ CheckDelete(t) \/ Connect(t) \/ Disconnect(t) \/ FinishDisconnect(t)
    BY Zenon, <2>1, <2>4 DEF Arrive, CheckDelete, Connect, Disconnect, FinishDisconnect
  <2>5. CASE Attempt \/ Openvpn
    BY Zenon, <2>1, <2>5 DEF Attempt, Openvpn, Establish, Commit, Report, rest, store
  <2>6. CASE PromptReply \/ Read \/ Restart
    BY Zenon, <2>1, <2>6 DEF PromptReply, Read, Restart, store
  <2> QED
    BY Zenon, <2>2, <2>3, <2>4, <2>5, <2>6 DEF Next, Handler
<1> QED
  BY <1>1, PTL DEF Spec, NoOverwrite, Kept

===============================================================================
