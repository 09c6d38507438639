----------------------------- MODULE PolicyProofs -----------------------------
(***************************************************************************)
(* Proofs about TunnelPolicy, for every plan Plan::new accepts, every list *)
(* of cleanup commands and every bound on copies, deletions and crashes;   *)
(* and about WatchedPolicy.  The watchdog's machinery changes when the     *)
(* policy is re-asserted and nothing else: WatchedPolicy implements        *)
(* TunnelPolicy, so that its theorems hold with the netlink socket, the    *)
(* trigger queue and the hold in place, whatever their capacities.  On a   *)
(* machine whose commands work, re-assertion never multiplies a rule, and  *)
(* no deletion is missed.  The last part is about GuiLink, whose variables *)
(* are its own.                                                            *)
(***************************************************************************)
EXTENDS WatchedPolicy, GuiLink, SequenceTheorems, TLAPS

-----------------------------------------------------------------------------
(* TunnelPolicy.                                                           *)

\* The type invariant, its Boolean variables apart from the rest: the provers
\* that handle one kind do not handle the other.
Flags == proof \in BOOLEAN /\ flag \in BOOLEAN /\ published \in BOOLEAN /\ fresh \in BOOLEAN

Positions ==
    /\ cnt \in [Steps -> Nat]
    /\ op \in {"reconcile", "idle", "cleanup", "install", "rollback", "store", "up",
               "leaving", "teardown"}
    /\ at \in 0..Len(Plan) /\ (op \in {"install", "rollback", "teardown"} => at > 0)
    /\ phase \in {"run", "check"}
    /\ todo \subseteq DOMAIN Cleanup /\ pass \in 0..MaxPasses
    /\ lock \in {"none", "session", "watchdog"}
    /\ wat \in 0..Len(Plan) /\ wphase \in {"probe", "apply", "check"}
    /\ outcome \in {"none", "reconciled", "reconcile_failed", "aborted", "refused",
                    "rollback_failed", "installed", "torn_down", "teardown_failed"}
    /\ tampered \subseteq Steps
    /\ deletions \in 0..MaxDeletions /\ crashes \in 0..MaxCrashes

Held(i) == cnt[i] > 0 \/ i \in tampered

\* What stands has everything below it, up to what others deleted.
Ordered == \A i, j \in Steps : (i < j /\ cnt[j] > 0) => Held(i)

\* Who is where: the watchdog works only under the mutex and only on a live
\* policy, the identity is published only on a live policy, and an error is
\* reported only by an operation that is over.
Control ==
    /\ published => op = "up"
    /\ proof => op \in {"up", "leaving"}
    /\ lock = "watchdog" => op \in {"up", "leaving"}
    /\ wat > 0 => lock = "watchdog"
    /\ outcome \notin {"none", "installed"} => op = "idle"

\* What the kernel holds at each point of each operation.
Kernel ==
    /\ op \in {"store", "up", "leaving"} => \A i \in Steps : Held(i)
    /\ op \in {"install", "rollback", "teardown"} => \A j \in Steps : j < at => Held(j)
    /\ op = "teardown" \/ (fresh /\ op \in {"install", "rollback"})
            => \A k \in Steps : k > at => cnt[k] = 0
    /\ fresh /\ op = "cleanup" => Clean
    /\ outcome = "teardown_failed" => Ordered
    /\ fresh /\ outcome = "rollback_failed" => Ordered
    /\ fresh /\ outcome = "refused" => Clean
    /\ outcome \in {"torn_down", "reconciled"} => Clean

IInv == Flags /\ Positions /\ Control /\ Kernel

-----------------------------------------------------------------------------
(* What the operators of the model return.                                 *)

\* The plan has at least one step, and its length is a number.
LEMMA PlanLength == Len(Plan) \in Nat /\ Len(Plan) > 0
  BY PlanAssumption

\* Running an add never removes a copy.
LEMMA AddGrows ==
  ASSUME cnt \in [Steps -> Nat], NEW i \in Steps, NEW n \in AfterAdd(i)
  PROVE  n \in Nat /\ n >= cnt[i]
  BY DEF AfterAdd, CopyLimit

\* Running a delete never adds a copy.
LEMMA DeleteShrinks ==
  ASSUME cnt \in [Steps -> Nat], NEW i \in Steps, NEW n \in AfterDelete(i)
  PROVE  n \in Nat /\ n <= cnt[i]
  BY DEF AfterDelete

\* A cleanup command never adds a copy, to any step.
LEMMA FlushShrinks ==
  ASSUME cnt \in [Steps -> Nat], NEW q
  PROVE  /\ Flushed(q) \in [Steps -> Nat]
         /\ \A i \in Steps : Flushed(q)[i] <= cnt[i]
  BY DEF Flushed

-----------------------------------------------------------------------------
(* Each action keeps the invariant.                                        *)

\* reconcile's decision at the head of each pass.
LEMMA ReconcileScanKeeps == IInv /\ ReconcileScan => IInv'
  <1> SUFFICES ASSUME IInv, ReconcileScan PROVE IInv'
    OBVIOUS
  <1> USE PlanLength DEF IInv, ReconcileScan, Steps, session, watchdog, bounds, Finish
  <1>a. Leftovers \subseteq DOMAIN Cleanup /\ (Leftovers = {} => Clean)
    BY CleanupAssumption DEF Leftovers, Clean, Positions
  <1>1. Flags'
    BY Zenon DEF Flags
  <1>2. Positions'
    BY <1>a, BoundAssumption DEF Positions
  <1>3. Control'
    BY Zenon, <1>a, BoundAssumption DEF Positions, Control
  <1>4. Kernel'
    BY Zenon, <1>a, BoundAssumption DEF Positions, Control, Kernel, Held, Ordered, Clean
  <1> QED BY Zenon, <1>1, <1>2, <1>3, <1>4

\* One cleanup command of the startup reconciliation.
LEMMA ReconcileFlushKeeps == IInv /\ ReconcileFlush => IInv'
  <1> SUFFICES ASSUME IInv, ReconcileFlush PROVE IInv'
    OBVIOUS
  <1> USE PlanLength DEF IInv, ReconcileFlush, Steps, session, watchdog, bounds, Finish
  <1>a. /\ cnt' \in [Steps -> Nat]
        /\ \A i \in Steps : cnt'[i] <= cnt[i]
    <2> PICK k \in todo : cnt' \in {Flushed(Cleanup[k])} \cup {cnt}
      OBVIOUS
    <2> QED BY FlushShrinks DEF Positions
  <1>1. Flags'
    BY Zenon DEF Flags
  <1>2. Positions'
    BY <1>a DEF Positions
  <1>3. Control'
    BY Zenon, <1>a DEF Positions, Control
  <1>4. Kernel'
    BY Zenon, <1>a DEF Positions, Control, Kernel, Held, Ordered, Clean
  <1> QED BY Zenon, <1>1, <1>2, <1>3, <1>4

\* One cleanup command of an install.
LEMMA CleanupFlushKeeps == IInv /\ CleanupFlush => IInv'
  <1> SUFFICES ASSUME IInv, CleanupFlush PROVE IInv'
    OBVIOUS
  <1> USE PlanLength DEF IInv, CleanupFlush, Steps, session, watchdog, bounds, Finish
  <1>a. /\ cnt' \in [Steps -> Nat]
        /\ \A i \in Steps : cnt'[i] <= cnt[i]
    <2> PICK k \in todo : cnt' \in {Flushed(Cleanup[k])} \cup {cnt}
      OBVIOUS
    <2> QED BY FlushShrinks DEF Positions
  <1>1. Flags'
    BY Zenon DEF Flags
  <1>2. Positions'
    BY <1>a DEF Positions
  <1>3. Control'
    BY Zenon, <1>a DEF Positions, Control
  <1>4. Kernel'
    BY SMTT(30), <1>a DEF Positions, Control, Kernel, Held, Ordered, Clean
  <1> QED BY Zenon, <1>1, <1>2, <1>3, <1>4

\* An install begins; whether it does so on a clean machine is noted.
LEMMA BeginInstallKeeps == IInv /\ BeginInstall => IInv'
  <1> SUFFICES ASSUME IInv, BeginInstall PROVE IInv'
    OBVIOUS
  <1> USE PlanLength DEF IInv, BeginInstall, Steps, session, watchdog, bounds
  <1>1. Flags'
    BY DEF Flags, Clean
  <1>2. Positions'
    BY DEF Positions
  <1>3. Control'
    BY DEF Positions, Control
  <1>4. Kernel'
    BY DEF Positions, Control, Kernel, Held, Ordered, Clean
  <1> QED BY <1>1, <1>2, <1>3, <1>4

\* The cleanup of an install is over.
LEMMA CleanupDoneKeeps == IInv /\ CleanupDone => IInv'
  <1> SUFFICES ASSUME IInv, CleanupDone PROVE IInv'
    OBVIOUS
  <1> USE PlanLength DEF IInv, CleanupDone, Steps, session, watchdog, bounds
  <1>1. Flags'
    BY DEF Flags
  <1>2. Positions'
    BY DEF Positions
  <1>3. Control'
    BY DEF Positions, Control
  <1>4. Kernel'
    BY DEF Positions, Control, Kernel, Held, Ordered, Clean
  <1> QED BY <1>1, <1>2, <1>3, <1>4

\* A step's command runs.
LEMMA InstallApplyKeeps == IInv /\ InstallApply => IInv'
  <1> SUFFICES ASSUME IInv, InstallApply PROVE IInv'
    OBVIOUS
  <1> USE PlanLength DEF IInv, InstallApply, Steps, session, watchdog, bounds, Rollback
  <1>a. PICK n \in AfterAdd(at) : /\ cnt' = [cnt EXCEPT ![at] = n]
                                /\ \/ phase' = "check" /\ UNCHANGED <<op, at>>
                                   \/ Rollback
    BY Zenon
  <1>b. at \in Steps /\ n \in Nat /\ n >= cnt[at]
    BY AddGrows DEF Positions
  <1>1. Flags'
    BY Zenon DEF Flags
  <1>2. Positions'
    BY Zenon, <1>a, <1>b DEF Positions
  <1>3. Control'
    BY Zenon, <1>a, <1>b DEF Positions, Control
  <1>4. Kernel'
    BY <1>a, <1>b DEF Positions, Control, Kernel, Held, Ordered, Clean
  <1> QED BY Zenon, <1>1, <1>2, <1>3, <1>4

\* A step is read back.
LEMMA InstallVerifyKeeps == IInv /\ InstallVerify => IInv'
  <1> SUFFICES ASSUME IInv, InstallVerify PROVE IInv'
    OBVIOUS
  <1> USE PlanLength DEF IInv, InstallVerify, Steps, session, watchdog, bounds
  <1>a. /\ at \in Steps
        /\ \/ op' = "rollback" /\ UNCHANGED <<at, flag, tampered>>
           \/ /\ cnt[at] > 0 /\ tampered' = tampered \ {at}
              /\ \/ at < Len(Plan) /\ at' = at + 1 /\ UNCHANGED <<op, flag>>
                 \/ at = Len(Plan) /\ op' = "store" /\ flag' = TRUE /\ UNCHANGED at
        /\ phase' = "run"
    BY DEF Positions, ConfirmsPresent, Rollback
  <1>b. tampered' \subseteq Steps
    BY Zenon, <1>a DEF Positions
  <1>1. Flags'
    BY Zenon DEF Flags
  <1>2. Positions'
    BY <1>a, <1>b DEF Positions
  <1>3. Control'
    BY Zenon, <1>a, <1>b DEF Positions, Control
  <1>4. Kernel'
    BY <1>a, <1>b DEF Positions, Control, Kernel, Held, Ordered, Clean
  <1> QED BY Zenon, <1>1, <1>2, <1>3, <1>4

\* The rollback removes a step.
LEMMA RollbackUndoKeeps == IInv /\ RollbackUndo => IInv'
  <1> SUFFICES ASSUME IInv, RollbackUndo PROVE IInv'
    OBVIOUS
  <1> USE PlanLength DEF IInv, RollbackUndo, Steps, session, watchdog, bounds, Finish
  <1>a. /\ at \in Steps
        /\ \/ /\ \E n \in Nat : n <= cnt[at] /\ cnt' = [cnt EXCEPT ![at] = n]
              /\ phase' = "check" /\ UNCHANGED <<op, at, outcome>>
           \/ Finish("rollback_failed") /\ UNCHANGED cnt
    BY DeleteShrinks DEF Positions
  <1>1. Flags'
    BY Zenon DEF Flags
  <1>2. Positions'
    BY <1>a DEF Positions
  <1>3. Control'
    BY Zenon, <1>a DEF Positions, Control
  <1>4. Kernel'
    BY SMTT(30), <1>a DEF Positions, Control, Kernel, Held, Ordered, Clean
  <1> QED BY Zenon, <1>1, <1>2, <1>3, <1>4

\* The rollback reads a removed step back.
LEMMA RollbackVerifyKeeps == IInv /\ RollbackVerify => IInv'
  <1> SUFFICES ASSUME IInv, RollbackVerify PROVE IInv'
    OBVIOUS
  <1> USE PlanLength DEF IInv, RollbackVerify, Steps, session, watchdog, bounds, Finish
  <1>a. /\ at \in Steps
        /\ \/ cnt[at] = 0 /\ at > 1 /\ at' = at - 1 /\ phase' = "run" /\ UNCHANGED <<op, outcome>>
           \/ cnt[at] = 0 /\ at = 1 /\ Finish("refused")
           \/ Finish("rollback_failed")
    BY DEF Positions, ConfirmsAbsent
  <1>1. Flags'
    BY Zenon DEF Flags
  <1>2. Positions'
    BY <1>a DEF Positions
  <1>3. Control'
    BY Zenon, <1>a DEF Positions, Control
  <1>4. Kernel'
    BY SMTT(30), <1>a DEF Positions, Control, Kernel, Held, Ordered, Clean
  <1> QED BY Zenon, <1>1, <1>2, <1>3, <1>4

\* The proof of installation is kept.
LEMMA StoreProofKeeps == IInv /\ StoreProof => IInv'
  <1> SUFFICES ASSUME IInv, StoreProof PROVE IInv'
    OBVIOUS
  <1> USE PlanLength DEF IInv, StoreProof, Steps, session, watchdog, bounds
  <1>1. Flags'
    BY Zenon DEF Flags
  <1>2. Positions'
    BY Zenon DEF Positions
  <1>3. Control'
    BY Zenon DEF Positions, Control
  <1>4. Kernel'
    BY Zenon DEF Positions, Control, Kernel, Held, Ordered, Clean
  <1> QED BY Zenon, <1>1, <1>2, <1>3, <1>4

\* The identity is published, or publication fails.
LEMMA PublishKeeps == IInv /\ Publish => IInv'
  <1> SUFFICES ASSUME IInv, Publish PROVE IInv'
    OBVIOUS
  <1> USE PlanLength DEF IInv, Publish, Steps, session, watchdog, bounds
  <1>1. Flags'
    BY Zenon DEF Flags
  <1>2. Positions'
    BY DEF Positions
  <1>3. Control'
    BY DEF Positions, Control
  <1>4. Kernel'
    BY Zenon DEF Positions, Control, Kernel, Held, Ordered, Clean
  <1> QED BY Zenon, <1>1, <1>2, <1>3, <1>4

\* The identity is revoked.
LEMMA RevokeKeeps == IInv /\ Revoke => IInv'
  <1> SUFFICES ASSUME IInv, Revoke PROVE IInv'
    OBVIOUS
  <1> USE PlanLength DEF IInv, Revoke, Steps, session, watchdog, bounds
  <1>1. Flags'
    BY Zenon DEF Flags
  <1>2. Positions'
    BY Zenon DEF Positions
  <1>3. Control'
    BY Zenon DEF Positions, Control
  <1>4. Kernel'
    BY Zenon DEF Positions, Control, Kernel, Held, Ordered, Clean
  <1> QED BY <1>1, <1>2, <1>3, <1>4

\* A teardown takes the mutex and the proof.
LEMMA TeardownBeginKeeps == IInv /\ TeardownBegin => IInv'
  <1> SUFFICES ASSUME IInv, TeardownBegin PROVE IInv'
    OBVIOUS
  <1> USE PlanLength DEF IInv, TeardownBegin, Steps, session, watchdog, bounds
  <1>1. Flags'
    BY Zenon DEF Flags
  <1>2. Positions'
    BY DEF Positions
  <1>3. Control'
    BY Zenon DEF Positions, Control
  <1>4. Kernel'
    BY DEF Positions, Control, Kernel, Held, Ordered, Clean
  <1> QED BY <1>1, <1>2, <1>3, <1>4

\* The teardown removes a step.
LEMMA TeardownUndoKeeps == IInv /\ TeardownUndo => IInv'
  <1> SUFFICES ASSUME IInv, TeardownUndo PROVE IInv'
    OBVIOUS
  <1> USE PlanLength DEF IInv, TeardownUndo, Steps, session, watchdog, bounds, Finish
  <1>a. /\ at \in Steps
        /\ \/ /\ \E n \in Nat : n <= cnt[at] /\ cnt' = [cnt EXCEPT ![at] = n]
              /\ phase' = "check" /\ UNCHANGED <<op, at, outcome, lock>>
           \/ Finish("teardown_failed") /\ lock' = "none" /\ UNCHANGED cnt
    BY DeleteShrinks DEF Positions
  <1>1. Flags'
    BY Zenon DEF Flags
  <1>2. Positions'
    BY <1>a DEF Positions
  <1>3. Control'
    BY Zenon, <1>a DEF Positions, Control
  <1>4. Kernel'
    BY SMTT(30), <1>a DEF Positions, Control, Kernel, Held, Ordered, Clean
  <1> QED BY Zenon, <1>1, <1>2, <1>3, <1>4

\* The teardown reads a removed step back.
LEMMA TeardownVerifyKeeps == IInv /\ TeardownVerify => IInv'
  <1> SUFFICES ASSUME IInv, TeardownVerify PROVE IInv'
    OBVIOUS
  <1> USE PlanLength DEF IInv, TeardownVerify, Steps, session, watchdog, bounds, Finish
  <1>a. /\ at \in Steps
        /\ \/ /\ cnt[at] = 0 /\ at > 1 /\ at' = at - 1 /\ phase' = "run"
              /\ UNCHANGED <<op, outcome, lock, flag>>
           \/ cnt[at] = 0 /\ at = 1 /\ Finish("torn_down") /\ lock' = "none" /\ flag' = FALSE
           \/ Finish("teardown_failed") /\ lock' = "none" /\ UNCHANGED flag
    BY DEF Positions, ConfirmsAbsent
  <1>1. Flags'
    BY Zenon DEF Flags
  <1>2. Positions'
    BY <1>a DEF Positions
  <1>3. Control'
    BY Zenon, <1>a DEF Positions, Control
  <1>4. Kernel'
    BY SMTT(30), <1>a DEF Positions, Control, Kernel, Held, Ordered, Clean
  <1> QED BY Zenon, <1>1, <1>2, <1>3, <1>4

\* The watchdog starts a sweep.
LEMMA WakeKeeps == IInv /\ Wake => IInv'
  <1> SUFFICES ASSUME IInv, Wake PROVE IInv'
    OBVIOUS
  <1> USE PlanLength DEF IInv, Wake, Steps, session, watchdog, bounds
  <1>1. Flags'
    BY Zenon DEF Flags
  <1>2. Positions'
    BY DEF Positions
  <1>3. Control'
    BY Zenon DEF Positions, Control
  <1>4. Kernel'
    BY Zenon DEF Positions, Control, Kernel, Held, Ordered, Clean
  <1> QED BY Zenon, <1>1, <1>2, <1>3, <1>4

\* The watchdog looks for a step.
LEMMA ReassertProbeKeeps == IInv /\ ReassertProbe => IInv'
  <1> SUFFICES ASSUME IInv, ReassertProbe PROVE IInv'
    OBVIOUS
  <1> USE PlanLength DEF IInv, ReassertProbe, Steps, session, watchdog, bounds, Advance
  <1>a. /\ wat \in Steps
        /\ \/ cnt[wat] > 0 /\ Advance /\ tampered' = tampered \ {wat}
           \/ wphase' = "apply" /\ UNCHANGED <<wat, lock, tampered>>
    BY DEF Positions, ConfirmsPresent
  <1>b. tampered' \subseteq Steps
    BY Zenon, <1>a DEF Positions
  <1>1. Flags'
    BY Zenon DEF Flags
  <1>2. Positions'
    BY <1>a, <1>b DEF Positions
  <1>3. Control'
    BY <1>a, <1>b DEF Positions, Control
  <1>4. Kernel'
    BY Zenon, <1>a, <1>b DEF Positions, Control, Kernel, Held, Ordered, Clean
  <1> QED BY Zenon, <1>1, <1>2, <1>3, <1>4

\* The watchdog re-adds a step.
LEMMA ReassertApplyKeeps == IInv /\ ReassertApply => IInv'
  <1> SUFFICES ASSUME IInv, ReassertApply PROVE IInv'
    OBVIOUS
  <1> USE PlanLength DEF IInv, ReassertApply, Steps, session, watchdog, bounds, Advance
  <1>a. PICK n \in AfterAdd(wat) : /\ cnt' = [cnt EXCEPT ![wat] = n]
                                 /\ \/ wphase' = "check" /\ UNCHANGED <<wat, lock>>
                                    \/ Advance
    BY Zenon
  <1>b. wat \in Steps /\ n \in Nat /\ n >= cnt[wat]
    BY AddGrows DEF Positions
  <1>1. Flags'
    BY Zenon DEF Flags
  <1>2. Positions'
    BY <1>a, <1>b DEF Positions
  <1>3. Control'
    BY <1>a, <1>b DEF Positions, Control
  <1>4. Kernel'
    BY <1>a, <1>b DEF Positions, Control, Kernel, Held, Ordered, Clean
  <1> QED BY Zenon, <1>1, <1>2, <1>3, <1>4

\* The watchdog reads back what it re-added.
LEMMA ReassertVerifyKeeps == IInv /\ ReassertVerify => IInv'
  <1> SUFFICES ASSUME IInv, ReassertVerify PROVE IInv'
    OBVIOUS
  <1> USE PlanLength DEF IInv, ReassertVerify, Steps, session, watchdog, bounds, Advance
  <1>a. /\ wat \in Steps /\ Advance
        /\ \/ tampered' = tampered
           \/ cnt[wat] > 0 /\ tampered' = tampered \ {wat}
    BY DEF Positions, ConfirmsPresent
  <1>b. tampered' \subseteq Steps
    BY Zenon, <1>a DEF Positions
  <1>1. Flags'
    BY Zenon DEF Flags
  <1>2. Positions'
    BY <1>a, <1>b DEF Positions
  <1>3. Control'
    BY <1>a, <1>b DEF Positions, Control
  <1>4. Kernel'
    BY Zenon, <1>a, <1>b DEF Positions, Control, Kernel, Held, Ordered, Clean
  <1> QED BY Zenon, <1>1, <1>2, <1>3, <1>4

\* Another program deletes a step.
LEMMA DeletedByOthersKeeps == IInv /\ DeletedByOthers => IInv'
  <1> SUFFICES ASSUME IInv, DeletedByOthers PROVE IInv'
    OBVIOUS
  <1> USE PlanLength DEF IInv, DeletedByOthers, Steps, session, watchdog, bounds
  <1>a. PICK i \in Steps : /\ cnt[i] > 0 /\ cnt' = [cnt EXCEPT ![i] = cnt[i] - 1]
                         /\ tampered' = tampered \cup {i}
    BY Zenon
  <1>1. Flags'
    BY Zenon DEF Flags
  <1>2. Positions'
    BY <1>a, BoundAssumption DEF Positions
  <1>3. Control'
    BY Zenon, <1>a, BoundAssumption DEF Positions, Control
  <1>4. Kernel'
    BY <1>a, BoundAssumption DEF Positions, Control, Kernel, Held, Ordered, Clean
  <1> QED BY Zenon, <1>1, <1>2, <1>3, <1>4

\* The daemon dies and starts again.
LEMMA CrashKeeps == IInv /\ Crash => IInv'
  <1> SUFFICES ASSUME IInv, Crash PROVE IInv'
    OBVIOUS
  <1> USE PlanLength DEF IInv, Crash, Steps, session, watchdog, bounds
  <1>1. Flags'
    BY Zenon DEF Flags
  <1>2. Positions'
    BY BoundAssumption DEF Positions
  <1>3. Control'
    BY BoundAssumption DEF Positions, Control
  <1>4. Kernel'
    BY Zenon, BoundAssumption DEF Positions, Control, Kernel, Held, Ordered, Clean
  <1> QED BY <1>1, <1>2, <1>3, <1>4

-----------------------------------------------------------------------------
(* The theorems.                                                           *)

\* The inductive invariant holds of every behaviour of the policy component.
THEOREM Invariance == Spec => []IInv
  <1>1. Init => IInv
    <2>1. Init => Flags
      BY ZenonT(30) DEF Init, Flags
    <2>2. Init => Positions
      BY PlanLength, BoundAssumption DEF Init, Positions, Steps
    <2>3. Init => Control /\ Kernel
      BY DEF Init, Control, Kernel
    <2> QED BY <2>1, <2>2, <2>3 DEF IInv
  <1>2. IInv /\ [Next]_vars => IInv'
    <2> SUFFICES ASSUME IInv, [Next]_vars PROVE IInv'
      OBVIOUS
    <2>1. CASE ReconcileScan
      BY Zenon, <2>1, ReconcileScanKeeps
    <2>2. CASE ReconcileFlush
      BY Zenon, <2>2, ReconcileFlushKeeps
    <2>3. CASE BeginInstall
      BY Zenon, <2>3, BeginInstallKeeps
    <2>4. CASE CleanupFlush
      BY Zenon, <2>4, CleanupFlushKeeps
    <2>5. CASE CleanupDone
      BY Zenon, <2>5, CleanupDoneKeeps
    <2>6. CASE InstallApply
      BY <2>6, InstallApplyKeeps
    <2>7. CASE InstallVerify
      BY SMTT(30), <2>7, InstallVerifyKeeps
    <2>8. CASE RollbackUndo
      BY <2>8, RollbackUndoKeeps
    <2>9. CASE RollbackVerify
      BY <2>9, RollbackVerifyKeeps
    <2>10. CASE StoreProof
      BY <2>10, StoreProofKeeps
    <2>11. CASE Publish
      BY <2>11, PublishKeeps
    <2>12. CASE Revoke
      BY <2>12, RevokeKeeps
    <2>13. CASE TeardownBegin
      BY <2>13, TeardownBeginKeeps
    <2>14. CASE TeardownUndo
      BY <2>14, TeardownUndoKeeps
    <2>15. CASE TeardownVerify
      BY <2>15, TeardownVerifyKeeps
    <2>16. CASE Wake
      BY <2>16, WakeKeeps
    <2>17. CASE ReassertProbe
      BY <2>17, ReassertProbeKeeps
    <2>18. CASE ReassertApply
      BY <2>18, ReassertApplyKeeps
    <2>19. CASE ReassertVerify
      BY Zenon, <2>19, ReassertVerifyKeeps
    <2>20. CASE DeletedByOthers
      BY Zenon, <2>20, DeletedByOthersKeeps
    <2>21. CASE Crash
      BY Zenon, <2>21, CrashKeeps
    <2>22. CASE UNCHANGED vars
      BY <2>22 DEF vars, session, watchdog, bounds, IInv, Flags, Positions, Control, Kernel, Held,
                 Ordered, Clean
    <2> QED BY Zenon, <2>1, <2>2, <2>3, <2>4, <2>5, <2>6, <2>7, <2>8, <2>9, <2>10, <2>11, <2>12,
               <2>13, <2>14, <2>15, <2>16, <2>17, <2>18, <2>19, <2>20, <2>21, <2>22
            DEF Next, Session, Watchdog
  <1> QED BY <1>1, <1>2, PTL DEF Spec

\* Type correctness of the policy component (policy/plan.rs, session/tunnel.rs).
THEOREM TypeCorrectness == Spec => []TypeOK
  <1>1. IInv => TypeOK
    BY Zenon DEF IInv, Flags, Positions, TypeOK
  <1> QED BY <1>1, Invariance, PTL

\* A step of a live policy is missing only when another program deleted it.
THEOREM MissingOnlyIfTamperedAlways == Spec => []MissingOnlyIfTampered
  <1>1. IInv => MissingOnlyIfTampered
    BY Zenon DEF IInv, Control, Kernel, Held, MissingOnlyIfTampered
  <1> QED BY <1>1, Invariance, PTL

\* One deletion by another program never opens a published tunnel.
THEOREM FailClosedAlways == Spec => []FailClosed
  <1>1. IInv => FailClosed
    <2> SUFFICES ASSUME IInv, published, NEW f \in Families, FullyLayered(f), Leaks(f)
                 PROVE  \E i, j \in tampered : /\ i # j
                                               /\ Plan[i].family = f /\ Plan[j].family = f
      BY Zenon DEF FailClosed
    <2>1. \A i \in Steps : cnt[i] > 0 \/ i \in tampered
      BY Zenon DEF IInv, Control, Kernel, Held
    <2>2. PICK b \in Layer(f, "Backstop") : b \in tampered
      BY Zenon, <2>1 DEF FullyLayered, Leaks, Standing, Layer, Kinds
    <2>3. \/ \E r \in Layer(f, "Rule") : r \in tampered
          \/ \E r \in Layer(f, "Floor") : r \in tampered
      BY Zenon, <2>1 DEF FullyLayered, Leaks, Standing, Layer, Kinds
    <2> QED BY Zenon, <2>2, <2>3 DEF Layer
  <1> QED BY <1>1, Invariance, PTL

\* Whatever stands has the layers below it, also after a teardown that gave up.
THEOREM LowerLayersOutlastAlways == Spec => []LowerLayersOutlast
  <1>1. IInv => LowerLayersOutlast
    BY PlanLength DEF IInv, Positions, Control, Kernel, Held, Ordered, LowerLayersOutlast, Steps
  <1> QED BY <1>1, Invariance, PTL

\* An install error other than RollbackFailed, on a machine that was clean,
\* leaves it clean.
THEOREM RefusedMeansCleanAlways == Spec => []RefusedMeansClean
  <1>1. IInv => RefusedMeansClean
    BY Zenon DEF IInv, Kernel, RefusedMeansClean
  <1> QED BY <1>1, Invariance, PTL

\* A teardown or a reconciliation that returns Ok leaves the machine clean.
THEOREM SuccessMeansCleanAlways == Spec => []SuccessMeansClean
  <1>1. IInv => SuccessMeansClean
    BY Zenon DEF IInv, Kernel, SuccessMeansClean
  <1> QED BY <1>1, Invariance, PTL

\* Re-assertion never works against a teardown.
THEOREM NothingComesBackAlways == Spec => NothingComesBack
  <1>1. IInv /\ [Next]_vars
          => [(op \in {"teardown", "idle", "reconcile"})
                => (\A i \in Steps : cnt'[i] <= cnt[i])]_vars
    <2> SUFFICES ASSUME IInv, Next, op \in {"teardown", "idle", "reconcile"},
                        NEW i \in Steps
                 PROVE  cnt'[i] <= cnt[i]
      OBVIOUS
    <2>1. cnt \in [Steps -> Nat] /\ (at \in Steps \/ op # "teardown")
      BY PlanLength DEF IInv, Positions, Steps
    <2>2. wat = 0
      BY PlanLength DEF IInv, Positions, Control
    <2>3. CASE ReconcileFlush
      BY <2>1, <2>3, FlushShrinks DEF ReconcileFlush
    <2>4. CASE TeardownUndo
      BY <2>1, <2>4, DeleteShrinks DEF TeardownUndo
    <2>5. CASE DeletedByOthers
      BY <2>1, <2>5 DEF DeletedByOthers
    <2>6. CASE Watchdog
      BY SMTT(30), <2>1, <2>2, <2>6 DEF Watchdog, Wake, ReassertProbe, ReassertApply, ReassertVerify
    <2>7. CASE \/ ReconcileScan \/ BeginInstall \/ CleanupDone \/ InstallVerify
               \/ RollbackVerify \/ StoreProof \/ Publish \/ Revoke \/ TeardownBegin
               \/ TeardownVerify \/ Crash
      <3>1. cnt' = cnt
        BY Zenon, <2>7 DEF ReconcileScan, BeginInstall, CleanupDone, InstallVerify,
           RollbackVerify, StoreProof, Publish, Revoke, TeardownBegin, TeardownVerify, Crash
      <3> QED BY <2>1, <3>1
    <2>8. CASE CleanupFlush \/ InstallApply \/ RollbackUndo
      BY Zenon, <2>8 DEF CleanupFlush, InstallApply, RollbackUndo
    <2> QED BY Zenon, <2>3, <2>4, <2>5, <2>6, <2>7, <2>8 DEF Next, Session
  <1> QED BY <1>1, Invariance, PTL DEF Spec, NothingComesBack

-----------------------------------------------------------------------------
(* Checking before touching.                                               *)

\* Why no step stands twice: the watchdog adds only what it has seen missing
\* and nobody else adds meanwhile; an install's cleanup still has a command
\* for whatever stands, and the part of the plan it has not come to is empty.
Single ==
    /\ \A i \in Steps : cnt[i] <= 1
    /\ wat > 0 /\ wphase = "apply" => cnt[wat] = 0
    /\ op = "cleanup" => \A i \in Steps : cnt[i] > 0 => \E k \in todo : i \in Hit(Cleanup[k])
    /\ op = "install" =>
         \A i \in Steps : (i > at \/ (i = at /\ phase = "run")) => cnt[i] = 0

\* A cleanup command that works leaves nothing of what it is about.
LEMMA FlushEmpties ==
  ASSUME cnt \in [Steps -> Nat], NEW q, NEW i \in Steps, cnt[i] <= 1
  PROVE  Flushed(q)[i] <= cnt[i] /\ (i \in Hit(q) => Flushed(q)[i] = 0)
  BY DEF Flushed

\* An add that works puts one copy where there was none.
LEMMA AddWorks ==
  ASSUME ~Faults, NEW i \in Steps, cnt[i] = 0, NEW n \in AfterAdd(i)
  PROVE  n = 1
  <1>1. 0 < CopyLimit(i)
    BY BoundAssumption DEF CopyLimit
  <1> QED BY <1>1 DEF AfterAdd

\* A step of the policy component keeps every step single.
LEMMA SingleKeeps == ~Faults /\ IInv /\ Single /\ Next => Single'
  <1> SUFFICES ASSUME ~Faults, IInv, Single, Next PROVE Single'
    OBVIOUS
  <1>a. cnt \in [Steps -> Nat] /\ at \in 0..Len(Plan) /\ wat \in 0..Len(Plan)
    BY Zenon DEF IInv, Positions
  <1>b. wat > 0 => op \in {"up", "leaving"}
    BY Zenon, <1>a DEF IInv, Control
  <1>c. Len(Plan) \in Nat
    BY Zenon, PlanLength
  <1>d. op \in {"install", "rollback", "teardown"} => at \in Steps
    BY <1>a, <1>c DEF IInv, Positions, Steps
  <1>e. wat > 0 => wat \in Steps
    BY <1>a, <1>c DEF Steps
  <1> USE <1>a, <1>b, <1>c DEF Single, session, watchdog, bounds
  <1>1. CASE ReconcileScan
    BY Zenon, <1>1 DEF ReconcileScan, Finish
  <1>2. CASE ReconcileFlush
    <2>1. cnt' \in [Steps -> Nat] /\ \A i \in Steps : cnt'[i] <= cnt[i]
      BY <1>2, FlushShrinks DEF ReconcileFlush
    <2>2. op' \in {"reconcile", "idle"} /\ wat' = wat
      BY Zenon, <1>2 DEF ReconcileFlush, Finish
    <2> QED BY <2>1, <2>2, <1>2 DEF ReconcileFlush
  <1>3. CASE BeginInstall
    BY Zenon, <1>3, CleanupAssumption DEF BeginInstall
  <1>4. CASE CleanupFlush
    <2>1. PICK k \in todo : cnt' = Flushed(Cleanup[k]) /\ todo' = todo \ {k} /\ op' = op
      BY Zenon, <1>4 DEF CleanupFlush, MaySpawnFail
    <2>2. \A i \in Steps : cnt'[i] <= cnt[i] /\ (i \in Hit(Cleanup[k]) => cnt'[i] = 0)
      BY Zenon, <2>1, FlushEmpties
    <2>3. cnt' \in [Steps -> Nat]
      BY Zenon, <2>1, FlushShrinks
    <2>4. wat' = wat /\ op = "cleanup"
      BY Zenon, <1>4 DEF CleanupFlush
    <2> QED BY <2>1, <2>2, <2>3, <2>4
  <1>5. CASE CleanupDone
    BY <1>5 DEF CleanupDone
  <1>6. CASE InstallApply
    <2>1. cnt' = [cnt EXCEPT ![at] = 1]
      <3>1. op = "install" /\ phase = "run" /\ at \in Steps /\ cnt[at] = 0
        BY Zenon, <1>6, <1>d DEF InstallApply
      <3>2. PICK n \in AfterAdd(at) : cnt' = [cnt EXCEPT ![at] = n]
        BY Zenon, <1>6 DEF InstallApply
      <3> QED BY Zenon, <3>1, <3>2, AddWorks
    <2>2. op' = "rollback" \/ (op' = op /\ at' = at /\ phase' = "check")
      BY Zenon, <1>6 DEF InstallApply, Rollback
    <2> QED BY <1>6, <1>d, <2>1, <2>2 DEF InstallApply
  <1>7. CASE InstallVerify
    BY <1>7, <1>d DEF InstallVerify, Rollback, Steps
  <1>8. CASE RollbackUndo \/ TeardownUndo
    <2>1. cnt' \in [Steps -> Nat] /\ \A i \in Steps : cnt'[i] <= cnt[i]
      BY <1>8, <1>d, DeleteShrinks DEF RollbackUndo, TeardownUndo
    <2>2. op' \in {"rollback", "teardown", "idle"} /\ wat' = wat
      BY Zenon, <1>8 DEF RollbackUndo, TeardownUndo, Finish
    <2> QED BY <2>1, <2>2, <1>8 DEF RollbackUndo, TeardownUndo
  <1>9. CASE RollbackVerify \/ TeardownVerify
    BY Zenon, <1>9 DEF RollbackVerify, TeardownVerify, Finish
  <1>10. CASE StoreProof \/ Publish \/ Revoke \/ TeardownBegin
    BY Zenon, <1>10 DEF StoreProof, Publish, Revoke, TeardownBegin
  <1>11. CASE Wake
    BY Zenon, <1>11 DEF Wake
  <1>12. CASE ReassertProbe
    BY <1>12, <1>e DEF ReassertProbe, Advance, ConfirmsPresent, MayRefute
  <1>13. CASE ReassertApply
    <2>1. cnt' = [cnt EXCEPT ![wat] = 1] /\ op' = op /\ op \in {"up", "leaving"}
      <3>1. wat > 0 /\ wat \in Steps /\ cnt[wat] = 0 /\ op' = op
        BY Zenon, <1>13, <1>e DEF ReassertApply
      <3>2. PICK n \in AfterAdd(wat) : cnt' = [cnt EXCEPT ![wat] = n]
        BY Zenon, <1>13 DEF ReassertApply
      <3> QED BY Zenon, <3>1, <3>2, AddWorks
    <2>2. wphase' # "apply"
      BY Zenon, <1>13 DEF ReassertApply, Advance
    <2> QED BY <2>1, <2>2, <1>e
  <1>14. CASE ReassertVerify
    BY Zenon, <1>14 DEF ReassertVerify, Advance
  <1>15. CASE DeletedByOthers
    <2>1. cnt' \in [Steps -> Nat] /\ \A i \in Steps : cnt'[i] <= cnt[i]
      BY <1>15 DEF DeletedByOthers
    <2> QED BY <2>1, <1>15, <1>e DEF DeletedByOthers
  <1>16. CASE Crash
    BY Zenon, <1>16 DEF Crash
  <1> QED
    BY Zenon, <1>1, <1>2, <1>3, <1>4, <1>5, <1>6, <1>7, <1>8, <1>9, <1>10, <1>11, <1>12, <1>13,
       <1>14, <1>15, <1>16 DEF Next, Session, Watchdog

\* On a machine whose commands work no rule or route is ever there twice,
\* however walks, sessions, crashes and deletions follow each other.
THEOREM NoDuplicatesAlways == Spec => []NoDuplicates
  <1>1. Init => (~Faults => Single)
    BY PlanLength DEF Init, Single, Steps
  <1>2. (~Faults => Single) /\ IInv /\ [Next]_vars => (~Faults => Single)'
    <2>1. (~Faults => Single) /\ UNCHANGED vars => (~Faults => Single)'
      BY Zenon DEF Single, vars, session, watchdog, bounds
    <2> QED BY Zenon, <2>1, SingleKeeps
  <1>3. (~Faults => Single) => NoDuplicates
    BY Zenon DEF Single, NoDuplicates
  <1> QED BY <1>1, <1>2, <1>3, Invariance, PTL DEF Spec

-----------------------------------------------------------------------------
(* The machinery around the watchdog.                                      *)

\* Every step of the watched policy is a step of the policy or leaves it alone.
LEMMA WatchStep == [WatchNext]_watched => [Next]_vars
  <1> SUFFICES ASSUME [WatchNext]_watched PROVE Next \/ UNCHANGED vars
    OBVIOUS
  <1>1. CASE SessionStep \/ BeginReassert \/ Reassert \/ Tamper \/ Restart
    BY Zenon, <1>1 DEF SessionStep, BeginReassert, Reassert, Tamper, Restart, Next, Watchdog
  <1>2. CASE Reader \/ OpenWatch \/ TakeTrigger \/ Sweep
    BY Zenon, <1>2 DEF Reader, Read, Send, OpenWatch, TakeTrigger, Sweep
  <1>3. CASE NothingToReassert \/ Hold \/ Stop \/ Chatter \/ BeginShutdown
    BY Zenon, <1>3 DEF NothingToReassert, Hold, Stop, Chatter, BeginShutdown
  <1>4. CASE UNCHANGED watched
    BY Zenon, <1>4 DEF watched
  <1> QED BY Zenon, <1>1, <1>2, <1>3, <1>4 DEF WatchNext, Driver

\* WatchedPolicy implements TunnelPolicy (session/watchdog.rs only decides
\* when `reassert` is called).
THEOREM WatchImplementsPolicy == WatchSpec => Spec
  <1>1. WatchInit => Init
    BY DEF WatchInit
  <1> QED BY <1>1, WatchStep, PTL DEF WatchSpec, Spec

\* With the netlink reader, the queue and the hold in place: a step is missing
\* from a live policy only if another program deleted it, one deletion never
\* opens a published tunnel, and re-assertion multiplies nothing.
THEOREM WatchedPolicyIsSafe ==
  WatchSpec => [](MissingOnlyIfTampered /\ FailClosed /\ NoDuplicates)
  BY WatchImplementsPolicy, MissingOnlyIfTamperedAlways, FailClosedAlways,
     NoDuplicatesAlways, PTL

-----------------------------------------------------------------------------
(* No deletion is missed.                                                  *)

\* Steps an install under way, or done, has put in place.
Laid(i) ==
    \/ op \in {"store", "up"}
    \/ op = "install" /\ (i < at \/ (i = at /\ phase = "check"))

\* Something outside the policy will wake the watchdog.
Heard ==
    \/ overrun \/ setup.socket = "broken" \/ hand # "none" \/ triggers # <<>>
    \/ \E k \in DOMAIN socket : MentionsDeletion(socket[k])

\* A walk under way, or about to begin, has yet to probe step i.
Ahead(i) == driver = "woken" /\ (wat = 0 \/ wat < i \/ (wat = i /\ wphase # "check"))

\* A step that was put in place and is missing is on its way to the watchdog,
\* from when the install has come past it.
WInv ==
    /\ driver = "off" => op \in {"reconcile", "idle"}
    /\ wat > 0 => driver = "woken"
    /\ \A i \in Missing \ excused : Laid(i) /\ driver # "stopped" => Heard \/ Ahead(i)

-----------------------------------------------------------------------------
(* The socket.                                                             *)

\* What a step announces is a set of messages.
LEMMA AnnouncedIs ==
  {Announced(i) : i \in {j \in Steps : cnt'[j] # cnt[j]}} \in SUBSET Message
  BY DEF Announced, GroupOf, Message, Groups

\* A datagram is queued or its loss is noted; nothing queued is forgotten.
LEMMA DatagramKeeps ==
  ASSUME WatchTypeOK, NEW datagram \in SUBSET Message, DeliverDatagram(datagram)
  PROVE  /\ socket' \in Seq(SUBSET Message) /\ Len(socket') <= SocketRoom
         /\ overrun' \in BOOLEAN /\ (overrun => overrun')
         /\ (\E k \in DOMAIN socket : MentionsDeletion(socket[k]))
              => \E k \in DOMAIN socket' : MentionsDeletion(socket'[k])
  <1> DEFINE seen == {message \in datagram : message.group \in Joined}
             fits == Len(socket) < SocketRoom
  <1>0. socket \in Seq(SUBSET Message) /\ Len(socket) <= SocketRoom /\ overrun \in BOOLEAN
    BY Zenon DEF WatchTypeOK
  <1>1. CASE socket' = socket /\ overrun' = overrun
    BY Zenon, <1>0, <1>1
  <1>2. CASE /\ socket' = IF fits THEN Append(socket, seen) ELSE socket
             /\ overrun' = (overrun \/ ~fits)
    <2>1. overrun' \in BOOLEAN /\ (overrun => overrun')
      BY Zenon, <1>0, <1>2
    <2>2. CASE fits
      <3>1. socket' = Append(socket, seen) /\ seen \in SUBSET Message
        BY Zenon, <1>2, <2>2
      <3> HIDE DEF seen
      <3>2. /\ socket' \in Seq(SUBSET Message) /\ Len(socket') = Len(socket) + 1
            /\ \A k \in DOMAIN socket : k \in DOMAIN socket' /\ socket'[k] = socket[k]
        BY <1>0, <3>1
      <3>3. Len(socket') <= SocketRoom
        BY <1>0, <2>2, <3>2, RoomAssumption
      <3> QED BY Zenon, <2>1, <3>2, <3>3
    <2>3. CASE ~fits
      BY Zenon, <1>0, <1>2, <2>1, <2>3
    <2> QED BY Zenon, <2>2, <2>3
  <1> QED BY Zenon, <1>1, <1>2 DEF DeliverDatagram, wire

\* While the watch is open, a deletion it has joined the group of is queued or
\* noted as lost.
LEMMA DeliverTells ==
  ASSUME WatchTypeOK, NEW datagram \in SUBSET Message, DeliverDatagram(datagram),
         driver \notin {"off", "stopped"}, setup.socket # "broken", MentionsDeletion(datagram)
  PROVE  overrun' \/ \E k \in DOMAIN socket' : MentionsDeletion(socket'[k])
  <1> DEFINE seen == {message \in datagram : message.group \in Joined}
             fits == Len(socket) < SocketRoom
  <1>0. socket \in Seq(SUBSET Message) /\ overrun \in BOOLEAN
    BY Zenon DEF WatchTypeOK
  <1>1. seen \in SUBSET Message /\ seen = datagram
    BY Zenon DEF Joined, Message
  <1>2. MentionsDeletion(seen) /\ seen # {}
    BY Zenon, <1>1 DEF MentionsDeletion
  <1>3. /\ socket' = IF fits THEN Append(socket, seen) ELSE socket
        /\ overrun' = (overrun \/ ~fits)
    BY Zenon, <1>2 DEF DeliverDatagram
  <1> HIDE DEF seen
  <1>4. CASE fits
    <2>1. socket' = Append(socket, seen)
      BY Zenon, <1>3, <1>4
    <2>2. Len(socket) + 1 \in DOMAIN socket' /\ socket'[Len(socket) + 1] = seen
      BY <1>0, <1>1, <2>1
    <2> QED BY Zenon, <1>2, <2>2
  <1>5. CASE ~fits
    BY Zenon, <1>3, <1>5
  <1> QED BY Zenon, <1>4, <1>5

\* The queues keep their types and bounds.
LEMMA WatchTypes == ASSUME WatchTypeOK, IInv, [WatchNext]_watched PROVE WatchTypeOK'
  <1>r. SocketRoom \in Nat /\ TriggerQueue \in Nat
    BY Zenon, RoomAssumption
  <1> USE DEF WatchTypeOK
  <1>1. CASE SessionStep \/ Tamper
    <2>1. AnnounceRoutes /\ Noticed /\ UNCHANGED <<setup, hand, triggers, driver, shutdown>>
      BY Zenon, <1>1 DEF SessionStep, Tamper, tasks
    <2>2. excused' \subseteq Steps
      BY Zenon, <2>1 DEF Noticed
    <2> QED BY Zenon, <2>1, <2>2, AnnouncedIs, DatagramKeeps DEF AnnounceRoutes
  <1>2. CASE Reassert
    <2>1. /\ AnnounceRoutes /\ Noticed /\ UNCHANGED <<setup, hand, triggers, shutdown>>
          /\ driver' \in {driver, "holding"}
      BY Zenon, <1>2 DEF Reassert
    <2>2. excused' \subseteq Steps
      BY Zenon, <2>1 DEF Noticed
    <2> QED BY Zenon, <2>1, <2>2, AnnouncedIs, DatagramKeeps DEF AnnounceRoutes
  <1>3. CASE Chatter
    <2>1. PICK what \in {"DEL", "NEW"} : DeliverDatagram({[what |-> what, group |-> "IFADDR"]})
      BY Zenon, <1>3 DEF Chatter
    <2>2. {[what |-> what, group |-> "IFADDR"]} \in SUBSET Message
      BY DEF Message, Groups
    <2> QED BY Zenon, <1>3, <2>1, <2>2, DatagramKeeps DEF Chatter, tasks
  <1>4. CASE Read
    <2>1. hand' \in Trigger \cup {"none"}
      BY Zenon, <1>4 DEF Read, Trigger
    <2>2. socket' = socket \/ (socket # <<>> /\ socket' = Tail(socket))
      BY Zenon, <1>4 DEF Read
    <2>3. socket' \in Seq(SUBSET Message) /\ Len(socket') <= SocketRoom
      <3>1. socket \in Seq(SUBSET Message) /\ Len(socket) <= SocketRoom
        OBVIOUS
      <3> HIDE DEF WatchTypeOK
      <3>2. CASE socket # <<>> /\ socket' = Tail(socket)
        <4>1. Tail(socket) \in Seq(SUBSET Message) /\ Len(Tail(socket)) = Len(socket) - 1
          BY <3>1, <3>2
        <4> QED BY <1>r, <3>1, <3>2, <4>1
      <3> QED BY Zenon, <2>2, <3>1, <3>2
    <2>4. overrun' \in BOOLEAN
      BY Zenon, <1>4 DEF Read
    <2> QED BY Zenon, <1>4, <2>1, <2>3, <2>4 DEF Read
  <1>5. CASE Send
    <2>1. hand \in Trigger /\ Len(triggers) < TriggerQueue /\ triggers' = Append(triggers, hand)
      BY Zenon, <1>5 DEF Send
    <2>2. triggers' \in Seq(Trigger) /\ Len(triggers') <= TriggerQueue
      BY <2>1, RoomAssumption
    <2> QED BY Zenon, <1>5, <2>2 DEF Send, wire
  <1>6. CASE TakeTrigger
    <2>1. triggers # <<>> /\ triggers' = Tail(triggers)
      BY Zenon, <1>6 DEF TakeTrigger
    <2>2. triggers' \in Seq(Trigger) /\ Len(triggers') <= TriggerQueue
      BY <2>1, RoomAssumption
    <2> QED BY Zenon, <1>6, <2>2 DEF TakeTrigger, wire
  <1>7. CASE NothingToReassert \/ Hold
    <2>1. <<>> \in Seq(Trigger) /\ Len(<<>>) = 0
      OBVIOUS
    <2>2. /\ triggers' = triggers \/ triggers' = <<>>
          /\ driver' \in {"holding", "waiting"} /\ excused' \subseteq excused \cup Missing
          /\ UNCHANGED <<setup, socket, overrun, hand, shutdown>>
      BY Zenon, <1>7 DEF NothingToReassert, Hold, wire
    <2>3. triggers' \in Seq(Trigger) /\ Len(triggers') <= TriggerQueue
      <3>1. CASE triggers' = <<>>
        BY <1>r, <2>1, <3>1
      <3>2. CASE triggers' = triggers
        BY Zenon, <3>2
      <3> QED BY Zenon, <2>2, <3>1, <3>2
    <2> QED BY Zenon, <2>2, <2>3 DEF Missing
  <1>8. CASE Stop \/ Restart
    <2>1. <<>> \in Seq(Trigger) /\ <<>> \in Seq(SUBSET Message) /\ Len(<<>>) = 0
      OBVIOUS
    <2>2. /\ triggers' = <<>> /\ socket' = <<>> /\ overrun' = FALSE /\ hand' = "none"
          /\ driver' \in {"off", "stopped"} /\ shutdown' \in {shutdown, FALSE}
          /\ UNCHANGED <<setup, excused>>
      BY Zenon, <1>8 DEF Stop, Restart
    <2>3. /\ triggers' \in Seq(Trigger) /\ Len(triggers') <= TriggerQueue
          /\ socket' \in Seq(SUBSET Message) /\ Len(socket') <= SocketRoom
      BY <1>r, <2>1, <2>2
    <2>4. setup' \in Setups /\ {overrun', shutdown'} \subseteq BOOLEAN /\ excused' \subseteq Steps
      BY Zenon, <2>2
    <2> QED BY Zenon, <2>2, <2>3, <2>4
  <1>9. CASE OpenWatch \/ Sweep \/ BeginShutdown \/ BeginReassert
    BY Zenon, <1>9 DEF OpenWatch, Sweep, BeginShutdown, BeginReassert, wire, tasks
  <1>10. CASE UNCHANGED watched
    BY Zenon, <1>10 DEF watched, wire, tasks
  <1> QED BY Zenon, <1>1, <1>2, <1>3, <1>4, <1>5, <1>6, <1>7, <1>8, <1>9, <1>10
          DEF WatchNext, Reader, Driver

-----------------------------------------------------------------------------
(* The policy's own steps.                                                 *)

\* An install comes past a step only when it stands.
LEMMA SessionLays ==
  ASSUME ~Faults, IInv, Session, NEW i \in Steps, Laid(i)', cnt'[i] = 0
  PROVE  Laid(i) /\ cnt[i] = 0
  <1>a. cnt \in [Steps -> Nat] /\ at \in 0..Len(Plan) /\ Len(Plan) \in Nat
    BY Zenon, PlanLength DEF IInv, Positions
  <1> USE <1>a DEF Laid
  <1>1. CASE ReconcileScan \/ ReconcileFlush \/ BeginInstall \/ CleanupFlush
    BY Zenon, <1>1 DEF ReconcileScan, ReconcileFlush, BeginInstall, CleanupFlush, Finish
  <1>2. CASE CleanupDone
    BY <1>2 DEF CleanupDone, Steps
  <1>3. CASE InstallApply
    <2>1. at \in Steps
      BY <1>3 DEF InstallApply, IInv, Positions, Steps
    <2>2. PICK n \in AfterAdd(at) : \E ok \in AddSucceeds(at, n) :
            /\ cnt' = [cnt EXCEPT ![at] = n]
            /\ IF ok THEN phase' = "check" /\ UNCHANGED <<op, at>> ELSE Rollback
      BY Zenon, <1>3 DEF InstallApply
    <2>3. n \in Nat /\ n >= cnt[at]
      BY Zenon, <2>1, AddGrows
    <2>4. n > cnt[at] /\ UNCHANGED <<op, at>>
      BY Zenon, <2>2 DEF AddSucceeds, Rollback
    <2> QED BY <1>3, <2>1, <2>2, <2>3, <2>4 DEF InstallApply
  <1>4. CASE InstallVerify
    BY <1>4 DEF InstallVerify, Rollback, ConfirmsPresent, Steps
  <1>5. CASE RollbackUndo \/ RollbackVerify \/ TeardownBegin \/ TeardownUndo \/ TeardownVerify
    BY Zenon, <1>5 DEF RollbackUndo, RollbackVerify, TeardownBegin, TeardownUndo, TeardownVerify, Finish
  <1>6. CASE StoreProof \/ Publish \/ Revoke
    BY Zenon, <1>6 DEF StoreProof, Publish, Revoke
  <1> QED BY Zenon, <1>1, <1>2, <1>3, <1>4, <1>5, <1>6 DEF Session

\* A walk leaves a step behind only when it stands, or was deleted since.
LEMMA WalkRestores ==
  ASSUME ~Faults, IInv, ReassertProbe \/ ReassertApply \/ ReassertVerify,
         NEW i \in Steps, cnt'[i] = 0
  PROVE  /\ cnt[i] = 0 /\ UNCHANGED <<op, at, phase>> /\ wat > 0
         /\ (wat < i \/ (wat = i /\ wphase # "check"))
              => wat' > 0 /\ (wat' < i \/ (wat' = i /\ wphase' # "check"))
  <1>a. /\ cnt \in [Steps -> Nat] /\ wat \in 0..Len(Plan) /\ Len(Plan) \in Nat
        /\ wphase \in {"probe", "apply", "check"}
    BY Zenon, PlanLength DEF IInv, Positions
  <1>b. wat > 0 /\ wat \in Steps /\ UNCHANGED <<op, at, phase>>
    BY <1>a DEF ReassertProbe, ReassertApply, ReassertVerify, session, Steps
  <1>c. i \in 1..Len(Plan)
    BY Zenon DEF Steps
  <1>1. CASE ReassertProbe
    BY <1>1, <1>a, <1>b, <1>c DEF ReassertProbe, Advance, ConfirmsPresent, MayRefute
  <1>2. CASE ReassertApply
    <2>1. PICK n \in AfterAdd(wat) : \E ok \in AddSucceeds(wat, n) :
            /\ cnt' = [cnt EXCEPT ![wat] = n]
            /\ IF ok THEN wphase' = "check" /\ UNCHANGED <<wat, lock>> ELSE Advance
      BY Zenon, <1>2 DEF ReassertApply
    <2>2. n \in Nat /\ n >= cnt[wat]
      BY Zenon, <1>a, <1>b, AddGrows
    <2>3. cnt[i] = 0
      BY <1>a, <1>b, <2>1, <2>2
    <2>4. i # wat
      <3>1. cnt[wat] = 0 => n = 1
        BY Zenon, <1>b, AddWorks
      <3> QED BY <1>a, <1>b, <2>1, <2>3, <3>1
    <2>5. wat' = wat \/ Advance
      BY Zenon, <2>1
    <2> QED BY <1>a, <1>b, <1>c, <2>3, <2>4, <2>5 DEF Advance
  <1>3. CASE ReassertVerify
    BY SMTT(30), <1>3, <1>a, <1>b, <1>c DEF ReassertVerify, Advance
  <1> QED BY Zenon, <1>1, <1>2, <1>3

-----------------------------------------------------------------------------
(* Every step leaves a trace of what it deletes.                           *)

\* What was heard is still on its way when a datagram arrives.
LEMMA HeardStays ==
  ASSUME WatchTypeOK, Heard, NEW datagram \in SUBSET Message, DeliverDatagram(datagram),
         UNCHANGED <<setup, hand, triggers>>
  PROVE  Heard'
  BY Zenon, DatagramKeeps DEF Heard

\* The session's steps.
LEMMA SessionHeard ==
  ASSUME ~Faults, WatchTypeOK, IInv, WInv, SessionStep
  PROVE  WInv'
  <1>1. /\ Session /\ (driver = "off" => op = "reconcile") /\ AnnounceRoutes /\ Noticed
        /\ UNCHANGED <<setup, hand, triggers, driver>>
    BY Zenon DEF SessionStep, tasks
  <1>2. UNCHANGED <<wat, wphase>> /\ (op = "reconcile" => op' \in {"reconcile", "idle"})
    BY Zenon, <1>1 DEF Session, ReconcileScan, ReconcileFlush, BeginInstall, CleanupFlush, CleanupDone,
                InstallApply, InstallVerify, RollbackUndo, RollbackVerify, StoreProof, Publish,
                Revoke, TeardownBegin, TeardownUndo, TeardownVerify, Finish, watchdog
  <1>3. ASSUME NEW i \in Missing' \ excused', Laid(i)', driver # "stopped"
        PROVE  Heard' \/ Ahead(i)'
    <2>1. i \in Steps /\ cnt'[i] = 0 /\ i \notin excused
      BY Zenon, <1>1, <1>3 DEF Missing, Noticed
    <2>2. Laid(i) /\ i \in Missing
      BY Zenon, <1>1, <1>3, <2>1, SessionLays DEF Missing
    <2>3. Heard \/ Ahead(i)
      BY Zenon, <1>3, <2>1, <2>2 DEF WInv
    <2> QED BY Zenon, <1>1, <1>2, <2>3, HeardStays, AnnouncedIs DEF AnnounceRoutes, Ahead
  <1> QED BY Zenon, <1>1, <1>2, <1>3 DEF WInv

\* The watchdog's steps.
LEMMA WalkHeard ==
  ASSUME ~Faults, WatchTypeOK, IInv, WInv, Reassert
  PROVE  WInv'
  <1>1. /\ ReassertProbe \/ ReassertApply \/ ReassertVerify
        /\ driver' = IF wat' = 0 THEN "holding" ELSE driver
        /\ AnnounceRoutes /\ Noticed /\ UNCHANGED <<setup, hand, triggers>>
    BY Zenon DEF Reassert
  <1>2. wat > 0 /\ wat \in Nat /\ wat' \in Nat /\ op' = op
    <2>1. wat \in Nat /\ Len(Plan) \in Nat
      BY PlanLength DEF IInv, Positions
    <2> QED BY <1>1, <2>1 DEF ReassertProbe, ReassertApply, ReassertVerify, Advance, session
  <1>3. driver = "woken"
    BY Zenon, <1>2 DEF WInv
  <1>4. ASSUME NEW i \in Missing' \ excused', Laid(i)'
        PROVE  Heard' \/ Ahead(i)'
    <2>1. i \in Steps /\ cnt'[i] = 0 /\ i \notin excused
      BY Zenon, <1>1, <1>4 DEF Missing, Noticed
    <2>2. /\ cnt[i] = 0 /\ UNCHANGED <<op, at, phase>>
          /\ (wat < i \/ (wat = i /\ wphase # "check"))
               => wat' > 0 /\ (wat' < i \/ (wat' = i /\ wphase' # "check"))
      BY Zenon, <1>1, <2>1, WalkRestores
    <2>3. Heard \/ Ahead(i)
      BY Zenon, <1>3, <1>4, <2>1, <2>2 DEF WInv, Missing, Laid
    <2>4. CASE Heard
      BY Zenon, <1>1, <2>4, HeardStays, AnnouncedIs DEF AnnounceRoutes
    <2>5. CASE Ahead(i)
      BY <1>1, <1>2, <1>3, <2>2, <2>5 DEF Ahead
    <2> QED BY Zenon, <2>3, <2>4, <2>5
  <1> QED BY <1>1, <1>2, <1>3, <1>4 DEF WInv

\* Another program's deletion.
LEMMA TamperHeard ==
  ASSUME WatchTypeOK, IInv, WInv, Tamper
  PROVE  WInv'
  <1>1. /\ DeletedByOthers /\ AnnounceRoutes /\ Noticed /\ UNCHANGED <<setup, hand, triggers, driver>>
    BY Zenon DEF Tamper, tasks
  <1>2. PICK d \in Steps : cnt[d] > 0 /\ cnt' = [cnt EXCEPT ![d] = @ - 1]
    BY Zenon, <1>1 DEF DeletedByOthers
  <1>3. UNCHANGED <<op, at, phase, wat, wphase>> /\ cnt \in [Steps -> Nat]
    BY Zenon, <1>1 DEF DeletedByOthers, session, watchdog, IInv, Positions
  <1>4. ASSUME NEW i \in Missing' \ excused', Laid(i)', driver # "stopped"
        PROVE  Heard' \/ Ahead(i)'
    <2>1. i \in Steps /\ cnt'[i] = 0 /\ i \notin excused /\ Laid(i)
      BY Zenon, <1>1, <1>3, <1>4 DEF Missing, Noticed, Laid
    <2>2. CASE i = d
      <3> DEFINE datagram == {Announced(j) : j \in {k \in Steps : cnt'[k] # cnt[k]}}
      <3>1. cnt'[i] < cnt[i] /\ cnt'[i] # cnt[i]
        BY <1>2, <1>3, <2>1, <2>2
      <3>2. Announced(i) \in datagram /\ Announced(i).what = "DEL"
        BY Zenon, <2>1, <3>1 DEF Announced
      <3>3. MentionsDeletion(datagram)
        BY Zenon, <3>2 DEF MentionsDeletion
      <3>4. datagram \in SUBSET Message /\ DeliverDatagram(datagram)
        BY Zenon, <1>1, AnnouncedIs DEF AnnounceRoutes
      <3>5. driver \notin {"off", "stopped"}
        BY Zenon, <1>4, <2>1 DEF WInv, Laid
      <3> HIDE DEF datagram
      <3>6. setup.socket = "broken" \/ overrun'
              \/ \E k \in DOMAIN socket' : MentionsDeletion(socket'[k])
        BY Zenon, <3>3, <3>4, <3>5, DeliverTells
      <3> QED BY Zenon, <1>1, <3>6 DEF Heard
    <2>3. CASE i # d
      <3>1. i \in Missing
        BY Zenon, <1>2, <1>3, <2>1, <2>3 DEF Missing
      <3>2. Heard \/ Ahead(i)
        BY Zenon, <1>4, <2>1, <3>1 DEF WInv
      <3> QED BY Zenon, <1>1, <1>3, <3>2, HeardStays, AnnouncedIs DEF AnnounceRoutes, Ahead
    <2> QED BY Zenon, <2>2, <2>3
  <1> QED BY Zenon, <1>1, <1>3, <1>4 DEF WInv

\* The reader passes on what it reads.
LEMMA ReaderHeard ==
  ASSUME WatchTypeOK, WInv, Reader
  PROVE  WInv'
  <1>1. UNCHANGED <<cnt, op, at, phase, wat, wphase, setup, driver, excused>>
    BY Zenon DEF Reader, Read, Send, vars, session, watchdog
  <1>2. ASSUME Heard PROVE Heard'
    <2>1. CASE Send
      <3>1. hand \in Trigger /\ triggers \in Seq(Trigger) /\ triggers' = Append(triggers, hand)
        BY Zenon, <2>1 DEF Send, WatchTypeOK
      <3>2. triggers' # <<>>
        BY <3>1
      <3> QED BY Zenon, <3>2 DEF Heard
    <2>2. CASE Read /\ (overrun \/ setup.socket = "broken")
      BY Zenon, <2>2 DEF Read, Heard
    <2>3. CASE Read /\ ~(overrun \/ setup.socket = "broken")
      <3>1. /\ socket # <<>> /\ socket' = Tail(socket) /\ socket \in Seq(SUBSET Message)
            /\ hand = "none" /\ triggers' = triggers
            /\ hand' = IF MentionsDeletion(Head(socket)) THEN "Deletion" ELSE "none"
        BY Zenon, <2>3 DEF Read, WatchTypeOK
      <3>2. CASE triggers # <<>> \/ MentionsDeletion(Head(socket))
        BY Zenon, <3>1, <3>2 DEF Heard
      <3>3. CASE ~MentionsDeletion(Head(socket)) /\ triggers = <<>>
        <4>1. PICK k \in DOMAIN socket : MentionsDeletion(socket[k])
          BY Zenon, <1>2, <2>3, <3>1, <3>3 DEF Heard
        <4>2. Head(socket) = socket[1] /\ k \in 1..Len(socket) /\ Len(socket) \in Nat
          BY <3>1
        <4>3. k # 1
          BY Zenon, <3>3, <4>1, <4>2
        <4>4. k - 1 \in DOMAIN socket' /\ socket'[k - 1] = socket[k]
          BY <3>1, <4>2, <4>3
        <4>5. MentionsDeletion(socket'[k - 1])
          BY Zenon, <4>1, <4>4
        <4> QED BY Zenon, <4>4, <4>5 DEF Heard
      <3> QED BY Zenon, <3>2, <3>3
    <2> QED BY Zenon, <2>1, <2>2, <2>3 DEF Reader
  <1> QED BY Zenon, <1>1, <1>2 DEF WInv, Missing, Laid, Ahead

\* drive_bounded's own steps.
LEMMA DriverHeard ==
  ASSUME WatchTypeOK, IInv, WInv,
         \/ OpenWatch \/ TakeTrigger \/ Sweep \/ NothingToReassert \/ Hold \/ Stop
         \/ BeginReassert
  PROVE  WInv'
  <1>a. wat \in Nat
    BY PlanLength DEF IInv, Positions
  <1>b. UNCHANGED <<cnt, op, at, phase>>
    BY Zenon DEF OpenWatch, TakeTrigger, Sweep, NothingToReassert, Hold, Stop, BeginReassert, Wake,
           vars, session
  <1>1. CASE OpenWatch
    <2>1. driver = "off" /\ op \in {"reconcile", "idle"} /\ wat = 0 /\ wat' = wat
      BY <1>1, <1>a DEF OpenWatch, WInv, vars, watchdog
    <2> QED BY Zenon, <1>1, <1>b, <2>1 DEF OpenWatch, WInv, Laid
  <1>2. CASE TakeTrigger \/ Sweep
    <2>1. driver = "waiting" /\ driver' = "woken" /\ wat = 0 /\ wat' = 0
      BY <1>2, <1>a DEF TakeTrigger, Sweep, WInv, vars, watchdog
    <2> QED BY Zenon, <1>b, <2>1 DEF WInv, Ahead
  <1>3. CASE NothingToReassert
    <2>1. excused' = excused \cup Missing /\ wat' = 0 /\ driver' = "holding"
      BY Zenon, <1>3 DEF NothingToReassert, vars, watchdog
    <2> QED BY <1>b, <2>1 DEF WInv, Missing
  <1>4. CASE Hold
    <2>1. /\ driver = "holding" /\ driver' = "waiting" /\ wat = 0 /\ wat' = 0 /\ triggers' = <<>>
          /\ excused' = IF triggers = <<>> THEN excused ELSE excused \cup Missing
          /\ UNCHANGED <<setup, socket, overrun, hand>>
      BY <1>4, <1>a DEF Hold, WInv, vars, watchdog, wire
    <2> QED BY Zenon, <1>b, <2>1 DEF WInv, Missing, Laid, Heard, Ahead
  <1>5. CASE Stop
    <2>1. driver = "waiting" /\ driver' = "stopped" /\ wat = 0 /\ wat' = 0
      BY <1>5, <1>a DEF Stop, WInv, vars, watchdog
    <2> QED BY Zenon, <1>b, <2>1 DEF WInv
  <1>6. CASE BeginReassert
    <2>1. /\ driver = "woken" /\ wat' = 1 /\ wphase' = "probe"
          /\ UNCHANGED <<setup, wire, tasks, excused>>
      BY Zenon, <1>6 DEF BeginReassert, Wake
    <2>2. \A i \in Steps : Ahead(i)'
      BY <2>1, PlanLength DEF Ahead, Steps, tasks
    <2> QED BY Zenon, <1>b, <2>1, <2>2 DEF WInv, Missing, tasks
  <1> QED BY Zenon, <1>1, <1>2, <1>3, <1>4, <1>5, <1>6

\* Every step of the daemon and of its machine.
LEMMA WatchHeard ==
  ASSUME ~Faults, WatchTypeOK, IInv, WInv, [WatchNext]_watched
  PROVE  WInv'
  <1>1. CASE Chatter
    <2>1. /\ UNCHANGED <<cnt, op, at, phase, wat, wphase, setup, hand, triggers, driver, excused>>
          /\ \E what \in {"DEL", "NEW"} : DeliverDatagram({[what |-> what, group |-> "IFADDR"]})
      BY Zenon, <1>1 DEF Chatter, vars, session, watchdog, tasks
    <2>2. \A what \in {"DEL", "NEW"} : {[what |-> what, group |-> "IFADDR"]} \in SUBSET Message
      BY DEF Message, Groups
    <2>3. Heard => Heard'
      BY Zenon, <2>1, <2>2, HeardStays
    <2> QED BY Zenon, <2>1, <2>3 DEF WInv, Missing, Laid, Ahead
  <1>2. CASE BeginShutdown \/ UNCHANGED watched
    <2>1. UNCHANGED <<cnt, op, at, phase, wat, wphase, setup, socket, overrun, hand, triggers,
                      driver, excused>>
      BY Zenon, <1>2 DEF BeginShutdown, watched, vars, session, watchdog, wire, tasks
    <2> QED BY Zenon, <2>1 DEF WInv, Missing, Laid, Ahead, Heard
  <1>3. CASE Restart
    <2>1. op' = "reconcile" /\ driver' = "off" /\ wat' = 0
      BY Zenon, <1>3 DEF Restart, Crash
    <2> QED BY <2>1 DEF WInv, Laid
  <1> QED BY Zenon, <1>1, <1>2, <1>3, SessionHeard, WalkHeard, TamperHeard, ReaderHeard, DriverHeard
          DEF WatchNext, Driver

\* The queues of the watch keep their bounds.
THEOREM WatchTypeCorrectness == WatchSpec => []WatchTypeOK
  <1>1. WatchInit => WatchTypeOK
    <2> SUFFICES ASSUME WatchInit PROVE WatchTypeOK
      OBVIOUS
    <2>1. <<>> \in Seq(Trigger) /\ <<>> \in Seq(SUBSET Message) /\ Len(<<>>) = 0
      OBVIOUS
    <2>2. SocketRoom \in Nat /\ TriggerQueue \in Nat
      BY Zenon, RoomAssumption
    <2>3. /\ triggers \in Seq(Trigger) /\ Len(triggers) <= TriggerQueue
          /\ socket \in Seq(SUBSET Message) /\ Len(socket) <= SocketRoom
      BY <2>1, <2>2 DEF WatchInit
    <2> QED BY Zenon, <2>3 DEF WatchInit, WatchTypeOK
  <1>2. WatchSpec => []IInv
    BY WatchImplementsPolicy, Invariance, PTL
  <1> QED BY <1>1, <1>2, WatchTypes, PTL DEF WatchSpec

\* On a machine whose commands work, a step that is missing from a live policy
\* has left a trace that makes the watchdog look, for any plan and whatever the
\* receive buffer and the trigger queue hold (PolicyWatch::next, drive_bounded).
\* A command that fails ends it: a walk skips a step it cannot restore.
THEOREM NothingIsMissedAlways ==
  ASSUME ~Faults
  PROVE  WatchSpec => []NothingIsMissed
  <1>1. WatchInit => WInv
    BY DEF WatchInit, Init, WInv, Laid
  <1>2. WatchTypeOK /\ IInv /\ WInv /\ [WatchNext]_watched => WInv'
    BY Zenon, WatchHeard
  <1>3. IInv /\ WInv => NothingIsMissed
    <2> SUFFICES ASSUME IInv, WInv, NEW i \in Missing \ excused, op = "up", driver # "stopped"
                 PROVE  OnItsWay(i)
      BY Zenon DEF NothingIsMissed
    <2>1. wat \in Nat /\ i \in Nat
      BY PlanLength DEF IInv, Positions, Missing, Steps
    <2>2. Heard \/ Ahead(i)
      BY Zenon DEF WInv, Laid
    <2> QED BY <2>1, <2>2 DEF Heard, Ahead, OnItsWay
  <1>4. WatchSpec => []IInv
    BY WatchImplementsPolicy, Invariance, PTL
  <1> QED BY <1>1, <1>2, <1>3, <1>4, WatchTypeCorrectness, PTL DEF WatchSpec

-----------------------------------------------------------------------------
(* Prompts over the IPC link, for any number of callers, connections and   *)
(* prompts and any capacity of the channels between them: an answer is     *)
(* always that of its own prompt, a prompt that waits can be answered, and *)
(* an attempt that ends leaves none behind; and calls: one that has its    *)
(* answer runs no more.                                                    *)


\* The future of `ask` and the attempt are records of their fields.
Shaped ==
    /\ ask = [at |-> ask.at, id |-> ask.id, wants |-> ask.wants, reply |-> ask.reply]
    /\ attempt = [at |-> attempt.at, conn |-> attempt.conn, call |-> attempt.call,
                  prompt |-> attempt.prompt]

\* The map of the broker holds at most the prompt of the future that waits,
\* until that future is dropped with its attempt: the attempt is then on its
\* way to the withdrawal, or to the panic that comes before it.  What a panic
\* leaves is the prompt that was issued last: no attempt comes after it.
Entries ==
    /\ pending \subseteq {issued}
    /\ attempt.at = "working" =>
         /\ pending \subseteq {ask.id}
         /\ ask.at \notin {"sending", "asked"} \/ ask.reply # Nothing => pending = {}
    /\ attempt.at # "working" => ask = NoAsk
    /\ attempt.at \notin {"working", "closing", "panicking", "lost"} => pending = {}

\* A prompt that was issued has a number, and 0 is no prompt's.
Numbered ==
    /\ issued \in Nat
    /\ IF ask.at = "none" THEN ask = NoAsk ELSE ask.id # 0

PInv == Shaped /\ Numbered /\ AnswerIsOwn /\ WaitingIsPending /\ Entries

-----------------------------------------------------------------------------
(* The steps of the asking future.                                         *)

\* A question: its entry is made before anything is sent.
LEMMA QuestionKeeps == ASSUME PInv, NEW wants, Question(wants) PROVE PInv'
  <1>1. /\ attempt.at = "working" /\ attempt' = attempt /\ ask.at = "none"
        /\ pending' = pending \cup {issued'} /\ issued' = issued + 1
        /\ ask' = [at |-> "sending", id |-> issued', wants |-> wants, reply |-> Nothing]
    BY DEF Question, BeginAsk
  <1>2. pending = {}
    BY <1>1 DEF PInv, Entries
  <1> QED BY <1>1, <1>2 DEF PInv, Shaped, AnswerIsOwn, WaitingIsPending, Entries, Numbered,
             Nothing

\* The prompt leaves, its reply is taken, or its time is over.
LEMMA AskKeeps ==
  ASSUME PInv, SendPrompt \/ TakeReply \/ PromptTimeout \/ AnnounceExpiry,
         UNCHANGED attempt
  PROVE  PInv'
  <1>1. ask.at # "none" /\ attempt.at = "working"
    BY DEF SendPrompt, TakeReply, PromptTimeout, AnnounceExpiry, PInv, Entries, NoAsk
  <1>2. CASE SendPrompt
    <2>1. ask' = [at |-> "asked", id |-> ask.id, wants |-> ask.wants, reply |-> ask.reply]
      BY <1>2 DEF SendPrompt, PInv, Shaped
    <2> QED BY <1>1, <1>2, <2>1
            DEF SendPrompt, PInv, Shaped, AnswerIsOwn, WaitingIsPending, Entries, Numbered
  <1>3. CASE TakeReply
    <2>1. ask' = [at |-> ask'.at, id |-> ask.id, wants |-> ask.wants, reply |-> ask.reply]
      BY Zenon, <1>3 DEF TakeReply, PInv, Shaped
    <2>2. ask'.at = IF IntoAnswer(ask.reply, ask.wants) THEN "answered" ELSE "failed"
      BY Zenon, <1>3 DEF TakeReply, PInv, Shaped
    <2> QED BY Zenon, <1>1, <1>3, <2>1, <2>2
            DEF TakeReply, IntoAnswer, PInv, Shaped, AnswerIsOwn, WaitingIsPending, Entries, Numbered
  <1>4. CASE PromptTimeout
    <2>1. ask' = [at |-> "expiring", id |-> ask.id, wants |-> ask.wants, reply |-> ask.reply]
      BY Zenon, <1>4 DEF PromptTimeout, PInv, Shaped
    <2> QED BY Zenon, <1>1, <1>4, <2>1
            DEF PromptTimeout, PInv, Shaped, AnswerIsOwn, WaitingIsPending, Entries, Numbered
  <1>5. CASE AnnounceExpiry
    <2>1. ask' = [at |-> "failed", id |-> ask.id, wants |-> ask.wants, reply |-> ask.reply]
      BY Zenon, <1>5 DEF AnnounceExpiry, PInv, Shaped
    <2> QED BY Zenon, <1>1, <1>5, <2>1
            DEF AnnounceExpiry, PInv, Shaped, AnswerIsOwn, WaitingIsPending, Entries, Numbered
  <1> QED BY <1>2, <1>3, <1>4, <1>5

\* A reply, to whatever prompt, of whatever shape and however late.
LEMMA DeliverKeeps ==
  ASSUME PInv, NEW i, NEW shape, Deliver(i, shape), UNCHANGED attempt
  PROVE  PInv'
  <1>1. pending' = pending \ {i} /\ issued' = issued
    BY Zenon DEF Deliver
  <1>2. CASE i \in pending /\ ask.at \in {"sending", "asked"} /\ ask.id = i
    <2>1. ask' = [at |-> ask.at, id |-> ask.id, wants |-> ask.wants,
                  reply |-> [shape |-> shape, to |-> i]]
      BY Zenon, <1>2 DEF Deliver, PInv, Shaped
    <2>2. attempt.at = "working" /\ pending' = {}
      BY <1>1, <1>2 DEF PInv, Entries, NoAsk
    <2>3. ask'.reply.to = i /\ ask'.id = i /\ ask'.at = ask.at
      BY Zenon, <1>2, <2>1
    <2>4. ask'.reply # Nothing /\ i # 0
      <3>1. i # 0
        BY Zenon, <1>2 DEF PInv, Numbered
      <3>2. ask'.reply.to # Nothing.to
        BY Zenon, <2>3, <3>1 DEF Nothing
      <3> QED BY Zenon, <3>1, <3>2
    <2>5. Shaped' /\ Numbered'
      BY Zenon, <1>1, <1>2, <2>1, <2>3, <2>4 DEF PInv, Shaped, Numbered
    <2>6. AnswerIsOwn'
      BY Zenon, <1>2, <2>3 DEF AnswerIsOwn
    <2>7. WaitingIsPending' /\ Entries'
      BY Zenon, <2>2, <2>4 DEF WaitingIsPending, Entries
    <2> QED BY Zenon, <2>5, <2>6, <2>7 DEF PInv
  <1>3. CASE ~(i \in pending /\ ask.at \in {"sending", "asked"} /\ ask.id = i)
    <2>1. ask' = ask
      BY Zenon, <1>3 DEF Deliver
    <2> QED BY Zenon, <1>1, <1>3, <2>1 DEF PInv, Shaped, AnswerIsOwn, WaitingIsPending, Entries, Numbered
  <1> QED BY Zenon, <1>2, <1>3

-----------------------------------------------------------------------------
(* The steps of the attempt, and everything else.                          *)

\* A question is dropped where it stands and the attempt goes to close or to
\* panic, or it was answered and the attempt goes on.
LEMMA DropKeeps ==
  ASSUME PInv, DropAsk, attempt.at = "working",
         \/ Attempt("closing") \/ Attempt("panicking")
         \/ ask.at = "answered" /\ Attempt("working")
  PROVE  PInv'
  <1>1. ask' = NoAsk /\ UNCHANGED <<pending, issued>>
    BY DEF DropAsk
  <1>2. Shaped' /\ attempt'.at \in {"closing", "panicking", "working"}
    BY <1>1 DEF PInv, Shaped, Attempt, NoAsk
  <1>3. AnswerIsOwn' /\ WaitingIsPending' /\ Numbered'
    BY Zenon, <1>1 DEF PInv, AnswerIsOwn, WaitingIsPending, Numbered, NoAsk
  <1>4. attempt'.at = "working" => pending = {}
    BY Zenon DEF PInv, Shaped, Attempt, Entries
  <1>5. Entries'
    BY Zenon, <1>1, <1>2, <1>4 DEF PInv, Entries
  <1> QED BY Zenon, <1>2, <1>3, <1>5 DEF PInv

\* The attempt settles, withdraws what is left and reports; or it panics.
LEMMA AttemptKeeps ==
  ASSUME PInv, AttemptSettles \/ Withdraw \/ AnnounceWithdrawal \/ Report \/ Panics
  PROVE  PInv'
  <1>1. ask' = ask /\ issued' = issued
    BY DEF AttemptSettles, Withdraw, WithdrawAll, AnnounceWithdrawal, Announce, Report, Panics,
           broker
  <1>2. CASE AttemptSettles
    <2>1. /\ attempt.at = "working" /\ ask.at = "none" /\ pending' = pending
          /\ attempt' = [attempt EXCEPT !.at = "reporting"]
             \/ attempt' = [attempt EXCEPT !.at = "closing"]
      BY Zenon, <1>2 DEF AttemptSettles, Attempt, broker
    <2>2. Shaped' /\ attempt'.at \in {"reporting", "closing"} /\ pending = {}
      BY Zenon, <1>1, <2>1 DEF PInv, Shaped, Entries
    <2>3. ask = NoAsk
      BY Zenon, <2>1 DEF PInv, Numbered
    <2> QED BY Zenon, <1>1, <2>1, <2>2, <2>3
            DEF PInv, AnswerIsOwn, WaitingIsPending, Entries, Numbered
  <1>3. CASE Withdraw
    <2>1. attempt.at = "closing" /\ pending' = {}
      BY Zenon, <1>3 DEF Withdraw, WithdrawAll
    <2>2. Shaped' /\ attempt'.at \in {"reporting", "withdrawing"}
      BY Zenon, <1>1, <1>3 DEF Withdraw, PInv, Shaped
    <2>3. ask = NoAsk
      BY Zenon, <2>1 DEF PInv, Entries
    <2> QED BY Zenon, <1>1, <2>1, <2>2, <2>3
            DEF PInv, AnswerIsOwn, WaitingIsPending, Entries, Numbered, NoAsk
  <1>4. CASE AnnounceWithdrawal
    <2>1. attempt.at = "withdrawing" /\ pending' = pending
      BY Zenon, <1>4 DEF AnnounceWithdrawal, Announce, broker
    <2>2. Shaped' /\ attempt'.at = "reporting"
      BY Zenon, <1>1, <1>4 DEF AnnounceWithdrawal, Attempt, PInv, Shaped
    <2> QED BY <1>1, <2>1, <2>2
            DEF PInv, AnswerIsOwn, WaitingIsPending, Entries, Numbered
  <1>5. CASE Report
    <2>1. attempt.at = "reporting" /\ attempt' = NoAttempt /\ pending' = pending
      BY Zenon, <1>5 DEF Report, broker
    <2>2. Shaped' /\ attempt'.at = "idle"
      BY Zenon, <1>1, <2>1 DEF PInv, Shaped, NoAttempt
    <2> QED BY Zenon, <1>1, <2>1, <2>2
            DEF PInv, AnswerIsOwn, WaitingIsPending, Entries, Numbered
  <1>6. CASE Panics
    <2>1. attempt.at = "panicking" /\ attempt' = LostAttempt /\ pending' = pending
      BY Zenon, <1>6 DEF Panics, broker
    <2>2. Shaped' /\ attempt'.at = "lost"
      BY Zenon, <1>1, <2>1 DEF PInv, Shaped, LostAttempt
    <2> QED BY Zenon, <1>1, <2>1, <2>2
            DEF PInv, AnswerIsOwn, WaitingIsPending, Entries, Numbered
  <1> QED BY Zenon, <1>2, <1>3, <1>4, <1>5, <1>6

\* What the rest of the link does leaves prompts and attempt alone.
LEMMA OthersKeep == ASSUME PInv, UNCHANGED <<ask, pending, issued, attempt>> PROVE PInv'
  BY Zenon DEF PInv, Shaped, AnswerIsOwn, WaitingIsPending, Entries, Numbered

\* A line is dispatched: a reply is delivered, connect claims the slot, and
\* disconnect cancels.
LEMMA DispatchKeeps == ASSUME PInv, Dispatch PROVE PInv'
  <1> DEFINE Handled(c, k) ==
          \/ DispatchHello(c, k, conn[c].up[k]) \/ DispatchReply(c, k, conn[c].up[k])
          \/ DispatchConnect(c, k, conn[c].up[k])
          \/ DispatchDisconnect(c, k, conn[c].up[k])
          \/ DispatchOther(c, k, conn[c].up[k])
  <1>1. PICK c \in Conns : \E k \in DOMAIN conn[c].up : Handled(c, k)
    BY Zenon DEF Dispatch
  <1>0. PICK k \in DOMAIN conn[c].up : Handled(c, k)
    BY <1>1
  <1> DEFINE m == conn[c].up[k]
  <1>2. CASE DispatchReply(c, k, m)
    BY Zenon, <1>2, DeliverKeeps DEF DispatchReply
  <1>3. CASE DispatchConnect(c, k, m)
    <2>1. UNCHANGED <<ask, pending, issued>>
      BY Zenon, <1>3 DEF DispatchConnect, broker
    <2>2. CASE attempt.at = "idle"
      <3>1. attempt' = [at |-> "working", conn |-> c, call |-> m.call, prompt |-> 0]
        BY Zenon, <1>3, <2>2 DEF DispatchConnect
      <3>2. Shaped' /\ attempt'.at = "working"
        BY Zenon, <2>1, <3>1 DEF PInv, Shaped
      <3>3. pending = {}
        BY Zenon, <2>2 DEF PInv, Entries
      <3> QED BY Zenon, <2>1, <3>2, <3>3
              DEF PInv, AnswerIsOwn, WaitingIsPending, Entries, Numbered
    <2>3. CASE attempt.at # "idle"
      BY Zenon, <1>3, <2>1, <2>3, OthersKeep DEF DispatchConnect
    <2> QED BY Zenon, <2>2, <2>3
  <1>4. CASE DispatchDisconnect(c, k, m)
    BY Zenon, <1>4, DropKeeps, OthersKeep DEF DispatchDisconnect, Abandoned, broker
  <1>5. CASE DispatchHello(c, k, m) \/ DispatchOther(c, k, m)
    BY Zenon, <1>5, OthersKeep DEF DispatchHello, DispatchOther, broker
  <1> QED BY ZenonT(30), <1>0, <1>2, <1>3, <1>4, <1>5

\* The daemon's process ends, with the future, the map and the attempt.
LEMMA DrainKeeps == ASSUME PInv, Drain PROVE PInv'
  BY Zenon DEF Drain, PInv, Shaped, AnswerIsOwn, WaitingIsPending, Entries, Numbered, NoAsk,
         NoAttempt

-----------------------------------------------------------------------------
(* The theorems.                                                           *)

\* The inductive invariant holds of every behaviour of the link.
THEOREM PromptInvariance == LinkSpec => []PInv
  <1>1. LinkInit => PInv
    BY DEF LinkInit, BrokerInit, PInv, Shaped, AnswerIsOwn, WaitingIsPending, Entries, Numbered,
           NoAsk, NoAttempt, Nothing
  <1>2. PInv /\ [LinkNext]_guiVars => PInv'
    <2> SUFFICES ASSUME PInv, [LinkNext]_guiVars PROVE PInv'
      OBVIOUS
    <2>1. CASE AttemptStep
      <3>1. CASE (SendPrompt \/ AnnounceExpiry \/ TakeReply \/ PromptTimeout)
                    /\ UNCHANGED linkVars
        BY <3>1, AskKeeps DEF linkVars
      <3>2. CASE AskReturns
        BY <3>2, DropKeeps DEF AskReturns
      <3>3. CASE AttemptSettles \/ Withdraw \/ AnnounceWithdrawal \/ Report \/ Panics
        BY <3>3, AttemptKeeps
      <3> QED BY Zenon, <2>1, <3>1, <3>2, <3>3 DEF AttemptStep, SendStep
    <2>2. CASE Openvpn
      <3>1. CASE Emit /\ UNCHANGED linkVars
        BY Zenon, <3>1, OthersKeep DEF Emit, linkVars
      <3>2. CASE VpnExits
        BY Zenon, <3>2, DropKeeps DEF VpnExits
      <3> QED BY Zenon, <2>2, <3>1, <3>2, QuestionKeeps DEF Openvpn
    <2>3. CASE Dispatch
      BY Zenon, <2>3, DispatchKeeps
    <2>4. CASE Drain
      BY Zenon, <2>4, DrainKeeps
    <2>5. CASE Pump \/ \E c \in Conns : TakeLease(c) \/ ConnStep(c)
      BY Zenon, <2>5, OthersKeep DEF Pump, TakeLease, ConnStep, ReadBrim, ReadEof, ConnectionEnds,
                              broker
    <2>6. CASE GuiStep
      BY Zenon, <2>6, OthersKeep DEF GuiStep, Connect, GuiEof, HelloLine, HandleIncoming,
                              HandleCommand, broker
    <2>7. CASE User
      BY Zenon, <2>7, OthersKeep DEF User, CallTimeout, Call, Reply, Quit, Start, Shutdown, broker
    <2>8. CASE UNCHANGED guiVars
      BY Zenon, <2>8, OthersKeep DEF guiVars, broker, linkVars
    <2> QED BY Zenon, <2>1, <2>2, <2>3, <2>4, <2>5, <2>6, <2>7, <2>8 DEF LinkNext
  <1> QED BY <1>1, <1>2, PTL DEF LinkSpec

\* What answers a prompt was given to that prompt and has the shape it asked
\* for, whatever is late, repeated or meant for another (deliver, into_answer).
THEOREM AnswerIsOwnAlways == LinkSpec => []AnswerIsOwn
  BY PromptInvariance, PTL DEF PInv

\* No prompt is left in the map when its attempt reports (withdraw_all), and an
\* attempt that panics leaves at most its last one.
THEOREM PromptsAreWithdrawnAlways == LinkSpec => []PromptsAreWithdrawn
  <1>1. PInv => PromptsAreWithdrawn
    BY DEF PInv, Entries, PromptsAreWithdrawn
  <1> QED BY <1>1, PromptInvariance, PTL

\* A prompt that waits for its reply still has the entry a reply is matched by.
THEOREM WaitingIsPendingAlways == LinkSpec => []WaitingIsPending
  BY PromptInvariance, PTL DEF PInv

-----------------------------------------------------------------------------
(* Calls.                                                                  *)

Line == {Hello, Refusal, Event} \cup [type : {"request", "response"}, call : Callers]
        \cup [type : {"prompt", "cancelled"}, id : Nat]
        \cup [type : {"prompt_reply"}, id : Nat, shape : Typed]

Pushed == {Event} \cup [type : {"prompt", "cancelled"}, id : Nat]

Connection == [at : {"none", "open", "closing", "gone"}, pump : BOOLEAN,
               up : Seq(Line), down : Seq(Line)]

States == {"idle", "queued", "sent", "answered", "timeout", "gone"}

CallShape(r) == r = [st |-> r.st, kind |-> r.kind, conn |-> r.conn] /\ r.st \in States

\* What the daemon pushes is no response, and the numbers of prompts are
\* numbers.
PushTypes ==
    /\ outbound \in Seq(Pushed)
    /\ ask.id \in Nat /\ pending \subseteq Nat /\ attempt.prompt \in Nat

CallTypes == calls = [k \in Callers |-> calls[k]] /\ \A k \in Callers : CallShape(calls[k])

GuiTypes ==
    /\ gui = [at |-> gui.at, conn |-> gui.conn, same |-> gui.same]
    /\ gui.conn \in 0..MaxConns /\ (Live => gui.conn \in Conns) /\ plan \in Plans

AttemptTypes ==
    IF attempt.at = "idle" THEN attempt = NoAttempt
    ELSE attempt = LostAttempt \/ (attempt.conn \in Conns /\ attempt.call \in Callers)

LinkTypes ==
    /\ commands \in Seq(Line) /\ conn \in [Conns -> Connection] /\ holder \in Conns \cup {0}
    /\ CallTypes /\ GuiTypes /\ AttemptTypes

IsRequest(m, k) == m.type = "request" /\ m.call = k

Has(s, k) == \E i \in DOMAIN s : IsRequest(s[i], k)

Once(s, k) == \A i, j \in DOMAIN s : IsRequest(s[i], k) /\ IsRequest(s[j], k) => i = j

HasResponse(s, k) == \E i \in DOMAIN s : s[i].type = "response" /\ s[i].call = k

\* A call is in one place: in the actor's channel, on its way to its task, in
\* the attempt it began, or in the response on its way back.
OnePlace(k) ==
    /\ Once(commands, k) /\ \A c \in Conns : Once(conn[c].up, k)
    /\ \A c, d \in Conns : Has(conn[c].up, k) /\ Has(conn[d].up, k) => c = d
    /\ Has(commands, k) => /\ attempt.call # k
                           /\ \A c \in Conns : ~Has(conn[c].up, k) /\ ~HasResponse(conn[c].down, k)
    /\ \A c, d \in Conns : Has(conn[c].up, k) =>
         attempt.call # k /\ ~HasResponse(conn[d].down, k)
    /\ attempt.call = k => \A c \in Conns : ~HasResponse(conn[c].down, k)

\* One that was never made is nowhere, and of one that has its answer nothing
\* is left on the way out.
Settled(k) ==
    /\ calls[k].st \in {"idle", "answered"} =>
         /\ ~Has(commands, k) /\ attempt.call # k
         /\ \A c \in Conns : ~Has(conn[c].up, k)
    /\ calls[k].st = "idle" => \A c \in Conns : ~HasResponse(conn[c].down, k)

Placed == \A k \in Callers : OnePlace(k) /\ Settled(k)

CInv == PushTypes /\ LinkTypes /\ Placed

-----------------------------------------------------------------------------
(* What the operations on queues do to the calls in them.                  *)

\* Taking the first line.
LEMMA TailOf ==
  ASSUME NEW S, NEW s \in Seq(S), s # <<>>, NEW k
  PROVE  /\ Tail(s) \in Seq(S) /\ Head(s) \in S
         /\ Once(s, k) => Once(Tail(s), k)
         /\ Has(Tail(s), k) => Has(s, k)
         /\ Once(s, k) /\ IsRequest(Head(s), k) => ~Has(Tail(s), k)
         /\ IsRequest(Head(s), k) => Has(s, k)
         /\ HasResponse(Tail(s), k) => HasResponse(s, k)
         /\ Head(s).type = "response" /\ Head(s).call = k => HasResponse(s, k)
  <1>1. /\ Tail(s) \in Seq(S) /\ Head(s) \in S /\ Head(s) = s[1] /\ Len(s) \in Nat \ {0}
        /\ DOMAIN s = 1..Len(s) /\ DOMAIN Tail(s) = 1..Len(s) - 1
        /\ \A i \in 1..Len(s) - 1 : Tail(s)[i] = s[i + 1]
    OBVIOUS
  <1>2. \A i \in DOMAIN Tail(s) : i + 1 \in DOMAIN s /\ i + 1 # 1 /\ Tail(s)[i] = s[i + 1]
    BY <1>1
  <1> DEFINE t == Tail(s)
  <1>3. \A i, j \in DOMAIN t : i + 1 = j + 1 => i = j
    BY <1>1
  <1>4. 1 \in DOMAIN s
    BY <1>1
  <1> HIDE DEF t
  <1> QED BY Zenon, <1>1, <1>2, <1>3, <1>4 DEF t, Once, Has, HasResponse

\* Reading only the first lines.
LEMMA PrefixOf ==
  ASSUME NEW S, NEW s \in Seq(S), NEW n \in 0..Len(s), NEW k
  PROVE  /\ SubSeq(s, 1, n) \in Seq(S)
         /\ Once(s, k) => Once(SubSeq(s, 1, n), k)
         /\ Has(SubSeq(s, 1, n), k) => Has(s, k)
  <1>1. /\ SubSeq(s, 1, n) \in Seq(S) /\ DOMAIN SubSeq(s, 1, n) = 1..n
        /\ DOMAIN s = 1..Len(s) /\ \A i \in 1..n : SubSeq(s, 1, n)[i] = s[i]
    OBVIOUS
  <1>2. \A i \in DOMAIN SubSeq(s, 1, n) : i \in DOMAIN s /\ SubSeq(s, 1, n)[i] = s[i]
    BY <1>1
  <1> QED BY Zenon, <1>1, <1>2 DEF Once, Has

\* Writing one more.
LEMMA AppendTo ==
  ASSUME NEW S, NEW s \in Seq(S), NEW m \in S, NEW k
  PROVE  /\ Append(s, m) \in Seq(S)
         /\ Once(s, k) /\ ~(IsRequest(m, k) /\ Has(s, k)) => Once(Append(s, m), k)
         /\ Has(Append(s, m), k) => Has(s, k) \/ IsRequest(m, k)
         /\ HasResponse(Append(s, m), k) =>
              HasResponse(s, k) \/ (m.type = "response" /\ m.call = k)
  <1>1. /\ Append(s, m) \in Seq(S) /\ DOMAIN s = 1..Len(s) /\ Len(s) \in Nat
        /\ DOMAIN Append(s, m) = 1..Len(s) + 1 /\ Append(s, m)[Len(s) + 1] = m
        /\ \A i \in 1..Len(s) : Append(s, m)[i] = s[i]
    OBVIOUS
  <1>2. \A i \in DOMAIN Append(s, m) :
           \/ i \in DOMAIN s /\ Append(s, m)[i] = s[i]
           \/ i = Len(s) + 1 /\ Append(s, m)[i] = m
    BY <1>1
  <1> QED BY Zenon, <1>1, <1>2 DEF Once, Has, HasResponse

\* Taking a line out of the middle.
LEMMA WithoutOne ==
  ASSUME NEW S, NEW s \in Seq(S), NEW n \in DOMAIN s, NEW k
  PROVE  LET t == SubSeq(s, 1, n - 1) \o SubSeq(s, n + 1, Len(s))
         IN  /\ t \in Seq(S)
             /\ Once(s, k) => Once(t, k)
             /\ Has(t, k) => Has(s, k)
             /\ Once(s, k) /\ IsRequest(s[n], k) => ~Has(t, k)
  <1> DEFINE a == SubSeq(s, 1, n - 1)
             b == SubSeq(s, n + 1, Len(s))
             t == a \o b
  <1>1. Len(s) \in Nat /\ DOMAIN s = 1..Len(s) /\ n \in 1..Len(s)
    OBVIOUS
  <1>2. /\ a \in Seq(S) /\ Len(a) = n - 1 /\ \A i \in 1..n - 1 : a[i] = s[i]
    BY <1>1
  <1>3. /\ b \in Seq(S) /\ Len(b) = Len(s) - n
        /\ \A i \in 1..Len(s) - n : b[i] = s[n + i]
    BY SMTT(30), <1>1
  <1> HIDE DEF a, b
  <1>a. /\ t \in Seq(S) /\ Len(t) = Len(a) + Len(b)
        /\ \A i \in 1..Len(a) + Len(b) : t[i] = IF i <= Len(a) THEN a[i] ELSE b[i - Len(a)]
    BY Zenon, <1>2, <1>3, ConcatProperties
  <1>b. DOMAIN t = 1..Len(t)
    <2> HIDE DEF t
    <2> QED BY <1>a
  <1> HIDE DEF t
  <1>4. Len(a) + Len(b) = Len(s) - 1 /\ DOMAIN t = 1..Len(s) - 1
    BY SMTT(30), <1>1, <1>2, <1>3, <1>a, <1>b
  <1>5. ASSUME NEW i \in 1..Len(s) - 1
        PROVE  t[i] = IF i < n THEN s[i] ELSE s[i + 1]
    <2>0. /\ i \in 1..Len(a) + Len(b)
          /\ t[i] = IF i <= Len(a) THEN a[i] ELSE b[i - Len(a)]
      BY Zenon, <1>4, <1>a
    <2>1. CASE i < n
      <3>1. i <= Len(a) /\ i \in 1..n - 1
        BY <1>1, <1>2, <2>1
      <3> QED BY Zenon, <1>2, <2>0, <2>1, <3>1
    <2>2. CASE i >= n
      <3>1. /\ i - Len(a) \in 1..Len(s) - n /\ n + (i - Len(a)) = i + 1
            /\ ~(i <= Len(a)) /\ ~(i < n)
        BY <1>1, <1>2, <2>2
      <3>2. b[i - Len(a)] = s[n + (i - Len(a))]
        BY Zenon, <1>3, <3>1
      <3> QED BY Zenon, <2>0, <3>1, <3>2
    <2> QED BY <1>1, <2>1, <2>2
  <1> DEFINE place(i) == IF i < n THEN i ELSE i + 1
  <1>6. \A i \in DOMAIN t : place(i) \in DOMAIN s /\ place(i) # n /\ t[i] = s[place(i)]
    BY <1>1, <1>4, <1>5
  <1>7. \A i, j \in DOMAIN t : place(i) = place(j) => i = j
    BY <1>1, <1>4
  <1>8. t \in Seq(S)
    BY Zenon, <1>a
  <1> HIDE DEF place
  <1>9. /\ Once(s, k) => Once(t, k)
        /\ Has(t, k) => Has(s, k)
        /\ Once(s, k) /\ IsRequest(s[n], k) => ~Has(t, k)
    BY Zenon, <1>6, <1>7 DEF Once, Has
  <1> QED BY Zenon, <1>8, <1>9 DEF t, a, b

-----------------------------------------------------------------------------
(* Steps that put a call in no new place.                                  *)

Thinner(t, s, k) == (Once(s, k) => Once(t, k)) /\ (Has(t, k) => Has(s, k))

FewerResponses(t, s, k) == HasResponse(t, k) => HasResponse(s, k)

\* What becomes of the lines of connection c; the others keep theirs.
ConnIs(c, up, down) ==
    /\ conn' \in [Conns -> Connection] /\ conn'[c].up = up /\ conn'[c].down = down
    /\ \A d \in Conns : d # c => conn'[d].up = conn[d].up /\ conn'[d].down = conn[d].down

\* The call is no further than it was.
Unmoved(k) ==
    /\ attempt'.call = k => attempt.call = k
    /\ calls'[k].st \in {"idle", "answered"} => calls'[k].st = calls[k].st

\* A step that only takes lines away keeps every call in its one place.
LEMMA Fewer ==
  ASSUME NEW k, OnePlace(k), Settled(k), Unmoved(k), Thinner(commands', commands, k),
         \A c \in Conns : /\ Thinner(conn'[c].up, conn[c].up, k)
                          /\ FewerResponses(conn'[c].down, conn[c].down, k)
  PROVE  OnePlace(k)' /\ Settled(k)'
  <1>1. OnePlace(k)'
    BY Zenon DEF OnePlace, Unmoved, Thinner, FewerResponses
  <1>2. Settled(k)'
    BY Zenon DEF Settled, Unmoved, Thinner, FewerResponses
  <1> QED BY Zenon, <1>1, <1>2

\* A queue nobody touched.
LEMMA SameIsThinner ==
  ASSUME NEW s, NEW k
  PROVE  Thinner(s, s, k) /\ FewerResponses(s, s, k)
  BY Zenon DEF Thinner, FewerResponses

\* The same, of a step that touches one connection.
LEMMA FewerThere ==
  ASSUME NEW k, OnePlace(k), Settled(k), Unmoved(k), Thinner(commands', commands, k),
         NEW c \in Conns, NEW up, NEW down, ConnIs(c, up, down),
         Thinner(up, conn[c].up, k), FewerResponses(down, conn[c].down, k)
  PROVE  OnePlace(k)' /\ Settled(k)'
  <1>1. \A d \in Conns : /\ Thinner(conn'[d].up, conn[d].up, k)
                         /\ FewerResponses(conn'[d].down, conn[d].down, k)
    BY Zenon, SameIsThinner DEF ConnIs
  <1> QED BY Zenon, <1>1, Fewer

\* Lines, by their type.
LEMMA LineIs ==
  ASSUME NEW m \in Line
  PROVE  m.type \in {"request", "response"} => m.call \in Callers
  BY SMTT(30) DEF Line, Hello, Refusal, Event

\* What each side writes is a line, and what the daemon pushes names no call.
LEMMA LinesAre ==
  /\ Hello \in Line /\ Refusal \in Line
  /\ \A k \in Callers : Request(k) \in Line /\ Response(k) \in Line
  /\ \A i \in Nat, shape \in Typed : PromptReply(i, shape) \in Line
  /\ \A m \in Pushed : m \in Line /\ m.type \notin {"request", "response"}
  /\ \A i \in Nat : Prompted(i) \in Pushed /\ Cancelled(i) \in Pushed
  /\ Event \in Pushed
<1>1. Hello \in Line /\ Refusal \in Line /\ Event \in Line /\ Event \in Pushed
  BY Zenon DEF Line, Pushed
<1>2. \A k \in Callers : Request(k) \in Line
  <2>1. \A k \in Callers : Request(k) \in [type : {"request", "response"}, call : Callers]
    BY DEF Request
  <2> QED BY Zenon, <2>1 DEF Line
<1>3. \A k \in Callers : Response(k) \in Line
  <2>1. \A k \in Callers : Response(k) \in [type : {"request", "response"}, call : Callers]
    BY DEF Response
  <2> QED BY Zenon, <2>1 DEF Line
<1>4. \A i \in Nat, shape \in Typed : PromptReply(i, shape) \in Line
  <2>1. \A i \in Nat, shape \in Typed : PromptReply(i, shape) \in [type : {"prompt_reply"}, id : Nat, shape : Typed]
    BY DEF PromptReply
  <2> QED BY Zenon, <2>1 DEF Line
<1>5. \A i \in Nat : Prompted(i) \in Pushed /\ Cancelled(i) \in Pushed
  <2>1. \A i \in Nat : /\ Prompted(i) \in [type : {"prompt", "cancelled"}, id : Nat]
                       /\ Cancelled(i) \in [type : {"prompt", "cancelled"}, id : Nat]
    BY DEF Prompted, Cancelled
  <2> QED BY Zenon, <2>1 DEF Pushed
<1>6. \A m \in Pushed : m \in Line /\ m.type \notin {"request", "response"}
  <2>1. Event.type \notin {"request", "response"}
    BY DEF Event
  <2>2. \A m \in [type : {"prompt", "cancelled"}, id : Nat] : m.type \notin {"request", "response"}
    OBVIOUS
  <2> QED BY Zenon, <2>1, <2>2 DEF Pushed, Line
<1> QED BY Zenon, <1>1, <1>2, <1>3, <1>4, <1>5, <1>6

\* One connection's lines are replaced.
LEMMA Replaced ==
  ASSUME NEW c \in Conns, NEW r \in Connection, conn \in [Conns -> Connection],
         conn' = [conn EXCEPT ![c] = r]
  PROVE  ConnIs(c, r.up, r.down)
  BY DEF ConnIs

\* Only what the GUI has to read is replaced.
LEMMA DownReplaced ==
  ASSUME NEW c \in Conns, NEW down \in Seq(Line), conn \in [Conns -> Connection],
         conn' = [conn EXCEPT ![c].down = down]
  PROVE  ConnIs(c, conn[c].up, down)
  BY Zenon DEF ConnIs, Connection

\* Only what the daemon has to handle is replaced.
LEMMA UpReplaced ==
  ASSUME NEW c \in Conns, NEW up \in Seq(Line), conn \in [Conns -> Connection],
         conn' = [conn EXCEPT ![c].up = up]
  PROVE  ConnIs(c, up, conn[c].down)
  BY Zenon DEF ConnIs, Connection

\* Queue adds at most its message, at the end.
LEMMA QueueAdds ==
  ASSUME NEW cn \in [Conns -> Connection], NEW c \in Conns, NEW m \in Line
  PROVE  /\ Queue(cn, c, m) \in [Conns -> Connection]
         /\ Queue(cn, c, m)[c].up = cn[c].up
         /\ Queue(cn, c, m)[c].down \in {cn[c].down, Append(cn[c].down, m)}
         /\ \A d \in Conns : d # c => Queue(cn, c, m)[d] = cn[d]
  <1>1. cn[c] \in Connection /\ cn[c].down \in Seq(Line)
    BY Zenon DEF Connection
  <1>2. Append(cn[c].down, m) \in Seq(Line)
    BY <1>1
  <1> DEFINE down == Append(cn[c].down, m)
  <1> HIDE DEF down
  <1>3. [cn EXCEPT ![c].down = down] \in [Conns -> Connection]
    BY Zenon, <1>1, <1>2 DEF Connection, down
  <1>4. CASE Queue(cn, c, m) = cn
    BY Zenon, <1>1, <1>4
  <1>5. CASE Queue(cn, c, m) = [cn EXCEPT ![c].down = down]
    BY <1>1, <1>3, <1>5 DEF Connection, down
  <1> QED BY Zenon, <1>4, <1>5 DEF Queue, down

\* Queueing a line that is no response.
LEMMA NoResponseAdded ==
  ASSUME NEW s \in Seq(Line), NEW m \in Line, m.type # "response",
         NEW t \in {s, Append(s, m)}, NEW k
  PROVE  FewerResponses(t, s, k)
  <1>1. HasResponse(Append(s, m), k) => HasResponse(s, k)
    BY Zenon, AppendTo
  <1> QED BY Zenon, <1>1 DEF FewerResponses

\* An attempt that is under way has a connection and a call that wait for it.
LEMMA UnderWay ==
  ASSUME AttemptTypes, attempt.at \notin {"idle", "lost"}
  PROVE  attempt.conn \in Conns /\ attempt.call \in Callers
  <1>1. LostAttempt.at = "lost"
    BY DEF LostAttempt
  <1>2. attempt # LostAttempt
    BY Zenon, <1>1
  <1> QED BY Zenon, <1>2 DEF AttemptTypes

\* The attempt goes on for the same call, and the link stays as it is.
LEMMA AttemptMoves ==
  ASSUME LinkTypes, Placed, UNCHANGED <<commands, conn, holder, calls, gui, plan>>,
         \/ attempt' = attempt
         \/ /\ attempt.at \notin {"idle", "lost"} /\ attempt'.at # "idle"
            /\ attempt'.call = attempt.call /\ attempt'.conn = attempt.conn
  PROVE  LinkTypes' /\ Placed'
  <1>1. AttemptTypes'
    <2>1. CASE attempt' = attempt
      BY Zenon, <2>1 DEF LinkTypes, AttemptTypes
    <2>2. CASE attempt' # attempt
      <3>1. attempt.conn \in Conns /\ attempt.call \in Callers
        BY Zenon, <2>2, UnderWay DEF LinkTypes
      <3> QED BY Zenon, <2>2, <3>1 DEF AttemptTypes
    <2> QED BY Zenon, <2>1, <2>2
  <1>2. LinkTypes'
    BY Zenon, <1>1 DEF LinkTypes, CallTypes, GuiTypes, Live
  <1>3. attempt'.call = attempt.call
    OBVIOUS
  <1>4. ASSUME NEW k \in Callers PROVE OnePlace(k)' /\ Settled(k)'
    BY Zenon, <1>3, <1>4 DEF Placed, OnePlace, Settled
  <1> QED BY Zenon, <1>2, <1>4 DEF Placed

\* Steps that take lines from the link or write lines that are no request and
\* no response, on one connection.
LEMMA ThereMoves ==
  ASSUME LinkTypes, Placed, UNCHANGED <<commands, calls, attempt>>, GuiTypes',
         holder' \in Conns \cup {0},
         NEW c \in Conns, NEW up, NEW down, ConnIs(c, up, down),
         \A k \in Callers : Thinner(up, conn[c].up, k) /\ FewerResponses(down, conn[c].down, k)
  PROVE  LinkTypes' /\ Placed'
  <1>1. LinkTypes'
    BY Zenon DEF LinkTypes, CallTypes, AttemptTypes, ConnIs
  <1>2. ASSUME NEW k \in Callers PROVE OnePlace(k)' /\ Settled(k)'
    <2>1. Unmoved(k) /\ Thinner(commands', commands, k)
      BY Zenon, SameIsThinner DEF Unmoved
    <2> QED BY Zenon, <1>2, <2>1, FewerThere DEF Placed
  <1> QED BY Zenon, <1>1, <1>2 DEF Placed

\* pump_outbound moves a message that is no response.
LEMMA PumpPlaces == ASSUME PushTypes, LinkTypes, Placed, Pump PROVE LinkTypes' /\ Placed'
  <1>1. holder \in Conns /\ conn \in [Conns -> Connection] /\ Head(outbound) \in Pushed
    BY DEF Pump, LinkTypes, PushTypes
  <1>2. UNCHANGED <<commands, calls, attempt>> /\ GuiTypes' /\ holder' \in Conns \cup {0}
    BY Zenon, <1>1 DEF Pump, LinkTypes, GuiTypes, Live
  <1>3. conn[holder].up \in Seq(Line) /\ conn[holder].down \in Seq(Line)
    BY Zenon, <1>1 DEF Connection
  <1>4. CASE conn' = Queue(conn, holder, Head(outbound))
    <2>1. Head(outbound) \in Line /\ Head(outbound).type \notin {"request", "response"}
      BY Zenon, <1>1, LinesAre
    <2>2. PICK down \in {conn[holder].down, Append(conn[holder].down, Head(outbound))} :
              ConnIs(holder, conn[holder].up, down)
      BY <1>1, <1>4, <2>1, QueueAdds DEF ConnIs
    <2>3. \A k \in Callers : FewerResponses(down, conn[holder].down, k)
      BY Zenon, <1>3, <2>1, <2>2, NoResponseAdded
    <2> QED BY Zenon, <1>1, <1>2, <2>2, <2>3, ThereMoves, SameIsThinner
  <1>5. CASE conn' = [conn EXCEPT ![holder].pump = FALSE]
    <2>1. ConnIs(holder, conn[holder].up, conn[holder].down)
      BY Zenon, <1>1, <1>5 DEF ConnIs, Connection
    <2> QED BY Zenon, <1>1, <1>2, <2>1, ThereMoves, SameIsThinner
  <1> QED BY Zenon, <1>4, <1>5 DEF Pump

\* The read loop ends, and perhaps drops what it has not read.
LEMMA ConnPlaces ==
  ASSUME LinkTypes, Placed, NEW c \in Conns, ConnStep(c)
  PROVE  LinkTypes' /\ Placed'
  <1>1. conn \in [Conns -> Connection] /\ conn[c] \in Connection
    BY DEF LinkTypes
  <1>2. UNCHANGED <<commands, calls, attempt>> /\ GuiTypes' /\ holder' \in Conns \cup {0}
    BY Zenon DEF ConnStep, ReadBrim, ReadEof, ConnectionEnds, Release, LinkTypes, GuiTypes, Live
  <1>3. conn[c].up \in Seq(Line) /\ conn[c].down \in Seq(Line)
    BY Zenon, <1>1 DEF Connection
  <1>4. CASE ReadBrim(c)
    <2>1. PICK n \in DOMAIN conn[c].up :
             conn' = [Queue(conn, c, Refusal) EXCEPT ![c] = Closing(@, SubSeq(@.up, 1, n - 1))]
      BY Zenon, <1>4 DEF ReadBrim
    <2> DEFINE q == Queue(conn, c, Refusal)
    <2>2. /\ q \in [Conns -> Connection] /\ q[c].up = conn[c].up
          /\ q[c].down \in {conn[c].down, Append(conn[c].down, Refusal)}
          /\ \A d \in Conns : d # c => q[d] = conn[d]
      BY <1>1, LinesAre, QueueAdds
    <2> DEFINE up == SubSeq(conn[c].up, 1, n - 1)
    <2>3. /\ up \in Seq(Line) /\ \A k : Thinner(up, conn[c].up, k)
      <3>1. n - 1 \in 0..Len(conn[c].up)
        BY <1>3
      <3> QED BY Zenon, <1>3, <3>1, PrefixOf DEF Thinner
    <2>4. conn' = [q EXCEPT ![c] = Closing(q[c], up)]
      BY Zenon, <2>1, <2>2
    <2> HIDE DEF q, up
    <2>5. Closing(q[c], up) \in Connection
      BY Zenon, <2>2, <2>3 DEF Closing, Connection
    <2>6. ConnIs(c, up, q[c].down)
      BY Zenon, <2>2, <2>4, <2>5 DEF ConnIs, Closing
    <2>7. \A k \in Callers : FewerResponses(q[c].down, conn[c].down, k)
      <3>1. Refusal \in Line /\ Refusal.type # "response"
        BY Zenon, LinesAre DEF Refusal
      <3> QED BY Zenon, <1>3, <2>2, <3>1, NoResponseAdded
    <2> QED BY Zenon, <1>2, <2>3, <2>6, <2>7, ThereMoves
  <1>5. CASE ReadEof(c) \/ ConnectionEnds(c)
    <2>1. ConnIs(c, conn[c].up, conn[c].down)
      <3>1. PICK r \in Connection : /\ r.up = conn[c].up /\ r.down = conn[c].down
                                    /\ conn' = [conn EXCEPT ![c] = r]
        <4>1. CASE ReadEof(c)
          <5>1. Closing(conn[c], conn[c].up) \in Connection
            BY Zenon, <1>3 DEF Closing, Connection
          <5> QED BY Zenon, <4>1, <5>1 DEF ReadEof, Closing
        <4>2. CASE ConnectionEnds(c)
          <5>1. [conn[c] EXCEPT !.at = "gone"] \in Connection
            BY Zenon, <1>1 DEF Connection
          <5>2. conn' = [conn EXCEPT ![c] = [conn[c] EXCEPT !.at = "gone"]]
            BY Zenon, <4>2 DEF ConnectionEnds
          <5> QED BY Zenon, <1>1, <5>1, <5>2 DEF Connection
        <4> QED BY Zenon, <1>5, <4>1, <4>2
      <3> QED BY Zenon, <1>1, <3>1, Replaced
    <2> QED BY Zenon, <1>2, <2>1, ThereMoves, SameIsThinner
  <1> QED BY Zenon, <1>4, <1>5 DEF ConnStep

-----------------------------------------------------------------------------
(* Steps that move a call on.                                              *)

Without(s, i) == SubSeq(s, 1, i - 1) \o SubSeq(s, i + 1, Len(s))

\* A line leaves the tasks of its connection.
LEMMA DoneIs ==
  ASSUME LinkTypes, NEW c \in Conns, NEW i \in DOMAIN conn[c].up
  PROVE  /\ Done(c, i) \in [Conns -> Connection]
         /\ Done(c, i)[c].up = Without(conn[c].up, i)
         /\ Done(c, i)[c].down = conn[c].down
         /\ \A d \in Conns : d # c => Done(c, i)[d] = conn[d]
  <1>1. conn \in [Conns -> Connection] /\ conn[c] \in Connection /\ conn[c].up \in Seq(Line)
    BY Zenon DEF LinkTypes, Connection
  <1> DEFINE up == Without(conn[c].up, i)
  <1>2. up \in Seq(Line)
    BY Zenon, <1>1, WithoutOne DEF Without
  <1>3. Done(c, i) = [conn EXCEPT ![c].up = up]
    BY Zenon DEF Done, Without
  <1> HIDE DEF up
  <1>4. Done(c, i) \in [Conns -> Connection]
    BY Zenon, <1>1, <1>2, <1>3 DEF Connection
  <1> QED BY SMTT(30), <1>1, <1>3, <1>4 DEF Connection, up

\* A line is done with and answered with m, if the peer still listens.
LEMMA AnsweringIs ==
  ASSUME LinkTypes, NEW c \in Conns, NEW i \in DOMAIN conn[c].up, NEW m \in Line,
         Answering(c, i, m)
  PROVE  /\ \E down \in {conn[c].down, Append(conn[c].down, m)} :
                ConnIs(c, Without(conn[c].up, i), down)
         /\ UNCHANGED <<commands, calls, holder>> /\ GuiTypes'
         /\ \A k : Thinner(Without(conn[c].up, i), conn[c].up, k)
  <1> DEFINE done == Done(c, i)
             up == Without(conn[c].up, i)
  <1>1. /\ done \in [Conns -> Connection] /\ done[c].up = up /\ done[c].down = conn[c].down
        /\ \A d \in Conns : d # c => done[d] = conn[d]
    BY Zenon, DoneIs
  <1>2. conn' = Queue(done, c, m) /\ UNCHANGED <<commands, calls, holder, gui, plan>>
    BY Zenon DEF Answering
  <1>3. GuiTypes'
    BY Zenon, <1>2 DEF LinkTypes, GuiTypes, Live
  <1>4. \A k : Thinner(up, conn[c].up, k)
    <2>1. conn[c].up \in Seq(Line)
      BY Zenon DEF LinkTypes, Connection
    <2> QED BY Zenon, <2>1, WithoutOne DEF Without, Thinner
  <1> HIDE DEF done, up
  <1>5. \E down \in {conn[c].down, Append(conn[c].down, m)} : ConnIs(c, up, down)
    BY SMTT(30), <1>1, <1>2, QueueAdds DEF ConnIs
  <1> QED BY Zenon, <1>2, <1>3, <1>4, <1>5 DEF up

\* An answer that is no response to a call.
LEMMA OtherAnswer ==
  ASSUME LinkTypes, Placed, NEW c \in Conns, NEW i \in DOMAIN conn[c].up, NEW m \in Line,
         m.type # "response", Answering(c, i, m), attempt' = attempt
  PROVE  LinkTypes' /\ Placed'
  <1>1. PICK down \in {conn[c].down, Append(conn[c].down, m)} :
            ConnIs(c, Without(conn[c].up, i), down)
    BY Zenon, AnsweringIs
  <1>2. conn[c].down \in Seq(Line) /\ holder \in Conns \cup {0}
    BY Zenon DEF LinkTypes, Connection
  <1>3. \A k \in Callers : FewerResponses(down, conn[c].down, k)
    BY Zenon, <1>2, NoResponseAdded
  <1>4. /\ UNCHANGED <<commands, calls, attempt>> /\ GuiTypes' /\ holder' \in Conns \cup {0}
        /\ \A k : Thinner(Without(conn[c].up, i), conn[c].up, k)
    BY Zenon, <1>2, AnsweringIs
  <1> HIDE DEF Without
  <1> QED BY Zenon, <1>1, <1>3, <1>4, ThereMoves

\* The request of a call is done with, and its response is on its way back.
LEMMA AnswerPlaces ==
  ASSUME LinkTypes, Placed, NEW c \in Conns, NEW i \in DOMAIN conn[c].up, NEW j \in Callers,
         IsRequest(conn[c].up[i], j), Answering(c, i, Response(j)),
         attempt'.call = attempt.call, AttemptTypes'
  PROVE  LinkTypes' /\ Placed'
  <1> DEFINE up == Without(conn[c].up, i)
  <1>0. Response(j) \in Line /\ Response(j).type = "response" /\ Response(j).call = j
    BY Zenon, LinesAre DEF Response
  <1>1. PICK down \in {conn[c].down, Append(conn[c].down, Response(j))} : ConnIs(c, up, down)
    BY Zenon, <1>0, AnsweringIs
  <1>2. /\ UNCHANGED <<commands, calls, holder>> /\ GuiTypes'
        /\ \A k : Thinner(up, conn[c].up, k)
    BY Zenon, <1>0, AnsweringIs
  <1>3. conn[c].down \in Seq(Line) /\ conn[c].up \in Seq(Line)
    BY Zenon DEF LinkTypes, Connection
  <1>4. LinkTypes'
    BY Zenon, <1>1, <1>2 DEF LinkTypes, CallTypes, ConnIs
  <1>5. ASSUME NEW k \in Callers, k # j PROVE OnePlace(k)' /\ Settled(k)'
    <2>1. FewerResponses(down, conn[c].down, k)
      <3>1. HasResponse(Append(conn[c].down, Response(j)), k) => HasResponse(conn[c].down, k)
        <4>1. HasResponse(Append(conn[c].down, Response(j)), k) =>
                HasResponse(conn[c].down, k) \/ (Response(j).type = "response" /\ Response(j).call = k)
          <5>1. PICK s \in Seq(Line) : s = conn[c].down
            BY Zenon, <1>3
          <5>2. PICK m \in Line : m = Response(j)
            BY Zenon, <1>0
          <5>3. HasResponse(Append(s, m), k) =>
                  HasResponse(s, k) \/ (m.type = "response" /\ m.call = k)
            BY Zenon, AppendTo
          <5> QED BY Zenon, <5>1, <5>2, <5>3
        <4> QED BY Zenon, <1>0, <1>5, <4>1
      <3> QED BY ZenonT(30), <1>1, <3>1 DEF FewerResponses
    <2>2. Unmoved(k) /\ Thinner(commands', commands, k)
      BY Zenon, <1>2, SameIsThinner DEF Unmoved
    <2> HIDE DEF up
    <2> QED BY Zenon, <1>1, <1>2, <1>5, <2>1, <2>2, FewerThere DEF Placed
  <1>6. OnePlace(j)' /\ Settled(j)'
    <2>1. Has(conn[c].up, j) /\ OnePlace(j) /\ Settled(j) /\ Once(conn[c].up, j)
      BY Zenon DEF Has, Placed, OnePlace
    <2>2. ~Has(up, j)
      BY Zenon, <1>3, <2>1, WithoutOne DEF Without
    <2> HIDE DEF up
    <2>3. /\ ~Has(commands, j) /\ attempt.call # j /\ Once(commands, j)
          /\ \A d \in Conns : d # c => ~Has(conn[d].up, j)
          /\ calls[j].st \notin {"idle", "answered"}
      BY Zenon, <2>1 DEF OnePlace, Settled
    <2>4. \A d \in Conns : ~Has(conn'[d].up, j)
      BY Zenon, <1>1, <2>2, <2>3 DEF ConnIs
    <2>5. \A d \in Conns : Once(conn'[d].up, j)
      BY Zenon, <2>4 DEF Has, Once
    <2> QED BY Zenon, <1>2, <2>3, <2>4, <2>5 DEF OnePlace, Settled
  <1> QED BY Zenon, <1>4, <1>5, <1>6 DEF Placed

\* connect claims the slot: the call is now with the attempt.
LEMMA ClaimPlaces ==
  ASSUME LinkTypes, Placed, NEW c \in Conns, NEW i \in DOMAIN conn[c].up, NEW j \in Callers,
         IsRequest(conn[c].up[i], j), attempt.at = "idle", conn' = Done(c, i),
         attempt' = [at |-> "working", conn |-> c, call |-> j, prompt |-> 0],
         UNCHANGED <<plan, holder, gui, commands, calls>>
  PROVE  LinkTypes' /\ Placed'
  <1> DEFINE up == Without(conn[c].up, i)
  <1>1. ConnIs(c, up, conn[c].down)
    BY Zenon, DoneIs DEF ConnIs
  <1>2. conn[c].up \in Seq(Line) /\ attempt'.call = j /\ attempt'.at # "idle" /\ attempt'.conn = c
    BY Zenon DEF LinkTypes, Connection
  <1>3. LinkTypes'
    BY Zenon, <1>1, <1>2 DEF LinkTypes, CallTypes, ConnIs, GuiTypes, Live, AttemptTypes
  <1>4. \A k : Thinner(up, conn[c].up, k)
    BY Zenon, <1>2, WithoutOne DEF Without, Thinner
  <1>5. ASSUME NEW k \in Callers, k # j PROVE OnePlace(k)' /\ Settled(k)'
    <2>1. Unmoved(k) /\ Thinner(commands', commands, k)
      BY Zenon, <1>2, <1>5, SameIsThinner DEF Unmoved
    <2> HIDE DEF up
    <2> QED BY Zenon, <1>1, <1>4, <1>5, <2>1, FewerThere, SameIsThinner DEF Placed
  <1>6. OnePlace(j)' /\ Settled(j)'
    <2>1. Has(conn[c].up, j) /\ OnePlace(j) /\ Settled(j) /\ Once(conn[c].up, j)
      BY Zenon DEF Has, Placed, OnePlace
    <2>2. ~Has(up, j)
      BY SMTT(30), <1>2, <2>1, WithoutOne DEF Without
    <2> HIDE DEF up
    <2>3. /\ ~Has(commands, j) /\ Once(commands, j)
          /\ \A d \in Conns : d # c => ~Has(conn[d].up, j)
          /\ \A d \in Conns : ~HasResponse(conn[d].down, j)
          /\ calls[j].st \notin {"idle", "answered"}
      BY Zenon, <2>1 DEF OnePlace, Settled
    <2>4. \A d \in Conns : ~Has(conn'[d].up, j) /\ ~HasResponse(conn'[d].down, j)
      BY Zenon, <1>1, <2>2, <2>3 DEF ConnIs
    <2>5. \A d \in Conns : Once(conn'[d].up, j)
      BY Zenon, <2>4 DEF Has, Once
    <2> QED BY Zenon, <2>3, <2>4, <2>5 DEF OnePlace, Settled
  <1> QED BY Zenon, <1>3, <1>5, <1>6 DEF Placed

\* connect returns: its response is on its way back.
LEMMA ReportPlaces == ASSUME PInv, LinkTypes, Placed, Report PROVE LinkTypes' /\ Placed'
  <1>a. PICK c \in Conns, j \in Callers : c = attempt.conn /\ j = attempt.call
    <2>1. attempt.at \notin {"idle", "lost"}
      BY Zenon DEF Report
    <2> QED BY Zenon, <2>1, UnderWay DEF LinkTypes
  <1>0. conn \in [Conns -> Connection]
    BY Zenon DEF LinkTypes
  <1>1. Response(j) \in Line /\ Response(j).type = "response" /\ Response(j).call = j
    BY ZenonT(30), LinesAre DEF Response
  <1>2. PICK down \in {conn[c].down, Append(conn[c].down, Response(j))} :
            ConnIs(c, conn[c].up, down)
    BY Zenon, <1>0, <1>1, <1>a, QueueAdds DEF Report, ConnIs
  <1>3. /\ UNCHANGED <<plan, holder, gui, commands, calls>> /\ attempt' = NoAttempt
        /\ attempt'.call = 0 /\ 0 \notin Callers /\ attempt'.at = "idle"
    BY Zenon, LinkAssumption DEF Report, others, NoAttempt
  <1>4. LinkTypes'
    BY Zenon, <1>2, <1>3 DEF LinkTypes, CallTypes, ConnIs, GuiTypes, Live, AttemptTypes
  <1>5. conn[c].down \in Seq(Line) /\ conn[c].up \in Seq(Line)
    BY Zenon, <1>0 DEF LinkTypes, Connection
  <1>6. ASSUME NEW k \in Callers, k # j PROVE OnePlace(k)' /\ Settled(k)'
    <2>1. FewerResponses(down, conn[c].down, k)
      <3>1. HasResponse(Append(conn[c].down, Response(j)), k) => HasResponse(conn[c].down, k)
        BY ZenonT(30), <1>1, <1>5, <1>6, AppendTo
      <3> QED BY ZenonT(30), <1>2, <3>1 DEF FewerResponses
    <2>2. Unmoved(k) /\ Thinner(commands', commands, k)
      BY Zenon, <1>3, SameIsThinner DEF Unmoved
    <2> QED BY Zenon, <1>2, <1>6, <2>1, <2>2, FewerThere, SameIsThinner DEF Placed
  <1>7. OnePlace(j)' /\ Settled(j)'
    <2>1. OnePlace(j) /\ Settled(j)
      BY Zenon DEF Placed
    <2>2. /\ ~Has(commands, j) /\ Once(commands, j) /\ calls[j].st \notin {"idle", "answered"}
          /\ \A d \in Conns : ~Has(conn[d].up, j) /\ Once(conn[d].up, j)
      BY Zenon, <1>a, <2>1 DEF OnePlace, Settled
    <2>3. \A d \in Conns : ~Has(conn'[d].up, j) /\ Once(conn'[d].up, j)
      BY Zenon, <1>2, <2>2 DEF ConnIs
    <2>4. UNCHANGED <<commands, calls>> /\ attempt'.call # j
      <3>1. j # 0 /\ attempt'.call = 0
        BY Zenon, <1>3
      <3> QED BY Zenon, <1>3, <3>1
    <2> QED BY Zenon, <2>2, <2>3, <2>4 DEF OnePlace, Settled
  <1> QED BY Zenon, <1>4, <1>6, <1>7 DEF Placed

\* The task of connect panics: its call is nowhere any more.
LEMMA PanicPlaces == ASSUME LinkTypes, Placed, Panics PROVE LinkTypes' /\ Placed'
  <1>1. /\ UNCHANGED <<plan, conn, holder, gui, commands, calls>> /\ attempt' = LostAttempt
        /\ attempt'.call = 0 /\ 0 \notin Callers /\ attempt'.at = "lost"
    BY Zenon, LinkAssumption DEF Panics, others, LostAttempt
  <1>2. LinkTypes'
    BY Zenon, <1>1 DEF LinkTypes, CallTypes, GuiTypes, Live, AttemptTypes
  <1>3. ASSUME NEW k \in Callers PROVE OnePlace(k)' /\ Settled(k)'
    <2>1. attempt'.call # k
      BY Zenon, <1>1, <1>3
    <2>2. Unmoved(k) /\ Thinner(commands', commands, k)
      BY Zenon, <1>1, <2>1, SameIsThinner DEF Unmoved
    <2>3. \A c \in Conns : /\ Thinner(conn'[c].up, conn[c].up, k)
                           /\ FewerResponses(conn'[c].down, conn[c].down, k)
      BY Zenon, <1>1, SameIsThinner
    <2> QED BY Zenon, <1>3, <2>2, <2>3, Fewer DEF Placed
  <1> QED BY Zenon, <1>2, <1>3 DEF Placed

\* A line is dispatched, and leaves its connection's tasks.
LEMMA DispatchPlaces ==
  ASSUME PInv, LinkTypes, Placed, Dispatch
  PROVE  LinkTypes' /\ Placed'
  <1> DEFINE Is(c, i, kind) == /\ conn[c].up[i].type = "request"
                               /\ calls[conn[c].up[i].call].kind = kind
             Handled(c, i) ==
                LET m == conn[c].up[i]
                IN  \/ DispatchHello(c, i, m) \/ DispatchReply(c, i, m)
                    \/ Is(c, i, "connect") /\ DispatchConnect(c, i, m)
                    \/ Is(c, i, "disconnect") /\ DispatchDisconnect(c, i, m)
                    \/ Is(c, i, "status") /\ DispatchOther(c, i, m)
  <1>1. PICK c \in Conns : \E i \in DOMAIN conn[c].up : Handled(c, i)
    BY Zenon DEF Dispatch
  <1>2. PICK i \in DOMAIN conn[c].up : Handled(c, i)
    BY Zenon, <1>1
  <1> DEFINE m == conn[c].up[i]
  <1>3. m \in Line
    BY DEF LinkTypes, Connection
  <1>4. Hello \in Line /\ Hello.type = "hello" /\ Refusal \in Line /\ Refusal.type = "refusal"
    BY Zenon, LinesAre DEF Hello, Refusal
  <1>5. CASE DispatchHello(c, i, m) \/ DispatchReply(c, i, m)
    <2>1. PICK a \in {Hello, Refusal} : Answering(c, i, a) /\ attempt' = attempt
      BY Zenon, <1>5 DEF DispatchHello, DispatchReply
    <2>2. a \in Line /\ a.type # "response"
      BY Zenon, <1>4
    <2> QED BY Zenon, <2>1, <2>2, OtherAnswer
  <1>6. ASSUME m.type = "request"
        PROVE  m.call \in Callers /\ IsRequest(m, m.call)
    BY Zenon, <1>3, <1>6, LineIs DEF IsRequest
  <1>7. CASE m.type = "request" /\ DispatchConnect(c, i, m)
    <2>1. PICK j \in Callers : j = m.call /\ IsRequest(m, j)
      BY Zenon, <1>6, <1>7
    <2>2. CASE attempt.at = "idle"
      BY Zenon, <1>7, <2>1, <2>2, ClaimPlaces DEF DispatchConnect
    <2>3. CASE attempt.at # "idle"
      <3>1. Answering(c, i, Response(j)) /\ attempt' = attempt
        BY Zenon, <1>7, <2>1, <2>3 DEF DispatchConnect
      <3>2. attempt'.call = attempt.call /\ AttemptTypes'
        BY Zenon, <3>1 DEF LinkTypes, AttemptTypes
      <3> QED BY Zenon, <2>1, <3>1, <3>2, AnswerPlaces
    <2> QED BY Zenon, <2>2, <2>3
  <1>8. CASE m.type = "request" /\ DispatchDisconnect(c, i, m)
    <2>1. PICK j \in Callers : j = m.call /\ IsRequest(m, j)
      BY Zenon, <1>6, <1>8
    <2>2. Answering(c, i, Response(j))
      BY Zenon, <1>8, <2>1 DEF DispatchDisconnect
    <2>3. attempt'.call = attempt.call /\ AttemptTypes'
      <3>1. CASE attempt' = attempt
        BY Zenon, <3>1 DEF LinkTypes, AttemptTypes
      <3>2. CASE attempt.at = "working" /\ Attempt("closing")
        <4>1. /\ attempt'.at = "closing" /\ attempt'.call = attempt.call
              /\ attempt'.conn = attempt.conn
          BY Zenon, <3>2 DEF Attempt, PInv, Shaped
        <4>2. attempt.conn \in Conns /\ attempt.call \in Callers
          BY Zenon, <3>2, UnderWay DEF LinkTypes
        <4> QED BY Zenon, <4>1, <4>2 DEF AttemptTypes
      <3> QED BY Zenon, <1>8, <3>1, <3>2 DEF DispatchDisconnect, Abandoned
    <2> QED BY Zenon, <2>1, <2>2, <2>3, AnswerPlaces
  <1>9. CASE m.type = "request" /\ DispatchOther(c, i, m)
    <2>1. PICK j \in Callers : j = m.call /\ IsRequest(m, j)
      BY Zenon, <1>6, <1>9
    <2>2. Answering(c, i, Response(j)) /\ attempt' = attempt
      BY Zenon, <1>9, <2>1 DEF DispatchOther
    <2>3. attempt'.call = attempt.call /\ AttemptTypes'
      BY Zenon, <2>2 DEF LinkTypes, AttemptTypes
    <2> QED BY Zenon, <2>1, <2>2, <2>3, AnswerPlaces
  <1> QED BY Zenon, <1>2, <1>5, <1>7, <1>8, <1>9

\* The server stops reading: what has not been read never is.
LEMMA ShutdownPlaces == ASSUME LinkTypes, Placed, Shutdown PROVE LinkTypes' /\ Placed'
  <1>1. /\ UNCHANGED <<plan, attempt, gui, commands, calls>> /\ holder' \in Conns \cup {0}
    BY Zenon DEF Shutdown, Release, LinkTypes
  <1>2. PICK read \in [Conns -> Nat] :
          /\ \A c \in Conns : read[c] <= Len(conn[c].up)
          /\ conn' = [c \in Conns |->
                       IF conn[c].at # "open" THEN conn[c]
                       ELSE Closing(conn[c], SubSeq(conn[c].up, 1, read[c]))]
    <2>1. PICK read \in [Conns -> 0..Cardinality(Callers) + MaxPrompts + 1] :
            /\ \A c \in Conns : read[c] <= Len(conn[c].up)
            /\ conn' = [c \in Conns |->
                         IF conn[c].at # "open" THEN conn[c]
                         ELSE Closing(conn[c], SubSeq(conn[c].up, 1, read[c]))]
      BY Zenon DEF Shutdown
    <2>2. read \in [Conns -> Nat]
      BY SMTT(30)
    <2> QED BY Zenon, <2>1, <2>2
  <1>3. ASSUME NEW c \in Conns
        PROVE  /\ conn'[c] \in Connection /\ conn'[c].down = conn[c].down
               /\ \A k : Thinner(conn'[c].up, conn[c].up, k)
    <2>1. conn[c] \in Connection /\ conn[c].up \in Seq(Line) /\ conn[c].down \in Seq(Line)
      BY Zenon, <1>3 DEF LinkTypes, Connection
    <2> DEFINE up == SubSeq(conn[c].up, 1, read[c])
    <2>2. up \in Seq(Line) /\ \A k : Thinner(up, conn[c].up, k)
      <3>1. read[c] \in 0..Len(conn[c].up)
        BY <1>2, <1>3, <2>1
      <3> QED BY Zenon, <2>1, <3>1, PrefixOf DEF Thinner
    <2>3. conn'[c] \in {conn[c], Closing(conn[c], up)}
      BY Zenon, <1>2, <1>3
    <2> HIDE DEF up
    <2>4. Closing(conn[c], up) \in Connection /\ Closing(conn[c], up).up = up
          /\ Closing(conn[c], up).down = conn[c].down
      BY Zenon, <2>1, <2>2 DEF Closing, Connection
    <2> QED BY Zenon, <2>1, <2>2, <2>3, <2>4, SameIsThinner
  <1>4. conn' \in [Conns -> Connection]
    BY Zenon, <1>2, <1>3
  <1>5. LinkTypes'
    BY Zenon, <1>1, <1>4 DEF LinkTypes, CallTypes, GuiTypes, Live, AttemptTypes
  <1>6. ASSUME NEW k \in Callers PROVE OnePlace(k)' /\ Settled(k)'
    <2>1. Unmoved(k) /\ Thinner(commands', commands, k)
      BY Zenon, <1>1, SameIsThinner DEF Unmoved
    <2>2. \A c \in Conns : /\ Thinner(conn'[c].up, conn[c].up, k)
                           /\ FewerResponses(conn'[c].down, conn[c].down, k)
      BY Zenon, <1>3, SameIsThinner
    <2> QED BY Zenon, <1>6, <2>1, <2>2, Fewer DEF Placed
  <1> QED BY Zenon, <1>5, <1>6 DEF Placed

\* The daemon's process ends: no call is anywhere.
LEMMA DrainPlaces == ASSUME LinkTypes, Placed, Drain PROVE LinkTypes' /\ Placed'
  <1>1. NoConn \in Connection /\ NoConn.up = <<>> /\ NoConn.down = <<>>
    BY DEF NoConn, Connection
  <1>2. /\ conn' = [c \in Conns |-> NoConn] /\ attempt' = NoAttempt /\ commands' = <<>>
        /\ calls' = [k \in Callers |-> NoCall] /\ UNCHANGED <<plan, holder>>
        /\ gui' = [gui EXCEPT !.at = "off"]
    BY Zenon DEF Drain
  <1>3. GuiTypes'
    BY Zenon, <1>2 DEF LinkTypes, GuiTypes, Live
  <1>4. CallTypes' /\ \A k \in Callers : calls'[k].st = "idle"
    BY Zenon, <1>2 DEF CallTypes, CallShape, NoCall, States
  <1>5. AttemptTypes' /\ attempt'.call \notin Callers
    BY Zenon, <1>2, LinkAssumption DEF AttemptTypes, NoAttempt
  <1>6. conn' \in [Conns -> Connection] /\ commands' \in Seq(Line) /\ holder' \in Conns \cup {0}
    BY <1>1, <1>2 DEF LinkTypes
  <1>7. \A c \in Conns : conn'[c].up = <<>> /\ conn'[c].down = <<>>
    BY Zenon, <1>1, <1>2
  <1>8. \A k : ~Has(<<>>, k) /\ ~HasResponse(<<>>, k) /\ Once(<<>>, k)
    BY SMTT(30) DEF Has, HasResponse, Once
  <1>9. ASSUME NEW k \in Callers PROVE OnePlace(k)' /\ Settled(k)'
    <2>1. /\ ~Has(commands', k) /\ Once(commands', k) /\ attempt'.call # k
          /\ \A c \in Conns : /\ ~Has(conn'[c].up, k) /\ Once(conn'[c].up, k)
                              /\ ~HasResponse(conn'[c].down, k)
      BY Zenon, <1>2, <1>5, <1>7, <1>8
    <2> QED BY Zenon, <2>1 DEF OnePlace, Settled
  <1> QED BY ZenonT(30), <1>3, <1>4, <1>5, <1>6, <1>9 DEF LinkTypes, Placed

-----------------------------------------------------------------------------
(* The GUI's steps.                                                        *)

\* A call is made: it was nowhere, and is in the actor's channel.
LEMMA CallPlaces ==
  ASSUME LinkTypes, Placed, NEW j \in Callers, NEW kind, Call(j, kind)
  PROVE  LinkTypes' /\ Placed'
  <1> DEFINE new == [st |-> "queued", kind |-> kind, conn |-> 0]
  <1>1. /\ calls[j].st = "idle" /\ calls' = [calls EXCEPT ![j] = new]
        /\ commands' = Append(commands, Request(j))
        /\ UNCHANGED <<plan, conn, holder, attempt, gui>>
    BY Zenon DEF Call
  <1>2. CallTypes' /\ calls'[j].st = "queued" /\ \A k \in Callers : k # j => calls'[k] = calls[k]
    <2>1. CallShape(new) /\ new.st = "queued"
      BY Zenon DEF CallShape, States
    <2> HIDE DEF new
    <2> QED BY Zenon, <1>1, <2>1 DEF LinkTypes, CallTypes
  <1>3. /\ commands \in Seq(Line) /\ Request(j) \in Line
        /\ Request(j).type = "request" /\ Request(j).call = j
    BY Zenon, LinesAre DEF LinkTypes, Request
  <1>4. commands' \in Seq(Line)
    BY <1>1, <1>3
  <1>5. LinkTypes'
    BY Zenon, <1>1, <1>2, <1>4 DEF LinkTypes, GuiTypes, Live, AttemptTypes
  <1>6. ASSUME NEW k \in Callers, k # j PROVE OnePlace(k)' /\ Settled(k)'
    <2>1. Thinner(commands', commands, k)
      <3>1. ~IsRequest(Request(j), k)
        BY Zenon, <1>3, <1>6 DEF IsRequest
      <3> QED BY Zenon, <1>1, <1>3, <3>1, AppendTo DEF Thinner
    <2>2. Unmoved(k)
      BY Zenon, <1>1, <1>2, <1>6 DEF Unmoved
    <2> QED BY Zenon, <1>1, <1>6, <2>1, <2>2, Fewer, SameIsThinner DEF Placed
  <1>7. OnePlace(j)' /\ Settled(j)'
    <2>1. OnePlace(j) /\ Settled(j)
      BY Zenon DEF Placed
    <2>2. /\ ~Has(commands, j) /\ Once(commands, j) /\ attempt.call # j
          /\ \A d \in Conns : /\ ~Has(conn[d].up, j) /\ Once(conn[d].up, j)
                              /\ ~HasResponse(conn[d].down, j)
      BY Zenon, <1>1, <2>1 DEF OnePlace, Settled
    <2>3. Once(commands', j)
      BY Zenon, <1>1, <1>3, <2>2, AppendTo
    <2> QED BY Zenon, <1>1, <1>2, <2>2, <2>3 DEF OnePlace, Settled
  <1> QED BY Zenon, <1>5, <1>6, <1>7 DEF Placed

\* The prompt's reply joins the channel, and is no call.
LEMMA ReplyPlaces ==
  ASSUME LinkTypes, Placed, NEW i \in Ids, NEW shape \in Typed, Reply(i, shape)
  PROVE  LinkTypes' /\ Placed'
  <1>1. /\ commands' = Append(commands, PromptReply(i, shape))
        /\ UNCHANGED <<plan, conn, holder, attempt, gui, calls>>
    BY Zenon DEF Reply
  <1>2. /\ commands \in Seq(Line) /\ PromptReply(i, shape) \in Line
        /\ PromptReply(i, shape).type = "prompt_reply"
    <2>1. i \in Nat
      BY BrokerAssumption DEF Ids
    <2> QED BY Zenon, <2>1, LinesAre DEF LinkTypes, PromptReply
  <1>3. commands' \in Seq(Line)
    BY <1>1, <1>2
  <1>4. LinkTypes'
    BY Zenon, <1>1, <1>3 DEF LinkTypes, CallTypes, GuiTypes, Live, AttemptTypes
  <1>5. ASSUME NEW k \in Callers PROVE OnePlace(k)' /\ Settled(k)'
    <2>1. Thinner(commands', commands, k)
      <3>1. ~IsRequest(PromptReply(i, shape), k)
        BY Zenon, <1>2 DEF IsRequest
      <3> QED BY Zenon, <1>1, <1>2, <3>1, AppendTo DEF Thinner
    <2>2. Unmoved(k)
      BY Zenon, <1>1 DEF Unmoved
    <2> QED BY Zenon, <1>1, <1>5, <2>1, <2>2, Fewer, SameIsThinner DEF Placed
  <1> QED BY Zenon, <1>4, <1>5 DEF Placed

\* Calls that fail, and what the GUI forgets, are in no new place.
LEMMA ForgetPlaces ==
  ASSUME LinkTypes, Placed, CallTypes', GuiTypes', conn' \in [Conns -> Connection],
         \/ commands' \in {commands, <<>>}
         \/ commands # <<>> /\ commands' = Tail(commands),
         UNCHANGED <<holder, attempt>>,
         \A k \in Callers : calls'[k].st \in {calls[k].st, "gone", "timeout"},
         \A c \in Conns : conn'[c].up = conn[c].up /\ conn'[c].down \in {conn[c].down, <<>>}
  PROVE  LinkTypes' /\ Placed'
  <1>1. LinkTypes'
    <2>1. <<>> \in Seq(Line)
      OBVIOUS
    <2>2. AttemptTypes' /\ holder' \in Conns \cup {0}
      BY Zenon DEF LinkTypes, AttemptTypes
    <2>3. commands \in Seq(Line)
      BY Zenon DEF LinkTypes
    <2>4. commands # <<>> => Tail(commands) \in Seq(Line)
      BY Zenon, <2>3, TailOf
    <2>5. commands' \in Seq(Line)
      <3> DEFINE t == Tail(commands)
      <3>1. CASE commands' = t /\ commands # <<>>
        BY Zenon, <2>4, <3>1
      <3>2. CASE commands' \in {commands, <<>>}
        BY <2>1, <2>3, <3>2, ZenonT(30)
      <3> QED BY <3>1, <3>2, Zenon
    <2> QED BY Zenon, <2>2, <2>5 DEF LinkTypes
  <1>2. \A k, s : Thinner(<<>>, s, k) /\ FewerResponses(<<>>, s, k)
    <2>1. DOMAIN <<>> = {}
      OBVIOUS
    <2> QED BY Zenon, <2>1 DEF Thinner, FewerResponses, Has, HasResponse, Once
  <1>3. ASSUME NEW k \in Callers PROVE OnePlace(k)' /\ Settled(k)'
    <2>1. Unmoved(k)
      BY Zenon, <1>3 DEF Unmoved
    <2>2. Thinner(commands', commands, k)
      <3>1. CASE commands # <<>> /\ commands' = Tail(commands)
        BY Zenon, <3>1, TailOf DEF LinkTypes, Thinner
      <3> QED BY Zenon, <1>2, <3>1, SameIsThinner
    <2>3. \A c \in Conns : /\ Thinner(conn'[c].up, conn[c].up, k)
                           /\ FewerResponses(conn'[c].down, conn[c].down, k)
      BY Zenon, <1>2, SameIsThinner
    <2> QED BY Zenon, <1>3, <2>1, <2>2, <2>3, Fewer DEF Placed
  <1> QED BY Zenon, <1>1, <1>3 DEF Placed

\* Calls end, all those that meet a condition.
LEMMA EndedCalls ==
  ASSUME CallTypes, NEW S \in SUBSET Callers,
         calls' = [k \in Callers |-> IF k \in S THEN [calls[k] EXCEPT !.st = "gone"] ELSE calls[k]]
  PROVE  CallTypes' /\ \A k \in Callers : calls'[k].st \in {calls[k].st, "gone"}
  <1>1. ASSUME NEW k \in Callers
        PROVE  CallShape(calls'[k]) /\ calls'[k].st \in {calls[k].st, "gone"}
    <2>1. CallShape(calls[k]) /\ calls'[k] \in {calls[k], [calls[k] EXCEPT !.st = "gone"]}
      BY Zenon, <1>1 DEF CallTypes
    <2> QED BY Zenon, <2>1 DEF CallShape, States
  <1> QED BY Zenon, <1>1 DEF CallTypes

\* The connection is lost, the caller gives up, the application is closed.
LEMMA LossPlaces ==
  ASSUME LinkTypes, Placed, GuiEof \/ Quit \/ (\E k \in Callers : CallTimeout(k))
  PROVE  LinkTypes' /\ Placed'
  <1>0. CallTypes /\ GuiTypes /\ conn \in [Conns -> Connection]
    BY Zenon DEF LinkTypes
  <1>1. ASSUME NEW c \in Conns, conn' = [conn EXCEPT ![c].down = <<>>]
        PROVE  /\ conn' \in [Conns -> Connection]
               /\ \A d \in Conns : /\ conn'[d].up = conn[d].up
                                   /\ conn'[d].down \in {conn[d].down, <<>>}
    <2>1. ConnIs(c, conn[c].up, <<>>)
      <3>1. <<>> \in Seq(Line)
        OBVIOUS
      <3> QED BY Zenon, <1>0, <1>1, <3>1, DownReplaced
    <2> QED BY Zenon, <2>1 DEF ConnIs
  <1>2. CASE GuiEof
    <2>1. gui.conn \in Conns
      BY Zenon, <1>0, <1>2 DEF GuiEof, GuiTypes
    <2>2. GuiTypes'
      BY Zenon, <1>0, <1>2 DEF GuiEof, Lost, GuiTypes, Live
    <2> DEFINE S == {k \in Callers : calls[k].st = "sent"}
    <2>3. calls' = [k \in Callers |-> IF k \in S THEN [calls[k] EXCEPT !.st = "gone"] ELSE calls[k]]
      BY Zenon, <1>2 DEF GuiEof, Lost
    <2>4. CallTypes' /\ \A k \in Callers : calls'[k].st \in {calls[k].st, "gone"}
      <3> HIDE DEF S
      <3>1. S \in SUBSET Callers
        BY Zenon DEF S
      <3> QED BY Zenon, <1>0, <2>3, <3>1, EndedCalls
    <2>5. /\ conn' = [conn EXCEPT ![gui.conn].down = <<>>]
          /\ UNCHANGED <<commands, holder, attempt>>
      BY Zenon, <1>2 DEF GuiEof, Lost
    <2> QED BY Zenon, <1>1, <2>1, <2>2, <2>4, <2>5, ForgetPlaces
  <1>3. CASE Quit
    <2>2. GuiTypes'
      BY Zenon, <1>0, <1>3 DEF Quit, GuiTypes, Live
    <2> DEFINE S == {k \in Callers : Unfinished(k)}
    <2>3. calls' = [k \in Callers |-> IF k \in S THEN [calls[k] EXCEPT !.st = "gone"] ELSE calls[k]]
      BY Zenon, <1>3 DEF Quit
    <2>4. CallTypes' /\ \A k \in Callers : calls'[k].st \in {calls[k].st, "gone"}
      <3> HIDE DEF S
      <3>1. S \in SUBSET Callers
        BY Zenon DEF S
      <3> QED BY Zenon, <1>0, <2>3, <3>1, EndedCalls
    <2>5. /\ commands' = <<>> /\ UNCHANGED <<holder, attempt>>
          /\ conn' = IF Live THEN [conn EXCEPT ![gui.conn].down = <<>>] ELSE conn
      BY Zenon, <1>3 DEF Quit
    <2>6. /\ conn' \in [Conns -> Connection]
          /\ \A d \in Conns : conn'[d].up = conn[d].up /\ conn'[d].down \in {conn[d].down, <<>>}
      BY Zenon, <1>0, <1>1, <2>5 DEF GuiTypes
    <2> QED BY Zenon, <2>2, <2>4, <2>5, <2>6, ForgetPlaces
  <1>4. ASSUME NEW j \in Callers, CallTimeout(j) PROVE LinkTypes' /\ Placed'
    <2>1. /\ calls' = [calls EXCEPT ![j].st = "timeout"]
          /\ UNCHANGED <<plan, conn, holder, attempt, gui, commands>>
      BY Zenon, <1>4 DEF CallTimeout
    <2>2. CallTypes' /\ \A k \in Callers : calls'[k].st \in {calls[k].st, "timeout"}
      <3>1. ASSUME NEW k \in Callers
            PROVE  CallShape(calls'[k]) /\ calls'[k].st \in {calls[k].st, "timeout"}
        <4>1. /\ CallShape(calls[k])
              /\ calls'[k] \in {calls[k], [calls[k] EXCEPT !.st = "timeout"]}
          BY Zenon, <1>0, <2>1, <3>1 DEF CallTypes
        <4> QED BY Zenon, <4>1 DEF CallShape, States
      <3>2. calls' = [k \in Callers |-> calls'[k]]
        BY Zenon, <1>0, <2>1 DEF CallTypes
      <3> QED BY Zenon, <3>1, <3>2 DEF CallTypes
    <2>3. GuiTypes'
      BY Zenon, <1>0, <2>1 DEF GuiTypes, Live
    <2> QED BY Zenon, <1>0, <2>1, <2>2, <2>3, ForgetPlaces
  <1> QED BY Zenon, <1>2, <1>3, <1>4

\* The GUI connects again, or drops a line in the handshake.
LEMMA HelloPlaces ==
  ASSUME LinkTypes, Placed, Connect \/ HelloLine
  PROVE  LinkTypes' /\ Placed'
  <1>0. GuiTypes /\ conn \in [Conns -> Connection] /\ holder \in Conns \cup {0}
    BY Zenon DEF LinkTypes
  <1>1. CASE Connect
    <2> DEFINE r == [at |-> "open", pump |-> TRUE, up |-> <<Hello>>, down |-> <<>>]
    <2>1. PICK c \in Conns : c = gui.conn + 1
      BY <1>0, <1>1, LinkAssumption DEF Connect, GuiTypes, Conns
    <2>2. /\ conn' = [conn EXCEPT ![c] = r] /\ UNCHANGED <<plan, commands, calls, attempt, holder>>
          /\ gui' = [at |-> "hello", conn |-> c, same |-> gui.same]
      BY Zenon, <1>1, <2>1 DEF Connect
    <2>3. r \in Connection /\ r.up = <<Hello>> /\ r.down = <<>>
      <3>1. <<Hello>> \in Seq(Line) /\ <<>> \in Seq(Line)
        BY SMTT(30), LinesAre
      <3> QED BY Zenon, <3>1 DEF Connection
    <2>4. GuiTypes'
      BY SMTT(30), <1>0, <2>2, LinkAssumption DEF GuiTypes, Conns
    <2> HIDE DEF r
    <2>5. ConnIs(c, <<Hello>>, <<>>)
      BY ZenonT(30), <1>0, <2>2, <2>3, Replaced
    <2>6. \A k, s : Thinner(<<Hello>>, s, k) /\ FewerResponses(<<>>, s, k)
      <3>1. DOMAIN <<Hello>> = {1} /\ DOMAIN <<>> = {} /\ <<Hello>>[1] = Hello
        OBVIOUS
      <3>2. Hello.type # "request"
        BY DEF Hello
      <3>3. \A k : Once(<<Hello>>, k) /\ ~Has(<<Hello>>, k) /\ ~HasResponse(<<>>, k)
        BY Zenon, <3>1, <3>2 DEF Has, HasResponse, Once, IsRequest
      <3> QED BY Zenon, <3>3 DEF Thinner, FewerResponses
    <2> QED BY ZenonT(30), <1>0, <2>2, <2>4, <2>5, <2>6, ThereMoves
  <1>2. CASE HelloLine
    <2>1. PICK c \in Conns : c = gui.conn
      BY Zenon, <1>0, <1>2 DEF HelloLine, GuiTypes, Live
    <2>2. /\ conn' = [conn EXCEPT ![c].down = Tail(conn[c].down)] /\ conn[c].down # <<>>
          /\ UNCHANGED <<plan, commands, calls, attempt, holder>>
      BY Zenon, <1>2, <2>1 DEF HelloLine
    <2>3. GuiTypes'
      BY Zenon, <1>0, <1>2 DEF HelloLine, GuiTypes, Live
    <2>4. conn[c].down \in Seq(Line)
      BY Zenon, <1>0 DEF Connection
    <2> DEFINE down == Tail(conn[c].down)
    <2>5. down \in Seq(Line) /\ \A k : FewerResponses(down, conn[c].down, k)
      BY Zenon, <2>2, <2>4, TailOf DEF FewerResponses
    <2>6. conn' = [conn EXCEPT ![c].down = down]
      BY Zenon, <2>2
    <2> HIDE DEF down
    <2>7. ConnIs(c, conn[c].up, down)
      BY Zenon, <1>0, <2>5, <2>6, DownReplaced
    <2> QED BY Zenon, <1>0, <2>2, <2>3, <2>5, <2>7, ThereMoves, SameIsThinner
  <1> QED BY Zenon, <1>1, <1>2

\* The GUI reads a line: a response answers its own call, of which nothing is
\* left on the way out.
LEMMA IncomingPlaces == ASSUME LinkTypes, Placed, HandleIncoming PROVE LinkTypes' /\ Placed'
  <1>0. /\ GuiTypes /\ conn \in [Conns -> Connection] /\ CallTypes
    BY Zenon DEF LinkTypes
  <1>1. PICK c \in Conns : c = gui.conn
    BY Zenon, <1>0 DEF HandleIncoming, GuiTypes, Live
  <1> DEFINE down == Tail(conn[c].down)
             m == Head(conn[c].down)
  <1>2. /\ conn' = [conn EXCEPT ![c].down = down] /\ conn[c].down # <<>>
        /\ UNCHANGED <<plan, commands, gui, attempt, holder>>
        /\ calls' = IF m.type = "response" THEN ResponseTo(m.call) ELSE calls
    BY Zenon, <1>1 DEF HandleIncoming
  <1>3. conn[c].down \in Seq(Line)
    BY Zenon, <1>0 DEF Connection
  <1>4. /\ down \in Seq(Line) /\ m \in Line
        /\ \A k : FewerResponses(down, conn[c].down, k)
        /\ \A k : m.type = "response" /\ m.call = k => HasResponse(conn[c].down, k)
    BY Zenon, <1>2, <1>3, TailOf DEF FewerResponses
  <1> HIDE DEF down
  <1>5. ConnIs(c, conn[c].up, down)
    BY Zenon, <1>0, <1>2, <1>4, DownReplaced
  <1>6. CASE calls' = calls
    <2>1. GuiTypes' /\ holder' \in Conns \cup {0}
      BY Zenon, <1>0, <1>2 DEF LinkTypes, GuiTypes, Live
    <2> QED BY Zenon, <1>2, <1>4, <1>5, <1>6, <2>1, ThereMoves, SameIsThinner
  <1>7. ASSUME m.type = "response", calls[m.call].st = "sent",
               calls' = [calls EXCEPT ![m.call].st = "answered"]
        PROVE  LinkTypes' /\ Placed'
    <2>1. PICK j \in Callers : j = m.call
      BY Zenon, <1>4, <1>7, LineIs
    <2>2. calls' = [calls EXCEPT ![j].st = "answered"]
      BY Zenon, <1>7, <2>1
    <2>3. /\ CallShape(calls'[j]) /\ calls'[j].st = "answered"
          /\ \A k \in Callers : k # j => calls'[k] = calls[k]
          /\ calls' = [k \in Callers |-> calls'[k]]
      <3>1. CallShape(calls[j]) /\ calls'[j] = [calls[j] EXCEPT !.st = "answered"]
        BY Zenon, <1>0, <2>2 DEF CallTypes
      <3>2. CallShape(calls'[j]) /\ calls'[j].st = "answered"
        BY Zenon, <3>1 DEF CallShape, States
      <3>3. /\ \A k \in Callers : k # j => calls'[k] = calls[k]
            /\ calls' = [k \in Callers |-> calls'[k]]
        BY Zenon, <1>0, <2>2 DEF CallTypes
      <3> QED BY Zenon, <3>2, <3>3
    <2>4. LinkTypes'
      <3>1. CallTypes'
        BY ZenonT(30), <1>0, <2>3 DEF CallTypes
      <3> QED BY Zenon, <1>2, <1>5, <3>1 DEF LinkTypes, GuiTypes, Live, AttemptTypes, ConnIs
    <2>5. ASSUME NEW k \in Callers, k # j PROVE OnePlace(k)' /\ Settled(k)'
      <3>1. Unmoved(k) /\ Thinner(commands', commands, k)
        BY Zenon, <1>2, <2>3, <2>5, SameIsThinner DEF Unmoved
      <3> QED BY ZenonT(30), <1>4, <1>5, <2>5, <3>1, FewerThere, SameIsThinner DEF Placed
    <2>6. OnePlace(j)' /\ Settled(j)'
      <3>1. HasResponse(conn[c].down, j) /\ OnePlace(j)
        BY Zenon, <1>4, <1>7, <2>1 DEF Placed
      <3>2. /\ ~Has(commands, j) /\ Once(commands, j) /\ attempt.call # j
            /\ \A d \in Conns : ~Has(conn[d].up, j) /\ Once(conn[d].up, j)
        BY Zenon, <3>1 DEF OnePlace
      <3>3. \A d \in Conns : conn'[d].up = conn[d].up
        BY Zenon, <1>5 DEF ConnIs
      <3> QED BY Zenon, <1>2, <2>3, <3>2, <3>3 DEF OnePlace, Settled
    <2> QED BY Zenon, <2>4, <2>5, <2>6 DEF Placed
  <1> QED BY Zenon, <1>2, <1>6, <1>7 DEF ResponseTo

\* The actor takes a command: a request goes from its channel to the
\* connection, or ends with it when it is too large to encode.
LEMMA CommandPlaces == ASSUME LinkTypes, Placed, HandleCommand PROVE LinkTypes' /\ Placed'
  <1>0. /\ GuiTypes /\ conn \in [Conns -> Connection] /\ CallTypes /\ commands \in Seq(Line)
    BY Zenon DEF LinkTypes
  <1>1. PICK c \in Conns : c = gui.conn
    BY Zenon, <1>0 DEF HandleCommand, GuiTypes, Live
  <1> DEFINE m == Head(commands)
             sent == IF m.type = "request" /\ calls[m.call].st = "queued"
                     THEN [calls EXCEPT ![m.call] = [st |-> "sent", kind |-> @.kind, conn |-> gui.conn]]
                     ELSE calls
  <1>2. /\ commands # <<>> /\ commands' = Tail(commands) /\ UNCHANGED <<plan, holder, attempt>>
        /\ \/ /\ gui' = [gui EXCEPT !.at = "down"]
              /\ conn' = [conn EXCEPT ![c].down = <<>>]
              /\ calls' = [k \in Callers |->
                            IF sent[k].st = "sent" THEN [sent[k] EXCEPT !.st = "gone"] ELSE sent[k]]
           \/ /\ calls' = sent /\ gui' = gui
              /\ conn' = [conn EXCEPT ![c].up = Append(@, m)]
    BY Zenon, <1>1 DEF HandleCommand
  <1>3. m \in Line
    BY <1>0, <1>2, TailOf, Zenon
  <1>4. ASSUME NEW k \in Callers
        PROVE  /\ CallShape(sent[k])
               /\ \/ sent[k] = calls[k]
                  \/ IsRequest(m, k) /\ calls[k].st = "queued" /\ sent[k].st = "sent"
    <2>1. CallShape(calls[k])
      BY ZenonT(30), <1>0, <1>4 DEF CallTypes
    <2>2. CASE m.type = "request" /\ calls[m.call].st = "queued" /\ k = m.call
      <3>1. sent[k] = [st |-> "sent", kind |-> calls[k].kind, conn |-> gui.conn]
        BY Zenon, <1>0, <1>4, <2>2 DEF CallTypes
      <3> QED BY <2>2, <3>1 DEF CallShape, States, IsRequest
    <2>3. CASE ~(m.type = "request" /\ calls[m.call].st = "queued" /\ k = m.call)
      <3>1. sent[k] = calls[k]
        BY Zenon, <1>0, <1>4, <2>3 DEF CallTypes
      <3> QED BY Zenon, <2>1, <3>1
    <2> QED BY Zenon, <2>2, <2>3
  <1>5. sent = [k \in Callers |-> sent[k]]
    BY Zenon, <1>0 DEF CallTypes
  <1> HIDE DEF sent, m
  <1>6. CASE /\ gui' = [gui EXCEPT !.at = "down"] /\ conn' = [conn EXCEPT ![c].down = <<>>]
             /\ calls' = [k \in Callers |->
                            IF sent[k].st = "sent" THEN [sent[k] EXCEPT !.st = "gone"] ELSE sent[k]]
    <2>1. GuiTypes'
      BY Zenon, <1>0, <1>2, <1>6 DEF GuiTypes, Live
    <2>2. /\ conn' \in [Conns -> Connection]
          /\ \A d \in Conns : conn'[d].up = conn[d].up /\ conn'[d].down \in {conn[d].down, <<>>}
      <3>1. <<>> \in Seq(Line)
        OBVIOUS
      <3>2. ConnIs(c, conn[c].up, <<>>)
        BY Zenon, <1>0, <1>6, <3>1, DownReplaced
      <3> QED BY Zenon, <3>2 DEF ConnIs
    <2>3. ASSUME NEW k \in Callers
          PROVE  CallShape(calls'[k]) /\ calls'[k].st \in {calls[k].st, "gone"}
      <3>1. CASE sent[k].st = "sent"
        <4>1. calls'[k] = [sent[k] EXCEPT !.st = "gone"] /\ CallShape(sent[k])
          BY Zenon, <1>4, <1>6, <2>3, <3>1
        <4> QED BY Zenon, <4>1 DEF CallShape, States
      <3>2. CASE sent[k].st # "sent"
        BY Zenon, <1>4, <1>6, <2>3, <3>2
      <3> QED BY Zenon, <3>1, <3>2
    <2>4. CallTypes'
      BY Zenon, <1>6, <2>3 DEF CallTypes
    <2> QED BY SMTT(30), <1>2, <2>1, <2>2, <2>3, <2>4, ForgetPlaces
  <1>7. CASE /\ calls' = sent /\ gui' = gui /\ conn' = [conn EXCEPT ![c].up = Append(@, m)]
    <2> DEFINE up == Append(conn[c].up, m)
    <2>1. conn[c].up \in Seq(Line) /\ up \in Seq(Line) /\ conn' = [conn EXCEPT ![c].up = up]
      BY <1>0, <1>3, <1>7 DEF Connection
    <2>2. ConnIs(c, up, conn[c].down)
      <3> HIDE DEF up
      <3> QED BY Zenon, <1>0, <2>1, UpReplaced
    <2>3. LinkTypes'
      <3>1. CallTypes'
        BY Zenon, <1>4, <1>5, <1>7 DEF CallTypes
      <3>2. commands' \in Seq(Line) /\ conn' \in [Conns -> Connection]
        BY Zenon, <1>0, <1>2, <2>2, TailOf DEF ConnIs
      <3> QED BY Zenon, <1>2, <1>7, <3>1, <3>2 DEF LinkTypes, GuiTypes, Live, AttemptTypes
    <2>4. ASSUME NEW k \in Callers, ~IsRequest(m, k) PROVE OnePlace(k)' /\ Settled(k)'
      <3>1. Thinner(commands', commands, k)
        BY Zenon, <1>0, <1>2, TailOf DEF Thinner
      <3>2. Thinner(up, conn[c].up, k)
        BY <1>3, <2>1, <2>4, AppendTo DEF Thinner
      <3>3. Unmoved(k)
        BY Zenon, <1>2, <1>4, <1>7, <2>4 DEF Unmoved
      <3> HIDE DEF up
      <3> QED BY Zenon, <2>2, <2>4, <3>1, <3>2, <3>3, FewerThere, SameIsThinner DEF Placed
    <2>5. ASSUME NEW k \in Callers, IsRequest(m, k) PROVE OnePlace(k)' /\ Settled(k)'
      <3>1. OnePlace(k) /\ Settled(k)
        BY Zenon, <2>5 DEF Placed
      <3>2. Once(commands, k) /\ Has(commands, k)
        BY Zenon, <1>0, <1>2, <2>5, <3>1, TailOf DEF OnePlace, m
      <3>3. ~Has(commands', k) /\ Once(commands', k)
        BY Zenon, <1>0, <1>2, <2>5, <3>2, TailOf DEF m
      <3>4. /\ attempt.call # k /\ calls[k].st \notin {"idle", "answered"}
            /\ \A d \in Conns : /\ ~Has(conn[d].up, k) /\ Once(conn[d].up, k)
                                /\ ~HasResponse(conn[d].down, k)
        BY Zenon, <3>1, <3>2 DEF OnePlace, Settled
      <3>5. Once(up, k)
        BY <1>3, <2>1, <3>4, AppendTo
      <3> HIDE DEF up
      <3>6. /\ \A d \in Conns : Once(conn'[d].up, k) /\ ~HasResponse(conn'[d].down, k)
            /\ \A d \in Conns : d # c => ~Has(conn'[d].up, k)
        BY Zenon, <2>2, <3>4, <3>5 DEF ConnIs
      <3>7. calls'[k].st \notin {"idle", "answered"} /\ attempt'.call # k
        BY Zenon, <1>2, <1>4, <1>7, <2>5, <3>4
      <3> QED BY Zenon, <3>3, <3>6, <3>7 DEF OnePlace, Settled
    <2> QED BY Zenon, <2>3, <2>4, <2>5 DEF Placed
  <1> QED BY Zenon, <1>2, <1>6, <1>7 DEF m

-----------------------------------------------------------------------------
(* The messages the daemon pushes.                                         *)

\* A prompt, a cancellation or an event is sent.
LEMMA PushAdds ==
  ASSUME PushTypes, NEW m \in Pushed, Push(m)
  PROVE  outbound' \in Seq(Pushed)
  BY DEF PushTypes, Push

\* Only prompts, cancellations and events leave over `outbound`.
LEMMA PushStep == ASSUME PInv, PushTypes, [LinkNext]_guiVars PROVE PushTypes'
  <1>0. /\ ask.id \in Nat /\ attempt.prompt \in Nat /\ issued \in Nat /\ pending \subseteq Nat
        /\ outbound \in Seq(Pushed)
    BY Zenon DEF PushTypes, PInv, Numbered
  <1>1. outbound' \in Seq(Pushed)
    <2>1. CASE UNCHANGED outbound
      BY Zenon, <1>0, <2>1
    <2>2. CASE outbound # <<>> /\ outbound' = Tail(outbound)
      BY Zenon, <1>0, <2>2, TailOf
    <2>3. CASE outbound' = <<>>
      BY <2>3
    <2>4. CASE \E m \in Pushed : Push(m)
      BY Zenon, <2>4, PushAdds
    <2>5. CASE AttemptStep
      <3>1. CASE SendStep
        <4>1. /\ Prompted(ask.id) \in Pushed /\ Cancelled(ask.id) \in Pushed
              /\ Cancelled(attempt.prompt) \in Pushed
          BY Zenon, <1>0, LinesAre
        <4> QED BY Zenon, <3>1, <4>1, <2>1, <2>4 DEF SendStep, SendPrompt, AnnounceExpiry,
                  AnnounceWithdrawal, Announce, broker
      <3> QED BY Zenon, <2>1, <2>5, <3>1 DEF AttemptStep, AskReturns, DropAsk, AttemptSettles, Withdraw,
                WithdrawAll, Report, Panics, TakeReply, PromptTimeout, broker
    <2>6. CASE Openvpn
      BY ZenonT(30), <2>1, <2>4, <2>6, LinesAre DEF Openvpn, Question, BeginAsk, VpnExits, DropAsk, Emit
    <2>7. CASE Dispatch
      BY <2>1, <2>7 DEF Dispatch, DispatchHello, DispatchReply, Deliver, DispatchConnect,
           DispatchDisconnect, Abandoned, DropAsk, DispatchOther, broker
    <2>8. CASE Pump \/ Drain \/ Shutdown \/ \E c \in Conns : TakeLease(c) \/ ConnStep(c)
      BY Zenon, <2>1, <2>2, <2>3, <2>8 DEF Pump, Drain, Shutdown, TakeLease, ConnStep, ReadBrim, ReadEof,
           ConnectionEnds, Release, broker
    <2>9. CASE GuiStep
      BY Zenon, <2>1, <2>9 DEF GuiStep, Connect, GuiEof, HelloLine, HandleIncoming, HandleCommand, broker
    <2>10. CASE User /\ ~Shutdown
      BY Zenon, <2>1, <2>10 DEF User, CallTimeout, Call, Reply, Quit, Start, broker
    <2>11. CASE UNCHANGED guiVars
      BY Zenon, <2>1, <2>11 DEF guiVars, broker
    <2> QED BY Zenon, <2>5, <2>6, <2>7, <2>8, <2>9, <2>10, <2>11 DEF LinkNext, User
  <1>2. ask'.id \in Nat /\ attempt'.prompt \in Nat /\ pending' \subseteq Nat
    <2>1. CASE UNCHANGED <<ask, attempt>> /\ pending' \subseteq pending
      BY Zenon, <1>0, <2>1
    <2>2. ASSUME ask'.id \in {ask.id, 0}, attempt'.prompt \in {attempt.prompt, 0},
                 pending' \subseteq pending
          PROVE  ask'.id \in Nat /\ attempt'.prompt \in Nat /\ pending' \subseteq Nat
      BY <1>0, <2>2
    <2>3. ASSUME NEW where, Attempt(where) PROVE attempt'.prompt = attempt.prompt
      BY Zenon, <2>3 DEF Attempt, PInv, Shaped
    <2>4. ASSUME DropAsk PROVE ask'.id = 0 /\ pending' = pending
      BY Zenon, <2>4 DEF DropAsk, NoAsk
    <2>5. CASE AttemptStep
      <3>1. CASE (SendPrompt \/ AnnounceExpiry \/ TakeReply \/ PromptTimeout) /\ UNCHANGED linkVars
        <4>1. ask'.id = ask.id /\ pending' \subseteq pending
          BY Zenon, <3>1 DEF SendPrompt, AnnounceExpiry, TakeReply, PromptTimeout, PInv, Shaped
        <4> QED BY Zenon, <2>2, <3>1, <4>1 DEF linkVars
      <3>2. CASE AskReturns
        BY Zenon, <2>2, <2>3, <2>4, <3>2 DEF AskReturns
      <3>3. CASE AttemptSettles \/ AnnounceWithdrawal
        <4>1. UNCHANGED <<ask, pending>> /\ attempt'.prompt = attempt.prompt
          BY Zenon, <2>3, <3>3 DEF AttemptSettles, AnnounceWithdrawal, Announce, broker
        <4> QED BY Zenon, <2>2, <4>1
      <3>4. CASE Withdraw
        <4>1. ask' = ask /\ pending' = {}
          BY Zenon, <3>4 DEF Withdraw, WithdrawAll
        <4>2. CASE pending = {}
          <5>1. attempt'.prompt = attempt.prompt
            BY Zenon, <3>4, <4>2 DEF Withdraw, PInv, Shaped
          <5> QED BY Zenon, <2>2, <4>1, <5>1
        <4>3. CASE pending # {}
          <5>1. attempt'.prompt = CHOOSE i \in pending : TRUE
            BY Zenon, <3>4, <4>3 DEF Withdraw
          <5>2. attempt'.prompt \in pending
            BY Zenon, <4>3, <5>1
          <5> QED BY Zenon, <1>0, <4>1, <5>2
        <4> QED BY Zenon, <4>2, <4>3
      <3>5. CASE Report
        BY Zenon, <2>2, <3>5 DEF Report, NoAttempt, broker
      <3>6. CASE Panics
        BY Zenon, <2>2, <3>6 DEF Panics, LostAttempt, broker
      <3> QED BY Zenon, <2>5, <3>1, <3>2, <3>3, <3>4, <3>5, <3>6 DEF AttemptStep, SendStep
    <2>6. CASE Openvpn
      <3>1. ASSUME NEW wants, Question(wants)
            PROVE  ask'.id \in Nat /\ attempt'.prompt \in Nat /\ pending' \subseteq Nat
        BY <1>0, <3>1 DEF Question, BeginAsk
      <3>2. CASE VpnExits
        BY Zenon, <2>2, <2>3, <2>4, <3>2 DEF VpnExits
      <3>3. CASE Emit /\ UNCHANGED linkVars
        BY Zenon, <2>1, <3>3 DEF Emit, linkVars
      <3> QED BY Zenon, <2>6, <3>1, <3>2, <3>3 DEF Openvpn
    <2>7. CASE Dispatch
      <3> DEFINE Handled(c, i) ==
              \/ DispatchHello(c, i, conn[c].up[i]) \/ DispatchReply(c, i, conn[c].up[i])
              \/ DispatchConnect(c, i, conn[c].up[i])
              \/ DispatchDisconnect(c, i, conn[c].up[i])
              \/ DispatchOther(c, i, conn[c].up[i])
      <3>1. PICK c \in Conns : \E i \in DOMAIN conn[c].up : Handled(c, i)
        BY Zenon, <2>7 DEF Dispatch
      <3>2. PICK i \in DOMAIN conn[c].up : Handled(c, i)
        BY Zenon, <3>1
      <3> DEFINE m == conn[c].up[i]
      <3>3. CASE DispatchHello(c, i, m) \/ DispatchOther(c, i, m)
        BY Zenon, <2>1, <3>3 DEF DispatchHello, DispatchOther, broker
      <3>4. CASE DispatchReply(c, i, m)
        <4>1. ask'.id = ask.id /\ pending' \subseteq pending /\ attempt' = attempt
          BY Zenon, <3>4 DEF DispatchReply, Deliver, PInv, Shaped
        <4> QED BY Zenon, <2>2, <4>1
      <3>5. CASE DispatchConnect(c, i, m)
        BY <2>2, <3>5 DEF DispatchConnect, broker
      <3>6. CASE DispatchDisconnect(c, i, m)
        BY Zenon, <2>1, <2>2, <2>3, <2>4, <3>6 DEF DispatchDisconnect, Abandoned, broker
      <3> QED BY ZenonT(30), <3>2, <3>3, <3>4, <3>5, <3>6
    <2>8. CASE Drain
      BY Zenon, <2>2, <2>8 DEF Drain, NoAsk, NoAttempt
    <2>9. CASE Pump \/ Shutdown \/ \E c \in Conns : TakeLease(c) \/ ConnStep(c)
      BY Zenon, <2>1, <2>9 DEF Pump, Shutdown, TakeLease, ConnStep, ReadBrim, ReadEof, ConnectionEnds,
           broker
    <2>10. CASE GuiStep
      BY Zenon, <2>1, <2>10 DEF GuiStep, Connect, GuiEof, HelloLine, HandleIncoming, HandleCommand, broker
    <2>11. CASE User /\ ~Shutdown
      BY Zenon, <2>1, <2>11 DEF User, CallTimeout, Call, Reply, Quit, Start, broker
    <2>12. CASE UNCHANGED guiVars
      BY Zenon, <2>1, <2>12 DEF guiVars, broker, linkVars
    <2> QED BY Zenon, <2>5, <2>6, <2>7, <2>8, <2>9, <2>10, <2>11, <2>12 DEF LinkNext, User
  <1> QED BY Zenon, <1>1, <1>2 DEF PushTypes

-----------------------------------------------------------------------------
(* The theorem.                                                            *)

\* Every step leaves every call in its one place.
LEMMA PlacesStep ==
  ASSUME PInv, CInv, [LinkNext]_guiVars
  PROVE  LinkTypes' /\ Placed'
  <1>0. PushTypes /\ LinkTypes /\ Placed
    BY Zenon DEF CInv
  <1>1. CASE AttemptStep \/ Openvpn
    <2>1. CASE Report
      BY Zenon, <1>0, <2>1, ReportPlaces
    <2>2. ASSUME NEW where, where # "idle", Attempt(where)
          PROVE  /\ attempt'.at # "idle"
                 /\ attempt'.call = attempt.call /\ attempt'.conn = attempt.conn
      BY Zenon, <2>2 DEF Attempt, PInv, Shaped
    <2>3. CASE AskReturns \/ AttemptSettles \/ AnnounceWithdrawal \/ VpnExits
      <3>1. /\ UNCHANGED <<commands, conn, holder, calls, gui, plan>>
            /\ attempt.at \notin {"idle", "lost"}
            /\ \E where \in {"working", "closing", "reporting", "panicking"} : Attempt(where)
        BY Zenon, <2>3 DEF AskReturns, AttemptSettles, AnnounceWithdrawal, VpnExits, others
      <3> QED BY Zenon, <1>0, <2>2, <3>1, AttemptMoves
    <2>4. CASE Withdraw
      <3>1. /\ UNCHANGED <<commands, conn, holder, calls, gui, plan>>
            /\ attempt.at \notin {"idle", "lost"}
        BY Zenon, <2>4 DEF Withdraw, others
      <3>2. /\ attempt'.at # "idle" /\ attempt'.call = attempt.call
            /\ attempt'.conn = attempt.conn
        BY Zenon, <2>4 DEF Withdraw, PInv, Shaped
      <3> QED BY Zenon, <1>0, <3>1, <3>2, AttemptMoves
    <2>5. CASE UNCHANGED linkVars
      BY Zenon, <1>0, <2>5, AttemptMoves DEF linkVars
    <2>6. CASE \E wants \in BOOLEAN : Question(wants)
      BY Zenon, <1>0, <2>6, AttemptMoves DEF Question, others
    <2>7. CASE Panics
      BY Zenon, <1>0, <2>7, PanicPlaces
    <2> QED BY Zenon, <1>1, <2>1, <2>3, <2>4, <2>5, <2>6, <2>7 DEF AttemptStep, SendStep, Openvpn
  <1>2. CASE Dispatch
    BY Zenon, <1>0, <1>2, DispatchPlaces
  <1>3. CASE Pump
    BY Zenon, <1>0, <1>3, PumpPlaces
  <1>4. CASE Drain
    BY Zenon, <1>0, <1>4, DrainPlaces
  <1>5. ASSUME NEW c \in Conns, TakeLease(c) PROVE LinkTypes' /\ Placed'
    <2>1. UNCHANGED <<plan, conn, attempt, gui, commands, calls>> /\ holder' = c
      BY Zenon, <1>5 DEF TakeLease
    <2>2. LinkTypes'
      BY ZenonT(30), <1>0, <2>1 DEF LinkTypes, CallTypes, GuiTypes, Live, AttemptTypes
    <2>3. Placed'
      BY Zenon, <1>0, <2>1 DEF Placed, OnePlace, Settled
    <2> QED BY Zenon, <2>2, <2>3
  <1>6. ASSUME NEW c \in Conns, ConnStep(c) PROVE LinkTypes' /\ Placed'
    BY Zenon, <1>0, <1>6, ConnPlaces
  <1>7. CASE GuiStep
    BY SMTT(30), <1>0, <1>7, HelloPlaces, LossPlaces, IncomingPlaces, CommandPlaces DEF GuiStep
  <1>8. CASE User
    <2>1. CASE Start
      <3>1. UNCHANGED <<plan, conn, attempt, holder, commands, calls>> /\ GuiTypes'
        BY Zenon, <1>0, <2>1 DEF Start, LinkTypes, GuiTypes, Live
      <3>2. LinkTypes'
        BY Zenon, <1>0, <3>1 DEF LinkTypes, CallTypes, AttemptTypes
      <3>3. Placed'
        BY Zenon, <1>0, <3>1 DEF Placed, OnePlace, Settled
      <3> QED BY Zenon, <3>2, <3>3
    <2> QED BY Zenon, <1>0, <1>8, <2>1, CallPlaces, ReplyPlaces, LossPlaces, ShutdownPlaces DEF User
  <1>9. CASE UNCHANGED guiVars
    BY Zenon, <1>0, <1>9, AttemptMoves DEF guiVars, linkVars
  <1> QED BY Zenon, <1>1, <1>2, <1>3, <1>4, <1>5, <1>6, <1>7, <1>8, <1>9 DEF LinkNext

\* A call whose caller has its answer runs no more, whatever was lost, late or
\* sent over another connection: the response it took was its own (the pending
\* map of the actor, SessionHandler::dispatch).
THEOREM AnsweredMeansOverAlways == LinkSpec => []AnsweredMeansOver
  <1>1. LinkInit => CInv
    <2> SUFFICES ASSUME LinkInit PROVE CInv
      OBVIOUS
    <2>1. PushTypes
      BY DEF LinkInit, BrokerInit, PushTypes, NoAsk, NoAttempt
    <2>2. \A k : ~Has(<<>>, k) /\ ~HasResponse(<<>>, k) /\ Once(<<>>, k)
      <3>1. DOMAIN <<>> = {}
        OBVIOUS
      <3> QED BY Zenon, <3>1 DEF Has, HasResponse, Once
    <2>3. /\ commands = <<>> /\ conn = [c \in Conns |-> NoConn] /\ attempt = NoAttempt
          /\ calls = [k \in Callers |-> NoCall] /\ holder = 0 /\ plan \in Plans
          /\ gui \in [at : {"down"}, conn : {0}, same : BOOLEAN]
      BY Zenon DEF LinkInit
    <2>4. NoConn \in Connection /\ NoConn.up = <<>> /\ NoConn.down = <<>>
      <3>1. <<>> \in Seq(Line)
        OBVIOUS
      <3>2. NoConn \in Connection
        BY <3>1, Zenon DEF NoConn, Connection
      <3> QED BY Zenon, <3>2 DEF NoConn
    <2>5. conn \in [Conns -> Connection] /\ \A c \in Conns : conn[c].up = <<>> /\ conn[c].down = <<>>
      BY Zenon, <2>3, <2>4
    <2>6. CallTypes
      BY Zenon, <2>3 DEF CallTypes, CallShape, NoCall, States
    <2>7. GuiTypes
      BY <2>3, LinkAssumption DEF GuiTypes, Live
    <2>8. AttemptTypes /\ attempt.call \notin Callers
      BY ZenonT(30), <2>3, LinkAssumption DEF AttemptTypes, NoAttempt
    <2>9. LinkTypes
      <3>1. <<>> \in Seq(Line)
        OBVIOUS
      <3>2. commands \in Seq(Line) /\ holder \in Conns \cup {0}
        BY Zenon, <2>3, <3>1
      <3> QED BY Zenon, <2>5, <2>6, <2>7, <2>8, <3>2 DEF LinkTypes
    <2>10. Placed
      BY Zenon, <2>2, <2>3, <2>5, <2>8 DEF Placed, OnePlace, Settled
    <2> QED BY ZenonT(30), <2>1, <2>9, <2>10 DEF CInv
  <1>2. PInv /\ CInv /\ [LinkNext]_guiVars => CInv'
    BY Zenon, PushStep, PlacesStep DEF CInv
  <1>3. CInv => AnsweredMeansOver
    <2> SUFFICES ASSUME CInv, NEW k \in Callers, calls[k].st = "answered"
                 PROVE  attempt.call # k /\ ~Unhandled(k)
      BY Zenon DEF AnsweredMeansOver
    <2>1. attempt.call # k /\ \A c \in Conns : ~Has(conn[c].up, k)
      BY Zenon DEF CInv, Placed, Settled
    <2>2. IsRequest(Request(k), k)
      BY Zenon DEF IsRequest, Request
    <2> QED BY Zenon, <2>1, <2>2 DEF Unhandled, Has
  <1> QED BY <1>1, <1>2, <1>3, PromptInvariance, PTL DEF LinkSpec

===============================================================================
