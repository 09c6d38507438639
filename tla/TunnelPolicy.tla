----------------------------- MODULE TunnelPolicy -----------------------------
(***************************************************************************)
(* Installation, verification, re-assertion and removal of the tunnel      *)
(* policy (daemon/src/policy/plan.rs, policy/mod.rs, policy/reconcile.rs,  *)
(* session/tunnel.rs, session/watchdog.rs).                                *)
(*                                                                         *)
(* Three actors share one kernel: the session, which installs and tears    *)
(* down; the watchdog, which re-asserts a live policy; and other programs  *)
(* on the machine, which delete rules and routes behind the daemon's back. *)
(* The daemon may also crash between any two commands and restart, which   *)
(* runs the startup reconciliation over what is left.                      *)
(*                                                                         *)
(* A policy step is abstracted to the number of copies of it the kernel    *)
(* holds: command lines, addresses and metrics are left out, and a session *)
(* that follows another is taken to use the same addresses, so that what   *)
(* one leaves behind is what the next one meets.  Commands may fail, lie   *)
(* about having worked, or not start at all.                               *)
(***************************************************************************)
EXTENDS Integers, Sequences

CONSTANTS
    Families,       \* Address families the policy may cover
    Plan,           \* The ordered steps the platform backend returned
    Cleanup,        \* Its cleanup commands, in order
    MaxPasses,      \* MAX_PASSES of reconcile.rs
    MaxCopies,      \* Bound: copies of one rule that `ip rule add` can append
    MaxDeletions,   \* Bound: deletions made by other programs
    MaxCrashes,     \* Bound: daemon crashes
    Faults          \* Whether a command or a probe may misbehave

Kinds == {"Backstop", "Floor", "Rule", "TunnelRoute"}

\* Ordering rank within one address family (StepKind).
Rank(kind) ==
    CASE kind = "Backstop" -> 1
      [] kind = "Floor" -> 2
      [] kind = "Rule" -> 3
      [] OTHER -> 4

\* The check Plan::new makes: kinds strictly ascend within a family.
PlanAccepted(steps) ==
    \A i, j \in DOMAIN steps :
        (i < j /\ steps[i].family = steps[j].family)
            => Rank(steps[i].kind) < Rank(steps[j].kind)

Steps == 1..Len(Plan)

\* The steps a cleanup command removes from.
Hit(q) ==
    {i \in Steps : /\ Plan[i].family = q.family
                   /\ Plan[i].kind \in
                        (CASE q.what = "backstop" -> {"Backstop"}
                           [] q.what = "rule" -> {"Rule"}
                           [] OTHER -> {"Floor", "TunnelRoute"})}

ASSUME PlanAssumption ==
    /\ Plan \in Seq([family : Families, kind : Kinds])
    /\ Len(Plan) > 0
    /\ PlanAccepted(Plan)

\* Every step the backend can install is one its cleanup can find.
ASSUME CleanupAssumption ==
    /\ Cleanup \in Seq([family : Families, what : {"backstop", "rule", "table"}])
    /\ \A i \in Steps : \E k \in DOMAIN Cleanup : i \in Hit(Cleanup[k])

ASSUME BoundAssumption ==
    /\ MaxPasses \in Nat /\ MaxCopies \in Nat \ {0}
    /\ MaxDeletions \in Nat /\ MaxCrashes \in Nat
    /\ Faults \in BOOLEAN

VARIABLES
    cnt,        \* The kernel: copies of each step that stand
    op,         \* What the session is doing
    at,         \* The step install, rollback or teardown is working on
    phase,      \* Whether its command or its read-back comes next
    todo,       \* Cleanup commands still to run
    pass,       \* The reconciliation pass under way
    proof,      \* ManagedPolicy.installed holds an InstalledPolicy
    flag,       \* PolicyManager.installed
    lock,       \* Holder of the ManagedPolicy.installed mutex
    wat,        \* The step the watchdog is re-asserting, 0 when asleep
    wphase,     \* Its position within that step
    published,  \* The tunnel identity is published to the proxy
    outcome,    \* What the last operation reported
    tampered,   \* Ghost: steps deleted by others and not seen since
    fresh,      \* Ghost: the install under way began on a clean machine
    deletions,  \* Deletions by others so far
    crashes     \* Crashes so far

session == <<op, at, phase, todo, pass, flag, published, outcome, fresh>>
watchdog == <<wat, wphase>>
bounds == <<deletions, crashes>>
vars == <<cnt, session, watchdog, proof, lock, tampered, bounds>>

-----------------------------------------------------------------------------
(* The kernel, as the commands of policy/linux.rs drive it.                *)

Clean == \A i \in Steps : cnt[i] = 0

\* `ip rule add` appends a copy, `ip route add` refuses an existing route.
CopyLimit(i) == IF Plan[i].kind \in {"Backstop", "Rule"} THEN MaxCopies ELSE 1

\* What running an add can leave: the copy it asked for, or, at fault, nothing.
AfterAdd(i) ==
    (IF cnt[i] < CopyLimit(i) THEN {cnt[i] + 1} ELSE {cnt[i]})
        \cup (IF Faults THEN {cnt[i]} ELSE {})

\* An exit status says little: it can be wrong in both directions.
AddSucceeds(i, n) == IF Faults THEN BOOLEAN ELSE {n > cnt[i]}

\* What running a delete can leave.  It removes at most one copy.
AfterDelete(i) ==
    (IF cnt[i] > 0 THEN {cnt[i] - 1} ELSE {0}) \cup (IF Faults THEN {cnt[i]} ELSE {})

\* A command whose process does not start changes nothing and is an error.
MaySpawnFail == Faults

\* Mutants: a read-back that takes the command's word for it.
TrustsTheAdd(i) == TRUE
TrustsTheDelete(i) == TRUE

\* Check::evaluate: the state must be readable and say what is expected.
ConfirmsPresent(i) == cnt[i] > 0
ConfirmsAbsent(i) == cnt[i] = 0
MayRefute(holds) == Faults \/ ~holds

\* A rule deletion removes one copy, a table flush removes every route.
Flushed(q) ==
    [i \in Steps |-> IF i \notin Hit(q) \/ cnt[i] = 0 THEN cnt[i]
                     ELSE IF q.what = "table" THEN 0 ELSE cnt[i] - 1]

\* stale_cleanup: the cleanup commands that have something to remove.
Leftovers == {k \in DOMAIN Cleanup : \E i \in Hit(Cleanup[k]) : cnt[i] > 0}

NextCleanup(k) == k \in todo /\ \A j \in todo : k <= j

-----------------------------------------------------------------------------
(* Startup reconciliation (reconcile.rs).                                  *)

Finish(result) == op' = "idle" /\ outcome' = result /\ at' = 0 /\ phase' = "run"

\* The head of each pass: enumerate what is left, and decide.
ReconcileScan ==
    /\ op = "reconcile" /\ todo = {}
    /\ \/ /\ Faults     \* An enumeration that fails is fatal.
          /\ Finish("reconcile_failed") /\ UNCHANGED <<todo, pass>>
       \/ /\ Leftovers = {}
          /\ Finish("reconciled") /\ UNCHANGED <<todo, pass>>
       \/ /\ Leftovers # {} /\ pass < MaxPasses
          /\ todo' = Leftovers
          /\ pass' = pass + 1
          /\ UNCHANGED <<op, at, phase, outcome>>
       \/ /\ Leftovers # {} /\ pass = MaxPasses
          /\ Finish("reconcile_failed") /\ UNCHANGED <<todo, pass>>
    /\ UNCHANGED <<cnt, watchdog, proof, lock, flag, published, tampered, fresh, bounds>>

\* One command of run_best_effort: a non-zero exit is tolerated, a command
\* that does not start ends the reconciliation.
ReconcileFlush ==
    /\ op = "reconcile" /\ todo # {}
    /\ \E k \in todo :
        /\ NextCleanup(k)
        /\ \/ /\ cnt' \in {Flushed(Cleanup[k])} \cup (IF Faults THEN {cnt} ELSE {})
              /\ todo' = todo \ {k}
              /\ UNCHANGED <<op, at, phase, outcome>>
           \/ /\ MaySpawnFail
              /\ todo' = {} /\ Finish("reconcile_failed")
              /\ UNCHANGED cnt
    /\ UNCHANGED <<pass, watchdog, proof, lock, flag, published, tampered, fresh, bounds>>

-----------------------------------------------------------------------------
(* PolicyManager::install: cleanup, then the plan in order, each step read *)
(* back, with rollback of the prefix on any failure.                       *)

BeginInstall ==
    /\ op = "idle"
    /\ op' = "cleanup" /\ todo' = DOMAIN Cleanup /\ outcome' = "none"
    /\ fresh' = Clean /\ tampered' = {}
    /\ UNCHANGED <<cnt, at, phase, pass, watchdog, proof, lock, flag, published, bounds>>

CleanupFlush ==
    /\ op = "cleanup" /\ todo # {}
    /\ \E k \in todo :
        /\ NextCleanup(k)
        /\ \/ /\ cnt' \in {Flushed(Cleanup[k])} \cup (IF Faults THEN {cnt} ELSE {})
              /\ todo' = todo \ {k}
              /\ UNCHANGED <<op, at, phase, outcome>>
           \/ /\ MaySpawnFail
              /\ todo' = {} /\ Finish("aborted")
              /\ UNCHANGED cnt
    /\ UNCHANGED <<pass, watchdog, proof, lock, flag, published, tampered, fresh, bounds>>

CleanupDone ==
    /\ op = "cleanup" /\ todo = {}
    /\ op' = "install" /\ at' = 1 /\ phase' = "run"
    /\ UNCHANGED <<cnt, todo, pass, outcome, watchdog, proof, lock, flag, published,
                   tampered, fresh, bounds>>

\* Mutant: the failing step itself is left out of the rollback.
RollbackBelow == at > 1 /\ op' = "rollback" /\ phase' = "run" /\ at' = at - 1

\* The failing step is rolled back too: its command may have had an effect.
Rollback == op' = "rollback" /\ phase' = "run" /\ UNCHANGED at

InstallApply ==
    /\ op = "install" /\ phase = "run"
    /\ \E n \in AfterAdd(at) : \E ok \in AddSucceeds(at, n) :
        /\ cnt' = [cnt EXCEPT ![at] = n]
        /\ IF ok THEN phase' = "check" /\ UNCHANGED <<op, at>> ELSE Rollback
    /\ UNCHANGED <<todo, pass, outcome, watchdog, proof, lock, flag, published, tampered,
                   fresh, bounds>>

InstallVerify ==
    /\ op = "install" /\ phase = "check"
    /\ \/ /\ ConfirmsPresent(at) /\ at < Len(Plan)
          /\ at' = at + 1 /\ phase' = "run"
          /\ tampered' = tampered \ {at}
          /\ UNCHANGED <<op, flag>>
       \/ /\ ConfirmsPresent(at) /\ at = Len(Plan)
          /\ op' = "store" /\ phase' = "run" /\ flag' = TRUE
          /\ tampered' = tampered \ {at}
          /\ UNCHANGED at
       \/ MayRefute(ConfirmsPresent(at)) /\ Rollback /\ UNCHANGED <<flag, tampered>>
    /\ UNCHANGED <<cnt, todo, pass, outcome, watchdog, proof, lock, published, fresh, bounds>>

\* plan::teardown over the prefix ..=index, called from plan::install.
RollbackUndo ==
    /\ op = "rollback" /\ phase = "run"
    /\ \/ /\ \E n \in AfterDelete(at) : cnt' = [cnt EXCEPT ![at] = n]
          /\ phase' = "check" /\ UNCHANGED <<op, at, outcome>>
       \/ MaySpawnFail /\ Finish("rollback_failed") /\ UNCHANGED cnt
    /\ UNCHANGED <<todo, pass, watchdog, proof, lock, flag, published, tampered, fresh, bounds>>

RollbackVerify ==
    /\ op = "rollback" /\ phase = "check"
    /\ \/ /\ ConfirmsAbsent(at) /\ at > 1
          /\ at' = at - 1 /\ phase' = "run" /\ UNCHANGED <<op, outcome>>
       \/ ConfirmsAbsent(at) /\ at = 1 /\ Finish("refused")
       \/ MayRefute(ConfirmsAbsent(at)) /\ Finish("rollback_failed")
    /\ UNCHANGED <<cnt, todo, pass, watchdog, proof, lock, flag, published, tampered, fresh,
                   bounds>>

\* ManagedPolicy::install keeps the proof; only from here on does the
\* watchdog have something to re-assert.
StoreProof ==
    /\ op = "store" /\ lock = "none"
    /\ op' = "up" /\ proof' = TRUE /\ outcome' = "installed"
    /\ UNCHANGED <<cnt, at, phase, todo, pass, watchdog, lock, flag, published, tampered,
                   fresh, bounds>>

-----------------------------------------------------------------------------
(* The session's side of a live policy: publish, revoke, tear down.        *)

\* install_policy: publication is the last thing to happen, or it fails and
\* the policy just installed is torn down.
Publish ==
    /\ op = "up" /\ ~published
    /\ \/ published' = TRUE /\ UNCHANGED op
       \/ op' = "leaving" /\ UNCHANGED published
    /\ UNCHANGED <<cnt, at, phase, todo, pass, flag, outcome, watchdog, proof, lock,
                   tampered, fresh, bounds>>

\* Mutant: the policy goes while the identity stays published.
RevokeForgotten ==
    /\ op = "up" /\ published /\ op' = "leaving"
    /\ UNCHANGED <<cnt, at, phase, todo, pass, flag, published, outcome, watchdog, proof,
                   lock, tampered, fresh, bounds>>

\* teardown_inner: the identity is revoked before anything else.
Revoke ==
    /\ op = "up" /\ published
    /\ published' = FALSE /\ op' = "leaving"
    /\ UNCHANGED <<cnt, at, phase, todo, pass, flag, outcome, watchdog, proof, lock,
                   tampered, fresh, bounds>>

\* Mutants: a teardown that does not wait for a sweep under way, and one that
\* starts a step too low.
TeardownUnguarded ==
    /\ op = "leaving"
    /\ lock' = "session" /\ proof' = FALSE
    /\ op' = "teardown" /\ at' = Len(Plan) /\ phase' = "run"
    /\ UNCHANGED <<cnt, todo, pass, flag, published, outcome, watchdog, tampered, fresh, bounds>>

TeardownOffByOne ==
    /\ op = "leaving" /\ lock = "none"
    /\ lock' = "session" /\ proof' = FALSE
    /\ op' = "teardown" /\ at' = Len(Plan) - 1 /\ phase' = "run"
    /\ UNCHANGED <<cnt, todo, pass, flag, published, outcome, watchdog, tampered, fresh, bounds>>

\* ManagedPolicy::teardown takes the proof and keeps the mutex throughout.
TeardownBegin ==
    /\ op = "leaving" /\ lock = "none"
    /\ lock' = "session" /\ proof' = FALSE
    /\ op' = "teardown" /\ at' = Len(Plan) /\ phase' = "run"
    /\ UNCHANGED <<cnt, todo, pass, flag, published, outcome, watchdog, tampered, fresh, bounds>>

TeardownUndo ==
    /\ op = "teardown" /\ phase = "run"
    /\ \/ /\ \E n \in AfterDelete(at) : cnt' = [cnt EXCEPT ![at] = n]
          /\ phase' = "check" /\ UNCHANGED <<op, at, outcome, lock>>
       \/ MaySpawnFail /\ Finish("teardown_failed") /\ lock' = "none" /\ UNCHANGED cnt
    /\ UNCHANGED <<todo, pass, watchdog, proof, flag, published, tampered, fresh, bounds>>

\* Only a step observed gone lets the teardown go on to the one below it.
TeardownVerify ==
    /\ op = "teardown" /\ phase = "check"
    /\ \/ /\ ConfirmsAbsent(at) /\ at > 1
          /\ at' = at - 1 /\ phase' = "run" /\ UNCHANGED <<op, outcome, lock, flag>>
       \/ /\ ConfirmsAbsent(at) /\ at = 1
          /\ Finish("torn_down") /\ lock' = "none" /\ flag' = FALSE
       \/ /\ MayRefute(ConfirmsAbsent(at))
          /\ Finish("teardown_failed") /\ lock' = "none" /\ UNCHANGED flag
    /\ UNCHANGED <<cnt, todo, pass, watchdog, proof, published, tampered, fresh, bounds>>

-----------------------------------------------------------------------------
(* The watchdog: on a netlink trigger or on its periodic sweep it takes    *)
(* the mutex and walks the plan in install order.                          *)

Wake ==
    /\ proof /\ lock = "none"
    /\ lock' = "watchdog" /\ wat' = 1 /\ wphase' = "probe"
    /\ UNCHANGED <<cnt, session, proof, tampered, bounds>>

\* The next step of the plan, or the end of the sweep.
Advance ==
    IF wat < Len(Plan)
    THEN wat' = wat + 1 /\ wphase' = "probe" /\ UNCHANGED lock
    ELSE wat' = 0 /\ wphase' = "probe" /\ lock' = "none"

\* Mutant: a blanket re-run of the plan.
BlanketReassert ==
    /\ wat > 0 /\ wphase = "probe" /\ wphase' = "apply"
    /\ UNCHANGED <<cnt, session, wat, lock, proof, tampered, bounds>>

\* A step is touched only when the read-back does not find it.
ReassertProbe ==
    /\ wat > 0 /\ wphase = "probe"
    /\ \/ ConfirmsPresent(wat) /\ Advance /\ tampered' = tampered \ {wat}
       \/ /\ MayRefute(ConfirmsPresent(wat))
          /\ wphase' = "apply" /\ UNCHANGED <<wat, lock, tampered>>
    /\ UNCHANGED <<cnt, session, proof, bounds>>

\* A step that cannot be restored is reported and skipped.
ReassertApply ==
    /\ wat > 0 /\ wphase = "apply"
    /\ \E n \in AfterAdd(wat) : \E ok \in AddSucceeds(wat, n) :
        /\ cnt' = [cnt EXCEPT ![wat] = n]
        /\ IF ok THEN wphase' = "check" /\ UNCHANGED <<wat, lock>> ELSE Advance
    /\ UNCHANGED <<session, proof, tampered, bounds>>

ReassertVerify ==
    /\ wat > 0 /\ wphase = "check"
    /\ \/ ConfirmsPresent(wat) /\ tampered' = tampered \ {wat}
       \/ MayRefute(ConfirmsPresent(wat)) /\ UNCHANGED tampered
    /\ Advance
    /\ UNCHANGED <<cnt, session, proof, bounds>>

-----------------------------------------------------------------------------
(* The environment.                                                        *)

\* NetworkManager, another VPN client or a device going down removes a step.
DeletedByOthers ==
    /\ deletions < MaxDeletions
    /\ \E i \in Steps :
        /\ cnt[i] > 0
        /\ cnt' = [cnt EXCEPT ![i] = @ - 1]
        /\ tampered' = tampered \cup {i}
    /\ deletions' = deletions + 1
    /\ UNCHANGED <<session, watchdog, proof, lock, crashes>>

\* The daemon dies; the kernel keeps what it has, and the next run starts by
\* reconciling.
Crash ==
    /\ crashes < MaxCrashes
    /\ crashes' = crashes + 1
    /\ op' = "reconcile" /\ pass' = 0 /\ todo' = {} /\ at' = 0 /\ phase' = "run"
    /\ proof' = FALSE /\ flag' = FALSE /\ lock' = "none"
    /\ wat' = 0 /\ wphase' = "probe" /\ published' = FALSE /\ outcome' = "none"
    /\ fresh' = FALSE
    /\ UNCHANGED <<cnt, tampered, deletions>>

Init ==
    /\ cnt = [i \in Steps |-> 0]
    /\ op = "reconcile" /\ at = 0 /\ phase = "run" /\ todo = {} /\ pass = 0
    /\ proof = FALSE /\ flag = FALSE /\ lock = "none"
    /\ wat = 0 /\ wphase = "probe"
    /\ published = FALSE /\ outcome = "none"
    /\ tampered = {} /\ fresh = FALSE /\ deletions = 0 /\ crashes = 0

Session ==
    \/ ReconcileScan \/ ReconcileFlush
    \/ BeginInstall \/ CleanupFlush \/ CleanupDone \/ InstallApply \/ InstallVerify
    \/ RollbackUndo \/ RollbackVerify \/ StoreProof
    \/ Publish \/ Revoke \/ TeardownBegin \/ TeardownUndo \/ TeardownVerify

Watchdog == Wake \/ ReassertProbe \/ ReassertApply \/ ReassertVerify

Next == Session \/ Watchdog \/ DeletedByOthers \/ Crash

Spec == Init /\ [][Next]_vars

-----------------------------------------------------------------------------
(* Properties.                                                             *)

\* Every variable keeps its type; a position within the plan is a step.
TypeOK ==
    /\ cnt \in [Steps -> Nat]
    /\ op \in {"reconcile", "idle", "cleanup", "install", "rollback", "store", "up",
               "leaving", "teardown"}
    /\ at \in 0..Len(Plan) /\ (op \in {"install", "rollback", "teardown"} => at > 0)
    /\ phase \in {"run", "check"}
    /\ todo \subseteq DOMAIN Cleanup /\ pass \in 0..MaxPasses
    /\ proof \in BOOLEAN /\ flag \in BOOLEAN
    /\ lock \in {"none", "session", "watchdog"}
    /\ wat \in 0..Len(Plan) /\ wphase \in {"probe", "apply", "check"}
    /\ published \in BOOLEAN
    /\ outcome \in {"none", "reconciled", "reconcile_failed", "aborted", "refused",
                    "rollback_failed", "installed", "torn_down", "teardown_failed"}
    /\ tampered \subseteq Steps /\ fresh \in BOOLEAN
    /\ deletions \in 0..MaxDeletions /\ crashes \in 0..MaxCrashes

Layer(f, kind) == {i \in Steps : Plan[i].family = f /\ Plan[i].kind = kind}

Standing(f, kind) == \E i \in Layer(f, kind) : cnt[i] > 0

\* A packet sourced from the tun address reaches table `main` when neither the
\* rule with its table, nor the backstop behind it, catches it.
Leaks(f) ==
    /\ ~Standing(f, "Backstop")
    /\ ~(Standing(f, "Rule") /\ (Standing(f, "Floor") \/ Standing(f, "TunnelRoute")))

FullyLayered(f) == \A kind \in Kinds : Layer(f, kind) # {}

\* While the tunnel identity is published, every step of the plan stands,
\* except what another program deleted and the watchdog has not yet seen
\* again: nothing the daemon does itself (plan::install reading each step back
\* before the next, reassert, teardown after revoke) leaves a step missing.
MissingOnlyIfTampered ==
    (published \/ op \in {"store", "up", "leaving"})
        => \A i \in Steps : cnt[i] > 0 \/ i \in tampered

\* The fail-closed claim of plan.rs and linux.rs: while published, one
\* deletion by another program never lets traffic out; it takes the backstop
\* and one more layer of the same family.
FailClosed ==
    published => \A f \in Families : (FullyLayered(f) /\ Leaks(f)) =>
        \E i, j \in tampered : i # j /\ Plan[i].family = f /\ Plan[j].family = f

\* plan::teardown and the rollback in plan::install walk backwards and stop at
\* the first step they cannot prove gone, so that the layers below whatever
\* still stands are still there, also after a teardown that gave up.
LowerLayersOutlast ==
    (\/ op \in {"store", "up", "leaving", "teardown"}
     \/ outcome = "teardown_failed"
     \/ fresh /\ (op \in {"install", "rollback"} \/ outcome = "rollback_failed"))
        => \A i, j \in Steps : (i < j /\ cnt[j] > 0) => cnt[i] > 0 \/ i \in tampered

\* A failed install that began on a clean machine and does not report
\* RollbackFailed leaves a clean machine (plan::install undoes ..=index).
RefusedMeansClean == (outcome = "refused" /\ fresh) => Clean

\* A teardown or a reconciliation that returns Ok left nothing behind, whatever
\* the watchdog and the exit statuses of the commands did meanwhile.
SuccessMeansClean == outcome \in {"torn_down", "reconciled"} => Clean

\* Once a session is leaving, re-assertion never brings a step back while or
\* after it is removed (the guard held across ManagedPolicy::teardown).
NothingComesBack ==
    [][(op \in {"teardown", "idle", "reconcile"})
        => (\A i \in Steps : cnt'[i] <= cnt[i])]_vars

\* On a machine whose commands work, checking before touching means that
\* re-assertion restores rules and never multiplies them (reassert's comment).
NoDuplicates == ~Faults => \A i \in Steps : cnt[i] <= 1

\* A teardown that has begun, or waits for the watchdog's sweep to release the
\* mutex, always comes to an end.
TeardownEnds == (op = "leaving") ~> (op = "idle" \/ op = "reconcile")

\* main.rs: "A machine we cannot prove clean is one we refuse to install onto
\* later; connect will fail loudly rather than layering onto stale state".
InstallStartsClean == (op = "install" /\ at = 1 /\ phase = "run") => Clean
=============================================================================
