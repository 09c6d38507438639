----------------------------- MODULE LinuxPolicy ------------------------------
(***************************************************************************)
(* The plan and the cleanup commands the Linux backend builds              *)
(* (daemon/src/policy/linux.rs), as the constants of TunnelPolicy.         *)
(***************************************************************************)
LOCAL INSTANCE SequencesExt

\* family_steps: backstop rule, floor route, policy rule, tunnel route.
FamilySteps(f) ==
    << [family |-> f, kind |-> "Backstop"], [family |-> f, kind |-> "Floor"],
       [family |-> f, kind |-> "Rule"], [family |-> f, kind |-> "TunnelRoute"] >>

\* What pre_install_cleanup runs for one endpoint, and stale_for_family for
\* whatever of it is found.
FamilyCleanup(f) ==
    << [family |-> f, what |-> "backstop"], [family |-> f, what |-> "rule"],
       [family |-> f, what |-> "table"] >>

\* plan and pre_install_cleanup over the endpoints of the tunnel, in order.
LinuxPlan(endpoints) == FlattenSeq([k \in DOMAIN endpoints |-> FamilySteps(endpoints[k])])

LinuxCleanup(endpoints) ==
    FlattenSeq([k \in DOMAIN endpoints |-> FamilyCleanup(endpoints[k])])
=============================================================================
