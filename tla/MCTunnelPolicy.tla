--------------------------- MODULE MCTunnelPolicy -----------------------------
(***************************************************************************)
(* TunnelPolicy with the plan of the Linux backend for one address family. *)
(* The other family has the same layers, and the theorems are about any    *)
(* plan.                                                                   *)
(***************************************************************************)
EXTENDS TunnelPolicy, LinuxPolicy

MCFamilies == {"V4"}
MCPlan == LinuxPlan(<<"V4">>)
MCCleanup == LinuxCleanup(<<"V4">>)
=============================================================================
