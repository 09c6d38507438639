--------------------------- MODULE MCWatchedPolicy ----------------------------
(***************************************************************************)
(* WatchedPolicy with a plan of one rule and one route: what the watchdog  *)
(* does depends on the group that announces a step, not on how many layers *)
(* the plan has.                                                           *)
(***************************************************************************)
EXTENDS WatchedPolicy

MCFamilies == {"V4"}
MCPlan == <<[family |-> "V4", kind |-> "Rule"], [family |-> "V4", kind |-> "TunnelRoute"]>>
MCCleanup == <<[family |-> "V4", what |-> "rule"], [family |-> "V4", what |-> "table"]>>

Quiet == [socket |-> "open", deletions |-> 1, chatter |-> 0, crashes |-> 0, stops |-> FALSE]

MCSetups ==
    { [Quiet EXCEPT !.deletions = 2], [Quiet EXCEPT !.chatter = 1],
      [Quiet EXCEPT !.crashes = 1], [Quiet EXCEPT !.stops = TRUE],
      [Quiet EXCEPT !.socket = "broken", !.stops = TRUE], [Quiet EXCEPT !.socket = "unopened"] }
=============================================================================
