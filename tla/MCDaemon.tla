------------------------------- MODULE MCDaemon -------------------------------
(***************************************************************************)
(* Daemon on the packaged machine, one without systemd, and ones whose     *)
(* environment is not what it should be.                                   *)
(***************************************************************************)
EXTENDS Daemon, TLC

\* What happens on a machine, beside its setup: the attempts, the users whose
\* programs connect, how often the group changes, and how many system calls
\* fail.
Working(calls, user, failures) ==
    [calls |-> calls, visitors |-> {user}, edits |-> 0, faults |-> failures]
Changing == [calls |-> {}, visitors |-> {"root", "member", "owner", "other"}, edits |-> 2,
             faults |-> 0]

Packaged ==
    [configured |-> "none", path |-> <<"relative", "usr">>, candidates |-> <<"opt">>,
     executables |-> {"relative", "usr", "opt"}, updown |-> TRUE, base |-> "traversable",
     shared |-> FALSE, listen |-> "ours", path0 |-> "systemd", malformed |-> FALSE,
     uids |-> {}, gids |-> {}, group |-> TRUE, members |-> {"member"}]

SelfBound ==
    [Packaged EXCEPT !.listen = "none", !.path0 = "absent", !.base = "missing",
                     !.configured = "opt", !.updown = FALSE]

Broken ==
    { [Packaged EXCEPT !.listen = "inherited"],
      [SelfBound EXCEPT !.path0 = "file"],
      [SelfBound EXCEPT !.base = "link"],
      [Packaged EXCEPT !.executables = {"relative"}],
      [Packaged EXCEPT !.malformed = TRUE],
      [Packaged EXCEPT !.group = FALSE] }

SetupsMC ==
    {Working({1, 2}, "member", 0) @@ Packaged}
        \cup {Working({1}, "root", 1) @@ s : s \in Broken \cup {SelfBound}}
        \cup {Changing @@ s : s \in {Packaged, [Packaged EXCEPT !.gids = {"thisconnect"}]}}

\* The packaged machine: the runtime directory holds the control socket.
SetupShared == {Working({1}, "member", 0) @@ [Packaged EXCEPT !.shared = TRUE]}
=============================================================================
