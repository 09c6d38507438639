---------------------------- MODULE WatchedPolicy -----------------------------
(***************************************************************************)
(* The policy of TunnelPolicy with the machinery that wakes its watchdog:  *)
(* the kernel's notifications (policy/netlink.rs), the task that reads     *)
(* them and the loop that re-asserts (session/watchdog.rs), and when main  *)
(* starts them.                                                            *)
(*                                                                         *)
(* A command that changes rules or routes, the daemon's own included, is   *)
(* announced in one datagram, which is the set of its messages.  The       *)
(* socket holds a bounded number of them, and one that does not fit is     *)
(* dropped and reported once, as ENOBUFS.                                  *)
(***************************************************************************)
EXTENDS TunnelPolicy

CONSTANTS
    Setups,         \* How the routing socket behaves, and bounds on what happens
    SocketRoom,     \* Datagrams its receive buffer holds
    TriggerQueue    \* TRIGGER_QUEUE

ASSUME RoomAssumption ==
    /\ Setups \subseteq [socket : {"open", "broken", "unopened"}, deletions : Nat,
                         chatter : Nat, crashes : Nat, stops : BOOLEAN]
    /\ SocketRoom \in Nat \ {0} /\ TriggerQueue \in Nat \ {0}

VARIABLES
    setup,      \* The machine: its routing socket, and the bounds
    socket,     \* Datagrams in its receive buffer
    overrun,    \* One was dropped, and that is not reported yet
    hand,       \* The trigger the reader task is about to send
    triggers,   \* The channel between the two tasks
    driver,     \* What drive_bounded is doing
    shutdown,   \* The shutdown watch
    excused,    \* Ghost: missing steps whose trigger was used up without a look
    chatter     \* Announcements so far that are not about the policy

wire == <<socket, overrun>>
tasks == <<hand, triggers, driver, shutdown>>
watched == <<vars, setup, wire, tasks, excused, chatter>>

Trigger == {"Deletion", "Desynchronised"}
Groups == {"RULE", "ROUTE", "IFADDR"}
Message == [what : {"DEL", "NEW"}, group : Groups]

Missing == {i \in Steps : cnt[i] = 0}

-----------------------------------------------------------------------------
(* The kernel's announcements.                                             *)

\* GROUPS, as PolicyWatch::open joins them.
Joined == Groups

GroupOf(i) == IF Plan[i].kind \in {"Backstop", "Rule"} THEN "RULE" ELSE "ROUTE"

Announced(i) == [what |-> IF cnt'[i] < cnt[i] THEN "DEL" ELSE "NEW", group |-> GroupOf(i)]

\* Netlink multicast to the socket, while somebody has it open.
DeliverDatagram(datagram) ==
    LET seen == {message \in datagram : message.group \in Joined}
        fits == Len(socket) < SocketRoom
    IN  IF driver \in {"off", "stopped"} \/ setup.socket = "broken" \/ seen = {}
        THEN UNCHANGED wire
        ELSE /\ socket' = IF fits THEN Append(socket, seen) ELSE socket
             /\ overrun' = (overrun \/ ~fits)

\* What a step of TunnelPolicy makes the kernel say.
AnnounceRoutes == DeliverDatagram({Announced(i) : i \in {j \in Steps : cnt'[j] # cnt[j]}})

-----------------------------------------------------------------------------
(* The reader: PolicyWatch::next, and the task that sends what it returns. *)

\* mentions_deletion.
MentionsDeletion(datagram) == \E message \in datagram : message.what = "DEL"

\* Mutant: an error of recv is waited out.
ReadIgnoresErrors ==
    /\ hand = "none" /\ driver \notin {"off", "stopped"}
    /\ socket # <<>> \/ overrun
    /\ IF overrun THEN overrun' = FALSE /\ UNCHANGED <<socket, hand>>
       ELSE /\ socket' = Tail(socket) /\ UNCHANGED overrun
            /\ hand' = IF MentionsDeletion(Head(socket)) THEN "Deletion" ELSE "none"
    /\ UNCHANGED <<vars, setup, triggers, driver, shutdown, excused, chatter>>

\* One recv: an error first, then the datagrams in order.  A socket that is
\* broken fails every time.
Read ==
    /\ hand = "none" /\ driver \notin {"off", "stopped"}
    /\ socket # <<>> \/ overrun \/ setup.socket = "broken"
    /\ IF overrun \/ setup.socket = "broken"
       THEN hand' = "Desynchronised" /\ overrun' = FALSE /\ UNCHANGED socket
       ELSE /\ socket' = Tail(socket) /\ UNCHANGED overrun
            /\ hand' = IF MentionsDeletion(Head(socket)) THEN "Deletion" ELSE "none"
    /\ UNCHANGED <<vars, setup, triggers, driver, shutdown, excused, chatter>>

\* tx.send waits for room.
Send ==
    /\ hand # "none" /\ Len(triggers) < TriggerQueue
    /\ triggers' = Append(triggers, hand) /\ hand' = "none"
    /\ UNCHANGED <<vars, setup, wire, driver, shutdown, excused, chatter>>

-----------------------------------------------------------------------------
(* drive_bounded.                                                          *)

\* spawn_policy_watchdog, after the startup reconciliation.
OpenWatch ==
    /\ driver = "off" /\ op # "reconcile"
    /\ driver' = IF setup.socket = "unopened" THEN "stopped" ELSE "waiting"
    /\ UNCHANGED <<vars, setup, wire, hand, triggers, shutdown, excused, chatter>>

TakeTrigger ==
    /\ driver = "waiting" /\ ~shutdown /\ triggers # <<>>
    /\ triggers' = Tail(triggers) /\ driver' = "woken"
    /\ UNCHANGED <<vars, setup, wire, hand, shutdown, excused, chatter>>

\* Mutant: the sweep is a sweep of the log only.
SweepLogs ==
    /\ driver = "waiting" /\ ~shutdown /\ triggers = <<>>
    /\ driver' = "holding"
    /\ UNCHANGED <<vars, setup, wire, hand, triggers, shutdown, excused, chatter>>

\* SWEEP_INTERVAL has passed; the select is biased towards a trigger.
Sweep ==
    /\ driver = "waiting" /\ ~shutdown /\ triggers = <<>>
    /\ driver' = "woken"
    /\ UNCHANGED <<vars, setup, wire, hand, triggers, shutdown, excused, chatter>>

\* ManagedPolicy::reassert with nothing installed.
NothingToReassert ==
    /\ driver = "woken" /\ wat = 0 /\ lock = "none" /\ ~proof
    /\ driver' = "holding" /\ excused' = excused \cup Missing
    /\ UNCHANGED <<vars, setup, wire, hand, triggers, shutdown, chatter>>

\* MIN_INTERVAL passes, and then whatever has been queued is thrown away.
Hold ==
    /\ driver = "holding"
    /\ driver' = "waiting" /\ triggers' = <<>>
    /\ excused' = IF triggers = <<>> THEN excused ELSE excused \cup Missing
    /\ UNCHANGED <<vars, setup, wire, hand, shutdown, chatter>>

\* Mutant: a trigger comes before the shutdown.
StopUnbiased ==
    /\ driver = "waiting" /\ shutdown /\ triggers = <<>>
    /\ driver' = "stopped" /\ triggers' = <<>> /\ hand' = "none"
    /\ socket' = <<>> /\ overrun' = FALSE
    /\ UNCHANGED <<vars, setup, shutdown, excused, chatter>>

\* run returns and aborts the reader; the select prefers the shutdown.
Stop ==
    /\ driver = "waiting" /\ shutdown
    /\ driver' = "stopped" /\ triggers' = <<>> /\ hand' = "none"
    /\ socket' = <<>> /\ overrun' = FALSE
    /\ UNCHANGED <<vars, setup, shutdown, excused, chatter>>

BeginShutdown ==
    /\ setup.stops /\ driver # "off" /\ ~shutdown /\ shutdown' = TRUE
    /\ UNCHANGED <<vars, setup, wire, hand, triggers, driver, excused, chatter>>

-----------------------------------------------------------------------------
(* The steps of TunnelPolicy, with what they announce.                     *)

\* A step that stands again is looked after again.
Noticed == excused' = {i \in excused : cnt'[i] = 0}

\* main serves requests once the watchdog is started.
SessionStep ==
    /\ Session /\ (driver = "off" => op = "reconcile")
    /\ AnnounceRoutes /\ Noticed /\ UNCHANGED <<setup, tasks, chatter>>

\* One reassert, in spawn_blocking; the hold begins when it returns.
BeginReassert ==
    /\ driver = "woken" /\ wat = 0 /\ Wake
    /\ UNCHANGED <<setup, wire, tasks, excused, chatter>>

Reassert ==
    /\ ReassertProbe \/ ReassertApply \/ ReassertVerify
    /\ driver' = IF wat' = 0 THEN "holding" ELSE driver
    /\ AnnounceRoutes /\ Noticed /\ UNCHANGED <<setup, hand, triggers, shutdown, chatter>>

Tamper ==
    /\ deletions < setup.deletions /\ DeletedByOthers
    /\ AnnounceRoutes /\ Noticed /\ UNCHANGED <<setup, tasks, chatter>>

\* Something happens to a rule, route or address that is not the daemon's.
Chatter ==
    /\ chatter < setup.chatter /\ chatter' = chatter + 1
    /\ \E what \in {"DEL", "NEW"} : DeliverDatagram({[what |-> what, group |-> "IFADDR"]})
    /\ UNCHANGED <<vars, setup, tasks, excused>>

Restart ==
    /\ crashes < setup.crashes /\ Crash
    /\ socket' = <<>> /\ overrun' = FALSE /\ hand' = "none" /\ triggers' = <<>>
    /\ driver' = "off" /\ shutdown' = FALSE
    /\ UNCHANGED <<setup, excused, chatter>>

WatchInit ==
    /\ Init /\ setup \in Setups
    /\ socket = <<>> /\ overrun = FALSE /\ hand = "none" /\ triggers = <<>>
    /\ driver = "off" /\ shutdown = FALSE /\ excused = {} /\ chatter = 0

Reader == Read \/ Send

Driver == OpenWatch \/ TakeTrigger \/ Sweep \/ NothingToReassert \/ Hold \/ Stop \/ Reassert

WatchNext ==
    \/ SessionStep \/ Reader \/ Driver \/ BeginReassert
    \/ Tamper \/ Chatter \/ BeginShutdown \/ Restart

WatchSpec == WatchInit /\ [][WatchNext]_watched

\* The tasks are scheduled, the timers expire, and whoever waits for the mutex
\* gets it: its other user sleeps MIN_INTERVAL between two holds of it.
FairWatchSpec ==
    /\ WatchSpec
    /\ WF_watched(SessionStep /\ op \notin {"idle", "up"})
    /\ WF_watched(Reader) /\ WF_watched(Driver)
    /\ SF_watched(BeginReassert)
    /\ SF_watched(TeardownBegin /\ SessionStep)

-----------------------------------------------------------------------------
(* Properties.                                                             *)

\* Every variable keeps its type; the two queues keep their bounds.
WatchTypeOK ==
    /\ setup \in Setups /\ overrun \in BOOLEAN /\ shutdown \in BOOLEAN
    /\ socket \in Seq(SUBSET Message) /\ Len(socket) <= SocketRoom
    /\ triggers \in Seq(Trigger) /\ Len(triggers) <= TriggerQueue
    /\ hand \in Trigger \cup {"none"}
    /\ driver \in {"off", "waiting", "woken", "holding", "stopped"}
    /\ excused \subseteq Steps

\* Something on its way makes the watchdog look at step i, the sweep aside.
OnItsWay(i) ==
    \/ overrun \/ setup.socket = "broken" \/ hand # "none" \/ triggers # <<>>
    \/ \E k \in DOMAIN socket : MentionsDeletion(socket[k])
    \/ driver = "woken" /\ (wat = 0 \/ wat <= i)

\* A step that is missing from a live policy has left a trace that will make
\* the watchdog look, be it a datagram, the report of one that was dropped, a
\* queued trigger or a walk that has yet to come to it.  The exceptions are a
\* trigger used up before the policy was stored, as docs/SPEC.md 5.2 says, and
\* one thrown away at the end of a hold (PolicyWatch::next, drive_bounded).
NothingIsMissed ==
    \A i \in Missing \ excused : op = "up" /\ driver # "stopped" => OnItsWay(i)

\* Nobody's deletion outlasts the sweep: a step of a live policy that is
\* missing comes back, whatever happened to its announcement, unless the
\* session or the watchdog ends first (SWEEP_INTERVAL).
RestoredByWatchdog ==
    \A i \in Steps :
        (op = "up" /\ cnt[i] = 0) ~> (cnt[i] > 0 \/ op # "up" \/ driver = "stopped")

\* Nothing keeps the daemon from stopping: shutdown stops the watchdog, with
\* triggers pending, in the middle of a walk or while the socket fails at every
\* read (the select is biased), and a teardown gets the mutex and ends.
StopsAreServed == (shutdown ~> (driver = "stopped" \/ ~shutdown)) /\ TeardownEnds

\* docs/superpowers/specs/2026-09-06-netlink-watcher-design.md: the watchdog
\* re-asserts on "any `Trigger::Deletion`, after draining whatever else is
\* already queued so a burst coalesces into one pass".  So the trace a deletion
\* leaves is not given up before the step stands again.
DeletionIsActedOn ==
    [][\A i \in Missing :
        op = "up" /\ OnItsWay(i)
            => OnItsWay(i)' \/ cnt'[i] > 0 \/ op' # "up" \/ driver' = "stopped"]_watched
=============================================================================
