------------------------------- MODULE Requests --------------------------------
(***************************************************************************)
(* The requests of the GUI (daemon/src/handler.rs) on the profile store    *)
(* and on one connection attempt with its credential questions.            *)
(***************************************************************************)
EXTENDS ProfileStore, AuthFlow

CONSTANTS
    Plans,          \* What a behaviour's client, user and administrator may do
    MaxRestarts     \* Bound on the restarts of the daemon

VARIABLES
    plan,       \* The plan of this behaviour
    session,    \* The session: its task, its profile and the DNS it shows
    config,     \* What the workspace holds for openvpn
    restarts    \* Restarts so far

vars == <<store, flowVars, broker, plan, session, config, restarts>>

NoSession == [at |-> "idle", task |-> 0, id |-> <<>>, profile |-> <<>>, dns |-> "none",
              cancel |-> FALSE]

\* A request arrives; the handler of each runs on a task of its own.
Arrive(t) ==
    /\ tasks[t].op = "none" /\ plan.requests[t].op # "none"
    /\ tasks' = [tasks EXCEPT ![t] = Started(plan.requests[t])]
    /\ UNCHANGED <<files, flowVars, broker, plan, session, config, restarts>>

\* ProfileDelete: the check, and then the file.
CheckDelete(t) ==
    /\ tasks[t].op = "delete" /\ tasks[t].at = "new"
    /\ Step(t, IF session.profile = tasks[t].id THEN "AlreadyConnected" ELSE "deleting")
    /\ UNCHANGED <<files, flowVars, broker, plan, session, config, restarts>>

\* connect and the start of establish.
Connect(t) ==
    /\ tasks[t].op = "connect" /\ tasks[t].at = "new"
    /\ IF session.at = "idle"
       THEN Step(t, "connecting")
            /\ session' = [NoSession EXCEPT !.at = "loading", !.task = t, !.id = tasks[t].id]
       ELSE Step(t, IF session.at = "connected" THEN "AlreadyConnected" ELSE "Busy")
            /\ UNCHANGED session
    /\ UNCHANGED <<files, flowVars, broker, plan, config, restarts>>

Failed(code) == session' = NoSession /\ Step(session.task, code)

\* establish and start_openvpn: the stored text is validated again, and openvpn
\* gets the canonical form.  Starting it may fail; a session that is being
\* disconnected does not get any further.
Establish ==
    /\ session.at = "loading"
    /\ IF Load(session.id) # "ok" THEN Failed(Load(session.id)) /\ UNCHANGED <<config, flowVars, broker>>
       ELSE LET p == ParseProfile(files[session.id].text)
            IN \/ /\ ~session.cancel /\ config' = CanonicalConfig(p)
                  /\ session' = [session EXCEPT !.at = "authenticating",
                                                !.dns = IF DhcpDnsServers(p) = {} THEN "TunnelFallback"
                                                        ELSE "Pushed"]
                  /\ BeginFlow /\ UNCHANGED tasks
               \/ Failed("Internal") /\ UNCHANGED <<config, flowVars, broker>>
    /\ UNCHANGED <<files, plan, restarts>>

\* run_connect commits, unless a disconnect came first.
Commit ==
    /\ auth.at = "up"
    /\ IF session.cancel THEN Finish("closing") /\ UNCHANGED <<tasks, session>>
       ELSE /\ auth' = Idle /\ Step(session.task, "ok")
            /\ session' = [session EXCEPT !.at = "connected", !.profile = session.id, !.task = 0]
    /\ UNCHANGED <<files, setup, clock, flow, handed, broker, plan, config, restarts>>

\* record_failure, behind the teardown.
Report ==
    /\ auth.at = "reporting" /\ auth' = Idle /\ config' = <<>> /\ Failed("AuthFailed")
    /\ UNCHANGED <<files, setup, clock, flow, handed, broker, plan, restarts>>

\* disconnect: a tunnel is torn down here, an attempt tears itself down.
Disconnect(t) ==
    /\ tasks[t].op = "disconnect" /\ tasks[t].at = "new"
    /\ CASE session.at = "idle" -> Step(t, "NotConnected") /\ UNCHANGED session
         [] session.at = "connected" ->
              Step(t, "leaving") /\ session' = [session EXCEPT !.at = "leaving"]
         [] session.at = "leaving" \/ (session.at \in {"loading", "authenticating"} /\ session.cancel) ->
              Step(t, "Busy") /\ UNCHANGED session
         [] OTHER -> Step(t, "ok") /\ session' = [session EXCEPT !.cancel = TRUE]
    /\ UNCHANGED <<files, flowVars, broker, plan, config, restarts>>

\* finish_disconnect: the profile is shown until the teardown is over.
FinishDisconnect(t) ==
    /\ tasks[t].at = "leaving" /\ Step(t, "ok") /\ session' = NoSession /\ config' = <<>>
    /\ UNCHANGED <<files, flowVars, broker, plan, restarts>>

\* prompt_reply: the user answers a prompt, or one that is gone.
PromptReply ==
    /\ \E i \in 1..issued, shape \in plan.typed : Deliver(i, shape)
    /\ UNCHANGED <<store, flowVars, plan, session, config, restarts>>

\* A client reads what the daemon sends.
Read ==
    /\ outbound # <<>> /\ outbound' = Tail(outbound)
    /\ UNCHANGED <<ask, pending, issued, store, flowVars, plan, session, config, restarts>>

\* The daemon dies with its tasks and is started again; the directory stays.
Restart ==
    /\ restarts < MaxRestarts /\ restarts' = restarts + 1
    /\ tasks' = [t \in Tasks |-> IF tasks[t].at \in Answered \/ tasks[t].op = "none" THEN tasks[t]
                                 ELSE [tasks[t] EXCEPT !.at = "Internal"]]
    /\ session' = NoSession /\ config' = <<>> /\ flow' = NewFlow /\ auth' = Idle
    /\ handed' = NotHanded /\ ask' = NoAsk /\ pending' = {} /\ outbound' = <<>> /\ issued' = 0
    /\ UNCHANGED <<files, setup, clock, plan>>

Administer ==
    /\ \E id \in DOMAIN files, text \in plan.edits : files[id].text # text /\ Edit(id, text)
    /\ UNCHANGED <<flowVars, broker, plan, session, config, restarts>>

Init ==
    /\ plan \in Plans /\ FlowInit /\ setup = plan.setup
    /\ files = plan.files /\ tasks = [t \in Tasks |-> Started(NoRequest)]
    /\ session = NoSession /\ config = <<>> /\ restarts = 0

rest == <<store, plan, session, config, restarts>>

Handler(t) ==
    \/ StoreStep(t) /\ UNCHANGED <<flowVars, broker, plan, session, config, restarts>>
    \/ CheckDelete(t) \/ Connect(t) \/ Disconnect(t) \/ FinishDisconnect(t)

Attempt == Establish \/ Commit \/ Report \/ (FlowStep /\ UNCHANGED rest)

Openvpn == ((\E q \in plan.questions : Ask(q)) \/ Settles \/ Abandon \/ Tick) /\ UNCHANGED rest

Next ==
    \/ \E t \in Tasks : Arrive(t) \/ Handler(t)
    \/ Attempt \/ Openvpn \/ PromptReply \/ Read \/ Restart \/ Administer

Spec == Init /\ [][Next]_vars

-----------------------------------------------------------------------------

TypeOK ==
    /\ BrokerTypeOK /\ FlowTypeOK /\ restarts \in 0..MaxRestarts
    /\ session.at \in {"idle", "loading", "authenticating", "connected", "leaving"}
    /\ \A id \in DOMAIN files : PathFor(id) /\ files[id].by \in Tasks \cup {0}
    /\ \A t \in Tasks : /\ tasks[t].n \in 0..MaxSuffix
                        /\ tasks[t].at \in Answered \cup {"new", "allocating", "creating", "writing",
                                                          "deleting", "connecting", "leaving"}

\* Whatever is in the directory, also after somebody edited it, openvpn gets a
\* text the validator made: it is valid, it is its own canonical form, and it
\* has none of the directives that are refused, dropped or only retained
\* (establish, start_openvpn, absorb).
OpenvpnGetsCanonical ==
    LET p == ParseProfile(config)
        items == Lex(config).items
        kept == Routing \cup Management \cup HardReject \cup {"setenv", "dns-updown"}
    IN config # <<>> /\ Fits(config) =>
        /\ p.error = "" /\ CanonicalConfig(p) = config
        /\ \A i \in DOMAIN items : items[i].k = "directive" => items[i].name \notin kept

\* Both ends of a profile's way through the daemon are canonical.
ProfilesAreCanonical == StoredIsCanonical /\ OpenvpnGetsCanonical

\* Two imports never get the same file: what one has created is not taken over
\* by another, whatever their order (allocate_id, write_private).
NoOverwrite ==
    [][\A id \in DOMAIN files \cap DOMAIN files' : files'[id].by \in {0, files[id].by}]_vars

\* The DNS servers of an imported profile are those its tunnel is described
\* with (absorb, describe_tunnel).
DnsIsRetained ==
    \A t \in Tasks :
        /\ session.at = "connected" /\ session.profile \in DOMAIN files
        /\ files[session.profile].by = t /\ tasks[t].at = "ok"
        /\ DhcpDnsServers(ParseProfile(tasks[t].text)) # {}
        => session.dns = "Pushed"

===============================================================================
