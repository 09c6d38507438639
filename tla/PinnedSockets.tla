---------------------------- MODULE PinnedSockets -----------------------------
(***************************************************************************)
(* What the proxy promises about the sockets it opens for its clients      *)
(* (proxy/src/egress.rs): a client is tied to the tunnel identity it was   *)
(* accepted under, and a socket is opened only on the identity published   *)
(* last.  "Tunnel changes replace the whole TunEgress; handles issued for  *)
(* an older generation refuse to dial rather than binding to a recycled    *)
(* interface."                                                             *)
(***************************************************************************)
EXTENDS Integers

CONSTANT Clients

VARIABLES
    tunnel,     \* The identity published last
    handle,     \* The identity each client was accepted under, 0 for none
    socket      \* The identity each client's socket is pinned to, 0 for none

vars == <<tunnel, handle, socket>>

Init == tunnel = 0 /\ handle = [c \in Clients |-> 0] /\ socket = [c \in Clients |-> 0]

Replace == tunnel' = tunnel + 1 /\ UNCHANGED <<handle, socket>>

Admit(c) ==
    /\ handle[c] = 0
    /\ \E g \in 1..tunnel : handle' = [handle EXCEPT ![c] = g]
    /\ UNCHANGED <<tunnel, socket>>

Open(c) ==
    /\ socket[c] = 0 /\ handle[c] = tunnel
    /\ socket' = [socket EXCEPT ![c] = tunnel]
    /\ UNCHANGED <<tunnel, handle>>

\* A candidate that did not answer is closed before the next is tried.
Close(c) ==
    /\ socket[c] # 0
    /\ socket' = [socket EXCEPT ![c] = 0]
    /\ UNCHANGED <<tunnel, handle>>

Leave(c) ==
    /\ handle[c] # 0
    /\ handle' = [handle EXCEPT ![c] = 0] /\ socket' = [socket EXCEPT ![c] = 0]
    /\ UNCHANGED tunnel

Next == Replace \/ \E c \in Clients : Admit(c) \/ Open(c) \/ Close(c) \/ Leave(c)

Spec == Init /\ [][Next]_vars
=============================================================================
