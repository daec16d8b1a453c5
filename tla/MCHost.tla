------------------------------- MODULE MCHost -------------------------------
(* Model-checking instances of Host over a lossy, duplicating and          *)
(* reordering network.  Each cfg picks the clients, the script and the     *)
(* receive bounds its question needs.                                      *)
EXTENDS Host, TLC

CONSTANTS c1, c2

OneClient  == {c1}
TwoClients == {c1, c2}

\* A client joins, sends one game command (protocol/debug) and leaves.
JoinPlayLeave == <<"client_enter", "debug", "client_leave">>

\* A client joins and sends one game command.
JoinPlay == <<"client_enter", "debug">>

\* A client joins and sends two game commands: a lost first one leaves a
\* gap under the second in a slot that has an actor.
JoinPlayTwice == <<"client_enter", "debug", "debug">>

\* The allow-list of apps/quadwar/session.h (player_name and the slot
\* commands are the only ones not modelled; debug stands for a game command).
QuadwarAllowed ==
    {"public_key", "request_events", "ping_request", "client_enter",
     "client_leave", "client_ready", "slot_create", "slot_remove",
     "server_launch", "debug"}

\* Bound on the host log; the log grows with every command performed.
MaxLog == 7

StateBound == Len(log) <= MaxLog

\* Bound on datagrams in flight (duplicates included).
MaxInFlight == 3

NetBound == Cardinality(net) <= MaxInFlight

Bounds == StateBound /\ NetBound

Symmetry == Permutations(TwoClients)
=============================================================================
