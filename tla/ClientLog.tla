------------------------------ MODULE ClientLog ------------------------------
(***************************************************************************)
(* What the host promises the clients, as an abstract specification: the   *)
(* authoritative log only grows, and within one client the commands it     *)
(* takes are in increasing order index, each at most once, and only after  *)
(* the client sent them (spec.md, section 5: "within one slot, events are  *)
(* applied to the authoritative log in increasing order index").  Across   *)
(* clients nothing is promised.  A command the host performs without       *)
(* logging it (a ping, a resend request) simply never shows up here.       *)
(***************************************************************************)
EXTENDS Integers, Sequences

CONSTANTS
    Clients,  \* client endpoints
    Kinds     \* commands a client may send

VARIABLES
    sent,  \* sent[c][k+1]: the command client c sent with index k
    clog   \* the client entries of the log, in log order: [c, k]

vars == <<sent, clog>>

Init ==
    /\ sent = [c \in Clients |-> <<>>]
    /\ clog = <<>>

(* A client sends its next command.                                       *)
Send(c) ==
    /\ \E k \in Kinds : sent' = [sent EXCEPT ![c] = Append(@, k)]
    /\ UNCHANGED clog

(* The host appends entries; each is a command its client already sent,   *)
(* with an index above every earlier entry of that client.                *)
Take ==
    /\ Len(clog') > Len(clog)
    /\ SubSeq(clog', 1, Len(clog)) = clog
    /\ \A j \in (Len(clog) + 1)..Len(clog') :
         /\ clog'[j].k \in 0..(Len(sent[clog'[j].c]) - 1)
         /\ \A i \in 1..(j - 1) : clog'[i].c = clog'[j].c => clog'[i].k < clog'[j].k
    /\ UNCHANGED sent

Next == (\E c \in Clients : Send(c)) \/ Take

Spec == Init /\ [][Next]_vars

=============================================================================
