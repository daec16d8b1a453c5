-------------------------------- MODULE Host --------------------------------
(***************************************************************************)
(* The server side of the Laplace transport: laplace::engine::host         *)
(* (src/source/laplace/engine/e_host.cpp) and the datagram receive loop it  *)
(* relies on (udp_node::receive_to, src/source/laplace/network/            *)
(* n_udp_node.cpp).  One tick of host::tick is four steps: ReceiveChunk    *)
(* (repeated until the socket is empty), ProcessBuffers, ProcessSlots and  *)
(* SendEvents.  The clients (laplace::engine::remote, whose implementation *)
(* is not in the repository) and the UDP network are the environment:      *)
(* datagrams are lost, duplicated and reordered.                           *)
(*                                                                         *)
(* Data is abstracted to what the properties tell apart: a frame is a      *)
(* command kind, its order index (-1 when it has none), a set argument and *)
(* the client that really produced it (a ghost field); the bytes, lengths  *)
(* and encodings are left out.                                             *)
(***************************************************************************)
EXTENDS Integers, Sequences, FiniteSets, SequencesExt

CONSTANTS
    Clients,      \* client endpoints (address and port)
    Script,       \* Script[k+1] is the command a client sends with index k
    Inject,       \* commands a misbehaving client may put at its next index
    HostCommands, \* commands the application passes to host::queue
    Allowed,      \* host::set_allowed_commands; {} allows every command
    RecvBatch,    \* datagrams one receive_to call may concatenate
    ChunkFrames,  \* frames adjust_chunk_size lets into one chunk
    MaxRequest,   \* request_events::max_event_count
    MaxReceives   \* bound: receive_to calls that return data in one tick

ASSUME /\ RecvBatch \in Nat \ {0}
       /\ ChunkFrames \in Nat \ {0}
       /\ MaxRequest \in Nat \ {0}
       /\ Script \in Seq(STRING)

VARIABLES
    slots,     \* host::m_slots
    log,       \* host::m_queue.events, the authoritative event log
    sent,      \* host::m_queue.index, log entries already broadcast
    state,     \* server state: prepare, action or pause
    nextActor, \* the next id world::reserve hands out
    phase,     \* the step of host::tick the host is in
    recvd,     \* receive_to calls that returned data in this tick
    net,       \* datagrams in flight to the host
    cmds,      \* per client: the commands it sent, cmds[c][k+1] has index k
    asked      \* per client: its indices the host asked it to resend

hostVars == <<slots, log, sent, state, nextActor, phase, recvd>>
envVars  == <<net, cmds, asked>>
vars     == <<hostVars, envVars>>

-----------------------------------------------------------------------------
Undef    == -1       \* engine::id_undefined
HostSlot == 0        \* host::slot_host: the host itself as a sender
HostSrc  == "host"
NoOrder  == -1       \* basic_impact::get_index of an event without order

Frame(k, i, a, c) == [kind |-> k, idx |-> i, arg |-> a, from |-> c]

\* A client command as the model names it.  BadKey is a public_key for
\* cipher_dh_rabbit whose key the host's cipher rejects (setup_remote_key
\* or setup fails); the frame's kind is public_key and its argument says
\* so.  Every other command is its own kind, with an empty argument.
BadKey == "public_key_bad"
KindOf(k) == IF k = BadKey THEN "public_key" ELSE k
ArgOf(k)  == IF k = BadKey THEN {"unusable"} ELSE {}
ClientFrame(k, i, c) == Frame(KindOf(k), i, ArgOf(k), c)

\* An empty cell of a slot's sparse event queue.
Hole == Frame("none", -2, {}, HostSrc)

\* An outgoing frame: a command, the log position it came from (-1 for
\* replies that are not log entries), the actor it carries, an argument.
Out(k, p, a, x) == [kind |-> k, pos |-> p, actor |-> a, arg |-> x]

NewSlot(c) ==
    [addr |-> c, actor |-> Undef, buffer |-> <<>>,
     qindex |-> 0, qevents |-> <<>>, chunks |-> <<>>, done |-> <<>>,
     ready |-> FALSE, encrypt |-> FALSE]

\* The host's state as one record, threaded through the loops of a tick.
H == [slots |-> slots, log |-> log, state |-> state, next |-> nextActor]

Indices(s) == [k \in 1..Len(s) |-> k]

-----------------------------------------------------------------------------
IsAllowedAll(kind) == TRUE

(* host::process_buffers, the allow-list test.                            *)
IsAllowed(kind) == Allowed = {} \/ kind \in Allowed

(* host::find_slot: the slot of an endpoint, appended when it is new.     *)
FindSlot(ss, c) ==
    IF \E i \in DOMAIN ss : ss[i].addr = c
    THEN ss
    ELSE Append(ss, NewSlot(c))

SlotOf(ss, c) == CHOOSE i \in DOMAIN ss : ss[i].addr = c

(* host::send_event_to: append to one slot's outgoing chunks; slot_create *)
(* is rewritten to carry the recipient's own actor id.                    *)
SendEventTo(h, i, o) ==
    LET o2 == IF o.kind = "slot_create"
              THEN [o EXCEPT !.actor = h.slots[i].actor] ELSE o
    IN  [h EXCEPT !.slots[i].chunks = Append(@, o2)]

(* The decode-and-log half of host::perform_event: stamp the sender's      *)
(* actor id and the next order index, append to the log.  Performing it on *)
(* the world (prepare) or handing it to the solver (action) changes no     *)
(* state of the host.                                                      *)
LogEvent(h, i, fr) ==
    [h EXCEPT !.log = Append(@,
        [kind  |-> fr.kind,
         actor |-> IF i = HostSlot THEN Undef ELSE h.slots[i].actor,
         src   |-> IF i = HostSlot THEN HostSrc ELSE h.slots[i].addr,
         idx   |-> fr.idx,
         from  |-> fr.from])]

(* world::reserve and the slot's actor: the slot takes the next id.       *)
ReserveNoAdvance(h, i) == [h EXCEPT !.slots[i].actor = h.next]
Reserve(h, i) == [h EXCEPT !.slots[i].actor = h.next, !.next = @ + 1]

Handled(h)    == [h |-> h, handled |-> TRUE]
NotHandled(h) == [h |-> h, handled |-> FALSE]

(* basic_cipher::set_remote_key: ready = setup_remote_key(key) && setup(), *)
(* dh_rabbit's own steps, which succeed exactly for a usable key.          *)
RemoteKeyReady(fr) == "unusable" \notin fr.arg

\* A mutant of the public_key handler: the slot's encrypt flag is kept.
PublicKeyKeepEncrypt(h, i, fr) ==
    [SendEventTo(h, i, Out("public_key", -1, Undef, {}))
       EXCEPT !.slots[i].ready = RemoteKeyReady(fr)]

(* host::perform_control, public_key (cipher_dh_rabbit, the only cipher    *)
(* remote uses): queue the host's public key as a reply, switch the slot   *)
(* to plain sending, then set the remote key; the cipher is ready exactly  *)
(* when the key was usable (basic_cipher::set_remote_key).                 *)
PublicKey(h, i, fr) ==
    [SendEventTo(h, i, Out("public_key", -1, Undef, {}))
       EXCEPT !.slots[i].encrypt = FALSE,
              !.slots[i].ready = RemoteKeyReady(fr)]

(* host::perform_control: the connection-management commands.  Returns the *)
(* new host state and whether the command was consumed.                    *)
PerformControl(h, i, fr) ==
    LET k == fr.kind
        client == i # HostSlot
    IN
    CASE k = "client_ping" ->
            Handled(SendEventTo(h, i, Out(k, -1, Undef, fr.arg)))
      [] k \in {"server_launch", "server_clock", "server_quit"} ->
            NotHandled(h)
      [] k = "server_action" -> Handled([h EXCEPT !.state = "action"])
      [] k = "server_pause"  -> Handled([h EXCEPT !.state = "pause"])
      [] k = "server_seed" ->
            IF h.state = "prepare" THEN NotHandled(h) ELSE Handled(h)
      [] k = "public_key" -> Handled(PublicKey(h, i, fr))
      [] k = "request_events" /\ client ->
            Handled(FoldLeft(
                LAMBDA g, n : IF n < Len(g.log)
                              THEN SendEventTo(g, i,
                                     Out(g.log[n+1].kind, n, g.log[n+1].actor, {}))
                              ELSE g,
                h, SetToSortSeq(fr.arg, <)))
      [] k = "client_enter" /\ client ->
            \* reserve an actor id, then perform_event(slot_create), which
            \* perform_control does not consume: it goes to the log
            Handled(LogEvent(Reserve(h, i), i, Frame("slot_create", fr.idx, {}, fr.from)))
      [] k = "client_leave" /\ client ->
            IF h.state = "prepare"
            THEN Handled([LogEvent(h, i, Frame("slot_remove", fr.idx, {}, fr.from))
                            EXCEPT !.slots[i].actor = Undef])
            ELSE Handled(h)
      [] k = "client_ready" /\ client -> Handled(h)
      [] OTHER -> NotHandled(h)

(* host::perform_event: control commands first, everything else is logged. *)
PerformEvent(h, i, fr) ==
    LET c == PerformControl(h, i, fr)
    IN  IF c.handled THEN c.h ELSE LogEvent(c.h, i, fr)

(* host::add_event: commands without order are performed at once; ordered  *)
(* ones are stored at their offset from the slot's baseline, first writer  *)
(* wins; those below the baseline are dropped as duplicates.               *)
AddEvent(h, i, fr) ==
    LET q == h.slots[i].qevents
        n == fr.idx - h.slots[i].qindex
        grown == IF n >= Len(q)
                 THEN q \o [k \in 1..(n + 1 - Len(q)) |-> Hole] ELSE q
    IN
    IF fr.idx = NoOrder THEN PerformControl(h, i, fr).h
    ELSE IF n >= 0
    THEN [h EXCEPT !.slots[i].qevents =
              IF grown[n+1] = Hole THEN [grown EXCEPT ![n+1] = fr] ELSE grown]
    ELSE h

(* The number of events stored contiguously from the baseline.            *)
Contiguous(q) ==
    LET holes == {k \in DOMAIN q : q[k] = Hole}
    IN  IF holes = {} THEN Len(q) ELSE Min(holes) - 1

(* The first MaxRequest missing absolute indices after the first gap.     *)
Missing(base, q) ==
    LET first == SetToSortSeq({k \in DOMAIN q : q[k] = Hole}, <)
    IN  {base + first[j] - 1 : j \in 1..Min({Len(first), MaxRequest})}

PerformQueueNoRequest(h, i) ==
    LET q  == h.slots[i].qevents
        n  == Contiguous(q)
        h1 == FoldLeft(LAMBDA g, k :
                          [PerformEvent(g, i, q[k])
                             EXCEPT !.slots[i].done = Append(@, q[k].idx)],
                       h, [k \in 1..n |-> k])
    IN  [h1 EXCEPT !.slots[i].qevents = SubSeq(q, n + 1, Len(q)),
                   !.slots[i].qindex  = @ + n]

PerformQueueNoAdvance(h, i) ==
    LET q  == h.slots[i].qevents
        n  == Contiguous(q)
        h1 == FoldLeft(LAMBDA g, k :
                          [PerformEvent(g, i, q[k])
                             EXCEPT !.slots[i].done = Append(@, q[k].idx)],
                       h, [k \in 1..n |-> k])
        h2 == IF n < Len(q)
              THEN SendEventTo(h1, i,
                     Out("request_events", -1, Undef, Missing(h.slots[i].qindex, q)))
              ELSE h1
    IN  [h2 EXCEPT !.slots[i].qevents = SubSeq(q, n + 1, Len(q))]

(* host::perform_queue: perform the contiguous run, ask for the gap, drop  *)
(* the run and advance the baseline.                                       *)
PerformQueue(h, i) ==
    LET q  == h.slots[i].qevents
        n  == Contiguous(q)
        h1 == FoldLeft(LAMBDA g, k :
                          [PerformEvent(g, i, q[k])
                             EXCEPT !.slots[i].done = Append(@, q[k].idx)],
                       h, [k \in 1..n |-> k])
        h2 == IF n < Len(q)
              THEN SendEventTo(h1, i,
                     Out("request_events", -1, Undef, Missing(h.slots[i].qindex, q)))
              ELSE h1
    IN  [h2 EXCEPT !.slots[i].qevents = SubSeq(q, n + 1, Len(q)),
                   !.slots[i].qindex  = @ + n]

(* host::clean_slots: a slot without an actor is removed.                 *)
CleanSlots(ss) == SelectSeq(ss, LAMBDA s : s.actor # Undef)

(* host::send_event: broadcast one log entry to every slot.               *)
SendEvent(h, p) ==
    FoldLeft(LAMBDA g, i : SendEventTo(g, i,
                             Out(g.log[p+1].kind, p, g.log[p+1].actor, {})),
             h, Indices(h.slots))

(* host::listen: the host logs its clock and seed before any client.      *)
Listen ==
    FoldLeft(LAMBDA g, k : PerformEvent(g, HostSlot, Frame(k, NoOrder, {}, HostSrc)),
             [slots |-> <<>>, log |-> <<>>, state |-> "prepare", next |-> 0],
             <<"server_clock", "server_seed">>)

Commit(h) ==
    /\ slots' = h.slots
    /\ log' = h.log
    /\ state' = h.state
    /\ nextActor' = h.next

Datagram(c, fr) == [src |-> c, fr |-> fr]

(* udp_node::receive_to: recvfrom into one buffer until the socket would   *)
(* block or the chunk is full; m_remote, which get_remote_address reads,   *)
(* is overwritten by every recvfrom and names the last sender.            *)
ReceiveTo(b) == [data |-> [k \in DOMAIN b |-> b[k].fr], remote |-> b[Len(b)].src]

-----------------------------------------------------------------------------
Init ==
    /\ slots = Listen.slots
    /\ log = Listen.log
    /\ state = Listen.state
    /\ nextActor = Listen.next
    /\ sent = 0
    /\ phase = "recv"
    /\ recvd = 0
    /\ net = {}
    /\ cmds = [c \in Clients |-> <<>>]
    /\ asked = [c \in Clients |-> {}]

(* host::receive_chunks with udp_node::receive_to: one receive_to call     *)
(* reads datagrams until the socket would block, appending them into one   *)
(* buffer, and get_remote_address is the sender of the last one; the bytes *)
(* go to that sender's slot.  A received datagram may also stay in flight  *)
(* (the network duplicated it).                                            *)
ReceiveBatch(b) ==
    LET r  == ReceiveTo(b)
        ss == FindSlot(slots, r.remote)
        i  == SlotOf(ss, r.remote)
    IN  /\ phase = "recv"
        /\ recvd < MaxReceives
        /\ recvd' = recvd + 1
        /\ slots' = [ss EXCEPT ![i].buffer = @ \o r.data]
        /\ \E keep \in SUBSET Range(b) : net' = (net \ Range(b)) \cup keep
        /\ UNCHANGED <<log, sent, state, nextActor, phase, cmds, asked>>

ReceiveChunk == \E n \in 1..RecvBatch : \E b \in [1..n -> net] : ReceiveBatch(b)

(* host::process_buffers: every slot's frames, allowed ones to add_event. *)
ProcessBuffers ==
    /\ phase = "recv"
    /\ Commit(FoldLeft(
         LAMBDA g, i :
           LET g1 == FoldLeft(LAMBDA g2, fr :
                                IF IsAllowed(fr.kind) THEN AddEvent(g2, i, fr) ELSE g2,
                              g, g.slots[i].buffer)
           IN  [g1 EXCEPT !.slots[i].buffer = <<>>],
         H, Indices(slots)))
    /\ phase' = "slots"
    /\ recvd' = 0
    /\ UNCHANGED <<sent, envVars>>

(* host::process_slots: perform_queue on every slot, then clean_slots.    *)
ProcessSlots ==
    /\ phase = "slots"
    /\ LET h == FoldLeft(LAMBDA g, i : PerformQueue(g, i), H, Indices(slots))
       IN  Commit([h EXCEPT !.slots = CleanSlots(@)])
    /\ phase' = "send"
    /\ UNCHANGED <<sent, recvd, envVars>>

(* host::send_events: broadcast the new log entries, then send_chunks     *)
(* sends one chunk, at most ChunkFrames frames, from every slot: encrypted *)
(* when the slot's encrypt flag is set, otherwise in the clear, after      *)
(* which encrypt becomes cipher.is_ready().  Each chunk reaches its client *)
(* or is lost on the way; what a client keeps of it is the resend requests *)
(* it carried.                                                             *)
SendEvents ==
    /\ phase = "send"
    /\ LET h    == FoldLeft(LAMBDA g, p : SendEvent(g, p), H,
                            [k \in 1..(Len(log) - sent) |-> sent + k - 1])
           ss   == h.slots
           n(i) == Min({Len(ss[i].chunks), ChunkFrames})
           chunk(i) == Range(SubSeq(ss[i].chunks, 1, n(i)))
       IN  /\ slots' = [i \in DOMAIN ss |->
                          [ss[i] EXCEPT !.chunks = SubSeq(@, n(i) + 1, Len(@)),
                                        !.encrypt = IF @ \/ ss[i].chunks = <<>>
                                                    THEN @ ELSE ss[i].ready]]
           /\ \E arrived \in SUBSET {j \in DOMAIN ss : ss[j].chunks # <<>>} :
                LET to(c) == {i \in arrived : ss[i].addr = c}
                IN  asked' = [c \in Clients |-> asked[c] \cup
                                 UNION {o.arg : o \in {o2 \in UNION {chunk(i) : i \in to(c)} :
                                                         o2.kind = "request_events"}}]
    /\ sent' = Len(log)
    /\ phase' = "recv"
    /\ UNCHANGED <<log, state, nextActor, recvd, net, cmds>>

(* host::queue: the application hands the host a command of its own.     *)
Queue(k) ==
    /\ phase = "recv"
    /\ Commit(PerformEvent(H, HostSlot, Frame(k, NoOrder, {}, HostSrc)))
    /\ UNCHANGED <<sent, phase, recvd, envVars>>

HostNext ==
    \/ ReceiveChunk
    \/ ProcessBuffers
    \/ ProcessSlots
    \/ SendEvents
    \/ \E k \in HostCommands : Queue(k)

-----------------------------------------------------------------------------
(* The clients, from the spec of laplace::engine::remote: a client numbers *)
(* its ordered commands 0, 1, 2, ... and resends the ones the host asks   *)
(* for.                                                                    *)
Send(c, k) ==
    /\ net' = net \cup {Datagram(c, ClientFrame(k, Len(cmds[c]), c))}
    /\ cmds' = [cmds EXCEPT ![c] = Append(@, k)]

ClientSend(c) ==
    /\ Len(cmds[c]) < Len(Script)
    /\ \/ Send(c, Script[Len(cmds[c]) + 1])
       \/ \E k \in Inject : Send(c, k)
    /\ UNCHANGED <<hostVars, asked>>

ClientResend(c) ==
    /\ \E k \in asked[c] :
         /\ k < Len(cmds[c])
         /\ net' = net \cup {Datagram(c, ClientFrame(cmds[c][k+1], k, c))}
         /\ asked' = [asked EXCEPT ![c] = @ \ {k}]
    /\ UNCHANGED <<hostVars, cmds>>

(* The network loses a datagram on its way to the host.                   *)
Lose ==
    /\ \E d \in net : net' = net \ {d}
    /\ UNCHANGED <<hostVars, cmds, asked>>

EnvNext ==
    \/ \E c \in Clients : ClientSend(c) \/ ClientResend(c)
    \/ Lose

Next == HostNext \/ EnvNext

Spec == Init /\ [][Next]_vars

(* The datagrams a client can put on the network.                         *)
Datagrams ==
    {Datagram(c, ClientFrame(k, i, c)) :
        c \in Clients, k \in Range(Script) \cup Inject, i \in 0..(Len(Script) - 1)}

(* A receive_to call that reads datagram d.                               *)
ReceiveOf(d) == \E n \in 1..RecvBatch : \E b \in [1..n -> net] :
                    d \in Range(b) /\ ReceiveBatch(b)

(* A send_chunks whose chunks bring a client a resend request it lacked.  *)
DeliverRequest == SendEvents /\ asked' # asked

(* The application calls host::tick every frame, so every step of a tick *)
(* is weakly fair.  The network is fair-lossy: a datagram offered again   *)
(* and again is eventually received, and a request chunk sent again and   *)
(* again eventually arrives.  A client resends what it is asked for.      *)
Fairness ==
    /\ WF_vars(ProcessBuffers)
    /\ WF_vars(ProcessSlots)
    /\ WF_vars(SendEvents)
    /\ \A d \in Datagrams : SF_vars(ReceiveOf(d))
    /\ SF_vars(DeliverRequest)
    /\ \A c \in Clients : WF_vars(ClientResend(c))

FairSpec == Spec /\ Fairness

(* A client resends datagram d.                                           *)
ResendOf(d) == \E c \in Clients : ClientResend(c) /\ d \in net' \ net

(* The network is fair-lossy: a datagram a client sends again and again   *)
(* is received again and again.                                          *)
NetworkFair ==
    \A d \in Datagrams : []<><<ResendOf(d)>>_vars => []<><<ReceiveOf(d)>>_vars

-----------------------------------------------------------------------------
TypeOK ==
    /\ \A i \in DOMAIN slots :
         /\ slots[i].addr \in Clients
         /\ slots[i].actor \in {Undef} \cup 0..(nextActor - 1)
         /\ slots[i].qindex \in Nat
         /\ slots[i].ready \in BOOLEAN
         /\ slots[i].encrypt \in BOOLEAN
    /\ sent \in 0..Len(log)
    /\ state \in {"prepare", "action", "pause"}
    /\ phase \in {"recv", "slots", "send"}

(* Exactly-once, in-order admission (host::add_event, host::perform_queue):*)
(* whatever datagrams were lost, duplicated, reordered or concatenated,    *)
(* the commands a slot has performed are exactly its indices 0, 1, ...,   *)
(* below its baseline, once each and in order, and every command waiting   *)
(* in its sparse queue sits at the offset of its own index.               *)
QueueConsistent ==
    \A i \in DOMAIN slots :
      /\ slots[i].done = [k \in 1..slots[i].qindex |-> k - 1]
      /\ \A k \in DOMAIN slots[i].qevents :
           slots[i].qevents[k] # Hole =>
             slots[i].qevents[k].idx = slots[i].qindex + k - 1

(* A slot never encrypts with a cipher that is not ready: send_chunks     *)
(* turns encryption on only after a plain chunk and only when the remote   *)
(* key was set up, and a later public_key (a rekey, with a usable key or   *)
(* not) turns it off before the key is replaced (host::perform_control,   *)
(* host::send_chunks).  Otherwise a rejected key would leave the slot      *)
(* encrypting with a cipher that is not set up.                           *)
EncryptOnlyReady ==
    \A i \in DOMAIN slots : slots[i].encrypt => slots[i].ready

RT == INSTANCE Root

(* The game's player list follows the host's connections: performing the  *)
(* log on the quadwar root (root::slot_create, root::slot_remove, keyed by *)
(* the actor the host stamped) leaves exactly the actors of the host's     *)
(* joined slots in the root's slot list, each once.  It needs the          *)
(* client_leave handler to log slot_remove before it releases the actor,   *)
(* and do_slot_remove to find the actor at its lower bound.                *)
RootTracksSlots ==
    LET r      == RT!RootOf(log)
        joined == {i \in DOMAIN slots : slots[i].actor # Undef}
    IN  /\ Len(r.slots) = Cardinality(joined)
        /\ ToSet(r.slots) = {slots[i].actor : i \in joined}

(* Every command logged for a client slot was sent by that client: the     *)
(* log stamps a command with the actor of the slot whose address the host  *)
(* read for its datagram (host::receive_chunks).                           *)
AttributedToSender ==
    \A p \in DOMAIN log : log[p].src # HostSrc => log[p].from = log[p].src

(* A client endpoint joins at most once: a client_enter it sent is never   *)
(* performed a second time, so only one slot_create is logged for it.     *)
SingleJoin ==
    \A c \in Clients :
      Cardinality({p \in DOMAIN log : log[p].kind = "slot_create" /\ log[p].src = c}) <= 1

(* Clients never change the server's run state: with the allow-list in     *)
(* force, only the application's own host::queue switches between prepare, *)
(* action and pause (host::perform_control, server_action/server_pause).   *)
RunStateFromHost ==
    [][state' # state => \E k \in HostCommands : Queue(k)]_vars

\* Command k of client c has been performed: its slot's baseline is past k.
Performed(c, k) == \E i \in DOMAIN slots : slots[i].addr = c /\ slots[i].qindex > k

\* A slot of c holds a command above a missing index k.
HeldAbove(c, k) ==
    \E i \in DOMAIN slots :
        /\ slots[i].addr = c
        /\ slots[i].qindex <= k
        /\ \E q \in DOMAIN slots[i].qevents :
              slots[i].qevents[q] # Hole /\ slots[i].qevents[q].idx > k

(* Gap-fill (host::perform_queue sends request_events for the missing     *)
(* indices every tick): once a joined client's slot holds a command above  *)
(* a gap, the gap is eventually filled and the missing command performed, *)
(* however often the network loses the request or the resend.             *)
GapFilled ==
    \A c \in Clients, k \in 0..(Len(Script) - 1) :
        (HeldAbove(c, k) /\ \E i \in DOMAIN slots : slots[i].addr = c /\ slots[i].actor # Undef)
            ~> Performed(c, k)

GapFilledOnFairNetwork == NetworkFair => GapFilled

\* The log's client entries as the abstract log sees them: the slot the
\* host attributed the command to (src, the address of the slot LogEvent
\* stamped; from is the true sender, known only to the network model), and
\* the command's order index.
ClientEntries ==
    LET es == SelectSeq(log, LAMBDA e : e.src # HostSrc)
    IN  [j \in DOMAIN es |-> [c |-> es[j].src, k |-> es[j].idx]]

CL == INSTANCE ClientLog
        WITH sent <- cmds, clog <- ClientEntries, Kinds <- Range(Script) \cup Inject

(* The host implements the client log for a client that joins once and    *)
(* stays (host::perform_queue, perform_event, add_event): under a lossy,  *)
(* duplicating and reordering network, the log only grows and each        *)
(* client's commands enter it once, in index order, after being sent.     *)
(* A client that leaves is outside this promise: clean_slots drops its    *)
(* slot with the baseline, and a late duplicate is performed again        *)
(* (SingleJoin, the host_rejoin run).                                      *)
RefinesClientLog == CL!Spec

(* Gap-fill for any slot: a slot that holds a command above a gap gets the *)
(* gap filled, also when the missing command is the client's client_enter.*)
GapFilledNewSlot ==
    NetworkFair =>
        \A c \in Clients, k \in 0..(Len(Script) - 1) : HeldAbove(c, k) ~> Performed(c, k)

(* The public_key reply leaves the host in the clear, the client needing   *)
(* the host's key before it can decrypt anything: a chunk send_chunks      *)
(* encrypts never carries one.  Not checked by any run: TLC finds it       *)
(* violated under MCHost.cfg, with a single key, when the reply waits      *)
(* behind more than a chunk of broadcast frames: the first, plain, chunk  *)
(* switches encryption on and the reply leaves in the next, encrypted.    *)
ReplyInClear ==
    phase = "send" =>
      \A i \in DOMAIN slots :
        slots[i].encrypt =>
          \A k \in 1..Min({Len(slots[i].chunks), ChunkFrames}) :
            slots[i].chunks[k].kind # "public_key"
=============================================================================
