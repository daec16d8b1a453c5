----------------------------- MODULE EventOrder -----------------------------
(***************************************************************************)
(* laplace::engine::eventorder (src/source/laplace/engine/eventorder.h,    *)
(* eventorder.impl.h): the position of an event in the event tree.  The    *)
(* host gives every logged event a root order, its log position            *)
(* (e_host.cpp, perform_event); an event that performs spawns children,    *)
(* each from a per-parent child counter (aqp_qw_loading.cpp).  The solver  *)
(* sorts the events it applies with operator<.                            *)
(*                                                                         *)
(* An order is the sequence m_indices[0 .. m_size-1]; the empty sequence   *)
(* is the default-constructed order and the one a spawn past max_depth    *)
(* collapses to.  The state machine grows a tree of events the way the     *)
(* host and the event handlers create them.                               *)
(***************************************************************************)
EXTENDS Integers, Sequences

CONSTANTS
    MaxDepth,     \* eventorder::max_depth (16 in the code)
    RootIndices,  \* log positions the host hands out as root orders
    MaxChildren,  \* bound: children one event spawns
    MaxEvents     \* bound: events in the tree

ASSUME /\ MaxDepth \in Nat \ {0}
       /\ RootIndices \subseteq Nat
       /\ MaxChildren \in Nat
       /\ MaxEvents \in Nat \ {0}

VARIABLE
    events  \* events[e] = [ord, parent, count]: the order, the event that
            \* spawned it (0 for a root) and its child counter

-----------------------------------------------------------------------------
(* eventorder::eventorder(index): a root order.                           *)
RootOrder(index) == <<index>>

SpawnOrderNoCollapse(parent, childIndex) == Append(parent, childIndex)

(* eventorder::eventorder(parent, child_index), reached by spawn: a copy   *)
(* of the parent's path with the child index appended, or the empty order  *)
(* when the parent is already max_depth deep.                             *)
SpawnOrder(parent, childIndex) ==
    IF Len(parent) = MaxDepth THEN <<>> ELSE Append(parent, childIndex)

(* eventorder::operator<, as the code has it: a shorter order is less;     *)
(* anything non-empty is less than the empty order; otherwise it is less   *)
(* as soon as ONE common position holds a smaller index.                  *)
Less(a, b) ==
    IF Len(a) < Len(b) THEN TRUE
    ELSE IF Len(b) = 0 THEN Len(a) > 0
    ELSE \E i \in 1..Len(b) : a[i] < b[i]

-----------------------------------------------------------------------------
Init == events = <<>>

(* The host logs an event: perform_event sets its order from the log       *)
(* position, set_order({ m_queue.events.size() }); positions are unique.   *)
AddRoot(index) ==
    /\ Len(events) < MaxEvents
    /\ \A e \in DOMAIN events : events[e].ord # RootOrder(index)
    /\ events' = Append(events, [ord |-> RootOrder(index), parent |-> 0, count |-> 0])

SpawnNoCount(p) ==
    /\ Len(events) < MaxEvents
    /\ events[p].count < MaxChildren
    /\ events' = Append(events, [ord |-> SpawnOrder(events[p].ord, events[p].count),
                                  parent |-> p, count |-> 0])

(* eventorder::spawn(child_count): the child takes the counter's value,    *)
(* and the counter is incremented.                                        *)
Spawn(p) ==
    /\ Len(events) < MaxEvents
    /\ events[p].count < MaxChildren
    /\ events' = Append([events EXCEPT ![p].count = @ + 1],
                        [ord |-> SpawnOrder(events[p].ord, events[p].count),
                         parent |-> p, count |-> 0])

Next ==
    \/ \E i \in RootIndices : AddRoot(i)
    \/ \E p \in DOMAIN events : Spawn(p)

Spec == Init /\ [][Next]_events

-----------------------------------------------------------------------------
TypeOK ==
    \A e \in DOMAIN events :
        /\ events[e].ord \in Seq(Nat)
        /\ Len(events[e].ord) <= MaxDepth
        /\ events[e].parent \in 0..(e - 1)

\* e is a proper ancestor of d in the spawn tree.
RECURSIVE AncestorOf(_, _)
AncestorOf(e, d) ==
    events[d].parent # 0 /\ (events[d].parent = e \/ AncestorOf(e, events[d].parent))

\* The depth of an event in the spawn tree, a root having depth 1.
RECURSIVE Depth(_)
Depth(e) == IF events[e].parent = 0 THEN 1 ELSE 1 + Depth(events[e].parent)

\* The events no spawn on the way to them collapsed at max_depth.
Below == {e \in DOMAIN events : Depth(e) <= MaxDepth}

(* Spawning refines the order (eventorder::spawn with operator<): below    *)
(* max_depth, an event sorts strictly before every event in its subtree,   *)
(* and of two children of one event the one spawned first sorts strictly   *)
(* before the other.                                                       *)
SpawnRefines ==
    \A e, d \in Below :
        /\ AncestorOf(e, d) => Less(events[e].ord, events[d].ord)
                               /\ ~Less(events[d].ord, events[e].ord)
        /\ (events[e].parent = events[d].parent /\ events[e].parent # 0 /\ e < d)
              => Less(events[e].ord, events[d].ord) /\ ~Less(events[d].ord, events[e].ord)

(* operator< is a strict order on the orders that exist together: never    *)
(* both a < b and b < a.  std::sort and any ordered container the solver   *)
(* sorts impacts with require it.                                         *)
Asymmetric ==
    \A e, d \in DOMAIN events :
        ~(Less(events[e].ord, events[d].ord) /\ Less(events[d].ord, events[e].ord))

=============================================================================
