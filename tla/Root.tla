-------------------------------- MODULE Root --------------------------------
(* The quadwar root aggregate (apps/quadwar/object/aqo_root.cpp): the      *)
(* sorted list of player slots, kept as one entity whose rows include the  *)
(* state version and the slot count.  The slot operations run under the    *)
(* entity's lock (basic_entity::modify calls root::do_modify), so each is  *)
(* one atomic function from root state to root state here; the entity row *)
(* write `init` is taken as writing the committed value of the row.        *)
(*                                                                         *)
(* The root is fed by the host: a logged slot_create or slot_remove event, *)
(* performed on the world, calls root::slot_create or root::slot_remove    *)
(* with the actor the host stamped on the event (RootOf).                  *)
EXTENDS Integers, Sequences, SequencesExt

CONSTANT Undef          \* engine::id_undefined

\* root::m_proto, the prototype every root is copied from: no slots, the
\* state_version and root_slot_count rows at 0.
RootInit == [slots |-> <<>>, version |-> 0, slot_count |-> 0]

\* A mutant of LowerBound: std::upper_bound, the first element greater
\* than x.
UpperBound(s, x) ==
    LET gt == {k \in DOMAIN s : s[k] > x}
    IN  IF gt = {} THEN Len(s) + 1 ELSE Min(gt)

(* std::lower_bound over the sorted list: the position of the first       *)
(* element not less than x, or one past the end.                           *)
LowerBound(s, x) ==
    LET ge == {k \in DOMAIN s : s[k] >= x}
    IN  IF ge = {} THEN Len(s) + 1 ELSE Min(ge)

(* root::do_slot_create: insert the actor at its lower bound (an actor     *)
(* already present is inserted again), bump the version row, store the    *)
(* new list size in the slot count row.                                    *)
DoSlotCreate(r, a) ==
    LET s == InsertAt(r.slots, LowerBound(r.slots, a), a)
    IN  [r EXCEPT !.slots = s, !.version = @ + 1, !.slot_count = Len(s)]

(* root::do_slot_remove: erase one occurrence of the actor if the element  *)
(* at its lower bound is that actor; the version row is bumped and the     *)
(* slot count stored whether or not anything was erased.                   *)
DoSlotRemove(r, a) ==
    LET k == LowerBound(r.slots, a)
        s == IF k <= Len(r.slots) /\ r.slots[k] = a
             THEN RemoveAt(r.slots, k) ELSE r.slots
    IN  [r EXCEPT !.slots = s, !.version = @ + 1, !.slot_count = Len(s)]

(* root::slot_create and root::slot_remove: an undefined actor id is       *)
(* refused with an error and the root is left alone; any other id goes to  *)
(* en.modify, which runs do_modify under the entity's lock.                *)
SlotCreate(r, a) == IF a = Undef THEN r ELSE DoSlotCreate(r, a)
SlotRemove(r, a) == IF a = Undef THEN r ELSE DoSlotRemove(r, a)

(* The world performing a logged event on the root: slot_create and        *)
(* slot_remove call the root with the event's actor; every other event     *)
(* leaves the root's slots alone.                                          *)
Perform(r, e) ==
    CASE e.kind = "slot_create" -> SlotCreate(r, e.actor)
      [] e.kind = "slot_remove" -> SlotRemove(r, e.actor)
      [] OTHER                  -> r

\* The root after the events of a log are performed in log order.
RootOf(log) == FoldLeft(Perform, RootInit, log)
=============================================================================
