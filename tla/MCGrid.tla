------------------------------- MODULE MCGrid -------------------------------
(* A 3 x 3 map: every layout of walls, a few footprints (one cell, a full  *)
(* 2 x 2 square centered on either corner, a 3 x 1 bar with a hole, a      *)
(* 1 x 2 column centered low), and every position plus one past the right *)
(* border, which nearest clamps.                                          *)
EXTENDS Grid

MCFootprints ==
    { [w |-> 1, h |-> 1, cx |-> 0, cy |-> 0, cells |-> <<1>>],
      [w |-> 2, h |-> 2, cx |-> 0, cy |-> 0, cells |-> <<1, 1, 1, 1>>],
      [w |-> 2, h |-> 2, cx |-> 1, cy |-> 1, cells |-> <<1, 1, 1, 1>>],
      [w |-> 3, h |-> 1, cx |-> 1, cy |-> 0, cells |-> <<1, 0, 1>>],
      [w |-> 1, h |-> 2, cx |-> 0, cy |-> 1, cells |-> <<1, 1>>] }

MCPositions == ((0..2) \X (0..2)) \cup {<<3, 1>>}

\* Offsets inside the map, one past it on the right (a 2-wide footprint
\* wraps into the next row) and one that a tall footprint overruns.
MCOffsets == {<<0, 0>>, <<1, 1>>, <<2, 0>>, <<0, 2>>}

OneFootprint == {[w |-> 1, h |-> 1, cx |-> 0, cy |-> 0, cells |-> <<1>>]}
=============================================================================
