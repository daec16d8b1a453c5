---------------------------- MODULE MCEventOrder ----------------------------
(* Model-checking instance of EventOrder: a max_depth small enough that    *)
(* spawns collapse within the bound on events.                             *)
EXTENDS EventOrder

\* Two log positions; 0 and 1 make the smallest root orders that compare
\* with a deeper order of the other root.
MCRoots == {0, 1}
=============================================================================
