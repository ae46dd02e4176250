---------------------------- MODULE MCJobEngine ----------------------------
(***************************************************************************)
(* Values for the constants of JobEngine in the TLC runs.                  *)
(***************************************************************************)
EXTENDS JobEngine

CONSTANTS a, b, c

\* a and b are ordinary jobs, b more urgent; c is another one or exclusive
FlatPriority == [j \in Jobs |-> IF j = b THEN 0 ELSE 1]
FlatParent == [j \in Jobs |-> NoJob]

\* the body of a submits c and waits for it, b stands aside
NestedParent == [j \in Jobs |-> IF j = c THEN a ELSE NoJob]

=============================================================================
