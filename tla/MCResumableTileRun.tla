------------------------- MODULE MCResumableTileRun -------------------------
(***************************************************************************)
(* Values for the constants of ResumableTileRun in the TLC runs.           *)
(***************************************************************************)
EXTENDS ResumableTileRun

CONSTANTS p, q, r, k, l

\* p and q run the same, r a run that differs in the partition only
Runs == [i \in Processes |-> IF i = r THEN l ELSE k]

=============================================================================
