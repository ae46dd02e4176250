---------------------------- MODULE MCTaskCenter ----------------------------
(***************************************************************************)
(* Values for the constants of TaskCenter in the TLC runs.                 *)
(***************************************************************************)
EXTENDS TaskCenter

CONSTANTS p, q, u, w

\* q takes what p produces
Chain == p :> {} @@ q :> {p}
JustP == p :> {}
OneChain == {Chain}
ChainOrP == {Chain, JustP}
NoPipelines == {}
\* the body of p submits q; nobody's does
FromBody == [t \in Tasks |-> IF t = q THEN p ELSE NoTask]
NoBody == [t \in Tasks |-> NoTask]
\* q repeats p; no task is repeated
QRepeatsP == [t \in Tasks |-> IF t = q THEN p ELSE NoTask]
NoRepeats == [t \in Tasks |-> NoTask]

=============================================================================
