-------------------------- MODULE MCPacedTransport --------------------------
(* PacedTransport with a backoff schedule that doubles up to a cap of 2.   *)
EXTENDS PacedTransport, TLC

CONSTANTS c1, c2

BackoffSchedule == [n \in 1..Attempts \cup 1..OuterAttempts |-> IF n = 1 THEN 1 ELSE 2]

Symmetry == Permutations(Calls)
=============================================================================
