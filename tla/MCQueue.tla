------------------------------ MODULE MCQueue ------------------------------
(***************************************************************************)
(* Values for TLC: two tasks of one priority and one above them.           *)
(***************************************************************************)
EXTENDS Queue, TLC

CONSTANTS a, b, c

MCTasks == {a, b, c}

MCPriority == [t \in Tasks |-> IF t = c THEN 5 ELSE 4]

\* Tasks of one priority are interchangeable.
Equals == Permutations({a, b})
=============================================================================
