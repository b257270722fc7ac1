--------------------------- MODULE MCTaskExecutor ---------------------------
(* A small instance of TaskExecutor: one task with a parent token and one   *)
(* with a deadline.  Together they fill the byte limit; MCConcurrency has a *)
(* pair of executors that run into it.                                      *)
EXTENDS TaskExecutor

CONSTANTS timed, parented

MCBytes == [t \in Tasks |-> IF t = timed THEN 2 ELSE 1]
MCTimed == {timed}
MCParented == {parented}
=============================================================================
