--------------------- MODULE MCSchedulingStateMachine ---------------------
(* A small instance of SchedulingStateMachine.  Tasks 2 and 5 carry the same
   transaction; a session creates four tasks, and either has a task more than
   the cap allows or both of these. *)
EXTENDS SchedulingStateMachine

TwinHashes == [t \in Tasks |-> IF t = 5 THEN 2 ELSE t]
FourTasks == {Tasks \ {5}, Tasks \ {3}}
============================================================================
