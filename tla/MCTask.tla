-------------------------------- MODULE MCTask --------------------------------
(* Model-checking instance of Task: two software objects.                  *)
EXTENDS Task, TLC

CONSTANTS o1, o2

MCTaskId == {o1, o2}
MCTaskId1 == {o1}

(* A progress value mid-way, the last one, and one past 100 that a uint8  *)
(* can carry.                                                               *)
MCProgress == {50, 100, 101}
MCProgressInRange == {50, 100}

MCTaskSymmetry == Permutations(TaskId)
=============================================================================
