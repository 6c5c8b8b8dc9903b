------------------------------ MODULE MCTaskWalk ------------------------------
(* Instances of TaskWalk.                                                  *)
EXTENDS TaskWalk

CONSTANT a1

=============================================================================
