----------------------------- MODULE MCTaskTable -----------------------------
(* Instances of TaskTable.                                                 *)
EXTENDS TaskTable

CONSTANT a1

=============================================================================
