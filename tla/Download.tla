------------------------------ MODULE Download ------------------------------
(***************************************************************************)
(* What a download promises to its application: pieces arrive in any       *)
(* order, the file is published under its final name only when all of them *)
(* are there, and whatever is lost is lost as a whole (the task is deleted *)
(* or restarts from nothing).                                              *)
(***************************************************************************)
CONSTANT Pieces

VARIABLES have, published

TypeOK == have \subseteq Pieces /\ published \in BOOLEAN

Init == have = {} /\ published = FALSE

Receive == have' \in SUBSET Pieces /\ have \subseteq have' /\ UNCHANGED published
Publish == have = Pieces /\ published' = TRUE /\ UNCHANGED have
Lose == have' = {} /\ published' = FALSE

Next == Receive \/ Publish \/ Lose

Spec == Init /\ [][Next]_<<have, published>>
=============================================================================
