--------------------------- MODULE MCDownloadStore ---------------------------
(* Instances of DownloadStore for TLC. *)
EXTENDS DownloadStore, TLC

CONSTANTS a1, a2

ApiThreads == {a1, a2}
NoApi == {}
Symmetry == Permutations(ApiThreads)
=============================================================================
