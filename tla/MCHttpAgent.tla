---------------------------- MODULE MCHttpAgent ----------------------------
(* Small instances of HttpAgent. *)
EXTENDS HttpAgent, TLC

CONSTANTS h1, h2, f1, f2, f3

RangeAndWhole == h1 :> "range" @@ h2 :> "whole"
BothWhole == h1 :> "whole" @@ h2 :> "whole"
\* The properties tell no two descriptors apart.
Symmetry == Permutations(Fd)
=============================================================================
