--------------------------- MODULE MCHlsPlayback ---------------------------
(* Instances of HlsPlayback: all pieces of one size.                       *)
EXTENDS HlsPlayback

CONSTANT PieceSize

MCSize == [i \in 0 .. PieceNum - 1 |-> PieceSize]

=============================================================================
