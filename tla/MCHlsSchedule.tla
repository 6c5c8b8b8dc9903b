--------------------------- MODULE MCHlsSchedule ---------------------------
(* Small instances of HlsSchedule. *)
EXTENDS HlsSchedule, TLC

CONSTANTS a1

OneApi == {a1}
NoApi == {}
=============================================================================
