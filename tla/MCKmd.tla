------------------------------- MODULE MCKmd -------------------------------
(* The instance of the Windows driver: 4 and 10 seconds in units of two. *)
EXTENDS Kmd
=============================================================================
