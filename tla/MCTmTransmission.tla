--------------------------- MODULE MCTmTransmission ---------------------------
(* Instance of TmTransmission for TLC. *)
EXTENDS TmTransmission
=============================================================================
