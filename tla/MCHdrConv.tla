-------------------------------- MODULE MCHdrConv --------------------------------
(* Two screenshots of two writes each, saved in up to two sessions. *)
EXTENDS HdrConv
===================================================================================
