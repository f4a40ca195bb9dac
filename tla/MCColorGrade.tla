----------------------------- MODULE MCColorGrade -----------------------------
(***************************************************************************)
(* TLC instance of ColorGrade: five gammas on up to three threads, so that *)
(* there are full batches, a short last batch, and a batch of one.  Three  *)
(* error values give ties before and after the minimum.                    *)
(***************************************************************************)
EXTENDS ColorGrade
=============================================================================
