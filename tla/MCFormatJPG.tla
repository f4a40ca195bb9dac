------------------------------- MODULE MCFormatJPG -------------------------------
(* Markers of two bytes, numbered to three: profiles of no, one, two, three, four *)
(* and five markers, the last one full or not.                                    *)
EXTENDS FormatJPG
===================================================================================
