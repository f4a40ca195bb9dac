-------------------------------- MODULE MCImage --------------------------------
(***************************************************************************)
(* TLC instance of Image: integer buffers of two and four bits, and depths *)
(* of two, three and five bits for 8, 10 and 32: one on the grid of U8, one*)
(* whose U16 levels are no multiples of the U8 levels, one beyond U16.     *)
(* One is the least common multiple of the levels 3, 7 and 15.             *)
(***************************************************************************)
EXTENDS Image

MCSizes == {<<3, 2>>, <<1, 2>>}

\* A negative float, a U8 level, one between two levels, and one beyond white.
MCSamples == <<-20, 35, 62, 150>>
=============================================================================
