---------------------------- MODULE MCTransformRun ----------------------------
(***************************************************************************)
(* TLC instance of TransformRun: up to three threads and seven pixels give *)
(* no pixel, fewer pixels than threads, even and uneven slices; every pair *)
(* of channel counts gives different strides in the two buffers.           *)
(***************************************************************************)
EXTENDS TransformRun
=============================================================================
