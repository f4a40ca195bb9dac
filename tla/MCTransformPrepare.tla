-------------------------- MODULE MCTransformPrepare --------------------------
(* Profiles that differ in what clTransformPrepare reads: tagged and untagged, *)
(* two with equal peaks of which one has them in the curve, HLG with and       *)
(* without a tag, and those the CCMM, clProfileQuery or LittleCMS refuse.      *)
EXTENDS TransformPrepare

Plain == [luminance |-> 0, curve |-> "gamma", implicitScale |-> 1,
          query |-> "ok", pqSignature |-> FALSE, rgb |-> TRUE]

MCProfiles ==
  {Plain,
   [Plain EXCEPT !.luminance = 4],
   [Plain EXCEPT !.luminance = 2, !.implicitScale = 2, !.curve = "srgb"],
   [Plain EXCEPT !.curve = "hlg"],
   [Plain EXCEPT !.curve = "hlg", !.luminance = 4],
   [Plain EXCEPT !.curve = "pq", !.query = "noLuminance", !.pqSignature = TRUE],
   [Plain EXCEPT !.curve = "complex", !.implicitScale = 2],
   [Plain EXCEPT !.curve = "complex", !.rgb = FALSE],
   [Plain EXCEPT !.query = "nothing"]}
=============================================================================
