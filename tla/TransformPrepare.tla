---------------------------- MODULE TransformPrepare ----------------------------
(***************************************************************************)
(* The life of a clTransform (lib/src/transform.c): it is created for two  *)
(* profiles, prepared lazily for one of two color management modules       *)
(* (colorist's own CCMM, or LittleCMS), asked for its luminance scale, run *)
(* any number of times, and destroyed.  Each module has a cache and a      *)
(* ready flag; the luminance fields are shared by both.  ccmmAllowed is a  *)
(* public field of the context: a caller may change it between two calls.  *)
(*                                                                         *)
(* A run is abstracted to the factor it applies to the luminance of a      *)
(* pixel, a fraction <<numerator, denominator>>, and the curves it decodes *)
(* and encodes with.  Matrices and white points are left out.              *)
(***************************************************************************)
EXTENDS Integers, FiniteSets

CONSTANTS NULL,               \* no profile: XYZ
          Profiles,           \* the profiles enumerated
          DefaultLuminance,   \* C->defaultLuminance (--deflum)
          HLGLuminance,       \* clTransformCalcHLGLuminance(DefaultLuminance)
          Garbage             \* what an uninitialized luminance may hold

Curves == {"gamma", "srgb", "hlg", "pq", "complex"}

\* What a clProfile holds, as far as this module reads it.  luminance 0 is a
\* profile without a lumi tag; query tells how far clProfileQuery gets.
Profile ==
  [luminance: Nat, curve: Curves, implicitScale: Nat \ {0},
   query: {"ok", "noLuminance", "nothing"}, pqSignature: BOOLEAN, rgb: BOOLEAN]

ASSUME TransformPrepareAssumption ==
  /\ Profiles \subseteq Profile
  /\ NULL \notin Profile \cup [luminance: Nat, curve: Curves, scale: Nat]
  /\ DefaultLuminance \in Nat \ {0} /\ HLGLuminance \in Nat \ {0}
  /\ Garbage \subseteq Nat /\ Garbage # {}

Tonemaps == {"auto", "on", "off"}

Functions == {"none", "gamma", "srgb", "hlg", "pq"}   \* clTransformTransferFunction

Handles == {"lcmsXYZProfile", "lcmsSrcToXYZ", "lcmsXYZToDst"}

VARIABLES ccmmAllowed,         \* of the context
          live,                \* the transform exists
          srcProfile, dstProfile, requestedTonemap,
          srcLuminanceScale, srcCurveScale, dstLuminanceScale, dstCurveScale,
          tonemapEnabled, luminanceScaleEnabled,
          ccmmReady, ccmmSrcEOTF, ccmmDstOETF, ccmmHLGLuminance,
          lcmsReady,
          handles,             \* the LittleCMS pointers that are not NULL
          lcmsObjects,         \* how many LittleCMS objects exist
          run,                 \* what the last clTransformRun did, or NULL
          first                \* history: the module it was first prepared for

scaleVars == <<srcLuminanceScale, srcCurveScale, dstLuminanceScale,
               dstCurveScale, tonemapEnabled, luminanceScaleEnabled,
               ccmmHLGLuminance>>
ccmmVars == <<ccmmReady, ccmmSrcEOTF, ccmmDstOETF>>
lcmsVars == <<lcmsReady, handles, lcmsObjects>>
argVars  == <<live, srcProfile, dstProfile, requestedTonemap>>
prepareVars == <<ccmmAllowed, argVars, scaleVars, ccmmVars, lcmsVars, run, first>>

\* clAllocateStruct returns zeroed memory.
Zeroed ==
  /\ srcLuminanceScale' = 0 /\ srcCurveScale' = 0
  /\ dstLuminanceScale' = 0 /\ dstCurveScale' = 0
  /\ tonemapEnabled' = FALSE /\ luminanceScaleEnabled' = FALSE
  /\ ccmmReady' = FALSE /\ lcmsReady' = FALSE
  /\ ccmmSrcEOTF' = "none" /\ ccmmDstOETF' = "none"
  /\ ccmmHLGLuminance' = 0
  /\ handles' = {}

PrepareInit ==
  /\ ccmmAllowed \in BOOLEAN
  /\ live = FALSE
  /\ srcProfile = NULL /\ dstProfile = NULL /\ requestedTonemap = "auto"
  /\ srcLuminanceScale = 0 /\ srcCurveScale = 0
  /\ dstLuminanceScale = 0 /\ dstCurveScale = 0
  /\ tonemapEnabled = FALSE /\ luminanceScaleEnabled = FALSE
  /\ ccmmReady = FALSE /\ lcmsReady = FALSE
  /\ ccmmSrcEOTF = "none" /\ ccmmDstOETF = "none"
  /\ ccmmHLGLuminance = 0
  /\ handles = {} /\ lcmsObjects = 0
  /\ run = NULL /\ first = "none"

-----------------------------------------------------------------------------
(* Profiles *)

\* profile->ccmm, decided by clProfileParse: "See if colorist CMM can handle this".
Friendly(p) == p.pqSignature \/ (p.query = "ok" /\ p.curve # "complex")

\* The outcomes of clProfileQuery.  It fails before it filled in anything, or
\* before the luminance; its callers here ignore that and read the locals.
clProfileQuery(p) ==
  LET filled == {[luminance |-> p.luminance, curve |-> p.curve, scale |-> p.implicitScale]}
  IN CASE p.query = "ok"          -> filled
       [] p.query = "noLuminance" -> {[q EXCEPT !.luminance = g] : q \in filled, g \in Garbage}
       [] p.query = "nothing"     -> [luminance: Garbage, curve: Curves, scale: Garbage]

\* The outcomes for a profile pointer; XYZ is not queried.
QueryOf(p) == IF p = NULL THEN {NULL} ELSE clProfileQuery(p)

clTransformUsesCCMM ==
  /\ ccmmAllowed
  /\ \A p \in {srcProfile, dstProfile} : p = NULL \/ Friendly(p)

-----------------------------------------------------------------------------
(* clTransformPrepare *)

\* One side of the luminance scaling, from the query's outcome.
Side(q) ==
  CASE q = NULL          -> [luminance |-> 1, scale |-> 1, hlg |-> FALSE]
    [] q # NULL /\ q.luminance # 0 ->
         [luminance |-> q.luminance, scale |-> q.scale, hlg |-> FALSE]
    [] OTHER             ->
         [luminance |-> IF q.curve = "hlg" THEN HLGLuminance ELSE DefaultLuminance,
          scale |-> q.scale, hlg |-> q.curve = "hlg"]

\* AUTO_TONEMAP_LUMINANCE_SCALE_THRESHOLD is 1.001.
AutoTonemap(src, dst) ==
  1000 * src.luminance * src.scale > 1001 * dst.luminance * dst.scale

TonemapWanted(src, dst) ==
  \/ requestedTonemap = "on"
  \/ requestedTonemap = "auto" /\ AutoTonemap(src, dst)

\* Mutant: compares the luminances without the scale of the curves.
ScaleByTags(useCCMM, src, dst) ==
  \/ ~useCCMM \/ srcProfile = NULL \/ dstProfile = NULL
  \/ TonemapWanted(src, dst)
  \/ src.luminance # dst.luminance

\* Mutant: forgets that the tonemapper works within the scaling.
ScaleUnlessTonemapped(useCCMM, src, dst) ==
  \/ ~useCCMM \/ srcProfile = NULL \/ dstProfile = NULL
  \/ src.luminance * src.scale # dst.luminance * dst.scale

\* luminanceScaleEnabled, "optimization; if false, avoid all luminance scaling math".
ScaleNeeded(useCCMM, src, dst) ==
  \/ ~useCCMM \/ srcProfile = NULL \/ dstProfile = NULL
  \/ TonemapWanted(src, dst)
  \/ src.luminance * src.scale # dst.luminance * dst.scale

\* "HLG: Max Luminance, based on diffuse white (--deflum)"; 0 until it is set.
HLGMaxLuminance(src, dst) ==
  IF src.hlg \/ dst.hlg THEN HLGLuminance ELSE ccmmHLGLuminance

SetScales(useCCMM, src, dst) ==
  /\ srcLuminanceScale' = src.luminance /\ srcCurveScale' = src.scale
  /\ dstLuminanceScale' = dst.luminance /\ dstCurveScale' = dst.scale
  /\ ccmmHLGLuminance' = HLGMaxLuminance(src, dst)
  /\ tonemapEnabled' = TonemapWanted(src, dst)
  /\ luminanceScaleEnabled' = ScaleNeeded(useCCMM, src, dst)

PrepareScales(useCCMM) ==
  IF IF useCCMM THEN ~ccmmReady ELSE ~lcmsReady
    THEN \E s \in QueryOf(srcProfile), d \in QueryOf(dstProfile) :
           SetScales(useCCMM, Side(s), Side(d))
    ELSE UNCHANGED scaleVars

\* derivePrimariesAndXTF: a failed query leaves the function as it was.
TransferFunction(p, before) ==
  CASE p = NULL -> "none"
    [] p # NULL /\ p.query # "ok" -> before
    [] OTHER -> IF p.curve = "complex" THEN "gamma" ELSE p.curve

PrepareCCMM ==
  /\ IF ccmmReady
       THEN UNCHANGED <<ccmmSrcEOTF, ccmmDstOETF>>
       ELSE /\ ccmmSrcEOTF' = TransferFunction(srcProfile, ccmmSrcEOTF)
            /\ ccmmDstOETF' = TransferFunction(dstProfile, ccmmDstOETF)
  /\ ccmmReady' = TRUE
  /\ UNCHANGED lcmsVars

\* cmsCreateTransformTHR refuses a profile that is not RGB: the pointer is NULL.
NewHandles ==
  {h \in Handles :
     /\ h = "lcmsSrcToXYZ" => srcProfile = NULL \/ srcProfile.rgb
     /\ h = "lcmsXYZToDst" => dstProfile = NULL \/ dstProfile.rgb}

\* Mutant: prepares again although it is ready.
PrepareLCMSAgain ==
  /\ handles' = NewHandles
  /\ lcmsObjects' = lcmsObjects + Cardinality(NewHandles)
  /\ lcmsReady' = TRUE
  /\ UNCHANGED ccmmVars

PrepareLCMS ==
  /\ IF lcmsReady
       THEN UNCHANGED <<handles, lcmsObjects>>
       ELSE /\ handles' = NewHandles
            /\ lcmsObjects' = lcmsObjects + Cardinality(NewHandles)
  /\ lcmsReady' = TRUE
  /\ UNCHANGED ccmmVars

Prepared(useCCMM) ==
  /\ first' = IF first # "none" THEN first ELSE IF useCCMM THEN "ccmm" ELSE "lcms"
  /\ PrepareScales(useCCMM)
  /\ IF useCCMM THEN PrepareCCMM ELSE PrepareLCMS

-----------------------------------------------------------------------------
(* colorConvert, on the luminance of one pixel *)

One == <<1, 1>>

Times(f, g) == <<f[1] * g[1], f[2] * g[2]>>

Equal(f, g) == f[1] * g[2] = g[1] * f[2]

\* What LittleCMS applies by itself: the scale of the curve inside A2B0.
Implicit(p) == IF p = NULL THEN 1 ELSE p.implicitScale

\* The pixel is decoded (LittleCMS applies the scale of the source's curve),
\* scaled when luminanceScaleEnabled (the CCMM applies the curve's scale here),
\* divided by the destination's scale for the tonemapper, which LittleCMS gets
\* back, and encoded.
Factor(useCCMM) ==
  LET decode    == IF useCCMM THEN One ELSE <<Implicit(srcProfile), 1>>
      curve     == IF useCCMM THEN <<srcCurveScale', 1>> ELSE One
      luminance == <<srcLuminanceScale', dstLuminanceScale' * dstCurveScale'>>
      giveBack  == IF useCCMM THEN One ELSE <<dstCurveScale', 1>>
      encode    == IF useCCMM THEN One ELSE <<1, Implicit(dstProfile)>>
      scaled    == Times(Times(curve, luminance), giveBack)
  IN Times(Times(decode, IF luminanceScaleEnabled' THEN scaled ELSE One), encode)

\* What clTransformGetLuminanceScale returns for the fields as they are then.
LuminanceScale == <<srcLuminanceScale' * srcCurveScale', dstLuminanceScale' * dstCurveScale'>>

\* Mutant: colorConvert encodes with the function of the source.
AppliedOwn == <<ccmmSrcEOTF', ccmmSrcEOTF'>>

Applied == <<ccmmSrcEOTF', ccmmDstOETF'>>

-----------------------------------------------------------------------------
(* The operations *)

clTransformCreate(s, d, tonemap) ==
  /\ ~live
  /\ live' = TRUE
  /\ srcProfile' = s /\ dstProfile' = d /\ requestedTonemap' = tonemap
  /\ Zeroed
  /\ first' = "none"
  /\ UNCHANGED <<ccmmAllowed, lcmsObjects, run>>

\* --ccmm, or a caller of the library between two calls.
AllowCCMM ==
  /\ ccmmAllowed' = ~ccmmAllowed
  /\ UNCHANGED <<argVars, scaleVars, ccmmVars, lcmsVars, run, first>>

\* Also clTransformGetLuminanceScale, which prepares and reads the fields.
clTransformPrepare ==
  /\ live
  /\ Prepared(clTransformUsesCCMM)
  /\ UNCHANGED <<ccmmAllowed, argVars, run>>

\* Prepared first, then every pixel.  Matching profiles are copied; the same
\* profile always matches, an equal one when it has a signature.
clTransformRun ==
  /\ live
  /\ Prepared(clTransformUsesCCMM)
  /\ \/ /\ srcProfile = dstProfile
        /\ run' = NULL
     \/ /\ ~(srcProfile = NULL /\ dstProfile = NULL)
        /\ run' = [cmm        |-> IF clTransformUsesCCMM THEN "ccmm" ELSE "lcms",
                   defined    |-> clTransformUsesCCMM \/ handles' = Handles,
                   factor     |-> Factor(clTransformUsesCCMM),
                   answer     |-> LuminanceScale,
                   tonemapped |-> luminanceScaleEnabled' /\ tonemapEnabled',
                   curves     |-> Applied]
  /\ UNCHANGED <<ccmmAllowed, argVars>>

clTransformDestroy ==
  /\ live
  /\ live' = FALSE
  /\ lcmsObjects' = lcmsObjects - Cardinality(handles)
  /\ run' = NULL
  /\ UNCHANGED <<ccmmAllowed, srcProfile, dstProfile, requestedTonemap,
                 scaleVars, ccmmVars, lcmsReady, handles, first>>

PrepareNext ==
  \/ \E s, d \in Profiles \cup {NULL}, t \in Tonemaps : clTransformCreate(s, d, t)
  \/ AllowCCMM
  \/ clTransformPrepare
  \/ clTransformRun
  \/ clTransformDestroy

PrepareSpec == PrepareInit /\ [][PrepareNext]_prepareVars

-----------------------------------------------------------------------------
(* Properties *)

Sides == {srcProfile, dstProfile} \ {NULL}

\* Every profile involved could be queried.
Queryable == \A p \in Sides : p.query = "ok"

\* What the documentation calls the luminance of a profile: its lumi tag, or
\* --deflum, or for HLG the maximum that follows from it.
Luminance(p) ==
  CASE p = NULL -> 1
    [] p # NULL /\ p.luminance # 0 -> p.luminance
    [] OTHER -> IF p.curve = "hlg" THEN HLGLuminance ELSE DefaultLuminance

Expected ==
  <<Luminance(srcProfile) * Implicit(srcProfile),
    Luminance(dstProfile) * Implicit(dstProfile)>>

\* LittleCMS was ready first, but the fields were recomputed for the CCMM since,
\* which switched the scaling off.
Switched ==
  run.cmm = "lcms" /\ first = "lcms" /\ ccmmReady /\ ~luminanceScaleEnabled

\* Both modules scale luminance by the ratio of the luminances of the two
\* profiles, scale of the curves included, and clTransformGetLuminanceScale
\* answers that ratio: through the caches, the optimization that skips the
\* scaling, and LittleCMS applying some of it implicitly.  The one exception is
\* a transform that went from LittleCMS to the CCMM and back.  Pixels are left
\* undefined only where LittleCMS refused a profile that is not RGB.
ScaleAsAnswered ==
  run # NULL /\ Queryable =>
    /\ run.defined \/ \E p \in Sides : ~p.rgb
    /\ Equal(run.answer, Expected)
    /\ Equal(run.factor, Expected) \/ Switched

\* The HLG curves of a run need the luminance of HLG white (HLG_EOTF and HLG_OETF
\* take its logarithm).
HLGLuminanceKnown ==
  run # NULL /\ run.cmm = "ccmm" /\ "hlg" \in {run.curves[1], run.curves[2]} =>
    ccmmHLGLuminance = HLGLuminance

HLGTagged ==
  \A p \in Sides : p.query = "ok" /\ p.curve = "hlg" => p.luminance # 0

\* The CCMM decodes and encodes with the curves of the two profiles, is not used
\* for a complex curve or a profile that could not be queried (the known PQ
\* profiles apart), and knows the luminance of HLG white, unless every HLG
\* profile has a lumi tag.
CurvesApplied ==
  run # NULL /\ run.cmm = "ccmm" =>
    /\ \A p \in Sides : p.pqSignature \/ (p.query = "ok" /\ p.curve # "complex")
    /\ Queryable => run.curves = <<TransferFunction(srcProfile, "none"),
                                   TransferFunction(dstProfile, "none")>>
    /\ HLGLuminanceKnown \/ HLGTagged

\* Luminance is tonemapped exactly when asked for, or when the automatic rule sees
\* a range that does not fit, whichever module prepared the fields first and
\* whichever runs: "if tonemapping is necessary, luminance scale MUST be enabled".
TonemapAsAsked ==
  /\ live => (tonemapEnabled => luminanceScaleEnabled)
  /\ run # NULL /\ Queryable =>
       (run.tonemapped <=>
          \/ requestedTonemap = "on"
          \/ requestedTonemap = "auto" /\ 1000 * Expected[1] > 1001 * Expected[2])

\* Whatever modules a transform was prepared for, and however often, the LittleCMS
\* objects it made are those it points to, and none outlives it.
NoLeak == lcmsObjects = IF live THEN Cardinality(handles) ELSE 0
=============================================================================
