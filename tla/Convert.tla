--------------------------------- MODULE Convert ---------------------------------
(***************************************************************************)
(* lib/src/context_convert.c with lib/src/context_rw.c: the convert        *)
(* command, from the parsed command line to the exit code.  One action per *)
(* stage; FAIL() is a step to "cleanup".  The heap holds the images and    *)
(* the profiles that the command owns, each named by the place in the code *)
(* that made it (none is in a loop).  An image owns one profile.           *)
(* Pixels are abstracted to the operations they went through.  LittleCMS   *)
(* packs what it parsed, and what happens when it does not is in Profile;  *)
(* a writer to which that happens is one that fails.                       *)
(***************************************************************************)
EXTENDS Integers, Sequences

CONSTANTS Requests,        \* the command lines
          Contents,        \* what profiles in files say
          Garbage,         \* what an uninitialized ImageInfo may hold
          DefaultContent,  \* sRGB
          DefaultLuminance,
          MeasuredLuminances,
          NULL

CL_LUMINANCE_SOURCE == -1
CL_LUMINANCE_UNSPECIFIED == 0

\* "collinear": numbers above 0 for which LittleCMS finds no profile; "nonpositive":
\* some are 0 or less.  -p is ignored when its first number is: that is "source".
Primaries == {"srgb", "wide", "collinear", "nonpositive"}

\* -g source is a gamma of -1, no -g one of 0; the gamma of a PQ curve is 1.
\* "complex" stands for every curve that is not a plain gamma, HLG, PQ or sRGB.
Curves == [type: {"gamma", "pq", "complex"}, gamma: -1 .. 2]

Luminances == -1 .. 3

Infos == [primaries: Primaries, curve: Curves, luminance: Luminances]

\* clProfileQuery gives up on a profile that is not queryable.
ProfileContents == [info: Infos, queryable: BOOLEAN]

\* The options: those that choose the output profile, and the others.
ProfileOptions ==
  [autoGrade: BOOLEAN, curve: Curves, luminance: Luminances,
   primaries: Primaries \cup {"source"}, copyright: BOOLEAN]

\* "avif" stands for the formats whose writer may fail with nothing and report success:
\* AVIF, BMP, TIFF and WebP; "other" for JP2, J2K and PNG, whose writers report failure.
Formats == {"unknown", "icc", "jxr", "avif", "jpg", "other"}

Options ==
  [profile: ProfileOptions,
   format: Formats,
   iccOverrideIn: BOOLEAN, iccOverrideOut: BOOLEAN, enforceLuminance: BOOLEAN,
   crop: BOOLEAN, resize: BOOLEAN, rotate: BOOLEAN, stats: BOOLEAN,
   tonemap: {"auto", "fixed"}]

ASSUME ConvertAssumption ==
  /\ Requests \subseteq Options
  /\ Contents \subseteq ProfileContents
  /\ Garbage \subseteq Infos
  /\ DefaultContent \in ProfileContents
  /\ DefaultLuminance \in Luminances
  /\ MeasuredLuminances \subseteq Luminances

\* The places that make an image, and with it a profile, and a profile alone.
ImageSites == {"read", "cropped", "resized", "converted", "rotated", "reloaded"}
ProfileSites == ImageSites \cup {"overrideProfile", "dstProfile"}

ASSUME NullAssumption ==
  NULL \notin ProfileSites \cup Infos \cup [luminance: Luminances, gamma: -1 .. 2]

VARIABLES
  request,      \* the command line
  params,       \* what validateArgs made of it
  pc, returnCode,
  heap,
  srcImage, dstImage, dstProfile, overrideProfile,     \* pointers
  srcInfo, dstInfo,
  source,       \* what the profile of the image that was read says
  graded,       \* what clImageColorGrade answered
  file          \* what was written to the output file

pointers == <<srcImage, dstImage, dstProfile, overrideProfile>>
infos == <<srcInfo, dstInfo, source, graded>>
vars == <<request, params, pc, returnCode, heap, pointers, infos, file>>

-----------------------------------------------------------------------------
(* Command line                                                              *)

NoCurve == [type |-> "gamma", gamma |-> 0]

\* clConversionParamsSetOutputProfileDefaults
DefaultProfileOptions ==
  [autoGrade |-> FALSE, curve |-> NoCurve, luminance |-> CL_LUMINANCE_SOURCE,
   primaries |-> "source", copyright |-> FALSE]

\* validateArgs
Validated(r) ==
  IF r.iccOverrideOut
    THEN [r EXCEPT !.profile = DefaultProfileOptions]
    ELSE [r EXCEPT !.profile.autoGrade =
            @ /\ ~(r.profile.curve.gamma # 0 /\ r.profile.luminance # 0)]

-----------------------------------------------------------------------------
(* The heap                                                                  *)

NoObject == [state |-> "none"]

LiveAt(objects, site) == objects[site].state = "live"

\* A profile lives at place p.
WithProfile(h, p, content) ==
  [h EXCEPT !.profiles[p] = [state |-> "live", content |-> content],
            !.corrupt = @ \/ LiveAt(h.profiles, p)]

\* Freeing what is not live corrupts the heap.
clProfileDestroy(h, p) ==
  [h EXCEPT !.profiles[p].state = "freed", !.corrupt = @ \/ ~LiveAt(h.profiles, p)]

\* clImageCreate: the image has a profile of its own.
clImageCreate(h, i, content, ops) ==
  LET withProfile == WithProfile(h, i, content)
  IN  [withProfile EXCEPT
         !.images[i] = [state |-> "live", profile |-> i, ops |-> ops],
         !.corrupt = @ \/ LiveAt(h.images, i)]

\* clImageDestroy destroys the profile too.
clImageDestroy(h, i) ==
  [clProfileDestroy(h, h.images[i].profile) EXCEPT
     !.images[i].state = "freed", !.corrupt = @ \/ ~LiveAt(h.images, i)]

\* What the profile of image i says.
ContentOf(h, i) == h.profiles[h.images[i].profile].content

\* A new image at site i, made from image j by operation op, with a clone of its profile.
Derived(h, i, j, op) ==
  [clImageCreate(h, i, ContentOf(h, j), Append(h.images[j].ops, op)) EXCEPT
     !.corrupt = @ \/ ~LiveAt(h.images, j) \/ ~LiveAt(h.profiles, h.images[j].profile)]

-----------------------------------------------------------------------------
(* Control                                                                   *)

GoTo(stage) == /\ pc' = stage /\ UNCHANGED returnCode

FAIL == /\ pc' = "cleanup" /\ returnCode' = 1

\* The `return 1` of clContextConvert, which skips convertCleanup.
ReturnFailure == /\ pc' = "done" /\ returnCode' = 1

\* The process is killed for the use of a null pointer.
Crash == /\ pc' = "crashed" /\ UNCHANGED returnCode

\* The process ends with EXIT_FAILURE inside a library.
Exit == /\ pc' = "exited" /\ returnCode' = 1

Init ==
  /\ request \in Requests
  /\ params = Validated(request)
  /\ pc = "start" /\ returnCode = 0
  /\ heap = [images |-> [i \in ImageSites |-> NoObject],
             profiles |-> [p \in ProfileSites |-> NoObject], corrupt |-> FALSE]
  /\ srcImage = NULL /\ dstImage = NULL /\ dstProfile = NULL /\ overrideProfile = NULL
  /\ srcInfo = NULL /\ dstInfo = NULL /\ source = NULL /\ graded = NULL
  /\ file = [kind |-> "none"]

FormatUnknown ==
  /\ pc = "start" /\ params.format = "unknown"
  /\ FAIL
  /\ UNCHANGED <<request, params, heap, pointers, infos, file>>

-----------------------------------------------------------------------------
(* clContextRead                                                             *)

\* -i: a bad override profile ends the command.
ReadOverride ==
  /\ pc = "start" /\ params.format # "unknown"
  /\ \/ /\ ~params.iccOverrideIn
        /\ GoTo("open")
        /\ UNCHANGED <<heap, pointers>>
     \/ /\ params.iccOverrideIn
        /\ \E content \in Contents : heap' = WithProfile(heap, "overrideProfile", content)
        /\ overrideProfile' = "overrideProfile"
        /\ GoTo("open")
        /\ UNCHANGED <<srcImage, dstImage, dstProfile>>
     \/ /\ params.iccOverrideIn
        /\ ReturnFailure
        /\ UNCHANGED <<heap, pointers>>
  /\ UNCHANGED <<request, params, infos, file>>

\* An input file that cannot be read ends the command.
OpenInput ==
  /\ pc = "open"
  /\ \/ GoTo("decode")
     \/ ReturnFailure
  /\ UNCHANGED <<request, params, heap, pointers, infos, file>>

\* format->readFunc: an image with its own or a default profile, or none.
Decode ==
  /\ pc = "decode"
  /\ \/ /\ \E content \in Contents \cup {DefaultContent} :
             heap' = clImageCreate(heap, "read", content, <<>>)
        /\ srcImage' = "read"
     \/ UNCHANGED <<heap, srcImage>>
  /\ GoTo("override")
  /\ UNCHANGED <<request, params, dstImage, dstProfile, overrideProfile, infos, file>>

\* Profiles that say the same may have other bytes, and then do not match.
MayMatch(h, p, q) == {FALSE} \cup {h.profiles[p].content = h.profiles[q].content}

\* The override profile takes the place of the image's, or is destroyed.
AdoptOverride ==
  /\ pc = "override"
  /\ IF overrideProfile = NULL
       THEN UNCHANGED heap
     ELSE IF srcImage = NULL
       THEN heap' = clProfileDestroy(heap, overrideProfile)
     ELSE \E matches \in MayMatch(heap, heap.images[srcImage].profile, overrideProfile) :
            heap' = IF matches
                      THEN clProfileDestroy(heap, overrideProfile)
                      ELSE [clProfileDestroy(heap, heap.images[srcImage].profile)
                              EXCEPT !.images[srcImage].profile = overrideProfile]
  /\ overrideProfile' = NULL
  /\ GoTo("enforce")
  /\ UNCHANGED <<request, params, srcImage, dstImage, dstProfile, infos, file>>

\* Mutant: clContextConvert goes on without an image.
NoImageUnchecked == Crash

\* The luminance is set in the profile of an image that is not there; without
\* --forcelum clContextConvert sees that there is none.
NoImage == IF params.enforceLuminance THEN Crash ELSE ReturnFailure

EnforceLuminance ==
  /\ pc = "enforce"
  /\ IF srcImage = NULL
       THEN NoImage /\ UNCHANGED <<heap, source>>
       ELSE LET profile == heap.images[srcImage].profile
            IN  /\ heap' = IF params.enforceLuminance
                             THEN [heap EXCEPT !.profiles[profile].content.info.luminance =
                                     DefaultLuminance]
                             ELSE heap
                /\ source' = heap'.profiles[profile].content
                /\ GoTo("dump")
  /\ UNCHANGED <<request, params, pointers, srcInfo, dstInfo, graded, file>>

-----------------------------------------------------------------------------
(* Source image                                                              *)

\* The output format icc: clProfileWrite, which returns true when the file cannot be
\* opened, and when fclose loses what fwrite took.
WriteProfile ==
  /\ pc = "dump" /\ params.format = "icc"
  /\ \/ GoTo("cleanup") /\ UNCHANGED file
     \/ FAIL /\ file' = [kind |-> "partial"]
     \/ /\ GoTo("cleanup")
        /\ file' \in {[kind |-> "icc", content |-> ContentOf(heap, srcImage)],
                     [kind |-> "partial"]}
  /\ UNCHANGED <<request, params, heap, pointers, infos>>

\* Mutant: the old source image is not destroyed.
SourceLeaked(asked, site, op) ==
  IF asked
    THEN heap' = Derived(heap, site, srcImage, op) /\ srcImage' = site
    ELSE UNCHANGED <<heap, srcImage>>

\* When it is asked for, the image made from srcImage takes its place.
SourceReplaced(asked, site, op) ==
  IF asked
    THEN /\ heap' = clImageDestroy(Derived(heap, site, srcImage, op), srcImage)
         /\ srcImage' = site
    ELSE UNCHANGED <<heap, srcImage>>

Crop ==
  /\ pc = "dump" /\ params.format # "icc"
  /\ SourceReplaced(params.crop, "cropped", "crop")
  /\ GoTo("query")
  /\ UNCHANGED <<request, params, dstImage, dstProfile, overrideProfile, infos, file>>

\* Nobody looks at what clProfileQuery returns.
Queried(content) == IF content.queryable THEN {content.info} ELSE Garbage

\* Autograding forgets the curve and the luminance of the source.
Query ==
  /\ pc = "query"
  /\ srcInfo' \in Queried(ContentOf(heap, srcImage))
  /\ dstInfo' = IF params.profile.autoGrade
                  THEN [srcInfo' EXCEPT !.curve = NoCurve,
                                        !.luminance = CL_LUMINANCE_UNSPECIFIED]
                  ELSE srcInfo'
  /\ GoTo("destination")
  /\ UNCHANGED <<request, params, heap, pointers, source, graded, file>>

-----------------------------------------------------------------------------
(* Destination profile                                                       *)

\* --iccout.  (With -a it would fail, but validateArgs took -a away.)  Nobody reads
\* dstInfo after this, filled in or not.
ReadDestination ==
  /\ pc = "destination" /\ params.iccOverrideOut
  /\ \/ /\ \E content \in Contents :
             /\ heap' = WithProfile(heap, "dstProfile", content)
             /\ dstInfo' = IF content.queryable THEN content.info ELSE dstInfo
        /\ dstProfile' = "dstProfile"
        /\ GoTo("resize")
        /\ UNCHANGED <<srcImage, dstImage, overrideProfile, srcInfo, source, graded>>
     \/ /\ FAIL
        /\ UNCHANGED <<heap, pointers, infos>>
  /\ UNCHANGED <<request, params, file>>

\* -p, -l and -g.
Overridden(info, options) ==
  [primaries |-> IF options.primaries = "source" THEN info.primaries ELSE options.primaries,
   curve |-> IF options.curve.gamma > 0 THEN options.curve ELSE info.curve,
   luminance |-> IF options.luminance >= 0 THEN options.luminance ELSE info.luminance]

OverrideDestination ==
  /\ pc = "destination" /\ ~params.iccOverrideOut
  /\ dstInfo' = Overridden(dstInfo, params.profile)
  /\ GoTo("resize")
  /\ UNCHANGED <<request, params, heap, pointers, srcInfo, source, graded, file>>

Resize ==
  /\ pc = "resize"
  /\ SourceReplaced(params.resize, "resized", "resize")
  /\ GoTo("grade")
  /\ UNCHANGED <<request, params, dstImage, dstProfile, overrideProfile, infos, file>>

\* clImageColorGrade finds the luminance and the gamma that were not asked for.
\* The curve is a plain gamma from here on.
Grade ==
  /\ pc = "grade"
  /\ IF params.profile.autoGrade
       THEN \E measured \in MeasuredLuminances, found \in 1 .. 2 :
              LET luminance == IF dstInfo.luminance = 0 THEN measured ELSE dstInfo.luminance
                  gamma == IF dstInfo.curve.gamma <= 0 THEN found ELSE dstInfo.curve.gamma
              IN  /\ graded' = [luminance |-> luminance, gamma |-> gamma]
                  /\ dstInfo' = [dstInfo EXCEPT
                       !.luminance = luminance, !.curve = [type |-> "gamma", gamma |-> gamma]]
       ELSE UNCHANGED <<dstInfo, graded>>
  /\ GoTo("profile")
  /\ UNCHANGED <<request, params, heap, pointers, srcInfo, source, file>>

Unbuildable(info) ==
  \/ info.primaries = "nonpositive"
  \/ info.curve.type = "complex"
  \/ info.curve.gamma <= 0
  \/ info.luminance < 0

\* Mutant: another luminance needs no new profile.
SameColors(src, dst, options) ==
  src.primaries = dst.primaries /\ src.curve = dst.curve /\ ~options.copyright

\* The source profile will do.
Unchanged(src, dst, options) == src = dst /\ ~options.copyright

\* A new destination profile, a clone of the source's, or the one of --iccout.
\* clProfileCreate has none for collinear primaries, and setting its copyright
\* uses the null pointer.
MakeProfile ==
  /\ pc = "profile"
  /\ IF dstProfile # NULL
       THEN GoTo("convert") /\ UNCHANGED <<heap, dstProfile>>
     ELSE IF Unchanged(srcInfo, dstInfo, params.profile)
       THEN /\ heap' = WithProfile(heap, "dstProfile", ContentOf(heap, srcImage))
            /\ dstProfile' = "dstProfile"
            /\ GoTo("convert")
     ELSE IF Unbuildable(dstInfo)
       THEN FAIL /\ UNCHANGED <<heap, dstProfile>>
     ELSE IF dstInfo.primaries = "collinear"
       THEN /\ IF params.profile.copyright THEN Crash ELSE GoTo("convert")
            /\ UNCHANGED <<heap, dstProfile>>
     ELSE   /\ heap' = WithProfile(heap, "dstProfile",
                                   [info |-> dstInfo, queryable |-> TRUE])
            /\ dstProfile' = "dstProfile"
            /\ GoTo("convert")
  /\ UNCHANGED <<request, params, srcImage, dstImage, overrideProfile, infos, file>>

-----------------------------------------------------------------------------
(* Conversion and output                                                     *)

\* clImageConvert.  Without a profile the new image is sRGB, and the choice of the
\* tonemapper asks the null pointer for its luminance.
Convert ==
  /\ pc = "convert"
  /\ LET content == IF dstProfile = NULL
                      THEN DefaultContent ELSE heap.profiles[dstProfile].content
         made == Derived(heap, "converted", srcImage, "convert")
     IN  heap' = [made EXCEPT !.profiles["converted"].content = content]
  /\ IF dstProfile = NULL /\ params.tonemap = "auto" /\ ~params.profile.autoGrade
       THEN Crash /\ UNCHANGED dstImage
       ELSE GoTo("rotate") /\ dstImage' = "converted"
  /\ UNCHANGED <<request, params, srcImage, dstProfile, overrideProfile, infos, file>>

\* Mutant: dstImage is left where it pointed.
TurnedLost(turned) == heap' = clImageDestroy(turned, dstImage) /\ UNCHANGED dstImage

Turned(turned) == heap' = clImageDestroy(turned, dstImage) /\ dstImage' = "rotated"

Rotate ==
  /\ pc = "rotate"
  /\ IF params.rotate
       THEN Turned(Derived(heap, "rotated", dstImage, "rotate"))
       ELSE UNCHANGED <<heap, dstImage>>
  /\ GoTo("write")
  /\ UNCHANGED <<request, params, srcImage, dstProfile, overrideProfile, infos, file>>

\* Mutant: nobody looks at what clContextWrite returns.
WriteUnchecked == GoTo("stats")

WriteFailed == FAIL

\* What a writer hands over when its encoder failed and it reports success: the buffer
\* that was to hold the image, or nothing.
Pretended ==
  CASE params.format = "jxr"  -> {[kind |-> "garbage"]}
    [] params.format = "avif" -> {[kind |-> "empty"]}
    [] OTHER -> {}

\* clContextWrite: the encoder may fail, the file may not open or not take the bytes.
\* Nobody looks at what fclose returns, when the last of them are written.  The JPEG
\* encoder has the error handler of its library.
Write ==
  /\ pc = "write"
  /\ \/ /\ file' = [kind |-> "image", content |-> ContentOf(heap, dstImage),
                    ops |-> heap.images[dstImage].ops]
        /\ GoTo("stats")
     \/ /\ file' \in Pretended \cup {[kind |-> "partial"]}
        /\ GoTo("stats")
     \/ /\ file' \in {[kind |-> "none"], [kind |-> "partial"]}
        /\ WriteFailed
     \/ /\ params.format = "jpg"
        /\ Exit
        /\ UNCHANGED file
  /\ UNCHANGED <<request, params, heap, pointers, infos>>

\* --stats: clContextRead of the output file, which enforces the luminance too.  Of an
\* empty file clRawReadFile reads nothing.
Stats ==
  /\ pc = "stats"
  /\ \/ GoTo("cleanup") /\ UNCHANGED heap
     \/ /\ params.stats /\ file.kind # "empty"
        /\ \E content \in Contents \cup {DefaultContent} :
             heap' = clImageDestroy(clImageCreate(heap, "reloaded", content, <<>>), "reloaded")
        /\ GoTo("cleanup")
     \/ /\ params.stats /\ params.enforceLuminance /\ file.kind # "empty"
        /\ Crash
        /\ UNCHANGED heap
  /\ UNCHANGED <<request, params, pointers, infos, file>>

\* convertCleanup
Cleanup ==
  /\ pc = "cleanup"
  /\ LET h1 == IF dstProfile = NULL THEN heap ELSE clProfileDestroy(heap, dstProfile)
         h2 == IF srcImage = NULL THEN h1 ELSE clImageDestroy(h1, srcImage)
     IN  heap' = IF dstImage = NULL THEN h2 ELSE clImageDestroy(h2, dstImage)
  /\ srcImage' = NULL /\ dstImage' = NULL /\ dstProfile' = NULL
  /\ GoTo("done")
  /\ UNCHANGED <<request, params, overrideProfile, infos, file>>

-----------------------------------------------------------------------------

clContextRead == ReadOverride \/ OpenInput \/ Decode \/ AdoptOverride \/ EnforceLuminance

ChooseDestination == ReadDestination \/ OverrideDestination

Next ==
  \/ FormatUnknown \/ clContextRead \/ WriteProfile \/ Crop \/ Query
  \/ ChooseDestination \/ Resize \/ Grade \/ MakeProfile
  \/ Convert \/ Rotate \/ Write \/ Stats \/ Cleanup

Spec == Init /\ [][Next]_vars

-----------------------------------------------------------------------------
(* Properties                                                                *)

LiveProfiles == {p \in ProfileSites : LiveAt(heap.profiles, p)}
LiveImages == {i \in ImageSites : LiveAt(heap.images, i)}

\* On every path, error paths included, nothing is freed twice, used after it was
\* freed or built over; the pointers held are good, and no two images, and no image
\* and pointer of clContextConvert, share a profile.
MemorySafe ==
  /\ ~heap.corrupt
  /\ {srcImage, dstImage} \ {NULL} \subseteq LiveImages
  /\ {dstProfile, overrideProfile} \ {NULL} \subseteq LiveProfiles
  /\ \A i \in LiveImages :
       /\ heap.images[i].profile \in LiveProfiles \ {dstProfile, overrideProfile}
       /\ \A j \in LiveImages \ {i} : heap.images[i].profile # heap.images[j].profile

\* However the command ends, it released what it made: but for the override profile
\* when the input file cannot be read, where clContextRead returns without it.
NoLeak ==
  pc = "done" =>
    /\ LiveImages = {}
    /\ LiveProfiles = {overrideProfile} \ {NULL}
    /\ overrideProfile # NULL => source = NULL

\* The output file holds what was asked for.
Complete == file.kind = IF params.format = "icc" THEN "icc" ELSE "image"

\* The errors that do not reach the exit code, by what they leave of the output: bytes
\* that are lost when a file is closed (raw.c, profile.c), an ICC profile whose file
\* cannot be opened, an encoder that fails although its writer reports success.
Unreported ==
  \/ file.kind = "partial"
  \/ params.format = "icc" /\ file.kind = "none"
  \/ params.format = "jxr" /\ file.kind = "garbage"
  \/ params.format = "avif" /\ file.kind = "empty"

\* What the exit code tells a script: when it is not 0 there is no complete output, and
\* when it is 0 there is one, but for the errors that are not reported.  Any other
\* error, at whichever stage, is in the exit code.
ExitCodeTells ==
  pc \in {"done", "exited"} =>
    IF returnCode = 0 THEN Complete \/ Unreported ELSE ~Complete

\* The command crashes on nothing but the two null pointers it forgets: the image
\* that was not decoded when a luminance is enforced (the input, or for --stats the
\* output read back), and the profile that LittleCMS did not make from collinear
\* primaries.
CrashesKnown ==
  pc = "crashed" =>
    \/ params.enforceLuminance /\ srcImage = NULL
    \/ params.enforceLuminance /\ params.stats /\ file.kind # "none"
    \/ dstInfo # NULL /\ dstInfo.primaries = "collinear" /\ dstProfile = NULL

Asked == request.profile

\* What the options ask for by docs/Usage.md: -g and -l force a gamma and a luminance,
\* or those of the source (-g source), or none (-l unspecified); what they leave open
\* (-l source is the default) grading finds, and the source has without grading.  That
\* -a does not grade the luminance next to a -g alone is a decision of validateArgs,
\* and not of the documentation.
AskedCurve ==
  CASE Asked.curve.gamma > 0 -> Asked.curve
    [] Asked.curve.gamma = 0 /\ graded # NULL -> [type |-> "gamma", gamma |-> graded.gamma]
    [] OTHER -> source.info.curve

AskedLuminance ==
  CASE Asked.luminance >= 0 -> Asked.luminance
    [] Asked.luminance = CL_LUMINANCE_SOURCE /\ graded # NULL -> graded.luminance
    [] OTHER -> source.info.luminance

\* -a with -l unspecified.  The code is not what is asked for: for clImageColorGrade a
\* luminance of 0 is one to find, although it "can still force values"; this is also the
\* one way to grade with a -g, of which -g source is overruled by the gamma found, and
\* -g pq or hlg leave a plain gamma of 1.
Overruled == graded # NULL /\ Asked.luminance = CL_LUMINANCE_UNSPECIFIED

OverruledCurve ==
  [type |-> "gamma",
   gamma |-> IF Asked.curve.gamma > 0 THEN Asked.curve.gamma ELSE graded.gamma]

ExpectedInfo ==
  [primaries |-> IF Asked.primaries = "source" THEN source.info.primaries ELSE Asked.primaries,
   curve |-> IF Overruled THEN OverruledCurve ELSE AskedCurve,
   luminance |-> IF Overruled THEN graded.luminance ELSE AskedLuminance]

\* The operations asked for, in the order of the code.  The crop is of the source image
\* "before conversion", as documented; so is the resize, which docs/Usage.md says is of
\* the "dst image"; for the turn no order is documented.
OpIf(asked, op) == IF asked THEN <<op>> ELSE <<>>

ExpectedOps ==
  OpIf(request.crop, "crop") \o OpIf(request.resize, "resize") \o <<"convert">>
    \o OpIf(request.rotate, "rotate")

\* An image that was written went through what was asked for, and its profile is the
\* one of --iccout, or says what -p, -g, -l, -a, -i and the source together ask for,
\* also when it is cloned or comes from an override; but for -a with -l unspecified,
\* where it says what the code makes of it.  Primaries must not be collinear, and
\* clProfileQuery must have understood the source.
FileAsAsked ==
  file.kind = "image" =>
    /\ file.ops = ExpectedOps
    /\ request.iccOverrideOut => file.content = heap.profiles["dstProfile"].content
    /\ ~request.iccOverrideOut /\ source.queryable /\ ExpectedInfo.primaries # "collinear"
         => file.content.info = ExpectedInfo

\* Every error is answered by a message and an exit code: "No profile for input,
\* cannot enforce luminance", "Can't create destination profile, destination
\* primaries are invalid".
ErrorsAreReported == pc # "crashed"
=============================================================================
