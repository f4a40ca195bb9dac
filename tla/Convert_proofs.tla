---------------------------- MODULE Convert_proofs ----------------------------
(***************************************************************************)
(* For all command lines and profiles, the convert command frees what it   *)
(* makes, once, on every path; its exit code tells; it crashes only where  *)
(* it is known to; and it writes the image and the profile asked for.      *)
(***************************************************************************)
EXTENDS Convert, TLAPS

Ops == Seq({"crop", "resize", "convert", "rotate"})

ProfileObjects == [state : {"none"}] \cup [state : {"live", "freed"}, content : ProfileContents]

ImageObjects ==
  [state : {"none"}] \cup [state : {"live", "freed"}, profile : ProfileSites, ops : Ops]

Heaps == [images : [ImageSites -> ImageObjects],
          profiles : [ProfileSites -> ProfileObjects],
          corrupt : BOOLEAN]

\* What is alive on a heap.
ProfilesOf(h) == {p \in ProfileSites : h.profiles[p].state = "live"}
ImagesOf(h)   == {i \in ImageSites : h.images[i].state = "live"}

-----------------------------------------------------------------------------
(* What the operations on the heap do *)

LEMMA LiveProfileTyped ==
  ASSUME NEW h \in Heaps, NEW p \in ProfilesOf(h)
  PROVE  h.profiles[p] \in [state : {"live", "freed"}, content : ProfileContents]
BY DEF Heaps, ProfilesOf, ProfileObjects

LEMMA LiveImageTyped ==
  ASSUME NEW h \in Heaps, NEW i \in ImagesOf(h)
  PROVE  h.images[i] \in [state : {"live", "freed"}, profile : ProfileSites, ops : Ops]
BY DEF Heaps, ImagesOf, ImageObjects

\* A profile is made where there is none.
LEMMA ProfileMade ==
  ASSUME NEW h \in Heaps, NEW p \in ProfileSites \ ProfilesOf(h), NEW content \in ProfileContents
  PROVE  LET made == WithProfile(h, p, content)
         IN  /\ made \in Heaps /\ made.corrupt = h.corrupt /\ made.images = h.images
             /\ ProfilesOf(made) = ProfilesOf(h) \cup {p}
             /\ ImagesOf(made) = ImagesOf(h)
             /\ made.profiles[p].content = content
             /\ \A q \in ProfileSites \ {p} : made.profiles[q] = h.profiles[q]
<1> DEFINE made == WithProfile(h, p, content)
           object == [state |-> "live", content |-> content]
<1>1. object \in ProfileObjects
  BY DEF ProfileObjects
<1>2. /\ made.images = h.images /\ made.corrupt = (h.corrupt \/ LiveAt(h.profiles, p))
      /\ made.profiles = [h.profiles EXCEPT ![p] = object]
      /\ made = [images |-> made.images, profiles |-> made.profiles, corrupt |-> made.corrupt]
  <2> HIDE DEF object
  <2>1. made = [h EXCEPT !.profiles[p] = object, !.corrupt = @ \/ LiveAt(h.profiles, p)]
    BY DEF WithProfile, object
  <2> HIDE DEF made
  <2> QED
    BY <2>1 DEF Heaps
<1>3. ~LiveAt(h.profiles, p)
  BY DEF LiveAt, ProfilesOf
<1>4. h.profiles \in [ProfileSites -> ProfileObjects] /\ h.images \in [ImageSites -> ImageObjects]
      /\ h.corrupt \in BOOLEAN
  BY DEF Heaps
<1> HIDE DEF made
<1>5. made.profiles \in [ProfileSites -> ProfileObjects] /\ made.corrupt = h.corrupt
  BY <1>1, <1>2, <1>3, <1>4
<1>6. made \in Heaps
  BY <1>2, <1>4, <1>5 DEF Heaps
<1>7. ProfilesOf(made) = ProfilesOf(h) \cup {p} /\ ImagesOf(made) = ImagesOf(h)
  BY <1>2, <1>4 DEF ProfilesOf, ImagesOf
<1>8. made.profiles[p].content = content
      /\ \A q \in ProfileSites \ {p} : made.profiles[q] = h.profiles[q]
  BY <1>2, <1>4
<1> QED
  BY <1>2, <1>5, <1>6, <1>7, <1>8 DEF made

\* A profile that is there is destroyed.
LEMMA ProfileDestroyed ==
  ASSUME NEW h \in Heaps, NEW p \in ProfilesOf(h)
  PROVE  LET after == clProfileDestroy(h, p)
         IN  /\ after \in Heaps /\ after.corrupt = h.corrupt /\ after.images = h.images
             /\ ProfilesOf(after) = ProfilesOf(h) \ {p}
             /\ ImagesOf(after) = ImagesOf(h)
             /\ \A q \in ProfileSites : after.profiles[q].content = h.profiles[q].content
<1> DEFINE after == clProfileDestroy(h, p)
           object == [h.profiles[p] EXCEPT !.state = "freed"]
<1>1. object \in ProfileObjects /\ object.state = "freed" /\ object.content = h.profiles[p].content
  BY LiveProfileTyped DEF ProfileObjects
<1>2. /\ after.images = h.images /\ after.corrupt = (h.corrupt \/ ~LiveAt(h.profiles, p))
      /\ after.profiles = [h.profiles EXCEPT ![p] = object]
      /\ after = [images |-> after.images, profiles |-> after.profiles, corrupt |-> after.corrupt]
  <2>1. after = [h EXCEPT !.profiles[p].state = "freed", !.corrupt = @ \/ ~LiveAt(h.profiles, p)]
    BY DEF clProfileDestroy
  <2> HIDE DEF after
  <2> QED
    BY <2>1 DEF Heaps
<1>3. LiveAt(h.profiles, p) /\ p \in ProfileSites
  BY DEF LiveAt, ProfilesOf
<1>4. h.profiles \in [ProfileSites -> ProfileObjects] /\ h.images \in [ImageSites -> ImageObjects]
      /\ h.corrupt \in BOOLEAN
  BY DEF Heaps
<1> HIDE DEF after, object
<1>5. after.profiles \in [ProfileSites -> ProfileObjects] /\ after.corrupt = h.corrupt
  BY <1>1, <1>2, <1>3, <1>4
<1>6. after \in Heaps
  BY <1>2, <1>4, <1>5 DEF Heaps
<1>7. ProfilesOf(after) = ProfilesOf(h) \ {p} /\ ImagesOf(after) = ImagesOf(h)
  BY <1>1, <1>2, <1>3, <1>4 DEF ProfilesOf, ImagesOf
<1>8. \A q \in ProfileSites : after.profiles[q].content = h.profiles[q].content
  BY <1>1, <1>2, <1>3, <1>4
<1> QED
  BY <1>2, <1>5, <1>6, <1>7, <1>8 DEF after

\* An image is made where there is none.
LEMMA ImageMade ==
  ASSUME NEW h \in Heaps, NEW i \in ImageSites \ (ImagesOf(h) \cup ProfilesOf(h)),
         NEW content \in ProfileContents, NEW ops \in Ops
  PROVE  LET made == clImageCreate(h, i, content, ops)
         IN  /\ made \in Heaps /\ made.corrupt = h.corrupt
             /\ ProfilesOf(made) = ProfilesOf(h) \cup {i}
             /\ ImagesOf(made) = ImagesOf(h) \cup {i}
             /\ made.images[i].profile = i /\ made.images[i].ops = ops
             /\ \A j \in ImageSites \ {i} : made.images[j] = h.images[j]
             /\ made.profiles[i].content = content
             /\ \A q \in ProfileSites \ {i} : made.profiles[q] = h.profiles[q]
<1> DEFINE with == WithProfile(h, i, content)
           made == clImageCreate(h, i, content, ops)
           object == [state |-> "live", profile |-> i, ops |-> ops]
<1>1. object \in ImageObjects /\ i \in ProfileSites
  BY DEF ImageObjects, ProfileSites
<1>2. /\ with \in Heaps /\ with.corrupt = h.corrupt /\ with.images = h.images
      /\ ProfilesOf(with) = ProfilesOf(h) \cup {i} /\ ImagesOf(with) = ImagesOf(h)
      /\ with.profiles[i].content = content
      /\ \A q \in ProfileSites \ {i} : with.profiles[q] = h.profiles[q]
  BY <1>1, ProfileMade
<1>3. /\ made.profiles = with.profiles /\ made.corrupt = (with.corrupt \/ LiveAt(h.images, i))
      /\ made.images = [with.images EXCEPT ![i] = object]
      /\ made = [images |-> made.images, profiles |-> made.profiles, corrupt |-> made.corrupt]
  <2> HIDE DEF with
  <2>1. made = [with EXCEPT !.images[i] = object, !.corrupt = @ \/ LiveAt(h.images, i)]
    BY DEF clImageCreate, with
  <2> QED
    BY <1>2, <2>1 DEF Heaps
<1>4. ~LiveAt(h.images, i)
  BY DEF LiveAt, ImagesOf
<1>5. with.profiles \in [ProfileSites -> ProfileObjects] /\ with.images \in [ImageSites -> ImageObjects]
      /\ with.corrupt \in BOOLEAN
  BY <1>2 DEF Heaps
<1> HIDE DEF with, made
<1>6. made.images \in [ImageSites -> ImageObjects] /\ made.corrupt = h.corrupt
  BY <1>1, <1>2, <1>3, <1>4, <1>5
<1>7. made \in Heaps
  BY <1>3, <1>5, <1>6 DEF Heaps
<1>8. ProfilesOf(made) = ProfilesOf(h) \cup {i} /\ ImagesOf(made) = ImagesOf(h) \cup {i}
  BY <1>2, <1>3, <1>5 DEF ProfilesOf, ImagesOf
<1>9. /\ made.images[i].profile = i /\ made.images[i].ops = ops
      /\ \A j \in ImageSites \ {i} : made.images[j] = h.images[j]
  BY <1>2, <1>3, <1>5
<1> QED
  BY <1>2, <1>3, <1>6, <1>7, <1>8, <1>9 DEF made

\* An image that is there is destroyed, and its profile with it.
LEMMA ImageDestroyed ==
  ASSUME NEW h \in Heaps, NEW i \in ImagesOf(h), h.images[i].profile \in ProfilesOf(h)
  PROVE  LET after == clImageDestroy(h, i)
         IN  /\ after \in Heaps /\ after.corrupt = h.corrupt
             /\ ProfilesOf(after) = ProfilesOf(h) \ {h.images[i].profile}
             /\ ImagesOf(after) = ImagesOf(h) \ {i}
             /\ \A j \in ImageSites \ {i} : after.images[j] = h.images[j]
             /\ \A q \in ProfileSites : after.profiles[q].content = h.profiles[q].content
<1> DEFINE without == clProfileDestroy(h, h.images[i].profile)
           after == clImageDestroy(h, i)
           object == [h.images[i] EXCEPT !.state = "freed"]
<1>1. object \in ImageObjects /\ object.state = "freed"
  BY LiveImageTyped DEF ImageObjects
<1>2. /\ without \in Heaps /\ without.corrupt = h.corrupt /\ without.images = h.images
      /\ ProfilesOf(without) = ProfilesOf(h) \ {h.images[i].profile}
      /\ ImagesOf(without) = ImagesOf(h)
      /\ \A q \in ProfileSites : without.profiles[q].content = h.profiles[q].content
  BY ProfileDestroyed
<1>3. /\ after.profiles = without.profiles /\ after.corrupt = (without.corrupt \/ ~LiveAt(h.images, i))
      /\ after.images = [without.images EXCEPT ![i] = object]
      /\ after = [images |-> after.images, profiles |-> after.profiles, corrupt |-> after.corrupt]
  <2> HIDE DEF without
  <2>1. after = [without EXCEPT !.images[i].state = "freed", !.corrupt = @ \/ ~LiveAt(h.images, i)]
    BY DEF clImageDestroy, without
  <2> QED
    BY <1>2, <2>1 DEF Heaps
<1>4. LiveAt(h.images, i) /\ i \in ImageSites
  BY DEF LiveAt, ImagesOf
<1>5. without.profiles \in [ProfileSites -> ProfileObjects]
      /\ without.images \in [ImageSites -> ImageObjects] /\ without.corrupt \in BOOLEAN
  BY <1>2 DEF Heaps
<1> HIDE DEF without, after, object
<1>6. after.images \in [ImageSites -> ImageObjects] /\ after.corrupt = h.corrupt
  BY <1>1, <1>2, <1>3, <1>4, <1>5
<1>7. after \in Heaps
  BY <1>3, <1>5, <1>6 DEF Heaps
<1>8. ProfilesOf(after) = ProfilesOf(h) \ {h.images[i].profile} /\ ImagesOf(after) = ImagesOf(h) \ {i}
  BY <1>1, <1>2, <1>3, <1>4, <1>5 DEF ProfilesOf, ImagesOf
<1>9. \A j \in ImageSites \ {i} : after.images[j] = h.images[j]
  BY <1>2, <1>3, <1>4, <1>5
<1> QED
  BY <1>2, <1>3, <1>6, <1>7, <1>8, <1>9 DEF after

\* An image is made from another.
LEMMA ImageDerived ==
  ASSUME NEW h \in Heaps, NEW j \in ImagesOf(h), h.images[j].profile \in ProfilesOf(h),
         NEW i \in ImageSites \ (ImagesOf(h) \cup ProfilesOf(h)),
         NEW op \in {"crop", "resize", "convert", "rotate"}
  PROVE  LET made == Derived(h, i, j, op)
         IN  /\ made \in Heaps /\ made.corrupt = h.corrupt
             /\ ProfilesOf(made) = ProfilesOf(h) \cup {i}
             /\ ImagesOf(made) = ImagesOf(h) \cup {i}
             /\ made.images[i].profile = i
             /\ made.images[i].ops = Append(h.images[j].ops, op)
             /\ \A k \in ImageSites \ {i} : made.images[k] = h.images[k]
             /\ made.profiles[i].content = ContentOf(h, j)
             /\ \A q \in ProfileSites \ {i} : made.profiles[q] = h.profiles[q]
<1> DEFINE content == ContentOf(h, j)
           ops == Append(h.images[j].ops, op)
           new == clImageCreate(h, i, content, ops)
           made == Derived(h, i, j, op)
<1>1. content \in ProfileContents
  BY LiveProfileTyped DEF ContentOf
<1>2. ops \in Ops
  <2>1. h.images[j].ops \in Ops
    BY LiveImageTyped
  <2> QED
    BY <2>1 DEF Ops
<1> HIDE DEF content, ops
<1>3. /\ new \in Heaps /\ new.corrupt = h.corrupt
      /\ ProfilesOf(new) = ProfilesOf(h) \cup {i} /\ ImagesOf(new) = ImagesOf(h) \cup {i}
      /\ new.images[i].profile = i /\ new.images[i].ops = ops
      /\ \A k \in ImageSites \ {i} : new.images[k] = h.images[k]
      /\ new.profiles[i].content = content
      /\ \A q \in ProfileSites \ {i} : new.profiles[q] = h.profiles[q]
  BY <1>1, <1>2, ImageMade
<1>4. LiveAt(h.images, j) /\ LiveAt(h.profiles, h.images[j].profile)
  BY DEF LiveAt, ImagesOf, ProfilesOf
<1>5. made = [new EXCEPT !.corrupt =
                @ \/ ~LiveAt(h.images, j) \/ ~LiveAt(h.profiles, h.images[j].profile)]
  BY DEF Derived, new, content, ops
<1> HIDE DEF new, made
<1>6. made = [images |-> new.images, profiles |-> new.profiles, corrupt |-> new.corrupt]
  BY <1>3, <1>4, <1>5 DEF Heaps
<1>7. made = new
  BY <1>3, <1>6 DEF Heaps
<1> QED
  BY <1>3, <1>7 DEF made, content, ops

\* What a profile says changes, and nothing else.
LEMMA ContentChanged ==
  ASSUME NEW h \in Heaps, NEW p \in ProfilesOf(h), NEW content \in ProfileContents
  PROVE  LET after == [h EXCEPT !.profiles[p].content = content]
         IN  /\ after \in Heaps /\ after.corrupt = h.corrupt /\ after.images = h.images
             /\ ProfilesOf(after) = ProfilesOf(h) /\ ImagesOf(after) = ImagesOf(h)
             /\ after.profiles[p].content = content
             /\ \A q \in ProfileSites \ {p} : after.profiles[q] = h.profiles[q]
<1> DEFINE after == [h EXCEPT !.profiles[p].content = content]
           object == [h.profiles[p] EXCEPT !.content = content]
<1>1. object \in ProfileObjects /\ object.state = "live" /\ object.content = content
  BY LiveProfileTyped DEF ProfileObjects, ProfilesOf
<1>2. /\ after.images = h.images /\ after.corrupt = h.corrupt
      /\ after.profiles = [h.profiles EXCEPT ![p] = object]
      /\ after = [images |-> after.images, profiles |-> after.profiles, corrupt |-> after.corrupt]
  BY DEF Heaps
<1>3. p \in ProfileSites
  BY DEF ProfilesOf
<1>4. h.profiles \in [ProfileSites -> ProfileObjects] /\ h.images \in [ImageSites -> ImageObjects]
      /\ h.corrupt \in BOOLEAN
  BY DEF Heaps
<1> HIDE DEF after, object
<1>5. after.profiles \in [ProfileSites -> ProfileObjects]
  BY <1>1, <1>2, <1>3, <1>4
<1>6. after \in Heaps
  BY <1>2, <1>4, <1>5 DEF Heaps
<1>7. ProfilesOf(after) = ProfilesOf(h) /\ ImagesOf(after) = ImagesOf(h)
  BY <1>1, <1>2, <1>3, <1>4 DEF ProfilesOf, ImagesOf
<1>8. after.profiles[p].content = content
      /\ \A q \in ProfileSites \ {p} : after.profiles[q] = h.profiles[q]
  BY <1>1, <1>2, <1>3, <1>4
<1> QED
  BY <1>2, <1>6, <1>7, <1>8 DEF after

-----------------------------------------------------------------------------
(* The invariant *)

BeforeDecode == {"start", "open", "decode"}
Reading      == {"override", "enforce"}
Choosing     == {"query", "destination", "resize"}
Making       == {"grade", "profile", "convert"}
Writing      == {"rotate", "write", "stats"}
Ending       == {"cleanup", "done", "crashed", "exited"}

Stages == BeforeDecode \cup Reading \cup {"dump"} \cup Choosing \cup Making \cup Writing \cup Ending

\* Which pointers are set at which stage, and to what.
PointerInv ==
  /\ pc \in Stages
  /\ srcImage \in {NULL, "read", "cropped", "resized"}
  /\ pc \in BeforeDecode \cup {"done"} => srcImage = NULL
  /\ pc \in Reading \cup {"dump"} => srcImage \in {NULL, "read"}
  /\ pc \in Choosing => srcImage \in {"read", "cropped"}
  /\ pc \in {"dump"} \cup Making \cup Writing => srcImage # NULL
  /\ dstImage \in {NULL, "converted", "rotated"}
  /\ pc \notin Writing \cup Ending => dstImage = NULL
  /\ pc = "rotate" => dstImage = "converted"
  /\ pc \in {"write", "stats"} => dstImage # NULL
  /\ pc = "done" => dstImage = NULL
  /\ dstProfile \in {NULL, "dstProfile"}
  /\ pc \in BeforeDecode \cup Reading \cup {"dump", "query", "destination", "done"} => dstProfile = NULL
  /\ overrideProfile \in {NULL, "overrideProfile"}
  /\ pc \notin {"open", "decode", "override", "done"} => overrideProfile = NULL

\* What is alive is what the pointers point to; an image has the profile it was made
\* with, or the first one the override.
HeapInv ==
  /\ heap \in Heaps /\ ~heap.corrupt
  /\ {srcImage, dstImage} \ {NULL} \subseteq ImagesOf(heap)
  /\ pc # "crashed" => ImagesOf(heap) = {srcImage, dstImage} \ {NULL}
  /\ ProfilesOf(heap) = {heap.images[i].profile : i \in ImagesOf(heap)}
                          \cup ({dstProfile, overrideProfile} \ {NULL})
  /\ \A i \in ImagesOf(heap) :
       \/ heap.images[i].profile = i
       \/ i = "read" /\ heap.images[i].profile = "overrideProfile" /\ overrideProfile = NULL

\* The override is only left when the source was never looked at.
SourceInv == overrideProfile # NULL \/ pc \in BeforeDecode \cup Reading => source = NULL

InfoInv ==
  /\ params \in Options
  /\ pc \in {"destination", "resize"} \cup Making \cup Writing => dstInfo \in Infos
  /\ pc = "convert" /\ dstProfile = NULL => dstInfo.primaries = "collinear"

\* What the output file may hold at each stage, and what the exit code says of it.
ExitInv ==
  /\ pc \notin {"stats"} \cup Ending => file.kind = "none"
  /\ pc \notin {"cleanup", "done", "exited"} => returnCode = 0
  /\ pc \in Choosing \cup Making \cup Writing => params.format # "icc"
  /\ pc = "stats" =>
       \/ file.kind \in {"image", "partial"}
       \/ params.format = "jxr" /\ file.kind = "garbage"
       \/ params.format = "avif" /\ file.kind = "empty"
  /\ pc \in {"cleanup", "done", "exited"} =>
       \/ returnCode = 1 /\ file.kind \in {"none", "partial"}
       \/ returnCode = 0 /\ params.format = "icc" /\ file.kind \in {"none", "icc", "partial"}
       \/ returnCode = 0 /\ params.format # "icc" /\ file.kind \in {"image", "partial"}
       \/ returnCode = 0 /\ params.format = "jxr" /\ file.kind = "garbage"
       \/ returnCode = 0 /\ params.format = "avif" /\ file.kind = "empty"

\* validateArgs changes nothing of the request but autograding, which leaves the gamma or
\* the luminance open, and the profile where --iccout makes it irrelevant.
RequestInv ==
  /\ request \in Options
  /\ params.crop = request.crop /\ params.resize = request.resize /\ params.rotate = request.rotate
  /\ params.iccOverrideOut = request.iccOverrideOut
  /\ ~request.iccOverrideOut =>
       /\ params.profile.primaries = request.profile.primaries
       /\ params.profile.curve = request.profile.curve
       /\ params.profile.luminance = request.profile.luminance
       /\ params.profile.autoGrade => request.profile.curve.gamma = 0 \/ request.profile.luminance = 0

\* What was done to the image of each stage.
CropDone    == IF request.crop THEN <<"crop">> ELSE <<>>
ResizeDone  == IF request.resize THEN Append(CropDone, "resize") ELSE CropDone
ConvertDone == Append(ResizeDone, "convert")
RotateDone  == IF request.rotate THEN Append(ConvertDone, "rotate") ELSE ConvertDone

OpsInv ==
  /\ pc \in Reading \cup {"dump"} /\ srcImage # NULL => heap.images[srcImage].ops = <<>>
  /\ pc \in Choosing => heap.images[srcImage].ops = CropDone
  /\ pc \in Making => heap.images[srcImage].ops = ResizeDone
  /\ pc = "rotate" => heap.images[dstImage].ops = ConvertDone
  /\ pc = "write" => heap.images[dstImage].ops = RotateDone

BeforeGrade == BeforeDecode \cup Reading \cup {"dump"} \cup Choosing \cup {"grade"}

\* The destination before -p, -g and -l: autograding forgets a part of the source.
Kept ==
  IF params.profile.autoGrade
    THEN [source.info EXCEPT !.curve = NoCurve, !.luminance = CL_LUMINANCE_UNSPECIFIED]
    ELSE source.info

\* A source that was understood, and a destination that is not taken from a file.
Derivable == ~params.iccOverrideOut /\ source.queryable

\* How the destination becomes what is expected.
ContentInv ==
  /\ pc \in {"dump"} \cup Choosing \cup Making => ContentOf(heap, srcImage) = source
  /\ pc \in BeforeGrade => graded = NULL
  /\ params.iccOverrideOut /\ pc \in {"resize"} \cup Making \cup Writing => dstProfile # NULL
  /\ ~params.iccOverrideOut /\ pc \in {"resize", "grade", "profile"} => dstProfile = NULL
  /\ source.queryable /\ pc \in {"destination", "resize"} \cup Making => srcInfo = source.info
  /\ source.queryable /\ pc = "destination" => dstInfo = Kept
  /\ Derivable /\ pc \in {"resize", "grade"} => dstInfo = Overridden(Kept, params.profile)
  /\ Derivable /\ pc = "profile" => dstInfo = ExpectedInfo
  /\ Derivable /\ pc \in {"convert", "rotate", "write"} /\ ExpectedInfo.primaries # "collinear" =>
       dstProfile # NULL /\ heap.profiles["dstProfile"].content.info = ExpectedInfo
  /\ pc \in {"rotate", "write"} /\ dstProfile # NULL =>
       ContentOf(heap, dstImage) = heap.profiles["dstProfile"].content

IInv == /\ PointerInv /\ HeapInv /\ SourceInv /\ InfoInv /\ ExitInv /\ CrashesKnown
        /\ RequestInv /\ OpsInv /\ ContentInv /\ FileAsAsked

-----------------------------------------------------------------------------

LEMMA InitInv == Init => IInv
<1> SUFFICES ASSUME Init PROVE IInv
  OBVIOUS
<1>1. PointerInv /\ SourceInv /\ ExitInv /\ CrashesKnown
  BY DEF Init, PointerInv, SourceInv, ExitInv, CrashesKnown, Stages, BeforeDecode, Reading,
         Choosing, Making, Writing, Ending
<1>2. HeapInv
  <2>1. heap \in Heaps /\ ~heap.corrupt
    BY DEF Init, Heaps, NoObject, ImageObjects, ProfileObjects
  <2>2. ImagesOf(heap) = {} /\ ProfilesOf(heap) = {}
    BY DEF Init, ImagesOf, ProfilesOf, NoObject
  <2> QED
    BY <2>1, <2>2 DEF Init, HeapInv
<1>3. params \in Options
  <2>1. request \in Options
    BY ConvertAssumption DEF Init
  <2>2. DefaultProfileOptions \in ProfileOptions
    BY DEF DefaultProfileOptions, ProfileOptions, NoCurve, Curves, Luminances, CL_LUMINANCE_SOURCE
  <2>3. request.profile \in ProfileOptions /\ params = Validated(request)
    BY <2>1 DEF Options, Init
  <2>4. [request EXCEPT !.profile = DefaultProfileOptions] \in Options
    BY <2>1, <2>2 DEF Options
  <2>5. ASSUME NEW b \in BOOLEAN
        PROVE  [request EXCEPT !.profile.autoGrade = b] \in Options
    <3> DEFINE profile == [request.profile EXCEPT !.autoGrade = b]
    <3>1. profile \in ProfileOptions
      BY <2>3 DEF ProfileOptions
    <3>2. [request EXCEPT !.profile.autoGrade = b] = [request EXCEPT !.profile = profile]
      OBVIOUS
    <3> HIDE DEF profile
    <3>3. [request EXCEPT !.profile = profile] \in Options
      BY <2>1, <3>1 DEF Options
    <3> QED
      BY <3>2, <3>3
  <2>6. CASE request.iccOverrideOut
    BY <2>3, <2>4, <2>6 DEF Validated
  <2>7. CASE ~request.iccOverrideOut
    <3> DEFINE b == request.profile.autoGrade
                      /\ ~(request.profile.curve.gamma # 0 /\ request.profile.luminance # 0)
    <3>1. b \in BOOLEAN
      OBVIOUS
    <3>2. params = [request EXCEPT !.profile.autoGrade = b]
      BY <2>3, <2>7 DEF Validated
    <3> HIDE DEF b
    <3> QED
      BY <2>5, <3>1, <3>2
  <2> QED
    BY <2>6, <2>7
<1>4. InfoInv
  BY <1>3 DEF Init, InfoInv, Making, Writing
<1>5. RequestInv
  <2>1. request \in Options /\ params = Validated(request)
    BY ConvertAssumption DEF Init
  <2>2. CASE request.iccOverrideOut
    <3>1. params = [request EXCEPT !.profile = DefaultProfileOptions]
      BY <2>1, <2>2 DEF Validated
    <3> HIDE DEF Init
    <3> QED
      BY <2>1, <2>2, <3>1 DEF RequestInv, Options
  <2>3. CASE ~request.iccOverrideOut
    <3> DEFINE b == request.profile.autoGrade
                      /\ ~(request.profile.curve.gamma # 0 /\ request.profile.luminance # 0)
               profile == [request.profile EXCEPT !.autoGrade = b]
    <3>1. params = [request EXCEPT !.profile = profile]
      BY <2>1, <2>3 DEF Validated
    <3> HIDE DEF b
    <3>2. /\ profile.primaries = request.profile.primaries /\ profile.curve = request.profile.curve
          /\ profile.luminance = request.profile.luminance /\ profile.autoGrade = b
      BY <2>1 DEF Options, ProfileOptions
    <3>3. profile.autoGrade => request.profile.curve.gamma = 0 \/ request.profile.luminance = 0
      BY <3>2 DEF b
    <3> HIDE DEF profile
    <3>4. /\ params.profile = profile
          /\ params.crop = request.crop /\ params.resize = request.resize
          /\ params.rotate = request.rotate /\ params.iccOverrideOut = request.iccOverrideOut
      BY <2>1, <3>1 DEF Options
    <3> HIDE DEF Init
    <3> QED
      BY <2>1, <3>2, <3>3, <3>4 DEF RequestInv
  <2> QED
    BY <2>2, <2>3
<1>6. OpsInv /\ ContentInv /\ FileAsAsked
  BY DEF Init, OpsInv, ContentInv, FileAsAsked, BeforeGrade, BeforeDecode, Reading, Choosing, Making,
         Writing
<1> QED
  BY <1>1, <1>2, <1>4, <1>5, <1>6 DEF IInv

-----------------------------------------------------------------------------
(* The heap at each stage *)

\* An image that is pointed to is there, with its profile.
LEMMA PointedIsLive ==
  ASSUME HeapInv, NEW i \in {srcImage, dstImage} \ {NULL}
  PROVE  /\ i \in ImagesOf(heap) /\ i \in ImageSites
         /\ heap.images[i].profile \in ProfilesOf(heap)
BY DEF HeapInv, ImagesOf

\* A place that no pointer knows is free.
LEMMA PlaceIsFree ==
  ASSUME HeapInv, PointerInv, pc # "crashed", NEW i \in ImageSites \ {srcImage, dstImage}
  PROVE  i \in ImageSites \ (ImagesOf(heap) \cup ProfilesOf(heap))
BY DEF HeapInv, PointerInv, ImageSites

LEMMA SourceReplacedKeeps ==
  ASSUME HeapInv, PointerInv, pc # "crashed", pc' # "crashed",
         srcImage # NULL, dstImage = NULL, overrideProfile = NULL,
         NEW asked, NEW site \in {"cropped", "resized"}, site # srcImage,
         NEW op \in {"crop", "resize", "convert", "rotate"},
         SourceReplaced(asked, site, op), UNCHANGED <<dstImage, dstProfile, overrideProfile>>
  PROVE  HeapInv'
<1>1. CASE ~asked
  BY <1>1 DEF SourceReplaced, HeapInv
<1>2. CASE asked
  <2> DEFINE made == Derived(heap, site, srcImage, op)
  <2>1. /\ srcImage \in ImagesOf(heap) /\ srcImage \in ImageSites
        /\ heap.images[srcImage].profile \in ProfilesOf(heap)
    BY PointedIsLive
  <2>2. site \in ImageSites \ (ImagesOf(heap) \cup ProfilesOf(heap)) /\ site # NULL
    BY PlaceIsFree, NullAssumption DEF ImageSites, ProfileSites
  <2>3. heap \in Heaps
    BY DEF HeapInv
  <2>4. /\ made \in Heaps /\ made.corrupt = heap.corrupt
        /\ ProfilesOf(made) = ProfilesOf(heap) \cup {site}
        /\ ImagesOf(made) = ImagesOf(heap) \cup {site}
        /\ made.images[site].profile = site
        /\ \A k \in ImageSites \ {site} : made.images[k] = heap.images[k]
    BY <2>1, <2>2, <2>3, ImageDerived, SMTT(90)
  <2>5. heap' = clImageDestroy(made, srcImage) /\ srcImage' = site
    BY <1>2 DEF SourceReplaced
  <2> HIDE DEF made
  <2>6. /\ heap' \in Heaps /\ heap'.corrupt = made.corrupt
        /\ ProfilesOf(heap') = ProfilesOf(made) \ {made.images[srcImage].profile}
        /\ ImagesOf(heap') = ImagesOf(made) \ {srcImage}
        /\ \A j \in ImageSites \ {srcImage} : heap'.images[j] = made.images[j]
    BY <2>1, <2>4, <2>5, ImageDestroyed
  <2>7. made.images[srcImage] = heap.images[srcImage]
    BY <2>1, <2>4
  <2>8. ImagesOf(heap') = {site} /\ heap'.images[site].profile = site
    BY <2>1, <2>2, <2>4, <2>6 DEF HeapInv
  <2>9. ProfilesOf(heap) = {heap.images[srcImage].profile} \cup ({dstProfile} \ {NULL})
    BY DEF HeapInv
  <2>10. heap.images[srcImage].profile # dstProfile
    BY <2>1, NullAssumption DEF HeapInv, PointerInv, ImageSites, ProfileSites
  <2>11. ProfilesOf(heap') = {site} \cup ({dstProfile} \ {NULL})
    <3>1. site # heap.images[srcImage].profile
      BY <2>1, <2>2
    <3> QED
      BY <2>4, <2>6, <2>7, <2>9, <2>10, <3>1
  <2>12. ~heap'.corrupt
    BY <2>4, <2>6 DEF HeapInv
  <2> QED
    BY <2>2, <2>5, <2>6, <2>8, <2>11, <2>12 DEF HeapInv
<1> QED
  BY <1>1, <1>2

\* A destination profile is made where there was none.
LEMMA DestinationKeeps ==
  ASSUME HeapInv, PointerInv, pc # "crashed", pc' # "crashed",
         dstProfile = NULL, NEW content \in ProfileContents,
         heap' = WithProfile(heap, "dstProfile", content), dstProfile' = "dstProfile",
         UNCHANGED <<srcImage, dstImage, overrideProfile>>
  PROVE  HeapInv'
<1>1. "dstProfile" \in ProfileSites \ ProfilesOf(heap) /\ heap \in Heaps
  BY DEF HeapInv, PointerInv, ProfileSites, ImagesOf, ImageSites
<1>2. /\ heap' \in Heaps /\ heap'.corrupt = heap.corrupt /\ heap'.images = heap.images
      /\ ProfilesOf(heap') = ProfilesOf(heap) \cup {"dstProfile"}
      /\ ImagesOf(heap') = ImagesOf(heap)
  BY <1>1, ProfileMade
<1>3. "dstProfile" # NULL
  BY <1>1, NullAssumption
<1> QED
  BY <1>2, <1>3 DEF HeapInv

LEMMA ReadOverrideKeeps == HeapInv /\ PointerInv /\ ReadOverride => HeapInv'
<1> SUFFICES ASSUME HeapInv, PointerInv, ReadOverride PROVE HeapInv'
  OBVIOUS
<1>1. pc = "start" /\ pc' # "crashed" /\ pc # "crashed"
  BY DEF ReadOverride, GoTo, ReturnFailure
<1>2. CASE UNCHANGED <<heap, pointers>>
  BY <1>1, <1>2 DEF HeapInv, pointers
<1>3. CASE /\ \E content \in Contents : heap' = WithProfile(heap, "overrideProfile", content)
           /\ overrideProfile' = "overrideProfile"
           /\ UNCHANGED <<srcImage, dstImage, dstProfile>>
  <2>1. PICK content \in ProfileContents : heap' = WithProfile(heap, "overrideProfile", content)
    BY <1>3, ConvertAssumption
  <2>2. srcImage = NULL /\ dstImage = NULL /\ dstProfile = NULL /\ overrideProfile = NULL
    BY <1>1 DEF PointerInv, BeforeDecode, Writing, Ending
  <2>3. ImagesOf(heap) = {} /\ ProfilesOf(heap) = {} /\ heap \in Heaps
    BY <1>1, <2>2 DEF HeapInv
  <2>4. "overrideProfile" \in ProfileSites /\ "overrideProfile" # NULL
    BY NullAssumption DEF ProfileSites
  <2>5. /\ heap' \in Heaps /\ heap'.corrupt = heap.corrupt
        /\ ProfilesOf(heap') = {"overrideProfile"} /\ ImagesOf(heap') = {}
    BY <2>1, <2>3, <2>4, ProfileMade
  <2> QED
    BY <1>3, <2>2, <2>4, <2>5 DEF HeapInv
<1> QED
  BY <1>2, <1>3 DEF ReadOverride

LEMMA DecodeKeeps == HeapInv /\ PointerInv /\ Decode => HeapInv'
<1> SUFFICES ASSUME HeapInv, PointerInv, Decode PROVE HeapInv'
  OBVIOUS
<1>1. pc = "decode" /\ pc' = "override" /\ UNCHANGED <<dstImage, dstProfile, overrideProfile>>
  BY DEF Decode, GoTo
<1>2. CASE UNCHANGED <<heap, srcImage>>
  BY <1>1, <1>2 DEF HeapInv
<1>3. CASE /\ \E content \in Contents \cup {DefaultContent} :
                heap' = clImageCreate(heap, "read", content, <<>>)
           /\ srcImage' = "read"
  <2>1. PICK content \in ProfileContents : heap' = clImageCreate(heap, "read", content, <<>>)
    BY <1>3, ConvertAssumption
  <2>2. srcImage = NULL /\ dstImage = NULL /\ dstProfile = NULL
    BY <1>1 DEF PointerInv, BeforeDecode, Writing, Ending
  <2>3. "read" \in ImageSites /\ "read" # NULL /\ "overrideProfile" # NULL
    BY NullAssumption DEF ImageSites, ProfileSites
  <2>4. "read" \in ImageSites \ (ImagesOf(heap) \cup ProfilesOf(heap)) /\ heap \in Heaps
    BY <1>1, <2>2, <2>3, PlaceIsFree DEF HeapInv
  <2>5. <<>> \in Ops
    BY DEF Ops
  <2>6. /\ heap' \in Heaps /\ heap'.corrupt = heap.corrupt
        /\ ProfilesOf(heap') = ProfilesOf(heap) \cup {"read"}
        /\ ImagesOf(heap') = ImagesOf(heap) \cup {"read"}
        /\ heap'.images["read"].profile = "read"
    BY <2>1, <2>4, <2>5, ImageMade
  <2>7. ImagesOf(heap) = {} /\ ProfilesOf(heap) = {overrideProfile} \ {NULL}
    BY <1>1, <2>2 DEF HeapInv
  <2> QED
    BY <1>1, <1>3, <2>2, <2>3, <2>6, <2>7 DEF HeapInv
<1> QED
  BY <1>2, <1>3 DEF Decode

LEMMA AdoptOverrideKeeps == HeapInv /\ PointerInv /\ AdoptOverride => HeapInv'
<1> SUFFICES ASSUME HeapInv, PointerInv, AdoptOverride PROVE HeapInv'
  OBVIOUS
<1>1. /\ pc = "override" /\ pc' = "enforce" /\ overrideProfile' = NULL
      /\ UNCHANGED <<srcImage, dstImage, dstProfile>>
  BY DEF AdoptOverride, GoTo
<1>2. dstImage = NULL /\ dstProfile = NULL /\ srcImage \in {NULL, "read"}
      /\ overrideProfile \in {NULL, "overrideProfile"} /\ heap \in Heaps
  BY <1>1 DEF PointerInv, Reading, Writing, Ending, HeapInv
<1>3. "read" # NULL /\ "overrideProfile" # NULL /\ "read" \in ImageSites
  BY NullAssumption DEF ImageSites, ProfileSites
<1>4. CASE overrideProfile = NULL
  BY <1>1, <1>4 DEF AdoptOverride, HeapInv
<1>5. CASE overrideProfile # NULL /\ srcImage = NULL
  <2>1. heap' = clProfileDestroy(heap, overrideProfile)
    BY <1>5 DEF AdoptOverride
  <2>2. ImagesOf(heap) = {} /\ ProfilesOf(heap) = {overrideProfile}
    BY <1>1, <1>2, <1>5 DEF HeapInv
  <2>3. /\ heap' \in Heaps /\ heap'.corrupt = heap.corrupt
        /\ ProfilesOf(heap') = {} /\ ImagesOf(heap') = {}
    BY <1>2, <2>1, <2>2, ProfileDestroyed
  <2> QED
    BY <1>1, <1>2, <1>5, <2>3 DEF HeapInv
<1>6. CASE overrideProfile # NULL /\ srcImage # NULL
  <2>1. srcImage = "read" /\ overrideProfile = "overrideProfile"
    BY <1>2, <1>6
  <2>2. ImagesOf(heap) = {"read"} /\ heap.images["read"].profile = "read"
        /\ ProfilesOf(heap) = {"read", "overrideProfile"}
    BY <1>1, <1>2, <1>3, <2>1 DEF HeapInv
  <2>3. CASE heap' = clProfileDestroy(heap, "overrideProfile")
    <3>1. /\ heap' \in Heaps /\ heap'.corrupt = heap.corrupt /\ heap'.images = heap.images
          /\ ProfilesOf(heap') = {"read"} /\ ImagesOf(heap') = {"read"}
      BY <1>2, <2>2, <2>3, ProfileDestroyed
    <3> QED
      BY <1>1, <1>2, <1>3, <2>1, <2>2, <3>1 DEF HeapInv
  <2>4. CASE heap' = [clProfileDestroy(heap, "read") EXCEPT !.images["read"].profile = "overrideProfile"]
    <3> DEFINE after == clProfileDestroy(heap, "read")
               object == [heap.images["read"] EXCEPT !.profile = "overrideProfile"]
    <3>1. /\ after \in Heaps /\ after.corrupt = heap.corrupt /\ after.images = heap.images
          /\ ProfilesOf(after) = {"overrideProfile"} /\ ImagesOf(after) = {"read"}
      BY <1>2, <2>2, ProfileDestroyed
    <3>2. object \in ImageObjects /\ object.state = "live" /\ object.profile = "overrideProfile"
      BY <1>2, <2>2, LiveImageTyped DEF ImageObjects, ImagesOf, ProfileSites
    <3>3. heap' = [after EXCEPT !.images["read"] = object]
      <4>1. heap' = [after EXCEPT !.images["read"].profile = "overrideProfile"]
        BY <2>4
      <4> HIDE DEF after
      <4> QED
        BY <3>1, <4>1
    <3> HIDE DEF after, object
    <3>4. /\ heap' = [images |-> heap'.images, profiles |-> after.profiles, corrupt |-> after.corrupt]
          /\ heap'.images = [after.images EXCEPT !["read"] = object]
      BY <3>1, <3>3 DEF Heaps
    <3>5. after.images \in [ImageSites -> ImageObjects] /\ after.corrupt \in BOOLEAN
          /\ after.profiles \in [ProfileSites -> ProfileObjects]
      BY <3>1 DEF Heaps
    <3>6. heap'.images \in [ImageSites -> ImageObjects]
      BY <3>2, <3>4, <3>5
    <3>7. heap' \in Heaps
      BY <3>4, <3>5, <3>6 DEF Heaps
    <3>8. heap'.profiles = after.profiles /\ heap'.corrupt = after.corrupt
      BY <3>4
    <3>9. ProfilesOf(heap') = {"overrideProfile"}
      BY <3>1, <3>8 DEF ProfilesOf
    <3>10. heap'.images["read"] = object /\ ImagesOf(heap') = {"read"}
      BY <1>3, <3>1, <3>2, <3>4, <3>5 DEF ImagesOf
    <3> QED
      BY <1>1, <1>2, <1>3, <2>1, <3>1, <3>2, <3>7, <3>8, <3>9, <3>10 DEF HeapInv
  <2> QED
    BY <1>6, <2>1, <2>2, <2>3, <2>4 DEF AdoptOverride
<1> QED
  BY <1>4, <1>5, <1>6

LEMMA EnforceLuminanceKeeps == HeapInv /\ PointerInv /\ EnforceLuminance => HeapInv'
<1> SUFFICES ASSUME HeapInv, PointerInv, EnforceLuminance PROVE HeapInv'
  OBVIOUS
<1>1. pc = "enforce" /\ UNCHANGED pointers
  BY DEF EnforceLuminance
<1>2. CASE UNCHANGED heap
  BY <1>1, <1>2 DEF HeapInv, pointers
<1>3. CASE srcImage # NULL /\ heap' # heap
  <2> DEFINE p == heap.images[srcImage].profile
             info == [heap.profiles[p].content.info EXCEPT !.luminance = DefaultLuminance]
             content == [heap.profiles[p].content EXCEPT !.info = info]
  <2>1. heap' = [heap EXCEPT !.profiles[p].content.info.luminance = DefaultLuminance]
    BY <1>3 DEF EnforceLuminance
  <2>2. p \in ProfilesOf(heap) /\ heap \in Heaps
    BY <1>3, PointedIsLive DEF HeapInv
  <2>3. heap.profiles[p].content \in ProfileContents
    BY <2>2, LiveProfileTyped
  <2>4. content \in ProfileContents
    <3>1. info \in Infos
      BY <2>3, ConvertAssumption DEF ProfileContents, Infos
    <3> HIDE DEF info
    <3> QED
      BY <2>3, <3>1 DEF ProfileContents
  <2>5. heap' = [heap EXCEPT !.profiles[p].content = content]
    BY <2>1
  <2> HIDE DEF content, p
  <2>6. /\ heap' \in Heaps /\ heap'.corrupt = heap.corrupt /\ heap'.images = heap.images
        /\ ProfilesOf(heap') = ProfilesOf(heap) /\ ImagesOf(heap') = ImagesOf(heap)
    BY <2>2, <2>4, <2>5, ContentChanged
  <2> QED
    BY <1>1, <2>6 DEF HeapInv, pointers
<1> QED
  BY <1>2, <1>3 DEF EnforceLuminance

LEMMA MakeProfileKeeps == HeapInv /\ PointerInv /\ InfoInv /\ MakeProfile => HeapInv'
<1> SUFFICES ASSUME HeapInv, PointerInv, InfoInv, MakeProfile PROVE HeapInv'
  OBVIOUS
<1>1. pc = "profile" /\ UNCHANGED <<srcImage, dstImage, overrideProfile>>
  BY DEF MakeProfile
<1>2. CASE UNCHANGED <<heap, dstProfile>>
  BY <1>1, <1>2 DEF HeapInv
<1>3. CASE dstProfile = NULL /\ pc' = "convert" /\ dstProfile' = "dstProfile"
           /\ heap' = WithProfile(heap, "dstProfile", ContentOf(heap, srcImage))
  <2>1. srcImage # NULL
    BY <1>1 DEF PointerInv, Making
  <2>2. ContentOf(heap, srcImage) \in ProfileContents
    BY <2>1, PointedIsLive, LiveProfileTyped DEF ContentOf, HeapInv
  <2> QED
    BY <1>1, <1>3, <2>2, DestinationKeeps
<1>4. CASE dstProfile = NULL /\ pc' = "convert" /\ dstProfile' = "dstProfile"
           /\ heap' = WithProfile(heap, "dstProfile", [info |-> dstInfo, queryable |-> TRUE])
  <2>1. [info |-> dstInfo, queryable |-> TRUE] \in ProfileContents
    BY <1>1 DEF InfoInv, Making, ProfileContents
  <2> QED
    BY <1>1, <1>4, <2>1, DestinationKeeps
<1> QED
  BY <1>2, <1>3, <1>4 DEF MakeProfile, GoTo

LEMMA ConvertKeeps == HeapInv /\ PointerInv /\ Convert => HeapInv'
<1> SUFFICES ASSUME HeapInv, PointerInv, Convert PROVE HeapInv'
  OBVIOUS
<1> DEFINE content == IF dstProfile = NULL THEN DefaultContent ELSE heap.profiles[dstProfile].content
           made == Derived(heap, "converted", srcImage, "convert")
<1>1. /\ pc = "convert" /\ UNCHANGED <<srcImage, dstProfile, overrideProfile>>
      /\ heap' = [made EXCEPT !.profiles["converted"].content = content]
      /\ (pc' = "crashed" /\ dstImage' = dstImage) \/ (pc' = "rotate" /\ dstImage' = "converted")
  BY DEF Convert, GoTo, Crash
<1>2. /\ dstImage = NULL /\ srcImage \in {"read", "cropped", "resized"} /\ overrideProfile = NULL
      /\ heap \in Heaps /\ dstProfile \in {NULL, "dstProfile"}
  BY <1>1 DEF PointerInv, Making, Writing, Ending, HeapInv
<1>3. "converted" \in ImageSites /\ "converted" # NULL /\ srcImage # NULL /\ "dstProfile" # NULL
  BY <1>2, NullAssumption DEF ImageSites, ProfileSites
<1>4. /\ srcImage \in ImagesOf(heap) /\ heap.images[srcImage].profile \in ProfilesOf(heap)
  BY <1>3, PointedIsLive
<1>5. "converted" \in ImageSites \ (ImagesOf(heap) \cup ProfilesOf(heap))
  BY <1>1, <1>2, <1>3, PlaceIsFree
<1>6. content \in ProfileContents
  <2>1. dstProfile # NULL => dstProfile \in ProfilesOf(heap)
    BY DEF HeapInv
  <2> QED
    BY <1>2, <2>1, LiveProfileTyped, ConvertAssumption
<1>7. /\ made \in Heaps /\ made.corrupt = heap.corrupt
      /\ ProfilesOf(made) = ProfilesOf(heap) \cup {"converted"}
      /\ ImagesOf(made) = ImagesOf(heap) \cup {"converted"}
      /\ made.images["converted"].profile = "converted"
      /\ \A k \in ImageSites \ {"converted"} : made.images[k] = heap.images[k]
  BY <1>2, <1>4, <1>5, ImageDerived, SMTT(90)
<1> HIDE DEF made, content
<1>8. /\ heap' \in Heaps /\ heap'.corrupt = made.corrupt /\ heap'.images = made.images
      /\ ProfilesOf(heap') = ProfilesOf(made) /\ ImagesOf(heap') = ImagesOf(made)
  BY <1>1, <1>6, <1>7, ContentChanged
<1>9. ImagesOf(heap') = {srcImage, "converted"}
      /\ heap'.images[srcImage].profile = heap.images[srcImage].profile
      /\ heap'.images["converted"].profile = "converted"
  <2>1. ImagesOf(heap) = {srcImage}
    BY <1>1, <1>2, <1>3 DEF HeapInv
  <2>2. srcImage \in ImageSites \ {"converted"}
    BY <1>2 DEF ImageSites
  <2> QED
    BY <1>7, <1>8, <2>1, <2>2
<1>10. ProfilesOf(heap') = {heap.images[srcImage].profile, "converted"} \cup ({dstProfile} \ {NULL})
  <2>1. ProfilesOf(heap) = {heap.images[srcImage].profile} \cup ({dstProfile} \ {NULL})
    BY <1>1, <1>2, <1>3 DEF HeapInv
  <2> QED
    BY <1>7, <1>8, <2>1
<1>11. \/ heap.images[srcImage].profile = srcImage
       \/ srcImage = "read" /\ heap.images[srcImage].profile = "overrideProfile"
  BY <1>4 DEF HeapInv
<1>12. ~heap'.corrupt
  BY <1>7, <1>8 DEF HeapInv
<1> HIDE DEF HeapInv
<1>13. heap' \in Heaps
  BY <1>8
<1> QED
  BY <1>1, <1>2, <1>3, <1>9, <1>10, <1>11, <1>12, <1>13 DEF HeapInv

LEMMA RotateKeeps == HeapInv /\ PointerInv /\ Rotate => HeapInv'
<1> SUFFICES ASSUME HeapInv, PointerInv, Rotate PROVE HeapInv'
  OBVIOUS
<1>1. pc = "rotate" /\ pc' = "write" /\ UNCHANGED <<srcImage, dstProfile, overrideProfile>>
  BY DEF Rotate, GoTo
<1>2. CASE UNCHANGED <<heap, dstImage>>
  BY <1>1, <1>2 DEF HeapInv
<1>3. CASE Turned(Derived(heap, "rotated", dstImage, "rotate"))
  <2> DEFINE made == Derived(heap, "rotated", dstImage, "rotate")
  <2>1. /\ dstImage = "converted" /\ srcImage \in {"read", "cropped", "resized"}
        /\ overrideProfile = NULL /\ heap \in Heaps /\ dstProfile \in {NULL, "dstProfile"}
    BY <1>1 DEF PointerInv, Writing, HeapInv
  <2>2. "rotated" # NULL /\ "converted" # NULL /\ srcImage # NULL /\ "dstProfile" # NULL
    BY <2>1, NullAssumption DEF ImageSites, ProfileSites
  <2>3. /\ ImagesOf(heap) = {srcImage, "converted"}
        /\ heap.images["converted"].profile = "converted"
        /\ ProfilesOf(heap) = {heap.images[srcImage].profile, "converted"} \cup ({dstProfile} \ {NULL})
    BY <1>1, <2>1, <2>2 DEF HeapInv
  <2>4. "rotated" \in ImageSites \ (ImagesOf(heap) \cup ProfilesOf(heap))
    BY <1>1, <2>1, PlaceIsFree DEF ImageSites
  <2>5. /\ made \in Heaps /\ made.corrupt = heap.corrupt
        /\ ProfilesOf(made) = ProfilesOf(heap) \cup {"rotated"}
        /\ ImagesOf(made) = ImagesOf(heap) \cup {"rotated"}
        /\ made.images["rotated"].profile = "rotated"
        /\ \A k \in ImageSites \ {"rotated"} : made.images[k] = heap.images[k]
    BY <2>1, <2>3, <2>4, ImageDerived, SMTT(90)
  <2>6. heap' = clImageDestroy(made, "converted") /\ dstImage' = "rotated"
    BY <1>3, <2>1 DEF Turned
  <2>7. made.images["converted"].profile = "converted"
    BY <2>3, <2>5 DEF ImageSites
  <2> HIDE DEF made
  <2>8. /\ heap' \in Heaps /\ heap'.corrupt = made.corrupt
        /\ ProfilesOf(heap') = ProfilesOf(made) \ {"converted"}
        /\ ImagesOf(heap') = ImagesOf(made) \ {"converted"}
        /\ \A j \in ImageSites \ {"converted"} : heap'.images[j] = made.images[j]
    BY <2>3, <2>5, <2>6, <2>7, ImageDestroyed
  <2>9. \/ heap.images[srcImage].profile = srcImage
        \/ srcImage = "read" /\ heap.images[srcImage].profile = "overrideProfile"
    BY <2>3 DEF HeapInv
  <2>10. /\ ImagesOf(heap') = {srcImage, "rotated"}
         /\ heap'.images[srcImage].profile = heap.images[srcImage].profile
         /\ heap'.images["rotated"].profile = "rotated"
    BY <2>1, <2>3, <2>5, <2>8 DEF ImageSites
  <2>11. ProfilesOf(heap') = {heap.images[srcImage].profile, "rotated"} \cup ({dstProfile} \ {NULL})
    BY <2>1, <2>3, <2>5, <2>8, <2>9
  <2>12. ~heap'.corrupt
    BY <2>5, <2>8 DEF HeapInv
  <2>13. heap' \in Heaps
    BY <2>8
  <2> QED
    BY <1>1, <2>1, <2>2, <2>6, <2>9, <2>10, <2>11, <2>12, <2>13 DEF HeapInv
<1> QED
  BY <1>2, <1>3 DEF Rotate

\* The image read back for the statistics comes and goes.
LEMMA StatsKeeps ==
  ASSUME HeapInv, PointerInv, Stats
  PROVE  HeapInv' /\ heap'.profiles["dstProfile"].content = heap.profiles["dstProfile"].content
<1>1. pc = "stats" /\ UNCHANGED pointers
  BY DEF Stats
<1>2. CASE UNCHANGED heap
  BY <1>1, <1>2 DEF HeapInv, pointers
<1>3. ASSUME NEW content \in ProfileContents,
             heap' = clImageDestroy(clImageCreate(heap, "reloaded", content, <<>>), "reloaded")
      PROVE  HeapInv' /\ heap'.profiles["dstProfile"].content = heap.profiles["dstProfile"].content
  <2> DEFINE made == clImageCreate(heap, "reloaded", content, <<>>)
  <2>1. "reloaded" \in ImageSites \ (ImagesOf(heap) \cup ProfilesOf(heap)) /\ "reloaded" # NULL
    <3>1. "reloaded" \in ImageSites \ {srcImage, dstImage} /\ "reloaded" # NULL
      BY NullAssumption DEF PointerInv, ImageSites, ProfileSites
    <3> QED
      BY <1>1, <3>1, PlaceIsFree
  <2>2. <<>> \in Ops /\ heap \in Heaps
    BY DEF Ops, HeapInv
  <2>3. /\ made \in Heaps /\ made.corrupt = heap.corrupt
        /\ ProfilesOf(made) = ProfilesOf(heap) \cup {"reloaded"}
        /\ ImagesOf(made) = ImagesOf(heap) \cup {"reloaded"}
        /\ made.images["reloaded"].profile = "reloaded"
        /\ \A k \in ImageSites \ {"reloaded"} : made.images[k] = heap.images[k]
        /\ \A q \in ProfileSites \ {"reloaded"} : made.profiles[q] = heap.profiles[q]
    BY <2>1, <2>2, ImageMade
  <2> HIDE DEF made
  <2>4. /\ heap' \in Heaps /\ heap'.corrupt = made.corrupt
        /\ ProfilesOf(heap') = ProfilesOf(made) \ {"reloaded"}
        /\ ImagesOf(heap') = ImagesOf(made) \ {"reloaded"}
        /\ \A j \in ImageSites \ {"reloaded"} : heap'.images[j] = made.images[j]
        /\ \A q \in ProfileSites : heap'.profiles[q].content = made.profiles[q].content
    BY <1>3, <2>3, ImageDestroyed DEF made
  <2>5. ImagesOf(heap') = ImagesOf(heap) /\ ProfilesOf(heap') = ProfilesOf(heap)
    BY <2>1, <2>3, <2>4
  <2>6. \A j \in ImagesOf(heap) : heap'.images[j] = heap.images[j]
    BY <2>1, <2>3, <2>4 DEF ImagesOf
  <2>7. heap'.profiles["dstProfile"].content = heap.profiles["dstProfile"].content
    BY <2>3, <2>4 DEF ProfileSites
  <2>8. HeapInv'
    BY <1>1, <2>3, <2>4, <2>5, <2>6 DEF HeapInv, pointers
  <2> QED
    BY <2>7, <2>8
<1> QED
  BY <1>2, <1>3, ConvertAssumption DEF Stats

LEMMA CleanupKeeps ==
  ASSUME HeapInv, PointerInv, Cleanup
  PROVE  HeapInv' /\ heap'.profiles["dstProfile"].content = heap.profiles["dstProfile"].content
<1> DEFINE h1 == IF dstProfile = NULL THEN heap ELSE clProfileDestroy(heap, dstProfile)
           h2 == IF srcImage = NULL THEN h1 ELSE clImageDestroy(h1, srcImage)
           h3 == IF dstImage = NULL THEN h2 ELSE clImageDestroy(h2, dstImage)
           kept(i) == heap.images[i].profile
<1>1. /\ pc = "cleanup" /\ pc' = "done" /\ heap' = h3
      /\ srcImage' = NULL /\ dstImage' = NULL /\ dstProfile' = NULL /\ UNCHANGED overrideProfile
  BY DEF Cleanup, GoTo
<1>2. /\ srcImage \in {NULL, "read", "cropped", "resized"} /\ dstImage \in {NULL, "converted", "rotated"}
      /\ dstProfile \in {NULL, "dstProfile"} /\ overrideProfile = NULL
      /\ heap \in Heaps /\ ~heap.corrupt
  BY <1>1 DEF PointerInv, HeapInv
<1>3. NULL \notin {"read", "cropped", "resized", "converted", "rotated", "dstProfile", "overrideProfile"}
  BY NullAssumption DEF ImageSites, ProfileSites
<1>4. /\ ImagesOf(heap) = {srcImage, dstImage} \ {NULL}
      /\ ProfilesOf(heap) = {kept(i) : i \in {srcImage, dstImage} \ {NULL}} \cup ({dstProfile} \ {NULL})
      /\ \A i \in {srcImage, dstImage} \ {NULL} :
           kept(i) = i \/ (i = "read" /\ kept(i) = "overrideProfile")
  BY <1>1, <1>2 DEF HeapInv
<1>5. /\ h1 \in Heaps /\ ~h1.corrupt /\ ImagesOf(h1) = ImagesOf(heap) /\ h1.images = heap.images
      /\ ProfilesOf(h1) = {kept(i) : i \in {srcImage, dstImage} \ {NULL}}
      /\ \A q \in ProfileSites : h1.profiles[q].content = heap.profiles[q].content
  <2>1. CASE dstProfile = NULL
    BY <1>2, <1>4, <2>1
  <2>2. CASE dstProfile # NULL
    <3>1. dstProfile \in ProfilesOf(heap)
      BY <1>4, <2>2
    <3>2. \A i \in {srcImage, dstImage} \ {NULL} : kept(i) # dstProfile
      BY <1>2, <1>3, <1>4, <2>2
    <3> QED
      BY <1>2, <1>4, <2>2, <3>1, <3>2, ProfileDestroyed
  <2> QED
    BY <2>1, <2>2
<1> HIDE DEF h1
<1>6. /\ h2 \in Heaps /\ ~h2.corrupt /\ ImagesOf(h2) = {dstImage} \ {NULL}
      /\ ProfilesOf(h2) = {kept(i) : i \in {dstImage} \ {NULL}}
      /\ dstImage # NULL => h2.images[dstImage].profile = kept(dstImage)
      /\ \A q \in ProfileSites : h2.profiles[q].content = h1.profiles[q].content
  <2>1. CASE srcImage = NULL
    BY <1>4, <1>5, <2>1
  <2>2. CASE srcImage # NULL
    <3>1. /\ srcImage \in ImagesOf(h1) /\ h1.images[srcImage].profile = kept(srcImage)
          /\ kept(srcImage) \in ProfilesOf(h1)
      BY <1>4, <1>5, <2>2
    <3>2. /\ h2 \in Heaps /\ h2.corrupt = h1.corrupt
          /\ ProfilesOf(h2) = ProfilesOf(h1) \ {kept(srcImage)}
          /\ ImagesOf(h2) = ImagesOf(h1) \ {srcImage}
          /\ \A j \in ImageSites \ {srcImage} : h2.images[j] = h1.images[j]
          /\ \A q \in ProfileSites : h2.profiles[q].content = h1.profiles[q].content
      BY <1>5, <2>2, <3>1, ImageDestroyed
    <3>3. srcImage # dstImage /\ (dstImage # NULL => kept(srcImage) # kept(dstImage))
      BY <1>2, <1>3, <1>4, <2>2
    <3>4. dstImage # NULL => dstImage \in ImageSites \ {srcImage}
      BY <1>2, <3>3 DEF ImageSites
    <3> HIDE DEF h2
    <3> QED
      BY <1>4, <1>5, <2>2, <3>2, <3>3, <3>4
  <2> QED
    BY <2>1, <2>2
<1> HIDE DEF h2
<1>7. /\ h3 \in Heaps /\ ~h3.corrupt /\ ImagesOf(h3) = {} /\ ProfilesOf(h3) = {}
      /\ \A q \in ProfileSites : h3.profiles[q].content = h2.profiles[q].content
  <2>1. CASE dstImage = NULL
    BY <1>6, <2>1
  <2>2. CASE dstImage # NULL
    <3>1. dstImage \in ImagesOf(h2) /\ kept(dstImage) \in ProfilesOf(h2)
      BY <1>6, <2>2
    <3> QED
      BY <1>6, <2>2, <3>1, ImageDestroyed
  <2> QED
    BY <2>1, <2>2
<1> HIDE DEF h3
<1>8. heap'.profiles["dstProfile"].content = heap.profiles["dstProfile"].content
  BY <1>1, <1>5, <1>6, <1>7 DEF ProfileSites
<1>9. HeapInv'
  BY <1>1, <1>2, <1>7 DEF HeapInv
<1> QED
  BY <1>8, <1>9

-----------------------------------------------------------------------------
(* Every step keeps the invariant *)

LEMMA HeapStep == IInv /\ [Next]_vars => HeapInv'
<1> SUFFICES ASSUME HeapInv, PointerInv, InfoInv, [Next]_vars PROVE HeapInv'
  BY DEF IInv
<1>1. CASE FormatUnknown \/ OpenInput \/ WriteProfile \/ Query \/ OverrideDestination \/ Grade \/ Write
  <2>1. UNCHANGED <<heap, pointers>> /\ pc # "crashed" /\ pc' # "crashed"
    BY <1>1 DEF FormatUnknown, OpenInput, WriteProfile, Query, OverrideDestination, Grade, Write,
                GoTo, FAIL, ReturnFailure, WriteFailed, Exit
  <2> QED
    BY <2>1 DEF HeapInv, pointers
<1>2. CASE ReadOverride \/ Decode \/ AdoptOverride \/ EnforceLuminance \/ MakeProfile
  BY <1>2, ReadOverrideKeeps, DecodeKeeps, AdoptOverrideKeeps, EnforceLuminanceKeeps, MakeProfileKeeps
<1>3. CASE Crop
  <2>1. /\ pc = "dump" /\ pc' = "query" /\ UNCHANGED <<dstImage, dstProfile, overrideProfile>>
        /\ SourceReplaced(params.crop, "cropped", "crop")
    BY <1>3 DEF Crop, GoTo
  <2>2. srcImage = "read" /\ srcImage # NULL /\ dstImage = NULL /\ overrideProfile = NULL
    BY <2>1 DEF PointerInv, Writing, Ending
  <2> QED
    BY <2>1, <2>2, SourceReplacedKeeps
<1>4. CASE Resize
  <2>1. /\ pc = "resize" /\ pc' = "grade" /\ UNCHANGED <<dstImage, dstProfile, overrideProfile>>
        /\ SourceReplaced(params.resize, "resized", "resize")
    BY <1>4 DEF Resize, GoTo
  <2>2. srcImage \in {"read", "cropped"} /\ srcImage # NULL /\ dstImage = NULL /\ overrideProfile = NULL
    BY <2>1, NullAssumption DEF PointerInv, Choosing, Writing, Ending, ImageSites, ProfileSites
  <2> QED
    BY <2>1, <2>2, SourceReplacedKeeps
<1>5. CASE ReadDestination
  <2>1. CASE UNCHANGED <<heap, pointers>> /\ pc' # "crashed"
    BY <1>5, <2>1 DEF ReadDestination, HeapInv, pointers
  <2>2. ASSUME NEW content \in Contents, heap' = WithProfile(heap, "dstProfile", content),
               dstProfile' = "dstProfile", pc' = "resize",
               UNCHANGED <<srcImage, dstImage, overrideProfile>>
        PROVE  HeapInv'
    <3>1. pc = "destination" /\ content \in ProfileContents
      BY <1>5, ConvertAssumption DEF ReadDestination
    <3>2. dstProfile = NULL
      BY <3>1 DEF PointerInv
    <3> QED
      BY <2>2, <3>1, <3>2, DestinationKeeps
  <2> QED
    BY <1>5, <2>1, <2>2 DEF ReadDestination, GoTo, FAIL
<1>6. CASE Convert \/ Rotate \/ Stats \/ Cleanup
  BY <1>6, ConvertKeeps, RotateKeeps, StatsKeeps, CleanupKeeps
<1>7. CASE UNCHANGED vars
  BY <1>7 DEF vars, pointers, HeapInv
<1> QED
  BY <1>1, <1>2, <1>3, <1>4, <1>5, <1>6, <1>7 DEF Next, clContextRead, ChooseDestination

LEMMA PointerStep == IInv /\ [Next]_vars => PointerInv'
<1> SUFFICES ASSUME PointerInv, [Next]_vars PROVE PointerInv'
  BY DEF IInv
<1> USE DEF PointerInv, Stages, BeforeDecode, Reading, Choosing, Making, Writing, Ending, pointers,
            GoTo, FAIL, ReturnFailure, Crash, Exit
<1>0. NULL \notin {"read", "cropped", "resized", "converted", "rotated", "dstProfile", "overrideProfile"}
  BY NullAssumption DEF ImageSites, ProfileSites
<1>1. CASE FormatUnknown \/ OpenInput \/ Query \/ OverrideDestination \/ Grade
  BY <1>1 DEF FormatUnknown, OpenInput, Query, OverrideDestination, Grade
<1>2. CASE ReadOverride
  BY <1>0, <1>2 DEF ReadOverride
<1>3. CASE Decode \/ AdoptOverride
  BY <1>0, <1>3 DEF Decode, AdoptOverride
<1>4. CASE EnforceLuminance
  BY <1>0, <1>4 DEF EnforceLuminance, NoImage
<1>5. CASE WriteProfile \/ Write
  BY <1>5 DEF WriteProfile, Write, WriteFailed
<1>6. CASE Crop
  BY <1>0, <1>6 DEF Crop, SourceReplaced
<1>7. CASE Resize
  BY <1>0, <1>7 DEF Resize, SourceReplaced
<1>8. CASE ReadDestination
  BY <1>0, <1>8 DEF ReadDestination
<1>9. CASE MakeProfile
  BY <1>0, <1>9 DEF MakeProfile
<1>10. CASE Convert
  BY <1>0, <1>10 DEF Convert
<1>11. CASE Rotate
  BY <1>0, <1>11 DEF Rotate, Turned
<1>12. CASE Stats \/ Cleanup
  BY <1>12 DEF Stats, Cleanup
<1>13. CASE UNCHANGED vars
  BY <1>13 DEF vars
<1> QED
  BY <1>1, <1>2, <1>3, <1>4, <1>5, <1>6, <1>7, <1>8, <1>9, <1>10, <1>11, <1>12, <1>13
     DEF Next, clContextRead, ChooseDestination

LEMMA SourceStep == IInv /\ [Next]_vars => SourceInv'
<1> SUFFICES ASSUME PointerInv, SourceInv, [Next]_vars PROVE SourceInv'
  BY DEF IInv
<1> USE DEF SourceInv, BeforeDecode, Reading, infos, pointers, GoTo, FAIL, ReturnFailure, Crash, Exit
<1>1. CASE EnforceLuminance
  <2>1. overrideProfile' = NULL /\ pc' \notin BeforeDecode \cup Reading
    BY <1>1 DEF EnforceLuminance, NoImage, PointerInv
  <2> QED
    BY <2>1
<1>2. CASE FormatUnknown \/ ReadOverride \/ OpenInput \/ Decode \/ AdoptOverride
  BY <1>2 DEF FormatUnknown, ReadOverride, OpenInput, Decode, AdoptOverride
<1>3. CASE WriteProfile \/ Crop \/ Query \/ ReadDestination \/ OverrideDestination \/ Resize \/ Grade
  <2>1. overrideProfile' = NULL /\ pc' \notin BeforeDecode \cup Reading
    BY <1>3 DEF WriteProfile, Crop, Query, ReadDestination, OverrideDestination, Resize, Grade, PointerInv
  <2> QED
    BY <2>1
<1>4. CASE MakeProfile \/ Convert \/ Rotate \/ Write \/ Stats \/ Cleanup
  <2>1. overrideProfile' = NULL /\ pc' \notin BeforeDecode \cup Reading
    BY <1>4 DEF MakeProfile, Convert, Rotate, Write, WriteFailed, Stats, Cleanup, PointerInv
  <2> QED
    BY <2>1
<1>5. CASE UNCHANGED vars
  BY <1>5 DEF vars
<1> QED
  BY <1>1, <1>2, <1>3, <1>4, <1>5 DEF Next, clContextRead, ChooseDestination

LEMMA InfoStep == IInv /\ [Next]_vars => InfoInv'
<1> SUFFICES ASSUME HeapInv, PointerInv, InfoInv, [Next]_vars PROVE InfoInv'
  BY DEF IInv
<1>0. params' = params /\ params \in Options
  BY DEF Next, clContextRead, ChooseDestination, FormatUnknown, ReadOverride, OpenInput, Decode,
         AdoptOverride, EnforceLuminance, WriteProfile, Crop, Query, ReadDestination,
         OverrideDestination, Resize, Grade, MakeProfile, Convert, Rotate, Write, Stats, Cleanup,
         vars, InfoInv
<1> USE DEF Making, Writing, GoTo, FAIL, ReturnFailure, Crash, Exit, infos, pointers
<1>1. CASE FormatUnknown \/ ReadOverride \/ OpenInput \/ Decode \/ AdoptOverride
            \/ EnforceLuminance \/ WriteProfile \/ Crop \/ Cleanup
  <2>1. pc' \notin {"destination", "resize"} \cup Making \cup Writing
    BY <1>1 DEF FormatUnknown, ReadOverride, OpenInput, Decode, AdoptOverride, EnforceLuminance,
                NoImage, WriteProfile, Crop, Cleanup
  <2> QED
    BY <1>0, <2>1 DEF InfoInv
<1>2. CASE Query
  <2>1. srcImage # NULL /\ pc' = "destination"
    BY <1>2, NullAssumption DEF Query, PointerInv, Choosing, ImageSites, ProfileSites
  <2>2. ContentOf(heap, srcImage) \in ProfileContents
    BY <2>1, PointedIsLive, LiveProfileTyped DEF ContentOf, HeapInv
  <2>3. srcInfo' \in Infos
    BY <1>2, <2>2, ConvertAssumption DEF Query, Queried, ProfileContents
  <2>4. dstInfo' \in Infos
    <3>1. NoCurve \in Curves /\ CL_LUMINANCE_UNSPECIFIED \in Luminances
      BY DEF NoCurve, Curves, Luminances, CL_LUMINANCE_UNSPECIFIED
    <3>2. [srcInfo' EXCEPT !.curve = NoCurve, !.luminance = CL_LUMINANCE_UNSPECIFIED] \in Infos
      BY <2>3, <3>1 DEF Infos
    <3> QED
      BY <1>2, <2>3, <3>2 DEF Query
  <2> QED
    BY <1>0, <2>1, <2>4 DEF InfoInv
<1>3. CASE ReadDestination
  <2>1. dstInfo \in Infos
    BY <1>3 DEF ReadDestination, InfoInv
  <2>2. dstInfo' \in Infos /\ pc' # "convert"
    BY <1>3, <2>1, ConvertAssumption DEF ReadDestination, ProfileContents
  <2> QED
    BY <1>0, <2>2 DEF InfoInv
<1>4. CASE OverrideDestination
  <2>1. dstInfo \in Infos /\ params.profile \in ProfileOptions /\ pc' = "resize"
    BY <1>0, <1>4 DEF OverrideDestination, InfoInv, Options
  <2>2. Overridden(dstInfo, params.profile) \in Infos
    BY <2>1 DEF Overridden, Infos, ProfileOptions
  <2> QED
    BY <1>0, <1>4, <2>1, <2>2 DEF OverrideDestination, InfoInv
<1>5. CASE Grade
  <2>1. dstInfo \in Infos /\ pc' = "profile"
    BY <1>5 DEF Grade, InfoInv
  <2>2. CASE UNCHANGED dstInfo
    BY <1>0, <2>1, <2>2 DEF InfoInv
  <2>3. ASSUME NEW measured \in MeasuredLuminances, NEW found \in 1 .. 2,
               NEW luminance, luminance = IF dstInfo.luminance = 0 THEN measured ELSE dstInfo.luminance,
               NEW gamma, gamma = IF dstInfo.curve.gamma <= 0 THEN found ELSE dstInfo.curve.gamma,
               dstInfo' = [dstInfo EXCEPT !.luminance = luminance,
                                          !.curve = [type |-> "gamma", gamma |-> gamma]]
        PROVE  InfoInv'
    <3>1. luminance \in Luminances
      BY <2>1, <2>3, ConvertAssumption DEF Infos
    <3>2. gamma \in -1 .. 2
      BY <2>1, <2>3 DEF Infos, Curves
    <3>3. [type |-> "gamma", gamma |-> gamma] \in Curves
      BY <3>2 DEF Curves
    <3>4. dstInfo' \in Infos
      BY <2>1, <2>3, <3>1, <3>3 DEF Infos
    <3> QED
      BY <1>0, <2>1, <3>4 DEF InfoInv
  <2> QED
    BY <1>5, <2>2, <2>3 DEF Grade
<1>6. CASE MakeProfile
  <2>1. dstInfo \in Infos /\ dstInfo' = dstInfo
    BY <1>6 DEF MakeProfile, InfoInv
  <2>2. pc' = "convert" /\ dstProfile' = NULL => dstInfo.primaries = "collinear"
    BY <1>6, NullAssumption DEF MakeProfile, ProfileSites
  <2> QED
    BY <1>0, <2>1, <2>2 DEF InfoInv
<1>7. CASE Resize \/ Convert \/ Rotate \/ Write \/ Stats
  <2>1. dstInfo \in Infos /\ dstInfo' = dstInfo /\ pc' # "convert"
    BY <1>7 DEF Resize, Convert, Rotate, Write, WriteFailed, Stats, InfoInv
  <2> QED
    BY <1>0, <2>1 DEF InfoInv
<1>8. CASE UNCHANGED vars
  BY <1>8 DEF vars, InfoInv
<1> QED
  BY <1>1, <1>2, <1>3, <1>4, <1>5, <1>6, <1>7, <1>8 DEF Next, clContextRead, ChooseDestination

LEMMA ExitStep == IInv /\ [Next]_vars => ExitInv'
<1> SUFFICES ASSUME PointerInv, ExitInv, [Next]_vars PROVE ExitInv'
  BY DEF IInv
<1> USE DEF ExitInv, Choosing, Making, Writing, Ending, GoTo, FAIL, ReturnFailure, Crash, Exit
<1>1. CASE FormatUnknown \/ ReadOverride \/ OpenInput \/ Decode \/ AdoptOverride
  BY <1>1 DEF FormatUnknown, ReadOverride, OpenInput, Decode, AdoptOverride
<1>2. CASE EnforceLuminance
  BY <1>2 DEF EnforceLuminance, NoImage
<1>3. CASE WriteProfile
  BY <1>3 DEF WriteProfile
<1>4. CASE Crop \/ Query \/ Resize \/ Grade
  BY <1>4 DEF Crop, Query, Resize, Grade
<1>5. CASE ReadDestination \/ OverrideDestination
  BY <1>5 DEF ReadDestination, OverrideDestination
<1>6. CASE MakeProfile
  BY <1>6 DEF MakeProfile
<1>7. CASE Convert \/ Rotate
  BY <1>7 DEF Convert, Rotate
<1>8. CASE Write
  BY <1>8 DEF Write, WriteFailed, Pretended
<1>9. CASE Stats
  BY <1>9 DEF Stats
<1>10. CASE Cleanup
  BY <1>10 DEF Cleanup
<1>11. CASE UNCHANGED vars
  BY <1>11 DEF vars
<1> QED
  BY <1>1, <1>2, <1>3, <1>4, <1>5, <1>6, <1>7, <1>8, <1>9, <1>10, <1>11
     DEF Next, clContextRead, ChooseDestination

LEMMA CrashStep == IInv /\ [Next]_vars => CrashesKnown'
<1> SUFFICES ASSUME PointerInv, InfoInv, ExitInv, CrashesKnown, [Next]_vars PROVE CrashesKnown'
  BY DEF IInv
<1> USE DEF CrashesKnown, GoTo, FAIL, ReturnFailure, Crash, Exit
<1>1. CASE FormatUnknown \/ ReadOverride \/ OpenInput \/ Decode \/ AdoptOverride \/ WriteProfile
            \/ Crop \/ Query \/ ReadDestination \/ OverrideDestination \/ Resize \/ Grade
            \/ Rotate \/ Write \/ Cleanup
  BY <1>1 DEF FormatUnknown, ReadOverride, OpenInput, Decode, AdoptOverride, WriteProfile, Crop,
              Query, ReadDestination, OverrideDestination, Resize, Grade, Rotate, Write, WriteFailed,
              Cleanup
<1>2. CASE EnforceLuminance
  BY <1>2 DEF EnforceLuminance, NoImage, pointers
<1>3. CASE MakeProfile
  <2>1. dstInfo # NULL
    BY <1>3, NullAssumption DEF MakeProfile, InfoInv, Making
  <2> QED
    BY <1>3, <2>1 DEF MakeProfile, infos
<1>4. CASE Convert
  <2>1. dstInfo # NULL
    BY <1>4, NullAssumption DEF Convert, InfoInv, Making
  <2> QED
    BY <1>4, <2>1 DEF Convert, InfoInv, infos
<1>5. CASE Stats
  BY <1>5 DEF Stats, ExitInv
<1>6. CASE UNCHANGED vars
  BY <1>6 DEF vars, pointers, infos
<1> QED
  BY <1>1, <1>2, <1>3, <1>4, <1>5, <1>6 DEF Next, clContextRead, ChooseDestination

LEMMA RequestStep == IInv /\ [Next]_vars => RequestInv'
BY DEF IInv, RequestInv, Next, clContextRead, ChooseDestination, FormatUnknown, ReadOverride,
       OpenInput, Decode, AdoptOverride, EnforceLuminance, WriteProfile, Crop, Query,
       ReadDestination, OverrideDestination, Resize, Grade, MakeProfile, Convert, Rotate, Write,
       Stats, Cleanup, vars

LEMMA OpsTogether == RotateDone = ExpectedOps
BY DEF RotateDone, ConvertDone, ResizeDone, CropDone, ExpectedOps, OpIf

-----------------------------------------------------------------------------
(* What the image and the destination hold *)

\* What taking the place of the source does to operations and content.
LEMMA SourceReplacedContent ==
  ASSUME HeapInv, PointerInv, pc # "crashed", srcImage # NULL,
         NEW asked, NEW site \in {"cropped", "resized"}, site # srcImage,
         NEW op \in {"crop", "resize", "convert", "rotate"},
         SourceReplaced(asked, site, op)
  PROVE  /\ heap'.images[srcImage'].ops = IF asked THEN Append(heap.images[srcImage].ops, op)
                                                   ELSE heap.images[srcImage].ops
         /\ ContentOf(heap', srcImage') = ContentOf(heap, srcImage)
<1>1. CASE ~asked
  BY <1>1 DEF SourceReplaced, ContentOf
<1>2. CASE asked
  <2> DEFINE made == Derived(heap, site, srcImage, op)
  <2>1. /\ srcImage \in ImagesOf(heap) /\ srcImage \in ImageSites
        /\ heap.images[srcImage].profile \in ProfilesOf(heap)
    BY PointedIsLive
  <2>2. site \in ImageSites \ (ImagesOf(heap) \cup ProfilesOf(heap)) /\ site \in ProfileSites
    <3>1. site \in ImageSites \ {srcImage, dstImage} /\ site \in ProfileSites
      BY NullAssumption DEF PointerInv, ImageSites, ProfileSites
    <3> QED
      BY <3>1, PlaceIsFree
  <2>3. heap \in Heaps
    BY DEF HeapInv
  <2>4. /\ made \in Heaps
        /\ ProfilesOf(made) = ProfilesOf(heap) \cup {site}
        /\ ImagesOf(made) = ImagesOf(heap) \cup {site}
        /\ made.images[site].profile = site
        /\ made.images[site].ops = Append(heap.images[srcImage].ops, op)
        /\ \A k \in ImageSites \ {site} : made.images[k] = heap.images[k]
        /\ made.profiles[site].content = ContentOf(heap, srcImage)
    BY <2>1, <2>2, <2>3, ImageDerived, SMTT(60)
  <2>5. heap' = clImageDestroy(made, srcImage) /\ srcImage' = site
    BY <1>2 DEF SourceReplaced
  <2>6. srcImage \in ImagesOf(made) /\ made.images[srcImage].profile \in ProfilesOf(made)
    BY <2>1, <2>4
  <2> HIDE DEF made
  <2>7. /\ \A j \in ImageSites \ {srcImage} : heap'.images[j] = made.images[j]
        /\ \A q \in ProfileSites : heap'.profiles[q].content = made.profiles[q].content
    BY <2>4, <2>5, <2>6, ImageDestroyed
  <2>8. heap'.images[site] = made.images[site] /\ heap'.profiles[site].content = made.profiles[site].content
    BY <2>2, <2>7
  <2>9. heap'.images[srcImage'].ops = Append(heap.images[srcImage].ops, op)
    BY <2>4, <2>5, <2>8
  <2>10. ContentOf(heap', srcImage') = made.profiles[site].content
    BY <2>4, <2>5, <2>8 DEF ContentOf
  <2> QED
    BY <1>2, <2>4, <2>9, <2>10
<1> QED
  BY <1>1, <1>2

\* The converted image has the profile of the destination, if there is one.
LEMMA ConvertContent ==
  ASSUME HeapInv, PointerInv, Convert, pc' = "rotate"
  PROVE  /\ heap'.images[dstImage'].ops = Append(heap.images[srcImage].ops, "convert")
         /\ dstProfile # NULL => ContentOf(heap', dstImage') = heap.profiles["dstProfile"].content
         /\ heap'.profiles["dstProfile"] = heap.profiles["dstProfile"]
<1> DEFINE content == IF dstProfile = NULL THEN DefaultContent ELSE heap.profiles[dstProfile].content
           made == Derived(heap, "converted", srcImage, "convert")
<1>1. /\ pc = "convert" /\ dstImage' = "converted"
      /\ heap' = [made EXCEPT !.profiles["converted"].content = content]
  BY DEF Convert, GoTo, Crash
<1>2. /\ dstImage = NULL /\ srcImage \in {"read", "cropped", "resized"}
      /\ heap \in Heaps /\ dstProfile \in {NULL, "dstProfile"}
  BY <1>1 DEF PointerInv, Making, Writing, Ending, HeapInv
<1>3. "converted" \in ImageSites /\ "converted" # NULL /\ srcImage # NULL
      /\ "dstProfile" \in ProfileSites \ {"converted"}
  BY <1>2, NullAssumption DEF ImageSites, ProfileSites
<1>4. /\ srcImage \in ImagesOf(heap) /\ heap.images[srcImage].profile \in ProfilesOf(heap)
  BY <1>3, PointedIsLive
<1>5. "converted" \in ImageSites \ (ImagesOf(heap) \cup ProfilesOf(heap))
  BY <1>1, <1>2, <1>3, PlaceIsFree
<1>6. content \in ProfileContents
  <2>1. dstProfile # NULL => dstProfile \in ProfilesOf(heap)
    BY DEF HeapInv
  <2> QED
    BY <1>2, <2>1, LiveProfileTyped, ConvertAssumption
<1>7. /\ made \in Heaps
      /\ ProfilesOf(made) = ProfilesOf(heap) \cup {"converted"}
      /\ made.images["converted"].profile = "converted"
      /\ made.images["converted"].ops = Append(heap.images[srcImage].ops, "convert")
      /\ \A q \in ProfileSites \ {"converted"} : made.profiles[q] = heap.profiles[q]
  BY <1>2, <1>4, <1>5, ImageDerived, SMTT(90)
<1>8. dstProfile # NULL => content = heap.profiles["dstProfile"].content
  BY <1>2
<1> HIDE DEF made, content
<1>9. /\ heap'.images = made.images /\ heap'.profiles["converted"].content = content
      /\ \A q \in ProfileSites \ {"converted"} : heap'.profiles[q] = made.profiles[q]
  <2>1. "converted" \in ProfilesOf(made)
    BY <1>7
  <2> QED
    BY <1>1, <1>6, <1>7, <2>1, ContentChanged, SMTT(60)
<1>10. heap'.images[dstImage'].ops = Append(heap.images[srcImage].ops, "convert")
  BY <1>1, <1>7, <1>9
<1>11. heap'.images["converted"].profile = "converted"
  BY <1>7, <1>9
<1>12. ContentOf(heap', dstImage') = content
  BY <1>1, <1>9, <1>11 DEF ContentOf
<1>13. heap'.profiles["dstProfile"] = heap.profiles["dstProfile"]
  BY <1>3, <1>7, <1>9
<1> QED
  BY <1>8, <1>10, <1>12, <1>13

\* Turning the image keeps its content.
LEMMA RotateContent ==
  ASSUME HeapInv, PointerInv, Rotate
  PROVE  /\ heap'.images[dstImage'].ops = IF params.rotate THEN Append(heap.images[dstImage].ops, "rotate")
                                                          ELSE heap.images[dstImage].ops
         /\ ContentOf(heap', dstImage') = ContentOf(heap, dstImage)
         /\ heap'.profiles["dstProfile"].content = heap.profiles["dstProfile"].content
<1>1. pc = "rotate"
  BY DEF Rotate
<1>2. CASE ~params.rotate
  BY <1>2 DEF Rotate, ContentOf
<1>3. CASE params.rotate
  <2> DEFINE made == Derived(heap, "rotated", dstImage, "rotate")
  <2>1. dstImage = "converted" /\ srcImage \in {NULL, "read", "cropped", "resized"} /\ heap \in Heaps
    BY <1>1 DEF PointerInv, HeapInv
  <2>2. "rotated" \in ImageSites \ {srcImage, dstImage} /\ dstImage # NULL /\ dstImage # "rotated"
        /\ {"rotated", "dstProfile"} \subseteq ProfileSites
    BY <2>1, NullAssumption DEF ImageSites, ProfileSites
  <2>3. "rotated" \in ImageSites \ (ImagesOf(heap) \cup ProfilesOf(heap))
    BY <1>1, <2>2, PlaceIsFree
  <2>4. /\ dstImage \in ImagesOf(heap) /\ dstImage \in ImageSites
        /\ heap.images[dstImage].profile \in ProfilesOf(heap)
    BY <2>2, PointedIsLive
  <2>5. /\ made \in Heaps
        /\ ProfilesOf(made) = ProfilesOf(heap) \cup {"rotated"}
        /\ ImagesOf(made) = ImagesOf(heap) \cup {"rotated"}
        /\ made.images["rotated"].profile = "rotated"
        /\ made.images["rotated"].ops = Append(heap.images[dstImage].ops, "rotate")
        /\ \A k \in ImageSites \ {"rotated"} : made.images[k] = heap.images[k]
        /\ made.profiles["rotated"].content = ContentOf(heap, dstImage)
        /\ \A q \in ProfileSites \ {"rotated"} : made.profiles[q] = heap.profiles[q]
    BY <2>1, <2>3, <2>4, ImageDerived, SMTT(60)
  <2>6. heap' = clImageDestroy(made, dstImage) /\ dstImage' = "rotated"
    BY <1>3 DEF Rotate, Turned
  <2>7. dstImage \in ImagesOf(made) /\ made.images[dstImage].profile \in ProfilesOf(made)
    BY <2>2, <2>4, <2>5
  <2> HIDE DEF made
  <2>8. /\ \A j \in ImageSites \ {dstImage} : heap'.images[j] = made.images[j]
        /\ \A q \in ProfileSites : heap'.profiles[q].content = made.profiles[q].content
    BY <2>5, <2>6, <2>7, ImageDestroyed
  <2>9. heap'.images["rotated"] = made.images["rotated"]
        /\ heap'.profiles["rotated"].content = made.profiles["rotated"].content
    BY <2>2, <2>8
  <2>10. heap'.profiles["dstProfile"].content = heap.profiles["dstProfile"].content
    BY <2>2, <2>5, <2>8
  <2>11. heap'.images[dstImage'].ops = Append(heap.images[dstImage].ops, "rotate")
    BY <2>5, <2>6, <2>9
  <2>12. ContentOf(heap', dstImage') = made.profiles["rotated"].content
    BY <2>5, <2>6, <2>9 DEF ContentOf
  <2> QED
    BY <1>3, <2>5, <2>10, <2>11, <2>12
<1> QED
  BY <1>2, <1>3

\* A destination profile takes nothing from the images.
LEMMA DestinationContent ==
  ASSUME HeapInv, PointerInv, pc # "crashed", dstProfile = NULL, NEW content \in ProfileContents,
         heap' = WithProfile(heap, "dstProfile", content)
  PROVE  /\ heap'.images = heap.images
         /\ heap'.profiles["dstProfile"].content = content
         /\ srcImage # NULL => ContentOf(heap', srcImage) = ContentOf(heap, srcImage)
<1>1. "dstProfile" \in ProfileSites \ ProfilesOf(heap) /\ heap \in Heaps
  BY DEF HeapInv, PointerInv, ProfileSites, ImagesOf, ImageSites
<1>2. /\ heap'.images = heap.images /\ heap'.profiles["dstProfile"].content = content
      /\ \A q \in ProfileSites \ {"dstProfile"} : heap'.profiles[q] = heap.profiles[q]
  BY <1>1, ProfileMade
<1>3. srcImage # NULL => heap.images[srcImage].profile \in ProfileSites \ {"dstProfile"}
  BY <1>1, PointedIsLive DEF ProfilesOf
<1> QED
  BY <1>2, <1>3 DEF ContentOf

\* The image that was read went through nothing yet.
LEMMA DecodeOps ==
  ASSUME HeapInv, PointerInv, Decode
  PROVE  pc' = "override" /\ (srcImage' # NULL => heap'.images[srcImage'].ops = <<>>)
<1>1. pc = "decode" /\ pc' = "override" /\ srcImage = NULL
  BY DEF Decode, GoTo, PointerInv, BeforeDecode
<1>2. CASE UNCHANGED <<heap, srcImage>>
  BY <1>1, <1>2
<1>3. CASE /\ \E content \in Contents \cup {DefaultContent} :
                heap' = clImageCreate(heap, "read", content, <<>>)
           /\ srcImage' = "read"
  <2>1. PICK content \in ProfileContents : heap' = clImageCreate(heap, "read", content, <<>>)
    BY <1>3, ConvertAssumption
  <2>2. dstImage = NULL /\ heap \in Heaps /\ <<>> \in Ops
    BY <1>1 DEF PointerInv, Writing, Ending, HeapInv, Ops
  <2>3. "read" \in ImageSites /\ "read" # NULL
    BY NullAssumption DEF ImageSites, ProfileSites
  <2>4. "read" \in ImageSites \ (ImagesOf(heap) \cup ProfilesOf(heap))
    BY <1>1, <2>2, <2>3, PlaceIsFree
  <2>5. heap'.images["read"].ops = <<>>
    BY <2>1, <2>2, <2>4, ImageMade
  <2> QED
    BY <1>1, <1>3, <2>5
<1> QED
  BY <1>2, <1>3 DEF Decode

\* Another profile does not change what the image went through.
LEMMA AdoptOps ==
  ASSUME HeapInv, PointerInv, AdoptOverride, srcImage # NULL
  PROVE  heap'.images[srcImage].ops = heap.images[srcImage].ops
<1>1. srcImage \in ImagesOf(heap) /\ heap.images[srcImage].profile \in ProfilesOf(heap)
      /\ heap \in Heaps /\ srcImage \in ImageSites
  BY PointedIsLive DEF HeapInv
<1>2. CASE overrideProfile = NULL
  BY <1>2 DEF AdoptOverride
<1>3. CASE overrideProfile # NULL
  <2>1. overrideProfile \in ProfilesOf(heap)
    BY <1>3 DEF HeapInv
  <2>2. CASE heap' = clProfileDestroy(heap, overrideProfile)
    BY <1>1, <2>1, <2>2, ProfileDestroyed
  <2>3. CASE heap' = [clProfileDestroy(heap, heap.images[srcImage].profile)
                        EXCEPT !.images[srcImage].profile = overrideProfile]
    <3> DEFINE after == clProfileDestroy(heap, heap.images[srcImage].profile)
               object == [heap.images[srcImage] EXCEPT !.profile = overrideProfile]
    <3>1. after \in Heaps /\ after.images = heap.images
      BY <1>1, ProfileDestroyed
    <3>2. object.ops = heap.images[srcImage].ops
      BY <1>1, LiveImageTyped
    <3>3. heap' = [after EXCEPT !.images[srcImage] = object]
      <4>1. heap' = [after EXCEPT !.images[srcImage].profile = overrideProfile]
        BY <2>3
      <4> HIDE DEF after
      <4> QED
        BY <3>1, <4>1
    <3> HIDE DEF after, object
    <3>4. heap'.images = [after.images EXCEPT ![srcImage] = object]
      BY <3>1, <3>3 DEF Heaps
    <3>5. after.images \in [ImageSites -> ImageObjects]
      BY <3>1 DEF Heaps
    <3> QED
      BY <1>1, <3>2, <3>4, <3>5
  <2> QED
    BY <1>3, <2>2, <2>3 DEF AdoptOverride
<1> QED
  BY <1>2, <1>3

LEMMA EnforceImages ==
  ASSUME HeapInv, EnforceLuminance
  PROVE  heap'.images = heap.images
<1>1. CASE UNCHANGED heap
  BY <1>1
<1>2. CASE heap' = [heap EXCEPT !.profiles[heap.images[srcImage].profile].content.info.luminance =
                      DefaultLuminance]
  <2> DEFINE profiles == [heap.profiles EXCEPT ![heap.images[srcImage].profile].content.info.luminance =
                            DefaultLuminance]
  <2>1. heap' = [heap EXCEPT !.profiles = profiles]
    BY <1>2
  <2> HIDE DEF profiles
  <2> QED
    BY <2>1 DEF HeapInv, Heaps
<1> QED
  BY <1>1, <1>2 DEF EnforceLuminance

\* Where Crop, Resize, ReadDestination and MakeProfile find the source.
LEMMA CropIsAt ==
  ASSUME PointerInv, Crop
  PROVE  /\ pc = "dump" /\ pc' = "query" /\ SourceReplaced(params.crop, "cropped", "crop")
         /\ srcImage # NULL /\ srcImage # "cropped"
BY DEF PointerInv, Crop, GoTo, Reading

LEMMA ResizeIsAt ==
  ASSUME PointerInv, Resize
  PROVE  /\ pc = "resize" /\ pc' = "grade" /\ SourceReplaced(params.resize, "resized", "resize")
         /\ srcImage # NULL /\ srcImage # "resized"
BY NullAssumption DEF PointerInv, Resize, GoTo, Choosing, ImageSites, ProfileSites

LEMMA OpsStep == IInv /\ [Next]_vars => OpsInv'
<1> SUFFICES ASSUME HeapInv, PointerInv, InfoInv, RequestInv, OpsInv, [Next]_vars PROVE OpsInv'
  BY DEF IInv
<1>0. request' = request
  BY DEF Next, clContextRead, ChooseDestination, FormatUnknown, ReadOverride, OpenInput, Decode,
         AdoptOverride, EnforceLuminance, WriteProfile, Crop, Query, ReadDestination,
         OverrideDestination, Resize, Grade, MakeProfile, Convert, Rotate, Write, Stats, Cleanup, vars
<1> USE DEF Reading, Choosing, Making
<1>1. CASE FormatUnknown \/ ReadOverride \/ OpenInput \/ WriteProfile \/ Write \/ Stats \/ Cleanup
  <2>1. pc' \in {"cleanup", "open", "decode", "done", "stats", "crashed", "exited"}
    BY <1>1 DEF FormatUnknown, ReadOverride, OpenInput, WriteProfile, Write, WriteFailed, Stats,
                Cleanup, GoTo, FAIL, ReturnFailure, Crash, Exit
  <2> QED
    BY <2>1 DEF OpsInv
<1>2. CASE Decode
  BY <1>2, DecodeOps DEF OpsInv
<1>3. CASE AdoptOverride
  <2>1. pc = "override" /\ pc' = "enforce" /\ srcImage' = srcImage
    BY <1>3 DEF AdoptOverride, GoTo
  <2> QED
    BY <1>3, <2>1, AdoptOps DEF OpsInv
<1>4. CASE EnforceLuminance
  <2>1. pc = "enforce" /\ pc' \in {"dump", "done", "crashed"} /\ srcImage' = srcImage
    BY <1>4 DEF EnforceLuminance, NoImage, GoTo, ReturnFailure, Crash, pointers
  <2> QED
    BY <1>4, <2>1, EnforceImages DEF OpsInv
<1>5. CASE Crop
  <2>1. heap'.images[srcImage'].ops = IF params.crop THEN Append(<<>>, "crop") ELSE <<>>
    <3>1. heap.images[srcImage].ops = <<>>
      BY <1>5, CropIsAt DEF OpsInv
    <3>2. heap'.images[srcImage'].ops = IF params.crop THEN Append(heap.images[srcImage].ops, "crop")
                                                       ELSE heap.images[srcImage].ops
      BY <1>5, CropIsAt, SourceReplacedContent
    <3> QED
      BY <3>1, <3>2
  <2>2. heap'.images[srcImage'].ops = CropDone'
    BY <1>0, <2>1 DEF CropDone, RequestInv
  <2> QED
    BY <1>5, <2>2, CropIsAt DEF OpsInv
<1>6. CASE Query \/ OverrideDestination \/ Grade
  <2>1. /\ UNCHANGED <<heap, srcImage>>
        /\ \/ pc = "query" /\ pc' = "destination"
           \/ pc = "destination" /\ pc' = "resize"
           \/ pc = "grade" /\ pc' = "profile"
    BY <1>6 DEF Query, OverrideDestination, Grade, GoTo, pointers
  <2> QED
    BY <1>0, <2>1 DEF OpsInv, CropDone, ResizeDone
<1>7. CASE ReadDestination \/ MakeProfile
  <2>1. \/ pc' \in {"cleanup", "crashed"}
        \/ UNCHANGED <<heap, srcImage>> /\ pc = "profile" /\ pc' = "convert"
        \/ /\ heap'.images = heap.images /\ UNCHANGED srcImage
           /\ (pc = "destination" /\ pc' = "resize") \/ (pc = "profile" /\ pc' = "convert")
    <3>1. CASE ReadDestination
      <4>1. ASSUME NEW content \in Contents, heap' = WithProfile(heap, "dstProfile", content)
            PROVE  heap'.images = heap.images
        <5>1. pc = "destination" /\ content \in ProfileContents /\ dstProfile = NULL
          BY <3>1, ConvertAssumption DEF ReadDestination, PointerInv
        <5> QED
          BY <4>1, <5>1, DestinationContent
      <4> QED
        BY <3>1, <4>1 DEF ReadDestination, GoTo, FAIL
    <3>2. CASE MakeProfile
      <4>1. pc = "profile" /\ srcImage # NULL
        BY <3>2 DEF MakeProfile, PointerInv
      <4>2. ContentOf(heap, srcImage) \in ProfileContents
        BY <4>1, PointedIsLive, LiveProfileTyped DEF ContentOf, HeapInv
      <4>3. [info |-> dstInfo, queryable |-> TRUE] \in ProfileContents
        BY <4>1 DEF InfoInv, ProfileContents
      <4>4. ASSUME dstProfile = NULL, NEW content \in ProfileContents,
                   heap' = WithProfile(heap, "dstProfile", content)
            PROVE  heap'.images = heap.images
        BY <4>1, <4>4, DestinationContent
      <4> QED
        BY <3>2, <4>1, <4>2, <4>3, <4>4 DEF MakeProfile, GoTo, FAIL, Crash
    <3> QED
      BY <1>7, <3>1, <3>2
  <2> QED
    BY <1>0, <2>1 DEF OpsInv, CropDone, ResizeDone
<1>8. CASE Resize
  <2>1. heap'.images[srcImage'].ops = IF params.resize THEN Append(CropDone, "resize") ELSE CropDone
    BY <1>8, ResizeIsAt, SourceReplacedContent DEF OpsInv
  <2>2. heap'.images[srcImage'].ops = ResizeDone'
    BY <1>0, <2>1 DEF ResizeDone, CropDone, RequestInv
  <2> QED
    BY <1>8, <2>2, ResizeIsAt DEF OpsInv
<1>9. CASE Convert
  <2>1. pc = "convert" /\ pc' \in {"rotate", "crashed"}
    BY <1>9 DEF Convert, GoTo, Crash
  <2>2. CASE pc' = "rotate"
    <3>1. heap'.images[dstImage'].ops = Append(ResizeDone, "convert")
      BY <1>9, <2>1, <2>2, ConvertContent DEF OpsInv
    <3> QED
      BY <1>0, <2>2, <3>1 DEF OpsInv, ConvertDone, ResizeDone, CropDone
  <2> QED
    BY <2>1, <2>2 DEF OpsInv
<1>10. CASE Rotate
  <2>1. pc = "rotate" /\ pc' = "write"
    BY <1>10 DEF Rotate, GoTo
  <2>2. heap'.images[dstImage'].ops = IF params.rotate THEN Append(ConvertDone, "rotate") ELSE ConvertDone
    BY <1>10, <2>1, RotateContent DEF OpsInv
  <2>3. heap'.images[dstImage'].ops = RotateDone'
    BY <1>0, <2>2 DEF RotateDone, ConvertDone, ResizeDone, CropDone, RequestInv
  <2> QED
    BY <2>1, <2>3 DEF OpsInv
<1>11. CASE UNCHANGED vars
  BY <1>0, <1>11 DEF vars, pointers, OpsInv, RotateDone, ConvertDone, ResizeDone, CropDone
<1> QED
  BY <1>1, <1>2, <1>3, <1>4, <1>5, <1>6, <1>7, <1>8, <1>9, <1>10, <1>11
     DEF Next, clContextRead, ChooseDestination

\* What -p, -g, -l and -a make of a source is what is expected of them.
LEMMA GradeContent ==
  ASSUME HeapInv, PointerInv, InfoInv, RequestInv, ContentInv, Grade, Derivable
  PROVE  dstInfo' = ExpectedInfo'
<1> USE DEF CL_LUMINANCE_UNSPECIFIED
<1>1. /\ pc = "grade" /\ srcImage # NULL /\ graded = NULL
      /\ dstInfo = Overridden(Kept, params.profile)
      /\ request' = request /\ source' = source /\ ContentOf(heap, srcImage) = source
  BY DEF Grade, PointerInv, ContentInv, BeforeGrade, Choosing, Making
<1>2. source.info \in Infos
  BY <1>1, PointedIsLive, LiveProfileTyped DEF ContentOf, HeapInv, ProfileContents
<1>3. /\ params.profile \in ProfileOptions /\ request.profile \in ProfileOptions
      /\ params.profile.primaries = request.profile.primaries
      /\ params.profile.curve = request.profile.curve
      /\ params.profile.luminance = request.profile.luminance
  BY DEF InfoInv, RequestInv, Options, Derivable
<1>4. /\ request.profile.luminance \in Luminances /\ request.profile.curve \in Curves
      /\ request.profile.curve.gamma \in -1 .. 2
  BY <1>3 DEF ProfileOptions, Curves
<1> DEFINE asked == request.profile
<1>5. /\ dstInfo.primaries = IF asked.primaries = "source" THEN Kept.primaries ELSE asked.primaries
      /\ dstInfo.curve = IF asked.curve.gamma > 0 THEN asked.curve ELSE Kept.curve
      /\ dstInfo.luminance = IF asked.luminance >= 0 THEN asked.luminance ELSE Kept.luminance
      /\ dstInfo \in Infos
  BY <1>1, <1>3 DEF Overridden, InfoInv, Making
<1>6. ExpectedInfo' =
        [primaries |-> IF asked.primaries = "source" THEN source.info.primaries ELSE asked.primaries,
         curve |-> IF Overruled' THEN OverruledCurve' ELSE AskedCurve',
         luminance |-> IF Overruled' THEN graded'.luminance ELSE AskedLuminance']
  BY <1>1 DEF ExpectedInfo, Asked
<1>7. CASE ~params.profile.autoGrade
  <2>1. graded' = NULL /\ dstInfo' = dstInfo /\ Kept = source.info
    BY <1>1, <1>7 DEF Grade, Kept
  <2>2. AskedCurve' = IF asked.curve.gamma > 0 THEN asked.curve ELSE source.info.curve
    BY <1>1, <1>4, <2>1 DEF AskedCurve, Asked
  <2>3. AskedLuminance' = IF asked.luminance >= 0 THEN asked.luminance ELSE source.info.luminance
    BY <1>1, <1>4, <2>1 DEF AskedLuminance, Asked, Luminances
  <2>4. ~Overruled'
    BY <2>1 DEF Overruled
  <2> QED
    BY <1>5, <1>6, <2>1, <2>2, <2>3, <2>4 DEF Infos
<1>8. CASE params.profile.autoGrade
  <2>1. PICK measured \in MeasuredLuminances, found \in 1 .. 2 :
          LET luminance == IF dstInfo.luminance = 0 THEN measured ELSE dstInfo.luminance
              gamma == IF dstInfo.curve.gamma <= 0 THEN found ELSE dstInfo.curve.gamma
          IN  /\ graded' = [luminance |-> luminance, gamma |-> gamma]
              /\ dstInfo' = [dstInfo EXCEPT
                   !.luminance = luminance, !.curve = [type |-> "gamma", gamma |-> gamma]]
    BY <1>8 DEF Grade
  <2>2. Kept = [source.info EXCEPT !.curve = NoCurve, !.luminance = 0]
    BY <1>8 DEF Kept
  <2>3. Kept.primaries = source.info.primaries /\ Kept.curve = NoCurve /\ Kept.luminance = 0
    BY <1>2, <2>2 DEF Infos
  <2> DEFINE luminance == IF dstInfo.luminance = 0 THEN measured ELSE dstInfo.luminance
             gamma == IF dstInfo.curve.gamma <= 0 THEN found ELSE dstInfo.curve.gamma
  <2>4. gamma = IF asked.curve.gamma > 0 THEN asked.curve.gamma ELSE found
    BY <1>4, <1>5, <2>3 DEF NoCurve
  <2>5. luminance = IF asked.luminance > 0 THEN asked.luminance ELSE measured
    BY <1>4, <1>5, <2>3 DEF Luminances
  <2>6. luminance \in Luminances /\ gamma \in -1 .. 2
    BY <1>4, <2>4, <2>5, ConvertAssumption
  <2>7. /\ graded' = [luminance |-> luminance, gamma |-> gamma]
        /\ dstInfo' = [dstInfo EXCEPT !.luminance = luminance,
                                      !.curve = [type |-> "gamma", gamma |-> gamma]]
    BY <2>1
  <2> HIDE DEF luminance, gamma
  <2>8. graded' # NULL /\ graded'.luminance = luminance /\ graded'.gamma = gamma
    BY <2>6, <2>7, NullAssumption
  <2>9. /\ Overruled' => OverruledCurve' = [type |-> "gamma", gamma |-> gamma]
        /\ Overruled' <=> asked.luminance = 0
    BY <1>1, <2>4, <2>8 DEF Overruled, OverruledCurve, Asked
  <2>10. dstInfo' = [primaries |-> dstInfo.primaries, curve |-> [type |-> "gamma", gamma |-> gamma],
                     luminance |-> luminance]
    BY <1>5, <2>7 DEF Infos
  <2>11. CASE ~Overruled'
    <3>1. asked.luminance # 0 /\ asked.curve.gamma = 0
      BY <1>8, <2>9, <2>11 DEF RequestInv, Derivable
    <3>2. AskedCurve' = [type |-> "gamma", gamma |-> gamma]
      BY <1>1, <2>4, <2>8, <3>1 DEF AskedCurve, Asked
    <3>3. AskedLuminance' = luminance
      BY <1>1, <1>4, <2>5, <2>8, <3>1 DEF AskedLuminance, Asked, Luminances, CL_LUMINANCE_SOURCE
    <3>4. ExpectedInfo' = [primaries |-> IF asked.primaries = "source" THEN source.info.primaries
                                         ELSE asked.primaries,
                           curve |-> [type |-> "gamma", gamma |-> gamma], luminance |-> luminance]
      BY <1>6, <2>11, <3>2, <3>3
    <3> QED
      BY <1>5, <2>3, <2>10, <3>4
  <2>12. CASE Overruled'
    <3>1. ExpectedInfo' = [primaries |-> IF asked.primaries = "source" THEN source.info.primaries
                                         ELSE asked.primaries,
                           curve |-> [type |-> "gamma", gamma |-> gamma], luminance |-> luminance]
      BY <1>6, <2>8, <2>9, <2>12
    <3> QED
      BY <1>5, <2>3, <2>10, <3>1
  <2> QED
    BY <2>11, <2>12
<1> QED
  BY <1>7, <1>8

\* The destination profile, cloned or made, says what is expected.
LEMMA MakeProfileContent ==
  ASSUME HeapInv, PointerInv, InfoInv, ContentInv, MakeProfile, pc' = "convert"
  PROVE  /\ ContentOf(heap', srcImage) = ContentOf(heap, srcImage)
         /\ dstProfile # NULL => dstProfile' # NULL
         /\ Derivable /\ ExpectedInfo.primaries # "collinear" =>
              dstProfile' # NULL /\ heap'.profiles["dstProfile"].content.info = ExpectedInfo
<1>1. /\ pc = "profile" /\ srcImage # NULL /\ ContentOf(heap, srcImage) = source
      /\ Derivable => dstProfile = NULL /\ dstInfo = ExpectedInfo /\ srcInfo = source.info
  BY DEF MakeProfile, PointerInv, ContentInv, Making, Derivable
<1>2. /\ ContentOf(heap, srcImage) \in ProfileContents
      /\ [info |-> dstInfo, queryable |-> TRUE] \in ProfileContents
  BY <1>1, PointedIsLive, LiveProfileTyped DEF ContentOf, HeapInv, InfoInv, Making, ProfileContents
<1>3. "dstProfile" # NULL
  BY NullAssumption DEF ProfileSites
<1>4. ASSUME dstProfile = NULL, NEW content \in ProfileContents,
             heap' = WithProfile(heap, "dstProfile", content)
      PROVE  /\ heap'.profiles["dstProfile"].content = content
             /\ ContentOf(heap', srcImage) = ContentOf(heap, srcImage)
  BY <1>1, <1>4, DestinationContent
<1>5. CASE dstProfile # NULL
  <2>1. heap' = heap /\ dstProfile' = dstProfile
    BY <1>5 DEF MakeProfile
  <2> QED
    BY <1>1, <1>5, <2>1 DEF ContentOf
<1>6. CASE dstProfile = NULL /\ Unchanged(srcInfo, dstInfo, params.profile)
  <2>1. heap' = WithProfile(heap, "dstProfile", ContentOf(heap, srcImage)) /\ dstProfile' = "dstProfile"
    BY <1>6 DEF MakeProfile
  <2>2. srcInfo = dstInfo
    BY <1>6 DEF Unchanged
  <2> QED
    BY <1>1, <1>2, <1>3, <1>4, <1>6, <2>1, <2>2
<1>7. CASE dstProfile = NULL /\ dstInfo.primaries = "collinear"
           /\ heap' = heap /\ dstProfile' = dstProfile
  BY <1>1, <1>7 DEF ContentOf
<1>8. CASE /\ dstProfile = NULL /\ dstProfile' = "dstProfile"
           /\ heap' = WithProfile(heap, "dstProfile", [info |-> dstInfo, queryable |-> TRUE])
  <2> DEFINE content == [info |-> dstInfo, queryable |-> TRUE]
  <2>1. content \in ProfileContents /\ content.info = dstInfo
    BY <1>2
  <2> HIDE DEF content
  <2>2. heap' = WithProfile(heap, "dstProfile", content)
    BY <1>8 DEF content
  <2> QED
    BY <1>1, <1>3, <1>4, <1>8, <2>1, <2>2
<1> QED
  BY <1>5, <1>6, <1>7, <1>8 DEF MakeProfile, FAIL

LEMMA ContentStep == IInv /\ [Next]_vars => ContentInv'
<1> SUFFICES ASSUME HeapInv, PointerInv, InfoInv, RequestInv, ContentInv, [Next]_vars PROVE ContentInv'
  BY DEF IInv
<1>0. request' = request /\ params' = params
  BY DEF Next, clContextRead, ChooseDestination, FormatUnknown, ReadOverride, OpenInput, Decode,
         AdoptOverride, EnforceLuminance, WriteProfile, Crop, Query, ReadDestination,
         OverrideDestination, Resize, Grade, MakeProfile, Convert, Rotate, Write, Stats, Cleanup, vars
<1>1. source' = source => Kept' = Kept /\ Derivable' = Derivable
  BY <1>0 DEF Kept, Derivable
<1>2. source' = source /\ graded' = graded => ExpectedInfo' = ExpectedInfo
  BY <1>0 DEF ExpectedInfo, Overruled, OverruledCurve, AskedCurve, AskedLuminance, Asked
<1> USE DEF Reading, Choosing, Making, Writing, BeforeGrade, BeforeDecode
<1>3. CASE FormatUnknown \/ ReadOverride \/ OpenInput \/ Decode \/ AdoptOverride
  <2>1. /\ pc \in BeforeDecode \cup Reading /\ graded' = graded
        /\ pc' \in {"cleanup", "open", "decode", "override", "enforce", "done"}
    BY <1>3 DEF FormatUnknown, ReadOverride, OpenInput, Decode, AdoptOverride, infos, GoTo, FAIL,
                ReturnFailure
  <2> QED
    BY <2>1 DEF ContentInv
<1>4. CASE EnforceLuminance
  <2>1. /\ pc = "enforce" /\ graded' = graded /\ srcImage' = srcImage
        /\ pc' \in {"dump", "done", "crashed"}
        /\ pc' = "dump" => source' = heap'.profiles[heap.images[srcImage].profile].content
    BY <1>4 DEF EnforceLuminance, NoImage, GoTo, ReturnFailure, Crash, pointers
  <2>2. pc' = "dump" => ContentOf(heap', srcImage') = source'
    BY <1>4, <2>1, EnforceImages DEF ContentOf
  <2>3. graded = NULL
    BY <2>1 DEF ContentInv
  <2> QED
    BY <2>1, <2>2, <2>3 DEF ContentInv
<1>5. CASE WriteProfile \/ Stats \/ Cleanup
  <2>1. pc' \in {"cleanup", "done", "crashed"}
    BY <1>5 DEF WriteProfile, Stats, Cleanup, GoTo, FAIL, Crash
  <2> QED
    BY <2>1 DEF ContentInv
<1>6. CASE Crop
  <2>1. /\ pc = "dump" /\ pc' = "query" /\ source' = source /\ graded' = graded
        /\ ContentOf(heap', srcImage') = ContentOf(heap, srcImage)
    <3>1. ContentOf(heap', srcImage') = ContentOf(heap, srcImage)
      BY <1>6, CropIsAt, SourceReplacedContent
    <3> QED
      BY <1>6, <3>1, CropIsAt DEF Crop, infos
  <2> QED
    BY <2>1 DEF ContentInv
<1>7. CASE Query
  <2>1. /\ pc = "query" /\ pc' = "destination" /\ source' = source /\ graded' = graded
        /\ UNCHANGED <<heap, srcImage>> /\ srcInfo' \in Queried(ContentOf(heap, srcImage))
    BY <1>7 DEF Query, GoTo, pointers
  <2>2. ContentOf(heap, srcImage) = source
    BY <2>1 DEF ContentInv
  <2>3. source.queryable => srcInfo' = source.info
    BY <2>1, <2>2 DEF Queried
  <2>4. source.queryable => dstInfo' = Kept
    BY <1>7, <2>3 DEF Query, Kept
  <2> QED
    BY <1>1, <2>1, <2>2, <2>3, <2>4 DEF ContentInv
<1>8. CASE ReadDestination
  <2>1. /\ pc = "destination" /\ source' = source /\ graded' = graded
        /\ srcInfo' = srcInfo /\ srcImage' = srcImage /\ params.iccOverrideOut
        /\ pc' = "cleanup" \/ (pc' = "resize" /\ dstProfile' = "dstProfile")
    BY <1>8 DEF ReadDestination, GoTo, FAIL, infos, pointers
  <2>2. dstProfile = NULL /\ srcImage # NULL /\ "dstProfile" # NULL
    BY <2>1, NullAssumption DEF PointerInv, ImageSites, ProfileSites
  <2>3. pc' = "resize" => ContentOf(heap', srcImage') = source
    <3>1. ASSUME pc' = "resize"
          PROVE  \E content \in ProfileContents : heap' = WithProfile(heap, "dstProfile", content)
      BY <1>8, <3>1, ConvertAssumption DEF ReadDestination, FAIL
    <3>2. ContentOf(heap, srcImage) = source
      BY <2>1 DEF ContentInv
    <3> QED
      BY <2>1, <2>2, <3>1, <3>2, DestinationContent
  <2> QED
    BY <1>0, <2>1, <2>2, <2>3 DEF ContentInv, Derivable
<1>9. CASE OverrideDestination
  <2>1. /\ pc = "destination" /\ pc' = "resize" /\ ~params.iccOverrideOut
        /\ source' = source /\ graded' = graded /\ srcInfo' = srcInfo
        /\ UNCHANGED <<heap, srcImage, dstProfile>>
        /\ dstInfo' = Overridden(dstInfo, params.profile)
    BY <1>9 DEF OverrideDestination, GoTo, pointers
  <2>2. dstProfile = NULL
    BY <2>1 DEF PointerInv
  <2>3. source.queryable => dstInfo' = Overridden(Kept, params.profile)
    BY <2>1 DEF ContentInv
  <2> QED
    BY <1>0, <1>1, <2>1, <2>2, <2>3 DEF ContentInv, Derivable
<1>10. CASE Resize
  <2>1. /\ pc = "resize" /\ pc' = "grade" /\ UNCHANGED <<srcInfo, dstInfo, source, graded, dstProfile>>
        /\ ContentOf(heap', srcImage') = ContentOf(heap, srcImage)
    <3>1. ContentOf(heap', srcImage') = ContentOf(heap, srcImage)
      BY <1>10, ResizeIsAt, SourceReplacedContent
    <3> QED
      BY <1>10, <3>1, ResizeIsAt DEF Resize, infos
  <2> QED
    BY <1>0, <1>1, <2>1 DEF ContentInv
<1>11. CASE Grade
  <2>1. /\ pc = "grade" /\ pc' = "profile" /\ UNCHANGED <<srcInfo, source, dstProfile, heap, srcImage>>
    BY <1>11 DEF Grade, GoTo, pointers
  <2>2. Derivable' => dstInfo' = ExpectedInfo'
    BY <1>1, <1>11, <2>1, GradeContent
  <2> QED
    BY <1>0, <2>1, <2>2 DEF ContentInv
<1>12. CASE MakeProfile
  <2>1. /\ pc = "profile" /\ UNCHANGED <<srcInfo, source, graded, srcImage>>
        /\ pc' \in {"convert", "cleanup", "crashed"}
    BY <1>12 DEF MakeProfile, GoTo, FAIL, Crash, infos
  <2> QED
    BY <1>0, <1>1, <1>2, <1>12, <2>1, MakeProfileContent DEF ContentInv
<1>13. CASE Convert
  <2>1. /\ pc = "convert" /\ UNCHANGED <<source, graded, dstProfile>> /\ pc' \in {"rotate", "crashed"}
    BY <1>13 DEF Convert, GoTo, Crash, infos
  <2> QED
    BY <1>0, <1>1, <1>2, <1>13, <2>1, ConvertContent DEF ContentInv
<1>14. CASE Rotate
  <2>1. /\ pc = "rotate" /\ UNCHANGED <<source, graded, dstProfile>> /\ pc' = "write"
    BY <1>14 DEF Rotate, GoTo, infos
  <2> QED
    BY <1>0, <1>1, <1>2, <1>14, <2>1, RotateContent DEF ContentInv
<1>15. CASE Write
  <2>1. /\ pc = "write" /\ UNCHANGED <<heap, source, graded, dstProfile>> /\ pc' \in {"stats", "cleanup", "exited"}
    BY <1>15 DEF Write, WriteFailed, GoTo, FAIL, Exit, infos, pointers
  <2> QED
    BY <1>0, <2>1 DEF ContentInv
<1>16. CASE UNCHANGED vars
  BY <1>0, <1>1, <1>2, <1>16 DEF vars, pointers, infos, ContentInv
<1> QED
  BY <1>3, <1>4, <1>5, <1>6, <1>7, <1>8, <1>9, <1>10, <1>11, <1>12, <1>13, <1>14, <1>15, <1>16
     DEF Next, clContextRead, ChooseDestination

LEMMA FileStep == IInv /\ [Next]_vars => FileAsAsked'
<1> SUFFICES ASSUME HeapInv, PointerInv, ExitInv, RequestInv, OpsInv, ContentInv, FileAsAsked,
                    [Next]_vars, file'.kind = "image"
             PROVE  /\ file'.ops = ExpectedOps'
                    /\ request'.iccOverrideOut => file'.content = heap'.profiles["dstProfile"].content
                    /\ ~request'.iccOverrideOut /\ source'.queryable
                         /\ ExpectedInfo'.primaries # "collinear" => file'.content.info = ExpectedInfo'
  BY DEF IInv, FileAsAsked
<1>0. request' = request
  BY DEF Next, clContextRead, ChooseDestination, FormatUnknown, ReadOverride, OpenInput, Decode,
         AdoptOverride, EnforceLuminance, WriteProfile, Crop, Query, ReadDestination,
         OverrideDestination, Resize, Grade, MakeProfile, Convert, Rotate, Write, Stats, Cleanup, vars
<1>1. ExpectedOps' = ExpectedOps
  BY <1>0 DEF ExpectedOps
<1>2. source' = source /\ graded' = graded => ExpectedInfo' = ExpectedInfo
  BY <1>0 DEF ExpectedInfo, Overruled, OverruledCurve, AskedCurve, AskedLuminance, Asked
<1>3. CASE FormatUnknown \/ clContextRead \/ Crop \/ Query \/ ChooseDestination \/ Resize \/ Grade
            \/ MakeProfile \/ Convert \/ Rotate
  <2>1. file' = file /\ pc \notin {"stats"} \cup Ending
    BY <1>3 DEF clContextRead, ChooseDestination, FormatUnknown, ReadOverride, OpenInput, Decode,
                AdoptOverride, EnforceLuminance, Crop, Query, ReadDestination, OverrideDestination,
                Resize, Grade, MakeProfile, Convert, Rotate, Ending
  <2> QED
    BY <2>1 DEF ExitInv
<1>4. CASE WriteProfile
  <2>1. pc = "dump" /\ (file' = file \/ file'.kind \in {"partial", "icc"})
    BY <1>4 DEF WriteProfile
  <2> QED
    BY <2>1 DEF ExitInv, Ending
<1>5. CASE Write
  <2>0. pc = "write" /\ file.kind = "none"
    BY <1>5 DEF Write, ExitInv, Ending
  <2>1. /\ pc = "write" /\ UNCHANGED <<heap, source, graded>>
        /\ file' = [kind |-> "image", content |-> ContentOf(heap, dstImage),
                    ops |-> heap.images[dstImage].ops]
    BY <1>5, <2>0 DEF Write, Pretended, infos
  <2>2. file'.ops = ExpectedOps
    BY <2>1, OpsTogether DEF OpsInv
  <2>3. file'.content = ContentOf(heap, dstImage)
    BY <2>1
  <2>4. dstProfile # NULL => file'.content = heap.profiles["dstProfile"].content
    BY <2>1, <2>3 DEF ContentInv
  <2>5. params.iccOverrideOut = request.iccOverrideOut
    BY DEF RequestInv
  <2>6. request.iccOverrideOut => dstProfile # NULL
    BY <2>1, <2>5 DEF ContentInv, Writing
  <2>7. ~request.iccOverrideOut /\ source.queryable /\ ExpectedInfo.primaries # "collinear" =>
          dstProfile # NULL /\ heap.profiles["dstProfile"].content.info = ExpectedInfo
    BY <2>1, <2>5 DEF ContentInv, Derivable
  <2> QED
    BY <1>0, <1>1, <1>2, <2>1, <2>2, <2>4, <2>6, <2>7
<1>6. CASE Stats \/ Cleanup
  <2>1. UNCHANGED <<source, graded, file>>
    BY <1>6 DEF Stats, Cleanup, infos
  <2>2. heap'.profiles["dstProfile"].content = heap.profiles["dstProfile"].content
    BY <1>6, StatsKeeps, CleanupKeeps
  <2> QED
    BY <1>0, <1>1, <1>2, <2>1, <2>2 DEF FileAsAsked
<1>7. CASE UNCHANGED vars
  BY <1>0, <1>1, <1>2, <1>7 DEF vars, infos, FileAsAsked
<1> QED
  BY <1>3, <1>4, <1>5, <1>6, <1>7 DEF Next

LEMMA StepInv == IInv /\ [Next]_vars => IInv'
BY HeapStep, PointerStep, SourceStep, InfoStep, ExitStep, CrashStep, RequestStep, OpsStep,
   ContentStep, FileStep DEF IInv

-----------------------------------------------------------------------------
(* Theorems *)

\* The invariant holds in every reachable state.
THEOREM Invariance == Spec => []IInv
BY InitInv, StepInv, PTL DEF Spec

\* clContextConvert and clContextRead never free twice, use what was freed or build over
\* what is there, for any command line, any files and any failure.
THEOREM HeapIsSafe == Spec => []MemorySafe
<1>1. IInv => MemorySafe
  <2> SUFFICES ASSUME HeapInv, PointerInv PROVE MemorySafe
    BY DEF IInv
  <2>1. LiveImages = ImagesOf(heap) /\ LiveProfiles = ProfilesOf(heap)
    BY DEF LiveImages, LiveProfiles, ImagesOf, ProfilesOf, LiveAt
  <2>2. \A i \in ImagesOf(heap) : heap.images[i].profile \in ProfilesOf(heap)
    BY DEF HeapInv
  <2>3. \A i \in ImagesOf(heap) : heap.images[i].profile \notin {dstProfile, overrideProfile}
    BY NullAssumption DEF HeapInv, PointerInv, ImagesOf, ImageSites, ProfileSites
  <2>4. \A i, j \in ImagesOf(heap) : i # j => heap.images[i].profile # heap.images[j].profile
    BY DEF HeapInv, ImagesOf, ImageSites
  <2>5. {dstProfile, overrideProfile} \ {NULL} \subseteq ProfilesOf(heap)
    BY DEF HeapInv
  <2>6. ~heap.corrupt /\ {srcImage, dstImage} \ {NULL} \subseteq ImagesOf(heap)
    BY DEF HeapInv
  <2> QED
    BY <2>1, <2>2, <2>3, <2>4, <2>5, <2>6 DEF MemorySafe
<1> QED
  BY <1>1, Invariance, PTL

\* When the command ends, every image and profile it made is freed, but for the override
\* profile of an input that was not read.
THEOREM EverythingIsFreed == Spec => []NoLeak
<1>1. IInv => NoLeak
  <2> SUFFICES ASSUME HeapInv, PointerInv, SourceInv, pc = "done" PROVE
        LiveImages = {} /\ LiveProfiles = {overrideProfile} \ {NULL}
        /\ (overrideProfile # NULL => source = NULL)
    BY DEF IInv, NoLeak
  <2>1. LiveImages = ImagesOf(heap) /\ LiveProfiles = ProfilesOf(heap)
    BY DEF LiveImages, LiveProfiles, ImagesOf, ProfilesOf, LiveAt
  <2>2. srcImage = NULL /\ dstImage = NULL /\ dstProfile = NULL
    BY DEF PointerInv
  <2> QED
    BY <2>1, <2>2 DEF HeapInv, SourceInv
<1> QED
  BY <1>1, Invariance, PTL

\* An exit code that is not 0 says that no complete output was written, and 0 that one was,
\* but for the errors that are not reported, each with what it leaves.
THEOREM ExitCodeIsRight == Spec => []ExitCodeTells
<1>1. IInv => ExitCodeTells
  BY DEF IInv, ExitInv, ExitCodeTells, Complete, Unreported
<1> QED
  BY <1>1, Invariance, PTL

\* There are no crashes but the known ones.
THEOREM CrashesAreKnown == Spec => []CrashesKnown
<1>1. IInv => CrashesKnown
  BY DEF IInv
<1> QED
  BY <1>1, Invariance, PTL

\* An image that was written is the one that was asked for, with the profile that was
\* asked for, whatever the command line, the files and the course of the command.
THEOREM FileIsAsAsked == Spec => []FileAsAsked
<1>1. IInv => FileAsAsked
  BY DEF IInv
<1> QED
  BY <1>1, Invariance, PTL
===============================================================================
