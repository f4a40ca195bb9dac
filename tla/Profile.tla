--------------------------------- MODULE Profile ---------------------------------
(***************************************************************************)
(* lib/src/profile.c: a clProfile holds a LittleCMS handle together with   *)
(* three things derived from it: the packed bytes (raw), their MD5         *)
(* (signature), and whether colorist's own CMM accepts it (ccmm).  Every   *)
(* clProfileSet*() changes the handle and then calls clProfileReload to    *)
(* rebuild the rest, and ignores what that returns.  The description, a    *)
(* label for logs that is carried along, is left out.                      *)
(* A profile's content is what its tags say; bytes are a content together  *)
(* with the program that laid it out.                                      *)
(***************************************************************************)
EXTENDS Naturals

CONSTANTS Profiles,          \* the profiles the program holds
          Texts, NoText,     \* what a desc or cprt tag may hold; no such tag
          Luminances,        \* the values of a lumi tag, in nits
          Curves,            \* what a TRC tag may hold
          FriendlyCurves,    \* those the built-in CMM knows: gamma, HLG, PQ, sRGB
          NoProfile,         \* a NULL clProfile
          NoBytes            \* a clRaw of size 0, or a signature never computed

CL_LUMINANCE_UNSPECIFIED == 0

ASSUME ProfileAssumption ==
  /\ FriendlyCurves \subseteq Curves
  /\ Luminances \subseteq Nat \ {CL_LUMINANCE_UNSPECIFIED}

\* clProfileQuery reads the red TRC; rest stands for the green and the blue one.
Content ==
  [text: Texts \cup {NoText},
   lumi: Luminances \cup {CL_LUMINANCE_UNSPECIFIED},
   red: Curves, rest: Curves]

\* The files the program reads come from other programs; what it packs itself is
\* laid out by LittleCMS, which rewrites the header and the tag table.
Bytes == [content: Content, by: {"other", "lcms"}]

ClProfile ==
  [handle: Content, raw: Bytes \cup {NoBytes}, signature: Bytes \cup {NoBytes},
   ccmm: BOOLEAN]

\* NULL and the empty clRaw are told apart from what they stand in for.
ASSUME NullAssumption ==
  /\ NoProfile \notin ClProfile \cup Content
  /\ NoBytes \notin Bytes

VARIABLES profile,
          wanted     \* what the tags of p should say after the changes made so far

vars == <<profile, wanted>>

TypeOK ==
  /\ profile \in [Profiles -> ClProfile \cup {NoProfile}]
  /\ wanted \in [Profiles -> Content \cup {NoProfile}]

Init ==
  /\ profile = [p \in Profiles |-> NoProfile]
  /\ wanted = [p \in Profiles |-> NoProfile]

Live(p) == profile[p] # NoProfile

-----------------------------------------------------------------------------
(* Operations that change no profile.                                        *)

Friendly(content) == content.red \in FriendlyCurves

LcmsBytes(content) == [content |-> content, by |-> "lcms"]

\* clProfilePack: what it returns in out, NoBytes when LittleCMS cannot save.
Packed(rec) ==
  IF rec.raw # NoBytes THEN {rec.raw} ELSE {LcmsBytes(rec.handle), NoBytes}

\* clProfileParse of well-formed bytes.
Parsed(bytes) ==
  [handle |-> bytes.content, raw |-> bytes, signature |-> bytes,
   ccmm |-> Friendly(bytes.content)]

\* Mutant: clProfilePack is called before raw is freed, and returns it.
ReloadedFromRaw(rec) == {Parsed(bytes) : bytes \in Packed(rec) \ {NoBytes}}

\* Mutant: the signature of the new bytes is not taken over.
ReloadedOldSignature(rec) ==
  LET cleared == [rec EXCEPT !.raw = NoBytes]
  IN  {cleared} \cup {[Parsed(bytes) EXCEPT !.signature = rec.signature] :
                         bytes \in Packed(cleared) \ {NoBytes}}

\* Mutant: the handle is closed before the new one is known to be good.
ReloadedClosesFirst(rec) ==
  LET cleared == [rec EXCEPT !.raw = NoBytes]
  IN  {[cleared EXCEPT !.handle = NoProfile]}
        \cup {Parsed(bytes) : bytes \in Packed(cleared) \ {NoBytes}}

\* clProfileReload: raw is freed first, or clProfilePack would return it; the
\* new bytes are parsed.  When packing or parsing fails raw stays empty and the
\* rest as it was.
Reloaded(rec) ==
  LET cleared == [rec EXCEPT !.raw = NoBytes]
  IN  {cleared} \cup {Parsed(bytes) : bytes \in Packed(cleared) \ {NoBytes}}

\* Mutant: compares what clProfileQuery reports instead of the bytes.
MatchesByQuery(r1, r2) ==
  /\ r1.signature # NoBytes /\ r2.signature # NoBytes
  /\ r1.signature.content.red = r2.signature.content.red
  /\ r1.signature.content.lumi = r2.signature.content.lumi

\* clProfileMatches of two different profiles.
Matches(r1, r2) == r1.signature # NoBytes /\ r1.signature = r2.signature

-----------------------------------------------------------------------------
(* Profiles come into being ...                                              *)

\* p becomes live with record rec, meant to say content.
Created(p, rec, content) ==
  /\ profile' = [profile EXCEPT ![p] = rec]
  /\ wanted' = [wanted EXCEPT ![p] = content]

\* clProfileRead and the readers of the image formats.
clProfileParse(p, bytes) ==
  /\ ~Live(p)
  /\ Created(p, Parsed(bytes), bytes.content)

\* A handle fresh from cmsCreateRGBProfile, with the tags written to it so far.
Fresh(content) ==
  [handle |-> content, raw |-> NoBytes, signature |-> NoBytes, ccmm |-> FALSE]

\* clProfileCreate: SetMLU reloads, then it reloads once more.
clProfileCreate(p, content) ==
  /\ ~Live(p)
  /\ content.text # NoText /\ content.red = content.rest
  /\ \E r1 \in Reloaded(Fresh(content)) : \E r2 \in Reloaded(r1) :
       Created(p, r2, content)

\* clProfileClone packs p and parses the result.
clProfileClone(p, q) ==
  /\ Live(p) /\ ~Live(q)
  /\ \E bytes \in Packed(profile[p]) \ {NoBytes} :
       Created(q, Parsed(bytes), wanted[p])

-----------------------------------------------------------------------------
(* ... are changed ...                                                       *)

\* The tags now say content; whether or not LittleCMS took the change, the
\* profile is reloaded.
Change(p, content) ==
  /\ \E r \in Reloaded([profile[p] EXCEPT !.handle = content]) :
       profile' = [profile EXCEPT ![p] = r]
  /\ wanted' = [wanted EXCEPT ![p] = content]

clProfileSetMLU(p, text) ==
  /\ Live(p)
  /\ Change(p, [profile[p].handle EXCEPT !.text = text])

\* Writing the red TRC may fail, and so may linking the others to it.
clProfileSetGamma(p, curve) ==
  /\ Live(p)
  /\ LET content == profile[p].handle
     IN \/ Change(p, content)
        \/ Change(p, [content EXCEPT !.red = curve])
        \/ Change(p, [content EXCEPT !.red = curve, !.rest = curve])

clProfileSetLuminance(p, lumi) ==
  /\ Live(p)
  /\ \/ Change(p, profile[p].handle)
     \/ Change(p, [profile[p].handle EXCEPT !.lumi = lumi])

clProfileRemoveTag(p, content) ==
  /\ Live(p)
  /\ content # profile[p].handle
  /\ content \in {[profile[p].handle EXCEPT !.lumi = CL_LUMINANCE_UNSPECIFIED],
                  [profile[p].handle EXCEPT !.text = NoText]}
  /\ Change(p, content)

\* Called on its own by clContextModify, after the tags to strip.
clProfileReload(p) ==
  /\ Live(p)
  /\ \E r \in Reloaded(profile[p]) : profile' = [profile EXCEPT ![p] = r]
  /\ UNCHANGED wanted

(* ... and destroyed.                                                        *)

clProfileDestroy(p) ==
  /\ Live(p)
  /\ Created(p, NoProfile, NoProfile)

-----------------------------------------------------------------------------

Next ==
  \E p \in Profiles :
    \/ \E bytes \in Bytes : clProfileParse(p, bytes)
    \/ \E content \in Content : clProfileCreate(p, content)
    \/ \E q \in Profiles : clProfileClone(p, q)
    \/ \E text \in Texts : clProfileSetMLU(p, text)
    \/ \E curve \in Curves : clProfileSetGamma(p, curve)
    \/ \E lumi \in Luminances : clProfileSetLuminance(p, lumi)
    \/ \E content \in Content : clProfileRemoveTag(p, content)
    \/ clProfileReload(p)
    \/ clProfileDestroy(p)

Spec == Init /\ [][Next]_vars

-----------------------------------------------------------------------------
(* Properties                                                                *)

\* The last reload of p did not fail.
PackedUp(p) == Live(p) /\ profile[p].raw # NoBytes

\* Whatever sequence of changes, reloads and failures went before, raw is never
\* stale: the bytes written into an image are those of the handle's content, and
\* signature and ccmm, which decide how pixels are converted, describe the same
\* bytes.  Only an empty raw, left by a failed reload, comes with stale ones.
DerivedFromHandle ==
  \A p \in Profiles :
    PackedUp(p) =>
      /\ profile[p].raw.content = profile[p].handle
      /\ profile[p].signature = profile[p].raw
      /\ profile[p].ccmm = Friendly(profile[p].handle)

\* No change is lost: after any sequence of changes, reloads (failed ones
\* included) and clones the tags say what the accepted changes made them say.
ChangesSurvive == \A p \in Profiles : Live(p) => profile[p].handle = wanted[p]

\* clCCMMTransform copies pixels unconverted when the two profiles match, so two
\* profiles that match must say the same: "*Exact* match" in profile.h.  It holds
\* of profiles whose last reload succeeded; a failed one leaves an old signature.
MatchIsExactWhenPacked ==
  \A p, q \in Profiles :
    PackedUp(p) /\ PackedUp(q) /\ Matches(profile[p], profile[q])
      => profile[p].handle = profile[q].handle
=============================================================================
