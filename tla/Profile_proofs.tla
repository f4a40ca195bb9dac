----------------------------- MODULE Profile_proofs -----------------------------
(***************************************************************************)
(* Proofs about Profile, for any number of profiles and any tag values.    *)
(***************************************************************************)
EXTENDS Profile, TLAPS

-----------------------------------------------------------------------------
(* The four helpers, whatever the record they are given.                     *)

\* What clProfileParse makes of its bytes describes those very bytes.
Coherent(rec) ==
  rec.raw # NoBytes =>
    /\ rec.raw.content = rec.handle
    /\ rec.signature = rec.raw
    /\ rec.ccmm = Friendly(rec.handle)

LEMMA ParsedCoherent ==
  ASSUME NEW bytes \in Bytes
  PROVE  /\ Parsed(bytes) \in ClProfile
         /\ Coherent(Parsed(bytes))
         /\ Parsed(bytes).handle = bytes.content
BY DEF Parsed, ClProfile, Bytes, Coherent, Friendly

\* What clProfilePack returns for a coherent record says what its handle says.
LEMMA PackedCurrent ==
  ASSUME NEW rec \in ClProfile, Coherent(rec),
         NEW bytes \in Packed(rec) \ {NoBytes}
  PROVE  bytes \in Bytes /\ bytes.content = rec.handle
<1>1. CASE rec.raw # NoBytes
  BY <1>1 DEF Packed, ClProfile, Coherent
<1>2. CASE rec.raw = NoBytes
  <2>1. bytes = LcmsBytes(rec.handle)
    BY <1>2 DEF Packed
  <2>2. rec.handle \in Content
    BY DEF ClProfile
  <2> QED
    BY <2>1, <2>2 DEF LcmsBytes, Bytes
<1> QED
  BY <1>1, <1>2

\* clProfileReload keeps the content and leaves a coherent record, also when it
\* fails and even when the record it was given was not coherent.
LEMMA ReloadedCoherent ==
  ASSUME NEW rec \in ClProfile,
         NEW r \in Reloaded(rec)
  PROVE  r \in ClProfile /\ Coherent(r) /\ r.handle = rec.handle
<1> DEFINE cleared == [rec EXCEPT !.raw = NoBytes]
<1>1. cleared \in ClProfile /\ cleared.raw = NoBytes /\ cleared.handle = rec.handle
  BY DEF ClProfile
<1>2. Coherent(cleared)
  BY <1>1 DEF Coherent
<1>3. CASE r = cleared
  BY <1>1, <1>2, <1>3
<1>4. CASE r # cleared
  <2>1. PICK bytes \in Packed(cleared) \ {NoBytes} : r = Parsed(bytes)
    BY <1>4 DEF Reloaded
  <2> HIDE DEF cleared
  <2>2. bytes \in Bytes /\ bytes.content = cleared.handle
    BY <1>1, <1>2, PackedCurrent
  <2> QED
    BY <1>1, <2>1, <2>2, ParsedCoherent
<1> QED
  BY <1>3, <1>4

-----------------------------------------------------------------------------
(* The inductive invariant: per profile.  TypeOK and the two properties.     *)

ProfileInv(p) ==
  Live(p) => Coherent(profile[p]) /\ profile[p].handle = wanted[p]

IInv == TypeOK /\ \A p \in Profiles : ProfileInv(p)

\* The record rec may stand for the wanted content.
Represents(rec, content) ==
  \/ rec = NoProfile /\ content = NoProfile
  \/ /\ rec \in ClProfile /\ Coherent(rec)
     /\ content \in Content /\ rec.handle = content

\* A step that gives p record rec keeps the invariant when rec is coherent.
LEMMA UpdateKeepsInv ==
  ASSUME IInv, NEW p \in Profiles, NEW rec, NEW content,
         Represents(rec, content),
         profile' = [profile EXCEPT ![p] = rec],
         wanted' = [wanted EXCEPT ![p] = content]
  PROVE  IInv'
<1>1. TypeOK'
  BY DEF IInv, TypeOK, Represents
<1>2. ASSUME NEW q \in Profiles
      PROVE  ProfileInv(q)'
  <2>1. CASE q = p
    BY <2>1 DEF IInv, TypeOK, ProfileInv, Live, Represents, Coherent
  <2>2. CASE q # p
    <3>1. profile'[q] = profile[q] /\ wanted'[q] = wanted[q]
      BY <2>2 DEF IInv, TypeOK
    <3> QED
      BY <3>1 DEF IInv, ProfileInv, Live, Coherent
  <2> QED
    BY <2>1, <2>2
<1> QED
  BY <1>1, <1>2 DEF IInv

LEMMA InitInv == Init => IInv
BY DEF Init, IInv, TypeOK, ProfileInv, Live

\* clProfileSet*() and clProfileRemoveTag: one Reload of the changed handle.
LEMMA ChangeKeepsInv ==
  ASSUME IInv, NEW p \in Profiles, Live(p),
         NEW content \in Content, Change(p, content)
  PROVE  IInv'
<1> DEFINE rec == [profile[p] EXCEPT !.handle = content]
<1>1. rec \in ClProfile /\ rec.handle = content
  BY DEF IInv, TypeOK, Live, ClProfile
<1>2. PICK r \in Reloaded(rec) : profile' = [profile EXCEPT ![p] = r]
  BY DEF Change
<1>3. r \in ClProfile /\ Coherent(r) /\ r.handle = content
  <2> HIDE DEF rec
  <2> QED BY <1>1, <1>2, ReloadedCoherent
<1> QED
  BY <1>2, <1>3, UpdateKeepsInv DEF Represents, Change

LEMMA StepInv == IInv /\ [Next]_vars => IInv'
<1> SUFFICES ASSUME IInv, [Next]_vars
             PROVE  IInv'
  OBVIOUS
<1>1. ASSUME NEW p \in Profiles, NEW bytes \in Bytes, clProfileParse(p, bytes)
      PROVE  IInv'
  <2>1. bytes.content \in Content
    BY DEF Bytes
  <2> QED
    BY <1>1, <2>1, ParsedCoherent, UpdateKeepsInv DEF Represents, clProfileParse, Created
<1>2. ASSUME NEW p \in Profiles, NEW content \in Content, clProfileCreate(p, content)
      PROVE  IInv'
  <2>1. PICK r1 \in Reloaded(Fresh(content)) :
          \E r2 \in Reloaded(r1) : Created(p, r2, content)
    BY <1>2 DEF clProfileCreate
  <2>2. Fresh(content) \in ClProfile /\ Fresh(content).handle = content
    BY DEF Fresh, ClProfile
  <2>3. r1 \in ClProfile /\ r1.handle = content
    BY <2>2, ReloadedCoherent
  <2>4. PICK r2 \in Reloaded(r1) : Created(p, r2, content)
    BY <2>1
  <2>5. r2 \in ClProfile /\ Coherent(r2) /\ r2.handle = content
    BY <2>3, ReloadedCoherent
  <2> QED
    BY <2>4, <2>5, UpdateKeepsInv DEF Represents, Created
<1>3. ASSUME NEW p \in Profiles, NEW q \in Profiles, clProfileClone(p, q)
      PROVE  IInv'
  <2>1. PICK bytes \in Packed(profile[p]) \ {NoBytes} :
          Created(q, Parsed(bytes), wanted[p])
    BY <1>3 DEF clProfileClone
  <2>2. /\ profile[p] \in ClProfile /\ Coherent(profile[p])
        /\ profile[p].handle = wanted[p] /\ wanted[p] \in Content
    BY <1>3 DEF IInv, clProfileClone, Live, TypeOK, ProfileInv, ClProfile
  <2>3. bytes \in Bytes /\ bytes.content = wanted[p]
    BY <2>2, PackedCurrent
  <2> QED
    BY <2>1, <2>2, <2>3, ParsedCoherent, UpdateKeepsInv DEF Represents, Created
<1>4. ASSUME NEW p \in Profiles, NEW text \in Texts, clProfileSetMLU(p, text)
      PROVE  IInv'
  <2>1. Live(p) /\ [profile[p].handle EXCEPT !.text = text] \in Content
    BY <1>4 DEF IInv, clProfileSetMLU, Live, TypeOK, ClProfile, Content
  <2> QED
    BY <1>4, <2>1, ChangeKeepsInv DEF clProfileSetMLU
<1>5. ASSUME NEW p \in Profiles, NEW curve \in Curves, clProfileSetGamma(p, curve)
      PROVE  IInv'
  <2> DEFINE content == profile[p].handle
  <2>1. /\ Live(p)
        /\ content \in Content
        /\ [content EXCEPT !.red = curve] \in Content
        /\ [content EXCEPT !.red = curve, !.rest = curve] \in Content
    BY <1>5 DEF IInv, clProfileSetGamma, Live, TypeOK, ClProfile, Content
  <2> QED
    BY <1>5, <2>1, ChangeKeepsInv DEF clProfileSetGamma
<1>6. ASSUME NEW p \in Profiles, NEW lumi \in Luminances, clProfileSetLuminance(p, lumi)
      PROVE  IInv'
  <2>1. /\ Live(p)
        /\ profile[p].handle \in Content
        /\ [profile[p].handle EXCEPT !.lumi = lumi] \in Content
    BY <1>6 DEF IInv, clProfileSetLuminance, Live, TypeOK, ClProfile, Content
  <2> QED
    BY <1>6, <2>1, ChangeKeepsInv DEF clProfileSetLuminance
<1>7. ASSUME NEW p \in Profiles, NEW content \in Content, clProfileRemoveTag(p, content)
      PROVE  IInv'
  BY <1>7, ChangeKeepsInv DEF clProfileRemoveTag
<1>8. ASSUME NEW p \in Profiles, clProfileReload(p)
      PROVE  IInv'
  <2>1. PICK r \in Reloaded(profile[p]) : profile' = [profile EXCEPT ![p] = r]
    BY <1>8 DEF clProfileReload
  <2>2. /\ profile[p] \in ClProfile /\ profile[p].handle = wanted[p]
        /\ wanted[p] \in Content
    BY <1>8 DEF IInv, clProfileReload, Live, TypeOK, ProfileInv, ClProfile
  <2>3. r \in ClProfile /\ Coherent(r) /\ r.handle = wanted[p]
    BY <2>2, ReloadedCoherent
  <2>4. wanted' = [wanted EXCEPT ![p] = wanted[p]]
    BY <1>8 DEF IInv, clProfileReload, TypeOK
  <2> QED
    BY <2>1, <2>2, <2>3, <2>4, UpdateKeepsInv DEF Represents
<1>9. ASSUME NEW p \in Profiles, clProfileDestroy(p)
      PROVE  IInv'
  BY <1>9, UpdateKeepsInv DEF Represents, clProfileDestroy, Created
<1>10. CASE UNCHANGED vars
  BY <1>10 DEF IInv, vars, TypeOK, ProfileInv, Live, Coherent
<1> QED
  BY <1>1, <1>2, <1>3, <1>4, <1>5, <1>6, <1>7, <1>8, <1>9, <1>10 DEF Next

-----------------------------------------------------------------------------

\* The invariant holds in every reachable state.
THEOREM Invariance == Spec => []IInv
BY InitInv, StepInv, PTL DEF Spec

\* Every record has the shape of a clProfile, or is NULL.
THEOREM TypeCorrect == Spec => []TypeOK
<1>1. IInv => TypeOK
  BY DEF IInv
<1> QED
  BY <1>1, Invariance, PTL

\* Non-empty raw bytes, signature and ccmm always describe the handle.
THEOREM RawIsNeverStale == Spec => []DerivedFromHandle
<1>1. IInv => DerivedFromHandle
  BY DEF IInv, ProfileInv, Coherent, DerivedFromHandle, PackedUp
<1> QED
  BY <1>1, Invariance, PTL

\* No accepted change of a tag is lost by the reloads that follow it.
THEOREM NoChangeIsLost == Spec => []ChangesSurvive
<1>1. IInv => ChangesSurvive
  BY DEF IInv, ProfileInv, ChangesSurvive
<1> QED
  BY <1>1, Invariance, PTL

\* Two profiles that match say the same as long as neither had a reload fail, so
\* clCCMMTransform may copy their pixels unconverted.
THEOREM PackedMatchesAreExact == Spec => []MatchIsExactWhenPacked
<1>1. IInv => MatchIsExactWhenPacked
  <2> SUFFICES ASSUME IInv, NEW p \in Profiles, NEW q \in Profiles,
                      PackedUp(p), PackedUp(q), Matches(profile[p], profile[q])
               PROVE  profile[p].handle = profile[q].handle
    BY DEF MatchIsExactWhenPacked
  <2>1. /\ profile[p].signature.content = profile[p].handle
        /\ profile[q].signature.content = profile[q].handle
    BY DEF IInv, ProfileInv, Coherent, PackedUp
  <2> QED
    BY <2>1 DEF Matches
<1> QED
  BY <1>1, Invariance, PTL
=============================================================================
