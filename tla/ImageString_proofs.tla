--------------------------- MODULE ImageString_proofs ---------------------------
(***************************************************************************)
(* Image strings of any length, over any colors: the image is the one      *)
(* described, everything parsed is freed, and looking colors up in the     *)
(* HALD of a string interpolates between its levels, for HALDs of any      *)
(* size.                                                                   *)
(*                                                                         *)
(* Recursive functions (sums, entries, pictures) are followed by an        *)
(* induction over a set of natural numbers, which their being well-ordered *)
(* gives.                                                                  *)
(*                                                                         *)
(* The lists are counted at every stage (LeakInv).  The lookup is proved   *)
(* for any image that is an identity HALD (LookupInterpolates): the        *)
(* weights of the eight corners of a cell are natural numbers of which one *)
(* at least is not 0, so the mean lies between the levels of the cell;     *)
(* at a point of the grid one corner alone has a weight.  That the image   *)
(* of such a string is one (HaldInv) follows the string through its        *)
(* stages.                                                                 *)
(*                                                                         *)
(* What a string describes is read from its words, the image is made from  *)
(* the tokens.  The tokens of the words parsed so far stand for their      *)
(* entries, one for one (AllStand); so they have the same colors           *)
(* (ColorGot), say the same (NumbersSaid, TurnsAs) and make an image that  *)
(* shows the picture (Interpreted); images stacked show the pictures one   *)
(* below the other (StackedShows).  DescInv says so at every stage.        *)
(***************************************************************************)
EXTENDS ImageString, SequenceTheorems, FiniteSetTheorems, WellFoundedInduction, TLAPS

-----------------------------------------------------------------------------
(* Induction, over a set of numbers.                                         *)

LEMMA LeastNumber ==
  ASSUME NEW T \in SUBSET Nat, T # {}
  PROVE  \E x \in T : \A y \in T : x <= y
<1>1. PICK x \in T : \A y \in T : ~(<<y, x>> \in OpToRel(<, Nat))
  BY NatLessThanWellFounded, WFMin
<1>2. \A y \in T : ~(y < x)
  BY <1>1 DEF OpToRel
<1> QED
  BY <1>2

LEMMA Induction ==
  ASSUME NEW T, 0 \in T, \A n \in Nat : n \in T => n + 1 \in T
  PROVE  \A n \in Nat : n \in T
<1> DEFINE others == {n \in Nat : n \notin T}
<1> SUFFICES ASSUME others # {} PROVE FALSE
  OBVIOUS
<1>1. PICK x \in others : \A y \in others : x <= y
  BY LeastNumber
<1>2. x # 0 /\ x - 1 \in Nat /\ x - 1 \notin others /\ (x - 1) + 1 = x
  BY <1>1
<1> QED
  BY <1>1, <1>2

-----------------------------------------------------------------------------
(* Sums of sequences of numbers.                                             *)

LEMMA SumsExist ==
  ASSUME NEW s
  PROVE  \A n \in Nat : \E f : f = [k \in 0 .. n |-> IF k = 0 THEN 0 ELSE f[k - 1] + s[k]]
<1> DEFINE Step(f, n) == [k \in 0 .. n |-> IF k = 0 THEN 0 ELSE f[k - 1] + s[k]]
           T == {n \in Nat : \E f : f = Step(f, n)}
<1>1. 0 \in T
  <2> DEFINE f == [k \in 0 .. 0 |-> 0]
  <2>1. f = Step(f, 0)
    OBVIOUS
  <2> QED
    BY <2>1
<1>2. ASSUME NEW n \in Nat, n \in T PROVE n + 1 \in T
  <2>1. PICK f : f = Step(f, n)
    BY <1>2
  <2> DEFINE g == [k \in 0 .. (n + 1) |-> IF k = n + 1 THEN f[n] + s[n + 1] ELSE f[k]]
  <2>2. \A k \in 0 .. (n + 1) : g[k] = IF k = 0 THEN 0 ELSE g[k - 1] + s[k]
    BY <2>1
  <2>3. g = [k \in 0 .. (n + 1) |-> g[k]]
    OBVIOUS
  <2> HIDE DEF g
  <2>4. g = Step(g, n + 1)
    BY <2>2, <2>3
  <2> QED
    BY <2>4
<1>3. \A n \in Nat : n \in T
  <2> HIDE DEF T
  <2> QED
    BY <1>1, <1>2, Induction
<1> QED
  BY <1>3

LEMMA SumsAre ==
  ASSUME NEW s, Len(s) \in Nat
  PROVE  /\ Sums(s)[0] = 0
         /\ \A k \in 1 .. Len(s) : Sums(s)[k] = Sums(s)[k - 1] + s[k]
<1> DEFINE n == Len(s)
           Step(f) == [k \in 0 .. n |-> IF k = 0 THEN 0 ELSE f[k - 1] + s[k]]
           sum == CHOOSE f : f = Step(f)
<1>1. Sums(s) = sum
  BY DEF Sums
<1>2. sum = Step(sum)
  BY SumsExist
<1> HIDE DEF sum, n
<1>3. n \in Nat
  BY DEF n
<1>4. sum[0] = 0 /\ \A k \in 1 .. n : sum[k] = sum[k - 1] + s[k]
  BY <1>2, <1>3
<1> QED
  BY <1>1, <1>4 DEF n

LEMMA SumsType ==
  ASSUME NEW s \in Seq(Int)
  PROVE  \A k \in 0 .. Len(s) : Sums(s)[k] \in Int
<1> DEFINE T == {k \in Nat : k <= Len(s) => Sums(s)[k] \in Int}
<1>1. Len(s) \in Nat /\ \A k \in 1 .. Len(s) : s[k] \in Int
  BY LenProperties, ElementOfSeq
<1>2. 0 \in T
  BY <1>1, SumsAre
<1>3. ASSUME NEW n \in Nat, n \in T PROVE n + 1 \in T
  <2> SUFFICES ASSUME n + 1 <= Len(s) PROVE Sums(s)[n + 1] \in Int
    OBVIOUS
  <2>1. n + 1 \in 1 .. Len(s) /\ n + 1 - 1 = n
    BY <1>1
  <2>2. Sums(s)[n] \in Int
    BY <1>1, <1>3
  <2>3. Sums(s)[n + 1] = Sums(s)[n] + s[n + 1]
    BY <1>1, <2>1, SumsAre
  <2> QED
    BY <1>1, <2>1, <2>2, <2>3
<1>4. \A k \in Nat : k \in T
  <2> HIDE DEF T
  <2> QED
    BY <1>2, <1>3, Induction
<1> QED
  BY <1>1, <1>4

\* Sums of natural numbers do not fall.
LEMMA SumsRise ==
  ASSUME NEW s \in Seq(Nat), NEW i \in 0 .. Len(s), NEW j \in 0 .. Len(s), i <= j
  PROVE  Sums(s)[i] <= Sums(s)[j]
<1> DEFINE T == {d \in Nat : i + d <= Len(s) => Sums(s)[i] <= Sums(s)[i + d]}
<1>1. Len(s) \in Nat /\ s \in Seq(Int) /\ \A k \in 1 .. Len(s) : s[k] \in Nat
  BY LenProperties, ElementOfSeq, SeqMonotonic
<1>2. \A k \in 0 .. Len(s) : Sums(s)[k] \in Int
  BY <1>1, SumsType
<1>3. 0 \in T
  BY <1>1, <1>2
<1>4. ASSUME NEW d \in Nat, d \in T PROVE d + 1 \in T
  <2> SUFFICES ASSUME i + (d + 1) <= Len(s) PROVE Sums(s)[i] <= Sums(s)[i + (d + 1)]
    OBVIOUS
  <2>1. i + (d + 1) \in 1 .. Len(s) /\ i + (d + 1) - 1 = i + d /\ i + d \in 0 .. Len(s)
    BY <1>1
  <2>2. Sums(s)[i] <= Sums(s)[i + d]
    BY <1>1, <1>4
  <2>3. Sums(s)[i + (d + 1)] = Sums(s)[i + d] + s[i + (d + 1)]
    BY <1>1, <2>1, SumsAre
  <2> QED
    BY <1>1, <1>2, <2>1, <2>2, <2>3
<1>5. \A d \in Nat : d \in T
  <2> HIDE DEF T
  <2> QED
    BY <1>3, <1>4, Induction
<1>6. j - i \in Nat /\ i + (j - i) = j /\ j <= Len(s)
  BY <1>1
<1> QED
  BY <1>5, <1>6

\* Every number below the sum lies in the span of one member.
LEMMA SpanHolds ==
  ASSUME NEW s \in Seq(Nat), NEW r \in Nat, r < Sums(s)[Len(s)]
  PROVE  \E k \in 1 .. Len(s) : Sums(s)[k - 1] <= r /\ r < Sums(s)[k]
<1>1. Len(s) \in Nat /\ s \in Seq(Int)
  BY LenProperties, SeqMonotonic
<1>2. \A k \in 0 .. Len(s) : Sums(s)[k] \in Int
  BY <1>1, SumsType
<1> DEFINE above == {k \in Nat : k <= Len(s) /\ r < Sums(s)[k]}
<1>3. PICK k \in above : \A j \in above : k <= j
  <2>1. above \in SUBSET Nat /\ above # {}
    BY <1>1
  <2> HIDE DEF above
  <2> QED
    BY <2>1, LeastNumber
<1>4. k # 0
  BY <1>1, SumsAre
<1>5. k - 1 \in 0 .. Len(s) /\ k - 1 \notin above
  BY <1>1, <1>3, <1>4
<1>6. ~(r < Sums(s)[k - 1])
  BY <1>5
<1>7. k \in 1 .. Len(s) /\ r < Sums(s)[k]
  BY <1>1, <1>4
<1>8. Sums(s)[k - 1] <= r
  BY <1>2, <1>5, <1>6
<1> QED
  BY <1>7, <1>8

LEMMA OneSpan ==
  ASSUME NEW s \in Seq(Nat), NEW r \in Nat, NEW k \in 1 .. Len(s), NEW j \in 1 .. Len(s),
         Sums(s)[k - 1] <= r, r < Sums(s)[k], Sums(s)[j - 1] <= r, r < Sums(s)[j]
  PROVE  j = k
<1>1. Len(s) \in Nat /\ s \in Seq(Int)
  BY LenProperties, SeqMonotonic
<1>2. \A i \in 0 .. Len(s) : Sums(s)[i] \in Int
  BY <1>1, SumsType
<1>3. k - 1 \in 0 .. Len(s) /\ k \in 0 .. Len(s) /\ j - 1 \in 0 .. Len(s) /\ j \in 0 .. Len(s)
  BY <1>1
<1> DEFINE below(i) == Sums(s)[i - 1]
           upTo(i) == Sums(s)[i]
<1>4. /\ below(j) \in Int /\ upTo(j) \in Int /\ below(j) <= r /\ r < upTo(j)
      /\ below(k) \in Int /\ upTo(k) \in Int /\ below(k) <= r /\ r < upTo(k)
  BY <1>2, <1>3
<1>5. /\ j < k => upTo(j) <= below(k)
      /\ k < j => upTo(k) <= below(j)
  <2>1. /\ j < k => j <= k - 1
        /\ k < j => k <= j - 1
    OBVIOUS
  <2> QED
    BY <1>3, <2>1, SumsRise
<1> HIDE DEF below, upTo
<1>6. ~(j < k) /\ ~(k < j)
  BY <1>4, <1>5
<1> QED
  BY <1>6

-----------------------------------------------------------------------------
(* Tokens and images *)

\* What the sequences hold does not matter, only that images are none of them null.
Tokens == \E S : tokens \in Seq(S)
Images == \E S : stripeImages \in Seq(S) /\ NoImage \notin S

\* What is allocated at every stage.
HeldTokens == IF pc \in {"parse", "failed", "interpret"} THEN Len(tokens) ELSE 0
HeldImages == Len(stripeImages) + (IF result = NoImage THEN 0 ELSE 1)

LeakInv ==
  /\ Tokens /\ Images
  /\ allocated = [tokens |-> HeldTokens, images |-> HeldImages]
  /\ pc \notin {"cleanup", "done"} => result = NoImage
  /\ pc = "stack" => Len(stripeImages) = Len(input)
  /\ pc = "done" => stripeImages = <<>>

LEMMA EmptyLists == /\ \A S : <<>> \in Seq(S)
                    /\ Len(<<>>) = 0
OBVIOUS

LEMMA Appended ==
  ASSUME NEW S, NEW s \in Seq(S), NEW e
  PROVE  /\ Append(s, e) \in Seq(S \cup {e})
         /\ Len(Append(s, e)) = Len(s) + 1 /\ Len(s) \in Nat
<1>1. s \in Seq(S \cup {e}) /\ e \in S \cup {e}
  BY SeqMonotonic
<1> QED
  BY <1>1, AppendProperties, LenProperties

LEMMA MergedLength ==
  ASSUME NEW S, NEW ts \in Seq(S), ts # <<>>, NEW token
  PROVE  /\ \E T : Merged(ts, token) \in Seq(T)
         /\ Len(Merged(ts, token)) = Len(ts)
<1> DEFINE e == [Last(ts) EXCEPT !.repeat = token.repeat]
<1>1. Len(ts) \in Nat \ {0}
  BY LenProperties, EmptySeq
<1>2. Front(ts) \in Seq(S) /\ Len(Front(ts)) = Len(ts) - 1
  <2> DEFINE m == Len(ts) - 1
  <2>1. m \in Int /\ m >= 0 /\ m - 1 + 1 = m /\ \A k \in 1 .. m : ts[k] \in S
    BY <1>1, ElementOfSeq
  <2> HIDE DEF m
  <2>2. /\ SubSeq(ts, 1, m) \in Seq(S)
        /\ Len(SubSeq(ts, 1, m)) = IF 1 <= m THEN m - 1 + 1 ELSE 0
    BY <2>1, SubSeqProperties
  <2>3. Len(SubSeq(ts, 1, m)) = m
    BY <2>1, <2>2
  <2> USE DEF m
  <2> QED
    BY <2>2, <2>3 DEF Front
<1>3. Merged(ts, token) = Append(Front(ts), e)
  BY DEF Merged
<1> HIDE DEF e
<1>4. Append(Front(ts), e) \in Seq(S \cup {e}) /\ Len(Append(Front(ts), e)) = Len(Front(ts)) + 1
  BY <1>2, Appended
<1>5. Merged(ts, token) \in Seq(S \cup {e})
  BY <1>3, <1>4
<1>6. Len(Merged(ts, token)) = Len(ts)
  BY <1>1, <1>2, <1>3, <1>4
<1> QED
  BY <1>5, <1>6

LEMMA NewImageIsSome == ASSUME NEW w, NEW h, NEW pixel PROVE NewImage(w, h, pixel) # NoImage
<1> DEFINE im == NewImage(w, h, pixel)
<1>1. "width" \in DOMAIN im
  BY DEF NewImage
<1>2. DOMAIN NoImage = {}
  BY DEF NoImage
<1> HIDE DEF im
<1>3. im # NoImage
  BY <1>1, <1>2
<1> QED
  BY <1>3 DEF im

LEMMA StackedIsSome == \A images : Stacked(images) # NoImage
BY NewImageIsSome DEF Stacked

LEMMA InterpretedIsSome ==
  ASSUME NEW S, stripeImages \in Seq(S), NoImage \notin S, NEW image, image # NoImage
  PROVE  /\ \E T : Append(stripeImages, image) \in Seq(T) /\ NoImage \notin T
         /\ Len(Append(stripeImages, image)) = Len(stripeImages) + 1
<1>1. NoImage \notin S \cup {image}
  OBVIOUS
<1> QED
  BY <1>1, Appended

LEMMA LeakInit == Init => LeakInv
<1> SUFFICES ASSUME Init PROVE LeakInv
  OBVIOUS
<1>1. Tokens /\ Images /\ Len(stripeImages) = 0
  <2>1. tokens \in Seq({}) /\ stripeImages \in Seq({}) /\ NoImage \notin {}
    BY EmptyLists DEF Init
  <2>2. Len(stripeImages) = 0
    BY EmptyLists DEF Init
  <2> QED
    BY <2>1, <2>2 DEF Tokens, Images
<1> QED
  BY <1>1 DEF Init, LeakInv, HeldTokens, HeldImages

LEMMA LeakStep == LeakInv /\ [Next]_vars => LeakInv'
<1> SUFFICES ASSUME LeakInv, [Next]_vars PROVE LeakInv'
  OBVIOUS
<1> USE DEF LeakInv, HeldTokens, HeldImages
<1>0. Len(tokens) \in Nat /\ Len(stripeImages) \in Nat
  BY LenProperties DEF Tokens, Images
<1>1. CASE NoStripes
  BY <1>1 DEF NoStripes, Tokens, Images
<1>2. CASE OpenFailed
  BY <1>2 DEF OpenFailed, Tokens, Images
<1>3. CASE Open
  <2>1. Tokens' /\ Len(tokens') = 0
    BY <1>3, EmptyLists DEF Open, Tokens
  <2> QED
    BY <1>3, <2>1 DEF Open, Images
<1>4. CASE ParseFails
  BY <1>4 DEF ParseFails, Tokens, Images
<1>5. CASE Parse
  <2> DEFINE token == parseNext(NextWord)
  <2>1. PICK S : tokens \in Seq(S)
    BY DEF Tokens
  <2>2. CASE token.repeat # 0 /\ tokens # <<>> /\ tokens' = Merged(tokens, token)
               /\ UNCHANGED allocated
    <3>1. Tokens' /\ Len(tokens') = Len(tokens)
      BY <2>1, <2>2, MergedLength DEF Tokens
    <3> QED
      BY <1>5, <2>2, <3>1 DEF Parse, Images
  <2>3. CASE tokens' = Append(tokens, token)
               /\ allocated' = [allocated EXCEPT !.tokens = @ + 1]
    <3>1. Tokens' /\ Len(tokens') = Len(tokens) + 1
      BY <2>1, <2>3, Appended DEF Tokens
    <3> QED
      BY <1>5, <2>3, <3>1 DEF Parse, Images
  <2> QED
    BY <1>5, <2>2, <2>3 DEF Parse
<1>6. CASE StripeFailed
  BY <1>0, <1>6 DEF StripeFailed, FreeTokens, Tokens, Images
<1>7. CASE Interpret
  <2> DEFINE image == interpretTokens(tokens, prevW, prevH)
  <2>1. CASE image = NoImage
    BY <1>0, <1>7, <2>1 DEF Interpret, FreeTokens, Tokens, Images
  <2>2. CASE image # NoImage
    <3>1. /\ stripeImages' = Append(stripeImages, image)
          /\ allocated' = [FreeTokens EXCEPT !.images = @ + 1]
          /\ pc' = IF Len(stripeImages) + 1 = Len(input) THEN "stack" ELSE "open"
          /\ UNCHANGED <<input, at, tokens, result>>
          /\ pc = "interpret"
      BY <1>7, <2>2 DEF Interpret
    <3> HIDE DEF image
    <3>2. Images' /\ Len(stripeImages') = Len(stripeImages) + 1
      BY <2>2, <3>1, InterpretedIsSome DEF Images
    <3>3. FreeTokens = [tokens |-> 0, images |-> Len(stripeImages)] /\ result = NoImage
      BY <1>0, <3>1 DEF FreeTokens
    <3>4. allocated' = [tokens |-> 0, images |-> Len(stripeImages) + 1]
      BY <3>1, <3>3
    <3>5. Tokens' /\ pc' \in {"stack", "open"} /\ result' = NoImage
      BY <3>1, <3>3 DEF Tokens
    <3>6. HeldTokens' = 0 /\ HeldImages' = Len(stripeImages) + 1
      BY <1>0, <3>2, <3>5
    <3>7. pc' = "stack" => Len(stripeImages') = Len(input')
      BY <3>1, <3>2
    <3> HIDE DEF HeldTokens, HeldImages
    <3> QED
      BY <3>2, <3>4, <3>5, <3>6, <3>7
  <2> QED
    BY <2>1, <2>2
<1>8. CASE Stack
  <2>1. PICK S : stripeImages \in Seq(S) /\ NoImage \notin S
    BY DEF Images
  <2>2. CASE Len(input) > 1 /\ result' = Stacked(stripeImages)
               /\ allocated' = [allocated EXCEPT !.images = @ + 1] /\ UNCHANGED stripeImages
    <3>1. result' # NoImage
      BY <2>2, StackedIsSome
    <3>2. pc = "stack" /\ pc' = "cleanup" /\ UNCHANGED <<input, tokens>>
      BY <1>8 DEF Stack
    <3>3. allocated' = [tokens |-> 0, images |-> Len(stripeImages) + 1]
      BY <1>0, <2>2, <3>2
    <3>4. HeldTokens' = 0 /\ HeldImages' = Len(stripeImages) + 1
      BY <1>0, <2>2, <3>1, <3>2
    <3>5. Tokens' /\ Images'
      BY <2>2, <3>2 DEF Tokens, Images
    <3> HIDE DEF HeldTokens, HeldImages
    <3> QED
      BY <3>2, <3>3, <3>4, <3>5
  <2>3. CASE Len(input) = 1 /\ result' = stripeImages[1] /\ stripeImages' = <<>>
               /\ UNCHANGED allocated
    <3>1. Len(stripeImages) = 1
      BY <1>8, <2>3 DEF Stack
    <3>2. result' # NoImage
      <4>1. stripeImages[1] \in S
        BY <2>1, <3>1, ElementOfSeq
      <4> QED
        BY <2>1, <2>3, <4>1
    <3>3. Images' /\ Len(stripeImages') = 0
      <4>1. stripeImages' \in Seq({}) /\ NoImage \notin {} /\ Len(stripeImages') = 0
        BY <2>3, EmptyLists
      <4> QED
        BY <4>1 DEF Images
    <3>4. pc = "stack" /\ pc' = "cleanup" /\ UNCHANGED <<input, tokens>>
      BY <1>8 DEF Stack
    <3>5. allocated' = [tokens |-> 0, images |-> 1]
      <4>1. HeldTokens = 0 /\ HeldImages = 1 /\ allocated' = allocated
        BY <2>3, <3>1, <3>4
      <4> HIDE DEF HeldTokens, HeldImages
      <4> QED
        BY <4>1
    <3>6. HeldTokens' = 0 /\ HeldImages' = 1
      BY <3>2, <3>3, <3>4
    <3>7. Tokens'
      BY <3>4 DEF Tokens
    <3> HIDE DEF HeldTokens, HeldImages
    <3> QED
      BY <3>3, <3>4, <3>5, <3>6, <3>7
  <2> QED
    BY <1>8, <2>2, <2>3 DEF Stack
<1>9. CASE Cleanup
  <2>1. Images' /\ Len(stripeImages') = 0
    <3>1. stripeImages' \in Seq({}) /\ NoImage \notin {} /\ Len(stripeImages') = 0
      BY <1>9, EmptyLists DEF Cleanup
    <3> QED
      BY <3>1 DEF Images
  <2> QED
    BY <1>0, <1>9, <2>1 DEF Cleanup, Tokens
<1>10. CASE UNCHANGED vars
  BY <1>10 DEF vars, Tokens, Images
<1> QED
  BY <1>1, <1>2, <1>3, <1>4, <1>5, <1>6, <1>7, <1>8, <1>9, <1>10 DEF Next, Ended

\* Whatever a string says and wherever it is in error, every token and every stripe
\* image is freed; only the image returned is left (parseCleanup).
THEOREM EverythingIsFreed == Spec => []NoLeak
<1>1. LeakInv => NoLeak
  BY EmptyLists DEF LeakInv, HeldTokens, HeldImages, NoLeak
<1> QED
  BY <1>1, LeakInit, LeakStep, PTL DEF Spec

-----------------------------------------------------------------------------
(* Division *)

LEMMA DivMod ==
  ASSUME NEW m \in Nat \ {0}, NEW a \in Nat, a < m, NEW q \in Nat
  PROVE  (a + q * m) % m = a /\ (a + q * m) \div m = q
<1> DEFINE x == a + q * m
<1>1. x \in Int /\ a = x - m * q
  OBVIOUS
<1> HIDE DEF x
<1>2. x % m \in 0 .. (m - 1) /\ x \div m \in Int /\ x = m * (x \div m) + (x % m)
  BY <1>1
<1> DEFINE d == x \div m
           r == x % m
<1>3. d \in Int /\ r \in Int /\ 0 <= r /\ r < m /\ x = m * d + r
  BY <1>2
<1> HIDE DEF d, r
<1>4. m * (d - q) = a - r
  BY <1>1, <1>3
<1>5. d - q = 0
  <2>1. CASE d - q >= 1
    BY <1>3, <1>4, <2>1
  <2>2. CASE d - q <= -1
    BY <1>3, <1>4, <2>2
  <2> QED
    BY <1>3, <2>1, <2>2
<1>6. d = q /\ r = a
  BY <1>3, <1>4, <1>5
<1> QED
  BY <1>6 DEF d, r, x

-----------------------------------------------------------------------------
(* The pixels of a HALD.                                                     *)

\* Where the color at a place in the cube of n x n x n is.
CubeIndex(n, r, g, b) == r + g * n + b * n * n

LEMMA PlaceOf ==
  ASSUME NEW n \in Nat \ {0}, NEW r \in Nat, NEW g \in Nat, NEW b \in Nat, r < n, g < n, b < n
  PROVE  /\ CubeIndex(n, r, g, b) \in 0 .. (n * n * n - 1)
         /\ CubeIndex(n, r, g, b) % n = r
         /\ (CubeIndex(n, r, g, b) \div n) % n = g
         /\ CubeIndex(n, r, g, b) \div (n * n) = b
<1> DEFINE k == CubeIndex(n, r, g, b)
           q == g + b * n
           rest == r + g * n
           m == n * n
<1>1. q \in Nat /\ rest \in Nat /\ m \in Nat \ {0} /\ k = r + q * n /\ k = rest + b * m
  BY DEF CubeIndex
<1> HIDE DEF k
<1>2. rest < m
  <2>1. g * n <= (n - 1) * n
    OBVIOUS
  <2>2. (n - 1) * n = n * n - n
    OBVIOUS
  <2> QED
    BY <2>1, <2>2
<1>3. k < n * n * n
  <2>1. b * m <= (n - 1) * m
    BY <1>1
  <2>2. (n - 1) * m = n * n * n - m
    OBVIOUS
  <2> QED
    BY <1>1, <1>2, <2>1, <2>2
<1>4. k \in Nat
  BY <1>1
<1>5. (r + q * n) % n = r /\ (r + q * n) \div n = q
  BY <1>1, DivMod
<1>6. (g + b * n) % n = g
  BY DivMod
<1>7. (rest + b * m) \div m = b
  <2> HIDE DEF rest, m
  <2> QED
    BY <1>1, <1>2, DivMod
<1>8. k % n = r /\ (k \div n) % n = g
  <2> HIDE DEF rest, m
  <2>1. k % n = r /\ k \div n = q
    BY <1>1, <1>5
  <2> QED
    BY <2>1, <1>6
<1>9. k \div m = b
  <2> HIDE DEF rest
  <2> QED
    BY <1>1, <1>7
<1>10. k \in 0 .. (n * n * n - 1)
  <2> DEFINE cube == n * n * n
  <2>1. k < cube /\ cube \in Int
    BY <1>3
  <2> HIDE DEF cube
  <2>2. k \in 0 .. (cube - 1)
    BY <1>4, <2>1
  <2> QED
    BY <2>2 DEF cube
<1> QED
  BY <1>8, <1>9, <1>10 DEF k

\* Its color, when levels are exact.
LEMMA CubeLevels ==
  ASSUME NEW n \in Nat, n > 1, One % (n - 1) = 0,
         NEW r \in 0 .. (n - 1), NEW g \in 0 .. (n - 1), NEW b \in 0 .. (n - 1)
  PROVE  LET cell == One \div (n - 1)
         IN  /\ cell \in Nat
             /\ HaldPixel(n, CubeIndex(n, r, g, b)) = <<cell * r, cell * g, cell * b>>
<1> DEFINE cell == One \div (n - 1)
           m == n - 1
           k == CubeIndex(n, r, g, b)
<1>1. m \in Nat \ {0} /\ One \in Nat
  BY ImageStringAssumption
<1>2. cell \in Nat /\ One = cell * m
  <2>1. One % m = 0
    OBVIOUS
  <2> HIDE DEF m
  <2>2. One = m * (One \div m) + (One % m) /\ One \div m \in Nat
    BY <1>1
  <2>3. One = (One \div m) * m
    BY <1>1, <2>1, <2>2
  <2> QED
    BY <2>2, <2>3 DEF m
<1>3. ASSUME NEW i \in 0 .. (n - 1)
      PROVE  (i * One) \div (n - 1) = cell * i
  <2> HIDE DEF cell, m
  <2> DEFINE q == cell * i
  <2>1. i * One = 0 + q * m /\ q \in Nat
    BY <1>1, <1>2
  <2> HIDE DEF q
  <2>2. 0 \in Nat /\ 0 < m
    BY <1>1
  <2>3. (0 + q * m) \div m = q
    BY <1>1, <2>1, <2>2, DivMod
  <2>4. (i * One) \div m = q
    BY <2>1, <2>3
  <2> QED
    BY <2>4 DEF m, q
<1>4. k % n = r /\ (k \div n) % n = g /\ k \div (n * n) = b
  <2>1. n \in Nat \ {0} /\ r \in Nat /\ g \in Nat /\ b \in Nat /\ r < n /\ g < n /\ b < n
    OBVIOUS
  <2> QED
    BY <2>1, PlaceOf
<1> HIDE DEF k, cell, m
<1>5. HaldPixel(n, k) = <<(r * One) \div (n - 1), (g * One) \div (n - 1), (b * One) \div (n - 1)>>
  BY <1>4 DEF HaldPixel
<1>6. HaldPixel(n, k) = <<cell * r, cell * g, cell * b>>
  BY <1>3, <1>5
<1> QED
  BY <1>2, <1>6 DEF k, cell

-----------------------------------------------------------------------------
(* Sums over the corners of a cell.                                          *)

LEMMA CornerFields ==
  /\ \A c \in Corners : c[1] \in {0, 1} /\ c[2] \in {0, 1} /\ c[3] \in {0, 1}
  /\ \A x, y, z \in {0, 1} : <<x, y, z>> \in Corners
  /\ \A c \in Corners : c = <<c[1], c[2], c[3]>>
BY DEF Corners

LEMMA TheEight ==
  /\ <<0, 0, 0>> \in Corners /\ <<1, 0, 0>> \in Corners
  /\ <<0, 1, 0>> \in Corners /\ <<1, 1, 0>> \in Corners
  /\ <<0, 0, 1>> \in Corners /\ <<1, 0, 1>> \in Corners
  /\ <<0, 1, 1>> \in Corners /\ <<1, 1, 1>> \in Corners
BY DEF Corners

LEMMA SumType ==
  ASSUME NEW f \in [Corners -> Nat]
  PROVE  OverCorners(f) \in Nat /\ \A c \in Corners : f[c] <= OverCorners(f)
<1>1. OverCorners(f) \in Nat
  BY TheEight DEF OverCorners
<1>2. ASSUME NEW c \in Corners PROVE f[c] <= OverCorners(f)
  <2> DEFINE x == f[<<0, 0, 0>>]
  <2>1. \E i, j, k \in {0, 1} : c = <<i, j, k>>
    BY CornerFields
  <2>2. \A d \in Corners : f[d] \in Nat
    OBVIOUS
  <2> QED
    BY <2>1, <2>2, TheEight DEF OverCorners
<1> QED
  BY <1>1, <1>2

LEMMA SumMonotone ==
  ASSUME NEW f \in [Corners -> Int], NEW g \in [Corners -> Int],
         \A c \in Corners : f[c] <= g[c]
  PROVE  OverCorners(f) <= OverCorners(g)
BY TheEight DEF OverCorners

LEMMA SumScaled ==
  ASSUME NEW f \in [Corners -> Int], NEW k \in Int
  PROVE  OverCorners([c \in Corners |-> f[c] * k]) = OverCorners(f) * k
<1> DEFINE g == [c \in Corners |-> f[c] * k]
<1>1. /\ g[<<0, 0, 0>>] = f[<<0, 0, 0>>] * k /\ g[<<1, 0, 0>>] = f[<<1, 0, 0>>] * k
      /\ g[<<0, 1, 0>>] = f[<<0, 1, 0>>] * k /\ g[<<1, 1, 0>>] = f[<<1, 1, 0>>] * k
      /\ g[<<0, 0, 1>>] = f[<<0, 0, 1>>] * k /\ g[<<1, 0, 1>>] = f[<<1, 0, 1>>] * k
      /\ g[<<0, 1, 1>>] = f[<<0, 1, 1>>] * k /\ g[<<1, 1, 1>>] = f[<<1, 1, 1>>] * k
  BY TheEight
<1>2. /\ f[<<0, 0, 0>>] \in Int /\ f[<<1, 0, 0>>] \in Int
      /\ f[<<0, 1, 0>>] \in Int /\ f[<<1, 1, 0>>] \in Int
      /\ f[<<0, 0, 1>>] \in Int /\ f[<<1, 0, 1>>] \in Int
      /\ f[<<0, 1, 1>>] \in Int /\ f[<<1, 1, 1>>] \in Int
  BY TheEight
<1> HIDE DEF g
<1>3. OverCorners(g) = OverCorners(f) * k
  BY <1>1, <1>2 DEF OverCorners
<1> QED
  BY <1>3 DEF g

\* All of the weight in one corner.
LEMMA SumOfOne ==
  ASSUME NEW f \in [Corners -> Int], NEW c \in Corners,
         \A d \in Corners : d # c => f[d] = 0
  PROVE  OverCorners(f) = f[c]
<1>1. c[1] \in {0, 1} /\ c[2] \in {0, 1} /\ c[3] \in {0, 1} /\ c = <<c[1], c[2], c[3]>>
  BY CornerFields
<1>2. ASSUME NEW x \in {0, 1}, NEW y \in {0, 1}, NEW z \in {0, 1}
      PROVE  f[<<x, y, z>>] = IF x = c[1] /\ y = c[2] /\ z = c[3] THEN f[c] ELSE 0
  <2>1. <<x, y, z>> \in Corners
    BY CornerFields
  <2>2. CASE x = c[1] /\ y = c[2] /\ z = c[3]
    BY <1>1, <2>2
  <2>3. CASE ~(x = c[1] /\ y = c[2] /\ z = c[3])
    <3>1. <<x, y, z>> # c
      BY <1>1, <2>3
    <3> QED
      BY <2>1, <2>3, <3>1
  <2> QED
    BY <2>2, <2>3
<1>3. f[c] \in Int
  OBVIOUS
<1> QED
  BY <1>1, <1>2, <1>3 DEF OverCorners

-----------------------------------------------------------------------------
(* Looking up a color.                                                       *)

Ideals(n) == [1 .. 3 -> 0 .. 2 * (n - 1)]

\* The lower side of the cell of a color.
Low(n, ideal, ch) == IF ideal[ch] \div 2 <= n - 2 THEN ideal[ch] \div 2 ELSE n - 2

LEMMA SmallerOfTwo ==
  ASSUME NEW a \in Int, NEW b \in Int
  PROVE  Min({a, b}) = IF a <= b THEN a ELSE b
<1> DEFINE m == IF a <= b THEN a ELSE b
<1>1. m \in {a, b} /\ \A y \in {a, b} : m <= y
  OBVIOUS
<1>2. \A x \in {a, b} : (\A y \in {a, b} : x <= y) => x = m
  OBVIOUS
<1> HIDE DEF m
<1>3. (CHOOSE x \in {a, b} : \A y \in {a, b} : x <= y) = m
  BY <1>1, <1>2
<1> QED
  BY <1>3 DEF Min, m

LEMMA CellOf ==
  ASSUME NEW n \in Nat, n > 1, NEW ideal \in Ideals(n), NEW ch \in 1 .. 3
  PROVE  /\ FirstCorner(n, ideal)[ch] = Low(n, ideal, ch)
         /\ Min({ideal[ch] \div 2, n - 2}) = Low(n, ideal, ch)
         /\ Low(n, ideal, ch) \in 0 .. (n - 2)
         /\ ideal[ch] \in 0 .. 2 * (n - 1)
         /\ ideal[ch] % 2 = 0 =>
              /\ ideal[ch] = 2 * (ideal[ch] \div 2)
              /\ (ideal[ch] \div 2) - Low(n, ideal, ch) \in {0, 1}
<1> DEFINE half == ideal[ch] \div 2
<1>1. ideal[ch] \in 0 .. 2 * (n - 1)
  BY DEF Ideals
<1>2. half \in Nat /\ 2 * half <= ideal[ch] /\ half <= n - 1
  BY <1>1
<1>3. ideal[ch] % 2 = 0 => ideal[ch] = 2 * half
  BY <1>1
<1>4. Min({half, n - 2}) = Low(n, ideal, ch)
  <2> HIDE DEF half
  <2>1. Min({half, n - 2}) = IF half <= n - 2 THEN half ELSE n - 2
    BY <1>2, SmallerOfTwo
  <2> QED
    BY <2>1 DEF Low, half
<1>5. FirstCorner(n, ideal)[ch] = Clamp(half, 0, n - 2)
  BY DEF FirstCorner
<1> HIDE DEF half
<1>6. Low(n, ideal, ch) = IF half <= n - 2 THEN half ELSE n - 2
  BY DEF Low, half
<1>7. FirstCorner(n, ideal)[ch] = Low(n, ideal, ch)
  BY <1>2, <1>5, <1>6 DEF Clamp
<1>8. Low(n, ideal, ch) \in 0 .. (n - 2) /\ half - Low(n, ideal, ch) \in {0, 1}
  BY <1>2, <1>6
<1> QED
  BY <1>1, <1>3, <1>4, <1>7, <1>8 DEF half

LEMMA CellTypes ==
  ASSUME NEW n \in Nat, n > 1, NEW ideal \in Ideals(n)
  PROVE  \A ch \in 1 .. 3 : /\ FirstCorner(n, ideal)[ch] = Low(n, ideal, ch)
                           /\ Low(n, ideal, ch) \in Int /\ ideal[ch] \in Int
<1> SUFFICES ASSUME NEW ch \in 1 .. 3
             PROVE  /\ FirstCorner(n, ideal)[ch] = Low(n, ideal, ch)
                    /\ Low(n, ideal, ch) \in Int /\ ideal[ch] \in Int
  OBVIOUS
<1>1. /\ FirstCorner(n, ideal)[ch] = Low(n, ideal, ch)
      /\ Low(n, ideal, ch) \in 0 .. (n - 2) /\ ideal[ch] \in 0 .. 2 * (n - 1)
  BY CellOf
<1> QED
  BY <1>1

LEMMA Squares ==
  ASSUME NEW x \in Int, NEW y \in Int, NEW z \in Int
  PROVE  /\ x * x + y * y + z * z \in Nat
         /\ x * x + y * y + z * z = 0 <=> x = 0 /\ y = 0 /\ z = 0
<1>1. ASSUME NEW a \in Int PROVE a * a \in Nat /\ (a * a = 0 <=> a = 0)
  <2>1. CASE a >= 0
    BY <2>1
  <2>2. CASE a < 0
    BY <2>2
  <2> QED
    BY <2>1, <2>2
<1> QED
  BY <1>1

\* A corner is at no distance exactly when the color stands there.
LEMMA Distances ==
  ASSUME NEW n \in Nat, n > 1, NEW ideal \in Ideals(n), NEW c \in Corners
  PROVE  /\ DistSquared(n, ideal, c) \in Nat
         /\ DistSquared(n, ideal, c) = 0 <=>
              \A ch \in 1 .. 3 : 2 * (Low(n, ideal, ch) + c[ch]) = ideal[ch]
<1> DEFINE x == 2 * (Low(n, ideal, 1) + c[1]) - ideal[1]
           y == 2 * (Low(n, ideal, 2) + c[2]) - ideal[2]
           z == 2 * (Low(n, ideal, 3) + c[3]) - ideal[3]
<1>1. \A ch \in 1 .. 3 : /\ FirstCorner(n, ideal)[ch] = Low(n, ideal, ch)
                         /\ Low(n, ideal, ch) \in Int /\ ideal[ch] \in Int
  BY CellTypes
<1>2. c[1] \in Int /\ c[2] \in Int /\ c[3] \in Int
  BY CornerFields
<1>3. x \in Int /\ y \in Int /\ z \in Int
  BY <1>1, <1>2
<1>4. DistSquared(n, ideal, c) = x * x + y * y + z * z
  BY <1>1 DEF DistSquared
<1>5. /\ x = 0 <=> 2 * (Low(n, ideal, 1) + c[1]) = ideal[1]
      /\ y = 0 <=> 2 * (Low(n, ideal, 2) + c[2]) = ideal[2]
      /\ z = 0 <=> 2 * (Low(n, ideal, 3) + c[3]) = ideal[3]
  <2>1. /\ Low(n, ideal, 1) \in Int /\ Low(n, ideal, 2) \in Int /\ Low(n, ideal, 3) \in Int
        /\ ideal[1] \in Int /\ ideal[2] \in Int /\ ideal[3] \in Int
    BY <1>1
  <2> DEFINE at1 == Low(n, ideal, 1) + c[1]
             at2 == Low(n, ideal, 2) + c[2]
             at3 == Low(n, ideal, 3) + c[3]
  <2>2. at1 \in Int /\ at2 \in Int /\ at3 \in Int
    BY <1>2, <2>1
  <2> HIDE DEF at1, at2, at3
  <2>3. 2 * at1 - ideal[1] = 0 <=> 2 * at1 = ideal[1]
    BY <2>1, <2>2
  <2>4. 2 * at2 - ideal[2] = 0 <=> 2 * at2 = ideal[2]
    BY <2>1, <2>2
  <2>5. 2 * at3 - ideal[3] = 0 <=> 2 * at3 = ideal[3]
    BY <2>1, <2>2
  <2> USE DEF at1, at2, at3
  <2> QED
    BY <2>3, <2>4, <2>5
<1> HIDE DEF x, y, z
<1>6. (\A ch \in 1 .. 3 : 2 * (Low(n, ideal, ch) + c[ch]) = ideal[ch])
        <=> x = 0 /\ y = 0 /\ z = 0
  <2>1. \A ch \in 1 .. 3 : ch = 1 \/ ch = 2 \/ ch = 3
    OBVIOUS
  <2> QED
    BY <1>5, <2>1
<1>7. /\ x * x + y * y + z * z \in Nat
      /\ x * x + y * y + z * z = 0 <=> x = 0 /\ y = 0 /\ z = 0
  BY <1>3, Squares
<1> QED
  BY <1>4, <1>6, <1>7

LEMMA TwoCorners ==
  ASSUME NEW n \in Nat, n > 1, NEW ideal \in Ideals(n), NEW c \in Corners, NEW d \in Corners,
         DistSquared(n, ideal, c) = 0, DistSquared(n, ideal, d) = 0
  PROVE  c = d
<1>1. \A ch \in 1 .. 3 : 2 * (Low(n, ideal, ch) + c[ch]) = 2 * (Low(n, ideal, ch) + d[ch])
  BY Distances
<1>2. \A ch \in 1 .. 3 : Low(n, ideal, ch) \in Int
  BY CellTypes
<1>3. /\ c[1] \in Int /\ c[2] \in Int /\ c[3] \in Int /\ c = <<c[1], c[2], c[3]>>
      /\ d[1] \in Int /\ d[2] \in Int /\ d[3] \in Int /\ d = <<d[1], d[2], d[3]>>
  BY CornerFields
<1>4. c[1] = d[1] /\ c[2] = d[2] /\ c[3] = d[3]
  BY <1>1, <1>2, <1>3
<1> QED
  BY <1>3, <1>4

\* Weights are inverse distances: there is some weight, and none but one for a color
\* that stands at a corner.
LEMMA WeightsAre ==
  ASSUME NEW n \in Nat, n > 1, NEW ideal \in Ideals(n)
  PROVE  /\ Weights(n, ideal) \in [Corners -> Nat]
         /\ OverCorners(Weights(n, ideal)) \in Nat \ {0}
         /\ \A c \in Corners : DistSquared(n, ideal, c) = 0 =>
              /\ Weights(n, ideal)[c] = 1
              /\ \A d \in Corners : d # c => Weights(n, ideal)[d] = 0
<1> DEFINE dist == [c \in Corners |-> DistSquared(n, ideal, c)]
           w == Weights(n, ideal)
<1>1. dist \in [Corners -> Nat]
  BY Distances
<1>2. w = IF \E c \in Corners : dist[c] = 0
          THEN [c \in Corners |-> IF dist[c] = 0 THEN 1 ELSE 0]
          ELSE [c \in Corners |-> ProductOver(dist) \div dist[c]]
  BY DEF Weights
<1>3. \A c, d \in Corners : dist[c] = 0 /\ dist[d] = 0 => c = d
  BY TwoCorners
<1>4. \A c \in Corners : dist[c] = DistSquared(n, ideal, c)
  OBVIOUS
<1> HIDE DEF dist, w
<1>5. CASE \E c \in Corners : dist[c] = 0
  <2>1. w = [c \in Corners |-> IF dist[c] = 0 THEN 1 ELSE 0]
    BY <1>2, <1>5
  <2>2. w \in [Corners -> Nat]
    BY <2>1
  <2>3. \A c \in Corners : dist[c] = 0 =>
          w[c] = 1 /\ \A d \in Corners : d # c => w[d] = 0
    BY <1>3, <2>1
  <2>4. PICK c \in Corners : w[c] = 1
    BY <1>5, <2>3
  <2>5. OverCorners(w) \in Nat /\ 1 <= OverCorners(w)
    BY <2>2, <2>4, SumType
  <2> QED
    BY <1>4, <2>2, <2>3, <2>5 DEF w
<1>6. CASE \A c \in Corners : dist[c] # 0
  <2>1. w = [c \in Corners |-> ProductOver(dist) \div dist[c]]
    BY <1>2, <1>6
  <2>2. \A c \in Corners : dist[c] \in Nat \ {0}
    BY <1>1, <1>6
  <2> DEFINE c == <<0, 0, 0>>
             q == dist[<<1, 0, 0>>] * dist[<<0, 1, 0>>] * dist[<<1, 1, 0>>]
                    * dist[<<0, 0, 1>>] * dist[<<1, 0, 1>>] * dist[<<0, 1, 1>>]
                    * dist[<<1, 1, 1>>]
  <2>3. \A x, y \in Nat \ {0} : x * y \in Nat \ {0}
    OBVIOUS
  <2>4. q \in Nat \ {0} /\ dist[c] \in Nat \ {0} /\ c \in Corners
    BY <2>2, <2>3, TheEight
  <2>5. ProductOver(dist) = q * dist[c]
    BY <2>2, TheEight DEF ProductOver
  <2> HIDE DEF c, q
  <2>6. ProductOver(dist) \in Nat
    BY <2>4, <2>5
  <2>7. w \in [Corners -> Nat]
    <3>1. \A x \in Nat, y \in Nat \ {0} : x \div y \in Nat
      OBVIOUS
    <3> QED
      BY <2>1, <2>2, <2>6, <3>1
  <2>8. w[c] = q
    <3> DEFINE m == dist[c]
    <3>1. m \in Nat \ {0} /\ q \in Nat /\ 0 \in Nat /\ 0 < m /\ ProductOver(dist) = q * m
      BY <2>4, <2>5
    <3> HIDE DEF m
    <3>2. (0 + q * m) \div m = q
      BY <3>1, DivMod
    <3>3. (q * m) \div m = q
      BY <3>1, <3>2
    <3> QED
      BY <2>1, <2>4, <3>1, <3>3 DEF m
  <2>9. OverCorners(w) \in Nat /\ q <= OverCorners(w)
    BY <2>4, <2>7, <2>8, SumType
  <2> QED
    BY <1>4, <1>6, <2>4, <2>7, <2>9 DEF w
<1> QED
  BY <1>5, <1>6

\* An identity HALD of n x n x n, in exact levels.
IsHald(im, n) ==
  \A k \in 0 .. (n * n * n - 1) : im.pixels[k] = HaldPixel(n, k)

Place(n, ideal, c, ch) == Low(n, ideal, ch) + c[ch]

LEMMA PlaceTypes ==
  ASSUME NEW n \in Nat, n > 1, NEW ideal \in Ideals(n), NEW c \in Corners, NEW ch \in 1 .. 3
  PROVE  /\ Place(n, ideal, c, ch) \in 0 .. (n - 1)
         /\ Low(n, ideal, ch) \in Nat
         /\ Low(n, ideal, ch) <= Place(n, ideal, c, ch)
         /\ Place(n, ideal, c, ch) <= Low(n, ideal, ch) + 1
<1>1. Low(n, ideal, ch) \in 0 .. (n - 2)
  BY CellOf
<1>2. c[ch] \in {0, 1}
  BY CornerFields
<1> QED
  BY <1>1, <1>2 DEF Place

\* The color at a corner of a cell.
LEMMA CornerColor ==
  ASSUME NEW hald, NEW n \in Nat, n > 1, One % (n - 1) = 0, IsHald(hald, n),
         NEW ideal \in Ideals(n), NEW c \in Corners, NEW ch \in 1 .. 3
  PROVE  hald.pixels[FirstCorner(n, ideal)[1] + c[1] + (FirstCorner(n, ideal)[2] + c[2]) * n
                       + (FirstCorner(n, ideal)[3] + c[3]) * n * n][ch]
           = (One \div (n - 1)) * Place(n, ideal, c, ch)
<1> DEFINE cell == One \div (n - 1)
           r == Place(n, ideal, c, 1)
           g == Place(n, ideal, c, 2)
           b == Place(n, ideal, c, 3)
<1>1. r \in 0 .. (n - 1) /\ g \in 0 .. (n - 1) /\ b \in 0 .. (n - 1)
  BY PlaceTypes
<1>2. /\ FirstCorner(n, ideal)[1] + c[1] = r
      /\ FirstCorner(n, ideal)[2] + c[2] = g
      /\ FirstCorner(n, ideal)[3] + c[3] = b
  BY CellTypes DEF Place
<1>3. ch = 1 \/ ch = 2 \/ ch = 3
  OBVIOUS
<1>4. /\ ch = 1 => Place(n, ideal, c, ch) = r
      /\ ch = 2 => Place(n, ideal, c, ch) = g
      /\ ch = 3 => Place(n, ideal, c, ch) = b
  OBVIOUS
<1> HIDE DEF r, g, b
<1>5. CubeIndex(n, r, g, b) \in 0 .. (n * n * n - 1)
  <2>1. n \in Nat \ {0} /\ r \in Nat /\ g \in Nat /\ b \in Nat /\ r < n /\ g < n /\ b < n
    BY <1>1
  <2> QED
    BY <2>1, PlaceOf
<1>6. HaldPixel(n, CubeIndex(n, r, g, b)) = <<cell * r, cell * g, cell * b>>
  BY <1>1, CubeLevels
<1>7. hald.pixels[CubeIndex(n, r, g, b)] = <<cell * r, cell * g, cell * b>>
  BY <1>5, <1>6 DEF IsHald
<1> HIDE DEF cell
<1>8. hald.pixels[CubeIndex(n, r, g, b)][ch] = cell * Place(n, ideal, c, ch)
  BY <1>3, <1>4, <1>7
<1>9. hald.pixels[r + g * n + b * n * n][ch] = cell * Place(n, ideal, c, ch)
  BY <1>8 DEF CubeIndex
<1> QED
  BY <1>2, <1>9 DEF cell

\* The channel of a color looked up is a mean of those of the corners.
LEMMA LookedUp ==
  ASSUME NEW hald, NEW n \in Nat, n > 1, One % (n - 1) = 0, IsHald(hald, n),
         NEW ideal \in Ideals(n), NEW ch \in 1 .. 3
  PROVE  /\ HaldCLUTLookup(hald, n, ideal).over = OverCorners(Weights(n, ideal))
         /\ HaldCLUTLookup(hald, n, ideal).color[ch]
              = OverCorners([c \in Corners |-> Weights(n, ideal)[c]
                                                 * ((One \div (n - 1)) * Place(n, ideal, c, ch))])
<1> DEFINE first == FirstCorner(n, ideal)
           w == Weights(n, ideal)
           value(c) == hald.pixels[first[1] + c[1] + (first[2] + c[2]) * n
                                     + (first[3] + c[3]) * n * n]
           term == [c \in Corners |-> w[c] * ((One \div (n - 1)) * Place(n, ideal, c, ch))]
           dst == HaldCLUTLookup(hald, n, ideal)
<1>1. /\ dst.over = OverCorners(w)
      /\ dst.color[ch] = OverCorners([c \in Corners |-> w[c] * value(c)[ch]])
  BY DEF HaldCLUTLookup
<1>2. \A c \in Corners : value(c)[ch] = (One \div (n - 1)) * Place(n, ideal, c, ch)
  BY CornerColor
<1>3. [c \in Corners |-> w[c] * value(c)[ch]] = term
  <2> HIDE DEF w, value
  <2> QED
    BY <1>2
<1> HIDE DEF w, value, term, dst
<1>4. dst.over = OverCorners(w) /\ dst.color[ch] = OverCorners(term)
  BY <1>1, <1>3
<1> QED
  BY <1>4 DEF w, term, dst

\* A mean is between the bounds of what it is a mean of.
LEMMA MeanWithin ==
  ASSUME NEW w \in [Corners -> Nat], NEW v \in [Corners -> Nat], NEW cell \in Nat,
         NEW lo \in Nat, NEW hi \in Nat, \A c \in Corners : lo <= v[c] /\ v[c] <= hi
  PROVE  LET mean == OverCorners([c \in Corners |-> w[c] * (cell * v[c])])
         IN  OverCorners(w) * cell * lo <= mean /\ mean <= OverCorners(w) * cell * hi
<1> DEFINE below == [c \in Corners |-> w[c] * (cell * lo)]
           above == [c \in Corners |-> w[c] * (cell * hi)]
           term == [c \in Corners |-> w[c] * (cell * v[c])]
<1>1. \A x, y, a, b \in Nat : a <= b => x * (y * a) <= x * (y * b)
  <2> SUFFICES ASSUME NEW x \in Nat, NEW y \in Nat, NEW a \in Nat, NEW b \in Nat, a <= b
               PROVE  x * (y * a) <= x * (y * b)
    OBVIOUS
  <2>1. PICK d \in Nat : b = a + d
    BY b - a \in Nat
  <2>2. x * (y * b) = x * (y * a) + x * (y * d) /\ x * (y * d) \in Nat
    BY <2>1
  <2> QED
    BY <2>2
<1>2. below \in [Corners -> Int] /\ above \in [Corners -> Int] /\ term \in [Corners -> Int]
  OBVIOUS
<1>3. \A c \in Corners : below[c] <= term[c] /\ term[c] <= above[c]
  BY <1>1
<1>4. cell * lo \in Int /\ cell * hi \in Int /\ w \in [Corners -> Int]
  OBVIOUS
<1>5. OverCorners(below) = OverCorners(w) * (cell * lo)
      /\ OverCorners(above) = OverCorners(w) * (cell * hi)
  BY <1>4, SumScaled
<1> HIDE DEF below, above, term
<1>6. OverCorners(below) <= OverCorners(term) /\ OverCorners(term) <= OverCorners(above)
  BY <1>2, <1>3, SumMonotone
<1>7. OverCorners(w) \in Nat
  BY SumType
<1>8. OverCorners(w) * (cell * lo) = OverCorners(w) * cell * lo
      /\ OverCorners(w) * (cell * hi) = OverCorners(w) * cell * hi
  BY <1>7
<1> QED
  BY <1>5, <1>6, <1>8 DEF term

\* A color that stands in the cube is a corner of its cell.
LEMMA AtGridPoint ==
  ASSUME NEW n \in Nat, n > 1, NEW ideal \in Ideals(n), \A ch \in 1 .. 3 : ideal[ch] % 2 = 0
  PROVE  \E c \in Corners : /\ DistSquared(n, ideal, c) = 0
                            /\ \A ch \in 1 .. 3 : Place(n, ideal, c, ch) = ideal[ch] \div 2
<1> DEFINE offset(ch) == (ideal[ch] \div 2) - Low(n, ideal, ch)
           c == <<offset(1), offset(2), offset(3)>>
<1>1. ASSUME NEW ch \in 1 .. 3
      PROVE  /\ offset(ch) \in {0, 1}
             /\ ideal[ch] = 2 * (ideal[ch] \div 2)
             /\ Low(n, ideal, ch) + offset(ch) = ideal[ch] \div 2
  <2>1. /\ ideal[ch] = 2 * (ideal[ch] \div 2) /\ offset(ch) \in {0, 1}
        /\ Low(n, ideal, ch) \in 0 .. (n - 2) /\ ideal[ch] \in 0 .. 2 * (n - 1)
    BY CellOf
  <2>2. ideal[ch] \div 2 \in Int
    BY <2>1
  <2> QED
    BY <2>1, <2>2
<1> HIDE DEF offset
<1>2. c \in Corners
  <2>1. offset(1) \in {0, 1} /\ offset(2) \in {0, 1} /\ offset(3) \in {0, 1}
    BY <1>1
  <2> QED
    BY <2>1, CornerFields
<1>3. \A ch \in 1 .. 3 : c[ch] = offset(ch)
  OBVIOUS
<1> HIDE DEF c
<1>4. \A ch \in 1 .. 3 : Place(n, ideal, c, ch) = ideal[ch] \div 2
  BY <1>1, <1>3 DEF Place
<1>5. \A ch \in 1 .. 3 : 2 * (Low(n, ideal, ch) + c[ch]) = ideal[ch]
  BY <1>1, <1>3
<1>6. DistSquared(n, ideal, c) = 0
  BY <1>2, <1>5, Distances
<1> QED
  BY <1>2, <1>4, <1>6

\* Looking a color up in an identity HALD of any size: the color lies in its cell, and
\* one at a point of the grid is left as it is.
LEMMA LookupInterpolates ==
  ASSUME NEW hald, NEW n \in Nat, n > 1, One % (n - 1) = 0, IsHald(hald, n),
         NEW ideal \in Ideals(n), NEW ch \in 1 .. 3
  PROVE  LET cell == One \div (n - 1)
             dst  == HaldCLUTLookup(hald, n, ideal)
             low  == Min({ideal[ch] \div 2, n - 2})
         IN  /\ dst.over > 0
             /\ (\A c \in 1 .. 3 : ideal[c] % 2 = 0)
                  => dst.color[ch] = dst.over * cell * (ideal[ch] \div 2)
             /\ dst.over * cell * low <= dst.color[ch]
             /\ dst.color[ch] <= dst.over * cell * (low + 1)
<1> DEFINE cell == One \div (n - 1)
           dst  == HaldCLUTLookup(hald, n, ideal)
           low  == Min({ideal[ch] \div 2, n - 2})
           w    == Weights(n, ideal)
           v    == [c \in Corners |-> Place(n, ideal, c, ch)]
           term == [c \in Corners |-> w[c] * (cell * v[c])]
<1>1. low = Low(n, ideal, ch) /\ low \in Nat
  <2>1. low = Low(n, ideal, ch) /\ Low(n, ideal, ch) \in 0 .. (n - 2)
    BY CellOf
  <2> HIDE DEF low
  <2> QED
    BY <2>1
<1>2. \A c \in Corners : v[c] \in Nat /\ low <= v[c] /\ v[c] <= low + 1
  <2>1. \A c \in Corners : /\ v[c] \in Nat
                           /\ Low(n, ideal, ch) <= v[c] /\ v[c] <= Low(n, ideal, ch) + 1
    BY PlaceTypes
  <2> HIDE DEF low
  <2> QED
    BY <1>1, <2>1
<1>3. v \in [Corners -> Nat]
  BY <1>2
<1>4. cell \in Nat
  <2>1. n - 1 \in Nat \ {0} /\ One \in Nat
    BY ImageStringAssumption
  <2> QED
    BY <2>1
<1>5. /\ w \in [Corners -> Nat]
      /\ OverCorners(w) \in Nat \ {0}
      /\ \A c \in Corners : DistSquared(n, ideal, c) = 0 =>
           w[c] = 1 /\ \A d \in Corners : d # c => w[d] = 0
  BY WeightsAre
<1>6. dst.over = OverCorners(w) /\ dst.color[ch] = OverCorners(term)
  <2>1. term = [c \in Corners |-> w[c] * (cell * Place(n, ideal, c, ch))]
    OBVIOUS
  <2> HIDE DEF term
  <2> QED
    BY <2>1, LookedUp
<1>7. \A c \in Corners : v[c] = Place(n, ideal, c, ch)
  OBVIOUS
<1> HIDE DEF cell, dst, low, w, v
<1>8. OverCorners(w) * cell * low <= OverCorners(term)
      /\ OverCorners(term) <= OverCorners(w) * cell * (low + 1)
  <2> DEFINE high == low + 1
             mean == OverCorners([c \in Corners |-> w[c] * (cell * v[c])])
  <2>1. high \in Nat /\ \A c \in Corners : low <= v[c] /\ v[c] <= high
    BY <1>1, <1>2
  <2> HIDE DEF high
  <2>2. w \in [Corners -> Nat] /\ v \in [Corners -> Nat] /\ cell \in Nat /\ low \in Nat
    BY <1>1, <1>3, <1>4, <1>5
  <2>3. OverCorners(w) * cell * low <= mean /\ mean <= OverCorners(w) * cell * high
    BY ONLY <2>1, <2>2, MeanWithin
  <2> QED
    BY <2>3 DEF high
<1>9. ASSUME \A c \in 1 .. 3 : ideal[c] % 2 = 0
      PROVE  dst.color[ch] = dst.over * cell * (ideal[ch] \div 2)
  <2>1. PICK c \in Corners : /\ DistSquared(n, ideal, c) = 0
                             /\ Place(n, ideal, c, ch) = ideal[ch] \div 2
    BY <1>9, AtGridPoint
  <2>2. w[c] = 1 /\ \A d \in Corners : d # c => w[d] = 0
    BY <1>5, <2>1
  <2>3. OverCorners(w) = 1
    BY <1>5, <2>2, SumOfOne
  <2>4. term \in [Corners -> Int] /\ \A d \in Corners : d # c => term[d] = 0
    BY <1>3, <1>4, <1>5, <2>2
  <2>5. term[c] = cell * v[c]
    BY <1>3, <1>4, <2>2
  <2> HIDE DEF term
  <2>6. OverCorners(term) = cell * v[c]
    BY <2>4, <2>5, SumOfOne
  <2>7. v[c] = ideal[ch] \div 2 /\ v[c] \in Nat
    BY <1>3, <1>7, <2>1
  <2> QED
    BY <1>4, <1>6, <2>3, <2>6, <2>7
<1>10. dst.over > 0
  BY <1>5, <1>6
<1> QED
  BY <1>6, <1>8, <1>9, <1>10 DEF cell, dst, low

-----------------------------------------------------------------------------
(* Strings of one word, a HALD: what comes out at each stage.                *)

LEMMA SideOf ==
  ASSUME NEW n \in Nat, HaldSide(n) # 0
  PROVE  HaldSide(n) \in Nat \ {0} /\ HaldSide(n) * HaldSide(n) = n * n * n
<1> DEFINE roots == {i \in 0 .. 31 : i * i = n}
           i == CHOOSE i \in roots : TRUE
<1>1. HaldSide(n) = IF roots = {} THEN 0 ELSE i * i * i
  BY DEF HaldSide
<1>2. roots # {} /\ HaldSide(n) = i * i * i
  BY <1>1
<1>3. i \in roots
  BY <1>2
<1> HIDE DEF i
<1>4. i \in Nat /\ i * i = n
  <2>1. \A j \in roots : j \in Nat /\ j * j = n
    OBVIOUS
  <2> HIDE DEF roots
  <2> QED
    BY <1>3, <2>1
<1> HIDE DEF roots
<1> DEFINE s == i * i * i
<1>5. s \in Nat
  BY <1>4
<1>6. s * s = (i * i) * (i * i) * (i * i)
  BY <1>4
<1>7. s * s = n * n * n
  BY <1>4, <1>6
<1> HIDE DEF s
<1>8. HaldSide(n) = s
  BY <1>2 DEF s
<1> QED
  BY <1>5, <1>7, <1>8

\* The pixel of an image at an index.
LEMMA NewPixel ==
  ASSUME NEW w \in Nat \ {0}, NEW h \in Nat \ {0}, NEW pixel,
         NEW k \in Nat, k < w * h
  PROVE  /\ NewImage(w, h, pixel).pixels[k] = pixel[<<k % w, k \div w>>]
         /\ <<k % w, k \div w>> \in Places(w, h)
         /\ (k % w) + (k \div w) * w = k
<1>1. NewImage(w, h, pixel).pixels[k] = pixel[<<k % w, k \div w>>]
  <2> DEFINE m == w * h
  <2>1. k \in 0 .. (m - 1)
    OBVIOUS
  <2> HIDE DEF m
  <2>2. NewImage(w, h, pixel).pixels
          = [j \in 0 .. (m - 1) |-> pixel[<<j % w, j \div w>>]]
    BY DEF NewImage, m
  <2> QED
    BY <2>1, <2>2
<1> DEFINE a == k % w
           d == k \div w
<1>2. k < w * h
  OBVIOUS
<1>3. a \in 0 .. (w - 1) /\ d \in Nat /\ k = w * d + a
  BY <1>2
<1> HIDE DEF a, d
<1>4. d < h
  <2>1. CASE d >= h
    <3>1. PICK e \in Nat : d = h + e
      BY <1>3, <2>1, d - h \in Nat
    <3>2. w * d = w * h + w * e /\ w * e \in Nat
      BY <3>1
    <3> QED
      BY <1>2, <1>3, <3>2
  <2> QED
    BY <1>3, <2>1
<1>5. <<a, d>> \in Places(w, h)
  BY <1>3, <1>4 DEF Places
<1>6. a + d * w = k
  BY <1>3
<1> QED
  BY <1>1, <1>5, <1>6 DEF a, d

\* The same for a square.
LEMMA SquarePixel ==
  ASSUME NEW s \in Nat \ {0}, NEW pixel, NEW k \in Nat, k < s * s
  PROVE  /\ NewImage(s, s, pixel).pixels[k] = pixel[<<k % s, k \div s>>]
         /\ <<k % s, k \div s>> \in Places(s, s)
         /\ (k % s) + (k \div s) * s = k
<1>1. NewImage(s, s, pixel).pixels[k] = pixel[<<k % s, k \div s>>]
  BY NewPixel
<1>2. <<k % s, k \div s>> \in Places(s, s)
  BY NewPixel
<1>3. (k % s) + (k \div s) * s = k
  BY NewPixel
<1> QED
  BY <1>1, <1>2, <1>3

LEMMA HaldImageIsHald ==
  ASSUME NEW n \in Nat \ {0}, HaldSide(n) # 0
  PROVE  IsHald(Rotated(HaldImage(n), 0), n)
<1> DEFINE s == HaldSide(n)
           im == HaldImage(n)
           upright == [xy \in Places(s, s) |-> HaldPixel(n, xy[1] + xy[2] * s)]
           source == [xy \in Places(s, s) |-> im.pixels[xy[1] + xy[2] * s]]
<1>1. s \in Nat \ {0} /\ s * s = n * n * n
  BY SideOf
<1>2. im = NewImage(s, s, upright) /\ im.width = s /\ im.height = s
  BY DEF HaldImage, NewImage
<1>3. Rotated(im, 0) = NewImage(s, s, source)
  <2> HIDE DEF im, s
  <2>1. ~(0 \in {1, 3})
    OBVIOUS
  <2> QED
    BY <1>2, <2>1 DEF Rotated
<1> SUFFICES ASSUME NEW k \in 0 .. (n * n * n - 1)
             PROVE  Rotated(im, 0).pixels[k] = HaldPixel(n, k)
  BY DEF IsHald
<1>4. k \in Nat /\ k < s * s
  <2> DEFINE m == n * n * n
  <2>1. k \in 0 .. (m - 1) /\ m \in Int
    OBVIOUS
  <2> HIDE DEF m, s
  <2>2. k \in Nat /\ k < m
    BY <2>1
  <2>3. s * s = m
    BY <1>1 DEF m
  <2> QED
    BY <2>2, <2>3
<1> HIDE DEF s, im
<1>5. /\ <<k % s, k \div s>> \in Places(s, s)
      /\ (k % s) + (k \div s) * s = k
      /\ NewImage(s, s, source).pixels[k] = source[<<k % s, k \div s>>]
      /\ NewImage(s, s, upright).pixels[k] = upright[<<k % s, k \div s>>]
  <2> HIDE DEF source, upright
  <2> QED
    BY <1>1, <1>4, SquarePixel
<1>6. source[<<k % s, k \div s>>] = im.pixels[k]
  BY <1>5
<1>7. upright[<<k % s, k \div s>>] = HaldPixel(n, k)
  BY <1>5
<1> QED
  BY <1>2, <1>3, <1>5, <1>6, <1>7

\* A string of one word, a HALD of a color cube.
OneHald == Len(input) = 1 /\ Len(input[1]) = 1 /\ input[1][1].type = "hald" /\ input[1][1].n > 1

HaldLevels == input[1][1].n
HaldToken == [Zeroed EXCEPT !.hald = HaldLevels]

LEMMA HaldFacts ==
  ASSUME input \in Inputs, OneHald
  PROVE  HaldLevels \in Nat /\ HaldLevels > 1 /\ One % (HaldLevels - 1) = 0
<1>1. IsSequence(input) /\ Len(input) = 1
  BY InputsAssumption DEF OneHald
<1>2. 1 \in DOMAIN input
  BY <1>1, LenProperties DEF IsSequence
<1>3. IsSequence(input[1]) /\ Len(input[1]) = 1
  BY <1>2, InputsAssumption DEF OneHald
<1>4. 1 \in DOMAIN input[1]
  BY <1>3, LenProperties DEF IsSequence
<1>5. IsWord(input[1][1])
  BY <1>2, <1>4, InputsAssumption
<1> DEFINE word == input[1][1]
<1>6. IsWord(word) /\ word.type = "hald" /\ word.n > 1
  BY <1>5 DEF OneHald
<1> HIDE DEF word
<1>7. word.n \in Nat /\ One % (word.n - 1) = 0
  BY <1>6 DEF IsWord
<1> QED
  BY <1>6, <1>7 DEF HaldLevels, word

\* What a list of one token says.
LEMMA OneSaid ==
  ASSUME NEW t, NEW field, NEW default
  PROVE  LastSaid(<<t>>, field, default) = IF t[field] = 0 THEN default ELSE t
<1> DEFINE ts == <<t>>
           said == {k \in DOMAIN ts : ts[k][field] # 0}
<1>1. LastSaid(ts, field, default) = IF said = {} THEN default ELSE ts[Max(said)]
  BY DEF LastSaid
<1>2. DOMAIN ts = {1} /\ ts[1] = t
  OBVIOUS
<1>3. CASE t[field] = 0
  <2>1. said = {}
    BY <1>2, <1>3
  <2> QED
    BY <1>1, <1>3, <2>1
<1>4. CASE t[field] # 0
  <2>1. said = {1}
    BY <1>2, <1>4
  <2>2. Max({1}) = 1
    BY DEF Max
  <2> HIDE DEF said
  <2>3. LastSaid(ts, field, default) = ts[1]
    BY <1>1, <2>1, <2>2
  <2> QED
    BY <1>2, <1>4, <2>3
<1> QED
  BY <1>3, <1>4

LEMMA NoTurns ==
  ASSUME NEW t, t.rotate = 0
  PROVE  TurnsSaid(<<t>>) = 0
<1> DEFINE ts == <<t>>
           turns == [k \in DOMAIN ts |-> ts[k].rotate]
<1>1. TurnsSaid(ts) = Sums(turns)[1] % 4
  BY DEF TurnsSaid
<1>2. turns = <<0>>
  OBVIOUS
<1> HIDE DEF turns
<1>3. Len(turns) = 1 /\ turns[1] = 0
  BY <1>2
<1>4. Sums(turns)[0] = 0 /\ Sums(turns)[1] = Sums(turns)[1 - 1] + turns[1]
  BY <1>3, SumsAre
<1> QED
  BY <1>1, <1>3, <1>4

\* The image of such a stripe, whatever the size of the stripe before.
LEMMA HaldInterpreted ==
  ASSUME NEW n \in Nat, n > 1, NEW t, t = [Zeroed EXCEPT !.hald = n], NEW w, NEW h
  PROVE  interpretTokens(<<t>>, w, h)
           = IF HaldSide(n) = 0 THEN NoImage ELSE Rotated(HaldImage(n), 0)
<1> DEFINE ts == <<t>>
           said == Said(ts, w, h)
<1>1. t.hald = n /\ t.cie = 0 /\ t.rotate = 0 /\ Zeroed.cie = 0
  BY DEF Zeroed
<1>2. LastSaid(ts, "hald", Zeroed) = t /\ LastSaid(ts, "cie", Zeroed) = Zeroed
  <2>1. /\ LastSaid(ts, "hald", Zeroed) = IF t["hald"] = 0 THEN Zeroed ELSE t
        /\ LastSaid(ts, "cie", Zeroed) = IF t["cie"] = 0 THEN Zeroed ELSE t
    BY OneSaid
  <2> HIDE DEF ts
  <2> QED
    BY <1>1, <2>1
<1>3. TurnsSaid(ts) = 0
  BY <1>1, NoTurns
<1> HIDE DEF ts
<1>4. said.hald = n /\ said.cie = 0 /\ said.rotate = 0
  BY <1>1, <1>2, <1>3 DEF Said
<1> HIDE DEF said
<1>5. interpretTokens(ts, w, h)
        = IF HaldSide(n) = 0 THEN NoImage ELSE Rotated(HaldImage(n), 0)
  <2>1. said.cie = 0 /\ said.hald > 0 /\ ~(said.cie > 0) /\ said.hald # 0
    BY <1>4
  <2> QED
    BY <1>4, <2>1 DEF interpretTokens, said
<1> QED
  BY <1>5 DEF ts

\* The stages of such a string.
HaldInv ==
  /\ input \in Inputs
  /\ OneHald =>
       /\ pc \in {"open", "parse", "interpret"} => stripeImages = <<>>
       /\ pc = "parse" => at = 0 /\ tokens = <<>>
       /\ pc = "interpret" => tokens = <<HaldToken>>
       /\ pc = "stack" => \E im : stripeImages = <<im>> /\ IsHald(im, HaldLevels)
       /\ pc \notin {"cleanup", "done"} => result = NoImage
       /\ result = NoImage \/ IsHald(result, HaldLevels)

LEMMA HaldInit == Init => HaldInv
BY DEF Init, HaldInv

LEMMA HaldStep == HaldInv /\ [Next]_vars => HaldInv'
<1> SUFFICES ASSUME HaldInv, [Next]_vars PROVE HaldInv'
  OBVIOUS
<1>1. input' = input
  BY DEF Next, NoStripes, OpenFailed, Open, ParseFails, Parse, StripeFailed, Interpret, Stack,
         Cleanup, Ended, vars
<1>2. input' \in Inputs /\ OneHald' = OneHald /\ HaldLevels' = HaldLevels /\ HaldToken' = HaldToken
  BY <1>1 DEF HaldInv, OneHald, HaldLevels, HaldToken
<1> SUFFICES ASSUME OneHald
             PROVE  /\ pc' \in {"open", "parse", "interpret"} => stripeImages' = <<>>
                    /\ pc' = "parse" => at' = 0 /\ tokens' = <<>>
                    /\ pc' = "interpret" => tokens' = <<HaldToken>>
                    /\ pc' = "stack" => \E im : stripeImages' = <<im>> /\ IsHald(im, HaldLevels)
                    /\ pc' \notin {"cleanup", "done"} => result' = NoImage
                    /\ result' = NoImage \/ IsHald(result', HaldLevels)
  BY <1>1, <1>2 DEF HaldInv
<1> DEFINE n == HaldLevels
<1>3. input \in Inputs /\ n \in Nat /\ n > 1
  BY HaldFacts DEF HaldInv
<1>4. /\ pc \in {"open", "parse", "interpret"} => stripeImages = <<>>
      /\ pc = "parse" => at = 0 /\ tokens = <<>>
      /\ pc = "interpret" => tokens = <<HaldToken>>
      /\ pc = "stack" => \E im : stripeImages = <<im>> /\ IsHald(im, n)
      /\ pc \notin {"cleanup", "done"} => result = NoImage
      /\ result = NoImage \/ IsHald(result, n)
  BY DEF HaldInv
<1> HIDE DEF n
<1>5. CASE NoStripes \/ OpenFailed
  BY <1>4, <1>5 DEF NoStripes, OpenFailed, n
<1>6. CASE Open
  BY <1>4, <1>6 DEF Open, n
<1>7. CASE ParseFails \/ StripeFailed
  BY <1>4, <1>7 DEF ParseFails, StripeFailed, n
<1>8. CASE Parse
  <2>1. at = 0 /\ tokens = <<>> /\ stripeImages = <<>> /\ result = NoImage
    BY <1>4, <1>8 DEF Parse
  <2>2. Stripe = input[1] /\ NextWord = input[1][1]
    BY <2>1 DEF Stripe, NextWord
  <2>3. parseNext(NextWord) = HaldToken
    <3>1. NextWord.type = "hald" /\ NextWord.n = HaldLevels
      BY <2>2 DEF OneHald, HaldLevels
    <3> QED
      BY <3>1 DEF parseNext, HaldToken
  <2>4. HaldToken.repeat = 0
    BY DEF HaldToken, Zeroed
  <2>5. tokens' = Append(tokens, HaldToken)
    BY <1>8, <2>3, <2>4 DEF Parse
  <2>6. tokens' = <<HaldToken>>
    BY <2>1, <2>5
  <2>7. pc' = "interpret"
    BY <1>8, <2>1, <2>2 DEF Parse, OneHald
  <2>8. UNCHANGED <<stripeImages, result>>
    BY <1>8 DEF Parse
  <2> QED
    BY <2>1, <2>6, <2>7, <2>8
<1>9. CASE Interpret
  <2> DEFINE image == interpretTokens(tokens, prevW, prevH)
  <2>1. tokens = <<HaldToken>> /\ stripeImages = <<>> /\ result = NoImage
    BY <1>4, <1>9 DEF Interpret
  <2>2. image = IF HaldSide(n) = 0 THEN NoImage ELSE Rotated(HaldImage(n), 0)
    BY <1>3, <2>1, HaldInterpreted DEF HaldToken, n
  <2>3. result' = result
    BY <1>9 DEF Interpret
  <2>4. CASE image = NoImage
    <3>1. pc' = "cleanup"
      BY <1>9, <2>4 DEF Interpret
    <3> QED
      BY <2>1, <2>3, <3>1
  <2>5. CASE image # NoImage
    <3>1. IsHald(image, n)
      BY <1>3, <2>2, <2>5, HaldImageIsHald
    <3>2. stripeImages' = Append(stripeImages, image)
          /\ pc' = IF Len(stripeImages) + 1 = Len(input) THEN "stack" ELSE "open"
      BY <1>9, <2>5 DEF Interpret
    <3> HIDE DEF image
    <3>3. stripeImages' = <<image>> /\ pc' = "stack"
      BY <2>1, <3>2 DEF OneHald
    <3> QED
      BY <2>1, <2>3, <3>1, <3>3 DEF n
  <2> QED
    BY <2>4, <2>5
<1>10. CASE Stack
  <2>1. result' = stripeImages[1] /\ pc = "stack" /\ pc' = "cleanup"
    BY <1>10 DEF Stack, OneHald
  <2>2. PICK im : stripeImages = <<im>> /\ IsHald(im, n)
    BY <1>4, <2>1
  <2>3. result' = im
    BY <2>1, <2>2
  <2> QED
    BY <2>1, <2>2, <2>3 DEF n
<1>11. CASE Cleanup
  BY <1>4, <1>11 DEF Cleanup, n
<1>12. CASE UNCHANGED vars
  BY <1>4, <1>12 DEF vars, n
<1> QED
  BY <1>5, <1>6, <1>7, <1>8, <1>9, <1>10, <1>11, <1>12 DEF Next, Ended

\* Looking colors up in the image of a one-word HALD string, of any size whose levels
\* are exact: a color at a point of the grid comes back as it is, any other lies in
\* its cell in every channel (clPixelMathHaldCLUTLookup).
THEOREM HaldLookupsInterpolate == Spec => []HaldInterpolates
<1>1. HaldInv => HaldInterpolates
  <2> SUFFICES ASSUME HaldInv, pc = "done", result # NoImage, OneHald,
                      NEW ideal \in [1 .. 3 -> 0 .. 2 * (HaldLevels - 1)], NEW ch \in 1 .. 3
               PROVE  LET cell == One \div (HaldLevels - 1)
                          dst  == HaldCLUTLookup(result, HaldLevels, ideal)
                          low  == Min({ideal[ch] \div 2, HaldLevels - 2})
                      IN  /\ dst.over > 0
                          /\ (\A c \in 1 .. 3 : ideal[c] % 2 = 0)
                               => dst.color[ch] = dst.over * cell * (ideal[ch] \div 2)
                          /\ dst.over * cell * low <= dst.color[ch]
                          /\ dst.color[ch] <= dst.over * cell * (low + 1)
    BY Zenon DEF HaldInterpolates, OneHald, HaldLevels
  <2>1. HaldLevels \in Nat /\ HaldLevels > 1 /\ One % (HaldLevels - 1) = 0
    BY HaldFacts DEF HaldInv
  <2>2. IsHald(result, HaldLevels)
    BY DEF HaldInv
  <2>3. ideal \in Ideals(HaldLevels)
    BY DEF Ideals
  <2> QED
    BY <2>1, <2>2, <2>3, LookupInterpolates, Zenon
<1> QED
  BY <1>1, HaldInit, HaldStep, PTL DEF Spec

-----------------------------------------------------------------------------
(* Sequences joined.                                                         *)

Lens(seqs) == [k \in DOMAIN seqs |-> Len(seqs[k])]

LEMMA LensAre ==
  ASSUME NEW S, NEW seqs \in Seq(Seq(S))
  PROVE  /\ Lens(seqs) \in Seq(Nat) /\ Len(Lens(seqs)) = Len(seqs) /\ Len(seqs) \in Nat
         /\ DOMAIN seqs = 1 .. Len(seqs)
         /\ \A k \in 1 .. Len(seqs) : seqs[k] \in Seq(S) /\ Lens(seqs)[k] = Len(seqs[k])
                                      /\ Len(seqs[k]) \in Nat
<1>1. Len(seqs) \in Nat /\ DOMAIN seqs = 1 .. Len(seqs)
  BY LenProperties
<1>2. \A k \in 1 .. Len(seqs) : seqs[k] \in Seq(S) /\ Len(seqs[k]) \in Nat
  BY ElementOfSeq, LenProperties
<1>3. Lens(seqs) \in [1 .. Len(seqs) -> Nat]
  BY <1>1, <1>2 DEF Lens
<1>4. Lens(seqs) \in Seq(Nat) /\ Len(Lens(seqs)) = Len(seqs)
  <2> DEFINE f == Lens(seqs)
             m == Len(seqs)
  <2>1. f \in [1 .. m -> Nat] /\ m \in Nat
    BY <1>1, <1>3
  <2> HIDE DEF f, m
  <2>2. f \in Seq(Nat) /\ Len(f) = m
    BY <2>1
  <2> QED
    BY <2>2 DEF f, m
<1> QED
  BY <1>1, <1>2, <1>4 DEF Lens

LEMMA FlattenExists ==
  ASSUME NEW seqs
  PROVE  \A n \in Nat :
           \E f : f = [i \in 1 .. n |-> IF i = 1 THEN seqs[i] ELSE f[i - 1] \o seqs[i]]
<1> DEFINE Step(f, n) == [i \in 1 .. n |-> IF i = 1 THEN seqs[i] ELSE f[i - 1] \o seqs[i]]
           T == {n \in Nat : \E f : f = Step(f, n)}
<1>1. 0 \in T
  <2> DEFINE f == [i \in 1 .. 0 |-> seqs[i]]
  <2>1. f = Step(f, 0)
    OBVIOUS
  <2> QED
    BY <2>1
<1>2. ASSUME NEW n \in Nat, n \in T PROVE n + 1 \in T
  <2>1. PICK f : f = Step(f, n)
    BY <1>2
  <2> DEFINE new == IF n = 0 THEN seqs[1] ELSE f[n] \o seqs[n + 1]
             g == [i \in 1 .. (n + 1) |-> IF i = n + 1 THEN new ELSE f[i]]
  <2>2. \A i \in 1 .. (n + 1) : g[i] = IF i = 1 THEN seqs[i] ELSE g[i - 1] \o seqs[i]
    <3> SUFFICES ASSUME NEW i \in 1 .. (n + 1)
                 PROVE  g[i] = IF i = 1 THEN seqs[i] ELSE g[i - 1] \o seqs[i]
      OBVIOUS
    <3>1. CASE i = n + 1
      BY <3>1
    <3>2. CASE i # n + 1
      <4>1. i \in 1 .. n /\ g[i] = f[i]
        BY <3>2
      <4>2. i # 1 => g[i - 1] = f[i - 1]
        BY <4>1
      <4>3. f[i] = IF i = 1 THEN seqs[i] ELSE f[i - 1] \o seqs[i]
        BY <2>1, <4>1
      <4> HIDE DEF g
      <4> QED
        BY <4>1, <4>2, <4>3
    <3> QED
      BY <3>1, <3>2
  <2>3. g = [i \in 1 .. (n + 1) |-> g[i]]
    OBVIOUS
  <2> HIDE DEF g
  <2>4. g = Step(g, n + 1)
    BY <2>2, <2>3
  <2>5. \E h : h = Step(h, n + 1)
    <3> HIDE DEF Step
    <3> QED
      BY <2>4
  <2> HIDE DEF Step
  <2> QED
    BY <2>5
<1>3. \A n \in Nat : n \in T
  <2> HIDE DEF T
  <2> QED
    BY <1>1, <1>2, Induction
<1> QED
  BY <1>3

\* A member of a member, after those before it are joined.
LEMMA Flattened ==
  ASSUME NEW S, NEW seqs \in Seq(Seq(S))
  PROVE  /\ FlattenSeq(seqs) \in Seq(S)
         /\ Len(FlattenSeq(seqs)) = Sums(Lens(seqs))[Len(seqs)]
         /\ \A k \in 1 .. Len(seqs) : \A j \in 1 .. Len(seqs[k]) :
              FlattenSeq(seqs)[Sums(Lens(seqs))[k - 1] + j] = seqs[k][j]
<1> DEFINE n == Len(seqs)
           end == Sums(Lens(seqs))
           Step(f) == [i \in 1 .. n |-> IF i = 1 THEN seqs[i] ELSE f[i - 1] \o seqs[i]]
           flatten == CHOOSE f : f = Step(f)
<1>1. n \in Nat /\ \A k \in 1 .. n : seqs[k] \in Seq(S) /\ Len(seqs[k]) \in Nat
  BY LensAre
<1>2. end[0] = 0 /\ \A k \in 1 .. n : end[k] = end[k - 1] + Len(seqs[k])
  BY LensAre, SumsAre
<1>3. \A k \in 0 .. n : end[k] \in Nat
  <2>1. Lens(seqs) \in Seq(Nat) /\ Lens(seqs) \in Seq(Int) /\ Len(Lens(seqs)) = n
    BY LensAre, SeqMonotonic
  <2>2. \A k \in 0 .. n : end[k] \in Int
    BY <2>1, SumsType
  <2>3. \A k \in 0 .. n : end[0] <= end[k]
    BY <1>1, <2>1, SumsRise
  <2> HIDE DEF end
  <2> QED
    BY <1>2, <2>2, <2>3
<1>4. CASE n = 0
  <2>1. FlattenSeq(seqs) = <<>>
    BY <1>4, EmptySeq DEF FlattenSeq
  <2> HIDE DEF end
  <2>2. <<>> \in Seq(S) /\ Len(<<>>) = 0
    OBVIOUS
  <2> QED
    BY <1>2, <1>4, <2>1, <2>2 DEF end
<1>5. CASE n # 0
  <2>1. FlattenSeq(seqs) = flatten[n]
    BY <1>5 DEF FlattenSeq
  <2>2. flatten = Step(flatten)
    BY <1>1, FlattenExists
  <2> HIDE DEF flatten, end, n
  <2>3. \A i \in 1 .. n : flatten[i] = IF i = 1 THEN seqs[i] ELSE flatten[i - 1] \o seqs[i]
    BY <2>2
  <2> DEFINE Joins(m) == /\ flatten[m] \in Seq(S)
                         /\ Len(flatten[m]) = end[m]
                         /\ \A k \in 1 .. m : \A j \in 1 .. Len(seqs[k]) :
                              flatten[m][end[k - 1] + j] = seqs[k][j]
             T == {d \in Nat : d + 1 <= n => Joins(d + 1)}
  <2>4. 0 \in T
    <3>1. 1 \in 1 .. n /\ 0 + 1 = 1
      BY <1>1, <1>5
    <3>2. flatten[1] = seqs[1] /\ end[1] = Len(seqs[1]) /\ end[1 - 1] = 0
      BY <1>1, <1>2, <2>3, <3>1
    <3>3. Joins(1)
      BY <1>1, <3>1, <3>2
    <3> HIDE DEF Joins
    <3> QED
      BY <3>1, <3>3
  <2>5. ASSUME NEW d \in Nat, d \in T PROVE d + 1 \in T
    <3> SUFFICES ASSUME (d + 1) + 1 <= n PROVE Joins((d + 1) + 1)
      OBVIOUS
    <3> DEFINE m == d + 1
               new == seqs[m + 1]
    <3>1. m \in 1 .. n /\ m + 1 \in 1 .. n /\ (m + 1) - 1 = m /\ m + 1 # 1 /\ m \in 0 .. n
          /\ m + 1 \in 0 .. n
      BY <1>1
    <3>2. Joins(m)
      <4> HIDE DEF Joins
      <4>1. d + 1 <= n
        BY <1>1
      <4> QED
        BY <2>5, <4>1
    <3> HIDE DEF m
    <3>3. flatten[m + 1] = flatten[m] \o new
      BY <2>3, <3>1
    <3>4. new \in Seq(S) /\ Len(new) \in Nat /\ end[m + 1] = end[m] + Len(new) /\ end[m] \in Nat
      BY <1>1, <1>2, <1>3, <3>1
    <3> HIDE DEF new
    <3>5. /\ flatten[m + 1] \in Seq(S)
          /\ Len(flatten[m + 1]) = end[m] + Len(new)
          /\ \A i \in 1 .. end[m] + Len(new) :
               flatten[m + 1][i] = IF i <= end[m] THEN flatten[m][i] ELSE new[i - end[m]]
      <4>1. flatten[m] \in Seq(S) /\ Len(flatten[m]) = end[m]
        BY <3>2
      <4> QED
        BY <3>3, <3>4, <4>1, ConcatProperties
    <3>6. ASSUME NEW k \in 1 .. (m + 1), NEW j \in 1 .. Len(seqs[k])
          PROVE  flatten[m + 1][end[k - 1] + j] = seqs[k][j]
      <4>1. k \in 1 .. n /\ k - 1 \in 0 .. n /\ k \in 0 .. n
        BY <3>1, <1>1
      <4>2. Len(seqs[k]) \in Nat /\ end[k - 1] \in Nat /\ end[k] = end[k - 1] + Len(seqs[k])
            /\ end[k] \in Nat
        BY <1>1, <1>2, <1>3, <4>1
      <4>3. CASE k = m + 1
        <5>1. k - 1 = m /\ seqs[k] = new
          BY <3>1, <4>3 DEF new
        <5>2. /\ end[m] + j \in 1 .. end[m] + Len(new) /\ ~(end[m] + j <= end[m])
              /\ (end[m] + j) - end[m] = j
          BY <3>4, <5>1
        <5>3. flatten[m + 1][end[m] + j] = new[(end[m] + j) - end[m]]
          BY <3>5, <5>2
        <5> QED
          BY <5>1, <5>2, <5>3
      <4>4. CASE k # m + 1
        <5>1. k \in 1 .. m
          BY <3>1, <4>4
        <5>2. end[k] <= end[m]
          <6>1. Lens(seqs) \in Seq(Nat) /\ Len(Lens(seqs)) = n
            BY LensAre DEF n
          <6>2. k \in 0 .. n /\ m \in 0 .. n /\ k <= m
            BY <3>1, <4>1, <5>1
          <6> QED
            BY <6>1, <6>2, SumsRise DEF end
        <5>3. end[k - 1] + j \in 1 .. end[m] + Len(new) /\ end[k - 1] + j <= end[m]
          <6> DEFINE a == end[k - 1]
                     b == end[k]
                     c == end[m]
                     l == Len(seqs[k])
          <6>1. /\ a \in Nat /\ b \in Nat /\ c \in Nat /\ l \in Nat /\ b = a + l /\ b <= c
                /\ Len(new) \in Nat /\ j \in 1 .. l
            BY <3>4, <4>2, <5>2
          <6> HIDE DEF a, b, c, l
          <6>2. a + j \in 1 .. c + Len(new) /\ a + j <= c
            BY <6>1
          <6> QED
            BY <6>2 DEF a, c
        <5>4. flatten[m][end[k - 1] + j] = seqs[k][j]
          BY <3>2, <5>1
        <5> QED
          BY <3>5, <5>3, <5>4
      <4> QED
        BY <4>3, <4>4
    <3>7. Len(flatten[m + 1]) = end[m + 1]
      BY <3>4, <3>5
    <3>8. Joins(m + 1)
      BY <3>5, <3>6, <3>7
    <3> QED
      BY <3>8 DEF m
  <2>6. \A d \in Nat : d \in T
    <3> HIDE DEF T
    <3> QED
      BY <2>4, <2>5, Induction
  <2>7. Joins(n)
    <3>1. n - 1 \in Nat /\ (n - 1) + 1 = n
      BY <1>1, <1>5
    <3> HIDE DEF Joins
    <3> QED
      BY <2>6, <3>1
  <2> QED
    BY <2>1, <2>7 DEF n, end
<1> QED
  BY <1>4, <1>5

-----------------------------------------------------------------------------
(* Words and their tokens.                                                   *)

LEMMA Levelled ==
  ASSUME NEW c, IsColor(c), NEW ch \in 1 .. 3
  PROVE  /\ Level(c, ch) \in Int
         /\ c.depth # 32 => /\ MaxLevel[c.depth] \in Nat \ {0}
                            /\ Level(c, ch) \in 0 .. MaxLevel[c.depth]
<1>1. c.levels[ch] \in Int
  BY DEF IsColor, Levels
<1>2. CASE c.depth = 32
  BY <1>1, <1>2 DEF Level
<1>3. CASE c.depth # 32
  <2>1. c.depth \in {8, 16}
    BY <1>3 DEF IsColor, Depths
  <2>2. MaxLevel[c.depth] \in Nat \ {0}
    BY <2>1, ImageStringAssumption
  <2> QED
    BY <1>1, <1>3, <2>2 DEF Level, Clamp
<1> QED
  BY <1>2, <1>3

LEMMA Finished ==
  ASSUME NEW c, IsColor(c)
  PROVE  finishColor(c) \in Levels
<1>1. ASSUME NEW ch \in 1 .. 3 PROVE finishColor(c)[ch] \in Int
  <2>1. Level(c, ch) \in Int
    BY Levelled
  <2>2. CASE c.depth = 32
    BY <2>1, <2>2 DEF finishColor
  <2>3. CASE c.depth # 32
    <3> DEFINE q == One \div MaxLevel[c.depth]
    <3>1. q \in Int
      BY <2>3, Levelled, ImageStringAssumption
    <3>2. finishColor(c)[ch] = Level(c, ch) * q
      BY <2>3 DEF finishColor
    <3> HIDE DEF q
    <3> QED
      BY <2>1, <3>1, <3>2
  <2> QED
    BY <2>2, <2>3
<1> QED
  BY <1>1 DEF finishColor, Levels

LEMMA LargestOfThree ==
  ASSUME NEW d \in [1 .. 3 -> Int]
  PROVE  \E ch \in 1 .. 3 : \A other \in 1 .. 3 : d[other] <= d[ch]
<1>1. d[1] \in Int /\ d[2] \in Int /\ d[3] \in Int
  OBVIOUS
<1>2. \E m \in {d[1], d[2], d[3]} : d[1] <= m /\ d[2] <= m /\ d[3] <= m
  BY <1>1
<1>3. \A other \in 1 .. 3 : other = 1 \/ other = 2 \/ other = 3
  OBVIOUS
<1>4. 1 \in 1 .. 3 /\ 2 \in 1 .. 3 /\ 3 \in 1 .. 3
  OBVIOUS
<1> QED
  BY <1>1, <1>2, <1>3, <1>4

\* Of a range that is not counted, the levels of its widest channel are.
LEMMA FullRange ==
  ASSUME NEW w, IsColor(w.start), IsColor(w.end), w.start.depth # 32,
         w.start.depth = w.end.depth, w.count = 0
  PROVE  finishRange(w) = FullCount(w) /\ finishRange(w) \in Nat \ {0}
<1> DEFINE level(c, ch) == LET l == c.levels[ch]
                               m == MaxLevel[c.depth]
                           IN  IF l > m THEN m ELSE IF l < 0 THEN 0 ELSE l
           M == MaxLevel[w.start.depth]
           d == [ch \in 1 .. 3 |-> Distance(Level(w.start, ch), Level(w.end, ch))]
           diffs == {Distance(Level(w.start, ch), Level(w.end, ch)) : ch \in 1 .. 3}
           most == CHOOSE m \in diffs : \A n \in diffs : n <= m
           wide == CHOOSE ch \in 1 .. 3 :
                     \A other \in 1 .. 3 :
                       Distance(level(w.start, other), level(w.end, other))
                         <= Distance(level(w.start, ch), level(w.end, ch))
           between == {l \in 0 .. M :
                         \/ level(w.start, wide) <= l /\ l <= level(w.end, wide)
                         \/ level(w.end, wide) <= l /\ l <= level(w.start, wide)}
<1>1. M \in Nat \ {0} /\ \A ch \in 1 .. 3 : Level(w.start, ch) \in 0 .. M /\ Level(w.end, ch) \in 0 .. M
  BY Levelled
<1>2. ASSUME NEW ch \in 1 .. 3
      PROVE  level(w.start, ch) = Level(w.start, ch) /\ level(w.end, ch) = Level(w.end, ch)
  <2>1. w.start.levels[ch] \in Int /\ w.end.levels[ch] \in Int
    BY DEF IsColor, Levels
  <2> QED
    BY <1>1, <2>1 DEF Level, Clamp
<1>3. finishRange(w) = 1 + most
  BY DEF finishRange
<1>4. FullCount(w) = Cardinality(between)
  BY DEF FullCount
<1> HIDE DEF level
<1>5. d \in [1 .. 3 -> Nat]
  BY <1>1 DEF Distance
<1>6. wide \in 1 .. 3 /\ \A other \in 1 .. 3 : d[other] <= d[wide]
  <2>1. \E ch \in 1 .. 3 : \A other \in 1 .. 3 : d[other] <= d[ch]
    BY <1>5, LargestOfThree
  <2>2. \A ch \in 1 .. 3 : Distance(level(w.start, ch), level(w.end, ch)) = d[ch]
    BY <1>2
  <2> HIDE DEF d
  <2> QED
    BY <2>1, <2>2
<1> HIDE DEF wide
<1>7. most = d[wide]
  <2>1. diffs = {d[ch] : ch \in 1 .. 3}
    OBVIOUS
  <2> HIDE DEF d, diffs
  <2>2. d[wide] \in diffs /\ \A n \in diffs : n <= d[wide]
    BY <1>6, <2>1
  <2>3. most \in diffs /\ \A n \in diffs : n <= most
    BY <2>2
  <2>4. diffs \subseteq Nat
    BY <1>5, <2>1
  <2> HIDE DEF most
  <2>5. most <= d[wide] /\ d[wide] <= most /\ most \in Nat /\ d[wide] \in Nat
    BY <2>2, <2>3, <2>4
  <2> QED
    BY <2>5
<1> DEFINE a == Level(w.start, wide)
           b == Level(w.end, wide)
<1>8. a \in 0 .. M /\ b \in 0 .. M /\ d[wide] = Distance(a, b)
  BY <1>1, <1>6
<1>9. between = {l \in 0 .. M : (a <= l /\ l <= b) \/ (b <= l /\ l <= a)}
  BY <1>2, <1>6
<1> HIDE DEF a, b, M, between, most, d
<1>10. Cardinality(between) = 1 + Distance(a, b)
  <2>1. CASE a <= b
    <3>1. between = a .. b
      BY <1>1, <1>8, <1>9, <2>1
    <3>2. Cardinality(a .. b) = b - a + 1
      BY <1>1, <1>8, <2>1, FS_Interval
    <3> QED
      BY <1>1, <1>8, <2>1, <3>1, <3>2 DEF Distance
  <2>2. CASE b < a
    <3>1. between = b .. a
      BY <1>1, <1>8, <1>9, <2>2
    <3>2. Cardinality(b .. a) = a - b + 1
      BY <1>1, <1>8, <2>2, FS_Interval
    <3> QED
      BY <1>1, <1>8, <2>2, <3>1, <3>2 DEF Distance
  <2> QED
    BY <1>1, <1>8, <2>1, <2>2
<1>11. finishRange(w) = 1 + Distance(a, b) /\ Distance(a, b) \in Nat
  BY <1>1, <1>3, <1>7, <1>8 DEF Distance
<1> QED
  BY <1>4, <1>10, <1>11

LEMMA WordTypes ==
  ASSUME NEW w, IsWord(w)
  PROVE  \/ w.type = "color" /\ IsColor(w.start)
         \/ w.type = "range" /\ IsColor(w.start) /\ IsColor(w.end) /\ w.count \in Nat
         \/ w.type = "repeat" /\ w.n \in Nat
         \/ w.type = "dims" /\ w.w \in Nat /\ w.h \in Nat
         \/ w.type = "hald" /\ w.n \in Nat
         \/ w.type = "cie" /\ w.n \in Nat
         \/ w.type = "rotate" /\ w.n \in Int
         \/ w.type \in {"bad", "junk", "unreadable"}
BY DEF IsWord

\* A range that is not counted where it has to be.
Uncounted(w) == w.count = 0 /\ (w.start.depth = 32 \/ w.start.depth # w.end.depth)

LEMMA NullIsNone == NULL \notin Nat /\ \A t \in Token : t # NULL
BY NullAssumption

LEMMA RangeCount ==
  ASSUME NEW w, IsColor(w.start), IsColor(w.end), w.count \in Nat
  PROVE  /\ Uncounted(w) => finishRange(w) = NULL
         /\ ~Uncounted(w) => /\ finishRange(w) \in Nat \ {0}
                             /\ finishRange(w) = IF w.count # 0 THEN w.count ELSE FullCount(w)
<1>1. CASE w.count # 0
  <2>1. finishRange(w) = w.count
    BY <1>1 DEF finishRange
  <2>2. ~Uncounted(w)
    BY <1>1 DEF Uncounted
  <2> QED
    BY <1>1, <2>1, <2>2
<1>2. CASE Uncounted(w)
  <2>1. w.count = 0 /\ (w.start.depth = 32 \/ w.start.depth # w.end.depth)
    BY <1>2 DEF Uncounted
  <2>2. finishRange(w) = NULL
    BY <2>1 DEF finishRange
  <2> QED
    BY <1>2, <2>2
<1>3. CASE w.count = 0 /\ ~Uncounted(w)
  <2>1. w.start.depth # 32 /\ w.start.depth = w.end.depth
    BY <1>3 DEF Uncounted
  <2>2. finishRange(w) = FullCount(w) /\ finishRange(w) \in Nat \ {0}
    BY <1>3, <2>1, FullRange
  <2> QED
    BY <1>3, <2>2
<1> QED
  BY <1>1, <1>2, <1>3

\* Words that are in error on their own.
Bad(w) == w.type = "bad" \/ (w.type = "range" /\ Uncounted(w))

Numbers(w) ==
  [width  |-> IF w.type = "dims" THEN w.w ELSE 0,
   height |-> IF w.type = "dims" THEN w.h ELSE 0,
   repeat |-> IF w.type = "repeat" THEN w.n ELSE 0,
   hald   |-> IF w.type = "hald" THEN w.n ELSE 0,
   cie    |-> IF w.type = "cie" THEN w.n ELSE 0,
   rotate |-> IF w.type = "rotate" THEN w.n ELSE 0]

LEMMA ZeroedIsToken == Zeroed \in Token
BY DEF Zeroed, Token

LEMMA Parsed ==
  ASSUME NEW w, IsWord(w), w.type \notin {"junk", "unreadable"}
  PROVE  /\ Bad(w) => parseNext(w) = NULL
         /\ ~Bad(w) =>
              LET t == parseNext(w)
              IN  /\ t \in Token
                  /\ t.width = Numbers(w).width /\ t.height = Numbers(w).height
                  /\ t.repeat = Numbers(w).repeat /\ t.hald = Numbers(w).hald
                  /\ t.cie = Numbers(w).cie /\ t.rotate = Numbers(w).rotate
                  /\ t.count # 0 => /\ w.type \in {"color", "range"}
                                    /\ t.start = finishColor(w.start)
                  /\ w.type = "color" => t.count = 1
                  /\ w.type = "range" => t.count = finishRange(w) /\ t.end = finishColor(w.end)
<1> DEFINE t == parseNext(w)
<1>1. CASE w.type = "color"
  <2>1. t = [Zeroed EXCEPT !.start = finishColor(w.start), !.count = 1]
    BY <1>1 DEF parseNext
  <2>2. finishColor(w.start) \in Levels
    BY <1>1, WordTypes, Finished
  <2>3. t = [width |-> 0, height |-> 0, start |-> finishColor(w.start), end |-> NULL, count |-> 1,
             repeat |-> 0, hald |-> 0, cie |-> 0, rotate |-> 0]
    BY <2>1 DEF Zeroed
  <2> HIDE DEF t
  <2>4. t \in Token
    BY <2>2, <2>3 DEF Token
  <2> QED
    BY <1>1, <2>3, <2>4 DEF Bad, Numbers, t
<1>2. CASE w.type = "range" /\ Uncounted(w)
  <2>1. finishRange(w) = NULL
    BY <1>2, WordTypes, RangeCount
  <2>2. t = NULL
    BY <1>2, <2>1 DEF parseNext
  <2> QED
    BY <1>2, <2>2 DEF Bad
<1>3. CASE w.type = "range" /\ ~Uncounted(w)
  <2>1. finishRange(w) # NULL /\ finishRange(w) \in Nat
    BY <1>3, WordTypes, RangeCount, NullIsNone
  <2>2. t = [Zeroed EXCEPT !.start = finishColor(w.start), !.end = finishColor(w.end),
                           !.count = finishRange(w)]
    BY <1>3, <2>1 DEF parseNext
  <2>3. finishColor(w.start) \in Levels /\ finishColor(w.end) \in Levels
    BY <1>3, WordTypes, Finished
  <2>4. t = [width |-> 0, height |-> 0, start |-> finishColor(w.start), end |-> finishColor(w.end),
             count |-> finishRange(w), repeat |-> 0, hald |-> 0, cie |-> 0, rotate |-> 0]
    BY <2>2 DEF Zeroed
  <2> HIDE DEF t
  <2>5. t \in Token
    BY <2>1, <2>3, <2>4 DEF Token
  <2> QED
    BY <1>3, <2>4, <2>5 DEF Bad, Numbers, t
<1>4. CASE w.type = "bad"
  BY <1>4 DEF parseNext, Bad
<1>5. CASE w.type = "repeat"
  <2>1. t = [Zeroed EXCEPT !.repeat = w.n]
    BY <1>5 DEF parseNext
  <2> HIDE DEF t
  <2>0. w.n \in Nat
    BY <1>5, WordTypes
  <2>2. t = [width |-> 0, height |-> 0, start |-> NULL, end |-> NULL, count |-> 0,
             repeat |-> w.n, hald |-> 0, cie |-> 0, rotate |-> 0]
    BY <2>1 DEF Zeroed
  <2>3. t \in Token
    BY <2>2, <2>0 DEF Token
  <2>4. Numbers(w) = [width |-> 0, height |-> 0, repeat |-> w.n, hald |-> 0, cie |-> 0, rotate |-> 0]
    BY <1>5 DEF Numbers
  <2>5. ~Bad(w) /\ t.count = 0
    BY <1>5, <2>2 DEF Bad
  <2> QED
    BY <1>5, <2>2, <2>3, <2>4, <2>5 DEF t
<1>6. CASE w.type = "dims"
  <2>1. t = [Zeroed EXCEPT !.width = w.w, !.height = w.h]
    BY <1>6 DEF parseNext
  <2> HIDE DEF t
  <2>0. w.w \in Nat /\ w.h \in Nat
    BY <1>6, WordTypes
  <2>2. t = [width |-> w.w, height |-> w.h, start |-> NULL, end |-> NULL, count |-> 0,
             repeat |-> 0, hald |-> 0, cie |-> 0, rotate |-> 0]
    BY <2>1 DEF Zeroed
  <2>3. t \in Token
    BY <2>2, <2>0 DEF Token
  <2>4. Numbers(w) = [width |-> w.w, height |-> w.h, repeat |-> 0, hald |-> 0, cie |-> 0, rotate |-> 0]
    BY <1>6 DEF Numbers
  <2>5. ~Bad(w) /\ t.count = 0
    BY <1>6, <2>2 DEF Bad
  <2> QED
    BY <1>6, <2>2, <2>3, <2>4, <2>5 DEF t
<1>7. CASE w.type = "hald"
  <2>1. t = [Zeroed EXCEPT !.hald = w.n]
    BY <1>7 DEF parseNext
  <2> HIDE DEF t
  <2>0. w.n \in Nat
    BY <1>7, WordTypes
  <2>2. t = [width |-> 0, height |-> 0, start |-> NULL, end |-> NULL, count |-> 0,
             repeat |-> 0, hald |-> w.n, cie |-> 0, rotate |-> 0]
    BY <2>1 DEF Zeroed
  <2>3. t \in Token
    BY <2>2, <2>0 DEF Token
  <2>4. Numbers(w) = [width |-> 0, height |-> 0, repeat |-> 0, hald |-> w.n, cie |-> 0, rotate |-> 0]
    BY <1>7 DEF Numbers
  <2>5. ~Bad(w) /\ t.count = 0
    BY <1>7, <2>2 DEF Bad
  <2> QED
    BY <1>7, <2>2, <2>3, <2>4, <2>5 DEF t
<1>8. CASE w.type = "cie"
  <2>1. t = [Zeroed EXCEPT !.cie = w.n]
    BY <1>8 DEF parseNext
  <2> HIDE DEF t
  <2>0. w.n \in Nat
    BY <1>8, WordTypes
  <2>2. t = [width |-> 0, height |-> 0, start |-> NULL, end |-> NULL, count |-> 0,
             repeat |-> 0, hald |-> 0, cie |-> w.n, rotate |-> 0]
    BY <2>1 DEF Zeroed
  <2>3. t \in Token
    BY <2>2, <2>0 DEF Token
  <2>4. Numbers(w) = [width |-> 0, height |-> 0, repeat |-> 0, hald |-> 0, cie |-> w.n, rotate |-> 0]
    BY <1>8 DEF Numbers
  <2>5. ~Bad(w) /\ t.count = 0
    BY <1>8, <2>2 DEF Bad
  <2> QED
    BY <1>8, <2>2, <2>3, <2>4, <2>5 DEF t
<1>9. CASE w.type = "rotate"
  <2>1. t = [Zeroed EXCEPT !.rotate = w.n]
    BY <1>9 DEF parseNext
  <2> HIDE DEF t
  <2>0. w.n \in Int
    BY <1>9, WordTypes
  <2>2. t = [width |-> 0, height |-> 0, start |-> NULL, end |-> NULL, count |-> 0,
             repeat |-> 0, hald |-> 0, cie |-> 0, rotate |-> w.n]
    BY <2>1 DEF Zeroed
  <2>3. t \in Token
    BY <2>2, <2>0 DEF Token
  <2>4. Numbers(w) = [width |-> 0, height |-> 0, repeat |-> 0, hald |-> 0, cie |-> 0, rotate |-> w.n]
    BY <1>9 DEF Numbers
  <2>5. ~Bad(w) /\ t.count = 0
    BY <1>9, <2>2 DEF Bad
  <2> QED
    BY <1>9, <2>2, <2>3, <2>4, <2>5 DEF t
<1> QED
  BY <1>1, <1>2, <1>3, <1>4, <1>5, <1>6, <1>7, <1>8, <1>9, WordTypes

-----------------------------------------------------------------------------
(* The colors of a token and of its word.                                    *)

Good(w) == IsWord(w) /\ w.type \notin {"junk", "unreadable"} /\ ~Bad(w)

\* The token t stands for the entry e.
Stands(t, e) ==
  /\ Good(e.word)
  /\ t.repeat \in Nat
  /\ t = [parseNext(e.word) EXCEPT !.repeat = t.repeat]
  /\ e = [word |-> e.word, times |-> e.times]
  /\ e.times = IF t.repeat = 0 THEN 1 ELSE t.repeat

LEMMA StandsAs ==
  ASSUME NEW t, NEW e, Stands(t, e)
  PROVE  /\ t \in Token /\ e.times \in Nat
         /\ Span(t) = t.count * e.times
         /\ t.width = Numbers(e.word).width /\ t.height = Numbers(e.word).height
         /\ t.hald = Numbers(e.word).hald
         /\ t.cie = Numbers(e.word).cie /\ t.rotate = Numbers(e.word).rotate
<1> DEFINE p == parseNext(e.word)
<1>1. /\ p \in Token
      /\ p.width = Numbers(e.word).width /\ p.height = Numbers(e.word).height
      /\ p.hald = Numbers(e.word).hald
      /\ p.cie = Numbers(e.word).cie /\ p.rotate = Numbers(e.word).rotate
  BY Parsed DEF Stands, Good
<1>2. t = [p EXCEPT !.repeat = t.repeat] /\ t.repeat \in Nat
      /\ e.times = IF t.repeat = 0 THEN 1 ELSE t.repeat
  BY DEF Stands
<1> HIDE DEF p
<1>3. t = [width |-> p.width, height |-> p.height, start |-> p.start, end |-> p.end,
           count |-> p.count, repeat |-> t.repeat, hald |-> p.hald, cie |-> p.cie,
           rotate |-> p.rotate]
  <2>1. p = [width |-> p.width, height |-> p.height, start |-> p.start, end |-> p.end,
             count |-> p.count, repeat |-> p.repeat, hald |-> p.hald, cie |-> p.cie,
             rotate |-> p.rotate]
    BY <1>1 DEF Token
  <2> QED
    BY <1>2, <2>1
<1>4. t \in Token /\ t.count \in Nat
  BY <1>1, <1>2, <1>3 DEF Token
<1>5. /\ t.width = p.width /\ t.height = p.height /\ t.hald = p.hald /\ t.cie = p.cie
      /\ t.rotate = p.rotate
  BY <1>3
<1>6. Span(t) = t.count * e.times
  BY <1>2, <1>4 DEF Span
<1> QED
  BY <1>1, <1>2, <1>4, <1>5, <1>6

\* What a token takes over of the token of its word.
LEMMA SameColors ==
  ASSUME NEW t, NEW e, Stands(t, e)
  PROVE  LET p == parseNext(e.word)
         IN  t.count = p.count /\ t.start = p.start /\ t.end = p.end
<1> DEFINE p == parseNext(e.word)
<1>1. p \in Token
  BY Parsed DEF Stands, Good
<1>2. t = [p EXCEPT !.repeat = t.repeat]
  BY DEF Stands
<1> HIDE DEF p
<1>3. t.count = p.count /\ t.start = p.start /\ t.end = p.end
  BY <1>1, <1>2 DEF Token
<1> QED
  BY <1>3 DEF p

\* A blend from a to b: the same, whichever end it is counted from.
LEMMA Blend ==
  ASSUME NEW a \in Int, NEW b \in Int, NEW n \in Nat, n > 1, NEW k \in Nat
  PROVE  a + ((b - a) * k) \div (n - 1) = (a * (n - (k + 1)) + b * ((k + 1) - 1)) \div (n - 1)
<1> DEFINE m == n - 1
           x == (b - a) * k
<1>1. m \in Nat \ {0} /\ x \in Int
  OBVIOUS
<1>2. a * (n - (k + 1)) + b * ((k + 1) - 1) = x + a * m
  OBVIOUS
<1> HIDE DEF m, x
<1>3. \A q \in Int : \A r \in 0 .. (m - 1) : x = m * q + r => x \div m = q
  <2> SUFFICES ASSUME NEW q \in Int, NEW r \in 0 .. (m - 1), x = m * q + r PROVE x \div m = q
    OBVIOUS
  <2> QED
    BY <1>1
<1>4. x \div m \in Int /\ x % m \in 0 .. (m - 1) /\ x = m * (x \div m) + (x % m)
  BY <1>1
<1>5. (x + a * m) \div m = (x \div m) + a
  BY <1>1, <1>4
<1>6. a + (x \div m) = (x + a * m) \div m
  BY <1>4, <1>5
<1> QED
  BY <1>2, <1>6 DEF m, x

\* The colors of a token, over and over, are those of its word.
LEMMA TokenColors ==
  ASSUME NEW t, NEW e, Stands(t, e)
  PROVE  /\ WordColors(e.word) \in Seq(Levels) /\ Len(WordColors(e.word)) = t.count
         /\ t.count # 0 => \A r \in Nat :
              (IF t.count = 1 THEN t.start ELSE ColorFromRange(t, r))
                = WordColors(e.word)[(r % t.count) + 1]
<1> DEFINE w == e.word
           p == parseNext(w)
<1>1. Good(w) /\ t \in Token /\ t.count = p.count /\ t.start = p.start /\ t.end = p.end
  BY StandsAs, SameColors DEF Stands
<1> HIDE DEF w
<1>2. t.count \in Nat
  BY <1>1 DEF Token
<1>3. CASE w.type = "color"
  <2>1. IsColor(w.start)
    BY <1>1, <1>3, WordTypes DEF Good
  <2>2. t.count = 1 /\ t.start = finishColor(w.start)
    BY <1>1, <1>3, Parsed DEF Good
  <2>3. WordColors(w) = <<finishColor(w.start)>>
    BY <1>3 DEF WordColors
  <2>4. finishColor(w.start) \in Levels
    BY <2>1, Finished
  <2>5. \A r \in Nat : r % 1 = 0
    OBVIOUS
  <2> HIDE DEF p
  <2>6. WordColors(w) \in Seq(Levels) /\ Len(WordColors(w)) = 1 /\ WordColors(w)[1] = t.start
    BY <2>2, <2>3, <2>4
  <2>7. \A r \in Nat : (IF t.count = 1 THEN t.start ELSE ColorFromRange(t, r))
                         = WordColors(w)[(r % t.count) + 1]
    BY <2>2, <2>5, <2>6
  <2> QED
    BY <2>2, <2>6, <2>7 DEF w
<1>4. CASE w.type = "range"
  <2> DEFINE a == finishColor(w.start)
             b == finishColor(w.end)
             n == IF w.count # 0 THEN w.count ELSE FullCount(w)
  <2>1. IsColor(w.start) /\ IsColor(w.end) /\ w.count \in Nat /\ ~Uncounted(w)
    BY <1>1, <1>4, WordTypes DEF Good, Bad
  <2>2. finishRange(w) = n /\ finishRange(w) \in Nat \ {0}
    BY <2>1, RangeCount
  <2>3. a \in Levels /\ b \in Levels
    BY <2>1, Finished
  <2>4. t.count = finishRange(w) /\ t.end = b
    BY <1>1, <1>4, Parsed DEF Good
  <2>5. t.start = a
    BY <1>1, <1>4, <2>2, <2>4, Parsed DEF Good
  <2>6. WordColors(w) = IF n = 1 THEN <<a>>
                        ELSE [i \in 1 .. n |->
                               [ch \in 1 .. 3 |-> (a[ch] * (n - i) + b[ch] * (i - 1)) \div (n - 1)]]
    BY <1>4 DEF WordColors
  <2> HIDE DEF a, b, n, p
  <2>7. n \in Nat \ {0} /\ t.count = n
    BY <2>2, <2>4
  <2>8. CASE n = 1
    <3>1. WordColors(w) \in Seq(Levels) /\ Len(WordColors(w)) = 1 /\ WordColors(w)[1] = t.start
      BY <2>3, <2>5, <2>6, <2>8
    <3>2. \A r \in Nat : r % 1 = 0
      OBVIOUS
    <3>3. \A r \in Nat : (IF t.count = 1 THEN t.start ELSE ColorFromRange(t, r))
                           = WordColors(w)[(r % t.count) + 1]
      BY <2>7, <2>8, <3>1, <3>2
    <3> QED
      BY <2>7, <2>8, <3>1, <3>3 DEF w
  <2>9. CASE n # 1
    <3> DEFINE color(i) == [ch \in 1 .. 3 |-> (a[ch] * (n - i) + b[ch] * (i - 1)) \div (n - 1)]
    <3>1. n > 1 /\ \A ch \in 1 .. 3 : a[ch] \in Int /\ b[ch] \in Int
      BY <2>3, <2>7, <2>9 DEF Levels
    <3>2. WordColors(w) = [i \in 1 .. n |-> color(i)]
      BY <2>6, <2>9
    <3>3. \A i \in 1 .. n : color(i) \in Levels
      <4> SUFFICES ASSUME NEW i \in 1 .. n, NEW ch \in 1 .. 3
                   PROVE  (a[ch] * (n - i) + b[ch] * (i - 1)) \div (n - 1) \in Int
        BY DEF Levels
      <4> DEFINE x == a[ch] * (n - i) + b[ch] * (i - 1)
                 m == n - 1
      <4>0. a[ch] \in Int /\ b[ch] \in Int /\ n - i \in Int /\ i - 1 \in Int
        BY <2>7, <3>1
      <4>1. x \in Int /\ m \in Nat \ {0}
        BY <2>7, <3>1, <4>0
      <4> HIDE DEF x, m
      <4>2. x \div m \in Int
        BY <4>1
      <4> QED
        BY <4>2 DEF x, m
    <3>4. WordColors(w) \in Seq(Levels) /\ Len(WordColors(w)) = n
      <4> DEFINE f == WordColors(w)
      <4>1. f \in [1 .. n -> Levels]
        BY <3>2, <3>3
      <4> HIDE DEF f, color
      <4>2. f \in Seq(Levels) /\ Len(f) = n
        BY <2>7, <4>1
      <4> QED
        BY <4>2 DEF f
    <3>5. ASSUME NEW r \in Nat
          PROVE  (IF t.count = 1 THEN t.start ELSE ColorFromRange(t, r))
                   = WordColors(w)[(r % t.count) + 1]
      <4> DEFINE k == r % n
      <4>1. k \in Nat /\ k + 1 \in 1 .. n
        BY <2>7
      <4>2. r % t.count = k /\ t.count # 1
        BY <2>7, <2>9
      <4> HIDE DEF k
      <4>3. ColorFromRange(t, r) = [ch \in 1 .. 3 |-> a[ch] + ((b[ch] - a[ch]) * k) \div (n - 1)]
        BY <2>4, <2>5, <2>7, <4>2 DEF ColorFromRange
      <4>4. WordColors(w)[k + 1] = color(k + 1)
        <5> HIDE DEF color
        <5> QED
          BY <3>2, <4>1
      <4>5. \A ch \in 1 .. 3 : a[ch] + ((b[ch] - a[ch]) * k) \div (n - 1) = color(k + 1)[ch]
        <5> SUFFICES ASSUME NEW ch \in 1 .. 3
                     PROVE  a[ch] + ((b[ch] - a[ch]) * k) \div (n - 1)
                              = (a[ch] * (n - (k + 1)) + b[ch] * ((k + 1) - 1)) \div (n - 1)
          OBVIOUS
        <5> DEFINE ac == a[ch]
                   bc == b[ch]
        <5>1. ac \in Int /\ bc \in Int
          BY <3>1
        <5>3. n \in Nat /\ n > 1 /\ k \in Nat
          BY <2>7, <3>1, <4>1
        <5> HIDE DEF ac, bc
        <5>2. ac + ((bc - ac) * k) \div (n - 1)
                = (ac * (n - (k + 1)) + bc * ((k + 1) - 1)) \div (n - 1)
          BY <5>1, <5>3, Blend, Zenon
        <5> QED
          BY <5>2 DEF ac, bc
      <4>6. ColorFromRange(t, r) = color(k + 1)
        BY <4>3, <4>5
      <4> QED
        BY <4>2, <4>4, <4>6
    <3> QED
      BY <2>7, <3>4, <3>5 DEF w
  <2> QED
    BY <2>8, <2>9
<1>5. CASE w.type \notin {"color", "range"}
  <2>1. p.count = 0
    BY <1>1, <1>5, Parsed DEF Good
  <2>2. WordColors(w) = <<>>
    BY <1>5 DEF WordColors
  <2> HIDE DEF p
  <2>3. WordColors(w) \in Seq(Levels) /\ Len(WordColors(w)) = 0
    BY <2>2
  <2> QED
    BY <1>1, <2>1, <2>3 DEF w
<1> QED
  BY <1>3, <1>4, <1>5

-----------------------------------------------------------------------------
(* The colors of a list of tokens.                                           *)

LEMMA SumsOfSame ==
  ASSUME NEW s \in Seq(Nat), NEW c \in Nat, \A k \in 1 .. Len(s) : s[k] = c
  PROVE  \A k \in 0 .. Len(s) : Sums(s)[k] = k * c
<1> DEFINE T == {k \in Nat : k <= Len(s) => Sums(s)[k] = k * c}
<1>1. Len(s) \in Nat
  BY LenProperties
<1>2. 0 \in T
  BY <1>1, SumsAre
<1>3. ASSUME NEW n \in Nat, n \in T PROVE n + 1 \in T
  <2> SUFFICES ASSUME n + 1 <= Len(s) PROVE Sums(s)[n + 1] = (n + 1) * c
    OBVIOUS
  <2>1. n + 1 \in 1 .. Len(s) /\ n + 1 - 1 = n
    BY <1>1
  <2>2. Sums(s)[n] = n * c
    BY <1>1, <1>3
  <2>3. Sums(s)[n + 1] = Sums(s)[n] + s[n + 1]
    BY <1>1, <2>1, SumsAre
  <2> QED
    BY <2>1, <2>2, <2>3
<1>4. \A k \in Nat : k \in T
  <2> HIDE DEF T
  <2> QED
    BY <1>2, <1>3, Induction
<1> QED
  BY <1>1, <1>4

LEMMA QuotientBelow ==
  ASSUME NEW c \in Nat \ {0}, NEW m \in Nat, NEW r \in Nat, r < c * m
  PROVE  /\ r \div c \in Nat /\ r \div c < m /\ r % c \in 0 .. (c - 1)
         /\ r = (r \div c) * c + (r % c)
<1> DEFINE d == r \div c
           a == r % c
<1>1. d \in Nat /\ a \in 0 .. (c - 1) /\ r = c * d + a
  OBVIOUS
<1> HIDE DEF d, a
<1>2. d < m
  <2> SUFFICES ASSUME d >= m PROVE FALSE
    BY <1>1
  <2>1. PICK e \in Nat : d = m + e
    BY <1>1, d - m \in Nat
  <2>2. c * d = c * m + c * e /\ c * e \in Nat
    BY <2>1
  <2> QED
    BY <1>1, <2>2
<1>3. r = d * c + a
  BY <1>1
<1> QED
  BY <1>1, <1>2, <1>3 DEF d, a

\* Colors repeated.
LEMMA Repeated ==
  ASSUME NEW S, NEW wc \in Seq(S), NEW m \in Nat
  PROVE  LET all == FlattenSeq([i \in 1 .. m |-> wc])
         IN  /\ all \in Seq(S) /\ Len(all) = Len(wc) * m
             /\ \A r \in 0 .. (Len(wc) * m - 1) : all[r + 1] = wc[(r % Len(wc)) + 1]
<1> DEFINE seqs == [i \in 1 .. m |-> wc]
           c == Len(wc)
           all == FlattenSeq(seqs)
<1>1. seqs \in Seq(Seq(S)) /\ Len(seqs) = m /\ \A i \in 1 .. m : seqs[i] = wc
  OBVIOUS
<1>2. c \in Nat
  BY LenProperties
<1> HIDE DEF seqs
<1>3. /\ Lens(seqs) \in Seq(Nat) /\ Len(Lens(seqs)) = m
      /\ \A k \in 1 .. Len(Lens(seqs)) : Lens(seqs)[k] = c
  BY <1>1, LensAre
<1> HIDE DEF c
<1>4. \A k \in 0 .. m : Sums(Lens(seqs))[k] = k * c
  BY <1>2, <1>3, SumsOfSame
<1>5. /\ all \in Seq(S) /\ Len(all) = Sums(Lens(seqs))[m]
      /\ \A k \in 1 .. m : \A j \in 1 .. c : all[Sums(Lens(seqs))[k - 1] + j] = wc[j]
  BY <1>1, Flattened DEF c
<1> HIDE DEF all
<1>6. Len(all) = c * m
  BY <1>2, <1>4, <1>5
<1>7. ASSUME NEW r \in 0 .. (c * m - 1) PROVE all[r + 1] = wc[(r % c) + 1]
  <2> DEFINE x == c * m
  <2>1. x \in Int /\ r \in Nat /\ r < x
    <3>1. x \in Int /\ r \in 0 .. (x - 1)
      BY <1>2
    <3> HIDE DEF x
    <3> QED
      BY <3>1
  <2>2. c # 0
    <3>1. c = 0 => x = 0
      OBVIOUS
    <3> HIDE DEF x
    <3> QED
      BY <2>1, <3>1
  <2> DEFINE d == r \div c
             a == r % c
  <2>3. d \in Nat /\ d < m /\ a \in 0 .. (c - 1) /\ r = d * c + a
    <3>1. c \in Nat \ {0} /\ r \in Nat /\ r < c * m
      BY <1>2, <2>1, <2>2
    <3> QED
      BY <3>1, QuotientBelow
  <2> HIDE DEF d, a
  <2>4. d + 1 \in 1 .. m /\ (d + 1) - 1 = d /\ d \in 0 .. m /\ a + 1 \in 1 .. c
    BY <1>2, <2>3
  <2>5. all[Sums(Lens(seqs))[d] + (a + 1)] = wc[a + 1]
    <3>1. all[Sums(Lens(seqs))[(d + 1) - 1] + (a + 1)] = wc[a + 1]
      BY <1>5, <2>4
    <3> QED
      BY <2>4, <3>1
  <2>6. Sums(Lens(seqs))[d] = d * c
    BY <1>4, <2>4
  <2>7. d * c + (a + 1) = r + 1
    BY <1>2, <2>3
  <2>8. all[r + 1] = wc[a + 1]
    BY <2>5, <2>6, <2>7
  <2> QED
    BY <2>8 DEF a
<1> QED
  BY <1>5, <1>6, <1>7 DEF all, seqs, c

\* A list of tokens and the entries it stands for.
AllStand(ts, es) ==
  /\ ts \in Seq(Token) /\ IsSequence(es) /\ Len(es) = Len(ts)
  /\ \A k \in 1 .. Len(ts) : Stands(ts[k], es[k])

LEMMA AllStandAs ==
  ASSUME NEW ts, NEW es, AllStand(ts, es)
  PROVE  /\ Len(ts) \in Nat /\ DOMAIN ts = 1 .. Len(ts) /\ DOMAIN es = 1 .. Len(ts)
         /\ \A k \in 1 .. Len(ts) : ts[k] \in Token /\ es[k].times \in Nat /\ Stands(ts[k], es[k])
                                    /\ Span(ts[k]) = ts[k].count * es[k].times
                                    /\ Span(ts[k]) \in Nat
<1>1. Len(ts) \in Nat /\ DOMAIN ts = 1 .. Len(ts) /\ Len(es) = Len(ts)
  BY LenProperties DEF AllStand
<1>2. DOMAIN es = 1 .. Len(es)
  BY LenProperties DEF AllStand, IsSequence
<1>3. ASSUME NEW k \in 1 .. Len(ts)
      PROVE  /\ ts[k] \in Token /\ es[k].times \in Nat /\ Stands(ts[k], es[k])
             /\ Span(ts[k]) = ts[k].count * es[k].times
             /\ Span(ts[k]) \in Nat
  <2>1. Stands(ts[k], es[k])
    BY DEF AllStand
  <2>2. /\ ts[k] \in Token /\ es[k].times \in Nat
        /\ Span(ts[k]) = ts[k].count * es[k].times
    BY <2>1, StandsAs
  <2>3. ts[k].count \in Nat
    BY <2>2 DEF Token
  <2> QED
    BY <2>1, <2>2, <2>3
<1> QED
  BY <1>1, <1>2, <1>3

Spans(ts) == [k \in DOMAIN ts |-> Span(ts[k])]

LEMMA SpansAre ==
  ASSUME NEW ts, NEW es, AllStand(ts, es)
  PROVE  /\ ColorEnds(ts) = Sums(Spans(ts))
         /\ Spans(ts) \in Seq(Nat) /\ Len(Spans(ts)) = Len(ts)
         /\ \A k \in 1 .. Len(ts) : Spans(ts)[k] = Span(ts[k])
<1> DEFINE f == Spans(ts)
           m == Len(ts)
<1>1. f \in [1 .. m -> Nat] /\ m \in Nat
  BY AllStandAs DEF Spans
<1>2. \A k \in 1 .. m : f[k] = Span(ts[k])
  BY AllStandAs DEF Spans
<1>3. ColorEnds(ts) = Sums(f)
  BY DEF ColorEnds, Spans
<1> HIDE DEF f, m
<1>4. f \in Seq(Nat) /\ Len(f) = m
  BY <1>1
<1> QED
  BY <1>2, <1>3, <1>4 DEF f, m

LEMMA DescribedAre ==
  ASSUME NEW ts, NEW es, AllStand(ts, es)
  PROVE  LET end == ColorEnds(ts)
         IN  /\ DescribedColors(es) \in Seq(Levels)
             /\ Len(DescribedColors(es)) = end[Len(ts)]
             /\ \A k \in 1 .. Len(ts) : \A r \in 0 .. (Span(ts[k]) - 1) :
                  DescribedColors(es)[end[k - 1] + (r + 1)]
                    = WordColors(es[k].word)[(r % ts[k].count) + 1]
<1> DEFINE part(k) == FlattenSeq([i \in 1 .. es[k].times |-> WordColors(es[k].word)])
           seqs == [k \in DOMAIN es |-> part(k)]
           end == ColorEnds(ts)
           m == Len(ts)
<1>1. m \in Nat /\ DOMAIN es = 1 .. m
  BY AllStandAs
<1>2. ASSUME NEW k \in 1 .. m
      PROVE  /\ part(k) \in Seq(Levels) /\ Len(part(k)) = Span(ts[k])
             /\ \A r \in 0 .. (Span(ts[k]) - 1) :
                  part(k)[r + 1] = WordColors(es[k].word)[(r % ts[k].count) + 1]
  <2> DEFINE wc == WordColors(es[k].word)
             n == es[k].times
             s == Span(ts[k])
  <2>1. n \in Nat /\ s = ts[k].count * n /\ Stands(ts[k], es[k])
    BY AllStandAs
  <2>2. wc \in Seq(Levels) /\ Len(wc) = ts[k].count
    BY <2>1, TokenColors
  <2>3. part(k) = FlattenSeq([i \in 1 .. n |-> wc])
    OBVIOUS
  <2> HIDE DEF part, wc, n, s
  <2>4. /\ part(k) \in Seq(Levels) /\ Len(part(k)) = Len(wc) * n
        /\ \A r \in 0 .. (Len(wc) * n - 1) : part(k)[r + 1] = wc[(r % Len(wc)) + 1]
    <3> DEFINE all == FlattenSeq([i \in 1 .. n |-> wc])
    <3>1. n \in Nat /\ wc \in Seq(Levels)
      BY <2>1, <2>2
    <3>2. /\ all \in Seq(Levels) /\ Len(all) = Len(wc) * n
          /\ \A r \in 0 .. (Len(wc) * n - 1) : all[r + 1] = wc[(r % Len(wc)) + 1]
      BY <3>1, Repeated, Zenon
    <3> HIDE DEF all
    <3>3. part(k) = all
      BY <2>3 DEF all
    <3> QED
      BY <3>2, <3>3
  <2>5. Len(wc) * n = s
    BY <2>1, <2>2
  <2> QED
    BY <2>2, <2>4, <2>5 DEF wc, s
<1> HIDE DEF part
<1>3. seqs \in Seq(Seq(Levels)) /\ Len(seqs) = m /\ \A k \in 1 .. m : seqs[k] = part(k)
  <2>1. seqs \in [1 .. m -> Seq(Levels)]
    BY <1>1, <1>2
  <2>2. \A k \in 1 .. m : seqs[k] = part(k)
    BY <1>1
  <2> HIDE DEF seqs, m
  <2> QED
    BY <1>1, <2>1, <2>2
<1>4. DescribedColors(es) = FlattenSeq(seqs)
  BY DEF DescribedColors, part
<1> HIDE DEF seqs
<1>5. Sums(Lens(seqs)) = end
  <2>1. /\ Lens(seqs) \in Seq(Nat) /\ Len(Lens(seqs)) = m
        /\ \A k \in 1 .. m : Lens(seqs)[k] = Span(ts[k])
    <3>1. /\ Lens(seqs) \in Seq(Nat) /\ Len(Lens(seqs)) = Len(seqs)
          /\ \A k \in 1 .. Len(seqs) : Lens(seqs)[k] = Len(seqs[k])
      BY <1>3, LensAre
    <3> QED
      BY <1>2, <1>3, <3>1
  <2>2. /\ Spans(ts) \in Seq(Nat) /\ Len(Spans(ts)) = m
        /\ \A k \in 1 .. m : Spans(ts)[k] = Span(ts[k])
    BY SpansAre
  <2> DEFINE f == Lens(seqs)
             g == Spans(ts)
  <2> HIDE DEF f, g, m
  <2>3. f = g
    <3>1. f \in Seq(Nat) /\ g \in Seq(Nat) /\ Len(f) = Len(g) /\ \A k \in 1 .. Len(f) : f[k] = g[k]
      BY <2>1, <2>2 DEF f, g
    <3> QED
      BY <3>1, SeqEqual
  <2> QED
    BY <2>3, SpansAre DEF f, g
<1> HIDE DEF end, m
<1>6. /\ FlattenSeq(seqs) \in Seq(Levels)
      /\ Len(FlattenSeq(seqs)) = end[m]
      /\ \A k \in 1 .. m : \A j \in 1 .. Len(seqs[k]) :
           FlattenSeq(seqs)[end[k - 1] + j] = seqs[k][j]
  BY <1>3, <1>5, Flattened
<1>7. ASSUME NEW k \in 1 .. m, NEW r \in 0 .. (Span(ts[k]) - 1)
      PROVE  DescribedColors(es)[end[k - 1] + (r + 1)]
               = WordColors(es[k].word)[(r % ts[k].count) + 1]
  <2>1. Span(ts[k]) \in Nat
    BY AllStandAs DEF m
  <2>2. r + 1 \in 1 .. Len(seqs[k])
    BY <1>2, <1>3, <2>1
  <2>3. FlattenSeq(seqs)[end[k - 1] + (r + 1)] = part(k)[r + 1]
    BY <1>3, <1>6, <2>2
  <2> QED
    BY <1>2, <1>4, <2>3
<1> QED
  BY <1>4, <1>6, <1>7 DEF end, m

\* The color at an index of the walk over the tokens.
LEMMA ColorGot ==
  ASSUME NEW ts, NEW es, AllStand(ts, es), NEW r \in Nat, r < ColorEnds(ts)[Len(ts)]
  PROVE  getColor(ts, r) = DescribedColors(es)[r + 1]
<1> DEFINE end == ColorEnds(ts)
           m == Len(ts)
           holds(i) == r >= end[i - 1] /\ r < end[i]
           k == CHOOSE i \in 1 .. m : holds(i)
<1>1. /\ end = Sums(Spans(ts)) /\ Spans(ts) \in Seq(Nat) /\ Len(Spans(ts)) = m
      /\ m \in Nat /\ \A i \in 1 .. m : Spans(ts)[i] = Span(ts[i])
  BY SpansAre, AllStandAs
<1>2. r < end[m]
  OBVIOUS
<1>3. getColor(ts, r) = IF \A i \in 1 .. m : ~holds(i) THEN NULL
                        ELSE IF ts[k].count = 1 THEN ts[k].start
                             ELSE ColorFromRange(ts[k], r - end[k - 1])
  BY DEF getColor
<1> HIDE DEF end
<1>4. \A i \in 0 .. m : end[i] \in Int
  BY <1>1, SeqMonotonic, SumsType
<1>5. \E i \in 1 .. m : holds(i)
  <2>1. PICK i \in 1 .. m : end[i - 1] <= r /\ r < end[i]
    BY <1>1, <1>2, SpanHolds
  <2>2. i - 1 \in 0 .. m
    BY <1>1
  <2>3. r >= end[i - 1]
    BY <1>4, <2>1, <2>2
  <2> QED
    BY <2>1, <2>3
<1>6. k \in 1 .. m /\ holds(k)
  BY <1>5
<1>7. getColor(ts, r) = IF ts[k].count = 1 THEN ts[k].start
                        ELSE ColorFromRange(ts[k], r - end[k - 1])
  BY <1>3, <1>5
<1> HIDE DEF k
<1> DEFINE x == r - end[k - 1]
<1>8. /\ k - 1 \in 0 .. m /\ k \in 0 .. m /\ end[k] = end[k - 1] + Span(ts[k])
      /\ Span(ts[k]) = ts[k].count * es[k].times /\ Span(ts[k]) \in Nat
      /\ ts[k] \in Token /\ Stands(ts[k], es[k]) /\ es[k].times \in Nat
  <2>1. k - 1 \in 0 .. m /\ k \in 0 .. m
    BY <1>1, <1>6
  <2>2. end[k] = end[k - 1] + Span(ts[k])
    BY <1>1, <1>6, SumsAre
  <2> QED
    BY <1>6, <2>1, <2>2, AllStandAs
<1>9. x \in Nat /\ x \in 0 .. (Span(ts[k]) - 1) /\ end[k - 1] + (x + 1) = r + 1
  <2> DEFINE a == end[k - 1]
             b == end[k]
             s == Span(ts[k])
  <2>1. a \in Int /\ s \in Nat /\ b = a + s /\ r >= a /\ r < b
    BY <1>4, <1>6, <1>8
  <2> HIDE DEF a, b, s
  <2>2. r - a \in Nat /\ r - a \in 0 .. (s - 1) /\ a + ((r - a) + 1) = r + 1
    BY <2>1
  <2> QED
    BY <2>2 DEF a, s
<1>10. ts[k].count # 0
  <2>1. ts[k].count = 0 => Span(ts[k]) = 0
    BY <1>8
  <2> QED
    BY <1>8, <1>9, <2>1
<1> HIDE DEF x
<1>11. (IF ts[k].count = 1 THEN ts[k].start ELSE ColorFromRange(ts[k], x))
         = WordColors(es[k].word)[(x % ts[k].count) + 1]
  BY <1>8, <1>9, <1>10, TokenColors
<1>12. DescribedColors(es)[end[k - 1] + (x + 1)] = WordColors(es[k].word)[(x % ts[k].count) + 1]
  BY <1>6, <1>9, DescribedAre DEF end
<1> QED
  BY <1>7, <1>9, <1>11, <1>12 DEF x

-----------------------------------------------------------------------------
(* Images and pictures.                                                      *)

\* The image im shows the picture p.
Portrays(im, p) ==
  /\ im # NoImage
  /\ im.width = p.width /\ im.width \in Nat \ {0}
  /\ im.height = p.height /\ im.height \in Nat \ {0}
  /\ \A x \in 0 .. (im.width - 1) : \A y \in 0 .. (im.height - 1) :
       im.pixels[x + y * im.width] = p.at[<<x, y>>]

LEMMA PixelAt ==
  ASSUME NEW w \in Nat \ {0}, NEW h \in Nat \ {0}, NEW pixel,
         NEW x \in 0 .. (w - 1), NEW y \in 0 .. (h - 1)
  PROVE  NewImage(w, h, pixel).pixels[x + y * w] = pixel[<<x, y>>]
<1> DEFINE k == x + y * w
           m == w * h
<1>1. k % w = x /\ k \div w = y
  <2>1. w \in Nat \ {0} /\ x \in Nat /\ x < w /\ y \in Nat
    OBVIOUS
  <2> QED
    BY <2>1, DivMod, Zenon
<1>2. k \in 0 .. (m - 1)
  <2>1. PICK e \in Nat : h = y + 1 + e
    <3>1. h - (y + 1) \in Nat /\ h = y + 1 + (h - (y + 1))
      OBVIOUS
    <3> QED
      BY <3>1
  <2>2. m = y * w + w + e * w /\ e * w \in Nat /\ y * w \in Nat
    BY <2>1
  <2> DEFINE yw == y * w
             ew == e * w
  <2>3. m = yw + w + ew /\ ew \in Nat /\ yw \in Nat /\ k = x + yw
    BY <2>2
  <2> HIDE DEF m, k, yw, ew
  <2> QED
    BY <2>3
<1> HIDE DEF k, m
<1>3. NewImage(w, h, pixel).pixels = [j \in 0 .. (m - 1) |-> pixel[<<j % w, j \div w>>]]
  BY DEF NewImage, m
<1>4. NewImage(w, h, pixel).pixels[k] = pixel[<<x, y>>]
  BY <1>1, <1>2, <1>3
<1> QED
  BY <1>4 DEF k

LEMMA NewPortrays ==
  ASSUME NEW w \in Nat \ {0}, NEW h \in Nat \ {0}, NEW pixel, NEW p,
         p.width = w, p.height = h,
         \A x \in 0 .. (w - 1) : \A y \in 0 .. (h - 1) : pixel[<<x, y>>] = p.at[<<x, y>>]
  PROVE  Portrays(NewImage(w, h, pixel), p)
<1> DEFINE im == NewImage(w, h, pixel)
<1>1. im # NoImage
  BY NewImageIsSome
<1>2. im.width = w /\ im.height = h
  BY DEF NewImage
<1>3. ASSUME NEW x \in 0 .. (w - 1), NEW y \in 0 .. (h - 1)
      PROVE  im.pixels[x + y * w] = p.at[<<x, y>>]
  <2>1. NewImage(w, h, pixel).pixels[x + y * w] = pixel[<<x, y>>]
    BY PixelAt
  <2>2. pixel[<<x, y>>] = p.at[<<x, y>>]
    OBVIOUS
  <2> QED
    BY <2>1, <2>2, Zenon
<1> HIDE DEF im
<1>5. Portrays(im, p)
  <2>1. \A x \in 0 .. (im.width - 1) : \A y \in 0 .. (im.height - 1) :
          im.pixels[x + y * im.width] = p.at[<<x, y>>]
    BY <1>2, <1>3, Zenon
  <2> QED
    BY <1>1, <1>2, <2>1, Zenon DEF Portrays
<1> QED
  BY <1>5 DEF im

LEMMA TurnedAt ==
  ASSUME NEW p, NEW w \in Nat \ {0}, NEW h \in Nat \ {0}, p.width = w, p.height = h
  PROVE  /\ Turned(p).width = h /\ Turned(p).height = w
         /\ \A x \in 0 .. (h - 1) : \A y \in 0 .. (w - 1) :
              Turned(p).at[<<x, y>>] = p.at[<<y, h - 1 - x>>]
BY DEF Turned, Places

\* A picture after a number of clockwise turns.
Turns(p, k) ==
  CASE k = 0 -> p
    [] k = 1 -> Turned(p)
    [] k = 2 -> Turned(Turned(p))
    [] k = 3 -> Turned(Turned(Turned(p)))

LEMMA RotatedPortrays ==
  ASSUME NEW im, NEW p, Portrays(im, p), NEW k \in 0 .. 3
  PROVE  Portrays(Rotated(im, k), Turns(p, k))
<1> DEFINE w == im.width
           h == im.height
           X == 0 .. (w - 1)
           Y == 0 .. (h - 1)
<1>1. w \in Nat \ {0} /\ h \in Nat \ {0} /\ p.width = w /\ p.height = h
  BY DEF Portrays
<1>2. \A x \in X : \A y \in Y : im.pixels[x + y * w] = p.at[<<x, y>>]
  BY DEF Portrays
<1> HIDE DEF w, h
<1>3. CASE k = 0
  <2> DEFINE pixel == [xy \in Places(w, h) |-> im.pixels[xy[1] + xy[2] * w]]
  <2>1. Rotated(im, 0) = NewImage(w, h, pixel)
    BY DEF Rotated, w, h
  <2>2. \A x \in X : \A y \in Y : pixel[<<x, y>>] = p.at[<<x, y>>]
    BY <1>2 DEF Places
  <2> HIDE DEF pixel
  <2>3. Portrays(NewImage(w, h, pixel), p)
    BY <1>1, <2>2, NewPortrays
  <2> QED
    BY <1>3, <2>1, <2>3 DEF Turns
<1>4. CASE k = 1
  <2> DEFINE pixel == [xy \in Places(h, w) |-> im.pixels[xy[2] + (h - 1 - xy[1]) * w]]
  <2>1. Rotated(im, 1) = NewImage(h, w, pixel)
    BY DEF Rotated, w, h
  <2>2. ASSUME NEW x \in Y, NEW y \in X PROVE pixel[<<x, y>>] = Turned(p).at[<<x, y>>]
    <3>1. pixel[<<x, y>>] = im.pixels[y + (h - 1 - x) * w]
      BY DEF Places
    <3>2. h - 1 - x \in Y
      BY <1>1
    <3>3. Turned(p).at[<<x, y>>] = p.at[<<y, h - 1 - x>>]
      BY <1>1, TurnedAt
    <3> QED
      BY <1>2, <3>1, <3>2, <3>3
  <2>3. Turned(p).width = h /\ Turned(p).height = w
    BY <1>1, TurnedAt
  <2> HIDE DEF pixel
  <2>4. Portrays(NewImage(h, w, pixel), Turned(p))
    BY <1>1, <2>2, <2>3, NewPortrays
  <2> QED
    BY <1>4, <2>1, <2>4 DEF Turns
<1>5. CASE k = 2
  <2> DEFINE pixel == [xy \in Places(w, h) |-> im.pixels[(w - 1 - xy[1]) + (h - 1 - xy[2]) * w]]
             q == Turned(p)
             r == Turned(q)
  <2>1. Rotated(im, 2) = NewImage(w, h, pixel)
    BY DEF Rotated, w, h
  <2>3. q.width = h /\ q.height = w
    BY <1>1, TurnedAt
  <2>4. r.width = w /\ r.height = h
    <3> HIDE DEF q
    <3> QED
      BY <1>1, <2>3, TurnedAt
  <2>2. ASSUME NEW x \in X, NEW y \in Y PROVE pixel[<<x, y>>] = r.at[<<x, y>>]
    <3>1. pixel[<<x, y>>] = im.pixels[(w - 1 - x) + (h - 1 - y) * w]
      BY DEF Places
    <3>2. h - 1 - y \in Y /\ w - 1 - x \in X
      BY <1>1
    <3>3. r.at[<<x, y>>] = q.at[<<y, w - 1 - x>>]
      <4> HIDE DEF q
      <4> QED
        BY <1>1, <2>3, TurnedAt
    <3>4. q.at[<<y, w - 1 - x>>] = p.at[<<w - 1 - x, h - 1 - y>>]
      BY <1>1, <3>2, TurnedAt
    <3> QED
      BY <1>2, <3>1, <3>2, <3>3, <3>4
  <2> HIDE DEF pixel, r
  <2>5. Portrays(NewImage(w, h, pixel), r)
    BY <1>1, <2>2, <2>4, NewPortrays
  <2> QED
    BY <1>5, <2>1, <2>5 DEF Turns, r
<1>6. CASE k = 3
  <2> DEFINE pixel == [xy \in Places(h, w) |-> im.pixels[(w - 1 - xy[2]) + xy[1] * w]]
             q == Turned(p)
             r == Turned(q)
             s == Turned(r)
  <2>1. Rotated(im, 3) = NewImage(h, w, pixel)
    BY DEF Rotated, w, h
  <2>3. q.width = h /\ q.height = w
    BY <1>1, TurnedAt
  <2>4. r.width = w /\ r.height = h
    <3> HIDE DEF q
    <3> QED
      BY <1>1, <2>3, TurnedAt
  <2>5. s.width = h /\ s.height = w
    <3> HIDE DEF r
    <3> QED
      BY <1>1, <2>4, TurnedAt
  <2>2. ASSUME NEW x \in Y, NEW y \in X PROVE pixel[<<x, y>>] = s.at[<<x, y>>]
    <3>1. pixel[<<x, y>>] = im.pixels[(w - 1 - y) + x * w]
      BY DEF Places
    <3>2. h - 1 - x \in Y /\ w - 1 - y \in X /\ h - 1 - (h - 1 - x) = x
      BY <1>1
    <3>3. s.at[<<x, y>>] = r.at[<<y, h - 1 - x>>]
      <4> HIDE DEF r
      <4> QED
        BY <1>1, <2>4, TurnedAt
    <3>4. r.at[<<y, h - 1 - x>>] = q.at[<<h - 1 - x, w - 1 - y>>]
      <4> HIDE DEF q
      <4> QED
        BY <1>1, <2>3, <3>2, TurnedAt
    <3>5. q.at[<<h - 1 - x, w - 1 - y>>] = p.at[<<w - 1 - y, h - 1 - (h - 1 - x)>>]
      BY <1>1, <3>2, TurnedAt
    <3> QED
      BY <1>2, <3>1, <3>2, <3>3, <3>4, <3>5
  <2> HIDE DEF pixel, s
  <2>6. Portrays(NewImage(h, w, pixel), s)
    BY <1>1, <2>2, <2>5, NewPortrays
  <2> QED
    BY <1>6, <2>1, <2>6 DEF Turns, s
<1> QED
  BY <1>3, <1>4, <1>5, <1>6

LEMMA ChartPortrays ==
  ASSUME NEW n \in Nat \ {0}
  PROVE  Portrays(ChartImage(n), ChartPicture(n))
<1> DEFINE pixel == [xy \in Places(n, n) |-> Chart]
           p == ChartPicture(n)
<1>1. p.width = n /\ p.height = n /\ p.at = pixel
  BY DEF ChartPicture
<1> HIDE DEF pixel, p
<1>2. Portrays(NewImage(n, n, pixel), p)
  BY <1>1, NewPortrays
<1> QED
  BY <1>2 DEF ChartImage, pixel, p

-----------------------------------------------------------------------------
(* Columns of colors.                                                        *)

LEMMA NextQuotient ==
  ASSUME NEW e \in Nat \ {0}, NEW p \in Nat \ {0}
  PROVE  p \div e = IF p % e = 0 THEN ((p - 1) \div e) + 1 ELSE (p - 1) \div e
<1> DEFINE q == (p - 1) \div e
           r == (p - 1) % e
<1>1. q \in Nat /\ r \in Nat /\ r < e /\ p - 1 = e * q + r
  BY p - 1 \in Nat
<1> HIDE DEF q, r
<1>2. CASE r + 1 < e
  <2>1. p = (r + 1) + q * e
    BY <1>1
  <2>2. r + 1 \in Nat
    BY <1>1
  <2>3. ((r + 1) + q * e) % e = r + 1 /\ ((r + 1) + q * e) \div e = q
    BY <1>1, <1>2, <2>2, DivMod, Zenon
  <2>4. p % e = r + 1 /\ p \div e = q /\ r + 1 # 0
    BY <1>1, <2>1, <2>3
  <2> QED
    BY <2>4 DEF q
<1>3. CASE r + 1 = e
  <2>1. p = 0 + (q + 1) * e
    BY <1>1, <1>3
  <2>2. q + 1 \in Nat /\ 0 \in Nat /\ 0 < e
    BY <1>1
  <2>3. (0 + (q + 1) * e) % e = 0 /\ (0 + (q + 1) * e) \div e = q + 1
    BY <1>1, <2>2, DivMod, Zenon
  <2>4. p % e = 0 /\ p \div e = q + 1
    BY <2>1, <2>3
  <2> QED
    BY <2>4 DEF q
<1> QED
  BY <1>1, <1>2, <1>3

\* The index of the color a pixel of the walk gets: the last color fills what is left.
Filled(n, e, p) == IF p \div e < n THEN p \div e ELSE n - 1

LEMMA FilledSteps ==
  ASSUME NEW n \in Nat \ {0}, NEW e \in Nat \ {0}
  PROVE  /\ Filled(n, e, 0) = 0
         /\ \A p \in Nat : Filled(n, e, p) \in 0 .. (n - 1)
         /\ \A p \in Nat \ {0} :
              Filled(n, e, p) = Clamp(IF p % e = 0 THEN Filled(n, e, p - 1) + 1
                                                   ELSE Filled(n, e, p - 1), 0, n - 1)
<1>1. 0 \div e = 0
  OBVIOUS
<1>2. \A p \in Nat : p \div e \in Nat
  OBVIOUS
<1>3. ASSUME NEW p \in Nat \ {0}
      PROVE  Filled(n, e, p) = Clamp(IF p % e = 0 THEN Filled(n, e, p - 1) + 1
                                                  ELSE Filled(n, e, p - 1), 0, n - 1)
  <2> DEFINE a == (p - 1) \div e
             b == p \div e
             x == Filled(n, e, p - 1)
             y == Filled(n, e, p)
  <2>1. a \in Nat /\ b \in Nat
    BY <1>2, p - 1 \in Nat
  <2>2. b = IF p % e = 0 THEN a + 1 ELSE a
    BY NextQuotient
  <2>3. x = (IF a < n THEN a ELSE n - 1) /\ y = IF b < n THEN b ELSE n - 1
    BY DEF Filled
  <2> HIDE DEF a, b, x, y
  <2>4. CASE p % e = 0
    <3>1. y = Clamp(x + 1, 0, n - 1)
      BY <2>1, <2>2, <2>3, <2>4 DEF Clamp
    <3> QED
      BY <2>4, <3>1 DEF x, y
  <2>5. CASE p % e # 0
    <3>1. y = Clamp(x, 0, n - 1)
      BY <2>1, <2>2, <2>3, <2>5 DEF Clamp
    <3> QED
      BY <2>5, <3>1 DEF x, y
  <2> QED
    BY <2>4, <2>5
<1>4. \A p \in Nat : Filled(n, e, p) \in 0 .. (n - 1)
  BY <1>2 DEF Filled
<1>5. Filled(n, e, 0) = 0
  BY <1>1 DEF Filled
<1> QED
  BY <1>3, <1>4, <1>5

LEMMA ColorIndexIs ==
  ASSUME NEW n \in Nat \ {0}, NEW w \in Nat \ {0}, NEW h \in Nat \ {0},
         every(n, w, h) \in Nat \ {0}, NEW p \in Nat, p < w * h
  PROVE  ColorIndex(n, w, h)[p] = Filled(n, every(n, w, h), p)
<1> DEFINE e == every(n, w, h)
           m == w * h
           Step(f) == [k \in 0 .. (m - 1) |->
                         IF k = 0 THEN 0
                         ELSE Clamp(IF k % e = 0 THEN f[k - 1] + 1 ELSE f[k - 1], 0, n - 1)]
           index == CHOOSE f : f = Step(f)
           g == [k \in 0 .. (m - 1) |-> Filled(n, e, k)]
<1>1. ColorIndex(n, w, h) = index
  BY DEF ColorIndex
<1>2. m \in Nat /\ p < m
  OBVIOUS
<1> HIDE DEF e, m
<1>3. e \in Nat \ {0}
  BY DEF e
<1>4. g = Step(g)
  <2>1. ASSUME NEW k \in 0 .. (m - 1)
        PROVE  g[k] = IF k = 0 THEN 0
                      ELSE Clamp(IF k % e = 0 THEN g[k - 1] + 1 ELSE g[k - 1], 0, n - 1)
    <3>1. CASE k = 0
      BY <1>3, <3>1, FilledSteps
    <3>2. CASE k # 0
      <4>1. k - 1 \in 0 .. (m - 1) /\ k \in Nat \ {0}
        BY <1>2, <3>2
      <4>2. g[k - 1] = Filled(n, e, k - 1) /\ g[k] = Filled(n, e, k)
        BY <4>1
      <4>3. Filled(n, e, k) = Clamp(IF k % e = 0 THEN Filled(n, e, k - 1) + 1
                                                 ELSE Filled(n, e, k - 1), 0, n - 1)
        BY <1>3, <4>1, FilledSteps
      <4> HIDE DEF g
      <4> QED
        BY <3>2, <4>2, <4>3
    <3> QED
      BY <3>1, <3>2
  <2>2. g = [k \in 0 .. (m - 1) |-> g[k]]
    OBVIOUS
  <2> HIDE DEF g
  <2> QED
    BY <2>1, <2>2
<1>5. index = Step(index)
  <2> HIDE DEF g, Step
  <2> QED
    BY <1>4
<1> HIDE DEF index, g
<1> DEFINE T == {k \in Nat : k < m => index[k] = Filled(n, e, k)}
<1>6. 0 \in T
  <2> SUFFICES ASSUME 0 < m PROVE index[0] = Filled(n, e, 0)
    OBVIOUS
  <2>1. index[0] = 0
    BY <1>2, <1>5
  <2> QED
    BY <1>3, <2>1, FilledSteps
<1>7. ASSUME NEW k \in Nat, k \in T PROVE k + 1 \in T
  <2> SUFFICES ASSUME k + 1 < m PROVE index[k + 1] = Filled(n, e, k + 1)
    OBVIOUS
  <2>1. k + 1 \in 0 .. (m - 1) /\ k + 1 # 0 /\ (k + 1) - 1 = k /\ k < m /\ k + 1 \in Nat \ {0}
    BY <1>2
  <2>2. index[k] = Filled(n, e, k)
    BY <1>7, <2>1
  <2>3. index[k + 1] = Clamp(IF (k + 1) % e = 0 THEN index[k] + 1 ELSE index[k], 0, n - 1)
    BY <1>5, <2>1
  <2>4. Filled(n, e, k + 1) = Clamp(IF (k + 1) % e = 0 THEN Filled(n, e, (k + 1) - 1) + 1
                                             ELSE Filled(n, e, (k + 1) - 1), 0, n - 1)
    BY <1>3, <2>1, FilledSteps
  <2> QED
    BY <2>1, <2>2, <2>3, <2>4
<1>8. \A k \in Nat : k \in T
  <2> HIDE DEF T
  <2> QED
    BY <1>6, <1>7, Induction
<1>9. index[p] = Filled(n, e, p)
  BY <1>2, <1>8
<1> QED
  BY <1>1, <1>9 DEF e

\* How many columns a color gets.
ColumnsEach(n, w) == IF n < w THEN w \div n ELSE 1

LEMMA EveryIs ==
  ASSUME NEW n \in Nat \ {0}, NEW w \in Nat \ {0}, NEW h \in Nat \ {0}
  PROVE  /\ ColumnsEach(n, w) \in Nat \ {0}
         /\ every(n, w, h) = h * ColumnsEach(n, w)
         /\ every(n, w, h) \in Nat \ {0}
<1>1. CASE n < w
  <2> DEFINE q == w \div n
             r == w % n
  <2>1. q \in Nat /\ r \in 0 .. (n - 1) /\ w = n * q + r
    OBVIOUS
  <2> HIDE DEF q, r
  <2>2. q # 0
    BY <1>1, <2>1
  <2>3. h * q \in Nat \ {0}
    BY <2>1, <2>2
  <2>4. ColumnsEach(n, w) = q /\ every(n, w, h) = h * q
    BY <1>1 DEF ColumnsEach, every, q
  <2> QED
    BY <2>1, <2>2, <2>3, <2>4
<1>2. CASE ~(n < w)
  BY <1>2 DEF ColumnsEach, every
<1> QED
  BY <1>1, <1>2

LEMMA InColumn ==
  ASSUME NEW h \in Nat \ {0}, NEW g \in Nat \ {0}, NEW x \in Nat, NEW y \in 0 .. (h - 1),
         NEW k, k = x * h + y, NEW e, e = h * g
  PROVE  k \div e = x \div g
<1> DEFINE q == x \div g
           r == x % g
           m == h * g
           a == r * h + y
<1>1. q \in Nat /\ r \in Nat /\ r < g /\ x = g * q + r
  OBVIOUS
<1> HIDE DEF q, r
<1>2. m \in Nat \ {0} /\ a \in Nat
  BY <1>1
<1>3. a < m
  <2>1. PICK d \in Nat : g = r + 1 + d
    <3>1. g - (r + 1) \in Nat /\ g = r + 1 + (g - (r + 1))
      BY <1>1
    <3> QED
      BY <3>1
  <2>2. h * g = r * h + h + h * d /\ h * d \in Nat
    BY <1>1, <2>1
  <2> QED
    BY <1>1, <2>2
<1>4. x * h + y = a + q * m
  BY <1>1
<1> HIDE DEF m, a
<1>5. (a + q * m) \div m = q
  BY <1>1, <1>2, <1>3, DivMod, Zenon
<1> QED
  BY <1>4, <1>5 DEF m, q

\* Where the walk down the columns meets a pixel.
Walk(h, x, y) == x * h + y

\* The pixels of a column get the color of the column.
LEMMA ColumnFilled ==
  ASSUME NEW n \in Nat \ {0}, NEW w \in Nat \ {0}, NEW h \in Nat \ {0},
         NEW x \in 0 .. (w - 1), NEW y \in 0 .. (h - 1)
  PROVE  /\ ColorIndex(n, w, h)[Walk(h, x, y)] \in 0 .. (n - 1)
         /\ ColorIndex(n, w, h)[Walk(h, x, y)] + 1 = ColumnOf(x, n, w)
<1> DEFINE k == Walk(h, x, y)
           e == every(n, w, h)
           g == ColumnsEach(n, w)
           c == IF x \div g < n THEN x \div g ELSE n - 1
<1>0. k = x * h + y
  BY DEF Walk
<1> HIDE DEF k
<1>1. k \in Nat /\ k < w * h
  <2>1. PICK d \in Nat : w = x + 1 + d
    <3>1. w - (x + 1) \in Nat /\ w = x + 1 + (w - (x + 1))
      OBVIOUS
    <3> QED
      BY <3>1
  <2>2. w * h = x * h + h + d * h /\ d * h \in Nat /\ x * h \in Nat
    BY <2>1
  <2> DEFINE xh == x * h
             dh == d * h
             m == w * h
  <2>3. m = xh + h + dh /\ dh \in Nat /\ xh \in Nat /\ k = xh + y
    BY <1>0, <2>2
  <2> HIDE DEF xh, dh, m
  <2>4. k \in Nat /\ k < m
    BY <2>3
  <2> QED
    BY <2>4 DEF m
<1>2. e = h * g /\ e \in Nat \ {0} /\ g \in Nat \ {0}
  BY EveryIs
<1>3. ColorIndex(n, w, h)[k] = Filled(n, e, k)
  BY <1>1, <1>2, ColorIndexIs
<1> HIDE DEF e, g
<1>4. k \div e = x \div g
  <2>1. x \in Nat /\ k = x * h + y
    BY <1>0
  <2> QED
    BY <1>2, <2>1, InColumn
<1>5. Filled(n, e, k) = c
  BY <1>4 DEF Filled
<1>6. ColumnOf(x, n, w) = IF x \div g < n THEN (x \div g) + 1 ELSE n
  BY DEF ColumnOf, ColumnsEach, g
<1>7. x \div g \in Nat
  BY <1>2
<1>8. c \in 0 .. (n - 1) /\ c + 1 = ColumnOf(x, n, w)
  BY <1>6, <1>7
<1> QED
  BY <1>3, <1>5, <1>8 DEF k

LEMMA ColumnsPortrayed ==
  ASSUME NEW ts, NEW colors, NEW w \in Nat \ {0}, NEW h \in Nat \ {0}, NEW n \in Nat \ {0},
         Len(colors) = n, \A c \in 0 .. (n - 1) : getColor(ts, c) = colors[c + 1]
  PROVE  Portrays(ColorImage(ts, n, w, h), ColorPicture(colors, w, h))
<1> DEFINE index == ColorIndex(n, w, h)
           pixel == [xy \in Places(w, h) |-> getColor(ts, index[xy[1] * h + xy[2]])]
           p == ColorPicture(colors, w, h)
<1>1. p.width = w /\ p.height = h
  BY DEF ColorPicture
<1>2. ColorImage(ts, n, w, h) = NewImage(w, h, pixel)
  BY DEF ColorImage
<1>3. ASSUME NEW x \in 0 .. (w - 1), NEW y \in 0 .. (h - 1)
      PROVE  pixel[<<x, y>>] = p.at[<<x, y>>]
  <2> DEFINE c == index[Walk(h, x, y)]
  <2>1. pixel[<<x, y>>] = getColor(ts, c)
    BY DEF Places, Walk
  <2>2. p.at[<<x, y>>] = colors[ColumnOf(x, n, w)]
    BY DEF ColorPicture, Places
  <2>3. c \in 0 .. (n - 1) /\ c + 1 = ColumnOf(x, n, w)
    BY ColumnFilled
  <2> HIDE DEF c, p, pixel
  <2>4. getColor(ts, c) = colors[c + 1]
    BY <2>3
  <2> QED
    BY <2>1, <2>2, <2>3, <2>4
<1> HIDE DEF pixel, p
<1>4. Portrays(NewImage(w, h, pixel), p)
  BY <1>1, <1>3, NewPortrays
<1> QED
  BY <1>2, <1>4 DEF p

LEMMA ColorsPortrayed ==
  ASSUME NEW ts, NEW es, AllStand(ts, es), NEW w \in Nat \ {0}, NEW h \in Nat \ {0},
         ColorEnds(ts)[Len(ts)] \in Nat \ {0}
  PROVE  Portrays(ColorImage(ts, ColorEnds(ts)[Len(ts)], w, h),
                  ColorPicture(DescribedColors(es), w, h))
<1> DEFINE colors == DescribedColors(es)
           n == ColorEnds(ts)[Len(ts)]
<1>1. Len(colors) = n
  BY DescribedAre
<1>2. ASSUME NEW c \in 0 .. (n - 1) PROVE getColor(ts, c) = colors[c + 1]
  <2>1. c \in Nat /\ c < n
    <3>1. n \in Nat
      OBVIOUS
    <3> HIDE DEF n
    <3> QED
      BY <3>1
  <2> QED
    BY <2>1, ColorGot
<1>3. n \in Nat \ {0}
  OBVIOUS
<1> HIDE DEF colors, n
<1>4. Portrays(ColorImage(ts, n, w, h), ColorPicture(colors, w, h))
  BY <1>1, <1>2, <1>3, ColumnsPortrayed
<1> QED
  BY <1>4 DEF colors, n

-----------------------------------------------------------------------------
(* The picture of a HALD.                                                    *)

LEMMA OneRoot ==
  ASSUME NEW a \in Nat, NEW b \in Nat, a * a = b * b
  PROVE  a = b
<1>1. CASE a < b
  <2>1. PICK d \in Nat \ {0} : b = a + d
    <3>1. b - a \in Nat \ {0} /\ b = a + (b - a)
      BY <1>1
    <3> QED
      BY <3>1
  <2>2. b * b = a * a + (2 * (a * d) + d * d) /\ a * d \in Nat /\ d * d \in Nat \ {0}
    BY <2>1
  <2> QED
    BY <2>2
<1>2. CASE b < a
  <2>1. PICK d \in Nat \ {0} : a = b + d
    <3>1. a - b \in Nat \ {0} /\ a = b + (a - b)
      BY <1>2
    <3> QED
      BY <3>1
  <2>2. a * a = b * b + (2 * (b * d) + d * d) /\ b * d \in Nat /\ d * d \in Nat \ {0}
    BY <2>1
  <2> QED
    BY <2>2
<1> QED
  BY <1>1, <1>2

LEMMA SideIs ==
  ASSUME NEW n \in Nat \ {0}, HaldSide(n) # 0
  PROVE  HaldPicture(n) = SquarePicture(n, HaldSide(n))
<1> DEFINE s == HaldSide(n)
           m == n * n * n
           top == n * n
<1>1. s \in Nat \ {0} /\ s * s = m
  BY SideOf
<1> HIDE DEF s
<1>2. s \in 0 .. top
  <2> SUFFICES ASSUME s > top PROVE FALSE
    BY <1>1
  <2>1. PICK d \in Nat \ {0} : s = top + d
    <3>1. s - top \in Nat \ {0} /\ s = top + (s - top)
      BY <1>1
    <3> QED
      BY <3>1
  <2>2. top * top = m * n /\ top \in Nat /\ m \in Nat
    OBVIOUS
  <2>3. m * n >= m
    <3>1. PICK e \in Nat : n = 1 + e
      <4>1. n - 1 \in Nat /\ n = 1 + (n - 1)
        OBVIOUS
      <4> QED
        BY <4>1
    <3> HIDE DEF m
    <3>2. m * n = m + m * e /\ m * e \in Nat
      BY <2>2, <3>1
    <3> QED
      BY <2>2, <3>2
  <2> HIDE DEF top, m
  <2>4. s * s = top * top + (2 * (top * d) + d * d) /\ top * d \in Nat /\ d * d \in Nat \ {0}
    BY <2>1, <2>2
  <2>5. top * top \in Nat
    BY <2>2
  <2> QED
    BY <1>1, <2>2, <2>3, <2>4, <2>5
<1>3. \A r \in 0 .. top : r * r = m => r = s
  <2> SUFFICES ASSUME NEW r \in 0 .. top, r * r = m PROVE r = s
    OBVIOUS
  <2>1. r \in Nat /\ r * r = s * s
    BY <1>1
  <2> QED
    BY <1>1, <2>1, OneRoot
<1>4. (CHOOSE r \in 0 .. top : r * r = m) = s
  <2> HIDE DEF top, m
  <2> QED
    BY <1>1, <1>2, <1>3
<1> QED
  BY <1>4 DEF HaldPicture, s

\* The place of a color in the cube.
LEMMA CubeIs ==
  ASSUME NEW n \in Nat \ {0}, NEW k \in Nat, k < n * n * n
  PROVE  CubeOf(n, k) = <<k % n, (k \div n) % n, k \div (n * n)>>
<1> DEFINE r == k % n
           q == k \div n
           g == q % n
           b == q \div n
           side == 0 .. (n - 1)
           cube == side \X side \X side
<1>1. r \in side /\ q \in Nat /\ k = n * q + r
  OBVIOUS
<1> HIDE DEF r, q
<1>2. g \in side /\ b \in Nat /\ q = n * b + g
  BY <1>1
<1> HIDE DEF g, b
<1>3. b < n
  <2> SUFFICES ASSUME b >= n PROVE FALSE
    BY <1>2
  <2>1. PICK d \in Nat : b = n + d
    <3>1. b - n \in Nat /\ b = n + (b - n)
      BY <1>2
    <3> QED
      BY <3>1
  <2>2. k = n * n * n + (n * n * d + n * g + r) /\ n * n * d \in Nat /\ n * g \in Nat
    BY <1>1, <1>2, <2>1
  <2> DEFINE m == n * n * n
             u == n * n * d
             v == n * g
  <2>3. k = m + (u + v + r) /\ u \in Nat /\ v \in Nat /\ m \in Nat /\ k < m /\ r \in Nat
    BY <1>1, <2>2
  <2> HIDE DEF m, u, v
  <2> QED
    BY <2>3
<1>4. k = r + n * g + n * n * b
  BY <1>1, <1>2
<1>5. \A x, y, z \in side :
        k = x + n * y + n * n * z =>
          k % n = x /\ (k \div n) % n = y /\ k \div (n * n) = z
  <2> SUFFICES ASSUME NEW x \in side, NEW y \in side, NEW z \in side,
                      k = x + n * y + n * n * z
               PROVE  k % n = x /\ (k \div n) % n = y /\ k \div (n * n) = z
    OBVIOUS
  <2>1. x \in Nat /\ y \in Nat /\ z \in Nat /\ x < n /\ y < n /\ z < n
    OBVIOUS
  <2>2. k = CubeIndex(n, x, y, z)
    BY <2>1 DEF CubeIndex
  <2>3. /\ CubeIndex(n, x, y, z) % n = x
        /\ (CubeIndex(n, x, y, z) \div n) % n = y
        /\ CubeIndex(n, x, y, z) \div (n * n) = z
    BY <2>1, PlaceOf
  <2> QED
    BY <2>2, <2>3
<1>6. b \in side
  BY <1>2, <1>3
<1>7. k % n = r /\ (k \div n) % n = g /\ k \div (n * n) = b
  BY <1>1, <1>2, <1>4, <1>5, <1>6
<1> DEFINE P(rgb) == k = rgb[1] + n * rgb[2] + n * n * rgb[3]
<1>8. <<r, g, b>> \in cube /\ P(<<r, g, b>>)
  BY <1>1, <1>2, <1>4, <1>6
<1>9. ASSUME NEW rgb \in cube, P(rgb) PROVE rgb = <<r, g, b>>
  <2>1. rgb[1] \in side /\ rgb[2] \in side /\ rgb[3] \in side /\ rgb = <<rgb[1], rgb[2], rgb[3]>>
    OBVIOUS
  <2>2. rgb[1] = r /\ rgb[2] = g /\ rgb[3] = b
    BY <1>5, <1>7, <1>9, <2>1
  <2> QED
    BY <2>1, <2>2
<1>10. CubeOf(n, k) = CHOOSE rgb \in cube : P(rgb)
  BY DEF CubeOf
<1> HIDE DEF P, cube
<1>11. CubeOf(n, k) = <<r, g, b>>
  BY <1>8, <1>9, <1>10
<1> QED
  BY <1>7, <1>11

LEMMA CubeColorIs ==
  ASSUME NEW n \in Nat, n > 1, NEW k \in Nat, k < n * n * n
  PROVE  HaldPixel(n, k) = CubeColor(n, CubeOf(n, k))
<1> DEFINE a == k % n
           b == (k \div n) % n
           c == k \div (n * n)
<1>1. CubeOf(n, k) = <<a, b, c>>
  BY CubeIs
<1>2. HaldPixel(n, k)
        = <<(a * One) \div (n - 1), (b * One) \div (n - 1), (c * One) \div (n - 1)>>
  BY DEF HaldPixel
<1> HIDE DEF a, b, c
<1> DEFINE rgb == <<a, b, c>>
           color == [ch \in 1 .. 3 |-> (rgb[ch] * One) \div (n - 1)]
           seq == <<(a * One) \div (n - 1), (b * One) \div (n - 1), (c * One) \div (n - 1)>>
<1>3. color = seq
  <2>1. /\ color[1] = (a * One) \div (n - 1) /\ color[2] = (b * One) \div (n - 1)
        /\ color[3] = (c * One) \div (n - 1)
    OBVIOUS
  <2>2. color = <<color[1], color[2], color[3]>>
    OBVIOUS
  <2> HIDE DEF color
  <2> QED
    BY <2>1, <2>2
<1> QED
  BY <1>1, <1>2, <1>3 DEF CubeColor

LEMMA HaldPortrays ==
  ASSUME NEW n \in Nat \ {0}, HaldSide(n) # 0
  PROVE  Portrays(HaldImage(n), HaldPicture(n))
<1> DEFINE s == HaldSide(n)
           pixel == [xy \in Places(s, s) |-> HaldPixel(n, xy[1] + xy[2] * s)]
           p == SquarePicture(n, s)
<1>1. s \in Nat \ {0} /\ s * s = n * n * n
  BY SideOf
<1>2. HaldImage(n) = NewImage(s, s, pixel)
  BY DEF HaldImage
<1>3. HaldPicture(n) = p
  BY SideIs
<1> HIDE DEF s
<1>4. ASSUME NEW x \in 0 .. (s - 1), NEW y \in 0 .. (s - 1)
      PROVE  pixel[<<x, y>>] = p.at[<<x, y>>]
  <2> DEFINE k == x + y * s
  <2>1. k \in Nat /\ k < s * s
    <3>1. PICK d \in Nat : s = y + 1 + d
      <4>1. s - (y + 1) \in Nat /\ s = y + 1 + (s - (y + 1))
        BY <1>1
      <4> QED
        BY <4>1
    <3>2. s * s = y * s + s + d * s /\ d * s \in Nat /\ y * s \in Nat
      BY <1>1, <3>1
    <3> DEFINE ys == y * s
               ds == d * s
               m == s * s
    <3>3. m = ys + s + ds /\ ds \in Nat /\ ys \in Nat /\ k = x + ys
      BY <3>2
    <3> HIDE DEF ys, ds, m, k
    <3>4. k \in Nat /\ k < m
      BY <1>1, <3>3
    <3> QED
      BY <3>4 DEF m
  <2>2. pixel[<<x, y>>] = HaldPixel(n, k)
    BY DEF Places
  <2>3. p.at[<<x, y>>] = IF n = 1 THEN NaN ELSE CubeColor(n, CubeOf(n, k))
    <3>1. x + s * y = k
      BY <1>1
    <3>2. p.at[<<x, y>>] = IF n = 1 THEN NaN ELSE CubeColor(n, CubeOf(n, x + s * y))
      BY DEF SquarePicture, Places
    <3> HIDE DEF k
    <3> QED
      BY <3>1, <3>2
  <2> HIDE DEF k, pixel, p
  <2>4. CASE n = 1
    BY <2>2, <2>3, <2>4 DEF HaldPixel
  <2>5. CASE n # 1
    <3>1. n > 1 /\ k < n * n * n
      BY <1>1, <2>1, <2>5
    <3> QED
      BY <2>1, <2>2, <2>3, <2>5, <3>1, CubeColorIs
  <2> QED
    BY <2>4, <2>5
<1>5. p.width = s /\ p.height = s
  BY DEF SquarePicture
<1> HIDE DEF pixel, p
<1>6. Portrays(NewImage(s, s, pixel), p)
  BY <1>1, <1>4, <1>5, NewPortrays
<1> QED
  BY <1>2, <1>3, <1>6

\* The HALDs that are squares.
LEMMA NoSide ==
  ASSUME NEW n \in Nat \ {0}
  PROVE  /\ (\A i \in 1 .. 31 : i * i # n) => HaldSide(n) = 0
         /\ (\E i \in 1 .. 31 : i * i = n) => HaldSide(n) # 0
<1> DEFINE roots == {i \in 0 .. 31 : i * i = n}
           root == CHOOSE i \in roots : TRUE
<1>1. HaldSide(n) = IF roots = {} THEN 0 ELSE root * root * root
  BY DEF HaldSide
<1>2. \A i \in roots : i \in 1 .. 31 /\ i * i = n
  <2> SUFFICES ASSUME NEW i \in 0 .. 31, i * i = n PROVE i \in 1 .. 31
    OBVIOUS
  <2>1. i = 0 => i * i = 0
    OBVIOUS
  <2> QED
    BY <2>1
<1>3. \A i \in 1 .. 31 : i * i = n => i \in roots
  OBVIOUS
<1>4. roots # {} => root \in roots
  <2> HIDE DEF roots
  <2> QED
    OBVIOUS
<1> HIDE DEF roots, root
<1>5. ASSUME \E i \in 1 .. 31 : i * i = n PROVE HaldSide(n) # 0
  <2>1. root \in Nat \ {0} /\ HaldSide(n) = root * root * root
    BY <1>1, <1>2, <1>3, <1>4, <1>5
  <2>2. \A a, b \in Nat \ {0} : a * b \in Nat \ {0}
    OBVIOUS
  <2> QED
    BY <2>1, <2>2
<1>6. ASSUME \A i \in 1 .. 31 : i * i # n PROVE HaldSide(n) = 0
  BY <1>1, <1>2, <1>6
<1> QED
  BY <1>5, <1>6

-----------------------------------------------------------------------------
(* What the tokens of a stripe say, and its words.                           *)

LEMMA Largest ==
  ASSUME NEW m \in Nat, NEW S \in SUBSET (0 .. m), S # {}
  PROVE  Max(S) \in S /\ \A y \in S : Max(S) >= y
<1> DEFINE R == {d \in 0 .. m : m - d \in S}
<1>1. R \in SUBSET Nat /\ R # {}
  <2>1. PICK x \in S : TRUE
    OBVIOUS
  <2>2. m - x \in 0 .. m /\ m - (m - x) = x
    OBVIOUS
  <2>3. m - x \in R
    BY <2>1, <2>2
  <2>4. \A d \in R : d \in Nat
    OBVIOUS
  <2> HIDE DEF R
  <2> QED
    BY <2>3, <2>4
<1>2. PICK d \in R : \A e \in R : d <= e
  <2> HIDE DEF R
  <2> QED
    BY <1>1, LeastNumber
<1>3. m - d \in S
  BY <1>2
<1>4. ASSUME NEW y \in S PROVE m - d >= y
  <2>1. y \in 0 .. m /\ m - (m - y) = y /\ m - y \in 0 .. m
    OBVIOUS
  <2>2. m - y \in R
    BY <2>1
  <2>3. d <= m - y /\ d \in 0 .. m
    BY <1>2, <2>2
  <2> QED
    BY <2>1, <2>3
<1>5. \E x \in S : \A y \in S : x >= y
  BY <1>3, <1>4
<1> QED
  BY <1>5 DEF Max

\* The number a word of a kind says.
NumberOf(kind, w) == IF kind = "dims" THEN w.w ELSE w.n

\* The field of a token a kind of words sets.
FieldOf(kind) == IF kind = "dims" THEN "width" ELSE kind

\* The places of the last one of a kind.
SaysIn(es, kind) ==
  {k \in DOMAIN es : es[k].word.type = kind /\ NumberOf(kind, es[k].word) # 0}

\* Token and word are the defaults a and b, or the last of their kind.
SameSaid(ts, es, kind, a, b) ==
  \/ LastSaid(ts, FieldOf(kind), a) = a /\ SaidOf(es, kind, b) = b
  \/ \E k \in 1 .. Len(ts) :
       /\ LastSaid(ts, FieldOf(kind), a) = ts[k] /\ SaidOf(es, kind, b) = es[k].word
       /\ es[k].word.type = kind /\ Stands(ts[k], es[k])

LEMMA SaidAs ==
  ASSUME NEW ts, NEW es, AllStand(ts, es), NEW kind \in {"dims", "hald", "cie"}, NEW a, NEW b
  PROVE  SameSaid(ts, es, kind, a, b)
<1> DEFINE field == FieldOf(kind)
           m == Len(ts)
           tsaid == {k \in DOMAIN ts : ts[k][field] # 0}
           esaid == SaysIn(es, kind)
<1>1. m \in Nat /\ DOMAIN ts = 1 .. m /\ DOMAIN es = 1 .. m
      /\ \A k \in 1 .. m : Stands(ts[k], es[k])
  BY AllStandAs
<1>2. ASSUME NEW k \in 1 .. m
      PROVE  ts[k][field] = IF es[k].word.type = kind THEN NumberOf(kind, es[k].word) ELSE 0
  <2>1. /\ ts[k].width = Numbers(es[k].word).width
        /\ ts[k].hald = Numbers(es[k].word).hald
        /\ ts[k].cie = Numbers(es[k].word).cie
    BY <1>1, StandsAs
  <2> DEFINE t == ts[k]
             w == es[k].word
  <2>2. /\ t.width = (IF w.type = "dims" THEN w.w ELSE 0)
        /\ t.hald = (IF w.type = "hald" THEN w.n ELSE 0)
        /\ t.cie = IF w.type = "cie" THEN w.n ELSE 0
    BY <2>1 DEF Numbers
  <2> HIDE DEF t, w
  <2>3. t[field] = IF w.type = kind THEN NumberOf(kind, w) ELSE 0
    <3>1. CASE kind = "dims"
      BY <2>2, <3>1 DEF NumberOf, FieldOf
    <3>2. CASE kind = "hald"
      BY <2>2, <3>2 DEF NumberOf, FieldOf
    <3>3. CASE kind = "cie"
      BY <2>2, <3>3 DEF NumberOf, FieldOf
    <3> QED
      BY <3>1, <3>2, <3>3
  <2> QED
    BY <2>3 DEF t, w
<1>3. tsaid = esaid
  <2>1. \A k \in 1 .. m : ts[k][field] # 0 <=>
          es[k].word.type = kind /\ NumberOf(kind, es[k].word) # 0
    BY <1>2, Zenon
  <2> QED
    BY <1>1, <2>1 DEF SaysIn
<1>4. LastSaid(ts, field, a) = IF tsaid = {} THEN a ELSE ts[Max(tsaid)]
  BY DEF LastSaid
<1>5. SaidOf(es, kind, b) = IF esaid = {} THEN b ELSE es[Max(esaid)].word
  BY DEF SaidOf, SaysIn, NumberOf
<1> HIDE DEF tsaid, field
<1>6. CASE esaid = {}
  BY <1>3, <1>4, <1>5, <1>6 DEF field, SameSaid
<1>7. CASE esaid # {}
  <2> DEFINE k == Max(esaid)
  <2>1. esaid \in SUBSET (0 .. m)
    <3>1. esaid \subseteq 1 .. m
      BY <1>1 DEF SaysIn
    <3> HIDE DEF esaid, m
    <3> QED
      BY <1>1, <3>1
  <2>2. k \in esaid
    <3> HIDE DEF esaid, m
    <3> QED
      BY <1>1, <1>7, <2>1, Largest
  <2>3. k \in 1 .. m /\ es[k].word.type = kind
    <3> HIDE DEF k
    <3> QED
      BY <1>1, <2>2 DEF SaysIn
  <2> HIDE DEF esaid
  <2>4. LastSaid(ts, field, a) = ts[k] /\ SaidOf(es, kind, b) = es[k].word
    BY <1>3, <1>4, <1>5, <1>7
  <2> HIDE DEF k
  <2> QED
    BY <1>1, <2>3, <2>4 DEF field, SameSaid
<1> QED
  BY <1>6, <1>7

LEMMA DefaultSize ==
  ASSUME NEW w, NEW h
  PROVE  LET default == [Zeroed EXCEPT !.width = w, !.height = h]
         IN  default.width = w /\ default.height = h
BY DEF Zeroed

LEMMA NumbersSaid ==
  ASSUME NEW ts, NEW es, AllStand(ts, es), NEW w \in Nat, NEW h \in Nat
  PROVE  LET said == Said(ts, w, h)
             dims == SaidOf(es, "dims", [w |-> w, h |-> h])
         IN  /\ said.cie = SaidOf(es, "cie", Nothing).n /\ said.cie \in Nat
             /\ said.hald = SaidOf(es, "hald", Nothing).n /\ said.hald \in Nat
             /\ said.width = dims.w /\ said.height = dims.h
             /\ said.width \in Nat /\ said.height \in Nat
<1> DEFINE default == [Zeroed EXCEPT !.width = w, !.height = h]
           cie == SaidOf(es, "cie", Nothing)
           hald == SaidOf(es, "hald", Nothing)
           dims == SaidOf(es, "dims", [w |-> w, h |-> h])
           tcie == LastSaid(ts, "cie", Zeroed)
           thald == LastSaid(ts, "hald", Zeroed)
           tdims == LastSaid(ts, "width", default)
<1>1. /\ Said(ts, w, h).cie = tcie.cie /\ Said(ts, w, h).hald = thald.hald
      /\ Said(ts, w, h).width = tdims.width /\ Said(ts, w, h).height = tdims.height
  BY DEF Said
<1>2. FieldOf("cie") = "cie" /\ FieldOf("hald") = "hald" /\ FieldOf("dims") = "width"
  BY DEF FieldOf
<1>3. tcie.cie = cie.n /\ tcie.cie \in Nat
  <2>1. \/ tcie = Zeroed /\ cie = Nothing
        \/ \E k \in 1 .. Len(ts) :
             tcie = ts[k] /\ cie = es[k].word /\ cie.type = "cie" /\ Stands(ts[k], es[k])
    <3> DEFINE a == Zeroed
               b == Nothing
               kind == "cie"
    <3> HIDE DEF a, b, kind
    <3>1. \/ LastSaid(ts, FieldOf(kind), a) = a /\ SaidOf(es, kind, b) = b
          \/ \E k \in 1 .. Len(ts) :
               /\ LastSaid(ts, FieldOf(kind), a) = ts[k] /\ SaidOf(es, kind, b) = es[k].word
               /\ es[k].word.type = kind /\ Stands(ts[k], es[k])
      <4>1. kind \in {"dims", "hald", "cie"}
        BY DEF kind
      <4>2. SameSaid(ts, es, kind, a, b)
        BY <4>1, SaidAs
      <4> QED
        BY <4>2 DEF SameSaid
    <3>2. tcie = LastSaid(ts, FieldOf(kind), a) /\ cie = SaidOf(es, kind, b)
      BY <1>2 DEF kind, a, b
    <3> HIDE DEF tcie, cie
    <3>3. \/ tcie = a /\ cie = b
          \/ \E k \in 1 .. Len(ts) :
               tcie = ts[k] /\ cie = es[k].word /\ cie.type = kind /\ Stands(ts[k], es[k])
      BY <3>1, <3>2
    <3> QED
      BY <3>3 DEF a, b, kind
  <2>2. CASE tcie = Zeroed /\ cie = Nothing
    BY <2>2 DEF Zeroed, Nothing
  <2>3. ASSUME NEW k \in 1 .. Len(ts), tcie = ts[k], cie = es[k].word, cie.type = "cie",
               Stands(ts[k], es[k])
        PROVE  tcie.cie = cie.n /\ tcie.cie \in Nat
    <3>1. tcie.cie = Numbers(cie).cie /\ tcie \in Token
      BY <2>3, StandsAs
    <3> HIDE DEF tcie, cie
    <3> QED
      BY <2>3, <3>1 DEF Numbers, Token
  <2> QED
    BY <2>1, <2>2, <2>3
<1>4. thald.hald = hald.n /\ thald.hald \in Nat
  <2>1. \/ thald = Zeroed /\ hald = Nothing
        \/ \E k \in 1 .. Len(ts) :
             thald = ts[k] /\ hald = es[k].word /\ hald.type = "hald" /\ Stands(ts[k], es[k])
    <3> DEFINE a == Zeroed
               b == Nothing
               kind == "hald"
    <3> HIDE DEF a, b, kind
    <3>1. \/ LastSaid(ts, FieldOf(kind), a) = a /\ SaidOf(es, kind, b) = b
          \/ \E k \in 1 .. Len(ts) :
               /\ LastSaid(ts, FieldOf(kind), a) = ts[k] /\ SaidOf(es, kind, b) = es[k].word
               /\ es[k].word.type = kind /\ Stands(ts[k], es[k])
      <4>1. kind \in {"dims", "hald", "cie"}
        BY DEF kind
      <4>2. SameSaid(ts, es, kind, a, b)
        BY <4>1, SaidAs
      <4> QED
        BY <4>2 DEF SameSaid
    <3>2. thald = LastSaid(ts, FieldOf(kind), a) /\ hald = SaidOf(es, kind, b)
      BY <1>2 DEF kind, a, b
    <3> HIDE DEF thald, hald
    <3>3. \/ thald = a /\ hald = b
          \/ \E k \in 1 .. Len(ts) :
               thald = ts[k] /\ hald = es[k].word /\ hald.type = kind /\ Stands(ts[k], es[k])
      BY <3>1, <3>2
    <3> QED
      BY <3>3 DEF a, b, kind
  <2>2. CASE thald = Zeroed /\ hald = Nothing
    BY <2>2 DEF Zeroed, Nothing
  <2>3. ASSUME NEW k \in 1 .. Len(ts), thald = ts[k], hald = es[k].word, hald.type = "hald",
               Stands(ts[k], es[k])
        PROVE  thald.hald = hald.n /\ thald.hald \in Nat
    <3>1. thald.hald = Numbers(hald).hald /\ thald \in Token
      BY <2>3, StandsAs
    <3> HIDE DEF thald, hald
    <3> QED
      BY <2>3, <3>1 DEF Numbers, Token
  <2> QED
    BY <2>1, <2>2, <2>3
<1>5. tdims.width = dims.w /\ tdims.height = dims.h /\ tdims.width \in Nat /\ tdims.height \in Nat
  <2>1. \/ tdims = default /\ dims = [w |-> w, h |-> h]
        \/ \E k \in 1 .. Len(ts) :
             tdims = ts[k] /\ dims = es[k].word /\ dims.type = "dims" /\ Stands(ts[k], es[k])
    <3> DEFINE a == default
               b == [w |-> w, h |-> h]
               kind == "dims"
    <3> HIDE DEF a, b, kind
    <3>1. \/ LastSaid(ts, FieldOf(kind), a) = a /\ SaidOf(es, kind, b) = b
          \/ \E k \in 1 .. Len(ts) :
               /\ LastSaid(ts, FieldOf(kind), a) = ts[k] /\ SaidOf(es, kind, b) = es[k].word
               /\ es[k].word.type = kind /\ Stands(ts[k], es[k])
      <4>1. kind \in {"dims", "hald", "cie"}
        BY DEF kind
      <4>2. SameSaid(ts, es, kind, a, b)
        BY <4>1, SaidAs
      <4> QED
        BY <4>2 DEF SameSaid
    <3>2. tdims = LastSaid(ts, FieldOf(kind), a) /\ dims = SaidOf(es, kind, b)
      BY <1>2 DEF kind, a, b
    <3> HIDE DEF tdims, dims
    <3>3. \/ tdims = a /\ dims = b
          \/ \E k \in 1 .. Len(ts) :
               tdims = ts[k] /\ dims = es[k].word /\ dims.type = kind /\ Stands(ts[k], es[k])
      BY <3>1, <3>2
    <3> QED
      BY <3>3 DEF a, b, kind
  <2>2. CASE tdims = default /\ dims = [w |-> w, h |-> h]
    <3>1. default.width = w /\ default.height = h
      BY DefaultSize
    <3> HIDE DEF default, tdims, dims
    <3> QED
      BY <2>2, <3>1
  <2>3. ASSUME NEW k \in 1 .. Len(ts), tdims = ts[k], dims = es[k].word, dims.type = "dims",
               Stands(ts[k], es[k])
        PROVE  tdims.width = dims.w /\ tdims.height = dims.h /\ tdims.width \in Nat
               /\ tdims.height \in Nat
    <3>1. tdims.width = Numbers(dims).width /\ tdims.height = Numbers(dims).height
          /\ tdims \in Token
      BY <2>3, StandsAs
    <3> HIDE DEF tdims, dims
    <3> QED
      BY <2>3, <3>1 DEF Numbers, Token
  <2> QED
    BY <2>1, <2>2, <2>3
<1> HIDE DEF tcie, thald, tdims, cie, hald, dims
<1> QED
  BY <1>1, <1>3, <1>4, <1>5 DEF cie, hald, dims

\* The turns add up to the same, and they are turns.
LEMMA TurnsAs ==
  ASSUME NEW ts, NEW es, AllStand(ts, es)
  PROVE  TurnsSaid(ts) = TurnsOf(es) % 4 /\ TurnsSaid(ts) \in 0 .. 3
<1> DEFINE f == [k \in DOMAIN ts |-> ts[k].rotate]
           g == [k \in DOMAIN es |-> IF es[k].word.type = "rotate" THEN es[k].word.n ELSE 0]
           m == Len(ts)
<1>1. m \in Nat /\ DOMAIN ts = 1 .. m /\ DOMAIN es = 1 .. m /\ Len(es) = m
      /\ \A k \in 1 .. m : Stands(ts[k], es[k])
  BY AllStandAs DEF AllStand
<1>2. ASSUME NEW k \in 1 .. m PROVE f[k] = g[k] /\ f[k] \in Int
  <2>1. ts[k].rotate = Numbers(es[k].word).rotate /\ ts[k] \in Token
    BY <1>1, StandsAs
  <2>2. f[k] = ts[k].rotate /\ g[k] = Numbers(es[k].word).rotate
    BY <1>1 DEF Numbers
  <2> HIDE DEF f, g
  <2> QED
    BY <2>1, <2>2 DEF Token
<1>3. f = g
  <2>1. f = [k \in 1 .. m |-> f[k]] /\ g = [k \in 1 .. m |-> g[k]]
    BY <1>1
  <2> HIDE DEF f, g
  <2> QED
    BY <1>2, <2>1
<1>4. f \in Seq(Int) /\ Len(f) = m
  <2>1. f \in [1 .. m -> Int]
    <3>1. f = [k \in 1 .. m |-> f[k]]
      BY <1>1
    <3> HIDE DEF f
    <3> QED
      BY <1>2, <3>1
  <2> HIDE DEF f, m
  <2> QED
    BY <1>1, <2>1
<1>5. TurnsSaid(ts) = Sums(f)[m] % 4 /\ TurnsOf(es) = Sums(g)[m]
  BY <1>1 DEF TurnsSaid, TurnsOf
<1> HIDE DEF f, g, m
<1>6. Sums(f)[m] \in Int
  BY <1>1, <1>4, SumsType
<1> QED
  BY <1>3, <1>5, <1>6

-----------------------------------------------------------------------------
(* The image of a stripe.                                                    *)

Upright(es, width, height) ==
  LET cie  == SaidOf(es, "cie", Nothing).n
      hald == SaidOf(es, "hald", Nothing).n
  IN  IF cie > 0 THEN ChartPicture(cie)
      ELSE IF hald > 0 THEN HaldPicture(hald)
      ELSE SizedPicture(DescribedColors(es), SaidOf(es, "dims", [w |-> width, h |-> height]))

PictureOf(es, width, height) == Turns(Upright(es, width, height), TurnsOf(es) % 4)

\* Entries that describe no image.
Imageless(es) ==
  LET hald == SaidOf(es, "hald", Nothing).n
  IN  /\ SaidOf(es, "cie", Nothing).n = 0
      /\ IF hald > 0 THEN \A i \in 1 .. 31 : i * i # hald ELSE DescribedColors(es) = <<>>

LEMMA TurnsAre ==
  ASSUME NEW p
  PROVE  \A t \in 0 .. 3 :
           LET turned[k \in 0 .. 3] == IF k = 0 THEN p ELSE Turned(turned[k - 1])
           IN  turned[t] = Turns(p, t)
<1> DEFINE Step(f) == [k \in 0 .. 3 |-> IF k = 0 THEN p ELSE Turned(f[k - 1])]
           turned == CHOOSE f : f = Step(f)
           g == [k \in 0 .. 3 |-> Turns(p, k)]
<1>1. /\ Turns(p, 0) = p /\ Turns(p, 1) = Turned(p) /\ Turns(p, 2) = Turned(Turned(p))
      /\ Turns(p, 3) = Turned(Turned(Turned(p)))
  BY DEF Turns
<1>2. \A k \in 0 .. 3 : k = 0 \/ k = 1 \/ k = 2 \/ k = 3
  OBVIOUS
<1>3. g = Step(g)
  <2>1. ASSUME NEW k \in 0 .. 3 PROVE g[k] = IF k = 0 THEN p ELSE Turned(g[k - 1])
    <3>1. g[0] = p /\ g[1] = Turned(g[0]) /\ g[2] = Turned(g[1]) /\ g[3] = Turned(g[2])
      BY <1>1
    <3> HIDE DEF g
    <3> QED
      BY <1>2, <3>1
  <2>2. g = [k \in 0 .. 3 |-> g[k]]
    OBVIOUS
  <2> HIDE DEF g
  <2> QED
    BY <2>1, <2>2
<1>4. turned = Step(turned)
  <2> HIDE DEF g, Step
  <2> QED
    BY <1>3
<1> HIDE DEF turned
<1>5. /\ turned[0] = p /\ turned[1] = Turned(turned[0]) /\ turned[2] = Turned(turned[1])
      /\ turned[3] = Turned(turned[2])
  BY <1>4
<1>6. \A t \in 0 .. 3 : turned[t] = Turns(p, t)
  BY <1>1, <1>2, <1>5
<1> QED
  BY <1>6 DEF turned

LEMMA PictureIs ==
  ASSUME NEW words, NEW width, NEW height, TurnsOf(Entries(words)) % 4 \in 0 .. 3
  PROVE  Picture(words, width, height) = PictureOf(Entries(words), width, height)
<1> DEFINE es == Entries(words)
           p == Upright(es, width, height)
           t == TurnsOf(es) % 4
           turned == CHOOSE f : f = [k \in 0 .. 3 |-> IF k = 0 THEN p ELSE Turned(f[k - 1])]
<1>1. Picture(words, width, height) = turned[t]
  BY DEF Picture, Upright
<1>2. t \in 0 .. 3
  OBVIOUS
<1> HIDE DEF p, t, es
<1>3. turned[t] = Turns(p, t)
  BY <1>2, TurnsAre
<1> QED
  BY <1>1, <1>3 DEF PictureOf, p, t, es

LEMMA Interpreted ==
  ASSUME NEW ts, NEW es, AllStand(ts, es), NEW w \in Nat, NEW h \in Nat
  PROVE  /\ Imageless(es) => interpretTokens(ts, w, h) = NoImage
         /\ ~Imageless(es) => Portrays(interpretTokens(ts, w, h), PictureOf(es, w, h))
<1> DEFINE said == Said(ts, w, h)
           dims == SaidOf(es, "dims", [w |-> w, h |-> h])
           colors == DescribedColors(es)
           count == ColorEnds(ts)[Len(ts)]
           image == interpretTokens(ts, w, h)
           p == Upright(es, w, h)
           sized == said.width # 0 /\ said.height # 0
           wide == IF sized THEN said.width ELSE count
           high == IF sized THEN said.height ELSE 1
<1>1. /\ said.cie = SaidOf(es, "cie", Nothing).n /\ said.cie \in Nat
      /\ said.hald = SaidOf(es, "hald", Nothing).n /\ said.hald \in Nat
      /\ said.width = dims.w /\ said.height = dims.h
      /\ said.width \in Nat /\ said.height \in Nat
  BY NumbersSaid
<1>2. said.rotate = TurnsOf(es) % 4 /\ said.rotate \in 0 .. 3
  BY TurnsAs DEF Said
<1>3. colors \in Seq(Levels) /\ Len(colors) = count
  BY DescribedAre
<1>4. count \in Nat
  <2> HIDE DEF colors, count
  <2> QED
    BY <1>3, LenProperties
<1>5. /\ said.cie > 0 => image = Rotated(ChartImage(said.cie), said.rotate)
      /\ said.cie = 0 /\ said.hald > 0 =>
           image = IF HaldSide(said.hald) = 0 THEN NoImage
                   ELSE Rotated(HaldImage(said.hald), said.rotate)
      /\ said.cie = 0 /\ said.hald = 0 =>
           image = IF count < 1 THEN NoImage
                   ELSE Rotated(ColorImage(ts, count, wide, high), said.rotate)
  <2> DEFINE chart == Rotated(ChartImage(said.cie), said.rotate)
             hald == IF HaldSide(said.hald) = 0 THEN NoImage
                     ELSE Rotated(HaldImage(said.hald), said.rotate)
             columns == IF count < 1 THEN NoImage
                        ELSE Rotated(ColorImage(ts, count, wide, high), said.rotate)
             a == said.cie
             b == said.hald
  <2>1. image = CASE a > 0 -> chart
                  [] a = 0 /\ b > 0 -> hald
                  [] a = 0 /\ b = 0 -> columns
    BY DEF interpretTokens
  <2>2. a \in Nat /\ b \in Nat
    BY <1>1
  <2> HIDE DEF a, b, chart, hald, columns, image
  <2>3. /\ a > 0 => image = chart
        /\ a = 0 /\ b > 0 => image = hald
        /\ a = 0 /\ b = 0 => image = columns
    BY <2>1, <2>2
  <2> QED
    BY <2>3 DEF a, b, chart, hald, columns
<1> HIDE DEF said, image, count, colors
<1>6. CASE said.cie > 0
  <2>1. ~Imageless(es)
    <3>1. Imageless(es) => SaidOf(es, "cie", Nothing).n = 0
      BY Zenon DEF Imageless
    <3>2. said.cie # 0
      BY <1>1, <1>6
    <3> QED
      BY <1>1, <3>1, <3>2
  <2>2. p = ChartPicture(said.cie)
    BY <1>1, <1>6 DEF Upright
  <2>3. Portrays(ChartImage(said.cie), p)
    BY <1>1, <1>6, <2>2, ChartPortrays
  <2> HIDE DEF p
  <2>4. Portrays(Rotated(ChartImage(said.cie), said.rotate), Turns(p, said.rotate))
    BY <1>2, <2>3, RotatedPortrays
  <2> QED
    BY <1>2, <1>5, <1>6, <2>1, <2>4 DEF PictureOf, p, image
<1>7. CASE said.cie = 0 /\ said.hald > 0
  <2> DEFINE n == said.hald
  <2>1. n \in Nat \ {0}
    BY <1>1, <1>7
  <2>2. /\ Imageless(es) => \A i \in 1 .. 31 : i * i # n
        /\ ~Imageless(es) => \E i \in 1 .. 31 : i * i = n
    BY <1>1, <1>7 DEF Imageless
  <2>3. p = HaldPicture(n)
    BY <1>1, <1>7 DEF Upright
  <2>4. image = IF HaldSide(n) = 0 THEN NoImage ELSE Rotated(HaldImage(n), said.rotate)
    BY <1>5, <1>7
  <2> HIDE DEF n, p
  <2>5. Imageless(es) => image = NoImage
    BY <2>1, <2>2, <2>4, NoSide
  <2>6. ASSUME ~Imageless(es) PROVE Portrays(image, Turns(p, said.rotate))
    <3>1. HaldSide(n) # 0
      BY <2>1, <2>2, <2>6, NoSide
    <3>2. Portrays(HaldImage(n), p)
      BY <2>1, <2>3, <3>1, HaldPortrays
    <3>3. Portrays(Rotated(HaldImage(n), said.rotate), Turns(p, said.rotate))
      BY <1>2, <3>2, RotatedPortrays
    <3> QED
      BY <2>4, <3>1, <3>3
  <2> QED
    BY <1>2, <2>5, <2>6 DEF PictureOf, p, image
<1>8. CASE said.cie = 0 /\ said.hald = 0
  <2>1. /\ Imageless(es) => colors = <<>>
        /\ ~Imageless(es) => colors # <<>>
    BY <1>1, <1>8 DEF Imageless, colors
  <2>2. p = SizedPicture(colors, dims)
    BY <1>1, <1>8 DEF Upright, colors
  <2>3. image = IF count < 1 THEN NoImage
                ELSE Rotated(ColorImage(ts, count, wide, high), said.rotate)
    BY <1>5, <1>8
  <2>4. Imageless(es) => image = NoImage
    <3>1. colors = <<>> => Len(colors) = 0
      OBVIOUS
    <3> QED
      BY <1>3, <2>1, <2>3, <3>1
  <2>5. ASSUME ~Imageless(es) PROVE Portrays(image, Turns(p, said.rotate))
    <3>1. count \in Nat \ {0}
      <4>1. colors \in Seq(Levels) /\ colors # <<>> => Len(colors) # 0
        BY EmptySeq
      <4> QED
        BY <1>3, <1>4, <2>1, <2>5, <4>1
    <3>2. wide \in Nat \ {0} /\ high \in Nat \ {0}
      BY <1>1, <3>1
    <3>3. p = ColorPicture(colors, wide, high)
      <4> HIDE DEF p, dims
      <4>1. CASE sized
        BY <1>1, <2>2, <4>1 DEF SizedPicture
      <4>2. CASE ~sized
        BY <1>1, <1>3, <2>2, <4>2 DEF SizedPicture
      <4> QED
        BY <4>1, <4>2
    <3> HIDE DEF wide, high, p
    <3>4. Portrays(ColorImage(ts, count, wide, high), p)
      BY <3>1, <3>2, <3>3, ColorsPortrayed DEF count, colors
    <3>5. Portrays(Rotated(ColorImage(ts, count, wide, high), said.rotate), Turns(p, said.rotate))
      BY <1>2, <3>4, RotatedPortrays
    <3>6. ~(count < 1)
      BY <3>1
    <3> QED
      BY <2>3, <3>5, <3>6 DEF wide, high
  <2> HIDE DEF p
  <2> QED
    BY <1>2, <2>4, <2>5 DEF PictureOf, p, image
<1> QED
  BY <1>1, <1>6, <1>7, <1>8

-----------------------------------------------------------------------------
(* Tokens and entries, word by word.                                         *)

LEMMA SequencesAre == ASSUME NEW S, NEW s \in Seq(S) PROVE IsSequence(s)
<1> DEFINE m == Len(s)
           R == {s[i] : i \in DOMAIN s}
<1>1. m \in Nat /\ DOMAIN s = 1 .. m /\ s \in [1 .. m -> S]
  BY LenProperties
<1>2. s \in [1 .. m -> R]
  BY <1>1
<1> HIDE DEF R, m
<1>3. s \in Seq(R)
  BY <1>1, <1>2
<1> QED
  BY <1>3 DEF IsSequence, R

\* A sequence with another last member.
WithLast(s, e) == Append(Front(s), e)

LEMMA LastReplaced ==
  ASSUME NEW S, NEW s \in Seq(S), s # <<>>, NEW e
  PROVE  /\ WithLast(s, e) \in Seq(S \cup {e}) /\ Len(WithLast(s, e)) = Len(s)
         /\ \A k \in 1 .. Len(s) : WithLast(s, e)[k] = IF k = Len(s) THEN e ELSE s[k]
<1> DEFINE m == Len(s) - 1
           f == Front(s)
<1>1. Len(s) \in Nat \ {0}
  BY LenProperties, EmptySeq
<1>3. f \in Seq(S) /\ Len(f) = m /\ \A k \in 1 .. m : f[k] = s[k]
  <2>1. m \in Int /\ m >= 0 /\ m - 1 + 1 = m /\ \A k \in 1 .. m : s[k] \in S
    BY <1>1, ElementOfSeq
  <2>2. f = SubSeq(s, 1, m)
    BY DEF Front
  <2> HIDE DEF m, f
  <2>3. /\ SubSeq(s, 1, m) \in Seq(S)
        /\ Len(SubSeq(s, 1, m)) = IF 1 <= m THEN m - 1 + 1 ELSE 0
        /\ \A i \in 1 .. m - 1 + 1 : SubSeq(s, 1, m)[i] = s[1 + i - 1]
    BY <2>1, SubSeqProperties
  <2>4. Len(SubSeq(s, 1, m)) = m
    BY <2>1, <2>3
  <2>5. \A k \in 1 .. m : SubSeq(s, 1, m)[k] = s[k]
    <3>1. \A k \in 1 .. m : k \in 1 .. m - 1 + 1 /\ 1 + k - 1 = k
      BY <2>1
    <3> QED
      BY <2>3, <3>1
  <2> QED
    BY <2>2, <2>3, <2>4, <2>5
<1> HIDE DEF f
<1>4. f \in Seq(S \cup {e}) /\ e \in S \cup {e}
  BY <1>3, SeqMonotonic
<1>5. /\ Append(f, e) \in Seq(S \cup {e})
      /\ Len(Append(f, e)) = m + 1
      /\ \A k \in 1 .. m : Append(f, e)[k] = f[k]
      /\ Append(f, e)[m + 1] = e
  BY <1>3, <1>4, AppendProperties
<1>6. \A k \in 1 .. Len(s) : Append(f, e)[k] = IF k = Len(s) THEN e ELSE s[k]
  BY <1>1, <1>3, <1>5
<1> QED
  BY <1>1, <1>5, <1>6 DEF f, WithLast

LEMMA NoneStand == AllStand(<<>>, <<>>)
<1>1. <<>> \in Seq(Token) /\ Len(<<>>) = 0
  OBVIOUS
<1>2. IsSequence(<<>>)
  BY <1>1, SequencesAre
<1> QED
  BY <1>1, <1>2 DEF AllStand

LEMMA TokenFields ==
  ASSUME NEW t \in Token, NEW r \in Nat
  PROVE  /\ [t EXCEPT !.repeat = r] \in Token /\ [t EXCEPT !.repeat = r].repeat = r
         /\ [t EXCEPT !.repeat = t.repeat] = t /\ t.repeat \in Nat
         /\ \A q \in Nat : [[t EXCEPT !.repeat = q] EXCEPT !.repeat = r] = [t EXCEPT !.repeat = r]
<1>1. /\ t.repeat \in Nat /\ t.width \in Nat /\ t.height \in Nat /\ t.start \in Levels \cup {NULL}
      /\ t.end \in Levels \cup {NULL} /\ t.count \in Nat /\ t.hald \in Nat /\ t.cie \in Nat
      /\ t.rotate \in Int
  BY DEF Token
<1>2. t = [width |-> t.width, height |-> t.height, start |-> t.start, end |-> t.end,
           count |-> t.count, repeat |-> t.repeat, hald |-> t.hald, cie |-> t.cie,
           rotate |-> t.rotate]
  BY DEF Token
<1>3. \A q : [t EXCEPT !.repeat = q]
        = [width |-> t.width, height |-> t.height, start |-> t.start, end |-> t.end,
           count |-> t.count, repeat |-> q, hald |-> t.hald, cie |-> t.cie,
           rotate |-> t.rotate]
  BY <1>2
<1>4. [t EXCEPT !.repeat = r] \in Token
  BY <1>1, <1>3 DEF Token
<1>5. \A q \in Nat : [[t EXCEPT !.repeat = q] EXCEPT !.repeat = r] = [t EXCEPT !.repeat = r]
  BY <1>3
<1>6. [t EXCEPT !.repeat = t.repeat] = t
  BY <1>2, <1>3
<1>7. [t EXCEPT !.repeat = r].repeat = r
  BY <1>3
<1> QED
  BY <1>1, <1>4, <1>5, <1>6, <1>7

\* A word parsed to a token of its own.
LEMMA OneMoreStands ==
  ASSUME NEW ts, NEW es, AllStand(ts, es), NEW w, Good(w), parseNext(w).repeat = 0
  PROVE  AllStand(Append(ts, parseNext(w)), Append(es, [word |-> w, times |-> 1]))
<1> DEFINE t == parseNext(w)
           e == [word |-> w, times |-> 1]
           m == Len(ts)
           R == {es[i] : i \in DOMAIN es}
<1>1. t \in Token /\ t.repeat = 0
  BY Parsed DEF Good
<1>2. Stands(t, e)
  <2>1. e.word = w /\ e.times = 1
    OBVIOUS
  <2>2. t = [t EXCEPT !.repeat = t.repeat]
    <3> HIDE DEF t
    <3> QED
      BY <1>1, TokenFields
  <2>3. t = [parseNext(e.word) EXCEPT !.repeat = t.repeat]
    BY <2>1, <2>2
  <2>4. e = [word |-> e.word, times |-> e.times]
    OBVIOUS
  <2> HIDE DEF t, e
  <2> QED
    BY <1>1, <2>1, <2>3, <2>4 DEF Stands
<1> HIDE DEF t, e
<1>3. ts \in Seq(Token) /\ es \in Seq(R) /\ Len(es) = m /\ m \in Nat
      /\ \A k \in 1 .. m : Stands(ts[k], es[k])
  BY LenProperties DEF AllStand, IsSequence
<1> HIDE DEF R, m
<1>4. /\ Append(ts, t) \in Seq(Token) /\ Len(Append(ts, t)) = m + 1
      /\ \A k \in 1 .. m : Append(ts, t)[k] = ts[k]
      /\ Append(ts, t)[m + 1] = t
  BY <1>1, <1>3, AppendProperties DEF m
<1>5. /\ Append(es, e) \in Seq(R \cup {e}) /\ Len(Append(es, e)) = m + 1
      /\ \A k \in 1 .. m : Append(es, e)[k] = es[k]
      /\ Append(es, e)[m + 1] = e
  <2>1. es \in Seq(R \cup {e}) /\ e \in R \cup {e}
    BY <1>3, SeqMonotonic
  <2> QED
    BY <1>3, <2>1, AppendProperties
<1>6. IsSequence(Append(es, e))
  BY <1>5, SequencesAre
<1>7. \A k \in 1 .. (m + 1) : Stands(Append(ts, t)[k], Append(es, e)[k])
  <2> SUFFICES ASSUME NEW k \in 1 .. (m + 1) PROVE Stands(Append(ts, t)[k], Append(es, e)[k])
    OBVIOUS
  <2>1. k = m + 1 \/ k \in 1 .. m
    BY <1>3
  <2>2. CASE k = m + 1
    BY <1>2, <1>4, <1>5, <2>2
  <2>3. CASE k \in 1 .. m
    BY <1>3, <1>4, <1>5, <2>3
  <2> QED
    BY <2>1, <2>2, <2>3
<1> QED
  BY <1>4, <1>5, <1>6, <1>7 DEF AllStand, t, e

\* A repeat, merged with the last token.
LEMMA RepeatStands ==
  ASSUME NEW ts, NEW es, AllStand(ts, es), ts # <<>>, NEW token, token.repeat \in Nat \ {0}
  PROVE  AllStand(Merged(ts, token),
                  Append(Front(es), [Last(es) EXCEPT !.times = token.repeat]))
<1> DEFINE n == token.repeat
           t == [Last(ts) EXCEPT !.repeat = n]
           e == [Last(es) EXCEPT !.times = n]
           m == Len(ts)
           R == {es[i] : i \in DOMAIN es}
           ts2 == WithLast(ts, t)
           es2 == WithLast(es, e)
<1>0. n \in Nat \ {0}
  OBVIOUS
<1>1. Merged(ts, token) = ts2
  BY DEF Merged, WithLast
<1> HIDE DEF n, R
<1>2. ts \in Seq(Token) /\ es \in Seq(R) /\ Len(es) = m /\ m \in Nat \ {0} /\ es # <<>>
      /\ \A k \in 1 .. m : Stands(ts[k], es[k])
  <2>1. ts \in Seq(Token) /\ es \in Seq(R) /\ Len(es) = m
        /\ \A k \in 1 .. m : Stands(ts[k], es[k])
    BY DEF AllStand, IsSequence, R
  <2>2. m \in Nat \ {0}
    BY <2>1, LenProperties, EmptySeq
  <2>3. es = <<>> => Len(es) = 0
    OBVIOUS
  <2> QED
    BY <2>1, <2>2, <2>3
<1>3. Last(ts) = ts[m] /\ Last(es) = es[m] /\ Stands(ts[m], es[m]) /\ ts[m] \in Token
  <2>1. Last(ts) = ts[m] /\ Last(es) = es[m]
    BY <1>2 DEF Last
  <2>2. m \in 1 .. m
    BY <1>2
  <2>3. Stands(ts[m], es[m])
    BY <1>2, <2>2
  <2> HIDE DEF m
  <2> QED
    BY <2>1, <2>3, StandsAs
<1>4. t \in Token /\ t.repeat = n /\ Stands(t, e)
  <2> DEFINE p == parseNext(es[m].word)
             r == ts[m].repeat
  <2>1. p \in Token
    BY <1>3, Parsed DEF Stands, Good
  <2>2. /\ Good(es[m].word) /\ r \in Nat /\ ts[m] = [p EXCEPT !.repeat = r]
        /\ es[m] = [word |-> es[m].word, times |-> es[m].times]
    BY <1>3 DEF Stands
  <2>3. t = [ts[m] EXCEPT !.repeat = n] /\ e = [es[m] EXCEPT !.times = n]
    BY <1>3
  <2> HIDE DEF t, e, p, r
  <2>4. e = [word |-> es[m].word, times |-> n]
    BY <2>2, <2>3
  <2>5. t \in Token /\ t.repeat = n
    BY <1>0, <1>3, <2>3, TokenFields
  <2>6. t = [p EXCEPT !.repeat = n]
    <3>1. [[p EXCEPT !.repeat = r] EXCEPT !.repeat = n] = [p EXCEPT !.repeat = n]
      <4>1. p \in Token /\ r \in Nat /\ n \in Nat
        BY <1>0, <2>1, <2>2
      <4> HIDE DEF n, m
      <4>2. \A q \in Nat : [[p EXCEPT !.repeat = q] EXCEPT !.repeat = n] = [p EXCEPT !.repeat = n]
        BY <4>1, TokenFields
      <4> QED
        BY <4>1, <4>2
    <3>2. t = [[p EXCEPT !.repeat = r] EXCEPT !.repeat = n]
      BY <2>2, <2>3, Zenon
    <3> QED
      BY <3>1, <3>2, Zenon
  <2>7. e.word = es[m].word /\ e.times = n /\ e = [word |-> e.word, times |-> e.times]
    BY <2>4
  <2>8. t = [parseNext(e.word) EXCEPT !.repeat = t.repeat]
    BY <2>5, <2>6, <2>7 DEF p
  <2> QED
    BY <1>0, <2>2, <2>5, <2>7, <2>8 DEF Stands
<1>5. /\ ts2 \in Seq(Token \cup {t}) /\ Len(ts2) = m
      /\ \A k \in 1 .. m : ts2[k] = IF k = m THEN t ELSE ts[k]
  <2> HIDE DEF t
  <2>1. ts # <<>> /\ ts \in Seq(Token)
    BY <1>2
  <2> QED
    BY <2>1, LastReplaced
<1>6. /\ es2 \in Seq(R \cup {e}) /\ Len(es2) = m
      /\ \A k \in 1 .. m : es2[k] = IF k = m THEN e ELSE es[k]
  <2> HIDE DEF e, m
  <2>1. /\ es2 \in Seq(R \cup {e}) /\ Len(es2) = Len(es)
        /\ \A k \in 1 .. Len(es) : es2[k] = IF k = Len(es) THEN e ELSE es[k]
    BY <1>2, LastReplaced
  <2> QED
    BY <1>2, <2>1, Zenon
<1> HIDE DEF ts2, es2, t, e, m
<1>7. ts2 \in Seq(Token)
  <2>1. Token \cup {t} = Token
    BY <1>4
  <2> QED
    BY <1>5, <2>1
<1>8. IsSequence(es2)
  BY <1>6, SequencesAre
<1>9. \A k \in 1 .. m : Stands(ts2[k], es2[k])
  BY <1>2, <1>4, <1>5, <1>6
<1>10. AllStand(ts2, es2)
  BY <1>5, <1>6, <1>7, <1>8, <1>9 DEF AllStand
<1> QED
  BY <1>1, <1>10 DEF es2, e, n, WithLast

\* The entries of the first words.
Fold(words) ==
  LET fold[k \in 0 .. Len(words)] ==
        IF k = 0 THEN <<>>
        ELSE LET w == words[k]
             IN  IF w.type = "repeat" /\ w.n # 0
                 THEN Append(Front(fold[k - 1]), [Last(fold[k - 1]) EXCEPT !.times = w.n])
                 ELSE Append(fold[k - 1], [word |-> w, times |-> 1])
  IN  fold

LEMMA EntriesAre == ASSUME NEW words PROVE Entries(words) = Fold(words)[Len(words)]
BY DEF Entries, Fold

\* What a word makes of the entries before it.
Entered(es, w) ==
  IF w.type = "repeat" /\ w.n # 0
  THEN Append(Front(es), [Last(es) EXCEPT !.times = w.n])
  ELSE Append(es, [word |-> w, times |-> 1])

LEMMA FoldExists ==
  ASSUME NEW words
  PROVE  \A n \in Nat :
           \E f : f = [k \in 0 .. n |-> IF k = 0 THEN <<>> ELSE Entered(f[k - 1], words[k])]
<1> DEFINE Step(f, n) == [k \in 0 .. n |-> IF k = 0 THEN <<>> ELSE Entered(f[k - 1], words[k])]
           T == {n \in Nat : \E f : f = Step(f, n)}
<1>1. 0 \in T
  <2> DEFINE f == [k \in 0 .. 0 |-> <<>>]
  <2>1. f = Step(f, 0)
    OBVIOUS
  <2> QED
    BY <2>1
<1>2. ASSUME NEW n \in Nat, n \in T PROVE n + 1 \in T
  <2>1. PICK f : f = Step(f, n)
    BY <1>2
  <2> DEFINE g == [k \in 0 .. (n + 1) |-> IF k = n + 1 THEN Entered(f[n], words[n + 1]) ELSE f[k]]
  <2>2. \A k \in 0 .. (n + 1) : g[k] = IF k = 0 THEN <<>> ELSE Entered(g[k - 1], words[k])
    BY <2>1
  <2>3. g = [k \in 0 .. (n + 1) |-> g[k]]
    OBVIOUS
  <2> HIDE DEF g
  <2>4. g = Step(g, n + 1)
    BY <2>2, <2>3
  <2> QED
    BY <2>4
<1>3. \A n \in Nat : n \in T
  <2> HIDE DEF T
  <2> QED
    BY <1>1, <1>2, Induction
<1> QED
  BY <1>3

LEMMA FoldIs ==
  ASSUME NEW words, Len(words) \in Nat
  PROVE  /\ Fold(words)[0] = <<>>
         /\ \A k \in 1 .. Len(words) : Fold(words)[k] = Entered(Fold(words)[k - 1], words[k])
<1> DEFINE n == Len(words)
           Step(f) == [k \in 0 .. n |-> IF k = 0 THEN <<>> ELSE Entered(f[k - 1], words[k])]
           fold == CHOOSE f : f = Step(f)
<1>1. Fold(words) = fold
  BY DEF Fold, Entered
<1>2. fold = Step(fold)
  BY FoldExists
<1> HIDE DEF fold, n
<1>3. n \in Nat
  BY DEF n
<1>4. fold[0] = <<>> /\ \A k \in 1 .. n : fold[k] = Entered(fold[k - 1], words[k])
  BY <1>2, <1>3
<1> QED
  BY <1>1, <1>4 DEF n

-----------------------------------------------------------------------------
(* Parsing a stripe.                                                         *)

IsStripe(words) ==
  /\ IsSequence(words)
  /\ \A j \in DOMAIN words : IsWord(words[j]) /\ (words[j].type = "unreadable" => Len(words) = 1)

\* The word at i is in error where it stands.
WrongWord(words, i) ==
  LET w == words[i]
  IN  \/ w.type \in {"bad", "junk", "unreadable"}
      \/ w.type = "range" /\ Uncounted(w)
      \/ w.type = "repeat" /\ w.n # 0 /\ i = 1

LEMMA WrongIs ==
  ASSUME NEW words
  PROVE  /\ words = <<>> => Wrong(words)
         /\ (\E i \in DOMAIN words : WrongWord(words, i)) => Wrong(words)
         /\ Imageless(Entries(words)) => Wrong(words)
         /\ Wrong(words) => \/ words = <<>>
                            \/ \E i \in DOMAIN words : WrongWord(words, i)
                            \/ Imageless(Entries(words))
BY Zenon DEF Wrong, WrongWord, Uncounted, Imageless

\* The first n words are parsed to ts, and none of them is in error.
ParsedWell(words, n, ts) ==
  /\ n \in 0 .. Len(words)
  /\ AllStand(ts, Fold(words)[n])
  /\ n = 0 => ts = <<>>
  /\ n # 0 => ts # <<>>
  /\ \A i \in 1 .. n : ~WrongWord(words, i)

LEMMA NothingParsed == ASSUME NEW words, IsStripe(words) PROVE ParsedWell(words, 0, <<>>)
<1>1. Len(words) \in Nat
  BY LenProperties DEF IsStripe, IsSequence
<1>2. Fold(words)[0] = <<>>
  BY <1>1, FoldIs
<1>3. \A i \in 1 .. 0 : ~WrongWord(words, i)
  OBVIOUS
<1> QED
  BY <1>1, <1>2, <1>3, NoneStand DEF ParsedWell

LEMMA WordIsGood ==
  ASSUME NEW w, IsWord(w), w.type \notin {"junk", "unreadable"}, parseNext(w) # NULL
  PROVE  /\ Good(w) /\ parseNext(w) \in Token
         /\ parseNext(w).repeat = IF w.type = "repeat" THEN w.n ELSE 0
<1>1. ~Bad(w)
  BY Parsed
<1>2. Good(w)
  BY <1>1 DEF Good
<1>3. parseNext(w) \in Token /\ parseNext(w).repeat = Numbers(w).repeat
  BY <1>1, Parsed
<1> QED
  BY <1>2, <1>3 DEF Numbers

LEMMA ParseOne ==
  ASSUME NEW words, NEW n \in Nat, NEW ts, IsStripe(words), ParsedWell(words, n, ts),
         n < Len(words), NEW w, w = words[n + 1], w.type \notin {"junk", "unreadable"},
         NEW t, t = parseNext(w), t # NULL
  PROVE  /\ t.repeat # 0 /\ ts # <<>> => ParsedWell(words, n + 1, Merged(ts, t))
         /\ t.repeat = 0 => ParsedWell(words, n + 1, Append(ts, t))
<1> DEFINE es == Fold(words)[n]
           next == Fold(words)[n + 1]
<1>1. Len(words) \in Nat /\ DOMAIN words = 1 .. Len(words)
  BY LenProperties DEF IsStripe, IsSequence
<1>2. n + 1 \in 1 .. Len(words) /\ n + 1 \in 0 .. Len(words) /\ (n + 1) - 1 = n /\ n + 1 # 0
  BY <1>1
<1>3. next = Entered(es, w)
  BY <1>1, <1>2, FoldIs
<1>4. IsWord(w)
  BY <1>1, <1>2 DEF IsStripe
<1>5. Good(w) /\ t \in Token /\ t.repeat = IF w.type = "repeat" THEN w.n ELSE 0
  BY <1>4, WordIsGood
<1>6. AllStand(ts, es) /\ (n = 0 => ts = <<>>) /\ \A i \in 1 .. n : ~WrongWord(words, i)
  BY DEF ParsedWell
<1>7. ts \in Seq(Token)
  BY <1>6 DEF AllStand
<1>8. w.type \notin {"bad", "junk", "unreadable"} /\ ~(w.type = "range" /\ Uncounted(w))
  BY <1>5 DEF Good, Bad
<1> HIDE DEF es, next
<1>9. ASSUME ~(w.type = "repeat" /\ w.n # 0 /\ n + 1 = 1)
      PROVE  \A i \in 1 .. (n + 1) : ~WrongWord(words, i)
  <2>1. ~WrongWord(words, n + 1)
    BY <1>8, <1>9 DEF WrongWord
  <2>2. \A i \in 1 .. (n + 1) : i \in 1 .. n \/ i = n + 1
    OBVIOUS
  <2> QED
    BY <1>6, <2>1, <2>2
<1>10. ASSUME t.repeat # 0, ts # <<>> PROVE ParsedWell(words, n + 1, Merged(ts, t))
  <2>1. w.type = "repeat" /\ w.n = t.repeat /\ w.n # 0 /\ n # 0
    BY <1>5, <1>6, <1>10
  <2>2. t.repeat \in Nat \ {0}
    BY <1>5, <1>10 DEF Token
  <2>3. next = Append(Front(es), [Last(es) EXCEPT !.times = t.repeat])
    BY <1>3, <2>1 DEF Entered
  <2>4. AllStand(Merged(ts, t), next)
    BY <1>6, <1>10, <2>2, <2>3, RepeatStands
  <2>5. Merged(ts, t) # <<>>
    <3>1. Merged(ts, t) = WithLast(ts, [Last(ts) EXCEPT !.repeat = t.repeat])
      BY DEF Merged, WithLast
    <3> DEFINE e == [Last(ts) EXCEPT !.repeat = t.repeat]
    <3> HIDE DEF e
    <3>2. Len(WithLast(ts, e)) = Len(ts)
      BY <1>7, <1>10, LastReplaced
    <3>3. Len(ts) # 0
      BY <1>7, <1>10, EmptySeq
    <3>4. \A s : s = <<>> => Len(s) = 0
      OBVIOUS
    <3> QED
      BY <3>1, <3>2, <3>3, <3>4 DEF e
  <2>6. \A i \in 1 .. (n + 1) : ~WrongWord(words, i)
    <3>1. n + 1 # 1
      BY <2>1
    <3> QED
      BY <1>9, <3>1
  <2> QED
    BY <1>2, <2>4, <2>5, <2>6 DEF ParsedWell, next
<1>11. ASSUME t.repeat = 0 PROVE ParsedWell(words, n + 1, Append(ts, t))
  <2>1. ~(w.type = "repeat" /\ w.n # 0)
    BY <1>5, <1>11
  <2>2. next = Append(es, [word |-> w, times |-> 1])
    BY <1>3, <2>1 DEF Entered
  <2>3. AllStand(Append(ts, t), next)
    <3>1. AllStand(Append(ts, parseNext(w)), Append(es, [word |-> w, times |-> 1]))
      BY <1>5, <1>6, <1>11, OneMoreStands
    <3> QED
      BY <2>2, <3>1, Zenon
  <2>4. Append(ts, t) # <<>>
    BY <1>5, <1>7, AppendProperties
  <2>5. \A i \in 1 .. (n + 1) : ~WrongWord(words, i)
    BY <1>9, <2>1
  <2> QED
    BY <1>2, <2>3, <2>4, <2>5 DEF ParsedWell, next
<1> QED
  BY <1>10, <1>11

\* A stripe that is refused while it is parsed.
LEMMA ParseStops ==
  ASSUME NEW words, NEW n \in Nat, NEW ts, IsStripe(words), ParsedWell(words, n, ts),
         n < Len(words), NEW w, w = words[n + 1], w.type # "unreadable",
         \/ w.type = "junk"
         \/ w.type # "junk" /\ parseNext(w) = NULL
         \/ w.type = "repeat" /\ w.n # 0 /\ ts = <<>>
  PROVE  Wrong(words)
<1>1. Len(words) \in Nat /\ DOMAIN words = 1 .. Len(words)
  BY LenProperties DEF IsStripe, IsSequence
<1>2. n + 1 \in DOMAIN words
  BY <1>1
<1>3. IsWord(w)
  BY <1>2 DEF IsStripe
<1>4. WrongWord(words, n + 1)
  <2>1. CASE w.type = "junk"
    BY <2>1 DEF WrongWord
  <2>2. CASE w.type # "junk" /\ parseNext(w) = NULL
    <3>1. Bad(w)
      <4> SUFFICES ASSUME ~Bad(w) PROVE FALSE
        OBVIOUS
      <4>1. parseNext(w) \in Token
        BY <1>3, <2>2, Parsed
      <4> QED
        BY <2>2, <4>1, NullIsNone
    <3> QED
      BY <3>1 DEF WrongWord, Bad
  <2>3. CASE w.type = "repeat" /\ w.n # 0 /\ ts = <<>>
    <3>1. n = 0
      BY <2>3 DEF ParsedWell
    <3> QED
      BY <2>3, <3>1 DEF WrongWord
  <2> QED
    BY <2>1, <2>2, <2>3
<1> QED
  BY <1>2, <1>4, WrongIs

\* A stripe parsed to its end.
LEMMA StripeInterpreted ==
  ASSUME NEW words, NEW ts, IsStripe(words), words # <<>>, ParsedWell(words, Len(words), ts),
         NEW w \in Nat, NEW h \in Nat
  PROVE  /\ Wrong(words) => interpretTokens(ts, w, h) = NoImage
         /\ ~Wrong(words) => Portrays(interpretTokens(ts, w, h), Picture(words, w, h))
<1> DEFINE es == Entries(words)
<1>1. AllStand(ts, es) /\ \A i \in 1 .. Len(words) : ~WrongWord(words, i)
  BY EntriesAre DEF ParsedWell
<1>2. DOMAIN words = 1 .. Len(words)
  BY LenProperties DEF IsStripe, IsSequence
<1> HIDE DEF es
<1>3. /\ Wrong(words) => Imageless(es)
      /\ ~Wrong(words) => ~Imageless(es)
  <2>1. \A i \in DOMAIN words : ~WrongWord(words, i)
    BY <1>1, <1>2
  <2> QED
    BY <2>1, WrongIs DEF es
<1>4. TurnsOf(es) % 4 \in 0 .. 3
  BY <1>1, TurnsAs
<1>5. Picture(words, w, h) = PictureOf(es, w, h)
  BY <1>4, PictureIs DEF es
<1> QED
  BY <1>1, <1>3, <1>5, Interpreted

-----------------------------------------------------------------------------
(* Stacking.                                                                 *)

LEMMA PicturesExist ==
  \A n \in Nat : \E f : f = [i \in 1 .. n |-> IF i = 1 THEN Picture(input[1], 0, 0)
                                              ELSE Picture(input[i], f[i - 1].width, f[i - 1].height)]
<1> DEFINE Step(f, n) == [i \in 1 .. n |-> IF i = 1 THEN Picture(input[1], 0, 0)
                                           ELSE Picture(input[i], f[i - 1].width, f[i - 1].height)]
           T == {n \in Nat : \E f : f = Step(f, n)}
<1>1. 0 \in T
  <2> DEFINE f == [i \in 1 .. 0 |-> 0]
  <2>1. f = Step(f, 0)
    OBVIOUS
  <2> QED
    BY <2>1
<1>2. ASSUME NEW n \in Nat, n \in T PROVE n + 1 \in T
  <2>1. PICK f : f = Step(f, n)
    BY <1>2
  <2> DEFINE next(i) == IF i = 1 THEN Picture(input[1], 0, 0)
                        ELSE Picture(input[i], f[i - 1].width, f[i - 1].height)
             g == [i \in 1 .. (n + 1) |-> IF i = n + 1 THEN next(i) ELSE f[i]]
  <2>2. \A i \in 1 .. n : g[i] = f[i]
    OBVIOUS
  <2>3. \A i \in 1 .. n : f[i] = next(i)
    BY <2>1
  <2>4. \A i \in 1 .. (n + 1) : g[i] = next(i)
    BY <2>3
  <2>5. g = [i \in 1 .. (n + 1) |-> g[i]]
    OBVIOUS
  <2> HIDE DEF g
  <2>6. \A i \in 1 .. (n + 1) :
          g[i] = IF i = 1 THEN Picture(input[1], 0, 0)
                 ELSE Picture(input[i], g[i - 1].width, g[i - 1].height)
    <3> SUFFICES ASSUME NEW i \in 1 .. (n + 1), i # 1
                 PROVE  g[i] = Picture(input[i], g[i - 1].width, g[i - 1].height)
      BY <2>4
    <3>1. i - 1 \in 1 .. n
      OBVIOUS
    <3>2. g[i - 1] = f[i - 1]
      BY <2>2, <3>1
    <3> QED
      BY <2>4, <3>2
  <2>7. g = Step(g, n + 1)
    BY <2>5, <2>6
  <2> QED
    BY <2>7
<1>3. \A n \in Nat : n \in T
  <2> HIDE DEF T
  <2> QED
    BY <1>1, <1>2, Induction
<1> QED
  BY <1>3

LEMMA PicturesAre ==
  ASSUME Len(input) \in Nat
  PROVE  /\ DOMAIN Pictures = 1 .. Len(input) /\ Len(Pictures) = Len(input)
         /\ \A i \in 1 .. Len(input) :
              Pictures[i] = IF i = 1 THEN Picture(input[1], 0, 0)
                            ELSE Picture(input[i], Pictures[i - 1].width, Pictures[i - 1].height)
<1> DEFINE n == Len(input)
           Step(f) == [i \in 1 .. n |-> IF i = 1 THEN Picture(input[1], 0, 0)
                                        ELSE Picture(input[i], f[i - 1].width, f[i - 1].height)]
           pictures == CHOOSE f : f = Step(f)
<1>1. Pictures = pictures
  BY DEF Pictures
<1>2. pictures = Step(pictures)
  BY PicturesExist
<1> HIDE DEF pictures, n
<1>3. n \in Nat
  BY DEF n
<1>4. /\ DOMAIN pictures = 1 .. n
      /\ \A i \in 1 .. n :
           pictures[i] = IF i = 1 THEN Picture(input[1], 0, 0)
                         ELSE Picture(input[i], pictures[i - 1].width, pictures[i - 1].height)
  BY <1>2
<1>5. Len(pictures) = n
  <2> DEFINE S == {pictures[i] : i \in 1 .. n}
  <2>1. pictures = [i \in 1 .. n |-> pictures[i]]
    BY <1>2
  <2>2. \A i \in 1 .. n : pictures[i] \in S
    OBVIOUS
  <2> HIDE DEF S
  <2>3. pictures \in [1 .. n -> S]
    BY <2>1, <2>2
  <2>4. pictures \in Seq(S)
    BY <1>3, <2>3
  <2>5. DOMAIN pictures = 1 .. Len(pictures) /\ Len(pictures) \in Nat
    BY <2>4, LenProperties
  <2> QED
    BY <1>3, <1>4, <2>5
<1> QED
  BY <1>1, <1>4, <1>5 DEF n

\* The images of the first n pictures.
AllPortray(images, pictures, n) == \A i \in 1 .. n : Portrays(images[i], pictures[i])

Heights(s) == [i \in DOMAIN s |-> s[i].height]
Widths(s) == {s[i].width : i \in DOMAIN s}

LEMMA HeightsAre ==
  ASSUME NEW m \in Nat, NEW images, NEW pictures, DOMAIN images = 1 .. m, DOMAIN pictures = 1 .. m,
         AllPortray(images, pictures, m)
  PROVE  /\ Heights(images) = Heights(pictures) /\ Widths(images) = Widths(pictures)
         /\ Heights(images) \in Seq(Nat) /\ Len(Heights(images)) = m
         /\ \A i \in 1 .. m : Heights(images)[i] = images[i].height
<1>1. \A i \in 1 .. m : /\ images[i].height = pictures[i].height /\ images[i].height \in Nat
                        /\ images[i].width = pictures[i].width
  BY DEF AllPortray, Portrays
<1>2. Heights(images) = [i \in 1 .. m |-> images[i].height]
  BY DEF Heights
<1> DEFINE h(i) == images[i].height
<1>3. \A i \in 1 .. m : h(i) \in Nat
  BY <1>1
<1> HIDE DEF h
<1>4. [i \in 1 .. m |-> h(i)] \in Seq(Nat) /\ Len([i \in 1 .. m |-> h(i)]) = m
  BY <1>3
<1> QED
  BY <1>1, <1>2, <1>4 DEF h, Heights, Widths

LEMMA WidestIs ==
  ASSUME NEW m \in Nat \ {0}, NEW images, NEW pictures, DOMAIN images = 1 .. m, DOMAIN pictures = 1 .. m,
         AllPortray(images, pictures, m)
  PROVE  /\ Max(Widths(images)) \in Nat \ {0}
         /\ \A i \in 1 .. m : images[i].width <= Max(Widths(images))
<1> DEFINE w(i) == images[i].width
           ws == [i \in 1 .. m |-> w(i)]
           b == Sums(ws)[m]
<1>1. \A i \in 1 .. m : w(i) \in Nat \ {0}
  BY DEF AllPortray, Portrays
<1>2. Widths(images) = {w(i) : i \in 1 .. m}
  BY DEF Widths
<1> HIDE DEF w
<1>3. ws \in Seq(Nat) /\ ws \in Seq(Int) /\ Len(ws) = m /\ \A i \in 1 .. m : ws[i] = w(i)
  BY <1>1
<1> HIDE DEF ws
<1>4. Sums(ws)[0] = 0 /\ \A k \in 1 .. m : Sums(ws)[k] = Sums(ws)[k - 1] + ws[k]
  BY <1>3, SumsAre
<1>5. \A k \in 0 .. m : 0 <= Sums(ws)[k] /\ Sums(ws)[k] <= b /\ Sums(ws)[k] \in Int
  <2> SUFFICES ASSUME NEW k \in 0 .. m
               PROVE  0 <= Sums(ws)[k] /\ Sums(ws)[k] <= b /\ Sums(ws)[k] \in Int
    OBVIOUS
  <2>1. 0 \in 0 .. m /\ m \in 0 .. m /\ 0 <= k /\ k <= m
    OBVIOUS
  <2>2. Sums(ws)[0] <= Sums(ws)[k] /\ Sums(ws)[k] <= Sums(ws)[m]
    BY <1>3, <2>1, SumsRise
  <2>3. Sums(ws)[k] \in Int
    BY <1>3, SumsType
  <2> QED
    BY <1>4, <2>2, <2>3
<1>6. b \in Nat
  BY <1>5
<1>7. \A i \in 1 .. m : w(i) \in 0 .. b
  <2> SUFFICES ASSUME NEW i \in 1 .. m PROVE w(i) \in 0 .. b
    OBVIOUS
  <2>1. i \in 0 .. m /\ i - 1 \in 0 .. m
    OBVIOUS
  <2>2. Sums(ws)[i] = Sums(ws)[i - 1] + w(i)
    BY <1>3, <1>4
  <2>3. 0 <= Sums(ws)[i - 1] /\ Sums(ws)[i - 1] \in Int /\ Sums(ws)[i] <= b /\ Sums(ws)[i] \in Int
    BY <1>5, <2>1
  <2> HIDE DEF b
  <2> QED
    BY <1>1, <1>6, <2>2, <2>3
<1> HIDE DEF b
<1> DEFINE S == {w(i) : i \in 1 .. m}
<1>8. S \in SUBSET (0 .. b) /\ S # {}
  BY <1>7
<1>9. \A i \in 1 .. m : w(i) \in S
  OBVIOUS
<1>10. \A y \in S : y \in Nat \ {0}
  BY <1>1
<1> HIDE DEF S
<1>11. Max(S) \in S /\ \A y \in S : Max(S) >= y
  BY <1>6, <1>8, Largest
<1>12. Max(S) \in Nat \ {0} /\ \A i \in 1 .. m : w(i) <= Max(S)
  BY <1>1, <1>9, <1>10, <1>11
<1> QED
  BY <1>2, <1>12 DEF S, w

LEMMA StackedShows ==
  ASSUME NEW m \in Nat \ {0}, NEW images, NEW pictures,
         DOMAIN images = 1 .. m, DOMAIN pictures = 1 .. m, Len(images) = m, Len(pictures) = m,
         AllPortray(images, pictures, m)
  PROVE  Shows(Stacked(images), pictures)
<1> DEFINE wide == Max(Widths(images))
           top == Sums(Heights(images))
           stripe(y) == CHOOSE i \in 1 .. m : top[i - 1] <= y /\ y < top[i]
           shown(i, x, y) == IF x < images[i].width
                          THEN images[i].pixels[x + y * images[i].width] ELSE White
           pixel == [xy \in Places(wide, top[m]) |->
                       shown(stripe(xy[2]), xy[1], xy[2] - top[stripe(xy[2]) - 1])]
           image == NewImage(wide, top[m], pixel)
<1>1. Stacked(images) = image
  BY DEF Stacked, Widths, Heights
<1>2. /\ Heights(images) = Heights(pictures) /\ Widths(images) = Widths(pictures)
      /\ Heights(images) \in Seq(Nat) /\ Len(Heights(images)) = m
      /\ \A i \in 1 .. m : Heights(images)[i] = images[i].height
  BY HeightsAre
<1>3. wide \in Nat \ {0}
  BY WidestIs
<1>4. top[0] = 0 /\ \A k \in 1 .. m : top[k] = top[k - 1] + images[k].height
  <2> DEFINE heights == Heights(images)
  <2>1. top = Sums(heights) /\ Len(heights) = m
    BY <1>2
  <2> HIDE DEF heights, top
  <2>2. Sums(heights)[0] = 0 /\ \A k \in 1 .. m : Sums(heights)[k] = Sums(heights)[k - 1] + heights[k]
    BY <2>1, SumsAre
  <2> QED
    BY <1>2, <2>1, <2>2 DEF heights
<1>5. Heights(images) \in Seq(Int)
  BY <1>2, SeqMonotonic
<1>6. \A k \in 0 .. m : top[k] \in Int
  BY <1>2, <1>5, SumsType
<1>7. \A i \in 1 .. m : Portrays(images[i], pictures[i])
  BY DEF AllPortray
<1>8. top[m] \in Nat \ {0}
  <2>1. 1 \in 0 .. m /\ m \in 0 .. m /\ 1 <= m /\ 1 \in 1 .. m
    OBVIOUS
  <2>2. top[1] <= top[m]
    BY <1>2, <2>1, SumsRise
  <2>3. images[1].height \in Nat \ {0}
    BY <1>7, <2>1 DEF Portrays
  <2>4. top[1] = top[0] + images[1].height
    BY <1>4, <2>1
  <2>5. top[1] \in Int /\ top[m] \in Int
    BY <1>6, <2>1
  <2> HIDE DEF top
  <2> QED
    BY <1>4, <2>2, <2>3, <2>4, <2>5
<1>9. image.width = wide /\ image.height = top[m]
  BY DEF NewImage
<1>10. ASSUME NEW x \in 0 .. (wide - 1), NEW y \in 0 .. (top[m] - 1)
       PROVE  \E i \in 1 .. m :
                /\ top[i - 1] <= y /\ y < top[i]
                /\ image.pixels[x + y * wide]
                     = IF x < pictures[i].width THEN pictures[i].at[<<x, y - top[i - 1]>>] ELSE White
  <2> DEFINE k == stripe(y)
             j == y - top[k - 1]
  <2>1. y \in Nat /\ y < top[m]
    BY <1>8
  <2>2. \E i \in 1 .. m : top[i - 1] <= y /\ y < top[i]
    <3>1. y < Sums(Heights(images))[Len(Heights(images))]
      BY <1>2, <2>1
    <3> HIDE DEF top
    <3>2. \E i \in 1 .. Len(Heights(images)) :
            Sums(Heights(images))[i - 1] <= y /\ y < Sums(Heights(images))[i]
      BY <1>2, <2>1, <3>1, SpanHolds
    <3> QED
      BY <1>2, <3>2 DEF top
  <2> HIDE DEF top, wide
  <2>3. k \in 1 .. m /\ top[k - 1] <= y /\ y < top[k]
    BY <2>2
  <2>4. <<x, y>> \in Places(wide, top[m])
    BY DEF Places
  <2>5. pixel[<<x, y>>] = shown(k, x, j)
    <3> DEFINE xy == <<x, y>>
               of(q) == shown(stripe(q[2]), q[1], q[2] - top[stripe(q[2]) - 1])
    <3>1. pixel = [q \in Places(wide, top[m]) |-> of(q)]
      OBVIOUS
    <3> HIDE DEF pixel, of
    <3>2. pixel[<<x, y>>] = of(<<x, y>>)
      BY <2>4, <3>1
    <3>3. xy[1] = x /\ xy[2] = y
      OBVIOUS
    <3>4. pixel[xy] = shown(stripe(xy[2]), xy[1], xy[2] - top[stripe(xy[2]) - 1])
      BY <3>2 DEF of
    <3> HIDE DEF xy, shown, stripe
    <3>5. pixel[xy] = shown(stripe(y), x, y - top[stripe(y) - 1])
      BY <3>3, <3>4
    <3> QED
      BY <3>5 DEF xy
  <2>6. image.pixels[x + y * wide] = pixel[<<x, y>>]
    <3> DEFINE high == top[m]
    <3>1. wide \in Nat \ {0} /\ high \in Nat \ {0} /\ x \in 0 .. (wide - 1) /\ y \in 0 .. (high - 1)
      BY <1>3, <1>8
    <3> HIDE DEF high, pixel
    <3>2. NewImage(wide, high, pixel).pixels[x + y * wide] = pixel[<<x, y>>]
      BY <3>1, PixelAt
    <3> QED
      BY <3>2 DEF high
  <2> HIDE DEF k, pixel, image
  <2>7. Portrays(images[k], pictures[k])
    BY <1>7, <2>3
  <2>8. j \in 0 .. (images[k].height - 1)
    <3>1. top[k] = top[k - 1] + images[k].height
      BY <1>4, <2>3
    <3>2. k - 1 \in 0 .. m /\ k \in 0 .. m
      BY <2>3
    <3>3. top[k] \in Int /\ top[k - 1] \in Int
      BY <1>6, <3>2
    <3>4. images[k].height \in Nat
      BY <2>7 DEF Portrays
    <3> QED
      BY <2>1, <2>3, <3>1, <3>3, <3>4
  <2> HIDE DEF j
  <2>9. shown(k, x, j) = IF x < pictures[k].width THEN pictures[k].at[<<x, j>>] ELSE White
    <3>1. images[k].width = pictures[k].width /\ images[k].width \in Nat
      BY <2>7 DEF Portrays
    <3>2. ASSUME x < images[k].width
          PROVE  images[k].pixels[x + j * images[k].width] = pictures[k].at[<<x, j>>]
      <4>1. x \in 0 .. (images[k].width - 1)
        BY <1>3, <3>1, <3>2
      <4> QED
        BY <2>7, <2>8, <4>1 DEF Portrays
    <3> QED
      BY <3>1, <3>2
  <2> HIDE DEF shown
  <2>10. image.pixels[x + y * wide]
           = IF x < pictures[k].width THEN pictures[k].at[<<x, y - top[k - 1]>>] ELSE White
    BY <2>5, <2>6, <2>9 DEF j
  <2> QED
    BY <2>3, <2>10
<1> HIDE DEF image, wide, top, pixel
<1>11. Shows(image, pictures)
  <2>1. Sums([i \in DOMAIN pictures |-> pictures[i].height]) = top
    BY <1>2 DEF top, Heights
  <2>2. Max({pictures[i].width : i \in DOMAIN pictures}) = wide
    BY <1>2 DEF wide, Widths
  <2>3. ASSUME NEW xy \in Places(wide, top[m])
        PROVE  \E i \in DOMAIN pictures :
                 /\ top[i - 1] <= xy[2] /\ xy[2] < top[i]
                 /\ image.pixels[xy[1] + xy[2] * wide]
                      = IF xy[1] < pictures[i].width
                        THEN pictures[i].at[<<xy[1], xy[2] - top[i - 1]>>] ELSE White
    <3>1. xy[1] \in 0 .. (wide - 1) /\ xy[2] \in 0 .. (top[m] - 1)
      BY DEF Places
    <3> QED
      BY <1>10, <3>1
  <2> QED
    BY <1>9, <2>1, <2>2, <2>3, Zenon DEF Shows
<1> QED
  BY <1>1, <1>11

LEMMA OneShows ==
  ASSUME NEW images, NEW pictures, DOMAIN images = 1 .. 1, DOMAIN pictures = 1 .. 1,
         Len(pictures) = 1, AllPortray(images, pictures, 1)
  PROVE  Shows(images[1], pictures)
<1> DEFINE image == images[1]
           p == pictures[1]
           heights == [i \in DOMAIN pictures |-> pictures[i].height]
           top == Sums(heights)
<1>1. Portrays(image, p)
  BY DEF AllPortray
<1> HIDE DEF image
<1>2. /\ image.width = p.width /\ image.width \in Nat \ {0}
      /\ image.height = p.height /\ image.height \in Nat \ {0}
      /\ \A x \in 0 .. (image.width - 1) : \A y \in 0 .. (image.height - 1) :
           image.pixels[x + y * image.width] = p.at[<<x, y>>]
  BY <1>1 DEF Portrays
<1>3. heights = [i \in 1 .. 1 |-> p.height]
  OBVIOUS
<1>4. heights[1] = p.height /\ Len(heights) = 1
  <2> DEFINE h == p.height
  <2> HIDE DEF h
  <2>1. Len([i \in 1 .. 1 |-> h]) = 1
    OBVIOUS
  <2> QED
    BY <1>3, <2>1 DEF h
<1>5. top[0] = 0 /\ top[1] = p.height
  <2> HIDE DEF heights
  <2>1. top[0] = 0 /\ top[1] = top[1 - 1] + heights[1]
    BY <1>4, SumsAre
  <2> QED
    BY <1>2, <1>4, <2>1
<1> HIDE DEF heights, top
<1>6. Max({pictures[i].width : i \in DOMAIN pictures}) = image.width
  <2>1. {pictures[i].width : i \in DOMAIN pictures} = {image.width}
    BY <1>2
  <2> DEFINE w == image.width
             S == {w}
  <2>2. w \in Nat /\ S \in SUBSET (0 .. w) /\ S # {}
    BY <1>2
  <2> HIDE DEF w, S
  <2>3. Max(S) \in S
    BY <2>2, Largest
  <2> QED
    BY <2>1, <2>3 DEF w, S
<1>7. ASSUME NEW xy \in Places(image.width, image.height)
      PROVE  \E i \in DOMAIN pictures :
               /\ top[i - 1] <= xy[2] /\ xy[2] < top[i]
               /\ image.pixels[xy[1] + xy[2] * image.width]
                    = IF xy[1] < pictures[i].width
                      THEN pictures[i].at[<<xy[1], xy[2] - top[i - 1]>>] ELSE White
  <2>1. xy[1] \in 0 .. (image.width - 1) /\ xy[2] \in 0 .. (image.height - 1)
    BY DEF Places
  <2>2. image.pixels[xy[1] + xy[2] * image.width] = p.at[<<xy[1], xy[2]>>]
    BY <1>2, <2>1
  <2>3. xy[1] < p.width /\ xy[2] - 0 = xy[2] /\ 0 <= xy[2] /\ xy[2] < p.height
    BY <1>2, <2>1
  <2>4. 1 \in DOMAIN pictures /\ 1 - 1 = 0
    OBVIOUS
  <2>5. /\ top[1 - 1] <= xy[2] /\ xy[2] < top[1]
        /\ image.pixels[xy[1] + xy[2] * image.width]
             = IF xy[1] < pictures[1].width
               THEN pictures[1].at[<<xy[1], xy[2] - top[1 - 1]>>] ELSE White
    BY <1>5, <2>2, <2>3, <2>4
  <2> QED
    BY <2>4, <2>5
<1>8. image.height = top[Len(pictures)]
  BY <1>2, <1>5
<1> QED
  BY <1>6, <1>7, <1>8, Zenon DEF Shows, top, heights, image

-----------------------------------------------------------------------------
(* The image is the one described.                                           *)

Stripes == Len(stripeImages)

\* The stripes done so far show their pictures.
DoneWell ==
  /\ IsSequence(stripeImages)
  /\ AllPortray(stripeImages, Pictures, Stripes)
  /\ \A i \in 1 .. Stripes : ~Wrong(input[i])

PreviousSize ==
  /\ prevW = IF Stripes = 0 THEN 0 ELSE Pictures[Stripes].width
  /\ prevH = IF Stripes = 0 THEN 0 ELSE Pictures[Stripes].height

Described ==
  IF input = <<>> \/ \E i \in DOMAIN input : Wrong(input[i]) THEN result = NoImage
  ELSE result # NoImage /\ Shows(result, Pictures)

DescInv ==
  /\ input \in Inputs
  /\ pc \in {"open", "parse", "interpret", "failed", "stack"} => DoneWell /\ result = NoImage
  /\ pc \in {"open", "parse", "interpret", "failed"} => PreviousSize
  /\ pc \in {"parse", "interpret", "failed"} => Stripes < Len(input)
  /\ pc = "open" => Stripes < Len(input) \/ input = <<>>
  /\ pc \in {"parse", "interpret"} => ~Unreadable /\ ParsedWell(Stripe, at, tokens)
  /\ pc = "parse" => at < Len(Stripe) \/ Stripe = <<>>
  /\ pc = "interpret" => at = Len(Stripe) /\ Stripe # <<>>
  /\ pc = "failed" => Wrong(Stripe)
  /\ pc = "stack" => Stripes = Len(input) /\ input # <<>>
  /\ pc \in {"cleanup", "done"} => Described

LEMMA InputIs ==
  ASSUME input \in Inputs
  PROVE  /\ Len(input) \in Nat /\ DOMAIN input = 1 .. Len(input)
         /\ input # <<>> => Len(input) # 0
         /\ \A i \in 1 .. Len(input) : IsStripe(input[i])
<1>1. IsSequence(input) /\ \A i \in DOMAIN input : IsStripe(input[i])
  BY InputsAssumption DEF IsStripe
<1>2. Len(input) \in Nat /\ DOMAIN input = 1 .. Len(input)
  BY <1>1, LenProperties DEF IsSequence
<1>3. input # <<>> => Len(input) # 0
  BY <1>1, EmptySeq DEF IsSequence
<1> QED
  BY <1>1, <1>2, <1>3

\* The stripe a step is at.
LEMMA StripeIs ==
  ASSUME input \in Inputs, DoneWell, Stripes < Len(input)
  PROVE  /\ Stripes \in Nat /\ Stripes + 1 \in 1 .. Len(input) /\ Stripes + 1 \in DOMAIN input
         /\ IsStripe(Stripe) /\ Stripe = input[Stripes + 1]
         /\ Len(Stripe) \in Nat /\ DOMAIN Stripe = 1 .. Len(Stripe)
         /\ Stripe # <<>> => Len(Stripe) # 0
<1>1. Len(input) \in Nat /\ DOMAIN input = 1 .. Len(input) /\ \A i \in 1 .. Len(input) : IsStripe(input[i])
  BY InputIs
<1>2. Stripes \in Nat
  BY LenProperties DEF DoneWell, IsSequence, Stripes
<1>3. Stripes + 1 \in 1 .. Len(input)
  BY <1>1, <1>2
<1>4. Stripe = input[Stripes + 1]
  BY DEF Stripe, Stripes
<1>5. IsStripe(Stripe)
  BY <1>1, <1>3, <1>4
<1>6. IsSequence(Stripe)
  BY <1>5 DEF IsStripe
<1>7. Len(Stripe) \in Nat /\ DOMAIN Stripe = 1 .. Len(Stripe)
  BY <1>6, LenProperties DEF IsSequence
<1>8. Stripe # <<>> => Len(Stripe) # 0
  BY <1>6, EmptySeq DEF IsSequence
<1> QED
  BY <1>1, <1>2, <1>3, <1>4, <1>5, <1>7, <1>8

\* The size a stripe has by default is that of the picture before.
LEMMA NextPicture ==
  ASSUME input \in Inputs, DoneWell, PreviousSize, Stripes < Len(input)
  PROVE  /\ prevW \in Nat /\ prevH \in Nat
         /\ Pictures[Stripes + 1] = Picture(Stripe, prevW, prevH)
<1> DEFINE n == Stripes
<1>1. n \in Nat /\ n + 1 \in 1 .. Len(input) /\ Stripe = input[n + 1] /\ n + 1 - 1 = n
  BY StripeIs
<1>2. Len(input) \in Nat
  BY InputIs
<1>3. Pictures[n + 1] = IF n + 1 = 1 THEN Picture(input[1], 0, 0)
                        ELSE Picture(input[n + 1], Pictures[n].width, Pictures[n].height)
  BY <1>1, <1>2, PicturesAre
<1>4. /\ prevW = IF n = 0 THEN 0 ELSE Pictures[n].width
      /\ prevH = IF n = 0 THEN 0 ELSE Pictures[n].height
  BY DEF PreviousSize
<1>5. AllPortray(stripeImages, Pictures, n)
  BY DEF DoneWell
<1> HIDE DEF n
<1>6. CASE n = 0
  <2>1. prevW = 0 /\ prevH = 0
    BY <1>4, <1>6
  <2>2. Pictures[n + 1] = Picture(input[n + 1], 0, 0)
    BY <1>3, <1>6
  <2> QED
    BY <1>1, <2>1, <2>2 DEF n
<1>7. CASE n # 0
  <2>1. n \in 1 .. n /\ n + 1 # 1
    BY <1>1, <1>7
  <2>2. Portrays(stripeImages[n], Pictures[n])
    BY <1>5, <2>1 DEF AllPortray
  <2>3. Pictures[n].width \in Nat /\ Pictures[n].height \in Nat
    BY <2>2 DEF Portrays
  <2>4. prevW = Pictures[n].width /\ prevH = Pictures[n].height
    BY <1>4, <1>7
  <2>5. Pictures[n + 1] = Picture(input[n + 1], Pictures[n].width, Pictures[n].height)
    BY <1>3, <2>1
  <2> QED
    BY <1>1, <2>3, <2>4, <2>5 DEF n
<1> QED
  BY <1>6, <1>7

\* A string one stripe of which is refused gives no image.
LEMMA Refused ==
  ASSUME input \in Inputs, DoneWell, result = NoImage, Stripes < Len(input), Wrong(Stripe)
  PROVE  Described
<1>1. Stripes + 1 \in DOMAIN input /\ Wrong(input[Stripes + 1])
  BY StripeIs
<1> QED
  BY <1>1 DEF Described

\* What cannot be read is found before the stripe is parsed.
LEMMA Readable ==
  ASSUME input \in Inputs, DoneWell, Stripes < Len(input), ~Unreadable, at \in Nat, at < Len(Stripe)
  PROVE  NextWord.type # "unreadable"
<1>1. /\ IsStripe(Stripe) /\ Len(Stripe) \in Nat /\ DOMAIN Stripe = 1 .. Len(Stripe)
  BY StripeIs
<1> SUFFICES ASSUME Stripe[at + 1].type = "unreadable" PROVE FALSE
  BY DEF NextWord
<1>2. at + 1 \in DOMAIN Stripe
  BY <1>1
<1>3. Len(Stripe) = 1
  BY <1>1, <1>2 DEF IsStripe
<1>4. at + 1 = 1
  BY <1>1, <1>3
<1>5. Stripe[1].type = "unreadable"
  BY <1>4
<1>6. Stripe # <<>>
  <2>1. \A s : s = <<>> => Len(s) = 0
    OBVIOUS
  <2> QED
    BY <1>3, <2>1
<1> QED
  BY <1>5, <1>6 DEF Unreadable

LEMMA DescInit == Init => DescInv
<1> SUFFICES ASSUME Init PROVE DescInv
  OBVIOUS
<1>1. Stripes = 0 /\ IsSequence(stripeImages)
  BY SequencesAre, EmptySeq DEF Init, Stripes
<1>2. DoneWell /\ result = NoImage
  BY <1>1 DEF DoneWell, AllPortray, Init
<1>3. PreviousSize
  BY <1>1 DEF PreviousSize, Init
<1>4. Stripes < Len(input) \/ input = <<>>
  <2>1. input \in Inputs
    BY DEF Init
  <2>2. Len(input) \in Nat /\ (input # <<>> => Len(input) # 0)
    BY <2>1, InputIs
  <2> QED
    BY <1>1, <2>2
<1> QED
  BY <1>2, <1>3, <1>4 DEF DescInv, Init

\* A stripe that is done.
LEMMA OneMoreDone ==
  ASSUME input \in Inputs, DoneWell, Stripes < Len(input),
         NEW image, Portrays(image, Pictures[Stripes + 1]), ~Wrong(Stripe),
         input' = input, stripeImages' = Append(stripeImages, image)
  PROVE  DoneWell' /\ Stripes' = Stripes + 1 /\ Pictures' = Pictures
<1> DEFINE n == Stripes
           S == {stripeImages[i] : i \in DOMAIN stripeImages}
<1>1. n \in Nat /\ n = Len(stripeImages) /\ Stripe = input[n + 1]
  BY StripeIs DEF Stripes
<1>2. stripeImages \in Seq(S)
  BY DEF DoneWell, IsSequence
<1>3. Pictures' = Pictures
  BY DEF Pictures
<1> HIDE DEF S
<1>4. /\ stripeImages' \in Seq(S \cup {image}) /\ Len(stripeImages') = Len(stripeImages) + 1
      /\ stripeImages'[Len(stripeImages) + 1] = image
      /\ \A i \in 1 .. Len(stripeImages) : stripeImages'[i] = stripeImages[i]
  <2>1. stripeImages \in Seq(S \cup {image})
    BY <1>2, SeqMonotonic
  <2> QED
    BY <2>1, AppendProperties
<1>5. IsSequence(stripeImages')
  BY <1>4, SequencesAre
<1>6. Stripes' = n + 1
  BY <1>1, <1>4 DEF Stripes
<1>7. /\ \A i \in 1 .. n : Portrays(stripeImages[i], Pictures[i]) /\ ~Wrong(input[i])
  BY DEF DoneWell, AllPortray
<1> HIDE DEF n
<1>8. \A i \in 1 .. (n + 1) : i \in 1 .. n \/ i = n + 1
  BY <1>1
<1>9. \A i \in 1 .. (n + 1) : Portrays(stripeImages'[i], Pictures[i]) /\ ~Wrong(input[i])
  <2>1. Portrays(stripeImages'[n + 1], Pictures[n + 1]) /\ ~Wrong(input[n + 1])
    BY <1>1, <1>4 DEF n
  <2>2. \A i \in 1 .. n : stripeImages'[i] = stripeImages[i]
    BY <1>1, <1>4
  <2> QED
    BY <1>7, <1>8, <2>1, <2>2
<1>10. AllPortray(stripeImages', Pictures', Stripes') /\ \A i \in 1 .. Stripes' : ~Wrong(input'[i])
  BY <1>3, <1>6, <1>9 DEF AllPortray
<1>11. DoneWell'
  BY <1>5, <1>10 DEF DoneWell
<1> QED
  BY <1>3, <1>6, <1>11 DEF n

LEMMA DescStep == DescInv /\ [Next]_vars => DescInv'
<1> SUFFICES ASSUME DescInv, [Next]_vars PROVE DescInv'
  OBVIOUS
<1>0. input \in Inputs
  BY DEF DescInv
<1>1. CASE NoStripes
  <2>1. input' = input /\ result' = NoImage /\ input = <<>> /\ pc' = "cleanup"
    BY <1>1 DEF NoStripes, DescInv
  <2>2. Described'
    BY <2>1 DEF Described
  <2> QED
    BY <1>0, <2>1, <2>2 DEF DescInv
<1>2. CASE OpenFailed
  <2>1. /\ pc = "open" /\ input # <<>> /\ pc' = "cleanup" /\ Unreadable
        /\ input' = input /\ result' = result
    BY <1>2 DEF OpenFailed
  <2>2. DoneWell /\ result = NoImage /\ Stripes < Len(input)
    BY <2>1 DEF DescInv
  <2>3. Wrong(Stripe)
    <3>1. 1 \in DOMAIN Stripe
      <4>1. Stripe # <<>>
        BY <2>1 DEF Unreadable
      <4>2. Len(Stripe) \in Nat \ {0} /\ DOMAIN Stripe = 1 .. Len(Stripe)
        BY <1>0, <2>2, <4>1, StripeIs
      <4> QED
        BY <4>2
    <3>2. WrongWord(Stripe, 1)
      BY <2>1 DEF WrongWord, Unreadable
    <3> QED
      BY <3>1, <3>2, WrongIs
  <2>4. Described
    BY <1>0, <2>2, <2>3, Refused
  <2>5. Described'
    BY <2>1, <2>4 DEF Described, Pictures
  <2> QED
    BY <1>0, <2>1, <2>5 DEF DescInv
<1>3. CASE Open
  <2>1. /\ pc = "open" /\ input # <<>> /\ pc' = "parse" /\ ~Unreadable /\ at' = 0 /\ tokens' = <<>>
        /\ input' = input /\ result' = result /\ stripeImages' = stripeImages
        /\ prevW' = prevW /\ prevH' = prevH
    BY <1>3 DEF Open
  <2>2. DoneWell /\ result = NoImage /\ Stripes < Len(input) /\ PreviousSize
    BY <2>1 DEF DescInv
  <2>3. Stripe' = Stripe /\ Stripes' = Stripes /\ Pictures' = Pictures
    BY <2>1 DEF Stripe, Stripes, Pictures
  <2>4. DoneWell' /\ PreviousSize'
    BY <2>1, <2>2, <2>3 DEF DoneWell, PreviousSize
  <2>5. ~Unreadable'
    BY <2>1, <2>3 DEF Unreadable
  <2>6. /\ IsStripe(Stripe) /\ Len(Stripe) \in Nat /\ (Stripe # <<>> => Len(Stripe) # 0)
    BY <1>0, <2>2, StripeIs
  <2>7. ParsedWell(Stripe', at', tokens')
    BY <2>1, <2>3, <2>6, NothingParsed
  <2>8. at' < Len(Stripe') \/ Stripe' = <<>>
    BY <2>1, <2>3, <2>6
  <2> QED
    BY <1>0, <2>1, <2>2, <2>3, <2>4, <2>5, <2>7, <2>8 DEF DescInv
<1>4. CASE ParseFails
  <2>1. /\ pc = "parse" /\ pc' = "failed"
        /\ input' = input /\ result' = result /\ stripeImages' = stripeImages
        /\ prevW' = prevW /\ prevH' = prevH
    BY <1>4 DEF ParseFails
  <2>2. /\ DoneWell /\ result = NoImage /\ Stripes < Len(input) /\ PreviousSize
        /\ ~Unreadable /\ ParsedWell(Stripe, at, tokens)
        /\ at < Len(Stripe) \/ Stripe = <<>>
    BY <2>1 DEF DescInv
  <2>3. Stripe' = Stripe /\ Stripes' = Stripes /\ Pictures' = Pictures
    BY <2>1 DEF Stripe, Stripes, Pictures
  <2>4. DoneWell' /\ PreviousSize'
    BY <2>1, <2>2, <2>3 DEF DoneWell, PreviousSize
  <2>5. IsStripe(Stripe) /\ Len(Stripe) \in Nat /\ at \in Nat
    BY <1>0, <2>2, StripeIs DEF ParsedWell
  <2>6. Wrong(Stripe)
    <3>1. CASE at = Len(Stripe)
      <4>1. Stripe = <<>>
        BY <2>2, <2>5, <3>1
      <4> QED
        BY <4>1, WrongIs
    <3>2. CASE at < Len(Stripe) /\ \/ NextWord.type = "junk"
                                   \/ NextWord.type # "junk" /\ parseNext(NextWord) = NULL
                                   \/ NextWord.type = "repeat" /\ NextWord.n # 0 /\ tokens = <<>>
      <4>1. NextWord.type # "unreadable"
        BY <1>0, <2>2, <2>5, <3>2, Readable
      <4>2. NextWord = Stripe[at + 1]
        BY DEF NextWord
      <4> DEFINE word == NextWord
                 words == Stripe
                 n == at
                 ts == tokens
      <4>3. /\ IsStripe(words) /\ ParsedWell(words, n, ts) /\ n \in Nat /\ n < Len(words)
            /\ word = words[n + 1] /\ word.type # "unreadable"
            /\ \/ word.type = "junk"
               \/ word.type # "junk" /\ parseNext(word) = NULL
               \/ word.type = "repeat" /\ word.n # 0 /\ ts = <<>>
        BY <2>2, <2>5, <3>2, <4>1, <4>2
      <4> HIDE DEF word, words, n, ts
      <4>4. Wrong(words)
        BY <4>3, ParseStops
      <4> QED
        BY <4>4 DEF words
    <3> QED
      BY <1>4, <3>1, <3>2 DEF ParseFails
  <2> QED
    BY <1>0, <2>1, <2>2, <2>3, <2>4, <2>6 DEF DescInv
<1>5. CASE Parse
  <2> DEFINE words == Stripe
             word == NextWord
             t == parseNext(word)
             n == at
             ts == tokens
  <2>1. /\ pc = "parse" /\ n < Len(words) /\ word.type # "junk" /\ t # NULL
        /\ \/ t.repeat # 0 /\ ts # <<>> /\ tokens' = Merged(ts, t)
           \/ t.repeat = 0 /\ tokens' = Append(ts, t)
        /\ at' = n + 1 /\ pc' = IF n + 1 = Len(words) THEN "interpret" ELSE "parse"
        /\ input' = input /\ result' = result /\ stripeImages' = stripeImages
        /\ prevW' = prevW /\ prevH' = prevH
    BY <1>5 DEF Parse
  <2>2. /\ DoneWell /\ result = NoImage /\ Stripes < Len(input) /\ PreviousSize
        /\ ~Unreadable /\ ParsedWell(words, n, ts)
    BY <2>1 DEF DescInv
  <2>3. Stripe' = words /\ Stripes' = Stripes /\ Pictures' = Pictures
    BY <2>1 DEF Stripe, Stripes, Pictures
  <2>4. DoneWell' /\ PreviousSize'
    BY <2>1, <2>2, <2>3 DEF DoneWell, PreviousSize
  <2>5. IsStripe(words) /\ Len(words) \in Nat /\ n \in Nat
    BY <1>0, <2>2, StripeIs DEF ParsedWell
  <2>6. word.type # "unreadable"
    BY <1>0, <2>1, <2>2, <2>5, Readable
  <2>7. ~Unreadable'
    BY <2>2, <2>3 DEF Unreadable
  <2>8. word = words[n + 1]
    BY DEF NextWord
  <2>9. t = parseNext(word)
    OBVIOUS
  <2> HIDE DEF words, word, t, n, ts
  <2>10. ParsedWell(words, n + 1, tokens')
    <3>1. /\ t.repeat # 0 /\ ts # <<>> => ParsedWell(words, n + 1, Merged(ts, t))
          /\ t.repeat = 0 => ParsedWell(words, n + 1, Append(ts, t))
      <4>1. word.type \notin {"junk", "unreadable"}
        BY <2>1, <2>6
      <4> QED
        BY <2>1, <2>2, <2>5, <2>8, <2>9, <4>1, ParseOne
    <3> QED
      BY <2>1, <3>1
  <2>11. ParsedWell(Stripe', at', tokens')
    BY <2>1, <2>3, <2>10
  <2>12. CASE n + 1 = Len(words)
    <3>1. pc' = "interpret" /\ at' = Len(Stripe')
      BY <2>1, <2>3, <2>12
    <3>2. Stripe' # <<>>
      <4>1. \A s : s = <<>> => Len(s) = 0
        OBVIOUS
      <4> QED
        BY <2>3, <2>5, <2>12, <4>1
    <3> QED
      BY <1>0, <2>1, <2>2, <2>3, <2>4, <2>7, <2>11, <3>1, <3>2 DEF DescInv
  <2>13. CASE n + 1 # Len(words)
    <3>1. pc' = "parse" /\ at' < Len(Stripe')
      BY <2>1, <2>3, <2>5, <2>13
    <3> QED
      BY <1>0, <2>1, <2>2, <2>3, <2>4, <2>7, <2>11, <3>1 DEF DescInv
  <2> QED
    BY <2>12, <2>13
<1>6. CASE StripeFailed
  <2>1. pc = "failed" /\ pc' = "cleanup" /\ input' = input /\ result' = result
    BY <1>6 DEF StripeFailed
  <2>2. Described
    BY <1>0, <2>1, Refused DEF DescInv
  <2>3. Described'
    BY <2>1, <2>2 DEF Described, Pictures
  <2> QED
    BY <1>0, <2>1, <2>3 DEF DescInv
<1>7. CASE Interpret
  <2> DEFINE image == interpretTokens(tokens, prevW, prevH)
  <2>1. /\ pc = "interpret" /\ input' = input /\ result' = result
        /\ \/ image = NoImage /\ pc' = "cleanup"
           \/ /\ image # NoImage
              /\ stripeImages' = Append(stripeImages, image)
              /\ prevW' = image.width /\ prevH' = image.height
              /\ pc' = IF Stripes + 1 = Len(input) THEN "stack" ELSE "open"
    BY <1>7, Zenon DEF Interpret, Stripes
  <2>2. /\ DoneWell /\ result = NoImage /\ Stripes < Len(input) /\ PreviousSize
        /\ ParsedWell(Stripe, Len(Stripe), tokens) /\ Stripe # <<>>
    BY <2>1 DEF DescInv
  <2>3. IsStripe(Stripe) /\ Stripes \in Nat
    BY <1>0, <2>2, StripeIs
  <2>4. prevW \in Nat /\ prevH \in Nat /\ Pictures[Stripes + 1] = Picture(Stripe, prevW, prevH)
    BY <1>0, <2>2, NextPicture
  <2>5. /\ Wrong(Stripe) => image = NoImage
        /\ ~Wrong(Stripe) => Portrays(image, Pictures[Stripes + 1])
    <3> DEFINE words == Stripe
    <3>1. IsStripe(words) /\ words # <<>> /\ ParsedWell(words, Len(words), tokens)
      BY <2>2, <2>3
    <3> HIDE DEF words
    <3>2. /\ Wrong(words) => image = NoImage
          /\ ~Wrong(words) => Portrays(image, Picture(words, prevW, prevH))
      BY <2>4, <3>1, StripeInterpreted
    <3> QED
      BY <2>4, <3>2 DEF words
  <2> HIDE DEF image
  <2>6. CASE image = NoImage
    <3>1. Wrong(Stripe)
      BY <2>5, <2>6 DEF Portrays
    <3>2. Described
      BY <1>0, <2>2, <3>1, Refused
    <3>3. Described'
      BY <2>1, <3>2 DEF Described, Pictures
    <3>4. pc' = "cleanup"
      BY <2>1, <2>6
    <3> QED
      BY <1>0, <2>1, <3>3, <3>4 DEF DescInv
  <2>7. CASE image # NoImage
    <3>1. ~Wrong(Stripe) /\ Portrays(image, Pictures[Stripes + 1])
      BY <2>5, <2>7
    <3>2. /\ stripeImages' = Append(stripeImages, image)
          /\ prevW' = image.width /\ prevH' = image.height
          /\ pc' = IF Stripes + 1 = Len(input) THEN "stack" ELSE "open"
      BY <2>1, <2>7
    <3>3. DoneWell' /\ Stripes' = Stripes + 1 /\ Pictures' = Pictures
      BY <1>0, <2>1, <2>2, <3>1, <3>2, OneMoreDone
    <3>4. PreviousSize'
      <4>1. image.width = Pictures[Stripes + 1].width /\ image.height = Pictures[Stripes + 1].height
        BY <3>1 DEF Portrays
      <4>2. Stripes + 1 # 0
        BY <2>3
      <4>3. Stripes' # 0 /\ prevW' = Pictures'[Stripes'].width /\ prevH' = Pictures'[Stripes'].height
        BY <3>2, <3>3, <4>1, <4>2
      <4> QED
        BY <4>3 DEF PreviousSize
    <3>5. Len(input) \in Nat
      BY <1>0, InputIs
    <3>6. CASE Stripes + 1 = Len(input)
      <4>1. input # <<>>
        <5>1. \A s : s = <<>> => Len(s) = 0
          OBVIOUS
        <5> QED
          BY <2>3, <3>6, <5>1
      <4>2. pc' = "stack" /\ Stripes' = Len(input')
        BY <2>1, <3>2, <3>3, <3>6
      <4> QED
        BY <1>0, <2>1, <2>2, <3>3, <4>1, <4>2 DEF DescInv
    <3>7. CASE Stripes + 1 # Len(input)
      <4>1. pc' = "open" /\ Stripes' < Len(input')
        BY <2>1, <2>2, <2>3, <3>2, <3>3, <3>5, <3>7
      <4> QED
        BY <1>0, <2>1, <2>2, <3>3, <3>4, <4>1 DEF DescInv
    <3> QED
      BY <3>6, <3>7
  <2> QED
    BY <2>6, <2>7
<1>8. CASE Stack
  <2>1. pc = "stack" /\ pc' = "cleanup" /\ input' = input
    BY <1>8 DEF Stack
  <2>2. DoneWell /\ Stripes = Len(input) /\ input # <<>>
    BY <2>1 DEF DescInv
  <2> DEFINE m == Len(input)
             images == stripeImages
             pictures == Pictures
  <2>3. m \in Nat \ {0} /\ DOMAIN input = 1 .. m
    BY <1>0, <2>2, InputIs
  <2>4. DOMAIN pictures = 1 .. m /\ Len(pictures) = m
    BY <2>3, PicturesAre
  <2>5. DOMAIN images = 1 .. m /\ Len(images) = m
    <3>1. DOMAIN images = 1 .. Len(images)
      BY <2>2, LenProperties DEF DoneWell, IsSequence
    <3>2. Len(images) = m
      BY <2>2 DEF Stripes
    <3> QED
      BY <3>1, <3>2
  <2>6. AllPortray(images, pictures, m) /\ \A i \in DOMAIN input : ~Wrong(input[i])
    BY <2>2, <2>3 DEF DoneWell
  <2>7. \/ m = 1 /\ result' = images[1]
        \/ m > 1 /\ result' = Stacked(images)
    BY <1>8 DEF Stack
  <2>8. Pictures' = pictures
    BY <2>1 DEF Pictures
  <2> HIDE DEF m, images, pictures
  <2>9. result' # NoImage /\ Shows(result', pictures)
    <3>1. CASE m = 1 /\ result' = images[1]
      <4>1. Portrays(images[1], pictures[1])
        BY <2>6, <3>1 DEF AllPortray
      <4>2. images[1] # NoImage
        BY <4>1 DEF Portrays
      <4>3. Shows(images[1], pictures)
        BY <2>4, <2>5, <2>6, <3>1, OneShows
      <4> QED
        BY <3>1, <4>2, <4>3
    <3>2. CASE m > 1 /\ result' = Stacked(images)
      <4>1. Shows(Stacked(images), pictures)
        BY <2>3, <2>4, <2>5, <2>6, StackedShows
      <4> QED
        BY <3>2, <4>1, StackedIsSome
    <3> QED
      BY <2>7, <3>1, <3>2
  <2>10. Described'
    BY <2>1, <2>2, <2>6, <2>8, <2>9 DEF Described
  <2> QED
    BY <1>0, <2>1, <2>10 DEF DescInv
<1>9. CASE Cleanup
  <2>1. pc = "cleanup" /\ pc' = "done" /\ input' = input /\ result' = result
    BY <1>9 DEF Cleanup
  <2>2. Described
    BY <2>1 DEF DescInv
  <2>3. Described'
    BY <2>1, <2>2 DEF Described, Pictures
  <2> QED
    BY <1>0, <2>1, <2>3 DEF DescInv
<1>10. CASE UNCHANGED vars
  <2>1. /\ pc' = pc /\ input' = input /\ result' = result /\ stripeImages' = stripeImages
        /\ prevW' = prevW /\ prevH' = prevH /\ at' = at /\ tokens' = tokens
    BY <1>10 DEF vars
  <2>2. Stripe' = Stripe /\ Stripes' = Stripes /\ Pictures' = Pictures
    BY <2>1 DEF Stripe, Stripes, Pictures
  <2>3. /\ (DoneWell => DoneWell') /\ (PreviousSize => PreviousSize')
        /\ (~Unreadable => ~Unreadable') /\ (Described => Described')
    BY <2>1, <2>2 DEF DoneWell, PreviousSize, Unreadable, Described
  <2> QED
    BY <2>1, <2>2, <2>3 DEF DescInv
<1> QED
  BY <1>1, <1>2, <1>3, <1>4, <1>5, <1>6, <1>7, <1>8, <1>9, <1>10 DEF Next, Ended

\* The image at the end is the one the string describes, of whatever words it is and
\* however many stripes, and a string in error gives none (clImageParseString).
THEOREM ImageIsDescribed == Spec => []ImageAsDescribed
<1>1. Init => DescInv
  BY DescInit
<1>2. DescInv /\ [Next]_vars => DescInv'
  BY DescStep
<1>3. DescInv => ImageAsDescribed
  BY Zenon DEF DescInv, ImageAsDescribed, Described
<1> QED
  BY <1>1, <1>2, <1>3, PTL DEF Spec
=================================================================================
