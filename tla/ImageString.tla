------------------------------- MODULE ImageString -------------------------------
(***************************************************************************)
(* clImageParseString (lib/src/image_string.c): the language of the        *)
(* generate and calc commands.  A string is stripes; a stripe is words     *)
(* (colors, ranges, repeats, dimensions, turns, charts), parsed into a     *)
(* linked list of tokens that interpretTokens turns into an image; stripes *)
(* are stacked.  The spelling of words is abstracted: the string comes as  *)
(* a sequence of stripes, each a sequence of words.                        *)
(*                                                                         *)
(* A channel is an integer, One standing for 1.0.                          *)
(***************************************************************************)
EXTENDS Integers, Sequences, FiniteSets, SequencesExt

CONSTANTS Inputs,     \* the strings enumerated
          One,        \* 1.0
          MaxLevel,   \* MaxLevel[depth]: the largest integer level of a color
          NULL

\* The null pointer to an image.
NoImage == <<>>

Depths == {8, 16, 32}   \* "8 and 16 are unorm, 32 is float"

ASSUME ImageStringAssumption ==
  /\ One \in Nat \ {0}
  /\ MaxLevel \in [{8, 16} -> Nat \ {0}]
  /\ \A d \in {8, 16} : One % MaxLevel[d] = 0

IsSequence(s) == s \in Seq({s[i] : i \in DOMAIN s})

Levels == [1 .. 3 -> Int]

IsColor(c) == c.depth \in Depths /\ c.levels \in Levels

\* The words there are; numbers are digits, but for the turn of "ccw".  The levels of
\* the HALDs enumerated are exact.
IsWord(w) ==
  CASE w.type = "color"  -> IsColor(w.start)
    [] w.type = "range"  -> IsColor(w.start) /\ IsColor(w.end) /\ w.count \in Nat
    [] w.type = "repeat" -> w.n \in Nat
    [] w.type = "dims"   -> w.w \in Nat /\ w.h \in Nat
    [] w.type = "hald"   -> w.n \in Nat /\ (w.n > 1 => One % (w.n - 1) = 0)
    [] w.type = "cie"    -> w.n \in Nat
    [] w.type = "rotate" -> w.n \in Int
    [] w.type \in {"bad", "junk", "unreadable"} -> TRUE
    [] OTHER -> FALSE

\* A string is a sequence of stripes, a stripe one of words; what cannot be read is
\* all there is of its stripe.
ASSUME InputsAssumption ==
  \A string \in Inputs :
    /\ IsSequence(string)
    /\ \A i \in DOMAIN string :
         /\ IsSequence(string[i])
         /\ \A j \in DOMAIN string[i] :
              /\ IsWord(string[i][j])
              /\ string[i][j].type = "unreadable" => Len(string[i]) = 1

VARIABLES pc,
          input,          \* the string, split into stripes
          prevW, prevH,   \* the size of the stripe before
          at,             \* the words of the current stripe parsed so far
          tokens,         \* the list of tokens of the current stripe
          stripeImages,   \* the images of the stripes done, as a sequence
          result,         \* the image returned, or NoImage
          allocated       \* how many tokens and images are not freed

vars == <<pc, input, prevW, prevH, at, tokens, stripeImages, result, allocated>>

Init ==
  /\ pc = "open"
  /\ input \in Inputs
  /\ prevW = 0 /\ prevH = 0
  /\ at = 0
  /\ tokens = <<>>
  /\ stripeImages = <<>>
  /\ result = NoImage
  /\ allocated = [tokens |-> 0, images |-> 0]

Stripe == input[Len(stripeImages) + 1]

-----------------------------------------------------------------------------
(* Colors and tokens *)

Clamp(n, low, high) == IF n < low THEN low ELSE IF n > high THEN high ELSE n

\* finishColor: integer levels are clamped and become floats.
Level(c, channel) ==
  IF c.depth = 32 THEN c.levels[channel]
                  ELSE Clamp(c.levels[channel], 0, MaxLevel[c.depth])

finishColor(c) ==
  [ch \in 1 .. 3 |->
     IF c.depth = 32 THEN Level(c, ch) ELSE Level(c, ch) * (One \div MaxLevel[c.depth])]

Distance(m, n) == IF m < n THEN n - m ELSE m - n

\* finishRange: the count of a range; NULL where it has to be given and is not.
finishRange(w) ==
  IF w.count # 0 THEN w.count
  ELSE IF w.start.depth = 32 \/ w.start.depth # w.end.depth THEN NULL
  ELSE LET diffs == {Distance(Level(w.start, ch), Level(w.end, ch)) : ch \in 1 .. 3}
       IN  1 + CHOOSE m \in diffs : \A n \in diffs : n <= m

Zeroed == [width |-> 0, height |-> 0, start |-> NULL, end |-> NULL, count |-> 0,
           repeat |-> 0, hald |-> 0, cie |-> 0, rotate |-> 0]

Token == [width: Nat, height: Nat, start: Levels \cup {NULL}, end: Levels \cup {NULL}, count: Nat,
          repeat: Nat, hald: Nat, cie: Nat, rotate: Int]

ASSUME NullAssumption == NULL \notin Nat \cup Token

\* parseNext: the token of a word, or NULL where the word is in error.
parseNext(w) ==
  CASE w.type = "color"  -> [Zeroed EXCEPT !.start = finishColor(w.start), !.count = 1]
    [] w.type = "range"  ->
         IF finishRange(w) = NULL THEN NULL
         ELSE [Zeroed EXCEPT !.start = finishColor(w.start), !.end = finishColor(w.end),
                             !.count = finishRange(w)]
    [] w.type = "repeat" -> [Zeroed EXCEPT !.repeat = w.n]
    [] w.type = "dims"   -> [Zeroed EXCEPT !.width = w.w, !.height = w.h]
    [] w.type = "hald"   -> [Zeroed EXCEPT !.hald = w.n]
    [] w.type = "cie"    -> [Zeroed EXCEPT !.cie = w.n]
    [] w.type = "rotate" -> [Zeroed EXCEPT !.rotate = w.n]
    [] w.type = "bad"    -> NULL

-----------------------------------------------------------------------------
(* interpretTokens *)

Span(t) == IF t.repeat # 0 THEN t.count * t.repeat ELSE t.count

\* Sums(s)[k]: of the first k numbers of s.
Sums(s) ==
  LET sum[k \in 0 .. Len(s)] == IF k = 0 THEN 0 ELSE sum[k - 1] + s[k]
  IN  sum

\* ColorEnds(ts)[k]: the colors of the first k tokens.
ColorEnds(ts) == Sums([k \in DOMAIN ts |-> Span(ts[k])])

\* Mutant: the index within a repeated range runs on over its count.
ColorFromRangeUnwrapped(t, reqIndex) ==
  [ch \in 1 .. 3 |->
     t.start[ch] + ((t.end[ch] - t.start[ch]) * reqIndex) \div (t.count - 1)]

\* getColorFromRange
ColorFromRange(t, reqIndex) ==
  [ch \in 1 .. 3 |->
     t.start[ch] + ((t.end[ch] - t.start[ch]) * (reqIndex % t.count)) \div (t.count - 1)]

\* getColor; NULL is the assertion "what to do here?".
getColor(ts, reqIndex) ==
  LET end == ColorEnds(ts)
      holds(k) == reqIndex >= end[k - 1] /\ reqIndex < end[k]
  IN  IF \A k \in 1 .. Len(ts) : ~holds(k) THEN NULL
      ELSE LET k == CHOOSE k \in 1 .. Len(ts) : holds(k)
           IN  IF ts[k].count = 1 THEN ts[k].start
               ELSE ColorFromRange(ts[k], reqIndex - end[k - 1])

\* The last token that says anything of field, or default.
LastSaid(ts, field, default) ==
  LET said == {k \in DOMAIN ts : ts[k][field] # 0}
  IN  IF said = {} THEN default ELSE ts[Max(said)]

\* How many quarter turns the tokens add up to.
TurnsSaid(ts) == Sums([k \in DOMAIN ts |-> ts[k].rotate])[Len(ts)] % 4

\* What the tokens ask for; the dimensions are those of the last token with a width.
Said(ts, defaultW, defaultH) ==
  LET default == [Zeroed EXCEPT !.width = defaultW, !.height = defaultH]
      dims    == LastSaid(ts, "width", default)
  IN  [width  |-> dims.width, height |-> dims.height,
       hald   |-> LastSaid(ts, "hald", Zeroed).hald,
       cie    |-> LastSaid(ts, "cie", Zeroed).cie,
       rotate |-> TurnsSaid(ts)]

\* Pixels that are no color: of a CIE chart, and not a number.
Chart == <<-1, -1, -1>>
NaN   == <<-2, -2, -2>>

\* What clImagePrepareWritePixels leaves in an image that had no pixels.
White == <<One, One, One>>

\* clImageCreate and the pixel at each x, y.
NewImage(w, h, pixel) ==
  [width |-> w, height |-> h, pixels |-> [k \in 0 .. (w * h - 1) |-> pixel[<<k % w, k \div w>>]]]

Places(w, h) == (0 .. (w - 1)) \X (0 .. (h - 1))

\* The side of the image for a HALD of n x n x n; 0 when n is no square below 32 * 32.
HaldSide(n) ==
  LET roots == {i \in 0 .. 31 : i * i = n}
  IN  IF roots = {} THEN 0 ELSE LET i == CHOOSE i \in roots : TRUE IN i * i * i

\* An identity HALD: red runs first, then green, then blue; 0 / 0 for n = 1.
HaldPixel(n, k) ==
  IF n = 1 THEN NaN
  ELSE LET channel(i) == (i * One) \div (n - 1)
       IN  <<channel(k % n), channel((k \div n) % n), channel(k \div (n * n))>>

HaldImage(n) ==
  LET side == HaldSide(n)
  IN  NewImage(side, side, [xy \in Places(side, side) |-> HaldPixel(n, xy[1] + xy[2] * side)])

\* How many pixels a color gets, filling columns down, then to the right.
every(colorCount, w, h) == IF colorCount < w THEN h * (w \div colorCount) ELSE h

\* The color index at every pixel of that walk.
ColorIndex(colorCount, w, h) ==
  LET index[p \in 0 .. (w * h - 1)] ==
        IF p = 0 THEN 0
        ELSE Clamp(IF p % every(colorCount, w, h) = 0 THEN index[p - 1] + 1 ELSE index[p - 1],
                   0, colorCount - 1)
  IN  index

ColorImage(ts, colorCount, w, h) ==
  LET index == ColorIndex(colorCount, w, h)
  IN  NewImage(w, h, [xy \in Places(w, h) |-> getColor(ts, index[xy[1] * h + xy[2]])])

ChartImage(n) == NewImage(n, n, [xy \in Places(n, n) |-> Chart])

\* clImageRotate, turns clockwise.
Rotated(im, turns) ==
  LET w == IF turns \in {1, 3} THEN im.height ELSE im.width
      h == IF turns \in {1, 3} THEN im.width ELSE im.height
      source(x, y) == CASE turns = 0 -> <<x, y>>
                        [] turns = 1 -> <<y, im.height - 1 - x>>
                        [] turns = 2 -> <<im.width - 1 - x, im.height - 1 - y>>
                        [] turns = 3 -> <<im.width - 1 - y, x>>
  IN  NewImage(w, h, [xy \in Places(w, h) |->
                        LET from == source(xy[1], xy[2])
                        IN  im.pixels[from[1] + from[2] * im.width]])

\* The image of a stripe, or NoImage where the tokens describe none.
interpretTokens(ts, defaultW, defaultH) ==
  LET said       == Said(ts, defaultW, defaultH)
      colorCount == ColorEnds(ts)[Len(ts)]
      sized      == said.width # 0 /\ said.height # 0
      w          == IF sized THEN said.width ELSE colorCount
      h          == IF sized THEN said.height ELSE 1
  IN  CASE said.cie > 0 -> Rotated(ChartImage(said.cie), said.rotate)
        [] said.cie = 0 /\ said.hald > 0 ->
             IF HaldSide(said.hald) = 0 THEN NoImage
             ELSE Rotated(HaldImage(said.hald), said.rotate)
        [] said.cie = 0 /\ said.hald = 0 ->
             IF colorCount < 1 THEN NoImage
             ELSE Rotated(ColorImage(ts, colorCount, w, h), said.rotate)

-----------------------------------------------------------------------------
(* clImageParseStripe and clImageParseString *)

NextWord == Stripe[at + 1]

\* "no valid image stripes found"
NoStripes ==
  /\ pc = "open" /\ input = <<>>
  /\ pc' = "cleanup"
  /\ UNCHANGED <<input, prevW, prevH, at, tokens, stripeImages, result, allocated>>

Unreadable == Stripe # <<>> /\ Stripe[1].type = "unreadable"

\* A response file that cannot be read.
OpenFailed ==
  /\ pc = "open" /\ input # <<>>
  /\ Unreadable
  /\ pc' = "cleanup"
  /\ UNCHANGED <<input, prevW, prevH, at, tokens, stripeImages, result, allocated>>

Open ==
  /\ pc = "open" /\ input # <<>>
  /\ ~Unreadable
  /\ pc' = "parse"
  /\ at' = 0 /\ tokens' = <<>>
  /\ UNCHANGED <<input, prevW, prevH, stripeImages, result, allocated>>

\* The token was allocated and is freed; so will be those parsed before.
ParseFails ==
  /\ pc = "parse"
  /\ \/ at = Len(Stripe)
     \/ /\ at < Len(Stripe)
        /\ \/ NextWord.type = "junk"
           \/ NextWord.type # "junk" /\ parseNext(NextWord) = NULL
           \/ NextWord.type = "repeat" /\ NextWord.n # 0 /\ tokens = <<>>
  /\ pc' = "failed"
  /\ UNCHANGED <<input, prevW, prevH, at, tokens, stripeImages, result, allocated>>

\* "Parsed a repeat token, just merge it with the last token"
Merged(ts, token) == Append(Front(ts), [Last(ts) EXCEPT !.repeat = token.repeat])

Parse ==
  /\ pc = "parse"
  /\ at < Len(Stripe)
  /\ NextWord.type # "junk"
  /\ parseNext(NextWord) # NULL
  /\ LET token == parseNext(NextWord)
     IN  \/ /\ token.repeat # 0
            /\ tokens # <<>>
            /\ tokens' = Merged(tokens, token)
            /\ UNCHANGED allocated
         \/ /\ token.repeat = 0
            /\ tokens' = Append(tokens, token)
            /\ allocated' = [allocated EXCEPT !.tokens = @ + 1]
  /\ at' = at + 1
  /\ pc' = IF at + 1 = Len(Stripe) THEN "interpret" ELSE "parse"
  /\ UNCHANGED <<input, prevW, prevH, stripeImages, result>>

\* Mutant: only the head of the list is freed when parsing failed.
FreeHead == [allocated EXCEPT !.tokens = @ - (IF tokens = <<>> THEN 0 ELSE 1)]

\* parseCleanup of the stripe walks the list.
FreeTokens == [allocated EXCEPT !.tokens = @ - Len(tokens)]

StripeFailed ==
  /\ pc = "failed"
  /\ allocated' = FreeTokens
  /\ pc' = "cleanup"
  /\ UNCHANGED <<input, prevW, prevH, at, tokens, stripeImages, result>>

Interpret ==
  /\ pc = "interpret"
  /\ LET image == interpretTokens(tokens, prevW, prevH)
     IN  \/ /\ image = NoImage
            /\ pc' = "cleanup"
            /\ allocated' = FreeTokens
            /\ UNCHANGED <<prevW, prevH, stripeImages>>
         \/ /\ image # NoImage
            /\ stripeImages' = Append(stripeImages, image)
            /\ prevW' = image.width /\ prevH' = image.height
            /\ allocated' = [FreeTokens EXCEPT !.images = @ + 1]
            /\ pc' = IF Len(stripeImages) + 1 = Len(input) THEN "stack" ELSE "open"
  /\ UNCHANGED <<input, at, tokens, result>>

\* The stripes are copied, row by row, into a new (white) image as wide as the widest.
Stacked(images) ==
  LET wide    == Max({images[i].width : i \in DOMAIN images})
      top     == Sums([i \in DOMAIN images |-> images[i].height])
      stripe(y) == CHOOSE i \in DOMAIN images : top[i - 1] <= y /\ y < top[i]
      pixel(i, x, y) == IF x < images[i].width
                        THEN images[i].pixels[x + y * images[i].width] ELSE White
  IN  NewImage(wide, top[Len(images)],
               [xy \in Places(wide, top[Len(images)]) |->
                  pixel(stripe(xy[2]), xy[1], xy[2] - top[stripe(xy[2]) - 1])])

Stack ==
  /\ pc = "stack"
  /\ \/ /\ Len(input) > 1
        /\ result' = Stacked(stripeImages)
        /\ allocated' = [allocated EXCEPT !.images = @ + 1]
        /\ UNCHANGED stripeImages
     \/ /\ Len(input) = 1
        /\ result' = stripeImages[1]
        /\ stripeImages' = <<>>       \* stripes->image = NULL
        /\ UNCHANGED allocated
  /\ pc' = "cleanup"
  /\ UNCHANGED <<input, prevW, prevH, at, tokens>>

\* parseCleanup of the string: every stripe is freed, with its image if it has one.
Cleanup ==
  /\ pc = "cleanup"
  /\ allocated' = [allocated EXCEPT !.images = @ - Len(stripeImages)]
  /\ stripeImages' = <<>>
  /\ pc' = "done"
  /\ UNCHANGED <<input, prevW, prevH, at, tokens, result>>

Ended == pc = "done" /\ UNCHANGED vars

Next == \/ NoStripes \/ OpenFailed \/ Open \/ ParseFails \/ Parse \/ StripeFailed
        \/ Interpret \/ Stack \/ Cleanup \/ Ended

Spec == Init /\ [][Next]_vars

-----------------------------------------------------------------------------
(* clImageApplyHALD: looking up colors in a HALD image of n x n x n.  A color *)
(* is given by its place in the cube, in half cells, so that squared          *)
(* distances are integers (quarters of a cell's side squared).                *)

Corners == {0, 1} \X {0, 1} \X {0, 1}

\* Mutant: rounds instead of taking the floor.
FirstCornerRounded(n, ideal) == [ch \in 1 .. 3 |-> Clamp((ideal[ch] + 1) \div 2, 0, n - 2)]

FirstCorner(n, ideal) == [ch \in 1 .. 3 |-> Clamp(ideal[ch] \div 2, 0, n - 2)]

DistSquared(n, ideal, corner) ==
  LET d(ch) == 2 * (FirstCorner(n, ideal)[ch] + corner[ch]) - ideal[ch]
  IN  d(1) * d(1) + d(2) * d(2) + d(3) * d(3)

\* The eight terms of the loops.
OverCorners(term) ==
  term[<<0, 0, 0>>] + term[<<1, 0, 0>>] + term[<<0, 1, 0>>] + term[<<1, 1, 0>>]
    + term[<<0, 0, 1>>] + term[<<1, 0, 1>>] + term[<<0, 1, 1>>] + term[<<1, 1, 1>>]

ProductOver(term) ==
  term[<<0, 0, 0>>] * term[<<1, 0, 0>>] * term[<<0, 1, 0>>] * term[<<1, 1, 0>>]
    * term[<<0, 0, 1>>] * term[<<1, 0, 1>>] * term[<<0, 1, 1>>] * term[<<1, 1, 1>>]

\* The weights of the corners of a cell: inverse distances over a common numerator.
Weights(n, ideal) ==
  LET dist == [c \in Corners |-> DistSquared(n, ideal, c)]
  IN  IF \E c \in Corners : dist[c] = 0
      THEN [c \in Corners |-> IF dist[c] = 0 THEN 1 ELSE 0]
      ELSE [c \in Corners |-> ProductOver(dist) \div dist[c]]

\* clPixelMathHaldCLUTLookup: a color as numerators over the sum of the weights.
HaldCLUTLookup(hald, n, ideal) ==
  LET first == FirstCorner(n, ideal)
      value(c) == hald.pixels[first[1] + c[1] + (first[2] + c[2]) * n
                                + (first[3] + c[3]) * n * n]
      weights == Weights(n, ideal)
  IN  [over |-> OverCorners(weights),
       color |-> [ch \in 1 .. 3 |->
                    OverCorners([c \in Corners |-> weights[c] * value(c)[ch]])]]

-----------------------------------------------------------------------------
(* Properties *)

\* The words that are no repeats, each with how often it stands.
Entries(words) ==
  LET fold[k \in 0 .. Len(words)] ==
        IF k = 0 THEN <<>>
        ELSE LET w == words[k]
             IN  IF w.type = "repeat" /\ w.n # 0
                 THEN Append(Front(fold[k - 1]), [Last(fold[k - 1]) EXCEPT !.times = w.n])
                 ELSE Append(fold[k - 1], [word |-> w, times |-> 1])
  IN  fold[Len(words)]

\* The levels of a full range, as many as its widest channel has.
FullCount(w) ==
  LET level(c, ch) == LET l == c.levels[ch]
                          m == MaxLevel[c.depth]
                      IN  IF l > m THEN m ELSE IF l < 0 THEN 0 ELSE l
  IN  Cardinality(LET ch == CHOOSE ch \in 1 .. 3 :
                              \A other \in 1 .. 3 :
                                Distance(level(w.start, other), level(w.end, other))
                                  <= Distance(level(w.start, ch), level(w.end, ch))
                  IN  {l \in 0 .. MaxLevel[w.start.depth] :
                         \/ level(w.start, ch) <= l /\ l <= level(w.end, ch)
                         \/ level(w.end, ch) <= l /\ l <= level(w.start, ch)})

\* The colors a word stands for: a range blends from its start to its end.
WordColors(w) ==
  CASE w.type = "color" -> <<finishColor(w.start)>>
    [] w.type = "range" ->
         LET n == IF w.count # 0 THEN w.count ELSE FullCount(w)
             a == finishColor(w.start)
             b == finishColor(w.end)
         IN  IF n = 1 THEN <<a>>
             ELSE [i \in 1 .. n |->
                     [ch \in 1 .. 3 |-> (a[ch] * (n - i) + b[ch] * (i - 1)) \div (n - 1)]]
    [] OTHER -> <<>>

DescribedColors(entries) ==
  FlattenSeq([k \in DOMAIN entries |->
                FlattenSeq([i \in 1 .. entries[k].times |-> WordColors(entries[k].word)])])

\* The last of kind that says a number: "the dimensions request can be anywhere".
SaidOf(entries, kind, default) ==
  LET number(w) == IF kind = "dims" THEN w.w ELSE w.n
      said == {k \in DOMAIN entries : entries[k].word.type = kind /\ number(entries[k].word) # 0}
  IN  IF said = {} THEN default ELSE entries[Max(said)].word

\* How many clockwise turns the words add up to.
TurnsOf(entries) ==
  Sums([k \in DOMAIN entries |->
          IF entries[k].word.type = "rotate" THEN entries[k].word.n ELSE 0])[Len(entries)]

Nothing == [n |-> 0]

\* A stripe that the code refuses.  A range that does not say its count needs two colors
\* of one integer depth (finishRange); docs/Usage.md asks for another set: it has
\* rgb16(65535,0,0)..#000000 as an example, and no float in any gradient.
Wrong(words) ==
  \/ words = <<>>
  \/ \E i \in DOMAIN words :
       LET w == words[i]
       IN  \/ w.type \in {"bad", "junk", "unreadable"}
           \/ w.type = "range" /\ w.count = 0 /\ (w.start.depth = 32 \/ w.start.depth # w.end.depth)
           \/ w.type = "repeat" /\ w.n # 0 /\ i = 1
  \/ LET entries == Entries(words)
         hald    == SaidOf(entries, "hald", Nothing).n
     IN  /\ SaidOf(entries, "cie", Nothing).n = 0
         /\ IF hald > 0 THEN \A i \in 1 .. 31 : i * i # hald
                        ELSE DescribedColors(entries) = <<>>

\* One clockwise turn of a picture, given by its size and its pixel at each place.
Turned(p) ==
  [width |-> p.height, height |-> p.width,
   at |-> [xy \in Places(p.height, p.width) |-> p.at[<<xy[2], p.height - 1 - xy[1]>>]]]

ChartPicture(n) ==
  [width |-> n, height |-> n, at |-> [xy \in Places(n, n) |-> Chart]]

\* The place in the cube of n x n x n of the color that stands at k.
CubeOf(n, k) ==
  CHOOSE rgb \in (0 .. (n - 1)) \X (0 .. (n - 1)) \X (0 .. (n - 1)) :
    k = rgb[1] + n * rgb[2] + n * n * rgb[3]

CubeColor(n, rgb) == [ch \in 1 .. 3 |-> (rgb[ch] * One) \div (n - 1)]

SquarePicture(n, side) ==
  [width |-> side, height |-> side,
   at |-> [xy \in Places(side, side) |->
             IF n = 1 THEN NaN ELSE CubeColor(n, CubeOf(n, xy[1] + side * xy[2]))]]

\* A HALD of n x n x n is a square of as many pixels.
HaldPicture(n) == SquarePicture(n, CHOOSE s \in 0 .. (n * n) : s * s = n * n * n)

\* Columns of one color each; the last color fills what is left over.
ColumnOf(x, n, w) ==
  LET column == x \div (IF n < w THEN w \div n ELSE 1)
  IN  IF column < n THEN column + 1 ELSE n

ColorPicture(colors, w, h) ==
  [width |-> w, height |-> h,
   at |-> [xy \in Places(w, h) |-> colors[ColumnOf(xy[1], Len(colors), w)]]]

SizedPicture(colors, dims) ==
  IF dims.w # 0 /\ dims.h # 0 THEN ColorPicture(colors, dims.w, dims.h)
                              ELSE ColorPicture(colors, Len(colors), 1)

\* The picture a stripe describes, in an image of width x height by default.
Picture(words, width, height) ==
  LET entries == Entries(words)
      cie     == SaidOf(entries, "cie", Nothing).n
      hald    == SaidOf(entries, "hald", Nothing).n
      upright ==
        IF cie > 0 THEN ChartPicture(cie)
        ELSE IF hald > 0 THEN HaldPicture(hald)
        ELSE SizedPicture(DescribedColors(entries),
                          SaidOf(entries, "dims", [w |-> width, h |-> height]))
      turned[k \in 0 .. 3] == IF k = 0 THEN upright ELSE Turned(turned[k - 1])
  IN  turned[TurnsOf(entries) % 4]

\* The pictures of the stripes; a stripe is as large as the one before by default.
Pictures ==
  LET pictures[i \in 1 .. Len(input)] ==
        IF i = 1 THEN Picture(input[1], 0, 0)
        ELSE Picture(input[i], pictures[i - 1].width, pictures[i - 1].height)
  IN  pictures

\* An image shows the pictures one below the other, white where they are narrower.
Shows(image, pictures) ==
  LET top == Sums([i \in DOMAIN pictures |-> pictures[i].height])
  IN  /\ image.width = Max({pictures[i].width : i \in DOMAIN pictures})
      /\ image.height = top[Len(pictures)]
      /\ \A xy \in Places(image.width, image.height) :
           \E i \in DOMAIN pictures :
             /\ top[i - 1] <= xy[2] /\ xy[2] < top[i]
             /\ image.pixels[xy[1] + xy[2] * image.width]
                  = IF xy[1] < pictures[i].width
                    THEN pictures[i].at[<<xy[1], xy[2] - top[i - 1]>>] ELSE White

\* The image at the end is the one its words describe: the colors in order, a repeat
\* standing for its last entry that often, a range for its blend, in columns from left
\* to right, then turned; stripes one below the other, white where they are narrower.
\* A string with a stripe that is refused gives no image.  The meaning of the words is
\* that of docs/Usage.md "Image Strings", but for the ranges of Wrong; the examples above
\* the parser (image_string.c:45), where ranges run from top to bottom, say otherwise.
ImageAsDescribed ==
  pc = "done" =>
    IF input = <<>> \/ \E i \in DOMAIN input : Wrong(input[i]) THEN result = NoImage
    ELSE result # NoImage /\ Shows(result, Pictures)

\* However parsing ends, at whichever word of whichever stripe, every token and
\* every stripe image is freed; only the image returned is left.
NoLeak ==
  pc = "done" =>
    /\ allocated.tokens = 0
    /\ allocated.images = IF result = NoImage THEN 0 ELSE 1

\* Looking colors up in a generated identity HALD (clImageApplyHALD) leaves those at
\* the points of its grid as they are, and never takes another out of its cell.
HaldInterpolates ==
  pc = "done" /\ result # NoImage /\ Len(input) = 1 /\ Len(input[1]) = 1 =>
    LET word == input[1][1]
        n    == word.n
        cell == One \div (n - 1)
    IN  word.type = "hald" /\ word.n > 1 =>
          \A ideal \in [1 .. 3 -> 0 .. 2 * (n - 1)] :
            LET dst == HaldCLUTLookup(result, n, ideal)
            IN  \A ch \in 1 .. 3 :
                  LET low == Min({ideal[ch] \div 2, n - 2})
                  IN  /\ dst.over > 0
                      /\ (\A c \in 1 .. 3 : ideal[c] % 2 = 0)
                           => dst.color[ch] = dst.over * cell * (ideal[ch] \div 2)
                      /\ dst.over * cell * low <= dst.color[ch]
                      /\ dst.color[ch] <= dst.over * cell * (low + 1)
=============================================================================
