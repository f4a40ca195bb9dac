---------------------------------- MODULE Image ----------------------------------
(***************************************************************************)
(* lib/src/image.c: a clImage holds up to three buffers with the same      *)
(* pixels: U8, U16 (on the scale of the image's depth) and F32.  A reader  *)
(* asks for the buffer it wants and gets it converted from another one; a  *)
(* writer gets its buffer alone, the others are thrown away.  Crop, rotate *)
(* and mirror make a new image with the buffers of the old one.            *)
(* A pixel has one channel here: the code treats the four alike.  A float  *)
(* is a whole number of 1/One: every level of every depth is one of them,  *)
(* so that dividing by the maximum is exact, as it is in effect in the     *)
(* code, where a level survives the division and the rounding back.        *)
(***************************************************************************)
EXTENDS Integers, Sequences, FiniteSetsExt

CONSTANTS Bits8, Bits16,   \* the widths of the integer buffers: 8 and 16
          Depths,          \* the depths of images
          One,
          Sizes,           \* the <<width, height>> of new images
          Samples,         \* a sequence of floats that readers decode
          Colors,          \* the floats that clients clear and draw with
          MaxDraws,        \* bound on the pixels drawn one by one
          NoImage, Unset

MaxChannel(bits) == 2^bits - 1

ASSUME ImageAssumption ==
  /\ Bits8 \in Nat \ {0} /\ Bits16 \in Nat /\ Bits8 <= Bits16
  /\ Depths \subseteq Nat \ {0}
  /\ One \in Nat \ {0}
  /\ \A bits \in Bits8 .. Bits16 : One % MaxChannel(bits) = 0
  /\ Sizes \subseteq (Nat \ {0}) \X (Nat \ {0})
  /\ Samples \in Seq(Int) /\ Samples # <<>>
  /\ Colors \subseteq Int
  /\ MaxDraws \in Nat

\* What the provers cannot work out of powers of two.
ASSUME MaxChannelAssumption ==
  \A bits \in Bits8 .. Bits16 :
    MaxChannel(bits) \in Nat \ {0} /\ MaxChannel(bits) >= MaxChannel(Bits8)

VARIABLES image,   \* the image a client works on
          shown,   \* shown[<<x, y>>]: the float that was written there, or Unset
          draws

vars == <<image, shown, draws>>

Formats == {"U8", "U16", "F32"}

Indices(im) == 0 .. (im.width * im.height - 1)

Coordinates(im) == (0 .. (im.width - 1)) \X (0 .. (im.height - 1))

\* Pixels are stored row by row.
IndexOf(im, xy) == xy[1] + xy[2] * im.width

Live == image # NoImage

\* A buffer that was not allocated, or was thrown away, is not in im.pixels.
Has(im, f) == f \in DOMAIN im.pixels

TypeOK ==
  /\ Live =>
       /\ image.width \in Nat \ {0} /\ image.height \in Nat \ {0}
       /\ image.depth \in Depths
       /\ DOMAIN image.pixels \subseteq Formats
       /\ \A f \in DOMAIN image.pixels : image.pixels[f] \in [Indices(image) -> Int]
       /\ shown \in [Coordinates(image) -> Int \cup {Unset}]
  /\ draws \in 0 .. MaxDraws

Init ==
  /\ image = NoImage
  /\ shown = <<>>
  /\ draws = 0

-----------------------------------------------------------------------------
(* Conversions between the buffers                                           *)

Clamp(v, low, high) == IF v > high THEN high ELSE IF v < low THEN low ELSE v

\* The level that stands for 1.0 in a buffer of format f.
MaxLevel(f, depth) ==
  CASE f = "U8"  -> MaxChannel(Bits8)
    [] f = "U16" -> MaxChannel(Clamp(depth, Bits8, Bits16))
    [] f = "F32" -> One

AsFloat(level, f, depth) == (level * One) \div MaxLevel(f, depth)

\* Mutant: truncates.
TruncateUNorm(val, maxValue, wraps) ==
  LET level == (val * maxValue) \div One
  IN  CASE level > maxValue -> maxValue
        [] level < 0 -> IF wraps THEN maxValue ELSE 0
        [] OTHER -> level

\* clPixelMathRoundUNorm.  Converting a negative float to uint32_t is undefined:
\* the builds either saturate to 0 or wrap to a huge number, clamped below.
RoundUNorm(val, maxValue, wraps) ==
  LET rounded == (2 * val * maxValue + One) \div (2 * One)
  IN  CASE rounded > maxValue -> maxValue
        [] rounded < 0 -> IF wraps THEN maxValue ELSE 0
        [] OTHER -> rounded

FromFloat(val, f, depth, wraps) ==
  IF f = "F32" THEN val ELSE RoundUNorm(val, MaxLevel(f, depth), wraps)

\* The buffers a missing buffer is converted from, in the order they are tried.
Sources(f) ==
  CASE f = "U8"  -> <<"F32", "U16">>
    [] f = "U16" -> <<"F32", "U8">>
    [] f = "F32" -> <<"U16", "U8">>

\* Every byte of a new integer buffer is 0xff, whatever the depth.
WhiteLevel(f) ==
  CASE f = "U8" -> MaxChannel(Bits8) [] f = "U16" -> MaxChannel(Bits16) [] f = "F32" -> One

NewPixels(im, f, wraps) ==
  LET from(g) == [k \in Indices(im) |->
                    FromFloat(AsFloat(im.pixels[g][k], g, im.depth), f, im.depth, wraps)]
      first == Sources(f)[1]
      second == Sources(f)[2]
  IN  CASE Has(im, first) -> from(first)
        [] ~Has(im, first) /\ Has(im, second) -> from(second)
        [] OTHER -> [k \in Indices(im) |-> WhiteLevel(f)]

\* clImagePrepareReadPixels
PreparedRead(im, f, wraps) ==
  IF Has(im, f) THEN im ELSE
    [im EXCEPT !.pixels = [g \in DOMAIN @ \cup {f} |->
                             IF g = f THEN NewPixels(im, f, wraps) ELSE @[g]]]

\* Mutant: the other buffers are kept.
KeepsStale(im, f, wraps) == PreparedRead(im, f, wraps)

\* clImagePrepareWritePixels: "Throw away anything that isn't about to be written to"
PreparedWrite(im, f, wraps) ==
  LET ready == PreparedRead(im, f, wraps)
  IN  [ready EXCEPT !.pixels = [g \in {f} |-> @[g]]]

-----------------------------------------------------------------------------
(* Geometry: the new image, whose pixel at `to` is the old one at `from`      *)

Empty(w, h, depth) ==
  [width |-> w, height |-> h, depth |-> depth, pixels |-> <<>>]

\* An image of w x h pixels with every buffer of im; source[k] is the index in im
\* that is copied to index k.
Rearranged(im, w, h, source) ==
  [Empty(w, h, im.depth) EXCEPT
     !.pixels = [f \in DOMAIN im.pixels |->
                   [k \in 0 .. (w * h - 1) |-> im.pixels[f][source[k]]]]]

\* The inverse of the code's loop, which runs over the old pixels xy and computes
\* the index k of the new one.
SourceOf(im, target) ==
  [k \in Indices(im) |->
     LET xy == CHOOSE xy \in Coordinates(im) : target[xy] = k
     IN  IndexOf(im, xy)]

\* Mutant: three quarter turns also mirror, counting rows from the wrong end.
RotatedMirrored(im, cwTurns) ==
  LET w == IF cwTurns \in {1, 3} THEN im.height ELSE im.width
      h == IF cwTurns \in {1, 3} THEN im.width ELSE im.height
      target == [xy \in Coordinates(im) |->
                   CASE cwTurns = 0 -> xy[1] + xy[2] * w
                     [] cwTurns = 1 -> (w - 1 - xy[2]) + xy[1] * w
                     [] cwTurns = 2 -> (w - 1 - xy[1]) + (h - 1 - xy[2]) * w
                     [] cwTurns = 3 -> (w - 1 - xy[2]) + (h - 1 - xy[1]) * w]
  IN  Rearranged(im, w, h, SourceOf(im, target))

\* clImageRotate, cwTurns in 0 .. 3.
Rotated(im, cwTurns) ==
  LET w == IF cwTurns \in {1, 3} THEN im.height ELSE im.width
      h == IF cwTurns \in {1, 3} THEN im.width ELSE im.height
      target == [xy \in Coordinates(im) |->
                   CASE cwTurns = 0 -> xy[1] + xy[2] * w
                     [] cwTurns = 1 -> (w - 1 - xy[2]) + xy[1] * w
                     [] cwTurns = 2 -> (w - 1 - xy[1]) + (h - 1 - xy[2]) * w
                     [] cwTurns = 3 -> xy[2] + (h - 1 - xy[1]) * w]
  IN  Rearranged(im, w, h, SourceOf(im, target))

\* clImageMirror
Mirrored(im, horizontal) ==
  LET target == [xy \in Coordinates(im) |->
                   IF horizontal THEN (im.width - 1 - xy[1]) + xy[2] * im.width
                                 ELSE xy[1] + (im.height - 1 - xy[2]) * im.width]
  IN  Rearranged(im, im.width, im.height, SourceOf(im, target))

\* clImageAdjustRect refuses a rectangle that is empty or starts at a negative place.
RectRefused(rect) == rect.x < 0 \/ rect.y < 0 \/ rect.w <= 0 \/ rect.h <= 0

\* Mutant: a start beyond the image is moved to its end, not to its last pixel.
AdjustedToEnd(im, rect) ==
  LET x == Min({rect.x, im.width})
      y == Min({rect.y, im.height})
  IN  [x |-> x, y |-> y,
       w |-> Min({x + rect.w, im.width}) - x,
       h |-> Min({y + rect.h, im.height}) - y]

\* clImageAdjustRect moves the rectangle into the image and cuts off what sticks out.
AdjustedRect(im, rect) ==
  LET x == Min({rect.x, im.width - 1})
      y == Min({rect.y, im.height - 1})
  IN  [x |-> x, y |-> y,
       w |-> Min({x + rect.w, im.width}) - x,
       h |-> Min({y + rect.h, im.height}) - y]

\* clImageCrop
Cropped(im, r) ==
  Rearranged(im, r.w, r.h,
             [k \in 0 .. (r.w * r.h - 1) |->
                ((k % r.w) + r.x) + im.width * ((k \div r.w) + r.y)])

-----------------------------------------------------------------------------
(* What clients do                                                           *)

clImageCreate(size, depth) ==
  /\ ~Live
  /\ image' = Empty(size[1], size[2], depth)
  /\ shown' = [xy \in Coordinates(image') |-> Unset]
  /\ draws' = 0

clImageDestroy ==
  /\ Live
  /\ image' = NoImage
  /\ shown' = <<>>
  /\ draws' = 0

clImagePrepareReadPixels(f, wraps) ==
  /\ Live
  /\ image' = PreparedRead(image, f, wraps)
  /\ UNCHANGED <<shown, draws>>

\* The pixels are written into a buffer of format f that was prepared for it.
WritePixels(f, wraps, level) ==
  LET ready == PreparedWrite(image, f, wraps)
      written == DOMAIN level
  IN  /\ image' = [ready EXCEPT !.pixels[f] =
                     [k \in Indices(image) |-> IF k \in written THEN level[k] ELSE @[k]]]
      /\ shown' = [xy \in Coordinates(image) |->
                     LET k == IndexOf(image, xy)
                     IN  IF k \in written THEN AsFloat(level[k], f, image.depth) ELSE shown[xy]]

\* The reader of an image format decodes its pixels into the buffer it chose.
Decode(f, wraps, first) ==
  /\ Live
  /\ WritePixels(f, wraps,
       [k \in Indices(image) |->
          FromFloat(Samples[((first + k) % Len(Samples)) + 1], f, image.depth, FALSE)])
  /\ UNCHANGED draws

clImageClear(color, wraps) ==
  /\ Live
  /\ WritePixels("F32", wraps, [k \in Indices(image) |-> color])
  /\ UNCHANGED draws

\* clImageBlendPixel with an opaque colour and thickness 1.
DrawPixel(xy, color, wraps) ==
  /\ Live
  /\ draws < MaxDraws
  /\ WritePixels("F32", wraps, [k \in {IndexOf(image, xy)} |-> color])
  /\ draws' = draws + 1

\* clImageConvert between profiles that match: the F32 pixels are copied into a new
\* image of another depth.  What was shown before is now what they say.
clImageConvert(depth, wraps) ==
  /\ Live
  /\ LET pixels == PreparedRead(image, "F32", wraps).pixels["F32"]
     IN  /\ image' = [Empty(image.width, image.height, depth) EXCEPT
                       !.pixels = [f \in {"F32"} |-> pixels]]
         /\ shown' = [xy \in Coordinates(image) |-> pixels[IndexOf(image, xy)]]
  /\ UNCHANGED draws

-----------------------------------------------------------------------------
(* The geometry again, on coordinates instead of indices                     *)

\* A quarter turn clockwise of what h rows of w pixels show.
Turned(seen, w, h) ==
  [xy \in (0 .. (h - 1)) \X (0 .. (w - 1)) |-> seen[<<xy[2], h - 1 - xy[1]>>]]

TurnedTimes(seen, w, h, cwTurns) ==
  CASE cwTurns = 0 -> seen
    [] cwTurns = 1 -> Turned(seen, w, h)
    [] cwTurns = 2 -> Turned(Turned(seen, w, h), h, w)
    [] cwTurns = 3 -> Turned(Turned(Turned(seen, w, h), h, w), w, h)

Flipped(seen, w, h, horizontal) ==
  [xy \in (0 .. (w - 1)) \X (0 .. (h - 1)) |->
     IF horizontal THEN seen[<<w - 1 - xy[1], xy[2]>>] ELSE seen[<<xy[1], h - 1 - xy[2]>>]]

\* The part of start .. start + length - 1 inside an image; its last row or column
\* when there is none.
Inside(start, length, size) ==
  LET inside == {i \in start .. (start + length - 1) : i < size}
  IN  IF inside = {} THEN {size - 1} ELSE inside

CutOut(seen, w, h, rect) ==
  LET columns == Inside(rect.x, rect.w, w)
      rows == Inside(rect.y, rect.h, h)
  IN  [xy \in (0 .. (Cardinality(columns) - 1)) \X (0 .. (Cardinality(rows) - 1)) |->
         seen[<<Min(columns) + xy[1], Min(rows) + xy[2]>>]]

clImageRotate(cwTurns) ==
  /\ Live
  /\ image' = Rotated(image, cwTurns)
  /\ shown' = TurnedTimes(shown, image.width, image.height, cwTurns)
  /\ UNCHANGED draws

clImageMirror(horizontal) ==
  /\ Live
  /\ image' = Mirrored(image, horizontal)
  /\ shown' = Flipped(shown, image.width, image.height, horizontal)
  /\ UNCHANGED draws

clImageCrop(rect) ==
  /\ Live
  /\ ~RectRefused(rect)
  /\ image' = Cropped(image, AdjustedRect(image, rect))
  /\ shown' = CutOut(shown, image.width, image.height, rect)
  /\ UNCHANGED draws

\* A rectangle may stick out of the image, or lie outside of it.
Rects(im) ==
  [x: -1 .. im.width, y: -1 .. im.height, w: 0 .. im.width, h: 0 .. im.height]

-----------------------------------------------------------------------------

Edit ==
  \E wraps \in BOOLEAN :
    \/ \E f \in Formats : clImagePrepareReadPixels(f, wraps)
    \/ \E f \in Formats, first \in DOMAIN Samples : Decode(f, wraps, first)
    \/ \E color \in Colors : clImageClear(color, wraps)
    \/ \E xy \in Coordinates(image), color \in Colors : DrawPixel(xy, color, wraps)
    \/ \E depth \in Depths : clImageConvert(depth, wraps)

Rearrange ==
  \/ \E cwTurns \in 0 .. 3 : clImageRotate(cwTurns)
  \/ \E horizontal \in BOOLEAN : clImageMirror(horizontal)
  \/ \E rect \in Rects(image) : clImageCrop(rect)

Next ==
  \/ \E size \in Sizes, depth \in Depths : clImageCreate(size, depth)
  \/ clImageDestroy
  \/ Live /\ Edit
  \/ Live /\ Rearrange

Spec == Init /\ [][Next]_vars

-----------------------------------------------------------------------------
(* Properties                                                                *)

Step(f, depth) == One \div MaxLevel(f, depth)

\* The pixels of a live image whose value some client wrote.
Written == {xy \in Coordinates(image) : shown[xy] # Unset}

\* The value of a pixel in the buffer of format f.
ValueAt(f, xy) == AsFloat(image.pixels[f][IndexOf(image, xy)], f, image.depth)

InRange(v) == Clamp(v, 0, One)

Distance(a, b) == IF a < b THEN b - a ELSE a - b

\* Whatever readers, writers, crops, turns and mirrorings came in between, every
\* buffer an image has shows at every place what was last written there: none is
\* stale, none is turned another way, and the roundings of switching formats back
\* and forth do not add up beyond half a U8 and half a U16 level.  Values above 1 may
\* have been clipped, and negative ones are lost when they become integers.
Faithful ==
  Live =>
    \A f \in DOMAIN image.pixels :
      \A xy \in Written :
        shown[xy] >= 0 =>
          2 * Distance(InRange(ValueAt(f, xy)), InRange(shown[xy]))
            <= Step("U8", image.depth) + Step("U16", image.depth)

\* Eight bit content survives: a pixel written with a U8 level reads as exactly
\* that level from every buffer, whatever the depth and the buffers it went through.
EightBitExact ==
  Live =>
    \A f \in DOMAIN image.pixels :
      \A xy \in Written :
        \A level \in 0 .. MaxChannel(Bits8) :
          shown[xy] = AsFloat(level, "U8", image.depth) =>
            RoundUNorm(ValueAt(f, xy), MaxChannel(Bits8), FALSE) = level

\* The turns of clImageRotate and the mirrorings of clImageMirror fit together:
\* two quarter turns make a half turn, which is both mirrorings; a quarter turn
\* one way and three the same way make none.
TurnsCompose ==
  Live =>
    /\ Rotated(Rotated(image, 1), 1) = Rotated(image, 2)
    /\ Rotated(Rotated(image, 1), 3) = image
    /\ Mirrored(Mirrored(image, TRUE), FALSE) = Rotated(image, 2)
    /\ Mirrored(Rotated(image, 1), TRUE) = Rotated(Mirrored(image, FALSE), 1)
=============================================================================
