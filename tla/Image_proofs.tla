------------------------------ MODULE Image_proofs ------------------------------
(***************************************************************************)
(* Proofs about Image, for images of any size, depths and widths of the    *)
(* buffers, samples and colours: every buffer shows what was last written, *)
(* 8 bit content survives exactly, and turns and mirrorings compose.       *)
(***************************************************************************)
EXTENDS Image, FiniteSetTheorems, TLAPS

-----------------------------------------------------------------------------
(* Division, which is all that conversions and indices are made of.          *)

LEMMA MulLe ==
  ASSUME NEW a \in Int, NEW b \in Int, NEW m \in Nat \ {0}, m * a <= m * b
  PROVE  a <= b
OBVIOUS

LEMMA MulLt ==
  ASSUME NEW a \in Int, NEW b \in Int, NEW m \in Nat \ {0}, m * a < m * b
  PROVE  a < b
OBVIOUS

LEMMA DivBounds ==
  ASSUME NEW a \in Int, NEW b \in Nat \ {0}
  PROVE  a \div b \in Int /\ b * (a \div b) <= a /\ a < b * (a \div b) + b
OBVIOUS

LEMMA ModRange ==
  ASSUME NEW a \in Int, NEW b \in Nat \ {0}
  PROVE  a % b \in 0 .. (b-1)
OBVIOUS

LEMMA DivMod ==
  ASSUME NEW a \in Int, NEW b \in Nat \ {0}
  PROVE  a = b * (a \div b) + (a % b)
OBVIOUS

LEMMA DivUnique ==
  ASSUME NEW a \in Int, NEW b \in Nat \ {0}, NEW q \in Int, b * q <= a, a < b * q + b
  PROVE  a \div b = q
<1> DEFINE d == a \div b
<1>0. d \in Int /\ b * d <= a /\ a < b * d + b
  BY DivBounds
<1> HIDE DEF d
<1>2. b * q < b * (d + 1) /\ b * d < b * (q + 1)
  BY <1>0
<1>3. q < d + 1 /\ d < q + 1
  <2>1. q < d + 1 
   BY <1>0, <1>2, MulLt
  <2>2. d < q + 1 
   BY <1>0, <1>2, MulLt
  <2> QED BY <2>1, <2>2
<1>4. d = q
  BY <1>0, <1>3
<1> QED BY <1>4 DEF d

\* The depths an image may have give U16 at least the levels of U8.
LEMMA Levels ==
  ASSUME NEW f \in Formats, NEW depth \in Nat
  PROVE  /\ MaxLevel(f, depth) \in Nat \ {0}
         /\ Step(f, depth) \in Nat \ {0}
         /\ One = Step(f, depth) * MaxLevel(f, depth)
         /\ One \in Nat \ {0}
<1> DEFINE bits == Clamp(depth, Bits8, Bits16)
<1> USE ImageAssumption
<1>1. bits \in Bits8 .. Bits16 /\ Bits8 \in Bits8 .. Bits16
  BY DEF Clamp
<1>2. f \in {"U8", "U16"} => \E b \in Bits8 .. Bits16 : MaxLevel(f, depth) = MaxChannel(b)
  BY <1>1 DEF MaxLevel
<1>3. MaxLevel(f, depth) \in Nat \ {0} /\ One % MaxLevel(f, depth) = 0
  <2>1. CASE f = "F32"
    <3>1. MaxLevel(f, depth) = One
      BY <2>1 DEF MaxLevel
    <3> QED
      BY <3>1
  <2>2. CASE f # "F32"
    <3>1. f \in {"U8", "U16"}
      BY <2>2 DEF Formats
    <3>2. PICK b \in Bits8 .. Bits16 : MaxLevel(f, depth) = MaxChannel(b)
      BY <1>2, <3>1
    <3>3. One % MaxChannel(b) = 0
      OBVIOUS
    <3> QED
      BY <3>2, <3>3, MaxChannelAssumption
  <2> QED
    BY <2>1, <2>2
<1> DEFINE m == MaxLevel(f, depth)
           s == One \div m
<1> HIDE DEF m
<1>4. m \in Nat \ {0} /\ One % m = 0
  BY <1>3 DEF m
<1>5. One = m * s /\ s \in Int
  BY <1>4, DivMod, DivBounds
<1> HIDE DEF s
<1>6. s \in Nat \ {0}
  BY <1>4, <1>5
<1> QED
  BY <1>4, <1>5, <1>6 DEF m, s, Step

\* A float that is not negative is rounded to a level less than half a step away.
LEMMA Rounding ==
  ASSUME NEW val \in Nat, NEW m \in Nat \ {0}, NEW s \in Nat \ {0}, One = s * m,
         NEW wraps
  PROVE  /\ RoundUNorm(val, m, wraps) \in 0 .. m
         /\ 2 * Distance(s * RoundUNorm(val, m, wraps), InRange(val)) <= s
<1> DEFINE r == (2 * val * m + One) \div (2 * One)
<1>1. One \in Nat \ {0}
  BY ImageAssumption
<1>2. /\ r \in Int
      /\ (2 * One) * r <= 2 * val * m + One
      /\ 2 * val * m + One < (2 * One) * r + 2 * One
  <2> DEFINE a == 2 * val * m + One
             b == 2 * One
  <2>1. a \in Int /\ b \in Nat \ {0}
    BY <1>1
  <2> HIDE DEF a, b
  <2>2. a \div b \in Int /\ b * (a \div b) <= a /\ a < b * (a \div b) + b
    BY <2>1, DivBounds
  <2> QED
    BY <2>2 DEF a, b
<1>u. RoundUNorm(val, m, wraps) = CASE r > m -> m
        [] r < 0 -> IF wraps THEN m ELSE 0
        [] OTHER -> r
  BY DEF RoundUNorm
<1> HIDE DEF r
<1>3. /\ m * (2 * (s * r)) <= m * (2 * val + s)
      /\ m * (2 * val + s) < m * (2 * (s * r) + 2 * s)
  <2>1. s * r \in Int
    BY <1>2
  <2>2. (2 * One) * r = m * (2 * (s * r)) /\ 2 * val * m + One = m * (2 * val + s)
        /\ (2 * One) * r + 2 * One = m * (2 * (s * r) + 2 * s)
    BY <1>1, <1>2
  <2> QED
    BY <1>2, <2>2
<1> DEFINE t == s * r
<1>4. t \in Int
  BY <1>2
<1>5. 2 * t <= 2 * val + s /\ 2 * val + s < 2 * t + 2 * s
  <2> HIDE DEF t
  <2>1. m * (2 * t) <= m * (2 * val + s) /\ m * (2 * val + s) < m * (2 * t + 2 * s)
    BY <1>3 DEF t
  <2>2. 2 * t <= 2 * val + s
    BY <2>1, <1>4, MulLe
  <2>3. 2 * val + s < 2 * t + 2 * s
    BY <2>1, <1>4, MulLt
  <2> QED
    BY <2>2, <2>3
<1>6. r >= 0
  <2>1. s * (-1) < s * r
    <3> HIDE DEF t
    <3>1. -s < t
      BY <1>4, <1>5
    <3> QED
      BY <3>1 DEF t
  <2> QED
    BY <2>1, <1>2, MulLt
<1>7. CASE val <= One
  <2>1. s * r < s * (m + 1)
    <3>1. t < s * m + s
      <4> HIDE DEF t
      <4> QED
        BY <1>1, <1>4, <1>5, <1>7
    <3> QED
      BY <3>1
  <2>2. r <= m
    BY <2>1, <1>2, MulLt
  <2>3. RoundUNorm(val, m, wraps) = r
    BY <1>u, <1>2, <1>6, <2>2
  <2>4. InRange(val) = val
    BY <1>1, <1>7 DEF InRange, Clamp
  <2>5. 2 * Distance(t, val) <= s
    <3> HIDE DEF t
    <3> QED
      BY <1>4, <1>5 DEF Distance
  <2> QED
    BY <1>2, <1>6, <2>2, <2>3, <2>4, <2>5
<1>8. CASE val > One
  <2>1. s * (m - 1) < s * r
    <3>1. s * m - s < t
      <4> HIDE DEF t
      <4> QED
        BY <1>1, <1>4, <1>5, <1>8
    <3> QED
      BY <3>1
  <2>2. r >= m
    BY <2>1, <1>2, MulLt
  <2>3. RoundUNorm(val, m, wraps) = m
    BY <1>u, <1>2, <1>6, <2>2
  <2>4. InRange(val) = One
    BY <1>1, <1>8 DEF InRange, Clamp
  <2>5. Distance(One, One) = 0
    BY <1>1 DEF Distance
  <2> QED
    BY <2>3, <2>4, <2>5
<1> QED
  BY <1>1, <1>7, <1>8

\* The level less than half a step away is the one a float is rounded to.
LEMMA RoundsTo ==
  ASSUME NEW val \in 0 .. One, NEW m \in Nat \ {0}, NEW s \in Nat \ {0}, One = s * m,
         NEW level \in 0 .. m, 2 * Distance(s * level, val) < s,
         NEW wraps
  PROVE  RoundUNorm(val, m, wraps) = level
<1> DEFINE r == RoundUNorm(val, m, wraps)
           t == s * r
           u == s * level
<1>1. One \in Nat \ {0} /\ val \in Nat
  BY ImageAssumption
<1>2. r \in 0 .. m /\ 2 * Distance(s * r, InRange(val)) <= s
  BY <1>1, Rounding
<1>3. InRange(val) = val
  BY <1>1 DEF InRange, Clamp
<1> HIDE DEF r
<1>4. t \in Int /\ u \in Int
  BY <1>2
<1>5. t < u + s /\ u < t + s
  <2>1. 2 * Distance(t, val) <= s /\ 2 * Distance(u, val) < s
    BY <1>2, <1>3
  <2> HIDE DEF t, u
  <2> QED
    BY <1>1, <1>4, <2>1 DEF Distance
<1>6. s * r < s * (level + 1) /\ s * level < s * (r + 1)
  <2>1. u + s = s * (level + 1) /\ t + s = s * (r + 1)
    BY <1>2
  <2> QED
    BY <1>5, <2>1
<1>7. r < level + 1 /\ level < r + 1
  <2>1. r < level + 1
    BY <1>2, <1>6, MulLt
  <2>2. level < r + 1
    BY <1>2, <1>6, MulLt
  <2> QED
    BY <2>1, <2>2
<1>8. r = level
  BY <1>2, <1>7
<1> QED
  BY <1>8 DEF r

LEMMA AsFloatIs ==
  ASSUME NEW f \in Formats, NEW depth \in Nat, NEW level \in Int
  PROVE  AsFloat(level, f, depth) = Step(f, depth) * level
<1> DEFINE m == MaxLevel(f, depth)
           s == Step(f, depth)
           q == s * level
<1>1. m \in Nat \ {0} /\ s \in Nat \ {0} /\ One = s * m
  BY Levels
<1>2. AsFloat(level, f, depth) = (level * One) \div m
  BY DEF AsFloat
<1> HIDE DEF m, s
<1>3. level * One = m * q /\ q \in Int
  BY <1>1
<1> HIDE DEF q
<1>4. (m * q) \div m = q
  <2>1. m * q \in Int /\ m * q <= m * q /\ m * q < m * q + m
    BY <1>1, <1>3
  <2> QED
    BY <1>1, <1>3, <2>1, DivUnique
<1> QED
  BY <1>2, <1>3, <1>4 DEF q, s

LEMMA AsFloatF32 ==
  ASSUME NEW depth \in Nat, NEW val \in Int
  PROVE  AsFloat(val, "F32", depth) = val
<1>1. Step("F32", depth) * MaxLevel("F32", depth) = One /\ One \in Nat \ {0}
      /\ Step("F32", depth) \in Nat /\ "F32" \in Formats
  BY Levels DEF Formats
<1>2. MaxLevel("F32", depth) = One
  BY DEF MaxLevel
<1>3. Step("F32", depth) = 1
  BY <1>1, <1>2
<1> QED
  BY <1>1, <1>3, AsFloatIs

\* A level is a float from 0 to One.
LEMMA AsFloatRange ==
  ASSUME NEW f \in Formats, NEW depth \in Nat, NEW level \in 0 .. MaxLevel(f, depth)
  PROVE  AsFloat(level, f, depth) \in 0 .. One
<1> DEFINE m == MaxLevel(f, depth)
           s == Step(f, depth)
<1>1. m \in Nat \ {0} /\ s \in Nat \ {0} /\ One = s * m
  BY Levels
<1>2. AsFloat(level, f, depth) = s * level
  BY <1>1, AsFloatIs
<1> HIDE DEF m, s
<1>3. level \in 0 .. m
  BY DEF m
<1>4. s * level \in Int /\ 0 <= s * level /\ s * level <= s * m
  BY <1>1, <1>3
<1> QED
  BY <1>1, <1>2, <1>4

\* The steps of U16 are no coarser than those of U8.
LEMMA FinerSteps ==
  ASSUME NEW depth \in Nat
  PROVE  Step("U16", depth) <= Step("U8", depth)
<1> DEFINE m == MaxLevel("U8", depth)
           s == Step("U8", depth)
           n == MaxLevel("U16", depth)
           t == Step("U16", depth)
<1>1. m \in Nat \ {0} /\ s \in Nat \ {0} /\ One = s * m
  BY Levels DEF Formats
<1>2. n \in Nat \ {0} /\ t \in Nat \ {0} /\ One = t * n
  BY Levels DEF Formats
<1>3. n >= m
  BY ImageAssumption, MaxChannelAssumption DEF MaxLevel, Clamp
<1> HIDE DEF m, s, n, t
<1>4. m * t <= m * s
  <2>1. m * t <= n * t
    BY <1>1, <1>2, <1>3
  <2> QED
    BY <1>1, <1>2, <2>1
<1>5. t <= s
  BY <1>1, <1>2, <1>4, MulLe
<1> QED
  BY <1>5 DEF s, t

-----------------------------------------------------------------------------
(* What a buffer may hold where a client wrote the float v.                  *)

\* The nearest U16 level, or one of the two nearest.
U16Shows(level, v, depth) ==
  /\ level \in 0 .. MaxLevel("U16", depth)
  /\ 2 * Distance(AsFloat(level, "U16", depth), InRange(v)) <= Step("U16", depth)

\* The float itself, or the U16 level it went through.
F32Shows(g, v, depth) ==
  \/ g = v
  \/ \E level \in Nat :
       g = AsFloat(level, "U16", depth) /\ U16Shows(level, v, depth)

\* The U8 level that such a float is rounded to.
U8Shows(level, v, depth) ==
  \E g \in Nat, wraps \in BOOLEAN :
    F32Shows(g, v, depth) /\ level = RoundUNorm(g, MaxLevel("U8", depth), wraps)

Shows(f, level, v, depth) ==
  CASE f = "F32" -> F32Shows(level, v, depth)
    [] f = "U16" -> U16Shows(level, v, depth)
    [] f = "U8"  -> U8Shows(level, v, depth)

LEMMA Distances ==
  ASSUME NEW a \in Int, NEW b \in Int
  PROVE  Distance(a, a) = 0 /\ Distance(a, b) = Distance(b, a)
BY DEF Distance

LEMMA InRangeIs ==
  ASSUME NEW v \in Nat
  PROVE  /\ InRange(v) \in 0 .. One
         /\ v \in 0 .. One => InRange(v) = v
BY ImageAssumption DEF InRange, Clamp

LEMMA FloatsAreNat ==
  ASSUME NEW g, NEW v \in Nat, NEW depth \in Nat, F32Shows(g, v, depth)
  PROVE  g \in Nat
<1>1. CASE g = v
  BY <1>1
<1>2. CASE \E level \in Nat : g = AsFloat(level, "U16", depth) /\ U16Shows(level, v, depth)
  <2>1. PICK level \in Nat : g = AsFloat(level, "U16", depth) /\ U16Shows(level, v, depth)
    BY <1>2
  <2>2. level \in 0 .. MaxLevel("U16", depth)
    BY <2>1 DEF U16Shows
  <2>3. g \in 0 .. One
    BY <2>1, <2>2, AsFloatRange DEF Formats
  <2> QED
    BY <2>3
<1> QED
  BY <1>1, <1>2 DEF F32Shows

\* A U16 level survives the way to F32 and back, and a float is rounded well.
LEMMA ToU16 ==
  ASSUME NEW g, NEW v \in Nat, NEW depth \in Nat, F32Shows(g, v, depth), NEW wraps
  PROVE  U16Shows(RoundUNorm(g, MaxLevel("U16", depth), wraps), v, depth)
<1> DEFINE m == MaxLevel("U16", depth)
           s == Step("U16", depth)
<1>1. m \in Nat \ {0} /\ s \in Nat \ {0} /\ One = s * m /\ "U16" \in Formats
  BY Levels DEF Formats
<1>2. CASE g = v
  <2> DEFINE r == RoundUNorm(v, m, wraps)
  <2> HIDE DEF m, s
  <2>1. r \in 0 .. m /\ 2 * Distance(s * r, InRange(v)) <= s
    BY <1>1, Rounding
  <2> HIDE DEF r
  <2>2. r \in Int
    BY <1>1, <2>1
  <2>3. AsFloat(r, "U16", depth) = s * r
    BY <1>1, <2>2, AsFloatIs DEF s
  <2> QED
    BY <1>2, <2>1, <2>3 DEF U16Shows, m, s, r
<1>3. CASE \E level \in Nat : g = AsFloat(level, "U16", depth) /\ U16Shows(level, v, depth)
  <2>1. PICK level \in Nat : g = AsFloat(level, "U16", depth) /\ U16Shows(level, v, depth)
    BY <1>3
  <2>2. level \in 0 .. m
    BY <2>1 DEF U16Shows
  <2>3. g \in 0 .. One /\ g = s * level
    BY <1>1, <2>1, <2>2, AsFloatRange, AsFloatIs
  <2> HIDE DEF m, s
  <2>4. 2 * Distance(s * level, g) < s
    <3>1. Distance(g, g) = 0
      BY <2>3, Distances
    <3> QED
      BY <1>1, <2>3, <3>1
  <2>5. RoundUNorm(g, m, wraps) = level
    BY <1>1, <2>2, <2>3, <2>4, RoundsTo
  <2> QED
    BY <2>1, <2>5 DEF m
<1> QED
  BY <1>2, <1>3 DEF F32Shows

\* A float written with a U8 level is rounded back to it, directly or through U16.
LEMMA RoundsBack ==
  ASSUME NEW depth \in Nat, NEW level \in 0 .. MaxLevel("U8", depth),
         NEW g, F32Shows(g, AsFloat(level, "U8", depth), depth), NEW wraps
  PROVE  RoundUNorm(g, MaxLevel("U8", depth), wraps) = level
<1> DEFINE m == MaxLevel("U8", depth)
           s == Step("U8", depth)
           n == MaxLevel("U16", depth)
           t == Step("U16", depth)
           v == AsFloat(level, "U8", depth)
<1>1. /\ m \in Nat \ {0} /\ s \in Nat \ {0} /\ One = s * m
      /\ n \in Nat \ {0} /\ t \in Nat \ {0} /\ One = t * n
      /\ "U8" \in Formats /\ "U16" \in Formats
  BY Levels DEF Formats
<1>2. v \in 0 .. One /\ v = s * level /\ level \in 0 .. m
  BY <1>1, AsFloatRange, AsFloatIs
<1>3. InRange(v) = v
  BY <1>2, InRangeIs
<1>4. t <= s
  BY FinerSteps
<1>5. CASE g = v
  <2>1. Distance(v, v) = 0
    BY <1>2, Distances
  <2> HIDE DEF m, s, v
  <2>2. 2 * Distance(s * level, g) < s
    BY <1>1, <1>2, <1>5, <2>1
  <2> QED
    BY <1>1, <1>2, <1>5, <2>2, RoundsTo DEF m
<1>6. CASE \E l \in Nat : g = AsFloat(l, "U16", depth) /\ U16Shows(l, v, depth)
  <2>1. PICK l \in Nat : g = AsFloat(l, "U16", depth) /\ U16Shows(l, v, depth)
    BY <1>6
  <2>2. l \in 0 .. n /\ 2 * Distance(g, v) <= t
    BY <1>3, <2>1 DEF U16Shows
  <2>3. g \in 0 .. One /\ g = t * l
    BY <1>1, <2>1, <2>2, AsFloatRange, AsFloatIs
  <2>4. Distance(v, g) = Distance(g, v)
    BY <1>2, <2>3, Distances
  <2> HIDE DEF m, s, n, t, v
  <2>5. 2 * Distance(s * level, g) < s
    <3>1. CASE t < s
      <4>1. Distance(g, v) \in Int
        BY <1>2, <2>3 DEF Distance
      <4> QED
        BY <1>1, <1>2, <2>2, <2>4, <3>1, <4>1
    <3>2. CASE t = s
      <4>1. s * l < s * level + s /\ s * level < s * l + s
        BY <1>1, <1>2, <2>2, <2>3, <3>2 DEF Distance
      <4>2. s * l < s * (level + 1) /\ s * level < s * (l + 1)
        BY <1>1, <1>2, <4>1
      <4>3. l < level + 1
        BY <1>1, <1>2, <4>2, MulLt
      <4>4. level < l + 1
        BY <1>1, <1>2, <4>2, MulLt
      <4>5. g = v
        BY <1>2, <2>3, <3>2, <4>3, <4>4
      <4>6. Distance(g, v) = 0
        BY <1>2, <4>5, Distances
      <4> QED
        BY <1>1, <1>2, <2>4, <4>6
    <3> QED
      BY <1>1, <1>4, <3>1, <3>2
  <2> QED
    BY <1>1, <1>2, <2>3, <2>5, RoundsTo DEF m
<1> QED
  BY <1>5, <1>6 DEF F32Shows

LEMMA FromFloatType ==
  ASSUME NEW val \in Int, NEW f \in Formats, NEW depth \in Nat, NEW wraps
  PROVE  FromFloat(val, f, depth, wraps) \in Int
<1> DEFINE m == MaxLevel(f, depth)
           a == 2 * val * m + One
           b == 2 * One
<1>1. m \in Nat /\ a \in Int /\ b \in Nat \ {0}
  BY Levels
<1>2. FromFloat(val, f, depth, wraps) = IF f = "F32" THEN val ELSE RoundUNorm(val, m, wraps)
  BY DEF FromFloat
<1>3. RoundUNorm(val, m, wraps) =
        CASE a \div b > m -> m
          [] a \div b < 0 -> IF wraps THEN m ELSE 0
          [] OTHER -> a \div b
  BY DEF RoundUNorm
<1> HIDE DEF m, a, b
<1>4. a \div b \in Int
  BY <1>1, DivBounds
<1> QED
  BY <1>1, <1>2, <1>3, <1>4

LEMMA AsFloatType ==
  ASSUME NEW level \in Int, NEW f \in Formats, NEW depth \in Nat
  PROVE  AsFloat(level, f, depth) \in Int
BY Levels, AsFloatIs

\* Whatever buffer is converted into another, what it shows is shown there.
LEMMA Converted ==
  ASSUME NEW depth \in Nat, NEW v \in Nat, NEW f \in Formats, NEW g \in Formats,
         NEW level \in Int, Shows(g, level, v, depth), NEW wraps \in BOOLEAN,
         g = "U8" => AsFloat(level, g, depth) = v
  PROVE  Shows(f, FromFloat(AsFloat(level, g, depth), f, depth, wraps), v, depth)
<1> DEFINE x == AsFloat(level, g, depth)
<1>1. F32Shows(x, v, depth)
  <2>1. CASE g = "F32"
    BY <2>1, AsFloatF32 DEF Shows
  <2>2. CASE g = "U16"
    <3>1. U16Shows(level, v, depth)
      BY <2>2 DEF Shows
    <3>2. level \in Nat
      BY <3>1, Levels DEF U16Shows, Formats
    <3> QED
      BY <2>2, <3>1, <3>2 DEF F32Shows
  <2>3. CASE g = "U8"
    BY <2>3 DEF F32Shows
  <2> QED
    BY <2>1, <2>2, <2>3 DEF Formats
<1> HIDE DEF x
<1>2. CASE f = "F32"
  BY <1>1, <1>2 DEF Shows, FromFloat, x
<1>3. CASE f = "U16"
  <2>1. U16Shows(RoundUNorm(x, MaxLevel("U16", depth), wraps), v, depth)
    BY <1>1, ToU16
  <2> QED
    BY <1>3, <2>1 DEF Shows, FromFloat, x
<1>4. CASE f = "U8"
  <2>1. x \in Nat
    BY <1>1, FloatsAreNat
  <2>2. U8Shows(RoundUNorm(x, MaxLevel("U8", depth), wraps), v, depth)
    BY <1>1, <2>1 DEF U8Shows
  <2> QED
    BY <1>4, <2>2 DEF Shows, FromFloat, x
<1> QED
  BY <1>2, <1>3, <1>4 DEF Formats

LEMMA FloatIsClose ==
  ASSUME NEW depth \in Nat, NEW v \in Nat, NEW g \in Nat, F32Shows(g, v, depth)
  PROVE  2 * Distance(InRange(g), InRange(v)) <= Step("U16", depth)
<1>0. Step("U16", depth) \in Nat \ {0}
  BY Levels DEF Formats
<1>1. CASE g = v
  BY <1>0, <1>1, InRangeIs, Distances
<1>2. CASE \E level \in Nat : g = AsFloat(level, "U16", depth) /\ U16Shows(level, v, depth)
  <2>1. PICK level \in Nat : g = AsFloat(level, "U16", depth) /\ U16Shows(level, v, depth)
    BY <1>2
  <2>2. g \in 0 .. One
    BY <2>1, AsFloatRange DEF U16Shows, Formats
  <2> QED
    BY <2>1, <2>2, InRangeIs DEF U16Shows
<1> QED
  BY <1>1, <1>2 DEF F32Shows

LEMMA LevelIsClose ==
  ASSUME NEW depth \in Nat, NEW v \in Nat, NEW level, U8Shows(level, v, depth)
  PROVE  2 * Distance(InRange(AsFloat(level, "U8", depth)), InRange(v))
           <= Step("U8", depth) + Step("U16", depth)
<1> DEFINE m == MaxLevel("U8", depth)
           s == Step("U8", depth)
           t == Step("U16", depth)
<1>1. /\ m \in Nat \ {0} /\ s \in Nat \ {0} /\ One = s * m
      /\ t \in Nat \ {0} /\ "U8" \in Formats
  BY Levels DEF Formats
<1>2. PICK g \in Nat, wraps \in BOOLEAN :
        F32Shows(g, v, depth) /\ level = RoundUNorm(g, m, wraps)
  BY DEF U8Shows
<1>3. 2 * Distance(InRange(g), InRange(v)) <= t
  BY <1>2, FloatIsClose
<1>4. level \in 0 .. m /\ 2 * Distance(s * level, InRange(g)) <= s
  <2> HIDE DEF m, s
  <2> QED
    BY <1>1, <1>2, Rounding
<1>5. AsFloat(level, "U8", depth) = s * level /\ AsFloat(level, "U8", depth) \in 0 .. One
  BY <1>1, <1>4, AsFloatIs, AsFloatRange
<1>6. InRange(AsFloat(level, "U8", depth)) = s * level /\ s * level \in Int
  BY <1>5, InRangeIs
<1> DEFINE x == s * level
           y == InRange(g)
           z == InRange(v)
<1>7. x \in Int /\ y \in Int /\ z \in Int
  BY <1>6, InRangeIs
<1>8. 2 * Distance(x, y) <= s /\ 2 * Distance(y, z) <= t
  BY <1>3, <1>4
<1>9. 2 * Distance(x, z) <= s + t
  <2> HIDE DEF x, y, z, s, t
  <2> QED
    BY <1>1, <1>7, <1>8 DEF Distance
<1> QED
  BY <1>6, <1>9

LEMMA ShownClosely ==
  ASSUME NEW depth \in Nat, NEW v \in Nat, NEW f \in Formats, NEW level \in Int,
         Shows(f, level, v, depth)
  PROVE  2 * Distance(InRange(AsFloat(level, f, depth)), InRange(v))
           <= Step("U8", depth) + Step("U16", depth)
<1>0. Step("U8", depth) \in Nat /\ Step("U16", depth) \in Nat
  BY Levels DEF Formats
<1>1. CASE f = "F32"
  <2>1. F32Shows(level, v, depth) /\ AsFloat(level, f, depth) = level /\ level \in Nat
    BY <1>1, AsFloatF32, FloatsAreNat DEF Shows
  <2>2. 2 * Distance(InRange(level), InRange(v)) <= Step("U16", depth)
    BY <2>1, FloatIsClose
  <2>3. Distance(InRange(level), InRange(v)) \in Int
    BY <2>1, InRangeIs DEF Distance
  <2> QED
    BY <1>0, <2>1, <2>2, <2>3
<1>2. CASE f = "U16"
  <2>1. U16Shows(level, v, depth)
    BY <1>2 DEF Shows
  <2>2. InRange(AsFloat(level, f, depth)) = AsFloat(level, f, depth)
        /\ AsFloat(level, f, depth) \in 0 .. One
    BY <1>2, <2>1, AsFloatRange, InRangeIs DEF U16Shows
  <2>3. Distance(AsFloat(level, f, depth), InRange(v)) \in Int
    BY <2>2, InRangeIs DEF Distance
  <2> QED
    BY <1>0, <1>2, <2>1, <2>2, <2>3 DEF U16Shows
<1>3. CASE f = "U8"
  BY <1>3, LevelIsClose DEF Shows
<1> QED
  BY <1>1, <1>2, <1>3 DEF Formats

LEMMA ShownExactly ==
  ASSUME NEW depth \in Nat, NEW f \in Formats, NEW p \in Int,
         NEW level \in 0 .. MaxChannel(Bits8),
         Shows(f, p, AsFloat(level, "U8", depth), depth)
  PROVE  RoundUNorm(AsFloat(p, f, depth), MaxChannel(Bits8), FALSE) = level
<1> DEFINE v == AsFloat(level, "U8", depth)
<1>1. MaxLevel("U8", depth) = MaxChannel(Bits8) /\ "U8" \in Formats
  BY DEF MaxLevel, Formats
<1>2. level \in 0 .. MaxLevel("U8", depth)
  BY <1>1
<1>3. v \in Nat
  BY <1>1, <1>2, AsFloatRange
<1> SUFFICES \A wraps \in BOOLEAN :
               RoundUNorm(AsFloat(p, f, depth), MaxLevel("U8", depth), wraps) = level
  BY <1>1, Zenon
<1> TAKE wraps \in BOOLEAN
<1>4. CASE f \in {"F32", "U16"}
  <2>1. F32Shows(AsFloat(p, f, depth), v, depth)
    <3>1. CASE f = "F32"
      BY <3>1, AsFloatF32 DEF Shows
    <3>2. CASE f = "U16"
      <4>1. U16Shows(p, v, depth)
        BY <3>2 DEF Shows
      <4>2. p \in Nat
        BY <4>1, Levels DEF U16Shows, Formats
      <4> QED
        BY <3>2, <4>1, <4>2 DEF F32Shows
    <3> QED
      BY <1>4, <3>1, <3>2
  <2> QED
    <3> DEFINE x == AsFloat(p, f, depth)
    <3> HIDE DEF x
    <3>1. F32Shows(x, AsFloat(level, "U8", depth), depth)
      BY <2>1 DEF x
    <3>2. RoundUNorm(x, MaxLevel("U8", depth), wraps) = level
      BY <1>2, <3>1, RoundsBack
    <3> QED
      BY <3>2 DEF x
<1>5. CASE f = "U8"
  <2>1. PICK g \in Nat, w \in BOOLEAN :
          F32Shows(g, v, depth) /\ p = RoundUNorm(g, MaxLevel("U8", depth), w)
    BY <1>5 DEF Shows, U8Shows
  <2>2. p = level
    BY <1>2, <2>1, RoundsBack
  <2>3. F32Shows(v, v, depth)
    BY DEF F32Shows
  <2> QED
    <3>1. RoundUNorm(v, MaxLevel("U8", depth), wraps) = level
      BY <1>2, <2>3, RoundsBack
    <3> QED
      BY <1>5, <2>2, <3>1
<1> QED
  BY <1>4, <1>5 DEF Formats

-----------------------------------------------------------------------------
(* Coordinates and indices.                                                  *)

LEMMA IndexRange ==
  ASSUME NEW w \in Nat \ {0}, NEW h \in Nat \ {0},
         NEW x \in 0 .. (w - 1), NEW y \in 0 .. (h - 1)
  PROVE  x + y * w \in 0 .. (w * h - 1)
<1>1. y * w \in Nat /\ y * w <= (h - 1) * w
  OBVIOUS
<1>2. (h - 1) * w = w * h - w /\ w * h \in Nat
  OBVIOUS
<1> DEFINE a == y * w
           b == w * h
<1> HIDE DEF a, b
<1>3. a \in Nat /\ a <= b - w /\ b \in Nat
  BY <1>1, <1>2 DEF a, b
<1>4. x + a \in 0 .. (b - 1)
  BY <1>3
<1> QED
  BY <1>4 DEF a, b

LEMMA IndexInjective ==
  ASSUME NEW w \in Nat \ {0}, NEW x1 \in 0 .. (w - 1), NEW x2 \in 0 .. (w - 1),
         NEW y1 \in Int, NEW y2 \in Int, x1 + y1 * w = x2 + y2 * w
  PROVE  x1 = x2 /\ y1 = y2
<1>1. w * y1 < w * (y2 + 1) /\ w * y2 < w * (y1 + 1)
  <2> DEFINE a == y1 * w
             b == y2 * w
  <2>1. a \in Int /\ b \in Int /\ x1 + a = x2 + b
    OBVIOUS
  <2> HIDE DEF a, b
  <2>2. a < b + w /\ b < a + w
    BY <2>1
  <2> QED
    BY <2>2 DEF a, b
<1>2. y1 < y2 + 1
  BY <1>1, MulLt
<1>3. y2 < y1 + 1
  BY <1>1, MulLt
<1>4. y1 = y2
  BY <1>2, <1>3
<1> QED
  BY <1>4

LEMMA IndexOnto ==
  ASSUME NEW w \in Nat \ {0}, NEW h \in Nat \ {0}, NEW k \in 0 .. (w * h - 1)
  PROVE  /\ k % w \in 0 .. (w - 1)
         /\ k \div w \in 0 .. (h - 1)
         /\ k = (k % w) + (k \div w) * w
<1> DEFINE q == k \div w
           r == k % w
<1>1. k \in Nat /\ k < w * h
  BY DEF q, r
<1>2. r \in 0 .. (w - 1) /\ k = w * q + r /\ q \in Int
  BY <1>1, ModRange, DivMod, DivBounds
<1> HIDE DEF q, r
<1>3. w * q < w * h /\ w * (-1) < w * q
  BY <1>1, <1>2
<1>4. q < h
  BY <1>2, <1>3, MulLt
<1>5. -1 < q
  BY <1>2, <1>3, MulLt
<1>6. q \in 0 .. (h - 1) /\ k = r + q * w
  BY <1>2, <1>4, <1>5
<1> QED
  BY <1>2, <1>6 DEF q, r

\* The type of images: buffers of some formats, all of the same size.
IsImage(im) ==
  \E w, h \in Nat \ {0}, formats \in SUBSET Formats :
    im \in [width: {w}, height: {h}, depth: Depths,
            pixels: [formats -> [0 .. (w * h - 1) -> Int]]]

LEMMA ImageFields ==
  ASSUME NEW im, IsImage(im)
  PROVE  /\ im.width \in Nat \ {0} /\ im.height \in Nat \ {0}
         /\ im.depth \in Depths /\ im.depth \in Nat
         /\ DOMAIN im.pixels \in SUBSET Formats
         /\ im.pixels \in [DOMAIN im.pixels -> [Indices(im) -> Int]]
         /\ im = [width |-> im.width, height |-> im.height, depth |-> im.depth,
                  pixels |-> im.pixels]
<1>1. PICK w \in Nat \ {0}, h \in Nat \ {0}, formats \in SUBSET Formats :
        im \in [width: {w}, height: {h}, depth: Depths,
                pixels: [formats -> [0 .. (w * h - 1) -> Int]]]
  BY DEF IsImage
<1>2. im.width = w /\ im.height = h /\ im.depth \in Depths
      /\ im.pixels \in [formats -> [0 .. (w * h - 1) -> Int]]
  BY <1>1
<1>3. im = [width |-> im.width, height |-> im.height, depth |-> im.depth,
            pixels |-> im.pixels]
  BY <1>1
<1>4. DOMAIN im.pixels = formats /\ Indices(im) = 0 .. (w * h - 1)
  BY <1>2 DEF Indices
<1>5. im.depth \in Nat
  BY <1>2, ImageAssumption
<1> QED
  BY <1>2, <1>3, <1>4, <1>5

\* The fields make an image.
LEMMA MakesImage ==
  ASSUME NEW w \in Nat \ {0}, NEW h \in Nat \ {0}, NEW depth \in Depths,
         NEW formats \in SUBSET Formats,
         NEW pixels \in [formats -> [0 .. (w * h - 1) -> Int]]
  PROVE  IsImage([width |-> w, height |-> h, depth |-> depth, pixels |-> pixels])
BY DEF IsImage

LEMMA CoordinateIndex ==
  ASSUME NEW im, IsImage(im), NEW xy \in Coordinates(im)
  PROVE  /\ IndexOf(im, xy) \in Indices(im)
         /\ xy[1] \in 0 .. (im.width - 1) /\ xy[2] \in 0 .. (im.height - 1)
         /\ xy = <<xy[1], xy[2]>>
<1>1. im.width \in Nat \ {0} /\ im.height \in Nat \ {0}
  BY ImageFields
<1>2. xy[1] \in 0 .. (im.width - 1) /\ xy[2] \in 0 .. (im.height - 1) /\ xy = <<xy[1], xy[2]>>
  BY DEF Coordinates
<1>3. xy[1] + xy[2] * im.width \in 0 .. (im.width * im.height - 1)
  BY <1>1, <1>2, IndexRange
<1> QED
  BY <1>2, <1>3 DEF IndexOf, Indices

LEMMA EveryIndex ==
  ASSUME NEW im, IsImage(im), NEW k \in Indices(im)
  PROVE  \E xy \in Coordinates(im) : IndexOf(im, xy) = k
<1>1. im.width \in Nat \ {0} /\ im.height \in Nat \ {0}
  BY ImageFields
<1> DEFINE xy == <<k % im.width, k \div im.width>>
<1>2. k \in 0 .. (im.width * im.height - 1)
  BY DEF Indices
<1>3. /\ xy[1] \in 0 .. (im.width - 1) /\ xy[2] \in 0 .. (im.height - 1)
      /\ k = xy[1] + xy[2] * im.width
  BY <1>1, <1>2, IndexOnto
<1>4. xy \in Coordinates(im)
  BY <1>3 DEF Coordinates
<1> QED
  BY <1>3, <1>4 DEF IndexOf

LEMMA SameIndex ==
  ASSUME NEW im, IsImage(im), NEW a \in Coordinates(im), NEW b \in Coordinates(im),
         IndexOf(im, a) = IndexOf(im, b)
  PROVE  a = b
<1>1. im.width \in Nat \ {0} /\ im.height \in Nat \ {0}
  BY ImageFields
<1>2. /\ a[1] \in 0 .. (im.width - 1) /\ a[2] \in Int /\ a = <<a[1], a[2]>>
      /\ b[1] \in 0 .. (im.width - 1) /\ b[2] \in Int /\ b = <<b[1], b[2]>>
  BY <1>1, CoordinateIndex
<1>3. a[1] = b[1] /\ a[2] = b[2]
  <2>1. a[1] + a[2] * im.width = b[1] + b[2] * im.width
    BY DEF IndexOf
  <2> QED
    BY <1>1, <1>2, <2>1, IndexInjective
<1> QED
  BY <1>2, <1>3

-----------------------------------------------------------------------------
(* The inductive invariant: every buffer shows what was written, closely     *)
(* enough for any conversion that may follow; and U8 alone shows it exactly. *)

ShowsAt(im, xy, v) ==
  /\ DOMAIN im.pixels # {}
  /\ \A f \in DOMAIN im.pixels : Shows(f, im.pixels[f][IndexOf(im, xy)], v, im.depth)
  /\ DOMAIN im.pixels = {"U8"} =>
       AsFloat(im.pixels["U8"][IndexOf(im, xy)], "U8", im.depth) = v

ShowsAll(im, seen) ==
  \A xy \in Coordinates(im) :
    seen[xy] # Unset /\ seen[xy] \in Nat => ShowsAt(im, xy, seen[xy])

SeenType(im) == [Coordinates(im) -> Int \cup {Unset}]

IInv ==
  /\ draws \in 0 .. MaxDraws
  /\ Live => IsImage(image) /\ shown \in SeenType(image) /\ ShowsAll(image, shown)

-----------------------------------------------------------------------------
(* Preparing a buffer.                                                       *)

LEMMA NewPixelsType ==
  ASSUME NEW im, IsImage(im), NEW f \in Formats, NEW wraps \in BOOLEAN
  PROVE  NewPixels(im, f, wraps) \in [Indices(im) -> Int]
<1> USE ImageFields
<1>1. ASSUME NEW g \in DOMAIN im.pixels, NEW k \in Indices(im)
      PROVE  FromFloat(AsFloat(im.pixels[g][k], g, im.depth), f, im.depth, wraps) \in Int
  <2>1. im.pixels[g][k] \in Int /\ g \in Formats /\ im.depth \in Nat
    OBVIOUS
  <2>2. AsFloat(im.pixels[g][k], g, im.depth) \in Int
    BY <2>1, AsFloatType
  <2> QED
    BY <2>1, <2>2, FromFloatType
<1>2. WhiteLevel(f) \in Int
  BY ImageAssumption, MaxChannelAssumption DEF WhiteLevel, Formats
<1>3. CASE Has(im, Sources(f)[1])
  BY <1>1, <1>3 DEF NewPixels, Has
<1>4. CASE ~Has(im, Sources(f)[1]) /\ Has(im, Sources(f)[2])
  BY <1>1, <1>4 DEF NewPixels, Has
<1>5. CASE ~Has(im, Sources(f)[1]) /\ ~Has(im, Sources(f)[2])
  BY <1>2, <1>5 DEF NewPixels
<1> QED
  BY <1>3, <1>4, <1>5

LEMMA NewPixelsShow ==
  ASSUME NEW im, IsImage(im), NEW f \in Formats, f \notin DOMAIN im.pixels,
         NEW wraps \in BOOLEAN, NEW xy \in Coordinates(im), NEW v \in Nat,
         ShowsAt(im, xy, v)
  PROVE  Shows(f, NewPixels(im, f, wraps)[IndexOf(im, xy)], v, im.depth)
<1> DEFINE k == IndexOf(im, xy)
<1>1. k \in Indices(im)
  BY CoordinateIndex
<1> HIDE DEF k
<1>2. ASSUME NEW g \in DOMAIN im.pixels, g = "U8" => DOMAIN im.pixels = {"U8"}
      PROVE  Shows(f, FromFloat(AsFloat(im.pixels[g][k], g, im.depth), f, im.depth, wraps),
                   v, im.depth)
  <2>1. im.pixels[g][k] \in Int /\ g \in Formats /\ im.depth \in Nat
    BY <1>1, ImageFields
  <2>2. Shows(g, im.pixels[g][k], v, im.depth)
        /\ (g = "U8" => AsFloat(im.pixels[g][k], g, im.depth) = v)
    BY <1>2 DEF ShowsAt, k
  <2> QED
    BY <2>1, <2>2, Converted
<1>3. DOMAIN im.pixels \subseteq Formats /\ DOMAIN im.pixels # {}
  BY ImageFields DEF ShowsAt
<1>4. PICK g \in DOMAIN im.pixels :
        /\ NewPixels(im, f, wraps)[k] =
             FromFloat(AsFloat(im.pixels[g][k], g, im.depth), f, im.depth, wraps)
        /\ g = "U8" => DOMAIN im.pixels = {"U8"}
  <2>1. CASE Has(im, Sources(f)[1])
    <3>1. NewPixels(im, f, wraps)[k] =
            FromFloat(AsFloat(im.pixels[Sources(f)[1]][k], Sources(f)[1], im.depth),
                      f, im.depth, wraps)
      BY <1>1, <2>1 DEF NewPixels
    <3>2. Sources(f)[1] # "U8"
      BY DEF Sources, Formats
    <3> QED
      BY <2>1, <3>1, <3>2 DEF Has
  <2>2. CASE ~Has(im, Sources(f)[1]) /\ Has(im, Sources(f)[2])
    <3>1. NewPixels(im, f, wraps)[k] =
            FromFloat(AsFloat(im.pixels[Sources(f)[2]][k], Sources(f)[2], im.depth),
                      f, im.depth, wraps)
      BY <1>1, <2>2 DEF NewPixels
    <3>2. Sources(f)[2] = "U8" => DOMAIN im.pixels = {"U8"}
      BY <1>3, <2>2 DEF Sources, Formats, Has
    <3> QED
      BY <2>2, <3>1, <3>2 DEF Has
  <2>3. CASE ~Has(im, Sources(f)[1]) /\ ~Has(im, Sources(f)[2])
    BY <1>3, <2>3 DEF Sources, Formats, Has
  <2> QED
    BY <2>1, <2>2, <2>3
<1> QED
  BY <1>2, <1>4 DEF k

\* clImagePrepareReadPixels adds a buffer, and the new one shows the same.
LEMMA Prepared ==
  ASSUME NEW im, IsImage(im), NEW f \in Formats, NEW wraps \in BOOLEAN
  PROVE  LET ready == PreparedRead(im, f, wraps)
         IN  /\ IsImage(ready)
             /\ ready.width = im.width /\ ready.height = im.height /\ ready.depth = im.depth
             /\ DOMAIN ready.pixels = DOMAIN im.pixels \cup {f}
             /\ \A g \in DOMAIN ready.pixels :
                  ready.pixels[g] = IF g \in DOMAIN im.pixels THEN im.pixels[g]
                                    ELSE NewPixels(im, f, wraps)
<1> DEFINE new == NewPixels(im, f, wraps)
           pixels == [g \in DOMAIN im.pixels \cup {f} |-> IF g = f THEN new ELSE im.pixels[g]]
           made == [width |-> im.width, height |-> im.height, depth |-> im.depth,
                    pixels |-> pixels]
<1>1. CASE f \in DOMAIN im.pixels
  BY <1>1 DEF PreparedRead, Has
<1>2. CASE f \notin DOMAIN im.pixels
  <2>1. new \in [Indices(im) -> Int]
    BY NewPixelsType
  <2> HIDE DEF new
  <2>2. pixels \in [DOMAIN im.pixels \cup {f} -> [0 .. (im.width * im.height - 1) -> Int]]
    BY <2>1, ImageFields DEF Indices
  <2>3. PreparedRead(im, f, wraps) = [im EXCEPT !.pixels = pixels]
    BY <1>2 DEF PreparedRead, Has, new
  <2> HIDE DEF pixels
  <2>4. PreparedRead(im, f, wraps) = made
    <3>1. im = [width |-> im.width, height |-> im.height, depth |-> im.depth,
                pixels |-> im.pixels]
      BY ImageFields
    <3> QED
      BY <2>3, <3>1
  <2>5. IsImage(made)
    <3>1. DOMAIN im.pixels \cup {f} \in SUBSET Formats
      BY ImageFields
    <3> QED
      BY <2>2, <3>1, ImageFields, MakesImage
  <2>6. \A g \in DOMAIN made.pixels :
          made.pixels[g] = IF g \in DOMAIN im.pixels THEN im.pixels[g] ELSE new
    BY <1>2 DEF pixels
  <2>7. DOMAIN made.pixels = DOMAIN im.pixels \cup {f}
    BY DEF pixels
  <2> QED
    BY <2>4, <2>5, <2>6, <2>7 DEF new
<1> QED
  BY <1>1, <1>2

LEMMA PreparedShows ==
  ASSUME NEW im, IsImage(im), NEW f \in Formats, NEW wraps \in BOOLEAN,
         NEW xy \in Coordinates(im), NEW v \in Nat, ShowsAt(im, xy, v)
  PROVE  ShowsAt(PreparedRead(im, f, wraps), xy, v)
<1> DEFINE ready == PreparedRead(im, f, wraps)
<1>1. CASE f \in DOMAIN im.pixels
  BY <1>1 DEF PreparedRead, Has
<1>2. CASE f \notin DOMAIN im.pixels
  <2>1. /\ ready.width = im.width /\ ready.depth = im.depth
        /\ DOMAIN ready.pixels = DOMAIN im.pixels \cup {f}
        /\ \A g \in DOMAIN ready.pixels :
             ready.pixels[g] = IF g \in DOMAIN im.pixels THEN im.pixels[g]
                               ELSE NewPixels(im, f, wraps)
    BY Prepared
  <2>2. DOMAIN ready.pixels # {"U8"}
    BY <1>2, <2>1 DEF ShowsAt
  <2>3. IndexOf(ready, xy) = IndexOf(im, xy)
    BY <2>1 DEF IndexOf
  <2> HIDE DEF ready
  <2>4. ASSUME NEW g \in DOMAIN ready.pixels
        PROVE  Shows(g, ready.pixels[g][IndexOf(ready, xy)], v, ready.depth)
    <3>1. CASE g \in DOMAIN im.pixels
      BY <2>1, <2>3, <3>1 DEF ShowsAt
    <3>2. CASE g \notin DOMAIN im.pixels
      <4>1. g = f
        BY <2>1, <3>2
      <4>2. Shows(f, NewPixels(im, f, wraps)[IndexOf(im, xy)], v, im.depth)
        BY <1>2, NewPixelsShow
      <4> QED
        BY <2>1, <2>3, <3>2, <4>1, <4>2
    <3> QED
      BY <3>1, <3>2
  <2>5. DOMAIN ready.pixels # {}
    BY <2>1
  <2>6. ShowsAt(ready, xy, v)
    BY <2>2, <2>4, <2>5 DEF ShowsAt
  <2> QED
    BY <2>6 DEF ready
<1> QED
  BY <1>1, <1>2

-----------------------------------------------------------------------------
(* Writing into a buffer.                                                    *)

\* What is written into a buffer alone, at any pixels, is shown there.
LEMMA LevelsShow ==
  ASSUME NEW depth \in Nat, NEW f \in Formats, NEW level \in Int,
         f # "F32" => level \in 0 .. MaxLevel(f, depth),
         AsFloat(level, f, depth) \in Nat
  PROVE  Shows(f, level, AsFloat(level, f, depth), depth)
<1> DEFINE v == AsFloat(level, f, depth)
<1>1. CASE f = "F32"
  BY <1>1, AsFloatF32 DEF Shows, F32Shows
<1>2. CASE f = "U16"
  <2>1. level \in 0 .. MaxLevel("U16", depth) /\ v \in 0 .. One
    BY <1>2, AsFloatRange
  <2>2. InRange(v) = v /\ Distance(v, v) = 0
    BY <2>1, InRangeIs, Distances
  <2>3. Step("U16", depth) \in Nat
    BY Levels DEF Formats
  <2>4. U16Shows(level, v, depth)
    BY <1>2, <2>1, <2>2, <2>3 DEF U16Shows
  <2> QED
    BY <1>2, <2>4 DEF Shows
<1>3. CASE f = "U8"
  <2>1. level \in 0 .. MaxLevel("U8", depth) /\ v = AsFloat(level, "U8", depth)
    BY <1>3
  <2>2. F32Shows(v, v, depth)
    BY DEF F32Shows
  <2>3. \A wraps \in BOOLEAN : RoundUNorm(v, MaxLevel("U8", depth), wraps) = level
    BY <2>1, <2>2, RoundsBack
  <2>4. U8Shows(level, v, depth)
    <3> HIDE DEF v
    <3>1. v \in Nat
      BY DEF v
    <3>2. \E wraps \in BOOLEAN : RoundUNorm(v, MaxLevel("U8", depth), wraps) = level
      BY <2>3, Zenon
    <3> QED
      BY <2>2, <3>1, <3>2 DEF U8Shows
  <2> QED
    BY <1>3, <2>4 DEF Shows
<1> QED
  BY <1>1, <1>2, <1>3 DEF Formats

LEMMA PreparedWriteIs ==
  ASSUME NEW im, IsImage(im), NEW f \in Formats, NEW wraps \in BOOLEAN
  PROVE  PreparedWrite(im, f, wraps) =
           [width |-> im.width, height |-> im.height, depth |-> im.depth,
            pixels |-> [g \in {f} |-> PreparedRead(im, f, wraps).pixels[g]]]
<1> DEFINE ready == PreparedRead(im, f, wraps)
<1>1. /\ IsImage(ready)
      /\ ready.width = im.width /\ ready.height = im.height /\ ready.depth = im.depth
  BY Prepared
<1>2. PreparedWrite(im, f, wraps) = [ready EXCEPT !.pixels = [g \in {f} |-> @[g]]]
  BY DEF PreparedWrite
<1> HIDE DEF ready
<1>3. ready = [width |-> ready.width, height |-> ready.height, depth |-> ready.depth,
               pixels |-> ready.pixels]
  BY <1>1, ImageFields
<1> QED
  BY <1>1, <1>2, <1>3 DEF ready

\* A write keeps the invariant when its levels are in range; one that covers only
\* some pixels must be in floats, for U8 alone has to be exact.
LEMMA WriteInv ==
  ASSUME IInv, Live, NEW f \in Formats, NEW wraps \in BOOLEAN, NEW level,
         DOMAIN level \subseteq Indices(image),
         \A k \in DOMAIN level :
           level[k] \in Int /\ (f # "F32" => level[k] \in 0 .. MaxLevel(f, image.depth)),
         f = "F32" \/ DOMAIN level = Indices(image),
         WritePixels(f, wraps, level), draws' \in 0 .. MaxDraws
  PROVE  IInv'
<1> DEFINE ready == PreparedRead(image, f, wraps)
           new == [k \in Indices(image) |->
                     IF k \in DOMAIN level THEN level[k] ELSE ready.pixels[f][k]]
           made == [width |-> image.width, height |-> image.height, depth |-> image.depth,
                    pixels |-> [g \in {f} |-> new]]
<1>1. IsImage(image) /\ shown \in SeenType(image) /\ ShowsAll(image, shown)
  BY DEF IInv
<1>2. /\ IsImage(ready)
      /\ ready.width = image.width /\ ready.height = image.height
      /\ ready.depth = image.depth /\ f \in DOMAIN ready.pixels
  BY <1>1, Prepared
<1>3. image' = made
  <2> DEFINE prepared == [width |-> image.width, height |-> image.height,
                          depth |-> image.depth,
                          pixels |-> [g \in {f} |-> ready.pixels[g]]]
  <2>1. PreparedWrite(image, f, wraps) = prepared
    BY <1>1, PreparedWriteIs
  <2>2. image' = [PreparedWrite(image, f, wraps) EXCEPT !.pixels[f] =
                    [k \in Indices(image) |-> IF k \in DOMAIN level THEN level[k] ELSE @[k]]]
    BY DEF WritePixels
  <2> HIDE DEF ready
  <2>3. image' = [prepared EXCEPT !.pixels[f] =
                    [k \in Indices(image) |->
                       IF k \in DOMAIN level THEN level[k] ELSE prepared.pixels[f][k]]]
    BY <2>1, <2>2
  <2>4. prepared.pixels[f] = ready.pixels[f]
    OBVIOUS
  <2>5. image' = [prepared EXCEPT !.pixels[f] = new]
    BY <2>3, <2>4
  <2> HIDE DEF new
  <2> DEFINE alone == [g \in {f} |-> new]
  <2>6. [prepared.pixels EXCEPT ![f] = new] = alone
    OBVIOUS
  <2>7. [prepared EXCEPT !.pixels[f] = new] = [prepared EXCEPT !.pixels = alone]
    BY <2>6
  <2>8. [prepared EXCEPT !.pixels = alone] = made
    <3> DEFINE old == [g \in {f} |-> ready.pixels[g]]
    <3> HIDE DEF alone, old
    <3>1. prepared = [width |-> image.width, height |-> image.height, depth |-> image.depth,
                      pixels |-> old]
      BY DEF old
    <3> HIDE DEF prepared
    <3>2. made = [width |-> image.width, height |-> image.height, depth |-> image.depth,
                  pixels |-> alone]
      BY DEF alone
    <3> HIDE DEF made
    <3> QED
      BY <3>1, <3>2
  <2> QED
    BY <2>5, <2>7, <2>8
<1>4. shown' = [xy \in Coordinates(image) |->
                  IF IndexOf(image, xy) \in DOMAIN level
                    THEN AsFloat(level[IndexOf(image, xy)], f, image.depth) ELSE shown[xy]]
  BY DEF WritePixels
<1>5. image.depth \in Nat /\ ready.pixels[f] \in [Indices(image) -> Int]
  <2>1. Indices(ready) = Indices(image)
    BY <1>2 DEF Indices
  <2> HIDE DEF ready
  <2> QED
    BY <1>1, <1>2, <2>1, ImageFields
<1> HIDE DEF ready
<1>6. new \in [Indices(image) -> Int]
  BY <1>5
<1> HIDE DEF new
<1>7. IsImage(made)
  <2>1. [g \in {f} |-> new] \in [{f} -> [0 .. (image.width * image.height - 1) -> Int]]
    BY <1>6 DEF Indices
  <2>2. {f} \in SUBSET Formats
    OBVIOUS
  <2> HIDE DEF made
  <2> QED
    BY <1>1, <2>1, <2>2, ImageFields, MakesImage DEF made
<1>8. /\ made.width = image.width /\ made.height = image.height /\ made.depth = image.depth
      /\ DOMAIN made.pixels = {f} /\ made.pixels[f] = new
  OBVIOUS
<1> HIDE DEF made
<1>9. Coordinates(made) = Coordinates(image)
      /\ \A xy \in Coordinates(image) : IndexOf(made, xy) = IndexOf(image, xy)
  BY <1>8 DEF Coordinates, IndexOf
<1>10. shown' \in SeenType(made)
  <2> SUFFICES ASSUME NEW xy \in Coordinates(image)
               PROVE  shown'[xy] \in Int \cup {Unset}
    BY <1>4, <1>9 DEF SeenType
  <2>1. CASE IndexOf(image, xy) \in DOMAIN level
    BY <1>4, <1>5, <2>1, AsFloatType
  <2>2. CASE IndexOf(image, xy) \notin DOMAIN level
    BY <1>1, <1>4, <2>2 DEF SeenType
  <2> QED
    BY <2>1, <2>2
<1>11. ShowsAll(made, shown')
  <2> SUFFICES ASSUME NEW xy \in Coordinates(image), shown'[xy] # Unset, shown'[xy] \in Nat
               PROVE  ShowsAt(made, xy, shown'[xy])
    BY <1>9 DEF ShowsAll
  <2> DEFINE k == IndexOf(image, xy)
  <2>1. k \in Indices(image)
    BY <1>1, CoordinateIndex
  <2>2. CASE k \in DOMAIN level
    <3>1. shown'[xy] = AsFloat(level[k], f, image.depth) /\ new[k] = level[k]
      BY <1>4, <2>1, <2>2 DEF new
    <3>2. Shows(f, level[k], AsFloat(level[k], f, image.depth), image.depth)
      BY <1>5, <2>2, <3>1, LevelsShow
    <3> QED
      BY <1>8, <1>9, <3>1, <3>2 DEF ShowsAt
  <2>3. CASE k \notin DOMAIN level
    <3>1. f = "F32" /\ shown'[xy] = shown[xy] /\ new[k] = ready.pixels[f][k]
      BY <1>4, <2>1, <2>3 DEF new
    <3>2. ShowsAt(image, xy, shown[xy])
      BY <1>1, <3>1 DEF ShowsAll
    <3>3. ShowsAt(ready, xy, shown[xy])
      BY <1>1, <3>1, <3>2, PreparedShows DEF ready
    <3>4. IndexOf(ready, xy) = k
      BY <1>2 DEF IndexOf
    <3>5. Shows(f, new[k], shown'[xy], image.depth)
      BY <1>2, <3>1, <3>3, <3>4 DEF ShowsAt
    <3> QED
      BY <1>8, <1>9, <3>1, <3>5 DEF ShowsAt
  <2> QED
    BY <2>2, <2>3
<1> QED
  BY <1>3, <1>7, <1>10, <1>11 DEF IInv

-----------------------------------------------------------------------------
(* Geometry.  from[xy] is the old place of the pixel at xy in the new image. *)

Grid(w, h) == (0 .. (w - 1)) \X (0 .. (h - 1))

Moved(im, new, w, h, from) ==
  /\ IsImage(new)
  /\ new.width = w /\ new.height = h /\ new.depth = im.depth
  /\ DOMAIN new.pixels = DOMAIN im.pixels
  /\ from \in [Grid(w, h) -> Coordinates(im)]
  /\ \A f \in DOMAIN im.pixels, xy \in Grid(w, h) :
       new.pixels[f][xy[1] + xy[2] * w] = im.pixels[f][IndexOf(im, from[xy])]

LEMMA RearrangedIs ==
  ASSUME NEW im, IsImage(im), NEW w \in Nat \ {0}, NEW h \in Nat \ {0},
         NEW source \in [0 .. (w * h - 1) -> Indices(im)]
  PROVE  LET new == Rearranged(im, w, h, source)
         IN  /\ IsImage(new)
             /\ new.width = w /\ new.height = h /\ new.depth = im.depth
             /\ DOMAIN new.pixels = DOMAIN im.pixels
             /\ \A f \in DOMAIN im.pixels, k \in 0 .. (w * h - 1) :
                  new.pixels[f][k] = im.pixels[f][source[k]]
<1> DEFINE all == 0 .. (w * h - 1)
           pixels == [f \in DOMAIN im.pixels |-> [k \in all |-> im.pixels[f][source[k]]]]
           made == [width |-> w, height |-> h, depth |-> im.depth, pixels |-> pixels]
<1>1. Rearranged(im, w, h, source) = made
  <2>1. Rearranged(im, w, h, source) = [Empty(w, h, im.depth) EXCEPT !.pixels = pixels]
    BY DEF Rearranged
  <2> HIDE DEF pixels
  <2> QED
    BY <2>1 DEF Empty
<1> HIDE DEF all
<1>2. pixels \in [DOMAIN im.pixels -> [all -> Int]]
  <2> SUFFICES ASSUME NEW f \in DOMAIN im.pixels, NEW k \in all
               PROVE  im.pixels[f][source[k]] \in Int
    OBVIOUS
  <2> QED
    BY ImageFields DEF all
<1>3. \A f \in DOMAIN im.pixels, k \in all : pixels[f][k] = im.pixels[f][source[k]]
  OBVIOUS
<1>4. DOMAIN pixels = DOMAIN im.pixels
  OBVIOUS
<1> HIDE DEF pixels
<1>5. IsImage(made)
  BY <1>2, ImageFields, MakesImage DEF all
<1> QED
  BY <1>1, <1>3, <1>4, <1>5 DEF all

\* A loop that copies every old pixel ij to the new place to[ij] moves the pixels.
LEMMA LoopMoves ==
  ASSUME NEW im, IsImage(im), NEW w \in Nat \ {0}, NEW h \in Nat \ {0},
         w * h = im.width * im.height,
         NEW target,
         NEW to \in [Coordinates(im) -> Grid(w, h)],
         NEW from \in [Grid(w, h) -> Coordinates(im)],
         \A ij \in Coordinates(im) :
           target[ij] = to[ij][1] + to[ij][2] * w /\ from[to[ij]] = ij,
         \A xy \in Grid(w, h) : to[from[xy]] = xy
  PROVE  Moved(im, Rearranged(im, w, h, SourceOf(im, target)), w, h, from)
<1> DEFINE all == 0 .. (w * h - 1)
           source == SourceOf(im, target)
<1>1. Indices(im) = all
  BY DEF Indices
<1>2. ASSUME NEW xy \in Grid(w, h)
      PROVE  /\ xy[1] + xy[2] * w \in all
             /\ source[xy[1] + xy[2] * w] = IndexOf(im, from[xy])
  <2> DEFINE k == xy[1] + xy[2] * w
  <2>1. xy[1] \in 0 .. (w - 1) /\ xy[2] \in 0 .. (h - 1) /\ xy = <<xy[1], xy[2]>>
    BY DEF Grid
  <2>2. k \in all
    BY <2>1, IndexRange
  <2>3. from[xy] \in Coordinates(im) /\ target[from[xy]] = k
    OBVIOUS
  <2>4. ASSUME NEW ij \in Coordinates(im), target[ij] = k
        PROVE  ij = from[xy]
    <3> DEFINE x == to[ij][1]
               y == to[ij][2]
    <3>1. x \in 0 .. (w - 1) /\ y \in 0 .. (h - 1) /\ to[ij] = <<x, y>>
      BY DEF Grid
    <3>2. x + y * w = xy[1] + xy[2] * w
      BY <2>4
    <3> HIDE DEF x, y
    <3>3. x = xy[1] /\ y = xy[2]
      BY <2>1, <3>1, <3>2, IndexInjective
    <3>4. to[ij] = xy
      BY <2>1, <3>1, <3>3
    <3> QED
      BY <3>4
  <2> HIDE DEF k
  <2>5. (CHOOSE ij \in Coordinates(im) : target[ij] = k) = from[xy]
    <3> DEFINE P(ij) == ij \in Coordinates(im) /\ target[ij] = k
    <3>1. P(from[xy]) /\ \A ij : P(ij) => ij = from[xy]
      BY <2>3, <2>4
    <3> HIDE DEF P
    <3>2. (CHOOSE ij : P(ij)) = from[xy]
      BY <3>1
    <3> QED
      BY <3>2 DEF P
  <2>6. source[k] = IndexOf(im, from[xy])
    BY <1>1, <2>2, <2>5 DEF SourceOf
  <2> QED
    BY <2>2, <2>6 DEF k
<1>3. source \in [all -> Indices(im)]
  <2>1. source = [k \in all |-> IndexOf(im, CHOOSE ij \in Coordinates(im) : target[ij] = k)]
    BY <1>1 DEF SourceOf
  <2> SUFFICES ASSUME NEW k \in all PROVE source[k] \in Indices(im)
    <3> HIDE DEF source
    <3>1. source = [k \in all |-> source[k]]
      BY <2>1
    <3> QED
      BY <3>1
  <2>2. /\ k % w \in 0 .. (w - 1) /\ k \div w \in 0 .. (h - 1)
        /\ k = (k % w) + (k \div w) * w
    BY IndexOnto
  <2> DEFINE xy == <<k % w, k \div w>>
  <2>3. xy \in Grid(w, h) /\ k = xy[1] + xy[2] * w
    BY <2>2 DEF Grid
  <2> HIDE DEF xy, source
  <2>4. source[k] = IndexOf(im, from[xy])
    BY <1>2, <2>3
  <2>5. from[xy] \in Coordinates(im)
    BY <2>3
  <2> QED
    BY <2>4, <2>5, CoordinateIndex
<1> HIDE DEF source
<1> DEFINE new == Rearranged(im, w, h, source)
<1>4. /\ IsImage(new)
      /\ new.width = w /\ new.height = h /\ new.depth = im.depth
      /\ DOMAIN new.pixels = DOMAIN im.pixels
      /\ \A f \in DOMAIN im.pixels, k \in all :
           new.pixels[f][k] = im.pixels[f][source[k]]
  BY <1>3, RearrangedIs
<1> HIDE DEF new, all
<1>5. \A f \in DOMAIN im.pixels, xy \in Grid(w, h) :
        new.pixels[f][xy[1] + xy[2] * w] = im.pixels[f][IndexOf(im, from[xy])]
  BY <1>2, <1>4
<1>6. Moved(im, new, w, h, from)
  BY <1>4, <1>5 DEF Moved
<1> QED
  BY <1>6 DEF new, source

TurnedWidth(im, cwTurns) == IF cwTurns \in {1, 3} THEN im.height ELSE im.width

TurnedHeight(im, cwTurns) == IF cwTurns \in {1, 3} THEN im.width ELSE im.height

FromTurn(im, cwTurns) ==
  [xy \in Grid(TurnedWidth(im, cwTurns), TurnedHeight(im, cwTurns)) |->
     CASE cwTurns = 0 -> xy
       [] cwTurns = 1 -> <<xy[2], im.height - 1 - xy[1]>>
       [] cwTurns = 2 -> <<im.width - 1 - xy[1], im.height - 1 - xy[2]>>
       [] cwTurns = 3 -> <<im.width - 1 - xy[2], xy[1]>>]

FromFlip(im, horizontal) ==
  [xy \in Grid(im.width, im.height) |->
     IF horizontal THEN <<im.width - 1 - xy[1], xy[2]>>
                   ELSE <<xy[1], im.height - 1 - xy[2]>>]

LEMMA GridPoints ==
  ASSUME NEW w \in Nat \ {0}, NEW h \in Nat \ {0}
  PROVE  /\ \A xy \in Grid(w, h) :
              xy[1] \in 0 .. (w - 1) /\ xy[2] \in 0 .. (h - 1) /\ xy = <<xy[1], xy[2]>>
         /\ \A x, y : x \in 0 .. (w - 1) /\ y \in 0 .. (h - 1) => <<x, y>> \in Grid(w, h)
BY DEF Grid

LEMMA RotatedMoves ==
  ASSUME NEW im, IsImage(im), NEW cwTurns \in 0 .. 3
  PROVE  Moved(im, Rotated(im, cwTurns), TurnedWidth(im, cwTurns), TurnedHeight(im, cwTurns),
               FromTurn(im, cwTurns))
<1> DEFINE w == TurnedWidth(im, cwTurns)
           h == TurnedHeight(im, cwTurns)
           from == FromTurn(im, cwTurns)
           target == [xy \in Coordinates(im) |->
                        CASE cwTurns = 0 -> xy[1] + xy[2] * w
                          [] cwTurns = 1 -> (w - 1 - xy[2]) + xy[1] * w
                          [] cwTurns = 2 -> (w - 1 - xy[1]) + (h - 1 - xy[2]) * w
                          [] cwTurns = 3 -> xy[2] + (h - 1 - xy[1]) * w]
           to == [ij \in Coordinates(im) |->
                    CASE cwTurns = 0 -> ij
                      [] cwTurns = 1 -> <<w - 1 - ij[2], ij[1]>>
                      [] cwTurns = 2 -> <<w - 1 - ij[1], h - 1 - ij[2]>>
                      [] cwTurns = 3 -> <<ij[2], h - 1 - ij[1]>>]
<1>1. Rotated(im, cwTurns) = Rearranged(im, w, h, SourceOf(im, target))
  BY DEF Rotated, TurnedWidth, TurnedHeight
<1>2. im.width \in Nat \ {0} /\ im.height \in Nat \ {0}
  BY ImageFields
<1>3. /\ w \in Nat \ {0} /\ h \in Nat \ {0} /\ w * h = im.width * im.height
      /\ Coordinates(im) = Grid(im.width, im.height)
      /\ \/ cwTurns = 0 /\ w = im.width /\ h = im.height
         \/ cwTurns = 1 /\ w = im.height /\ h = im.width
         \/ cwTurns = 2 /\ w = im.width /\ h = im.height
         \/ cwTurns = 3 /\ w = im.height /\ h = im.width
  BY <1>2 DEF TurnedWidth, TurnedHeight, Coordinates, Grid
<1>4. from = [xy \in Grid(w, h) |->
                CASE cwTurns = 0 -> xy
                  [] cwTurns = 1 -> <<xy[2], im.height - 1 - xy[1]>>
                  [] cwTurns = 2 -> <<im.width - 1 - xy[1], im.height - 1 - xy[2]>>
                  [] cwTurns = 3 -> <<im.width - 1 - xy[2], xy[1]>>]
  BY DEF FromTurn
<1> HIDE DEF w, h, from
<1>5. ASSUME NEW ij \in Coordinates(im)
      PROVE  /\ to[ij] \in Grid(w, h)
             /\ target[ij] = to[ij][1] + to[ij][2] * w
             /\ from[to[ij]] = ij
  <2>1. ij[1] \in 0 .. (im.width - 1) /\ ij[2] \in 0 .. (im.height - 1) /\ ij = <<ij[1], ij[2]>>
    BY <1>2, <1>3, GridPoints
  <2>2. CASE cwTurns = 0
    <3>1. to[ij] = ij /\ target[ij] = ij[1] + ij[2] * w /\ ij \in Grid(w, h)
      BY <1>3, <2>2
    <3>2. from[ij] = ij
      BY <1>4, <2>2, <3>1
    <3> QED
      BY <3>1, <3>2
  <2>3. CASE cwTurns = 1
    <3> DEFINE p == <<w - 1 - ij[2], ij[1]>>
    <3>1. to[ij] = p /\ target[ij] = (w - 1 - ij[2]) + ij[1] * w
      BY <2>3
    <3>2. p \in Grid(w, h)
      BY <1>3, <2>1, <2>3, GridPoints
    <3>3. from[p] = <<p[2], im.height - 1 - p[1]>>
      BY <1>4, <2>3, <3>2
    <3>4. from[p] = <<ij[1], ij[2]>>
      BY <1>3, <2>1, <2>3, <3>3
    <3> QED
      BY <2>1, <3>1, <3>2, <3>4
  <2>4. CASE cwTurns = 2
    <3> DEFINE p == <<w - 1 - ij[1], h - 1 - ij[2]>>
    <3>1. to[ij] = p /\ target[ij] = (w - 1 - ij[1]) + (h - 1 - ij[2]) * w
      BY <2>4
    <3>2. p \in Grid(w, h)
      BY <1>3, <2>1, <2>4, GridPoints
    <3>3. from[p] = <<im.width - 1 - p[1], im.height - 1 - p[2]>>
      BY <1>4, <2>4, <3>2
    <3>4. from[p] = <<ij[1], ij[2]>>
      BY <1>3, <2>1, <2>4, <3>3
    <3> QED
      BY <2>1, <3>1, <3>2, <3>4
  <2>5. CASE cwTurns = 3
    <3> DEFINE p == <<ij[2], h - 1 - ij[1]>>
    <3>1. to[ij] = p /\ target[ij] = ij[2] + (h - 1 - ij[1]) * w
      BY <2>5
    <3>2. p \in Grid(w, h)
      BY <1>3, <2>1, <2>5, GridPoints
    <3>3. from[p] = <<im.width - 1 - p[2], p[1]>>
      BY <1>4, <2>5, <3>2
    <3>4. from[p] = <<ij[1], ij[2]>>
      BY <1>3, <2>1, <2>5, <3>3
    <3> QED
      BY <2>1, <3>1, <3>2, <3>4
  <2> QED
    BY <2>2, <2>3, <2>4, <2>5
<1>6. ASSUME NEW xy \in Grid(w, h)
      PROVE  from[xy] \in Coordinates(im) /\ to[from[xy]] = xy
  <2>1. xy[1] \in 0 .. (w - 1) /\ xy[2] \in 0 .. (h - 1) /\ xy = <<xy[1], xy[2]>>
    BY <1>3, GridPoints
  <2>2. CASE cwTurns = 0
    <3>1. from[xy] = xy /\ xy \in Coordinates(im)
      BY <1>3, <1>4, <2>2
    <3> QED
      BY <2>2, <3>1
  <2>3. CASE cwTurns = 1
    <3> DEFINE p == <<xy[2], im.height - 1 - xy[1]>>
    <3>1. from[xy] = p
      BY <1>4, <2>3
    <3>2. p \in Coordinates(im)
      BY <1>2, <1>3, <2>1, <2>3, GridPoints
    <3>3. to[p] = <<w - 1 - p[2], p[1]>>
      BY <2>3, <3>2
    <3>4. to[p] = <<xy[1], xy[2]>>
      BY <1>2, <1>3, <2>1, <2>3, <3>3
    <3> QED
      BY <2>1, <3>1, <3>2, <3>4
  <2>4. CASE cwTurns = 2
    <3> DEFINE p == <<im.width - 1 - xy[1], im.height - 1 - xy[2]>>
    <3>1. from[xy] = p
      BY <1>4, <2>4
    <3>2. p \in Coordinates(im)
      BY <1>2, <1>3, <2>1, <2>4, GridPoints
    <3>3. to[p] = <<w - 1 - p[1], h - 1 - p[2]>>
      BY <2>4, <3>2
    <3>4. to[p] = <<xy[1], xy[2]>>
      BY <1>2, <1>3, <2>1, <2>4, <3>3
    <3> QED
      BY <2>1, <3>1, <3>2, <3>4
  <2>5. CASE cwTurns = 3
    <3> DEFINE p == <<im.width - 1 - xy[2], xy[1]>>
    <3>1. from[xy] = p
      BY <1>4, <2>5
    <3>2. p \in Coordinates(im)
      BY <1>2, <1>3, <2>1, <2>5, GridPoints
    <3>3. to[p] = <<p[2], h - 1 - p[1]>>
      BY <2>5, <3>2
    <3>4. to[p] = <<xy[1], xy[2]>>
      BY <1>2, <1>3, <2>1, <2>5, <3>3
    <3> QED
      BY <2>1, <3>1, <3>2, <3>4
  <2> QED
    BY <2>2, <2>3, <2>4, <2>5
<1>7. to \in [Coordinates(im) -> Grid(w, h)]
  BY <1>5
<1>8. from \in [Grid(w, h) -> Coordinates(im)]
  BY <1>4, <1>6
<1> HIDE DEF to, target
<1>9. Moved(im, Rearranged(im, w, h, SourceOf(im, target)), w, h, from)
  <2>1. \A ij \in Coordinates(im) :
          target[ij] = to[ij][1] + to[ij][2] * w /\ from[to[ij]] = ij
    BY <1>5
  <2>2. \A xy \in Grid(w, h) : to[from[xy]] = xy
    BY <1>6
  <2>3. w \in Nat \ {0} /\ h \in Nat \ {0} /\ w * h = im.width * im.height
    BY <1>3
  <2> HIDE DEF from, w, h
  <2> QED
    BY <1>7, <1>8, <2>1, <2>2, <2>3, LoopMoves
<1> QED
  BY <1>1, <1>9 DEF w, h, from

LEMMA MirroredMoves ==
  ASSUME NEW im, IsImage(im), NEW horizontal \in BOOLEAN
  PROVE  Moved(im, Mirrored(im, horizontal), im.width, im.height, FromFlip(im, horizontal))
<1> DEFINE w == im.width
           h == im.height
           from == FromFlip(im, horizontal)
           target == [xy \in Coordinates(im) |->
                        IF horizontal THEN (w - 1 - xy[1]) + xy[2] * w
                                      ELSE xy[1] + (h - 1 - xy[2]) * w]
<1>1. Mirrored(im, horizontal) = Rearranged(im, w, h, SourceOf(im, target))
  BY DEF Mirrored
<1>2. w \in Nat \ {0} /\ h \in Nat \ {0} /\ w * h = im.width * im.height
  BY ImageFields
<1>3. from = [xy \in Grid(w, h) |-> IF horizontal THEN <<w - 1 - xy[1], xy[2]>>
                                                  ELSE <<xy[1], h - 1 - xy[2]>>]
      /\ Coordinates(im) = Grid(w, h)
  BY DEF FromFlip, Coordinates, Grid
<1> HIDE DEF w, h, from
<1>4. ASSUME NEW xy \in Grid(w, h)
      PROVE  /\ from[xy] \in Grid(w, h) /\ from[from[xy]] = xy
             /\ target[xy] = from[xy][1] + from[xy][2] * w
  <2>1. xy[1] \in 0 .. (w - 1) /\ xy[2] \in 0 .. (h - 1) /\ xy = <<xy[1], xy[2]>>
    BY <1>2, GridPoints
  <2>2. CASE horizontal
    <3> DEFINE p == <<w - 1 - xy[1], xy[2]>>
    <3>1. from[xy] = p /\ target[xy] = (w - 1 - xy[1]) + xy[2] * w
      BY <1>3, <2>2
    <3>2. p \in Grid(w, h)
      BY <1>2, <2>1, GridPoints
    <3>3. from[p] = <<w - 1 - p[1], p[2]>>
      BY <1>3, <2>2, <3>2
    <3>4. from[p] = xy
      BY <1>2, <2>1, <3>3
    <3> QED
      BY <3>1, <3>2, <3>4
  <2>3. CASE ~horizontal
    <3> DEFINE p == <<xy[1], h - 1 - xy[2]>>
    <3>1. from[xy] = p /\ target[xy] = xy[1] + (h - 1 - xy[2]) * w
      BY <1>3, <2>3
    <3>2. p \in Grid(w, h)
      BY <1>2, <2>1, GridPoints
    <3>3. from[p] = <<p[1], h - 1 - p[2]>>
      BY <1>3, <2>3, <3>2
    <3>4. from[p] = xy
      BY <1>2, <2>1, <3>3
    <3> QED
      BY <3>1, <3>2, <3>4
  <2> QED
    BY <2>2, <2>3
<1>5. from \in [Grid(w, h) -> Coordinates(im)]
  BY <1>3, <1>4
<1> HIDE DEF target
<1>6. Moved(im, Rearranged(im, w, h, SourceOf(im, target)), w, h, from)
  <2>1. from \in [Coordinates(im) -> Grid(w, h)]
    BY <1>3, <1>5
  <2>2. \A ij \in Coordinates(im) :
          target[ij] = from[ij][1] + from[ij][2] * w /\ from[from[ij]] = ij
    BY <1>3, <1>4
  <2>3. \A xy \in Grid(w, h) : from[from[xy]] = xy
    BY <1>4
  <2> QED
    BY <1>2, <1>5, <2>1, <2>2, <2>3, LoopMoves
<1> QED
  BY <1>1, <1>6 DEF w, h, from

LEMMA SmallerOfTwo ==
  ASSUME NEW a \in Int, NEW b \in Int
  PROVE  Min({a, b}) = IF a <= b THEN a ELSE b
<1> DEFINE m == IF a <= b THEN a ELSE b
<1>1. m \in {a, b} /\ \A y \in {a, b} : m <= y
  OBVIOUS
<1>2. \A x \in {a, b} : (\A y \in {a, b} : x <= y) => x = m
  OBVIOUS
<1> HIDE DEF m
<1>3. (CHOOSE x \in {a, b} : \A y \in {a, b} : x <= y) = m
  BY <1>1, <1>2
<1> QED
  BY <1>3 DEF Min, m

LEMMA FirstOfInterval ==
  ASSUME NEW a \in Int, NEW b \in Int, a <= b
  PROVE  Min(a .. b) = a
<1>1. a \in a .. b /\ \A y \in a .. b : a <= y
  OBVIOUS
<1>2. \A x \in a .. b : (\A y \in a .. b : x <= y) => x = a
  BY <1>1
<1> DEFINE S == a .. b
<1> HIDE DEF S
<1>3. (CHOOSE x \in S : \A y \in S : x <= y) = a
  BY <1>1, <1>2 DEF S
<1> QED
  BY <1>3 DEF Min, S

\* One dimension of clImageAdjustRect keeps what is inside the image.
LEMMA InsideIs ==
  ASSUME NEW start \in Nat, NEW length \in Nat \ {0}, NEW size \in Nat \ {0}
  PROVE  LET first == Min({start, size - 1})
             count == Min({first + length, size}) - first
         IN  /\ first \in 0 .. (size - 1) /\ count \in 1 .. (size - first)
             /\ Min(Inside(start, length, size)) = first
             /\ Cardinality(Inside(start, length, size)) = count
<1> DEFINE first == Min({start, size - 1})
           end == Min({first + length, size})
           inside == {i \in start .. (start + length - 1) : i < size}
<1>1. first = IF start <= size - 1 THEN start ELSE size - 1
  BY SmallerOfTwo
<1>2. first \in 0 .. (size - 1)
  BY <1>1
<1>3. end = IF first + length <= size THEN first + length ELSE size
  <2> HIDE DEF first
  <2> QED
    BY <1>2, SmallerOfTwo
<1> HIDE DEF first, end
<1>4. end \in Int /\ first < end /\ end <= size
  BY <1>2, <1>3
<1>5. Inside(start, length, size) = first .. (end - 1)
  <2>1. CASE start <= size - 1
    <3>1. inside = first .. (end - 1)
      BY <1>1, <1>3, <2>1
    <3>2. start \in inside
      BY <2>1
    <3> QED
      BY <3>1, <3>2 DEF Inside
  <2>2. CASE start > size - 1
    <3>1. inside = {}
      BY <2>2
    <3>2. {size - 1} = first .. (end - 1)
      BY <1>1, <1>3, <2>2
    <3> QED
      BY <3>1, <3>2 DEF Inside
  <2> QED
    BY <2>1, <2>2
<1>6. Min(first .. (end - 1)) = first
  BY <1>2, <1>4, FirstOfInterval
<1>7. Cardinality(first .. (end - 1)) = end - first
  BY <1>2, <1>4, FS_Interval
<1>8. end - first \in 1 .. (size - first)
  BY <1>2, <1>4
<1> QED
  BY <1>2, <1>5, <1>6, <1>7, <1>8 DEF first, end

LEMMA IndexParts ==
  ASSUME NEW w \in Nat \ {0}, NEW h \in Nat \ {0},
         NEW i \in 0 .. (w - 1), NEW j \in 0 .. (h - 1)
  PROVE  (i + j * w) % w = i /\ (i + j * w) \div w = j
<1> DEFINE k == i + j * w
           a == k % w
           b == k \div w
<1>1. k \in 0 .. (w * h - 1)
  BY IndexRange
<1>2. a \in 0 .. (w - 1) /\ b \in 0 .. (h - 1) /\ k = a + b * w
  <2> HIDE DEF k
  <2> QED
    BY <1>1, IndexOnto
<1> HIDE DEF a, b
<1>3. b \in Int /\ j \in Int /\ i + j * w = a + b * w
  BY <1>2
<1>4. i = a /\ j = b
  BY <1>2, <1>3, IndexInjective
<1> QED
  BY <1>4 DEF a, b

FromCrop(r) == [xy \in Grid(r.w, r.h) |-> <<xy[1] + r.x, xy[2] + r.y>>]

LEMMA CroppedMoves ==
  ASSUME NEW im, IsImage(im), NEW x \in Nat, NEW y \in Nat,
         NEW w \in Nat \ {0}, NEW h \in Nat \ {0}, x + w <= im.width, y + h <= im.height
  PROVE  LET r == [x |-> x, y |-> y, w |-> w, h |-> h]
         IN  Moved(im, Cropped(im, r), w, h, FromCrop(r))
<1> DEFINE r == [x |-> x, y |-> y, w |-> w, h |-> h]
           all == 0 .. (w * h - 1)
           source == [k \in all |-> ((k % w) + x) + im.width * ((k \div w) + y)]
           from == [xy \in Grid(w, h) |-> <<xy[1] + x, xy[2] + y>>]
           new == Rearranged(im, w, h, source)
<1>1. im.width \in Nat \ {0} /\ im.height \in Nat \ {0}
  BY ImageFields
<1>3. Cropped(im, r) = new
  BY DEF Cropped
<1>4. FromCrop(r) = from
  BY DEF FromCrop
<1>5. ASSUME NEW i \in 0 .. (w - 1), NEW j \in 0 .. (h - 1)
      PROVE  /\ <<i + x, j + y>> \in Coordinates(im)
             /\ (i + x) + im.width * (j + y) = IndexOf(im, <<i + x, j + y>>)
             /\ IndexOf(im, <<i + x, j + y>>) \in Indices(im)
  <2>1. i + x \in 0 .. (im.width - 1) /\ j + y \in 0 .. (im.height - 1)
    BY <1>1
  <2>2. <<i + x, j + y>> \in Coordinates(im)
    BY <2>1 DEF Coordinates
  <2>3. (i + x) + im.width * (j + y) = (i + x) + (j + y) * im.width
    BY <1>1
  <2> QED
    BY <2>2, <2>3, CoordinateIndex DEF IndexOf
<1>6. source \in [all -> Indices(im)]
  <2> SUFFICES ASSUME NEW k \in all
               PROVE  ((k % w) + x) + im.width * ((k \div w) + y) \in Indices(im)
    OBVIOUS
  <2>1. k % w \in 0 .. (w - 1) /\ k \div w \in 0 .. (h - 1)
    BY IndexOnto
  <2> DEFINE i == k % w
             j == k \div w
  <2> HIDE DEF i, j
  <2>2. i \in 0 .. (w - 1) /\ j \in 0 .. (h - 1)
    BY <2>1 DEF i, j
  <2>3. (i + x) + im.width * (j + y) \in Indices(im)
    BY <1>5, <2>2
  <2> QED
    BY <2>3 DEF i, j
<1>7. ASSUME NEW xy \in Grid(w, h)
      PROVE  /\ xy[1] + xy[2] * w \in all
             /\ from[xy] \in Coordinates(im)
             /\ source[xy[1] + xy[2] * w] = IndexOf(im, from[xy])
  <2>1. xy[1] \in 0 .. (w - 1) /\ xy[2] \in 0 .. (h - 1)
    BY GridPoints
  <2> DEFINE k == xy[1] + xy[2] * w
  <2>2. k \in all
    BY <2>1, IndexRange
  <2>3. k % w = xy[1] /\ k \div w = xy[2]
    BY <2>1, IndexParts
  <2>4. source[k] = (xy[1] + x) + im.width * (xy[2] + y)
    <3> HIDE DEF k
    <3> QED
      BY <2>2, <2>3
  <2>5. from[xy] = <<xy[1] + x, xy[2] + y>>
    OBVIOUS
  <2> HIDE DEF source, from, k
  <2> QED
    BY <1>5, <2>1, <2>2, <2>4, <2>5 DEF k
<1>8. from \in [Grid(w, h) -> Coordinates(im)]
  BY <1>7
<1> HIDE DEF source, from
<1>9. /\ IsImage(new)
      /\ new.width = w /\ new.height = h /\ new.depth = im.depth
      /\ DOMAIN new.pixels = DOMAIN im.pixels
      /\ \A f \in DOMAIN im.pixels, k \in all :
           new.pixels[f][k] = im.pixels[f][source[k]]
  BY <1>6, RearrangedIs
<1> HIDE DEF new, all
<1>10. Moved(im, new, w, h, from)
  BY <1>7, <1>8, <1>9 DEF Moved
<1> QED
  BY <1>3, <1>4, <1>10

-----------------------------------------------------------------------------
(* Every step keeps the invariant.                                           *)

LEMMA MovedInv ==
  ASSUME IInv, Live, NEW w \in Nat \ {0}, NEW h \in Nat \ {0}, NEW from, NEW new,
         Moved(image, new, w, h, from),
         image' = new,
         shown' = [xy \in Grid(w, h) |-> shown[from[xy]]],
         draws' = draws
  PROVE  IInv'
<1>1. IsImage(image) /\ shown \in SeenType(image) /\ ShowsAll(image, shown)
  BY DEF IInv
<1>2. /\ IsImage(new)
      /\ new.width = w /\ new.height = h /\ new.depth = image.depth
      /\ DOMAIN new.pixels = DOMAIN image.pixels
      /\ from \in [Grid(w, h) -> Coordinates(image)]
      /\ \A f \in DOMAIN image.pixels, xy \in Grid(w, h) :
           new.pixels[f][xy[1] + xy[2] * w] = image.pixels[f][IndexOf(image, from[xy])]
  BY DEF Moved
<1>3. Coordinates(new) = Grid(w, h)
      /\ \A xy \in Grid(w, h) : IndexOf(new, xy) = xy[1] + xy[2] * w
  BY <1>2 DEF Coordinates, Grid, IndexOf
<1>4. shown' \in SeenType(new)
  BY <1>1, <1>2, <1>3 DEF SeenType
<1>5. ShowsAll(new, shown')
  <2> SUFFICES ASSUME NEW xy \in Grid(w, h), shown'[xy] # Unset, shown'[xy] \in Nat
               PROVE  ShowsAt(new, xy, shown'[xy])
    BY <1>3 DEF ShowsAll
  <2>1. shown'[xy] = shown[from[xy]] /\ from[xy] \in Coordinates(image)
    BY <1>2
  <2>2. ShowsAt(image, from[xy], shown'[xy])
    BY <1>1, <2>1 DEF ShowsAll
  <2>3. \A f \in DOMAIN image.pixels :
          new.pixels[f][IndexOf(new, xy)] = image.pixels[f][IndexOf(image, from[xy])]
    BY <1>2, <1>3
  <2> QED
    BY <1>2, <2>2, <2>3 DEF ShowsAt
<1> QED
  BY <1>2, <1>4, <1>5 DEF IInv

LEMMA InitInv == Init => IInv
BY ImageAssumption DEF Init, IInv, Live

LEMMA clImageCreateInv ==
  ASSUME IInv, NEW size \in Sizes, NEW depth \in Depths, clImageCreate(size, depth)
  PROVE  IInv'
<1> DEFINE new == Empty(size[1], size[2], depth)
<1>1. size[1] \in Nat \ {0} /\ size[2] \in Nat \ {0}
  BY ImageAssumption
<1>2. image' = new /\ shown' = [xy \in Coordinates(new) |-> Unset] /\ draws' = 0
  BY DEF clImageCreate
<1>3. IsImage(new)
  <2>1. <<>> \in [{} -> [0 .. (size[1] * size[2] - 1) -> Int]]
    OBVIOUS
  <2> QED
    BY <1>1, <2>1, MakesImage DEF Empty
<1> HIDE DEF new
<1>4. shown' \in SeenType(new) /\ ShowsAll(new, shown')
  BY <1>2 DEF SeenType, ShowsAll
<1> QED
  BY <1>2, <1>3, <1>4, ImageAssumption DEF IInv

LEMMA clImageDestroyInv ==
  ASSUME IInv, clImageDestroy
  PROVE  IInv'
BY ImageAssumption DEF clImageDestroy, IInv, Live

LEMMA clImagePrepareReadPixelsInv ==
  ASSUME IInv, NEW f \in Formats, NEW wraps \in BOOLEAN, clImagePrepareReadPixels(f, wraps)
  PROVE  IInv'
<1> DEFINE ready == PreparedRead(image, f, wraps)
<1>1. image' = ready /\ shown' = shown /\ draws' = draws /\ Live
  BY DEF clImagePrepareReadPixels
<1>2. IsImage(image) /\ shown \in SeenType(image) /\ ShowsAll(image, shown)
  BY <1>1 DEF IInv
<1>3. IsImage(ready) /\ ready.width = image.width /\ ready.height = image.height
  BY <1>2, Prepared
<1>4. \A xy \in Coordinates(image) :
        shown[xy] # Unset /\ shown[xy] \in Nat => ShowsAt(ready, xy, shown[xy])
  BY <1>2, PreparedShows DEF ShowsAll
<1> HIDE DEF ready
<1>5. Coordinates(ready) = Coordinates(image)
  BY <1>3 DEF Coordinates
<1> QED
  BY <1>1, <1>2, <1>3, <1>4, <1>5 DEF IInv, ShowsAll, SeenType

\* What a reader decodes is a level of the buffer it decodes into.
LEMMA DecodedLevel ==
  ASSUME NEW val \in Int, NEW f \in Formats, NEW depth \in Nat
  PROVE  /\ FromFloat(val, f, depth, FALSE) \in Int
         /\ f # "F32" => FromFloat(val, f, depth, FALSE) \in 0 .. MaxLevel(f, depth)
<1> DEFINE m == MaxLevel(f, depth)
           a == 2 * val * m + One
           b == 2 * One
           level == FromFloat(val, f, depth, FALSE)
<1>1. m \in Nat /\ a \in Int /\ b \in Nat \ {0}
  BY Levels
<1>2. level =
        IF f = "F32" THEN val
        ELSE CASE a \div b > m -> m [] a \div b < 0 -> 0 [] OTHER -> a \div b
  BY DEF FromFloat, RoundUNorm
<1> HIDE DEF m, a, b, level
<1>3. a \div b \in Int
  BY <1>1, DivBounds
<1>4. level \in Int /\ (f # "F32" => level \in 0 .. m)
  BY <1>1, <1>2, <1>3
<1> QED
  BY <1>4 DEF m, level

LEMMA DecodeInv ==
  ASSUME IInv, NEW f \in Formats, NEW wraps \in BOOLEAN, NEW first \in DOMAIN Samples,
         Decode(f, wraps, first)
  PROVE  IInv'
<1> DEFINE sample(k) == Samples[((first + k) % Len(Samples)) + 1]
           level == [k \in Indices(image) |-> FromFloat(sample(k), f, image.depth, FALSE)]
<1>1. Live /\ WritePixels(f, wraps, level) /\ draws' = draws
  BY DEF Decode
<1>2. IsImage(image) /\ image.depth \in Nat /\ draws \in 0 .. MaxDraws
  BY <1>1, ImageFields DEF IInv
<1>3. \A k \in Indices(image) : sample(k) \in Int
  <2> SUFFICES ASSUME NEW k \in Indices(image) PROVE sample(k) \in Int
    OBVIOUS
  <2>1. Samples \in Seq(Int) /\ Len(Samples) \in Nat \ {0}
    BY ImageAssumption
  <2>2. first + k \in Int
    BY <2>1 DEF Indices
  <2>3. (first + k) % Len(Samples) \in 0 .. (Len(Samples) - 1)
    BY <2>1, <2>2, ModRange
  <2>4. ((first + k) % Len(Samples)) + 1 \in 1 .. Len(Samples)
    BY <2>1, <2>3
  <2> QED
    BY <2>1, <2>4
<1> HIDE DEF sample
<1>4. \A k \in DOMAIN level :
        level[k] \in Int /\ (f # "F32" => level[k] \in 0 .. MaxLevel(f, image.depth))
  BY <1>2, <1>3, DecodedLevel
<1>5. DOMAIN level = Indices(image)
  OBVIOUS
<1> HIDE DEF level
<1> QED
  BY <1>1, <1>2, <1>4, <1>5, WriteInv

LEMMA clImageClearInv ==
  ASSUME IInv, NEW color \in Colors, NEW wraps \in BOOLEAN, clImageClear(color, wraps)
  PROVE  IInv'
<1> DEFINE level == [k \in Indices(image) |-> color]
<1>1. Live /\ WritePixels("F32", wraps, level) /\ draws' = draws
  BY DEF clImageClear
<1>2. draws \in 0 .. MaxDraws /\ color \in Int /\ "F32" \in Formats
  BY ImageAssumption DEF IInv, Formats
<1>3. \A k \in DOMAIN level : level[k] \in Int
  BY <1>2
<1>4. DOMAIN level \subseteq Indices(image)
  OBVIOUS
<1> HIDE DEF level
<1> QED
  BY <1>1, <1>2, <1>3, <1>4, WriteInv

LEMMA DrawPixelInv ==
  ASSUME IInv, NEW xy \in Coordinates(image), NEW color \in Colors, NEW wraps \in BOOLEAN,
         DrawPixel(xy, color, wraps)
  PROVE  IInv'
<1> DEFINE level == [k \in {IndexOf(image, xy)} |-> color]
<1>1. Live /\ WritePixels("F32", wraps, level) /\ draws' = draws + 1 /\ draws < MaxDraws
  BY DEF DrawPixel
<1>2. draws' \in 0 .. MaxDraws /\ color \in Int /\ "F32" \in Formats
  BY <1>1, ImageAssumption DEF IInv, Formats
<1>3. \A k \in DOMAIN level : level[k] \in Int
  BY <1>2
<1>4. DOMAIN level \subseteq Indices(image)
  BY <1>1, CoordinateIndex DEF IInv
<1> HIDE DEF level
<1> QED
  BY <1>1, <1>2, <1>3, <1>4, WriteInv

LEMMA clImageConvertInv ==
  ASSUME IInv, NEW depth \in Depths, NEW wraps \in BOOLEAN, clImageConvert(depth, wraps)
  PROVE  IInv'
<1> DEFINE ready == PreparedRead(image, "F32", wraps)
           float == ready.pixels["F32"]
           alone == [f \in {"F32"} |-> float]
           made == [width |-> image.width, height |-> image.height, depth |-> depth,
                    pixels |-> alone]
<1>1. /\ Live /\ draws' = draws
      /\ shown' = [xy \in Coordinates(image) |-> float[IndexOf(image, xy)]]
      /\ image' = [Empty(image.width, image.height, depth) EXCEPT !.pixels = alone]
  BY DEF clImageConvert
<1>2. IsImage(image)
  BY <1>1 DEF IInv
<1>3. /\ IsImage(ready) /\ ready.width = image.width /\ ready.height = image.height
      /\ "F32" \in DOMAIN ready.pixels /\ "F32" \in Formats
  BY <1>2, Prepared DEF Formats
<1> HIDE DEF ready
<1>4. float \in [0 .. (image.width * image.height - 1) -> Int]
  BY <1>3, ImageFields DEF Indices
<1> HIDE DEF float
<1>5. alone \in [{"F32"} -> [0 .. (image.width * image.height - 1) -> Int]]
      /\ alone["F32"] = float /\ DOMAIN alone = {"F32"}
  BY <1>4
<1> HIDE DEF alone
<1>6. image' = made
  BY <1>1 DEF Empty
<1>7. IsImage(made)
  <2>1. {"F32"} \in SUBSET Formats
    BY <1>3
  <2> QED
    BY <1>2, <1>5, <2>1, ImageFields, MakesImage
<1>8. /\ made.width = image.width /\ made.height = image.height /\ made.depth = depth
      /\ made.pixels = alone
  OBVIOUS
<1> HIDE DEF made
<1>9. Coordinates(made) = Coordinates(image)
      /\ \A xy \in Coordinates(image) : IndexOf(made, xy) = IndexOf(image, xy)
  BY <1>8 DEF Coordinates, IndexOf
<1>10. shown' \in SeenType(made)
  <2> SUFFICES ASSUME NEW xy \in Coordinates(image)
               PROVE  float[IndexOf(image, xy)] \in Int
    BY <1>1, <1>9 DEF SeenType
  <2> QED
    BY <1>2, <1>4, CoordinateIndex DEF Indices
<1>11. ShowsAll(made, shown')
  <2> SUFFICES ASSUME NEW xy \in Coordinates(image)
               PROVE  ShowsAt(made, xy, shown'[xy])
    BY <1>9 DEF ShowsAll
  <2>1. made.pixels["F32"][IndexOf(made, xy)] = shown'[xy]
    BY <1>1, <1>5, <1>8, <1>9
  <2>2. Shows("F32", shown'[xy], shown'[xy], made.depth)
    BY DEF Shows, F32Shows
  <2> QED
    BY <1>5, <1>8, <2>1, <2>2 DEF ShowsAt
<1> QED
  BY <1>1, <1>6, <1>7, <1>10, <1>11 DEF IInv

LEMMA TurnedTimesIs ==
  ASSUME NEW im, IsImage(im), NEW seen \in SeenType(im), NEW cwTurns \in 0 .. 3
  PROVE  TurnedTimes(seen, im.width, im.height, cwTurns) =
           [xy \in Grid(TurnedWidth(im, cwTurns), TurnedHeight(im, cwTurns)) |->
              seen[FromTurn(im, cwTurns)[xy]]]
<1> DEFINE w == im.width
           h == im.height
           once == [xy \in Grid(h, w) |-> seen[<<xy[2], h - 1 - xy[1]>>]]
           twice == [xy \in Grid(w, h) |-> seen[<<w - 1 - xy[1], h - 1 - xy[2]>>]]
           thrice == [xy \in Grid(h, w) |-> seen[<<w - 1 - xy[2], xy[1]>>]]
<1>1. w \in Nat \ {0} /\ h \in Nat \ {0}
  BY ImageFields
<1>2. seen = [xy \in Grid(w, h) |-> seen[xy]]
  BY DEF SeenType, Coordinates, Grid
<1>3. /\ TurnedWidth(im, cwTurns) = IF cwTurns \in {1, 3} THEN h ELSE w
      /\ TurnedHeight(im, cwTurns) = IF cwTurns \in {1, 3} THEN w ELSE h
      /\ \A xy \in Grid(TurnedWidth(im, cwTurns), TurnedHeight(im, cwTurns)) :
           FromTurn(im, cwTurns)[xy] =
             CASE cwTurns = 0 -> xy
               [] cwTurns = 1 -> <<xy[2], h - 1 - xy[1]>>
               [] cwTurns = 2 -> <<w - 1 - xy[1], h - 1 - xy[2]>>
               [] cwTurns = 3 -> <<w - 1 - xy[2], xy[1]>>
  BY DEF FromTurn, TurnedWidth, TurnedHeight
<1> HIDE DEF w, h
<1>4. Turned(seen, w, h) = once
  BY DEF Turned, Grid
<1>5. Turned(once, h, w) = twice
  <2>1. Turned(once, h, w) = [xy \in Grid(w, h) |-> once[<<xy[2], w - 1 - xy[1]>>]]
    BY DEF Turned, Grid
  <2>2. ASSUME NEW xy \in Grid(w, h)
        PROVE  once[<<xy[2], w - 1 - xy[1]>>] = seen[<<w - 1 - xy[1], h - 1 - xy[2]>>]
    <3>1. xy[1] \in 0 .. (w - 1) /\ xy[2] \in 0 .. (h - 1)
      BY <1>1, GridPoints
    <3>2. <<xy[2], w - 1 - xy[1]>> \in Grid(h, w)
      BY <1>1, <3>1, GridPoints
    <3> QED
      BY <3>2
  <2> HIDE DEF once
  <2> QED
    BY <2>1, <2>2
<1>6. Turned(twice, w, h) = thrice
  <2>1. Turned(twice, w, h) = [xy \in Grid(h, w) |-> twice[<<xy[2], h - 1 - xy[1]>>]]
    BY DEF Turned, Grid
  <2>2. ASSUME NEW xy \in Grid(h, w)
        PROVE  twice[<<xy[2], h - 1 - xy[1]>>] = seen[<<w - 1 - xy[2], xy[1]>>]
    <3>1. xy[1] \in 0 .. (h - 1) /\ xy[2] \in 0 .. (w - 1)
      BY <1>1, GridPoints
    <3>2. <<xy[2], h - 1 - xy[1]>> \in Grid(w, h)
      BY <1>1, <3>1, GridPoints
    <3>3. h - 1 - (h - 1 - xy[1]) = xy[1]
      BY <1>1, <3>1
    <3> QED
      BY <3>2, <3>3
  <2> HIDE DEF twice
  <2> QED
    BY <2>1, <2>2
<1>7. TurnedTimes(seen, w, h, cwTurns) =
        CASE cwTurns = 0 -> seen [] cwTurns = 1 -> once
          [] cwTurns = 2 -> twice [] cwTurns = 3 -> thrice
  <2> HIDE DEF once, twice, thrice
  <2> QED
    BY <1>4, <1>5, <1>6 DEF TurnedTimes
<1>8. CASE cwTurns = 0
  BY <1>2, <1>3, <1>7, <1>8 DEF w, h
<1>9. CASE cwTurns = 1
  BY <1>3, <1>7, <1>9 DEF w, h
<1>10. CASE cwTurns = 2
  BY <1>3, <1>7, <1>10 DEF w, h
<1>11. CASE cwTurns = 3
  BY <1>3, <1>7, <1>11 DEF w, h
<1> QED
  BY <1>8, <1>9, <1>10, <1>11

LEMMA clImageRotateInv ==
  ASSUME IInv, NEW cwTurns \in 0 .. 3, clImageRotate(cwTurns)
  PROVE  IInv'
<1> DEFINE w == TurnedWidth(image, cwTurns)
           h == TurnedHeight(image, cwTurns)
           from == FromTurn(image, cwTurns)
           new == Rotated(image, cwTurns)
<1>1. /\ Live /\ image' = new /\ draws' = draws
      /\ shown' = TurnedTimes(shown, image.width, image.height, cwTurns)
  BY DEF clImageRotate
<1>2. IsImage(image) /\ shown \in SeenType(image)
  BY <1>1 DEF IInv
<1>3. w \in Nat \ {0} /\ h \in Nat \ {0}
  BY <1>2, ImageFields DEF TurnedWidth, TurnedHeight
<1>4. Moved(image, new, w, h, from)
  BY <1>2, RotatedMoves
<1>5. shown' = [xy \in Grid(w, h) |-> shown[from[xy]]]
  BY <1>1, <1>2, TurnedTimesIs
<1> HIDE DEF w, h, from, new
<1> QED
  BY <1>1, <1>3, <1>4, <1>5, MovedInv

LEMMA clImageMirrorInv ==
  ASSUME IInv, NEW horizontal \in BOOLEAN, clImageMirror(horizontal)
  PROVE  IInv'
<1> DEFINE w == image.width
           h == image.height
           from == FromFlip(image, horizontal)
           new == Mirrored(image, horizontal)
<1>1. /\ Live /\ image' = new /\ draws' = draws
      /\ shown' = Flipped(shown, w, h, horizontal)
  BY DEF clImageMirror
<1>2. IsImage(image)
  BY <1>1 DEF IInv
<1>3. w \in Nat \ {0} /\ h \in Nat \ {0}
  BY <1>2, ImageFields
<1>4. Moved(image, new, w, h, from)
  BY <1>2, MirroredMoves
<1>5. shown' = [xy \in Grid(w, h) |-> shown[from[xy]]]
  <2>1. shown' = [xy \in Grid(w, h) |->
                    IF horizontal THEN shown[<<w - 1 - xy[1], xy[2]>>]
                                  ELSE shown[<<xy[1], h - 1 - xy[2]>>]]
    BY <1>1 DEF Flipped, Grid
  <2>2. \A xy \in Grid(w, h) :
          from[xy] = IF horizontal THEN <<w - 1 - xy[1], xy[2]>>
                                   ELSE <<xy[1], h - 1 - xy[2]>>
    BY DEF FromFlip
  <2> HIDE DEF w, h, from
  <2>3. CASE horizontal
    BY <2>1, <2>2, <2>3
  <2>4. CASE ~horizontal
    BY <2>1, <2>2, <2>4
  <2> QED
    BY <2>3, <2>4
<1> HIDE DEF w, h, from, new
<1> QED
  BY <1>1, <1>3, <1>4, <1>5, MovedInv

LEMMA clImageCropInv ==
  ASSUME IInv, NEW rect \in Rects(image), clImageCrop(rect)
  PROVE  IInv'
<1> DEFINE x == Min({rect.x, image.width - 1})
           y == Min({rect.y, image.height - 1})
           w == Min({x + rect.w, image.width}) - x
           h == Min({y + rect.h, image.height}) - y
           r == [x |-> x, y |-> y, w |-> w, h |-> h]
           new == Cropped(image, r)
           columns == Inside(rect.x, rect.w, image.width)
           rows == Inside(rect.y, rect.h, image.height)
<1>1. /\ Live /\ draws' = draws /\ ~RectRefused(rect)
      /\ image' = new
      /\ shown' = CutOut(shown, image.width, image.height, rect)
  BY DEF clImageCrop, AdjustedRect
<1>2. IsImage(image)
  BY <1>1 DEF IInv
<1>3. image.width \in Nat \ {0} /\ image.height \in Nat \ {0}
  BY <1>2, ImageFields
<1>4. /\ rect.x \in Nat /\ rect.w \in Nat \ {0}
      /\ rect.y \in Nat /\ rect.h \in Nat \ {0}
  BY <1>1, <1>3 DEF Rects, RectRefused
<1>5. /\ x \in 0 .. (image.width - 1) /\ w \in 1 .. (image.width - x)
      /\ Min(columns) = x /\ Cardinality(columns) = w
  BY <1>3, <1>4, InsideIs
<1>6. /\ y \in 0 .. (image.height - 1) /\ h \in 1 .. (image.height - y)
      /\ Min(rows) = y /\ Cardinality(rows) = h
  BY <1>3, <1>4, InsideIs
<1>7. shown' = [xy \in (0 .. (Cardinality(columns) - 1)) \X (0 .. (Cardinality(rows) - 1)) |->
                  shown[<<Min(columns) + xy[1], Min(rows) + xy[2]>>]]
  BY <1>1 DEF CutOut
<1> HIDE DEF x, y, w, h, columns, rows
<1>8. x \in Nat /\ y \in Nat /\ w \in Nat \ {0} /\ h \in Nat \ {0}
      /\ x + w <= image.width /\ y + h <= image.height
  BY <1>3, <1>5, <1>6
<1>9. Moved(image, new, w, h, FromCrop(r))
  BY <1>2, <1>8, CroppedMoves
<1>10. shown' = [xy \in Grid(w, h) |-> shown[FromCrop(r)[xy]]]
  <2>1. shown' = [xy \in Grid(w, h) |-> shown[<<x + xy[1], y + xy[2]>>]]
    BY <1>5, <1>6, <1>7 DEF Grid
  <2>2. ASSUME NEW xy \in Grid(w, h)
        PROVE  FromCrop(r)[xy] = <<x + xy[1], y + xy[2]>>
    <3>1. FromCrop(r)[xy] = <<xy[1] + x, xy[2] + y>>
      BY DEF FromCrop
    <3>2. xy[1] \in Int /\ xy[2] \in Int
      BY <1>8, GridPoints
    <3> QED
      BY <1>8, <3>1, <3>2
  <2> QED
    BY <2>1, <2>2
<1> DEFINE from == FromCrop(r)
<1> HIDE DEF new, r, from
<1>11. Moved(image, new, w, h, from) /\ shown' = [xy \in Grid(w, h) |-> shown[from[xy]]]
  BY <1>9, <1>10 DEF from
<1> QED
  BY <1>1, <1>8, <1>11, MovedInv

LEMMA NextInv == IInv /\ [Next]_vars => IInv'
<1> SUFFICES ASSUME IInv, [Next]_vars PROVE IInv'
  OBVIOUS
<1>1. ASSUME NEW size \in Sizes, NEW depth \in Depths, clImageCreate(size, depth)
      PROVE  IInv'
  BY <1>1, clImageCreateInv
<1>2. CASE clImageDestroy
  BY <1>2, clImageDestroyInv
<1>3. CASE Edit
  <2>1. PICK wraps \in BOOLEAN :
          \/ \E f \in Formats : clImagePrepareReadPixels(f, wraps)
          \/ \E f \in Formats, first \in DOMAIN Samples : Decode(f, wraps, first)
          \/ \E color \in Colors : clImageClear(color, wraps)
          \/ \E xy \in Coordinates(image), color \in Colors : DrawPixel(xy, color, wraps)
          \/ \E depth \in Depths : clImageConvert(depth, wraps)
    BY <1>3 DEF Edit
  <2>2. ASSUME NEW f \in Formats, clImagePrepareReadPixels(f, wraps) PROVE IInv'
    BY <2>2, clImagePrepareReadPixelsInv
  <2>3. ASSUME NEW f \in Formats, NEW first \in DOMAIN Samples, Decode(f, wraps, first)
        PROVE  IInv'
    BY <2>3, DecodeInv
  <2>4. ASSUME NEW color \in Colors, clImageClear(color, wraps) PROVE IInv'
    BY <2>4, clImageClearInv
  <2>5. ASSUME NEW xy \in Coordinates(image), NEW color \in Colors, DrawPixel(xy, color, wraps)
        PROVE  IInv'
    BY <2>5, DrawPixelInv
  <2>6. ASSUME NEW depth \in Depths, clImageConvert(depth, wraps) PROVE IInv'
    BY <2>6, clImageConvertInv
  <2> QED
    BY <2>1, <2>2, <2>3, <2>4, <2>5, <2>6
<1>4. CASE Rearrange
  <2>1. ASSUME NEW cwTurns \in 0 .. 3, clImageRotate(cwTurns) PROVE IInv'
    BY <2>1, clImageRotateInv
  <2>2. ASSUME NEW horizontal \in BOOLEAN, clImageMirror(horizontal) PROVE IInv'
    BY <2>2, clImageMirrorInv
  <2>3. ASSUME NEW rect \in Rects(image), clImageCrop(rect) PROVE IInv'
    BY <2>3, clImageCropInv
  <2> QED
    BY <1>4, <2>1, <2>2, <2>3 DEF Rearrange
<1>5. CASE UNCHANGED vars
  BY <1>5 DEF vars, IInv, Live, ShowsAll, ShowsAt, IsImage, SeenType, Coordinates, IndexOf
<1> QED
  BY <1>1, <1>2, <1>3, <1>4, <1>5 DEF Next

\* Every reachable image satisfies the inductive invariant.
THEOREM Invariance == Spec => []IInv
BY InitInv, NextInv, PTL DEF Spec

-----------------------------------------------------------------------------
(* What the invariant implies.                                               *)

\* Type correctness, for images of any size and depth.
THEOREM TypeCorrect == Spec => []TypeOK
<1>1. IInv => TypeOK
  BY ImageFields DEF IInv, TypeOK, SeenType
<1> QED
  BY <1>1, Invariance, PTL

\* Every buffer shows what was last written, whatever happened in between.
THEOREM BuffersAreFaithful == Spec => []Faithful
<1>1. IInv => Faithful
  <2> SUFFICES ASSUME IInv, Live, NEW f \in DOMAIN image.pixels, NEW xy \in Written,
                      shown[xy] >= 0
               PROVE  2 * Distance(InRange(ValueAt(f, xy)), InRange(shown[xy]))
                        <= Step("U8", image.depth) + Step("U16", image.depth)
    BY DEF Faithful
  <2>1. IsImage(image) /\ shown \in SeenType(image) /\ ShowsAll(image, shown)
    BY DEF IInv
  <2>2. xy \in Coordinates(image) /\ shown[xy] # Unset /\ shown[xy] \in Nat
    BY <2>1 DEF Written, SeenType
  <2> DEFINE p == image.pixels[f][IndexOf(image, xy)]
  <2>3. Shows(f, p, shown[xy], image.depth)
    BY <2>1, <2>2 DEF ShowsAll, ShowsAt
  <2>4. p \in Int /\ f \in Formats /\ image.depth \in Nat
    BY <2>1, <2>2, ImageFields, CoordinateIndex
  <2> HIDE DEF p
  <2>5. 2 * Distance(InRange(AsFloat(p, f, image.depth)), InRange(shown[xy]))
          <= Step("U8", image.depth) + Step("U16", image.depth)
    BY <2>2, <2>3, <2>4, ShownClosely
  <2> QED
    BY <2>5 DEF ValueAt, p
<1> QED
  BY <1>1, Invariance, PTL

\* Eight bit content survives every buffer and every depth exactly.
THEOREM EightBitContentSurvives == Spec => []EightBitExact
<1>1. IInv => EightBitExact
  <2> SUFFICES ASSUME IInv, Live, NEW f \in DOMAIN image.pixels, NEW xy \in Written,
                      NEW level \in 0 .. MaxChannel(Bits8),
                      shown[xy] = AsFloat(level, "U8", image.depth)
               PROVE  RoundUNorm(ValueAt(f, xy), MaxChannel(Bits8), FALSE) = level
    BY DEF EightBitExact
  <2>1. IsImage(image) /\ shown \in SeenType(image) /\ ShowsAll(image, shown)
    BY DEF IInv
  <2>2. xy \in Coordinates(image) /\ shown[xy] # Unset
    BY DEF Written
  <2> DEFINE p == image.pixels[f][IndexOf(image, xy)]
  <2>3. p \in Int /\ f \in Formats /\ image.depth \in Nat
    BY <2>1, <2>2, ImageFields, CoordinateIndex
  <2>4. shown[xy] \in Nat
    <3>1. level \in 0 .. MaxLevel("U8", image.depth) /\ "U8" \in Formats
      BY DEF MaxLevel, Formats
    <3>2. AsFloat(level, "U8", image.depth) \in 0 .. One
      BY <2>3, <3>1, AsFloatRange
    <3> QED
      BY <3>2
  <2>5. Shows(f, p, AsFloat(level, "U8", image.depth), image.depth)
    BY <2>1, <2>2, <2>4 DEF ShowsAll, ShowsAt
  <2> HIDE DEF p
  <2>6. RoundUNorm(AsFloat(p, f, image.depth), MaxChannel(Bits8), FALSE) = level
    BY <2>3, <2>5, ShownExactly, Zenon
  <2> QED
    BY <2>6, Zenon DEF ValueAt, p
<1> QED
  BY <1>1, Invariance, PTL

-----------------------------------------------------------------------------
(* The turns and the mirrorings.                                             *)

LEMMA MovedTwice ==
  ASSUME NEW im, IsImage(im), NEW a, NEW b,
         NEW w \in Nat \ {0}, NEW h \in Nat \ {0}, NEW f, Moved(im, a, w, h, f),
         NEW v \in Nat \ {0}, NEW g \in Nat \ {0}, NEW e, Moved(a, b, v, g, e)
  PROVE  Moved(im, b, v, g, [xy \in Grid(v, g) |-> f[e[xy]]])
<1> DEFINE from == [xy \in Grid(v, g) |-> f[e[xy]]]
<1>1. Coordinates(a) = Grid(w, h) /\ \A xy \in Grid(w, h) : IndexOf(a, xy) = xy[1] + xy[2] * w
  BY DEF Moved, Coordinates, Grid, IndexOf
<1>2. from \in [Grid(v, g) -> Coordinates(im)]
  BY <1>1 DEF Moved
<1>3. ASSUME NEW k \in DOMAIN im.pixels, NEW xy \in Grid(v, g)
      PROVE  b.pixels[k][xy[1] + xy[2] * v] = im.pixels[k][IndexOf(im, from[xy])]
  <2>1. e[xy] \in Grid(w, h) /\ from[xy] = f[e[xy]] /\ k \in DOMAIN a.pixels
    BY <1>1 DEF Moved
  <2>2. b.pixels[k][xy[1] + xy[2] * v] = a.pixels[k][IndexOf(a, e[xy])]
    BY <2>1 DEF Moved
  <2>3. a.pixels[k][IndexOf(a, e[xy])] = im.pixels[k][IndexOf(im, f[e[xy]])]
    BY <1>1, <2>1 DEF Moved
  <2> QED
    BY <2>1, <2>2, <2>3
<1> HIDE DEF from
<1>4. Moved(im, b, v, g, from)
  BY <1>2, <1>3 DEF Moved
<1> QED
  BY <1>4 DEF from

\* Two images with the same pixels from the same places are the same.
LEMMA SameImages ==
  ASSUME NEW im, IsImage(im), NEW a, NEW b, NEW w \in Nat \ {0}, NEW h \in Nat \ {0},
         NEW f, NEW g, Moved(im, a, w, h, f), Moved(im, b, w, h, g),
         \A xy \in Grid(w, h) : f[xy] = g[xy]
  PROVE  a = b
<1>1. IsImage(a) /\ IsImage(b) /\ a.width = w /\ b.width = w /\ a.height = h /\ b.height = h
      /\ a.depth = b.depth /\ DOMAIN a.pixels = DOMAIN b.pixels
      /\ DOMAIN a.pixels = DOMAIN im.pixels
  BY DEF Moved
<1> DEFINE all == 0 .. (w * h - 1)
           formats == DOMAIN im.pixels
<1>2. a.pixels \in [formats -> [all -> Int]] /\ b.pixels \in [formats -> [all -> Int]]
  BY <1>1, ImageFields DEF Indices
<1>3. ASSUME NEW k \in formats, NEW i \in all
      PROVE  a.pixels[k][i] = b.pixels[k][i]
  <2> DEFINE xy == <<i % w, i \div w>>
  <2>1. xy \in Grid(w, h) /\ i = xy[1] + xy[2] * w
    BY IndexOnto DEF Grid
  <2> HIDE DEF xy
  <2> QED
    BY <2>1 DEF Moved
<1> HIDE DEF all, formats
<1>4. \A k \in formats : a.pixels[k] = b.pixels[k]
  <2> TAKE k \in formats
  <2>1. a.pixels[k] \in [all -> Int] /\ b.pixels[k] \in [all -> Int]
    BY <1>2
  <2> QED
    BY <1>3, <2>1
<1>5. a.pixels = b.pixels
  BY <1>2, <1>4
<1>6. /\ a = [width |-> a.width, height |-> a.height, depth |-> a.depth, pixels |-> a.pixels]
      /\ b = [width |-> b.width, height |-> b.height, depth |-> b.depth, pixels |-> b.pixels]
  BY <1>1, ImageFields
<1> QED
  BY <1>1, <1>5, <1>6

LEMMA Stays ==
  ASSUME NEW im, IsImage(im)
  PROVE  Moved(im, im, im.width, im.height, [xy \in Grid(im.width, im.height) |-> xy])
BY DEF Moved, Coordinates, Grid, IndexOf

LEMMA TurnMoves ==
  ASSUME NEW im, IsImage(im), NEW w, NEW h, im.width = w, im.height = h
  PROVE  /\ w \in Nat \ {0} /\ h \in Nat \ {0}
         /\ Moved(im, Rotated(im, 1), h, w, [xy \in Grid(h, w) |-> <<xy[2], h - 1 - xy[1]>>])
         /\ Moved(im, Rotated(im, 2), w, h,
                  [xy \in Grid(w, h) |-> <<w - 1 - xy[1], h - 1 - xy[2]>>])
         /\ Moved(im, Rotated(im, 3), h, w, [xy \in Grid(h, w) |-> <<w - 1 - xy[2], xy[1]>>])
<1>1. w \in Nat \ {0} /\ h \in Nat \ {0}
  BY ImageFields
<1>2. /\ TurnedWidth(im, 1) = h /\ TurnedHeight(im, 1) = w
      /\ FromTurn(im, 1) = [xy \in Grid(h, w) |-> <<xy[2], h - 1 - xy[1]>>]
  BY DEF TurnedWidth, TurnedHeight, FromTurn
<1>3. /\ TurnedWidth(im, 2) = w /\ TurnedHeight(im, 2) = h
      /\ FromTurn(im, 2) = [xy \in Grid(w, h) |-> <<w - 1 - xy[1], h - 1 - xy[2]>>]
  BY DEF TurnedWidth, TurnedHeight, FromTurn
<1>4. /\ TurnedWidth(im, 3) = h /\ TurnedHeight(im, 3) = w
      /\ FromTurn(im, 3) = [xy \in Grid(h, w) |-> <<w - 1 - xy[2], xy[1]>>]
  BY DEF TurnedWidth, TurnedHeight, FromTurn
<1>5. Moved(im, Rotated(im, 1), h, w, [xy \in Grid(h, w) |-> <<xy[2], h - 1 - xy[1]>>])
  BY <1>2, RotatedMoves
<1>6. Moved(im, Rotated(im, 2), w, h,
            [xy \in Grid(w, h) |-> <<w - 1 - xy[1], h - 1 - xy[2]>>])
  BY <1>3, RotatedMoves
<1>7. Moved(im, Rotated(im, 3), h, w, [xy \in Grid(h, w) |-> <<w - 1 - xy[2], xy[1]>>])
  BY <1>4, RotatedMoves
<1> QED
  BY <1>1, <1>5, <1>6, <1>7

LEMMA FlipMoves ==
  ASSUME NEW im, IsImage(im), NEW w, NEW h, im.width = w, im.height = h
  PROVE  /\ Moved(im, Mirrored(im, TRUE), w, h,
                  [xy \in Grid(w, h) |-> <<w - 1 - xy[1], xy[2]>>])
         /\ Moved(im, Mirrored(im, FALSE), w, h,
                  [xy \in Grid(w, h) |-> <<xy[1], h - 1 - xy[2]>>])
<1>1. FromFlip(im, TRUE) = [xy \in Grid(w, h) |-> <<w - 1 - xy[1], xy[2]>>]
  BY DEF FromFlip
<1>2. FromFlip(im, FALSE) = [xy \in Grid(w, h) |-> <<xy[1], h - 1 - xy[2]>>]
  BY DEF FromFlip
<1>3. Moved(im, Mirrored(im, TRUE), im.width, im.height, FromFlip(im, TRUE))
  BY MirroredMoves, Zenon
<1>4. Moved(im, Mirrored(im, FALSE), im.width, im.height, FromFlip(im, FALSE))
  BY MirroredMoves, Zenon
<1> QED
  BY <1>1, <1>2, <1>3, <1>4, Zenon

LEMMA HalfTurn ==
  ASSUME NEW im, IsImage(im)
  PROVE  Rotated(Rotated(im, 1), 1) = Rotated(im, 2)
<1> DEFINE w == im.width
           h == im.height
           once == Rotated(im, 1)
           twice == Rotated(once, 1)
           f == [xy \in Grid(h, w) |-> <<xy[2], h - 1 - xy[1]>>]
           e == [xy \in Grid(w, h) |-> <<xy[2], w - 1 - xy[1]>>]
           g == [xy \in Grid(w, h) |-> <<w - 1 - xy[1], h - 1 - xy[2]>>]
           fe == [xy \in Grid(w, h) |-> f[e[xy]]]
<1>1. /\ w \in Nat \ {0} /\ h \in Nat \ {0}
      /\ Moved(im, once, h, w, f) /\ Moved(im, Rotated(im, 2), w, h, g)
  BY TurnMoves
<1>2. IsImage(once) /\ once.width = h /\ once.height = w
  BY <1>1 DEF Moved
<1> HIDE DEF w, h, once
<1>3. Moved(once, twice, w, h, e)
  BY <1>2, TurnMoves
<1>4. ASSUME NEW xy \in Grid(w, h) PROVE fe[xy] = g[xy]
  <2>1. xy[1] \in 0 .. (w - 1) /\ xy[2] \in 0 .. (h - 1)
    BY <1>1, GridPoints
  <2>2. <<xy[2], w - 1 - xy[1]>> \in Grid(h, w)
    BY <1>1, <2>1, GridPoints
  <2> QED
    BY <2>2
<1> HIDE DEF f, e, g, twice
<1>5. Moved(im, twice, w, h, fe)
  BY <1>1, <1>3, MovedTwice
<1> HIDE DEF fe
<1>6. twice = Rotated(im, 2)
  BY <1>1, <1>4, <1>5, SameImages
<1> QED
  BY <1>6 DEF twice, once

LEMMA FullTurn ==
  ASSUME NEW im, IsImage(im)
  PROVE  Rotated(Rotated(im, 1), 3) = im
<1> DEFINE w == im.width
           h == im.height
           once == Rotated(im, 1)
           full == Rotated(once, 3)
           f == [xy \in Grid(h, w) |-> <<xy[2], h - 1 - xy[1]>>]
           e == [xy \in Grid(w, h) |-> <<h - 1 - xy[2], xy[1]>>]
           g == [xy \in Grid(w, h) |-> xy]
           fe == [xy \in Grid(w, h) |-> f[e[xy]]]
<1>1. /\ w \in Nat \ {0} /\ h \in Nat \ {0}
      /\ Moved(im, once, h, w, f)
  BY TurnMoves
<1>2. Moved(im, im, w, h, g)
  BY Stays
<1>3. IsImage(once) /\ once.width = h /\ once.height = w
  BY <1>1 DEF Moved
<1> HIDE DEF w, h, once
<1>4. Moved(once, full, w, h, e)
  BY <1>3, TurnMoves
<1>5. ASSUME NEW xy \in Grid(w, h) PROVE fe[xy] = g[xy]
  <2>1. xy[1] \in 0 .. (w - 1) /\ xy[2] \in 0 .. (h - 1) /\ xy = <<xy[1], xy[2]>>
    BY <1>1, GridPoints
  <2>2. <<h - 1 - xy[2], xy[1]>> \in Grid(h, w)
    BY <1>1, <2>1, GridPoints
  <2>3. fe[xy] = <<xy[1], h - 1 - (h - 1 - xy[2])>>
    BY <2>2
  <2>4. h - 1 - (h - 1 - xy[2]) = xy[2]
    BY <1>1, <2>1
  <2> QED
    BY <2>1, <2>3, <2>4
<1> HIDE DEF f, e, g, full
<1>6. Moved(im, full, w, h, fe)
  BY <1>1, <1>4, MovedTwice
<1> HIDE DEF fe
<1>7. full = im
  BY <1>1, <1>2, <1>5, <1>6, SameImages
<1> QED
  BY <1>7 DEF full, once

LEMMA BothMirrorings ==
  ASSUME NEW im, IsImage(im)
  PROVE  Mirrored(Mirrored(im, TRUE), FALSE) = Rotated(im, 2)
<1> DEFINE w == im.width
           h == im.height
           once == Mirrored(im, TRUE)
           twice == Mirrored(once, FALSE)
           f == [xy \in Grid(w, h) |-> <<w - 1 - xy[1], xy[2]>>]
           e == [xy \in Grid(w, h) |-> <<xy[1], h - 1 - xy[2]>>]
           g == [xy \in Grid(w, h) |-> <<w - 1 - xy[1], h - 1 - xy[2]>>]
           fe == [xy \in Grid(w, h) |-> f[e[xy]]]
<1>1. /\ w \in Nat \ {0} /\ h \in Nat \ {0} /\ Moved(im, Rotated(im, 2), w, h, g)
  BY TurnMoves
<1>2. Moved(im, once, w, h, f)
  BY FlipMoves, Zenon
<1> HIDE DEF once
<1>3. IsImage(once) /\ once.width = w /\ once.height = h
  BY <1>2 DEF Moved
<1> HIDE DEF w, h
<1>4. Moved(once, twice, w, h, e)
  BY <1>3, FlipMoves, Zenon
<1> HIDE DEF twice
<1>5. ASSUME NEW xy \in Grid(w, h) PROVE fe[xy] = g[xy]
  <2>1. xy[1] \in 0 .. (w - 1) /\ xy[2] \in 0 .. (h - 1)
    BY <1>1, GridPoints
  <2>2. <<xy[1], h - 1 - xy[2]>> \in Grid(w, h)
    BY <1>1, <2>1, GridPoints
  <2> QED
    BY <2>2
<1> HIDE DEF f, e, g
<1>6. Moved(im, twice, w, h, fe)
  BY <1>1, <1>2, <1>4, MovedTwice
<1> HIDE DEF fe
<1>7. twice = Rotated(im, 2)
  BY <1>1, <1>5, <1>6, SameImages
<1> QED
  BY <1>7, Zenon DEF twice, once

LEMMA MirrorAfterTurn ==
  ASSUME NEW im, IsImage(im)
  PROVE  Mirrored(Rotated(im, 1), TRUE) = Rotated(Mirrored(im, FALSE), 1)
<1> DEFINE w == im.width
           h == im.height
           turned == Rotated(im, 1)
           upended == Mirrored(im, FALSE)
           left == Mirrored(turned, TRUE)
           right == Rotated(upended, 1)
           f == [xy \in Grid(h, w) |-> <<xy[2], h - 1 - xy[1]>>]
           e == [xy \in Grid(h, w) |-> <<h - 1 - xy[1], xy[2]>>]
           u == [xy \in Grid(w, h) |-> <<xy[1], h - 1 - xy[2]>>]
           fe == [xy \in Grid(h, w) |-> f[e[xy]]]
           uf == [xy \in Grid(h, w) |-> u[f[xy]]]
<1>1. w \in Nat \ {0} /\ h \in Nat \ {0} /\ Moved(im, turned, h, w, f)
  BY TurnMoves
<1>2. Moved(im, upended, w, h, u)
  BY FlipMoves, Zenon
<1> HIDE DEF upended
<1>3. /\ IsImage(turned) /\ turned.width = h /\ turned.height = w
      /\ IsImage(upended) /\ upended.width = w /\ upended.height = h
  BY <1>1, <1>2 DEF Moved
<1> HIDE DEF w, h, turned
<1>4. Moved(turned, left, h, w, e)
  BY <1>3, FlipMoves, Zenon
<1>5. Moved(upended, right, h, w, f)
  BY <1>3, TurnMoves
<1> HIDE DEF left, right
<1>6. ASSUME NEW xy \in Grid(h, w) PROVE fe[xy] = uf[xy]
  <2>1. xy[1] \in 0 .. (h - 1) /\ xy[2] \in 0 .. (w - 1)
    BY <1>1, GridPoints
  <2>2. <<h - 1 - xy[1], xy[2]>> \in Grid(h, w) /\ <<xy[2], h - 1 - xy[1]>> \in Grid(w, h)
    BY <1>1, <2>1, GridPoints
  <2> QED
    BY <2>2
<1> HIDE DEF f, e, u
<1>7. Moved(im, left, h, w, fe)
  BY <1>1, <1>4, MovedTwice
<1>8. Moved(im, right, h, w, uf)
  BY <1>1, <1>2, <1>5, MovedTwice
<1> HIDE DEF fe, uf
<1>9. left = right
  BY <1>1, <1>6, <1>7, <1>8, SameImages
<1> QED
  BY <1>9, Zenon DEF left, right, turned, upended

\* Turns and mirrorings fit together, for images of any size.
THEOREM TurnsAndMirroringsCompose == Spec => []TurnsCompose
<1>1. IInv => TurnsCompose
  <2> SUFFICES ASSUME IInv, Live
               PROVE  /\ Rotated(Rotated(image, 1), 1) = Rotated(image, 2)
                      /\ Rotated(Rotated(image, 1), 3) = image
                      /\ Mirrored(Mirrored(image, TRUE), FALSE) = Rotated(image, 2)
                      /\ Mirrored(Rotated(image, 1), TRUE) = Rotated(Mirrored(image, FALSE), 1)
    BY Zenon DEF TurnsCompose
  <2>1. IsImage(image)
    BY DEF IInv
  <2> QED
    BY <2>1, HalfTurn, FullTurn, BothMirrorings, MirrorAfterTurn, Zenon
<1> QED
  BY <1>1, Invariance, PTL
=============================================================================
