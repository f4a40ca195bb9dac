------------------------------ MODULE MCImageString ------------------------------
(* Strings of up to four words in one stripe, and of up to three stripes. *)
EXTENDS ImageString

MCMaxLevel == [d \in {8, 16} |-> IF d = 8 THEN 3 ELSE 6]

Color(d, r, g, b) == [depth |-> d, levels |-> <<r, g, b>>]
ColorWord(c)  == [type |-> "color", start |-> c]
RangeWord(a, b, n) == [type |-> "range", start |-> a, end |-> b, count |-> n]
Word(type, n) == [type |-> type, n |-> n]
Dims(w, h)    == [type |-> "dims", w |-> w, h |-> h]

Red   == Color(8, 9, 0, 0)          \* clamped to the largest level
Blue  == Color(16, 0, 0, 6)
Black == Color(8, 0, 0, 0)
Gray  == Color(32, 90, 90, 90)

Common == {ColorWord(Red), RangeWord(Red, Black, 0), Word("repeat", 2), Word("repeat", 3),
           Dims(5, 2), Word("rotate", 1)}

Rare == Common \cup
  {ColorWord(Gray), ColorWord(Blue), RangeWord(Black, Gray, 3), RangeWord(Gray, Black, 0), RangeWord(Red, Blue, 0),
   RangeWord(Blue, Blue, 0), RangeWord(Black, Red, 2), Word("repeat", 0), Dims(0, 2), Dims(4, 0), Dims(2, 3),
   Word("hald", 4), Word("hald", 1), Word("hald", 2), Word("cie", 2), Word("rotate", -1),
   [type |-> "bad"], [type |-> "junk"], [type |-> "unreadable"]}

FewWords == {ColorWord(Blue), RangeWord(Black, Red, 2), Dims(3, 2), Word("rotate", 1), Word("repeat", 2),
             [type |-> "bad"]}

UpTo(n, S) == UNION {[1 .. k -> S] : k \in 0 .. n}

\* "Unreadable" is a response file: it is all there is of its stripe.
Sensible(stripe) ==
  \A i \in DOMAIN stripe : stripe[i].type = "unreadable" => Len(stripe) = 1

MCInputs ==
  LET stripes == {s \in UpTo(4, Common) \cup UpTo(2, Rare) : Sensible(s)}
      short   == {s \in UpTo(2, FewWords) : Sensible(s)}
  IN  {<<>>} \cup {<<s>> : s \in stripes} \cup (short \X UpTo(1, FewWords)) \cup (UpTo(1, FewWords) \X short)
        \cup ([1 .. 3 -> UpTo(1, FewWords)])
===================================================================================
