------------------------------ MODULE GammaErrors ------------------------------
(***************************************************************************)
(* The data of the gamma search of lib/src/pixelmath_grade.c: the integer  *)
(* gammas GAMMA_RANGE_START .. GAMMA_RANGE_END (20 .. 80, twentieths of a  *)
(* gamma) and the error term of each of them on the image being graded.    *)
(* An error term is a sum of absolute values: a natural number here, since *)
(* only comparisons matter, or NaN.                                        *)
(***************************************************************************)
EXTENDS Integers

CONSTANTS GammaFirst, GammaLast,
          ErrorTerms,      \* the error terms enumerated
          NaN

ASSUME GammaAssumption ==
  /\ GammaFirst \in Nat \ {0}
  /\ GammaLast \in Nat
  /\ GammaFirst <= GammaLast
  /\ ErrorTerms \subseteq Nat
  /\ NaN \notin Int

Gammas == GammaFirst .. GammaLast

\* A scaled channel is NaN for every gamma or for none: it is 0 * infinity when
\* the luminance found is 0, or the image holds NaN.
NaNErrors == [g \in Gammas |-> NaN]

GammaErrors == [Gammas -> ErrorTerms] \cup {NaNErrors}

\* IEEE comparison: false when an operand is NaN.
GreaterThan(a, b) == a # NaN /\ b # NaN /\ a > b

\* Mutant: ">=", so that the last of several equal errors is kept.
ImprovesOrTies(min, e) == min = -1 \/ GreaterThan(min, e) \/ min = e

\* -1.0f stands for "no error term yet"; a later term has to be strictly less.
Improves(min, e) == min = -1 \/ GreaterThan(min, e)
=============================================================================
