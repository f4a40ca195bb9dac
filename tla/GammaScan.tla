------------------------------- MODULE GammaScan -------------------------------
(***************************************************************************)
(* What the gamma search of clPixelMathColorGrade promises, without any    *)
(* thread: the gammas are tried in increasing order, one at a time, and    *)
(* the best error so far is kept.                                          *)
(***************************************************************************)
EXTENDS GammaErrors

VARIABLES err,      \* err[g]: the error term of gamma g on this image
          next,     \* the next gamma to try
          minErr, minGamma

scanVars == <<err, next, minErr, minGamma>>

ScanInit ==
  /\ err \in GammaErrors
  /\ next = GammaFirst
  /\ minErr = -1
  /\ minGamma = 0

Try ==
  /\ next \in Gammas
  /\ next' = next + 1
  /\ minErr' = IF Improves(minErr, err[next]) THEN err[next] ELSE minErr
  /\ minGamma' = IF Improves(minErr, err[next]) THEN next ELSE minGamma
  /\ UNCHANGED err

ScanSpec == ScanInit /\ [][Try]_scanVars

-----------------------------------------------------------------------------
\* g is the gamma the search is meant to find among those below limit: no other
\* has a smaller error, and every smaller one has a larger error.  When every
\* error is NaN, that is the first gamma.
IsBestBelow(g, limit) ==
  /\ g \in GammaFirst .. (limit - 1)
  /\ \A h \in GammaFirst .. (limit - 1) :
       /\ ~GreaterThan(err[g], err[h])
       /\ h < g => GreaterThan(err[h], err[g])
=============================================================================
