------------------------------- MODULE MCProfile -------------------------------
(***************************************************************************)
(* TLC instance of Profile: two profiles, enough to match and to clone;    *)
(* one curve the built-in CMM knows and one it does not.                   *)
(***************************************************************************)
EXTENDS Profile, TLC

\* The two profiles are interchangeable.
ProfileSymmetry == Permutations(Profiles)
=============================================================================
