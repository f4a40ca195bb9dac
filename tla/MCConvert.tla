------------------------------- MODULE MCConvert -------------------------------
(* Command lines with at most three options away from their defaults, on files *)
(* with a gamma, a PQ or a curve only estimated, and on one not understood.    *)
EXTENDS Convert, FiniteSets

CONSTANT MaxOptions

MCContents ==
  {[info |-> [primaries |-> "wide", curve |-> [type |-> "gamma", gamma |-> 2],
              luminance |-> 1], queryable |-> TRUE],
   [info |-> [primaries |-> "wide", curve |-> [type |-> "pq", gamma |-> 1],
              luminance |-> 0], queryable |-> TRUE],
   [info |-> [primaries |-> "collinear", curve |-> [type |-> "complex", gamma |-> 2],
              luminance |-> 1], queryable |-> TRUE],
   [info |-> [primaries |-> "nonpositive", curve |-> [type |-> "complex", gamma |-> -1],
              luminance |-> 0], queryable |-> FALSE]}

MCDefaultContent ==
  [info |-> [primaries |-> "srgb", curve |-> [type |-> "gamma", gamma |-> 2],
             luminance |-> 0], queryable |-> TRUE]

MCGarbage ==
  {[primaries |-> "nonpositive", curve |-> [type |-> "complex", gamma |-> -1], luminance |-> -1],
   [primaries |-> "srgb", curve |-> [type |-> "gamma", gamma |-> 1], luminance |-> -1]}

AskedCurves == {[type |-> "gamma", gamma |-> g] : g \in -1 .. 2} \cup {[type |-> "pq", gamma |-> 1]}

Default ==
  [profile |-> DefaultProfileOptions, format |-> "other",
   iccOverrideIn |-> FALSE, iccOverrideOut |-> FALSE, enforceLuminance |-> FALSE,
   crop |-> FALSE, resize |-> FALSE, rotate |-> FALSE, stats |-> FALSE, tonemap |-> "auto"]

\* The command lines that differ from r in one option.
OneMore(r) ==
  {[r EXCEPT !.profile.autoGrade = TRUE], [r EXCEPT !.profile.copyright = TRUE],
   [r EXCEPT !.iccOverrideIn = TRUE], [r EXCEPT !.iccOverrideOut = TRUE],
   [r EXCEPT !.enforceLuminance = TRUE], [r EXCEPT !.crop = TRUE],
   [r EXCEPT !.resize = TRUE], [r EXCEPT !.rotate = TRUE], [r EXCEPT !.stats = TRUE],
   [r EXCEPT !.tonemap = "fixed"]}
  \cup {[r EXCEPT !.profile.curve = c] : c \in AskedCurves}
  \cup {[r EXCEPT !.profile.luminance = l] : l \in 0 .. 2}
  \cup {[r EXCEPT !.profile.primaries = p] : p \in Primaries}
  \cup {[r EXCEPT !.format = f] : f \in Formats}

WithOptions[n \in 0 .. MaxOptions] ==
  IF n = 0 THEN {Default}
  ELSE WithOptions[n - 1] \cup UNION {OneMore(r) : r \in WithOptions[n - 1]}

MCRequests == WithOptions[MaxOptions]
=============================================================================
