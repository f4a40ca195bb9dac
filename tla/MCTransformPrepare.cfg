CONSTANTS
  NULL = NULL
  Profiles <- MCProfiles
  DefaultLuminance = 2
  HLGLuminance = 10
  Garbage = {0, 3}
SPECIFICATION PrepareSpec
INVARIANTS ScaleAsAnswered CurvesApplied TonemapAsAsked NoLeak
