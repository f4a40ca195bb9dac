CONSTANTS
  Profiles = {p1, p2}
  Texts = {text}
  NoText = NoText
  Luminances = {1}
  Curves = {gamma, complex}
  FriendlyCurves = {gamma}
  NoProfile = NoProfile
  NoBytes = NoBytes
SYMMETRY ProfileSymmetry
SPECIFICATION Spec
INVARIANTS TypeOK DerivedFromHandle ChangesSurvive MatchIsExactWhenPacked
