SPECIFICATION WeightSpec
CONSTANTS
  NRows = 2
  NPos = 2
  Kinds <- MCKinds
  Rated <- MCRated
  Template <- MCTemplate
  Damping <- MCDamping
  Top = 2
  Gamma = 1
  Lambda = 4
  DDQ = 5
  JSDQ = 5
  DDJQ = 9
  Options <- MCOptions
INVARIANTS
  LossScaleKept
  PaddingIgnored
  RitualNotFavoured
CHECK_DEADLOCK FALSE
