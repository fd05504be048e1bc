SPECIFICATION Spec
CONSTANTS
  Downloaders = {d1, d2}
  Sizes <- MCSizes
  MaxSize = 2
  Limits = {2, 3}
  Unlimited = Unlimited
  Threshold = 90
  MaxCalls = 2
SYMMETRY Symmetry
INVARIANTS
  TypeOK
  OvershootIsBounded
  SequentialUseFits
PROPERTIES
  ImplementsCheck
CHECK_DEADLOCK FALSE
