SPECIFICATION Spec
CONSTANTS
  Callers = {c1, c2}
  MaxToken = 2
  MaxHops = 2
SYMMETRY CallerSymmetry
INVARIANTS
  TypeOK
  RotationIsSeamless
  NoStaleCredential
  OTPCarriesIntermediate
  OTPTokenIsReturned
  PlainCallsFollowRedirects
  IntermediateIsFlagged
  NoTokenNoSuccess
  UnfollowedLoginReturnsToken
