SPECIFICATION Spec
CONSTANTS
  Callers = {d1, d2}
  NoToken = NoToken
  Second = 2
  Lifetime = 4
  RefreshSlack = 2
  Skew = 1
  MaxTime = 4
  MaxEpoch = 2
SYMMETRY CallerSymmetry
INVARIANT ExpiryIsTransparent
CHECK_DEADLOCK FALSE
