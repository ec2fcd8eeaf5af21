SPECIFICATION Spec
CONSTANTS
  Callers = {d1, d2}
  NoToken = NoToken
  Second = 2
  Lifetime = 5
  RefreshSlack = 3
  Skew = 1
  MaxTime = 5
  MaxEpoch = 2
SYMMETRY CallerSymmetry
INVARIANT TypeOK
INVARIANT AtMostOneEffect
INVARIANT ExpiryNeverSurfaces
INVARIANT SlackAbsorbsDelay
INVARIANT RetryCarriesNewToken
CHECK_DEADLOCK FALSE
