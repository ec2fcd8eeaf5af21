SPECIFICATION FairSpec
CONSTANTS
  Callers = {g1, g2}
  NoCaller = NoCaller
  NoToken = NoToken
  Second = 2
  Lifetime = 3
  RefreshSlack = 1
  MaxTime = 4
  MaxEpoch = 1
INVARIANT IInv
INVARIANT AnswerOutlivesSlack
INVARIANT NoRevivedToken
PROPERTY RenewedOnlyWhenDue
PROPERTY ImplementsService
PROPERTY EveryCallReturns
