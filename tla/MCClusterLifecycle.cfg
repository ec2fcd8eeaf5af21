SPECIFICATION FairSpec
CONSTANTS
  Null = Null
  Unknown = Unknown
  Values = {v1, v2}
  DefaultValue = v1
  Clusters = {c1, c2}
  Attributes = {"license", "capacity"}
  MaxLate = 1
  MaxChanges = 0
  ReadsLag = TRUE
INVARIANT TypeOK
INVARIANT SuccessIsReal
INVARIANT NothingLostSilently
PROPERTY Converges
