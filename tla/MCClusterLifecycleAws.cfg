SPECIFICATION Spec
CONSTANTS
  Null = Null
  Unknown = Unknown
  Values = {v1, v2}
  DefaultValue = v1
  Clusters = {c1}
  Attributes = {"name", "use_case", "desired_state"}
  MaxLate = 1
  MaxChanges = 1
  ReadsLag = TRUE
INVARIANT SuccessIsReal
INVARIANT FlipsAreAlone
PROPERTY CleanPlanAfterApply
PROPERTY KeptWhileSeen
