SPECIFICATION Spec
CONSTANTS
  Null = Null
  Unknown = Unknown
  Values = {v1, v2}
  DefaultValue = v1
  Clusters = {c1}
  Attributes = {"license", "use_case", "desired_state"}
  MaxLate = 1
  MaxChanges = 0
  ReadsLag = TRUE
PROPERTY ForgottenOnlyWhenGone
