CONSTANTS
  Null = Null
  Unknown = Unknown
  TaskId = TaskId
  a1 = a1
  a2 = a2
  v1 = v1
  v2 = v2
  Parts = {"cloud_account"}
  Values = {v1, v2}
  Carried = {"name"}
  CreateAnswers = {"task"}
  OrganizationIds = {a1, a2}
  AccountIds = {a1, a2}
  RegionIds <- MCRegionIds
  OrganizationConfigs <- MCOrganizationConfigs
  AccountConfigs <- MCAccountConfigs
  RegionConfigs <- MCRegionConfigs
  MaxChanges = 1
  MaxInvocations = 3
SPECIFICATION Spec
INVARIANT
  ReadBackFindsIt
CHECK_DEADLOCK FALSE
