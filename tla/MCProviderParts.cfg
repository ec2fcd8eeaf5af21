CONSTANTS
  Null = Null
  Unknown = Unknown
  TaskId = TaskId
  a1 = a1
  a2 = a2
  v1 = v1
  v2 = v2
  Parts = {"organization", "cloud_account", "cloud_account_region", "actions",
           "computed"}
  Values = {v1, v2}
  Carried = {"name", "description", "state", "organization_id", "region"}
  CreateAnswers = {"resource", "rows"}
  OrganizationIds = {a1, a2}
  AccountIds = {a1, a2}
  RegionIds <- MCRegionIds
  OrganizationConfigs <- MCOrganizationConfigs
  AccountConfigs <- MCAccountConfigs
  RegionConfigs <- MCRegionConfigs
  MaxChanges = 1
  MaxInvocations = 3
  NotKnown = "not known"
  Profiles = {"default", "staging"}
  Items <- MCItems
  MaxItems = 3
  Capacities <- MCCapacities
  Texts = {"", "default", "staging", "path", "a", "b", "i", "k"}
  ProviderInputs <- MCProviderInputs
  CoverageInputs <- MCCoverageInputs
  Documents <- MCDocuments
  Registries <- MCRegistries
  LintInputs <- MCLintInputs
SPECIFICATION AllSpec
INVARIANTS
  TypeOK
  SuccessIsReal
  CredentialsReal
  NothingLostSilently
  ReadBackFindsIt
  EffectsAccounted
  StableOrder
  RefusedOnlyIfHopeless
  LastAssignmentWins
  PrecedenceHolds
  CoverageAccountsForAll
  
PROPERTIES
  CleanPlanAfterApply
  Converges
CHECK_DEADLOCK FALSE
