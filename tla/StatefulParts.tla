---------------------------- MODULE StatefulParts ----------------------------
(***************************************************************************)
(* The parts of the provider around its clusters that go on: the           *)
(* organization, the cloud account and its region, which are resources     *)
(* under a run of Terraform (TerraformRun), and an action, which is        *)
(* invoked again and again (ActionRunner).  They share nothing; which part *)
(* a behaviour is about is chosen at its start.                            *)
(***************************************************************************)
EXTENDS ActionRunner

CONSTANTS
  Parts,                              \* the parts that are looked at
  Null, Unknown, TaskId,
  Values, Carried, CreateAnswers,
  OrganizationIds, AccountIds, RegionIds,
  OrganizationConfigs, AccountConfigs, RegionConfigs,
  MaxChanges                          \* bound, per behaviour

VARIABLES
  part,                                                       \* fixed
  config, state, plan, pc, remote, lastRun, calm, stray, changes, stable,
  going,                                                      \* organization
  suspect                                                     \* cloud account

resourceVars ==
  <<config, state, plan, pc, remote, lastRun, calm, stray, changes, stable, going, suspect>>
statefulVars == <<part, resourceVars, runnerVars>>

\* Null and unknown are no values, and a task is no object.  A block sets the
\* attributes of its schema that are not computed; the id of a region is the
\* pair of its account and its name.  NC2 never shows credentials.
ASSUME StatefulAssumption ==
  /\ MaxChanges \in Nat
  /\ MaxInvocations \in Nat
  /\ Null # Unknown
  /\ {Null, Unknown} \cap (Values \cup {"active"}) = {}
  /\ TaskId \notin OrganizationIds \cup AccountIds \cup RegionIds
  /\ OrganizationConfigs \subseteq [{"name", "description"} -> Values \cup {Null}]
  /\ AccountConfigs \subseteq
       [{"organization_id", "name", "description", "credentials"} -> Values \cup {Null}]
  /\ RegionIds \subseteq Values \X Values
  /\ RegionConfigs \subseteq [{"cloud_account_id", "region"} -> Values]
  /\ \A c \in RegionConfigs : <<c["cloud_account_id"], c["region"]>> \in RegionIds
  /\ "credentials" \notin Carried

Org == INSTANCE Organization WITH Ids <- OrganizationIds, Configs <- OrganizationConfigs
Account == INSTANCE CloudAccount WITH Ids <- AccountIds, Configs <- AccountConfigs
Region == INSTANCE CloudAccountRegion WITH Ids <- RegionIds, Configs <- RegionConfigs

-----------------------------------------------------------------------------

Init ==
  /\ part \in Parts
  /\ IF part = "cloud_account" THEN Account!AccountInit /\ going = {}
     ELSE IF part = "cloud_account_region" THEN Region!Init /\ going = {} /\ suspect = {}
     ELSE Org!OrgInit /\ suspect = {}
  /\ RunnerInit
  /\ part # "actions" => op = AcknowledgeNotification

ResourceRun ==
  /\ \/ part = "organization" /\ Org!Run /\ UNCHANGED suspect
     \/ part = "cloud_account" /\ Account!Run /\ UNCHANGED going
     \/ part = "cloud_account_region" /\ Region!Run /\ UNCHANGED <<going, suspect>>
  /\ UNCHANGED <<part, runnerVars>>

Terminations ==
  /\ part = "organization"
  /\ Org!NC2
  /\ UNCHANGED <<part, suspect, runnerVars>>

Interference ==
  /\ \/ part = "organization" /\ Org!Interference /\ UNCHANGED suspect
     \/ part = "cloud_account" /\ Account!Interference /\ UNCHANGED going
     \/ part = "cloud_account_region" /\ Region!Interference /\ UNCHANGED <<going, suspect>>
  /\ UNCHANGED <<part, runnerVars>>

Action ==
  /\ part = "actions"
  /\ RunnerNext
  /\ UNCHANGED <<part, resourceVars>>

Next == ResourceRun \/ Terminations \/ Interference \/ Action

\* Terraform goes on with a run, and NC2 with what it has accepted.
Fairness == WF_statefulVars(ResourceRun) /\ WF_statefulVars(Terminations)

Spec == Init /\ [][Next]_statefulVars /\ Fairness

-----------------------------------------------------------------------------

\* The types of the part that a behaviour is about.
TypeOK ==
  /\ part = "organization" => Org!TypeOK(Org!Attributes) /\ going \subseteq OrganizationIds
  /\ part = "cloud_account" =>
       Account!TypeOK(Account!Attributes) /\ suspect \subseteq AccountIds
  /\ part = "cloud_account_region" => Region!TypeOK(Region!Attributes)
  /\ part = "actions" =>
       /\ Wait!TypeOK
       /\ at \in {"idle", "waiting"}
       /\ successes + failures + doubts <= MaxInvocations
       /\ late + level <= MaxInvocations

\* A run that reports success leaves the resource as configured (TerraformRun).
SuccessIsReal ==
  /\ part = "organization" => Org!SuccessIsReal
  /\ part = "cloud_account" => Account!SuccessIsReal
  /\ part = "cloud_account_region" => Region!SuccessIsReal

\* After a successful run NC2 has the configured credentials (CloudAccount).
CredentialsReal == part = "cloud_account" => Account!CredentialsReal

\* No object is left at NC2 without an error or a warning (TerraformRun).
NothingLostSilently ==
  /\ part = "organization" => Org!NothingLostSilently(going)
  /\ part = "cloud_account" => Account!NothingLostSilently({})
  /\ part = "cloud_account_region" => Region!NothingLostSilently({})

\* spec.md:37, a read of the id in the state finds the object (TerraformRun).
ReadBackFindsIt ==
  /\ part = "organization" => Org!ReadBackFindsIt
  /\ part = "cloud_account" => Account!ReadBackFindsIt
  /\ part = "cloud_account_region" => Region!ReadBackFindsIt

\* spec.md:226 (FR-018), a plan after an apply has no changes (TerraformRun).
CleanPlanAfterApply == [][Org!CleanPlanStep]_statefulVars

\* Once nothing fails and nobody interferes, the runs of a resource come to
\* succeed, but for a description that was removed from the configuration: no
\* request removes it at NC2 (buildBody leaves it out).
Converges ==
  /\ stable
  /\ part = "organization" => ~Org!DescriptionToRemove
  /\ part = "cloud_account" => ~Account!DescriptionToRemove
  ~> Org!Done

=============================================================================
