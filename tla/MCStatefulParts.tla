-------------------------- MODULE MCStatefulParts ---------------------------
(* The instance of StatefulParts that TLC checks. *)
EXTENDS StatefulParts

CONSTANTS a1, a2, v1, v2

MCRegionIds == {v1, v2} \X {v1, v2}

MCOrganizationConfigs ==
  {[name |-> v1, description |-> Null], [name |-> v1, description |-> v2],
   [name |-> v2, description |-> v2]}

AccountBlock(organization, description, credentials) ==
  [organization_id |-> organization, name |-> v1, description |-> description,
   credentials |-> credentials]

MCAccountConfigs ==
  {AccountBlock(v1, Null, v1), AccountBlock(v1, v2, v2), AccountBlock(v1, v2, v1),
   AccountBlock(v2, v2, v1)}

MCRegionConfigs == [{"cloud_account_id", "region"} -> {v1, v2}]

=============================================================================
