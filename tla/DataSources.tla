---------------------------- MODULE DataSources -----------------------------
(***************************************************************************)
(* The data sources: one GET each (internal/datasources).  A source lists  *)
(* the items of its parent, sorted by id, or shows one object.  Of a field *)
(* the model has the kind of its JSON value, which is what the conversions *)
(* tell apart.                                                             *)
(***************************************************************************)
EXTENDS Naturals, FiniteSets, Sequences, SequencesExt

\* A list of the items under the arguments given, and the attributes of a row,
\* strings but where a definition says otherwise.
ListOf(under, attributes) ==
  [form |-> "list", under |-> under, texts |-> attributes, flags |-> {}, printed |-> {}]

\* One object, and whether an answer without it is an error.
One(attributes, strict) ==
  [form |-> "one", strict |-> strict, texts |-> attributes, flags |-> {}, printed |-> {}]

InRegion == {"cloud_account_id", "region_id"}

AvailabilityZones == ListOf(InRegion, {"id", "name", "state"})

CloudAccount == One({"organization_id", "cloud_provider", "name", "description", "state",
                     "created_at", "updated_at"}, TRUE)

CloudAccountRegions == ListOf({"cloud_account_id"}, {"id", "region", "state"})

CloudAccounts ==
  ListOf({"organization_id"}, {"id", "name", "cloud_provider", "state", "created_at"})

ClusterAttributes == {"id", "name", "organization_id", "cloud_account_id", "cloud_provider",
                      "region", "state", "created_at"}

Cluster == One(ClusterAttributes, FALSE)

ClusterCloudResources == ListOf({"cluster_id"}, {"id", "type", "name"})

Clusters == ListOf({}, ClusterAttributes)

Notifications == [ListOf({}, {"id", "severity", "message", "created_at"})
                    EXCEPT !.flags = {"acknowledged"}]

Organization == One({"name", "description", "state", "created_at", "updated_at"}, TRUE)

OrganizationAuditTrail ==
  ListOf({"organization_id"}, {"id", "actor", "action", "target", "created_at"})

Organizations == ListOf({}, {"id", "name", "description", "state", "created_at"})

PrismCentrals == ListOf(InRegion, {"id", "name", "version", "state"})

RemoteStorageProfiles == [ListOf(InRegion, {"id", "name"}) EXCEPT !.printed = {"capacity"}]

SshKeys == ListOf(InRegion, {"id", "name"})

Task == One({"id", "status", "cluster_id", "created_at", "ended_at", "error_code",
             "error_message"}, FALSE)

Tasks == ListOf({}, {"id", "status", "cluster_id", "created_at", "ended_at"})

Vnets == ListOf(InRegion, {"id", "name", "cidr"})

Vpcs == ListOf(InRegion, {"id", "name", "cidr"})

Sources ==
  {AvailabilityZones, CloudAccount, CloudAccountRegions, CloudAccounts, Cluster,
   ClusterCloudResources, Clusters, Notifications, Organization, OrganizationAuditTrail,
   Organizations, PrismCentrals, RemoteStorageProfiles, SshKeys, Task, Tasks, Vnets, Vpcs}

-----------------------------------------------------------------------------
(* An item is [object |-> FALSE], or has an id (0 is none), says whether   *)
(* it is under the arguments given, and has the kind of its other fields.  *)

Item ==
  [object : {FALSE}]
    \cup [object : {TRUE}, id : Nat, under : BOOLEAN,
          rest : {"string", "number", "bool", "other"}]

StringOrEmpty(kind) == IF kind = "string" THEN "string" ELSE "empty"

Row(source, item) ==
  [a \in source.texts \cup source.flags \cup source.printed |->
     CASE a = "id" -> item.id
       [] a \in source.flags -> IF item.rest = "bool" THEN "bool" ELSE "false"
       [] a \in source.printed -> item.rest
       [] OTHER -> StringOrEmpty(item.rest)]

\* ExtractList: what is not an object is skipped.
ExtractList(items) ==
  FoldLeft(LAMBDA out, item : IF item.object THEN Append(out, item) ELSE out, <<>>, items)

\* Seeded fault for SortByID: the order of the answer.
AsAnswered(items) == {items}

\* SortByID, in any order that sort.Slice may leave equal ids in.
SortByID(items) ==
  LET size == Len(items)
      orders == {p \in [1..size -> 1..size] : \A i, j \in 1..size : i # j => p[i] # p[j]}
  IN {[i \in 1..size |-> items[p[i]]] : p \in
        {p \in orders : \A i \in 1..(size - 1) : items[p[i]].id <= items[p[i + 1]].id}}

Failed == [ok |-> FALSE, rows |-> <<>>]

\* The answers NC2 may give: the items under the arguments in any order.
Answers(source, items) ==
  SetToSeqs({i \in items : i.object /\ source.under # {} => i.under})

\* Read, of a list.
ReadList(source, answer) ==
  {[ok |-> TRUE, rows |-> [i \in DOMAIN sorted |-> Row(source, sorted[i])]] :
     sorted \in SortByID(ExtractList(answer))}

\* Read, of one object: cluster and task keep what they had when it is missing.
ReadOne(source, item) ==
  IF item.object THEN [ok |-> TRUE, rows |-> <<Row(source, item)>>]
  ELSE IF source.strict THEN Failed
  ELSE [ok |-> TRUE, rows |-> <<>>]

\* What a data source may show, over the orders NC2 may answer in.
Shown(source, items) ==
  {Failed} \cup
    (IF source.form = "one" THEN {ReadOne(source, item) : item \in items}
     ELSE UNION {ReadList(source, answer) : answer \in Answers(source, items)})

\* spec.md:208 (FR-015): what a list shows are the objects under its arguments,
\* in an order that depends on nothing but them when their ids differ.
ListedInOrder(source, items, shown) ==
  LET listed == {i \in items : i.object /\ (source.under # {} => i.under)}
      distinct == \A i, j \in listed : i # j => i.id # j.id
  IN source.form = "list" /\ shown.ok /\ distinct =>
       /\ Len(shown.rows) = Cardinality(listed)
       /\ \A i \in listed :
            shown.rows[Cardinality({j \in listed : j.id <= i.id})] = Row(source, i)

=============================================================================
