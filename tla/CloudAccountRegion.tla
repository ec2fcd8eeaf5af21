------------------------- MODULE CloudAccountRegion -------------------------
(***************************************************************************)
(* The nc2_cloud_account_region resource.  The id of a region is the pair  *)
(* of its account and its name, the account being needed to list it.  Its  *)
(* create takes the row the answer has first; its read looks the id up in  *)
(* the list of the account; nothing disables a region.                     *)
(***************************************************************************)
EXTENDS TerraformRun

Attributes == {"cloud_account_id", "region", "state"}
ForcesReplace == {"cloud_account_id", "region"}

\* The row of a region, as the list has it.
Row(id) == [cloud_account_id |-> id[1], region |-> id[2], state |-> "active"]

\* Seeded fault for Decode: the region's name is taken from the plan.
DecodeKeepsRegion(model, row) == Decoded(model, Fields(row, {"state"}))

\* decodeInto, of the row that an answer has first.
Decode(model, row) == Decoded(model, Fields(row, Carried \cap {"region", "state"}))

\* findRegionByID, in the list of the account of the state.
FindRegionByID ==
  {remote[id] : id \in {i \in Ids : /\ Exists(i)
                                   /\ i[1] = state.attrs["cloud_account_id"]
                                   /\ i = state.id}}

\* Read: a region that is not in the list is removed.
Refreshed ==
  IF state = None \/ FindRegionByID = {} THEN None
  ELSE [state EXCEPT !.attrs = Decode(@, CHOOSE row \in FindRegionByID : TRUE)]

Start == StartRun(Refreshed, Attributes, ForcesReplace)

\* The regions an answer to a create may have first.
FirstRows(id, answer) ==
  IF answer = "rows" THEN {i \in Ids : i[1] = id[1] /\ (Exists(i) \/ i = id)} ELSE {id}

\* A region that is already enabled is answered with.
Create ==
  /\ pc = "create"
  /\ \E answer \in IF stable THEN CreateAnswers \ {"rows"} ELSE CreateAnswers :
       LET id == <<plan["cloud_account_id"], plan["region"]>>
       IN IF answer = "task" THEN Created(id, Row(id), TaskId, plan)
          ELSE \E first \in FirstRows(id, answer) :
                 Created(id, Row(id), first, Decode(plan, Row(first)))

\* Delete sends nothing: the region remains enabled, and a warning says so.
Delete ==
  /\ pc = "delete"
  /\ Dropped
  /\ stray' = stray \cup {id \in {state.id} : Exists(id)}
  /\ UNCHANGED <<config, remote, calm, changes, stable>>

\* ImportState of "<account>/<region>", and the Read after it.
ImportState(id) ==
  Import(id, Decode([Row(id) EXCEPT !["region"] = Null, !["state"] = Null], Row(id)))

Run == Start \/ Create \/ Delete

Interference ==
  \/ EditConfig \/ Fail \/ Stabilize
  \/ \E id \in Ids : ImportState(id) \/ ChangeOutside(id, {})

Next == Run \/ Interference

=============================================================================
