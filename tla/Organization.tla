---------------------------- MODULE Organization ----------------------------
(***************************************************************************)
(* The nc2_organization resource: created, changed and terminated with one *)
(* request each.  NC2 carries a termination out some time after it has     *)
(* accepted it, and nobody waits for it.                                   *)
(***************************************************************************)
EXTENDS TerraformRun

VARIABLE going   \* organizations NC2 is terminating

\* id, created_at and updated_at follow the object; state stands for them.
Attributes == {"name", "description", "state"}

OrgInit == Init /\ going = {}

\* buildBody: what is null or unknown is left out.
Body(model) == Fields(model, {"name", "description"})

\* A new organization at NC2.
NewObject == [a \in Attributes |-> IF a = "state" THEN "active" ELSE Null]

\* Seeded fault for Decode: the model starts empty.
DecodeIntoEmpty(model, object) == Fields(object, Carried)

\* Seeded fault for Decode: the state of the organization is not taken.
DecodeWithoutState(model, object) == Decoded(model, Fields(object, Carried \ {"state"}))

\* decodeInto, of NC2's answer.
Decode(model, object) == Decoded(model, Fields(object, Carried))

\* Read; a 404 removes the resource.
Refreshed ==
  IF state = None \/ ~Exists(state.id) THEN None
  ELSE [state EXCEPT !.attrs = Decode(@, remote[state.id])]

Start == StartRun(Refreshed, Attributes, {}) /\ UNCHANGED going

Create ==
  /\ pc = "create"
  /\ \E id \in Ids :
       LET object == Decoded(NewObject, Body(plan))
       IN Free(id) /\ Created(id, object, id, Decode(plan, object))
  /\ UNCHANGED going

\* Seeded fault for Update: the description is taken from the plan.
UpdateKeepsDescription ==
  /\ pc = "update"
  /\ Exists(state.id)
  /\ remote' = [remote EXCEPT ![state.id] = Decoded(@, Body(plan))]
  /\ \/ Settle(state.id,
               [Decode(plan, remote'[state.id]) EXCEPT !["description"] = plan["description"]])
     \/ ~stable /\ Finish("error") /\ UNCHANGED state
  /\ UNCHANGED <<config, calm, stray, changes, stable, going>>

Update ==
  /\ pc = "update"
  /\ Exists(state.id)
  /\ remote' = [remote EXCEPT ![state.id] = Decoded(@, Body(plan))]
  /\ \/ Settle(state.id, Decode(plan, remote'[state.id]))
     \/ ~stable /\ Finish("error") /\ UNCHANGED state  \* the answer is lost
  /\ UNCHANGED <<config, calm, stray, changes, stable, going>>

\* Seeded fault for Delete: every error is taken for "not found".
DeleteIgnoresErrors ==
  /\ pc = "delete"
  /\ \/ going' = IF Exists(state.id) THEN going \cup {state.id} ELSE going
     \/ ~stable /\ UNCHANGED going
  /\ Dropped
  /\ UNCHANGED <<config, nc2Vars, calm>>

\* Terminate; "not found" is success.
Delete ==
  /\ pc = "delete"
  /\ going' = IF Exists(state.id) THEN going \cup {state.id} ELSE going
  /\ \/ Dropped
     \/ ~stable /\ Finish("error") /\ UNCHANGED state  \* the answer is lost
  /\ UNCHANGED <<config, nc2Vars, calm>>

\* ImportState, and the Read after it.
ImportState(id) ==
  /\ Import(id, Decode([a \in Attributes |-> Null], remote[id]))
  /\ UNCHANGED going

\* NC2 carries a termination out.
Terminated(id) ==
  /\ id \in going
  /\ going' = going \ {id}
  /\ remote' = [remote EXCEPT ![id] = None]
  /\ stray' = stray \ {id}
  /\ calm' = (calm /\ ~(state # None /\ state.id = id))
  /\ UNCHANGED <<config, state, plan, pc, lastRun, changes, stable>>

Run == Start \/ Create \/ Update \/ Delete \/ (NotFound /\ UNCHANGED going)

NC2 == \E id \in Ids : Terminated(id)

Interference ==
  \/ \E id \in Ids :
       \/ ImportState(id)
       \/ /\ ChangeOutside(id, {[remote[id] EXCEPT !["name"] = v] : v \in Values})
          /\ going' = IF remote'[id] = None THEN going \ {id} ELSE going
  \/ EditConfig /\ UNCHANGED going
  \/ Fail /\ UNCHANGED going
  \/ going = {} /\ (\E id \in Ids : Free(id)) /\ Stabilize /\ UNCHANGED going

Next == Run \/ NC2 \/ Interference

=============================================================================
