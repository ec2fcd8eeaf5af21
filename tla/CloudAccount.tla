---------------------------- MODULE CloudAccount ----------------------------
(***************************************************************************)
(* The nc2_cloud_account resource.  An update is up to three requests: the *)
(* credentials, the other attributes, and a read.  NC2 never shows the     *)
(* credentials, and has no request that deletes an account.                *)
(***************************************************************************)
EXTENDS TerraformRun

VARIABLE suspect   \* history: accounts that may have other credentials than
                   \* the ones in the state

\* organization_id stands for cloud_provider too.
Settable == {"name", "description", "credentials"}
Attributes == Settable \cup {"organization_id", "state"}
ForcesReplace == {"organization_id"}

AccountInit == Init /\ suspect = {}

\* buildCreateBody: the credentials are put beside the other fields.
CreateBody(model) == Fields(model, Settable)

\* A new account at NC2, in the organization the path names.
NewObject(organization) ==
  [a \in Attributes |-> CASE a = "state" -> "active"
                          [] a = "organization_id" -> organization
                          [] OTHER -> Null]

\* decodeInto, of NC2's answer; Null credentials are an empty map.
Decode(model, object) == Decoded(model, Fields(object, Carried))

\* Seeded fault for MapsEqual: only the keys are compared.
MapsEqualByKeys(a, b) == (a = Null) = (b = Null)

\* mapsEqual; Null is the empty map.
MapsEqual(a, b) == a = b

\* Seeded fault for Refreshed: a 404 keeps what the state has.
RefreshedKeeps ==
  IF state = None \/ ~Exists(state.id) THEN state
  ELSE [state EXCEPT !.attrs = Decode(@, remote[state.id])]

\* Read; a 404 removes the resource.
Refreshed ==
  IF state = None \/ ~Exists(state.id) THEN None
  ELSE [state EXCEPT !.attrs = Decode(@, remote[state.id])]

Start == StartRun(Refreshed, Attributes, ForcesReplace) /\ UNCHANGED suspect

Create ==
  /\ pc = "create"
  /\ \E id \in Ids, answer \in CreateAnswers \ {"rows"} :
       LET object == Decoded(NewObject(plan["organization_id"]), CreateBody(plan))
       IN
       /\ Free(id)
       /\ IF answer = "task" THEN Created(id, object, TaskId, plan)
          ELSE Created(id, object, id, Decode(plan, object))
       /\ suspect' = suspect \ {id}

\* Update, the credentials: POST update-credentials when they differ.
Rotate ==
  /\ pc = "update"
  /\ IF MapsEqual(state.attrs["credentials"], plan["credentials"])
       THEN pc' = "patch" /\ UNCHANGED <<remote, suspect, plan, lastRun>>
       ELSE /\ Exists(state.id)
            /\ remote' = [remote EXCEPT ![state.id]["credentials"] = plan["credentials"]]
            /\ suspect' = suspect \cup {state.id}
            /\ \/ pc' = "patch" /\ UNCHANGED <<plan, lastRun>>
               \/ ~stable /\ Finish("error")  \* the answer is lost
  /\ UNCHANGED <<config, state, calm, stray, changes, stable>>

\* Update, name and description: PATCH when one differs.
Patch ==
  /\ pc = "patch"
  /\ IF \A a \in {"name", "description"} : plan[a] = state.attrs[a]
       THEN pc' = "refresh" /\ UNCHANGED <<remote, plan, lastRun>>
       ELSE /\ Exists(state.id)
            /\ remote' = [remote EXCEPT ![state.id] =
                            Decoded(@, Fields(plan, {"name", "description"}))]
            /\ \/ pc' = "refresh" /\ UNCHANGED <<plan, lastRun>>
               \/ ~stable /\ Finish("error")  \* the answer is lost
  /\ UNCHANGED <<config, state, calm, stray, changes, stable, suspect>>

\* Update, the read that ends it.
ReadBack ==
  /\ pc = "refresh"
  /\ Exists(state.id)
  /\ suspect' = IF ~calm \/ MapsEqual(state.attrs["credentials"], plan["credentials"])
                  THEN suspect ELSE suspect \ {state.id}
  /\ Settle(state.id, Decode(plan, remote[state.id]))
  /\ UNCHANGED <<config, nc2Vars, calm>>

\* Delete sends nothing: the account remains, and a warning says so.
Delete ==
  /\ pc = "delete"
  /\ Dropped
  /\ stray' = stray \cup {id \in {state.id} : Exists(id)}
  /\ UNCHANGED <<config, remote, calm, changes, stable, suspect>>

\* ImportState, and the Read after it.
ImportState(id) ==
  /\ Import(id, Decode([a \in Attributes |-> Null], remote[id]))
  /\ suspect' = suspect \cup {id}

\* What someone may set outside Terraform.
Outside(object) ==
  {[object EXCEPT !["name"] = v] : v \in Values}
    \cup {[object EXCEPT !["credentials"] = v] : v \in Values}

Run ==
  \/ Start \/ Create \/ Rotate \/ Patch \/ ReadBack \/ Delete
  \/ NotFound /\ UNCHANGED suspect

Interference ==
  \/ \E id \in Ids :
       \/ ImportState(id)
       \/ /\ ChangeOutside(id, Outside(remote[id]))
          /\ suspect' = IF remote'[id] = None THEN suspect \ {id}
                        ELSE IF remote'[id]["credentials"] = remote[id]["credentials"]
                          THEN suspect
                        ELSE suspect \cup {id}
  \/ EditConfig /\ UNCHANGED suspect
  \/ Fail /\ UNCHANGED suspect
  \/ (\E id \in Ids : Free(id)) /\ Stabilize /\ UNCHANGED suspect

Next == Run \/ Interference

\* spec.md:38 (acceptance 4): after a successful run NC2 has the credentials of
\* the configuration, unless ones that the state cannot know of were set: by a
\* rotation whose run failed, by someone else, or before an import.
CredentialsReal ==
  pc = "idle" /\ lastRun = "ok" /\ calm /\ config # None /\ state # None =>
    \/ state.id \in suspect
    \/ remote[state.id]["credentials"] = config["credentials"]

=============================================================================
