---------------------------- MODULE TerraformRun ----------------------------
(***************************************************************************)
(* Terraform core around one resource whose operations are single requests *)
(* (an organization, a cloud account, a region of a cloud account), and    *)
(* the NC2 objects behind it.  Core, the plugin framework and NC2 are      *)
(* external.  Of core the model has: a refresh and a plan start a run;     *)
(* computed attributes are unknown in the plan as soon as anything differs;*)
(* after an error return the state is the one before the operation; a      *)
(* value that is unknown after an apply, or other than planned, is an      *)
(* error, and taints a created resource.                                   *)
(*                                                                         *)
(* The modules of the resources extend this one with their operations.     *)
(***************************************************************************)
EXTENDS Naturals, FiniteSets

CONSTANTS
  Null,          \* an attribute that is not set, or a field not in a body
  Unknown,       \* a planned value that is only known after the apply
  Values,        \* what a configured attribute may be
  Ids,           \* the ids NC2 may give to objects of the kind
  Configs,       \* the resource blocks there may be
  Carried,       \* the attributes an answer of NC2 has
  TaskId,        \* the id of the task, where a create answers with its task
  CreateAnswers, \* what a create answers with: "resource", "rows", "task"
  MaxChanges     \* bound of the changes made outside Terraform

VARIABLES
  config,        \* the resource block, or None
  state,         \* the resource in Terraform's state, or None
  plan,          \* the planned attributes; None when the resource is to go
  pc,            \* where the run is
  remote,        \* the objects at NC2
  lastRun,       \* how the last run ended; "none" once config has changed
  calm,          \* history: nothing has changed behind the run since the refresh
  stray,         \* history: objects whose create reported an error, or that
                 \* were let go with a warning
  changes,       \* history: changes made outside Terraform
  stable         \* from now on nothing fails and nobody interferes

vars == <<config, state, plan, pc, remote, lastRun, calm, stray, changes, stable>>

None == [none |-> TRUE]

Exists(id) == id \in Ids /\ remote[id] # None

\* An id for a new object.
Free(id) == ~Exists(id) /\ (state # None => state.id # id)

Init ==
  /\ config = None
  /\ state = None
  /\ plan = None
  /\ pc = "idle"
  /\ remote = [id \in Ids |-> None]
  /\ lastRun = "none"
  /\ calm = TRUE
  /\ stray = {}
  /\ changes = 0
  /\ stable = FALSE

nc2Vars == <<remote, stray, changes, stable>>

\* A JSON object: the fields of attrs that are there.
Fields(attrs, names) ==
  [a \in {b \in names \cap DOMAIN attrs : attrs[b] \notin {Null, Unknown}} |-> attrs[a]]

\* A model with the fields an answer has.
Decoded(model, answer) ==
  [a \in DOMAIN model |-> IF a \in DOMAIN answer THEN answer[a] ELSE model[a]]

\* The attributes outside the configuration are computed.
Proposed(attributes) ==
  [a \in attributes |-> IF a \in DOMAIN config THEN config[a] ELSE Unknown]

PlannedAction(refreshed, forcesReplace) ==
  IF refreshed = None THEN IF config = None THEN "nothing" ELSE "create"
  ELSE IF config = None THEN "delete"
  ELSE IF \/ refreshed.tainted
          \/ \E a \in forcesReplace : config[a] # refreshed.attrs[a]
    THEN "replace"
  ELSE IF \A a \in DOMAIN config : config[a] = refreshed.attrs[a] THEN "nothing"
  ELSE "update"

EditConfig ==
  /\ pc = "idle"
  /\ ~stable
  /\ config' \in (Configs \cup {None}) \ {config}
  /\ lastRun' = "none"
  /\ UNCHANGED <<state, plan, pc, nc2Vars, calm>>

\* A run: the resource is refreshed and planned.
StartRun(refreshed, attributes, forcesReplace) ==
  LET action == PlannedAction(refreshed, forcesReplace)
  IN
  /\ pc = "idle"
  /\ state' = refreshed
  /\ pc' = CASE action = "nothing" -> "idle"
             [] action = "replace" -> "delete"
             [] OTHER -> action
  /\ plan' = IF action \in {"nothing", "delete"} THEN None ELSE Proposed(attributes)
  /\ lastRun' = IF action = "nothing" THEN "ok" ELSE "none"
  /\ calm' = TRUE
  /\ UNCHANGED <<config, nc2Vars>>

\* terraform import, which must find the object.
Import(id, attrs) ==
  /\ pc = "idle"
  /\ ~stable
  /\ state = None
  /\ Exists(id)
  /\ state' = [id |-> id, attrs |-> attrs, tainted |-> FALSE]
  /\ stray' = stray \ {id}
  /\ lastRun' = "none"
  /\ calm' = TRUE
  /\ UNCHANGED <<config, plan, pc, remote, changes, stable>>

Finish(how) ==
  /\ pc' = "idle"
  /\ plan' = None
  /\ lastRun' = how

\* What an operation returns is stored, and is an error when it is not wholly
\* known or not as planned.
Settle(id, attrs) ==
  LET ok == \A a \in DOMAIN attrs : attrs[a] # Unknown /\ plan[a] \in {Unknown, attrs[a]}
  IN /\ state' = [id |-> id,
                  attrs |-> [a \in DOMAIN attrs |->
                               IF attrs[a] = Unknown THEN Null ELSE attrs[a]],
                  tainted |-> pc = "create" /\ ~ok]
     /\ Finish(IF ok THEN "ok" ELSE "error")

\* NC2 creates an object and answers with its own or another id.  The answer
\* may be lost.
Created(id, object, answerId, attrs) ==
  /\ remote' = [remote EXCEPT ![id] = object]
  /\ \/ Settle(answerId, attrs)
     \/ ~stable /\ Finish("error") /\ UNCHANGED state
  /\ stray' = IF state' # None /\ state'.id = id THEN stray \ {id}
              ELSE IF lastRun' = "error" THEN stray \cup {id}
              ELSE stray
  /\ UNCHANGED <<config, calm, changes, stable>>

\* The object of the state is out of it; a replacement goes on.
Dropped ==
  /\ state' = None
  /\ IF plan = None THEN Finish("ok") ELSE pc' = "create" /\ UNCHANGED <<plan, lastRun>>

\* A refresh or an operation ends in an error before its next request, or with
\* a request that NC2 did not carry out.
Fail ==
  /\ ~stable
  /\ pc = "idle" => state # None
  /\ Finish("error")
  /\ UNCHANGED <<config, state, nc2Vars, calm>>

\* A request for an object that is gone: 404.
NotFound ==
  /\ pc \notin {"idle", "create", "delete"}
  /\ ~Exists(state.id)
  /\ Finish("error")
  /\ UNCHANGED <<config, state, nc2Vars, calm>>

\* Someone deletes an object or changes its settings outside Terraform.
ChangeOutside(id, settings) ==
  /\ ~stable
  /\ changes < MaxChanges
  /\ Exists(id)
  /\ remote' \in {[remote EXCEPT ![id] = s] : s \in (settings \cup {None}) \ {remote[id]}}
  /\ stray' = IF remote'[id] = None THEN stray \ {id} ELSE stray
  /\ changes' = changes + 1
  /\ calm' = FALSE
  /\ UNCHANGED <<config, state, plan, pc, lastRun, stable>>

\* Failures and interference end.
Stabilize ==
  /\ ~stable
  /\ stable' = TRUE
  /\ UNCHANGED <<config, state, plan, pc, remote, lastRun, calm, stray, changes>>

-----------------------------------------------------------------------------

\* The types of what every resource has; Attributes are the kind's own.
TypeOK(attributes) ==
  LET settings == [attributes -> Values \cup {Null, Unknown, "active"}]
  IN
  /\ state = None \/ state \in [id : Ids \cup {TaskId}, attrs : settings, tainted : BOOLEAN]
  /\ plan = None \/ plan \in settings
  /\ pc \in {"idle", "create", "update", "patch", "refresh", "delete"}
  /\ \A id \in Ids : Exists(id) => remote[id] \in settings
  /\ lastRun \in {"none", "ok", "error"}
  /\ stray \subseteq Ids
  /\ changes \in 0..MaxChanges

\* A run that reports success leaves the object as configured, but for the
\* credentials, whatever failed or was lost before.
SuccessIsReal ==
  pc = "idle" /\ lastRun = "ok" /\ calm /\ config # None =>
    /\ state # None /\ Exists(state.id)
    /\ \A a \in DOMAIN config \ {"credentials"} : remote[state.id][a] = config[a]

\* spec.md:226 (FR-018), a plan right after an apply has no changes.
CleanPlanStep == pc = "idle" /\ lastRun = "ok" /\ calm => pc' = "idle"

\* Every object at NC2 is the one in the state, or on its way out, or a stray:
\* one whose create reported an error, or that a warning said would remain.
NothingLostSilently(leaving) ==
  \A id \in Ids : Exists(id) =>
    id \in stray \cup leaving \/ (state # None /\ state.id = id)

\* spec.md:37, after an apply a read-back of the id in the state finds the
\* object that was created.
ReadBackFindsIt ==
  pc = "idle" /\ calm /\ state # None => Exists(state.id)

\* A description that the configuration no longer has: no request removes it.
DescriptionToRemove ==
  /\ config # None
  /\ "description" \in DOMAIN config
  /\ config["description"] = Null
  /\ state # None
  /\ Exists(state.id)
  /\ remote[state.id]["description"] # Null

\* The last run succeeded.
Done == pc = "idle" /\ lastRun = "ok"

=============================================================================
