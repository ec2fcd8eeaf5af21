--------------------------- MODULE ClusterLifecycle ---------------------------
(***************************************************************************)
(* One cluster resource under Terraform: nc2_aws_cluster over the          *)
(* lifecycle code it shares with the Azure and GCP clusters,               *)
(* clustershared.  Those two differ in their schema (no desired_state, no  *)
(* access_policy) and in one step, ReadCreated.                            *)
(*                                                                         *)
(* A run of Terraform refreshes the resource (Read), plans, and applies    *)
(* the plan with Create, Update, Delete, or Delete and Create.  Each       *)
(* request to NC2 and each wait for its task is a step, and may fail.  A   *)
(* wait gives a verdict as in TaskWait: "unknown" leaves a job at NC2 that *)
(* may still be carried out, however much later.  Between any two steps a  *)
(* cluster may change outside Terraform.  For a while after a creation a   *)
(* read may answer 404 although the cluster is there.                      *)
(*                                                                         *)
(* Terraform core, the plugin framework and NC2 are external.  Of core and *)
(* the framework the model has: computed attributes that the configuration *)
(* leaves out become unknown as soon as anything else differs, unless the  *)
(* schema keeps the state's value; after an error the state is the one     *)
(* before the operation; a value still unknown after an apply is an error, *)
(* is stored as null, and taints a created resource.                       *)
(***************************************************************************)
EXTENDS UpdateRouting, FiniteSets

CONSTANTS
  Attributes,    \* the schema, as far as this instance has it
  Values,        \* what a configured attribute may be
  DefaultValue,  \* the use_case NC2 chooses when none is given
  Clusters,      \* the cluster ids NC2 may hand out
  MaxLate,       \* bound of the jobs left behind at one time
  MaxChanges,    \* bound of the changes made outside Terraform
  ReadsLag       \* whether NC2's reads may lag behind a creation

None == [none |-> TRUE]

Powers == {"running", "hibernated"}

ASSUME LifecycleAssumption ==
  /\ DefaultValue \in Values
  /\ Null # Unknown
  /\ {Null, Unknown} \cap (Values \cup Powers) = {}
  /\ None \notin Clusters
  /\ ReadsLag \in BOOLEAN

VARIABLES
  config,        \* the resource block, or None
  state,         \* the resource in Terraform's state, or None
  plan,          \* the planned attributes; None when the resource is to go
  pc,            \* where the run is
  todo,          \* the update's operations not yet carried out
  job,           \* the job the run waits for, or None
  target,        \* the cluster Create made, until it is in the state
  late,          \* jobs no run waits for any more
  remote,        \* the clusters at NC2
  settling,      \* the clusters a read may not find yet
  lastRun,       \* how the last run ended; "none" once config has changed or
                 \* a cluster was imported
  calm,          \* history: nothing has changed at NC2 behind the run since
                 \* the last refresh
  orphans,       \* history: clusters whose Create reported an error, or that
                 \* a refresh dropped while NC2 had them
  changes,       \* history: changes made outside Terraform
  stable         \* from now on nothing fails and nobody interferes

vars == <<config, state, plan, pc, todo, job, target, late, remote, settling,
          lastRun, calm, orphans, changes, stable>>

\* Optional+Computed; Optional; everything else is Required.
Computed == Attributes \cap {"use_case", "desired_state"}
Optional == Attributes \cap {"use_case", "desired_state", "resource_tags",
                             "access_policy"}

\* The attributes with the RequiresReplace modifier; "name" stands for
\* organization_id, cloud_account_id, name and region.
ForcesReplace == Attributes \cap {"name"}

\* What UpdateModelFromResponse takes from a response.
ReadBack == Attributes \cap {"name", "license", "ssh_key", "use_case"}

ValuesOf(a) == IF a = "desired_state" THEN Powers ELSE Values

Settings == [Attributes -> Values \cup Powers \cup {Null}]

Configs ==
  {c \in Settings :
     \A a \in Attributes :
       c[a] \in ValuesOf(a) \cup (IF a \in Optional THEN {Null} ELSE {})}

Exists(id) == remote[id] # None

Init ==
  /\ config = None
  /\ state = None
  /\ plan = None
  /\ pc = "idle"
  /\ todo = {}
  /\ job = None
  /\ target = None
  /\ late = {}
  /\ remote = [id \in Clusters |-> None]
  /\ settling = {}
  /\ lastRun = "none"
  /\ calm = TRUE
  /\ orphans = {}
  /\ changes = 0
  /\ stable = FALSE

nc2Vars == <<late, remote, settling, orphans, changes, stable>>

-----------------------------------------------------------------------------
(* The model the provider decodes responses into, and Terraform's plan.    *)

\* Seeded fault for Decode: the derived desired_state replaces a planned one.
DecodeOverwrites(attrs, cluster) ==
  [a \in Attributes |-> IF a \in ReadBack \cup {"desired_state"}
                          THEN cluster[a] ELSE attrs[a]]

\* UpdateModelFromResponse, then DeriveDesiredStateIfUnset: a desired_state
\* that is set is left alone.
Decode(attrs, cluster) ==
  [a \in Attributes |->
     IF a \in ReadBack \/ (a = "desired_state" /\ attrs[a] \in {Null, Unknown})
       THEN cluster[a] ELSE attrs[a]]

\* Seeded fault for Imported: ImportState leaves everything unknown.
ImportedUnknown == [a \in Attributes |-> Unknown]

Imported == [a \in Attributes |-> Null]

\* The configuration, with the state's value for what it leaves to NC2.
Proposed(prior) ==
  [a \in Attributes |-> IF config[a] = Null /\ a \in Computed
                          THEN prior[a] ELSE config[a]]

WithUnknowns == [a \in Attributes |-> IF config[a] = Null /\ a \in Computed
                                        THEN Unknown ELSE config[a]]

Nullified(attrs) ==
  [a \in Attributes |-> IF attrs[a] = Unknown THEN Null ELSE attrs[a]]

\* What a plan comes to for the refreshed state st.
PlannedAction(st) ==
  IF st = None THEN IF config = None THEN "nothing" ELSE "create"
  ELSE IF config = None THEN "delete"
  ELSE IF st.tainted \/ \E a \in ForcesReplace : config[a] # st.attrs[a]
    THEN "replace"
  ELSE IF Proposed(st.attrs) = st.attrs THEN "nothing"
  ELSE "update"

\* The body of a create: null attributes are left out.  NC2 starts the cluster
\* running, and chooses a use_case.
Created ==
  [a \in Attributes |->
     CASE a = "desired_state" -> "running"
       [] a = "use_case" /\ plan[a] \in {Null, Unknown} -> DefaultValue
       [] OTHER -> plan[a]]

-----------------------------------------------------------------------------
(* Terraform: the configuration, and the start and the end of a run.       *)

EditConfig ==
  /\ pc = "idle"
  /\ ~stable
  /\ config' \in (Configs \cup {None}) \ {config}
  /\ lastRun' = "none"
  /\ UNCHANGED <<state, plan, pc, todo, job, target, nc2Vars, calm>>

\* Whether a read may find a cluster: one that is gone never, one whose creation
\* is settling perhaps.
Found(id) ==
  IF ~Exists(id) THEN {FALSE} ELSE IF id \in settling THEN BOOLEAN ELSE {TRUE}

\* Seeded fault for Refreshed: Read keeps what the state had.
RefreshedStale(found) == IF found THEN state ELSE None

\* Seeded fault for Refreshed: Read ignores a 404.
RefreshedKeepsMissing(found) ==
  IF found THEN [state EXCEPT !.attrs = Decode(@, remote[state.id])] ELSE state

\* Read: a 404 takes the resource out of the state.
Refreshed(found) ==
  IF found THEN [state EXCEPT !.attrs = Decode(@, remote[state.id])] ELSE None

\* The cluster a refresh drops although NC2 has it.
Dropped(found) ==
  {id \in Clusters : state # None /\ state.id = id /\ ~found /\ Exists(id)}

\* Read, if there is anything to read, and the plan made from it.
StartRun ==
  \E found \in IF state = None THEN {FALSE} ELSE Found(state.id) :
    LET action == PlannedAction(Refreshed(found))
    IN
    /\ pc = "idle"
    /\ state' = Refreshed(found)
    /\ pc' = IF action = "nothing" THEN "idle"
             ELSE IF action = "replace" THEN "delete"
             ELSE action
    /\ plan' = IF action \in {"nothing", "delete"} THEN None ELSE WithUnknowns
    /\ LET routed == RouteUpdate(Diff(state'.attrs, plan'))
       IN todo' = IF action = "update" /\ routed.ok THEN routed.ops ELSE {}
    /\ lastRun' = IF action = "nothing" THEN "ok" ELSE "none"
    /\ calm' = TRUE
    /\ orphans' = orphans \cup Dropped(found)
    /\ UNCHANGED <<config, job, target, late, remote, settling, changes, stable>>

\* Seeded fault for ReadFails: any error is taken for "not found".
ReadFailsForgets ==
  /\ pc = "idle"
  /\ ~stable
  /\ state # None
  /\ lastRun' = "error"
  /\ state' = None
  /\ UNCHANGED <<config, plan, pc, todo, job, target, nc2Vars, calm>>

\* The refresh itself fails: nothing is planned.
ReadFails ==
  /\ pc = "idle"
  /\ ~stable
  /\ state # None
  /\ lastRun' = "error"
  /\ UNCHANGED <<config, state, plan, pc, todo, job, target, nc2Vars, calm>>

\* terraform import: ImportState, then Read.  The read must find the cluster.
Import(id) ==
  /\ pc = "idle"
  /\ ~stable
  /\ state = None
  /\ Exists(id)
  /\ state' = [id |-> id, attrs |-> Decode(Imported, remote[id]),
               tainted |-> FALSE]
  /\ orphans' = orphans \ {id}
  /\ lastRun' = "none"
  /\ calm' = TRUE
  /\ UNCHANGED <<config, plan, pc, todo, job, target, late, remote, settling,
                 changes, stable>>

Finish(how) ==
  /\ pc' = "idle"
  /\ plan' = None
  /\ todo' = {}
  /\ job' = None
  /\ target' = None
  /\ lastRun' = how

\* A job that has not ended is left behind; a cluster it has made is not known
\* to the state.
LeaveJob ==
  /\ late' = late \cup (IF job # None /\ job.status = "running" THEN {job} ELSE {})
  /\ orphans' = IF target # None THEN orphans \cup {target}
                ELSE IF job # None /\ job.op = "create" /\ job.status = "done"
                       THEN orphans \cup {job.id}
                ELSE orphans

\* Every error return of Create, Update and Delete, and a crash: the requests
\* and waits end in it, the state is the one before the operation.
Fail ==
  /\ pc # "idle"
  /\ ~stable
  /\ LeaveJob
  /\ Cardinality(late') <= MaxLate
  /\ Finish("error")
  /\ UNCHANGED <<config, state, remote, settling, calm, changes, stable>>

-----------------------------------------------------------------------------
(* The three operations.  A request NC2 accepts becomes a job.             *)

Request(j, loc) ==
  /\ job' = j
  /\ pc' = loc
  /\ UNCHANGED <<config, state, plan, todo, target, nc2Vars, lastRun, calm>>

Job(op, id, body) == [op |-> op, id |-> id, body |-> body, status |-> "running"]

SendCreate ==
  /\ pc = "create"
  /\ Request(Job("create", None, Created), "create task")

\* The verdict of the wait is an error for a task that failed.
TaskFailed ==
  /\ job # None
  /\ job.status = "failed"
  /\ Finish("error")
  /\ UNCHANGED <<config, state, nc2Vars, calm>>

CreateDone ==
  /\ pc = "create task"
  /\ job.status = "done"
  /\ pc' = "read created"
  /\ target' = job.id
  /\ job' = None
  /\ UNCHANGED <<config, state, plan, todo, nc2Vars, lastRun, calm>>

\* The read after a create.  Its "not found" is ignored: what the plan leaves
\* unknown stays unknown.  (On Azure and GCP the id is then unknown as well.)
ReadCreated ==
  /\ pc = "read created"
  /\ \/ /\ TRUE \in Found(target)
        /\ state' = [id |-> target, attrs |-> Decode(plan, remote[target]),
                     tainted |-> FALSE]
        /\ Finish("ok")
     \/ /\ FALSE \in Found(target)
        /\ state' = [id |-> target, attrs |-> Nullified(plan), tainted |-> TRUE]
        /\ Finish("error")
  /\ UNCHANGED <<config, nc2Vars, calm>>

\* RouteUpdate refused the diff.
UpdateRefused ==
  /\ pc = "update"
  /\ ~RouteUpdate(Diff(state.attrs, plan)).ok
  /\ Finish("error")
  /\ UNCHANGED <<config, state, nc2Vars, calm>>

SendUpdate(op) ==
  /\ pc = "update"
  /\ IsNext(op, todo)
  /\ Exists(state.id)
  /\ Request(Job(op, state.id, IF op \in FieldOps THEN Payload(op, plan) ELSE Null),
             "update task")

UpdateDone ==
  /\ pc = "update task"
  /\ job.status = "done"
  /\ todo' = todo \ {job.op}
  /\ job' = None
  /\ pc' = "update"
  /\ UNCHANGED <<config, state, plan, target, nc2Vars, lastRun, calm>>

\* The read after the last operation stores the plan with what it reads.
ReadUpdated ==
  /\ pc = "update"
  /\ todo = {}
  /\ RouteUpdate(Diff(state.attrs, plan)).ok
  /\ \/ /\ TRUE \in Found(state.id)
        /\ state' = [state EXCEPT !.attrs = Decode(plan, remote[state.id])]
        /\ Finish("ok")
     \/ /\ FALSE \in Found(state.id)
        /\ state' = [state EXCEPT !.attrs = Nullified(plan)]
        /\ Finish("error")
  /\ UNCHANGED <<config, nc2Vars, calm>>

SendTerminate ==
  /\ pc = "delete"
  /\ Exists(state.id)
  /\ Request(Job("terminate", state.id, Null), "delete task")

\* Seeded fault for DeleteDone: the termination's task is not waited for.
DeleteDoneAtOnce ==
  /\ pc = "delete task"
  /\ state' = None
  /\ late' = late \cup (IF job.status = "running" THEN {job} ELSE {})
  /\ IF plan = None
       THEN Finish("ok")
       ELSE /\ pc' = "create"
            /\ job' = None
            /\ UNCHANGED <<plan, todo, target, lastRun>>
  /\ UNCHANGED <<config, remote, settling, orphans, changes, stable, calm>>

\* A replacement goes on to create.
DeleteDone ==
  /\ pc = "delete task"
  /\ job.status = "done"
  /\ state' = None
  /\ IF plan = None
       THEN Finish("ok")
       ELSE /\ pc' = "create"
            /\ job' = None
            /\ UNCHANGED <<plan, todo, target, lastRun>>
  /\ UNCHANGED <<config, nc2Vars, calm>>

\* A request for a cluster that is gone: 404, an error for a termination too.
RequestNotFound ==
  /\ pc \in {"update", "delete"}
  /\ pc = "update" => todo # {}
  /\ ~Exists(state.id)
  /\ Finish("error")
  /\ UNCHANGED <<config, state, nc2Vars, calm>>

Run ==
  \/ StartRun
  \/ SendCreate \/ CreateDone \/ ReadCreated
  \/ UpdateRefused \/ (\E op \in Ops : SendUpdate(op)) \/ UpdateDone \/ ReadUpdated
  \/ SendTerminate \/ DeleteDone
  \/ TaskFailed \/ RequestNotFound

-----------------------------------------------------------------------------
(* NC2.                                                                    *)

\* What a job does to the clusters; a create is given a free id.
Effect(j, id) ==
  CASE j.op = "create" -> j.body
    [] j.op = "terminate" -> None
    [] j.op = "hibernate" -> [remote[id] EXCEPT !["desired_state"] = "hibernated"]
    [] j.op = "resume" -> [remote[id] EXCEPT !["desired_state"] = "running"]
    [] j.op \in FieldOps /\ j.body = Null -> remote[id]
    [] j.op \in FieldOps /\ j.body # Null ->
         [remote[id] EXCEPT ![AttributeOf[j.op]] = j.body]

\* An id NC2 has not handed out, or one nobody refers to any more.
Free(id) ==
  /\ ~Exists(id)
  /\ id # target
  /\ state # None => state.id # id
  /\ \A j \in late : j.id # id

\* The cluster a job works on; a create makes one, any other needs one.
Subject(j, id) == IF j.op = "create" THEN Free(id) ELSE id = j.id /\ Exists(id)

\* What reads make of a job that has just been carried out: a new cluster may
\* take a while to show.
Settling(j, id) ==
  CASE j.op = "create" /\ ReadsLag /\ ~stable -> settling \cup {id}
    [] j.op = "terminate" -> settling \ {id}
    [] OTHER -> settling

CarryOut(id) ==
  /\ job # None
  /\ job.status = "running"
  /\ Subject(job, id)
  /\ remote' = [remote EXCEPT ![id] = Effect(job, id)]
  /\ settling' = Settling(job, id)
  /\ job' = [job EXCEPT !.status = "done", !.id = id]
  /\ UNCHANGED <<config, state, plan, pc, todo, target, late, lastRun, calm,
                 orphans, changes, stable>>

TaskFails ==
  /\ job # None
  /\ job.status = "running"
  /\ stable => job.op # "create" /\ ~Exists(job.id)
  /\ job' = [job EXCEPT !.status = "failed"]
  /\ UNCHANGED <<config, state, plan, pc, todo, target, nc2Vars, lastRun,
                 calm>>

\* A job nobody waits for is carried out after all, or comes to nothing.
CarryOutLate(j, id) ==
  /\ Subject(j, id)
  /\ remote' = [remote EXCEPT ![id] = Effect(j, id)]
  /\ settling' = Settling(j, id)
  /\ late' = late \ {j}
  /\ orphans' = CASE j.op = "create" -> orphans \cup {id}
                  [] j.op = "terminate" -> orphans \ {id}
                  [] OTHER -> orphans
  /\ calm' = FALSE
  /\ UNCHANGED <<config, state, plan, pc, todo, job, target, lastRun, changes,
                 stable>>

DropLate(j) ==
  /\ late' = late \ {j}
  /\ UNCHANGED <<config, state, plan, pc, todo, job, target, remote, settling,
                 lastRun, calm, orphans, changes, stable>>

\* From now on every read finds the cluster.
Settle(id) ==
  /\ id \in settling
  /\ settling' = settling \ {id}
  /\ UNCHANGED <<config, state, plan, pc, todo, job, target, late, remote,
                 lastRun, calm, orphans, changes, stable>>

\* Someone deletes a cluster, or changes one of its settings, outside Terraform.
ChangeOutside(id) ==
  /\ ~stable
  /\ changes < MaxChanges
  /\ Exists(id)
  /\ \/ /\ remote' = [remote EXCEPT ![id] = None]
        /\ settling' = settling \ {id}
        /\ orphans' = orphans \ {id}
     \/ /\ \E a \in Attributes \ ForcesReplace, v \in Values \cup Powers :
             /\ v \in ValuesOf(a) \ {remote[id][a]}
             /\ remote' = [remote EXCEPT ![id][a] = v]
        /\ UNCHANGED <<settling, orphans>>
  /\ changes' = changes + 1
  /\ calm' = FALSE
  /\ UNCHANGED <<config, state, plan, pc, todo, job, target, late, lastRun,
                 stable>>

\* Failures and interference end, with an id left for a create, and reads are
\* up to date.
Stabilize ==
  /\ ~stable
  /\ late = {}
  /\ settling = {}
  /\ \E id \in Clusters : Free(id)
  /\ stable' = TRUE
  /\ UNCHANGED <<config, state, plan, pc, todo, job, target, late, remote,
                 settling, lastRun, calm, orphans, changes>>

NC2 ==
  \/ \E id \in Clusters : CarryOut(id)
  \/ TaskFails
  \/ \E j \in late : DropLate(j) \/ \E id \in Clusters : CarryOutLate(j, id)

Next ==
  \/ Run \/ NC2
  \/ EditConfig \/ ReadFails \/ Fail
  \/ \E id \in Clusters : Import(id) \/ ChangeOutside(id) \/ Settle(id)
  \/ Stabilize

Spec == Init /\ [][Next]_vars

\* A run goes on, NC2 ends its tasks, and the user runs Terraform again.
FairSpec == Spec /\ WF_vars(Run) /\ WF_vars(NC2)

-----------------------------------------------------------------------------

Planned == [Attributes -> Values \cup Powers \cup {Null, Unknown}]
Resources == [id : Clusters, attrs : Settings, tainted : BOOLEAN]
Jobs == [op : Ops \cup {"create", "terminate"}, id : Clusters \cup {None},
         body : Settings \cup Values \cup {Null}, status : {"running", "done", "failed"}]

\* The types of the run's variables and of the clusters at NC2.
TypeOK ==
  /\ config = None \/ config \in Configs
  /\ state = None \/ state \in Resources
  /\ plan = None \/ plan \in Planned
  /\ pc \in {"idle", "create", "create task", "read created", "update",
             "update task", "delete", "delete task"}
  /\ todo \subseteq Ops
  /\ job = None \/ job \in Jobs
  /\ target \in Clusters \cup {None}
  /\ \A j \in late : j \in Jobs
  /\ \A id \in Clusters : Exists(id) => remote[id] \in Settings
  /\ settling \subseteq Clusters
  /\ lastRun \in {"none", "ok", "error"}
  /\ calm \in BOOLEAN
  /\ orphans \subseteq Clusters
  /\ changes \in Nat
  /\ stable \in BOOLEAN

\* A run that reports success leaves the cluster as configured, in every
\* attribute the provider reads back, after any history of failed runs, lost
\* tasks and outside changes.
SuccessIsReal ==
  pc = "idle" /\ lastRun = "ok" /\ calm /\ config # None =>
    /\ state # None /\ Exists(state.id)
    /\ \A a \in ReadBack : config[a] # Null => remote[state.id][a] = config[a]

\* spec.md:226 (FR-018), a plan right after an apply has no changes, once reads
\* show what was created.
CleanPlanAfterApply ==
  [][pc = "idle" /\ lastRun = "ok" /\ calm /\ (state = None \/ state.id \notin settling)
       => pc' = "idle"]_vars

\* A cluster leaves the state only when NC2 no longer has it, or at a refresh
\* whose read the creation has not reached yet: no termination that failed or
\* whose outcome is unknown, no refused update and no 404 to one of the run's
\* requests takes it out.
KeptWhileSeen ==
  [][state # None /\ (state' = None \/ state'.id # state.id) =>
       ~Exists(state.id) \/ (pc = "idle" /\ state.id \in settling)]_vars

\* Every cluster at NC2 is the one in the state, one a run is at work on, or
\* was left by a Create that reported an error or by a refresh that NC2 answered
\* with 404: no success and no update or replacement loses one.
NothingLostSilently ==
  \A id \in Clusters :
    Exists(id) =>
      \/ state # None /\ state.id = id
      \/ id \in orphans \cup {target}
      \/ job # None /\ job.op = "create" /\ job.id = id

\* docs/guides/async-and-tasks.md:84, a flip of desired_state is never combined
\* with another change in one run, so no field operation is pending when a
\* hibernate or resume is sent, nor issued after it.
FlipsAreAlone ==
  todo \cap {"hibernate", "resume"} # {} => Cardinality(todo) = 1

\* No desired_state is configured: a flip can be refused time and again.
NoFlipAsked ==
  config = None \/ "desired_state" \notin Attributes \/ config["desired_state"] = Null

\* Once NC2 answers and nobody interferes, running Terraform again reaches a
\* run that succeeds, whatever failed halfway before.
Converges == (stable /\ NoFlipAsked) ~> (pc = "idle" /\ lastRun = "ok")

-----------------------------------------------------------------------------
(* What a doc, a schema description or a test says and the code does not.  *)

\* tests/acceptance/nc2_cluster_hibernate_resume_test.go:10 and spec.md:105: a
\* change of desired_state alone is accepted and routed.
LoneFlipIsAccepted ==
  pc = "update" /\ (\A a \in Attributes \ {"desired_state"} :
                      config[a] \in {Null, state.attrs[a]}) =>
    RouteUpdate(Diff(state.attrs, plan)).ok

\* docs/guides/async-and-tasks.md:78, a 404 on Read after a Create removes the
\* resource from the state "once the resource is genuinely gone (FR-009)".
ForgottenOnlyWhenGone ==
  [][state # None /\ (state' = None \/ state'.id # state.id) => ~Exists(state.id)]_vars

=============================================================================
