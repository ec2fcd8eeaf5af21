------------------------- MODULE ClusterOutcomeProofs -------------------------
(***************************************************************************)
(* Proofs about what a run of ClusterLifecycle comes to, for every schema, *)
(* every set of values and clusters and every bound: the variables keep    *)
(* their types, no cluster at NC2 is lost without an error, a run that     *)
(* reports success has made the cluster what the configuration says, and   *)
(* the plan after it is empty.                                             *)
(*                                                                         *)
(* First the operators a plan and an update are built from, then the parts *)
(* of the inductive invariant, one at a time.                              *)
(***************************************************************************)
EXTENDS ClusterLifecycleProofs

-----------------------------------------------------------------------------
(* Operations, attributes, plans.                                          *)

\* Each field operation sets one attribute, another than desired_state, and
\* every attribute that is read back but the name has its operation.
LEMMA FieldAttributes ==
  /\ \A op \in FieldOps : AttributeOf[op] # "desired_state"
  /\ \A op, other \in FieldOps : AttributeOf[op] = AttributeOf[other] => op = other
  /\ \A a \in ReadBack : a = "name" \/ \E op \in FieldOps : AttributeOf[op] = a
  /\ ReadBack \subseteq Attributes \ {"desired_state"}
<1>1. /\ AttributeOf["update_license"] = "license"
      /\ AttributeOf["update_ssh_key"] = "ssh_key"
      /\ AttributeOf["update_capacity"] = "capacity"
      /\ AttributeOf["update_resource_tags"] = "resource_tags"
      /\ AttributeOf["update_access_policy"] = "access_policy"
      /\ AttributeOf["generic_patch"] = "use_case"
  BY DEF AttributeOf
<1>2. QED BY <1>1 DEF FieldOps, ReadBack

\* What RouteUpdate makes of a difference that it accepts: operations on
\* attributes of the schema, among them one for every attribute that differs.
LEMMA RoutedOps ==
  ASSUME NEW old, NEW new, RouteUpdate(Diff(old, new)).ok
  PROVE  /\ RouteUpdate(Diff(old, new)).ops \subseteq Ops
         /\ \A op \in RouteUpdate(Diff(old, new)).ops \cap FieldOps :
              AttributeOf[op] \in DOMAIN new
         /\ \A op \in FieldOps :
              AttributeOf[op] \in DOMAIN new /\ new[AttributeOf[op]] # old[AttributeOf[op]]
                => op \in RouteUpdate(Diff(old, new)).ops
<1> DEFINE d == Diff(old, new)
           flip == MapDesiredStateTransition(d.from, d.to)
<1>1. d.fields = {o \in FieldOps : /\ AttributeOf[o] \in DOMAIN new
                                   /\ new[AttributeOf[o]] # old[AttributeOf[o]]}
  BY DEF Diff
<1>2. CASE ~HasDesiredStateChange(d)
  <2>1. RouteUpdate(d).ops = d.fields
    BY <1>2 DEF RouteUpdate, Routed
  <2>2. QED BY <1>1, <2>1 DEF Ops
<1>3. CASE HasDesiredStateChange(d)
  <2>1. d.fields = {} /\ flip # "error"
    BY <1>3 DEF RouteUpdate, Refused, HasFieldChanges
  <2>2. RouteUpdate(d).ops = {flip} \ {"noop"}
    BY <1>3, <2>1 DEF RouteUpdate, Routed, HasFieldChanges
  <2>3. flip \in {"noop", "hibernate", "resume", "error"}
    BY DEF MapDesiredStateTransition
  <2>4. {flip} \ {"noop"} \subseteq {"hibernate", "resume"}
    BY <2>1, <2>3
  <2>5. FieldOps \cap {"hibernate", "resume"} = {}
    BY DEF FieldOps
  <2>6. QED BY <1>1, <2>1, <2>2, <2>4, <2>5 DEF Ops
<1>4. QED BY <1>2, <1>3

\* What a configuration says of an attribute.
LEMMA ConfigFacts ==
  ASSUME NEW c \in Configs
  PROVE  /\ c \in Settings
         /\ \A a \in Attributes :
              /\ c[a] # Unknown
              /\ a # "desired_state" => c[a] \in Values \cup {Null}
              /\ a = "desired_state" => c[a] \in Powers \cup {Null}
              /\ a \notin Optional => c[a] # Null
BY LifecycleAssumption DEF Configs, Settings, ValuesOf

\* A plan is the configuration, but for the computed attributes it leaves out.
LEMMA PlanFacts ==
  ASSUME config \in Configs
  PROVE  /\ WithUnknowns \in Planned
         /\ DOMAIN WithUnknowns = Attributes
         /\ \A a \in Attributes :
              /\ config[a] # Null \/ a \notin Computed => WithUnknowns[a] = config[a]
              /\ config[a] = Null /\ a \in Computed => WithUnknowns[a] = Unknown
BY ConfigFacts DEF WithUnknowns, Planned, Settings

\* A plan to have the resource is one.
LEMMA PlanIsSome ==
  ASSUME config \in Configs, config # None
  PROVE  WithUnknowns # None
<1> SUFFICES ASSUME WithUnknowns = None PROVE FALSE
  OBVIOUS
<1>1. DOMAIN None = {"none"}
  BY DEF None
<1>2. Attributes = {"none"}
  BY <1>1, PlanFacts
<1>3. \A a \in Attributes : WithUnknowns[a] = config[a]
  BY <1>2, PlanFacts DEF Computed
<1>4. config = [a \in Attributes |-> config[a]]
  BY ConfigFacts DEF Settings
<1>5. WithUnknowns = [a \in Attributes |-> WithUnknowns[a]]
  BY DEF WithUnknowns
<1>6. QED BY <1>3, <1>4, <1>5

\* The body of a create is a cluster with the configured settings.
LEMMA CreatedFacts ==
  ASSUME config \in Configs, plan = WithUnknowns
  PROVE  /\ Created \in Settings
         /\ \A a \in ReadBack : config[a] # Null => Created[a] = config[a]
<1>1. \A a \in Attributes : a \notin Computed => plan[a] \in Values \cup {Null}
  BY PlanFacts, ConfigFacts DEF Computed
<1>2. "use_case" \in Attributes /\ plan["use_case"] \notin {Null, Unknown} =>
        plan["use_case"] \in Values
  BY PlanFacts, ConfigFacts DEF Computed
<1>3. \A a \in Attributes :
        /\ a = "desired_state" => Created[a] = "running"
        /\ a = "use_case" =>
             Created[a] = IF plan[a] \in {Null, Unknown} THEN DefaultValue ELSE plan[a]
        /\ a \notin Computed => Created[a] = plan[a]
  BY DEF Created, Computed
<1>4. \A a \in Attributes : Created[a] \in Values \cup Powers \cup {Null}
  BY <1>1, <1>2, <1>3, LifecycleAssumption DEF Computed, Powers
<1>5. Created \in Settings
  BY <1>4 DEF Created, Settings
<1>6. ASSUME NEW a \in ReadBack, config[a] # Null
      PROVE  Created[a] = config[a]
  <2>1. plan[a] = config[a] /\ plan[a] \notin {Null, Unknown}
    BY <1>6, PlanFacts, ConfigFacts DEF ReadBack
  <2>2. QED BY <1>3, <1>6, <2>1 DEF ReadBack, Computed
<1>7. QED BY <1>5, <1>6

\* Reading a cluster leaves nothing unknown.
LEMMA DecodePlan ==
  ASSUME config \in Configs, plan = WithUnknowns, NEW cluster \in Settings
  PROVE  Decode(plan, cluster) \in Settings
<1>1. ASSUME NEW a \in Attributes
      PROVE  Decode(plan, cluster)[a] \in Values \cup Powers \cup {Null}
  <2>1. CASE a \in ReadBack \/ (a = "desired_state" /\ plan[a] \in {Null, Unknown})
    BY <2>1 DEF Decode, Settings
  <2>2. CASE ~(a \in ReadBack \/ (a = "desired_state" /\ plan[a] \in {Null, Unknown}))
    <3>1. Decode(plan, cluster)[a] = plan[a]
      BY <2>2 DEF Decode
    <3>2. plan[a] = config[a]
      BY <2>2, PlanFacts DEF ReadBack, Computed
    <3>3. QED BY <3>1, <3>2, ConfigFacts DEF Settings
  <2>3. QED BY <2>1, <2>2
<1>2. QED BY <1>1 DEF Decode, Settings

LEMMA DecodeSettings ==
  ASSUME NEW attrs \in Settings, NEW cluster \in Settings
  PROVE  Decode(attrs, cluster) \in Settings
BY DEF Decode, Settings

LEMMA NullifiedPlan ==
  ASSUME NEW attrs \in Planned
  PROVE  Nullified(attrs) \in Settings
BY DEF Nullified, Planned, Settings

\* What an update's operation carries: the configured value, if there is one.
LEMMA PayloadFacts ==
  ASSUME config \in Configs, plan = WithUnknowns,
         NEW op \in FieldOps, AttributeOf[op] \in Attributes
  PROVE  /\ Payload(op, plan) \in Values \cup {Null}
         /\ config[AttributeOf[op]] # Null => Payload(op, plan) = config[AttributeOf[op]]
<1> DEFINE a == AttributeOf[op]
<1>1. a # "desired_state"
  BY FieldAttributes
<1>2. config[a] \in Values \cup {Null} /\ config[a] # Unknown
  BY <1>1, ConfigFacts
<1>3. plan[a] = config[a] \/ plan[a] = Unknown
  BY PlanFacts
<1>4. config[a] # Null => plan[a] = config[a]
  BY PlanFacts
<1>5. QED BY <1>2, <1>3, <1>4 DEF Payload

-----------------------------------------------------------------------------
(* The inductive invariant.                                                *)

Statuses == {"running", "done", "failed"}
Acting == {"create", "create task", "read created", "update", "update task"}

\* A run carries out the plan made from the configuration, which does not change
\* under it; a plan that ends with the deletion is there because the
\* configuration has the resource no more.
PlanInv ==
  /\ pc \in {"idle", "delete", "delete task"} \cup Acting
  /\ config = None \/ config \in Configs
  /\ pc \in Acting => config \in Configs \ {None} /\ plan = WithUnknowns
  /\ pc \in {"delete", "delete task"} =>
       \/ plan = None /\ config = None
       \/ plan = WithUnknowns /\ plan # None /\ config \in Configs \ {None}
  /\ pc = "idle" => plan = None

\* Operations are left to do only in an update.
TodoInv ==
  /\ todo \subseteq Ops
  /\ \A op \in todo \cap FieldOps : AttributeOf[op] \in Attributes
  /\ pc \notin {"update", "update task"} => todo = {}

\* The job a run waits for is the one it has asked for; a create has its cluster
\* when it is done and not before, and holds it until it is in the state.  (The
\* job of a deletion is in KeepInv.)
JobInv ==
  /\ pc \notin {"create task", "update task", "delete task"} => job = None
  /\ pc = "create task" =>
       \E st \in Statuses, i \in Clusters \cup {None} :
         /\ job = [op |-> "create", id |-> i, body |-> Created, status |-> st]
         /\ i # None <=> st = "done"
  /\ pc = "update task" =>
       \E op \in todo, st \in Statuses :
         job = [op |-> op, id |-> state.id,
                body |-> IF op \in FieldOps THEN Payload(op, plan) ELSE Null,
                status |-> st]
  /\ target \in Clusters \cup {None}
  /\ target # None <=> pc = "read created"

\* A job makes a cluster with settings, or gives one a value.
GoodJob(j) ==
  /\ j \in Jobs
  /\ j.op = "create" => j.body \in Settings
  /\ j.op \in FieldOps => j.body \in Values \cup {Null}

\* The state, the clusters and the jobs left behind, and the rest.
StoreInv ==
  /\ state = None \/ state \in Resources
  /\ \A id \in Clusters : Exists(id) => remote[id] \in Settings
  /\ settling \subseteq Clusters
  /\ \A j \in late : GoodJob(j)
  /\ lastRun \in {"none", "ok", "error"}
  /\ calm \in BOOLEAN
  /\ orphans \subseteq Clusters
  /\ changes \in Nat
  /\ stable \in BOOLEAN

TypeInv == KeepInv /\ PlanInv /\ TodoInv /\ JobInv /\ StoreInv

LEMMA NoneNotRecord ==
  ASSUME NEW o, NEW i, NEW b, NEW st
  PROVE  [op |-> o, id |-> i, body |-> b, status |-> st] # None
<1>1. "op" \in DOMAIN [op |-> o, id |-> i, body |-> b, status |-> st] OBVIOUS
<1>2. "op" \notin DOMAIN None BY DEF None
<1>3. QED BY <1>1, <1>2

\* The job a run waits for is like those that are left behind.
LEMMA JobIsGood ==
  ASSUME TypeInv, job # None
  PROVE  GoodJob(job)
<1>1. CASE pc = "create task"
  <2>1. PICK st \in Statuses, i \in Clusters \cup {None} :
          job = [op |-> "create", id |-> i, body |-> Created, status |-> st]
    BY <1>1 DEF TypeInv, JobInv
  <2>2. Created \in Settings
    BY <1>1, CreatedFacts DEF TypeInv, PlanInv, Acting
  <2>3. "create" \notin FieldOps
    BY DEF FieldOps
  <2>4. QED BY <2>1, <2>2, <2>3 DEF GoodJob, Jobs, Statuses
<1>2. CASE pc = "update task"
  <2>1. PICK op \in todo, st \in Statuses :
          job = [op |-> op, id |-> state.id,
                 body |-> IF op \in FieldOps THEN Payload(op, plan) ELSE Null,
                 status |-> st]
    BY <1>2 DEF TypeInv, JobInv
  <2>2. op \in Ops /\ (op \in FieldOps => AttributeOf[op] \in Attributes)
    BY DEF TypeInv, TodoInv
  <2>3. op \in FieldOps => Payload(op, plan) \in Values \cup {Null}
    BY <1>2, <2>2, PayloadFacts DEF TypeInv, PlanInv, Acting
  <2>4. state.id \in Clusters
    BY <1>2 DEF TypeInv, KeepInv, Holding, StoreInv, Resources
  <2>5. op # "create"
    BY <2>2 DEF Ops, FieldOps
  <2>6. job \in Jobs
    BY <2>1, <2>2, <2>3, <2>4 DEF Jobs, Statuses
  <2>7. job.op = op /\ (op \in FieldOps => job.body = Payload(op, plan))
    BY <2>1
  <2>8. QED BY <2>3, <2>5, <2>6, <2>7 DEF GoodJob
<1>3. CASE pc = "delete task"
  <2>1. PICK st \in {"running", "done", "failed"} :
          job = [op |-> "terminate", id |-> state.id, body |-> Null, status |-> st]
    BY <1>3 DEF TypeInv, KeepInv
  <2>2. state.id \in Clusters
    BY <1>3 DEF TypeInv, KeepInv, Holding, StoreInv, Resources
  <2>3. "terminate" \notin FieldOps \cup {"create"}
    BY DEF FieldOps
  <2>4. QED BY <2>1, <2>2, <2>3 DEF GoodJob, Jobs
<1>4. QED BY <1>1, <1>2, <1>3 DEF TypeInv, JobInv

\* The invariant has every type.
LEMMA TypesInvariant == TypeInv => TypeOK
<1> SUFFICES ASSUME TypeInv PROVE TypeOK
  OBVIOUS
<1>1. plan = None \/ plan \in Planned
  BY PlanFacts DEF TypeInv, PlanInv
<1>2. job = None \/ job \in Jobs
  BY JobIsGood DEF GoodJob
<1>3. QED
  BY <1>1, <1>2
  DEF TypeInv, PlanInv, TodoInv, JobInv, StoreInv, GoodJob, TypeOK, Acting

-----------------------------------------------------------------------------
(* The steps and the types.                                                *)

\* While the configuration stays, so does what is planned from it, and while the
\* plan stays, the body of a create.
LEMMA SamePlan ==
  /\ config' = config => WithUnknowns' = WithUnknowns
  /\ plan' = plan => Created' = Created
BY DEF WithUnknowns, Created

\* A run that is over.
LEMMA EndKeeps ==
  ASSUME TypeInv, NEW how, Finish(how), config' = config
  PROVE  PlanInv' /\ TodoInv' /\ JobInv'
<1>1. pc' = "idle" /\ plan' = None /\ todo' = {} /\ job' = None /\ target' = None
  BY DEF Finish
<1>2. PlanInv'
  BY <1>1 DEF TypeInv, PlanInv, Acting
<1>3. TodoInv'
  BY <1>1 DEF TodoInv
<1>4. JobInv'
  BY <1>1 DEF JobInv
<1>5. QED BY <1>2, <1>3, <1>4

\* The steps that end a run.
Ends ==
  \/ ReadCreated \/ UpdateRefused \/ ReadUpdated
  \/ TaskFailed \/ RequestNotFound \/ Fail
  \/ (DeleteDone /\ plan = None)

LEMMA EndsFinish ==
  ASSUME Ends
  PROVE  config' = config /\ (Finish("ok") \/ Finish("error"))
BY DEF Ends, ReadCreated, UpdateRefused, ReadUpdated, TaskFailed, RequestNotFound,
   Fail, DeleteDone

\* The steps beside the run: they leave the run where it is.
Beside ==
  \/ NC2 \/ ReadFails \/ Stabilize \/ UNCHANGED vars
  \/ \E id \in Clusters : Import(id) \/ ChangeOutside(id) \/ Settle(id)

LEMMA BesideStays ==
  ASSUME Beside
  PROVE  /\ config' = config /\ plan' = plan /\ pc' = pc /\ todo' = todo
         /\ target' = target
<1>1. CASE NC2
  BY <1>1 DEF NC2, CarryOut, TaskFails, DropLate, CarryOutLate, nc2Vars
<1>2. CASE ReadFails \/ Stabilize \/ UNCHANGED vars
  BY <1>2 DEF ReadFails, Stabilize, vars
<1>3. CASE \E id \in Clusters : Import(id) \/ ChangeOutside(id) \/ Settle(id)
  BY <1>3 DEF Import, ChangeOutside, Settle
<1>4. QED BY <1>1, <1>2, <1>3 DEF Beside

\* The ways a run goes on.
Moves ==
  \/ SendCreate \/ CreateDone \/ (\E op \in Ops : SendUpdate(op)) \/ UpdateDone
  \/ SendTerminate \/ (DeleteDone /\ plan # None)

LEMMA StepCases ==
  ASSUME [Next]_vars
  PROVE  StartRun \/ EditConfig \/ Ends \/ Beside \/ Moves
BY DEF Next, Run, Ends, Beside, Moves

\* What a refresh makes of a resource that it finds.
Reread == [state EXCEPT !.attrs = Decode(state.attrs, remote[state.id])]

\* What a run starts with: nothing, or the resource as it was found; one that was
\* not found although it is there is settling, and is noted.
LEMMA StartFacts ==
  ASSUME TypeInv, StartRun
  PROVE  /\ config' = config /\ pc = "idle" /\ job' = job /\ target' = target
         /\ remote' = remote /\ late' = late /\ settling' = settling
         /\ changes' = changes /\ stable' = stable /\ calm' = TRUE
         /\ lastRun' \in {"ok", "none"}
         /\ lastRun' = "ok" => pc' = "idle"
         /\ state' = None \/ (state # None /\ Exists(state.id) /\ state' = Reread)
         /\ state # None /\ Exists(state.id) /\ state' = None => state.id \in settling
         /\ \A id \in Clusters :
              state # None /\ state.id = id /\ Exists(id) /\ state' = None =>
                id \in orphans'
         /\ orphans \subseteq orphans' /\ orphans' \subseteq orphans \cup Clusters
         /\ lastRun' = "ok" => PlannedAction(state') = "nothing"
         /\ PlannedAction(state') = "nothing" => pc' = "idle"
         /\ pc' = "update" => PlannedAction(state') = "update"
         /\ \/ pc' = "idle" /\ plan' = None /\ todo' = {}
            \/ pc' = "create" /\ config # None /\ plan' = WithUnknowns /\ todo' = {}
            \/ pc' = "delete" /\ config = None /\ plan' = None /\ todo' = {}
            \/ pc' = "delete" /\ config # None /\ plan' = WithUnknowns /\ todo' = {}
            \/ /\ pc' = "update" /\ config # None /\ plan' = WithUnknowns
               /\ state' # None
               /\ \A a \in ForcesReplace : config[a] = state'.attrs[a]
               /\ todo' = IF RouteUpdate(Diff(state'.attrs, plan')).ok
                            THEN RouteUpdate(Diff(state'.attrs, plan')).ops ELSE {}
<1>1. PICK found \in (IF state = None THEN {FALSE} ELSE Found(state.id)) :
        LET action == PlannedAction(state')
        IN
        /\ pc = "idle"
        /\ state' = Refreshed(found)
        /\ pc' = IF action = "nothing" THEN "idle"
                 ELSE IF action = "replace" THEN "delete"
                 ELSE action
        /\ plan' = IF action \in {"nothing", "delete"} THEN None ELSE WithUnknowns
        /\ LET routed == RouteUpdate(Diff(state'.attrs, plan'))
           IN todo' = IF action = "update" /\ routed.ok THEN routed.ops ELSE {}
        /\ lastRun' = IF action = "nothing" THEN "ok" ELSE "none"
        /\ calm' = TRUE
        /\ orphans' = orphans \cup Dropped(found)
        /\ UNCHANGED <<config, job, target, late, remote, settling, changes, stable>>
  BY DEF StartRun
<1>0. state # None => Reread # None
  BY OtherAttributes DEF TypeInv, Reread
<1>2. /\ state' = None \/ (state # None /\ Exists(state.id) /\ state' = Reread)
      /\ state # None /\ Exists(state.id) /\ state' = None =>
           found = FALSE /\ state.id \in settling
  BY <1>0, <1>1 DEF Found, Refreshed, Reread
<1>3. PlannedAction(state') \in {"nothing", "create", "delete", "replace", "update"}
  BY DEF PlannedAction
<1>4. /\ PlannedAction(state') \in {"create", "replace", "update"} => config # None
      /\ PlannedAction(state') = "delete" => config = None
      /\ PlannedAction(state') = "update" =>
           /\ state' # None
           /\ \A a \in ForcesReplace : config[a] = state'.attrs[a]
  BY DEF PlannedAction
<1>5. QED BY <1>1, <1>2, <1>3, <1>4 DEF Dropped

\* The plan goes with the place of the run.
LEMMA PlanStep ==
  ASSUME TypeInv, [Next]_vars
  PROVE  PlanInv'
<1>1. CASE StartRun
  <2>1. config # None => WithUnknowns # None
    BY PlanIsSome DEF TypeInv, PlanInv
  <2>2. QED BY <1>1, <2>1, StartFacts, SamePlan DEF TypeInv, PlanInv, Acting
<1>2. CASE EditConfig
  BY <1>2 DEF EditConfig, TypeInv, PlanInv, Acting
<1>3. CASE Ends
  BY <1>3, EndsFinish, EndKeeps
<1>4. CASE Beside
  BY <1>4, BesideStays, SamePlan DEF TypeInv, PlanInv
<1>5. CASE Moves
  <2>1. config' = config /\ plan' = plan
    BY <1>5 DEF Moves, SendCreate, CreateDone, SendUpdate, UpdateDone, SendTerminate,
       DeleteDone, Request
  <2>2. \/ pc \in Acting /\ pc' \in Acting
        \/ pc = "delete" /\ pc' = "delete task"
        \/ pc = "delete task" /\ pc' = "create" /\ plan # None
    BY <1>5 DEF Moves, SendCreate, CreateDone, SendUpdate, UpdateDone, SendTerminate,
       DeleteDone, Request, Acting
  <2>3. QED BY <2>1, <2>2, SamePlan DEF TypeInv, PlanInv, Acting
<1>6. QED BY <1>1, <1>2, <1>3, <1>4, <1>5, StepCases

\* Operations come from RouteUpdate and are taken one by one.
LEMMA TodoStep ==
  ASSUME TypeInv, [Next]_vars
  PROVE  TodoInv'
<1>1. CASE StartRun
  <2>1. CASE pc' = "update"
    <3>1. config \in Configs /\ plan' = WithUnknowns
      BY <1>1, <2>1, StartFacts DEF TypeInv, PlanInv
    <3>2. DOMAIN plan' = Attributes
      BY <3>1, PlanFacts
    <3>3. todo' = IF RouteUpdate(Diff(state'.attrs, plan')).ok
                    THEN RouteUpdate(Diff(state'.attrs, plan')).ops ELSE {}
      BY <1>1, <2>1, StartFacts
    <3>4. QED BY <2>1, <3>2, <3>3, RoutedOps DEF TodoInv
  <2>2. CASE pc' # "update"
    BY <1>1, <2>2, StartFacts DEF TodoInv
  <2>3. QED BY <2>1, <2>2
<1>2. CASE EditConfig
  BY <1>2 DEF EditConfig, TypeInv, TodoInv
<1>3. CASE Ends
  BY <1>3, EndsFinish, EndKeeps
<1>4. CASE Beside
  BY <1>4, BesideStays DEF TypeInv, TodoInv
<1>5. CASE Moves
  <2>1. todo' \subseteq todo
    BY <1>5 DEF Moves, SendCreate, CreateDone, SendUpdate, UpdateDone, SendTerminate,
       DeleteDone, Request
  <2>2. pc' \in {"update", "update task"} \/ (todo' = todo /\ pc \notin {"update", "update task"})
    BY <1>5 DEF Moves, SendCreate, CreateDone, SendUpdate, UpdateDone, SendTerminate,
       DeleteDone, Request
  <2>3. QED BY <2>1, <2>2 DEF TypeInv, TodoInv
<1>6. QED BY <1>1, <1>2, <1>3, <1>4, <1>5, StepCases

\* What NC2 does to the job of a run.
LEMMA JobProgress ==
  ASSUME TypeInv, (\E id \in Clusters : CarryOut(id)) \/ TaskFails
  PROVE  JobInv'
<1>0. /\ plan' = plan /\ pc' = pc /\ todo' = todo /\ target' = target /\ state' = state
      /\ Created' = Created
  BY SamePlan DEF CarryOut, TaskFails
<1>1. PICK new \in {"done", "failed"}, i \in Clusters \cup {job.id} :
        /\ job # None /\ job.status = "running"
        /\ job' = [job EXCEPT !.status = new, !.id = i]
        /\ new = "done" => i \in Clusters
        /\ job.op # "create" \/ new = "failed" => i = job.id
  <2>1. CASE \E id \in Clusters : CarryOut(id)
    BY <2>1 DEF CarryOut, Subject
  <2>2. CASE TaskFails
    <3>1. job' = [job EXCEPT !.status = "failed"] /\ job # None /\ job.status = "running"
      BY <2>2 DEF TaskFails
    <3>2. GoodJob(job)
      BY <3>1, JobIsGood
    <3>3. [job EXCEPT !.status = "failed"] = [job EXCEPT !.status = "failed", !.id = job.id]
      BY <3>2 DEF GoodJob, Jobs
    <3>4. QED BY <3>1, <3>3
  <2>3. QED BY <2>1, <2>2
<1>2. CASE pc = "create task"
  <2>1. PICK st \in Statuses, k \in Clusters \cup {None} :
          /\ job = [op |-> "create", id |-> k, body |-> Created, status |-> st]
          /\ k # None <=> st = "done"
    BY <1>2 DEF TypeInv, JobInv
  <2>2. st = "running" /\ k = None
    BY <1>1, <2>1
  <2>3. job' = [op |-> "create", id |-> i, body |-> Created, status |-> new]
    BY <1>1, <2>1
  <2>4. i \in Clusters \cup {None} /\ (i # None <=> new = "done")
    BY <1>1, <2>1, <2>2, LifecycleAssumption
  <2>5. \E st1 \in Statuses, i1 \in Clusters \cup {None} :
          /\ job' = [op |-> "create", id |-> i1, body |-> Created', status |-> st1]
          /\ i1 # None <=> st1 = "done"
    BY <1>0, <2>3, <2>4 DEF Statuses
  <2>6. QED BY <1>0, <1>2, <2>5 DEF TypeInv, JobInv
<1>3. CASE pc = "update task"
  <2>1. PICK op \in todo, st \in Statuses :
          job = [op |-> op, id |-> state.id,
                 body |-> IF op \in FieldOps THEN Payload(op, plan) ELSE Null,
                 status |-> st]
    BY <1>3 DEF TypeInv, JobInv
  <2>2. op # "create"
    BY DEF TypeInv, TodoInv, Ops, FieldOps
  <2>3. i = state.id
    BY <1>1, <2>1, <2>2
  <2>4. job' = [op |-> op, id |-> state.id,
                body |-> IF op \in FieldOps THEN Payload(op, plan) ELSE Null,
                status |-> new]
    BY <1>1, <2>1, <2>3
  <2>5. \E op1 \in todo', st1 \in Statuses :
          job' = [op |-> op1, id |-> state'.id,
                  body |-> IF op1 \in FieldOps THEN Payload(op1, plan') ELSE Null,
                  status |-> st1]
    BY <1>0, <2>4 DEF Statuses
  <2>6. QED BY <1>0, <1>3, <2>5 DEF TypeInv, JobInv
<1>4. CASE pc \notin {"create task", "update task"}
  BY <1>0, <1>1, <1>4 DEF TypeInv, JobInv
<1>5. QED BY <1>2, <1>3, <1>4

\* The run's own steps.
LEMMA JobStep ==
  ASSUME TypeInv, [Next]_vars
  PROVE  JobInv'
<1>1. CASE StartRun
  BY <1>1, StartFacts DEF TypeInv, JobInv
<1>2. CASE EditConfig
  BY <1>2 DEF EditConfig, TypeInv, JobInv
<1>3. CASE Ends
  BY <1>3, EndsFinish, EndKeeps
<1>4. CASE Beside
  <2>1. CASE (\E id \in Clusters : CarryOut(id)) \/ TaskFails
    BY <2>1, JobProgress
  <2>2. CASE ~((\E id \in Clusters : CarryOut(id)) \/ TaskFails)
    <3>1. job' = job
      BY <1>4, <2>2 DEF Beside, NC2, DropLate, CarryOutLate, ReadFails, Stabilize, vars,
         Import, ChangeOutside, Settle
    <3>2. pc = "idle" \/ state' = state
      BY <1>4, <2>2 DEF Beside, NC2, DropLate, CarryOutLate, ReadFails, Stabilize, vars,
         Import, ChangeOutside, Settle
    <3>3. QED BY <1>4, <3>1, <3>2, BesideStays, SamePlan DEF TypeInv, JobInv
  <2>3. QED BY <2>1, <2>2
<1>5. CASE Moves
  <2>1. CASE SendCreate
    <3>1. pc' = "create task" /\ job' = Job("create", None, Created) /\ plan' = plan
          /\ pc = "create" /\ target' = target
      BY <2>1 DEF SendCreate, Request
    <3>2. job' = [op |-> "create", id |-> None, body |-> Created', status |-> "running"]
      BY <3>1, SamePlan DEF Job
    <3>3. QED BY <3>1, <3>2 DEF TypeInv, JobInv, Statuses
  <2>2. CASE CreateDone
    <3>1. pc = "create task" /\ job.status = "done" /\ pc' = "read created"
          /\ target' = job.id /\ job' = None
      BY <2>2 DEF CreateDone
    <3>2. PICK st \in Statuses, i \in Clusters \cup {None} :
            /\ job = [op |-> "create", id |-> i, body |-> Created, status |-> st]
            /\ i # None <=> st = "done"
      BY <3>1 DEF TypeInv, JobInv
    <3>3. job.id \in Clusters /\ job.id # None
      BY <3>1, <3>2
    <3>4. QED BY <3>1, <3>3 DEF JobInv
  <2>3. ASSUME NEW op \in Ops, SendUpdate(op)
        PROVE  JobInv'
    <3>1. /\ pc = "update" /\ pc' = "update task" /\ op \in todo /\ todo' = todo
          /\ state' = state /\ plan' = plan /\ target' = target
          /\ job' = Job(op, state.id, IF op \in FieldOps THEN Payload(op, plan) ELSE Null)
      BY <2>3 DEF SendUpdate, Request, IsNext
    <3>2. \E op1 \in todo', st1 \in Statuses :
            job' = [op |-> op1, id |-> state'.id,
                    body |-> IF op1 \in FieldOps THEN Payload(op1, plan') ELSE Null,
                    status |-> st1]
      BY <3>1 DEF Job, Statuses
    <3>3. QED BY <3>1, <3>2 DEF TypeInv, JobInv
  <2>4. CASE UpdateDone
    BY <2>4 DEF UpdateDone, TypeInv, JobInv
  <2>5. CASE SendTerminate
    BY <2>5 DEF SendTerminate, Request, TypeInv, JobInv
  <2>6. CASE DeleteDone /\ plan # None
    BY <2>6 DEF DeleteDone, TypeInv, JobInv
  <2>7. QED BY <1>5, <2>1, <2>2, <2>3, <2>4, <2>5, <2>6 DEF Moves
<1>6. QED BY <1>1, <1>2, <1>3, <1>4, <1>5, StepCases

\* What Read finds, it finds under the same id, and as a resource.
LEMMA RereadFacts ==
  ASSUME TypeInv, state # None, Exists(state.id)
  PROVE  /\ state \in Resources
         /\ remote[state.id] \in Settings
         /\ Reread # None /\ Reread \in Resources
         /\ Reread.id = state.id
         /\ Reread.attrs = Decode(state.attrs, remote[state.id])
         /\ Reread.tainted = state.tainted
<1>1. state \in Resources
  BY DEF TypeInv, StoreInv
<1>2. remote[state.id] \in Settings /\ state.attrs \in Settings
  BY <1>1 DEF TypeInv, StoreInv, Resources
<1>3. Decode(state.attrs, remote[state.id]) \in Settings
  BY <1>2, DecodeSettings
<1>4. Reread # None
  BY OtherAttributes DEF TypeInv, Reread
<1>5. QED BY <1>1, <1>2, <1>3, <1>4 DEF Resources, Reread

\* Every step leaves a resource, or none, in the state.
LEMMA StateTyped ==
  ASSUME TypeInv, [Next]_vars
  PROVE  state' = None \/ state' \in Resources
<1>1. CASE StartRun
  BY <1>1, StartFacts, RereadFacts
<1>2. CASE ReadCreated
  <2>1. config \in Configs /\ plan = WithUnknowns /\ target \in Clusters
    BY <1>2 DEF ReadCreated, TypeInv, PlanInv, JobInv, Acting
  <2>2. TRUE \in Found(target) => Decode(plan, remote[target]) \in Settings
    BY <2>1, DecodePlan DEF TypeInv, StoreInv, Found
  <2>3. Nullified(plan) \in Settings
    BY <2>1, PlanFacts, NullifiedPlan
  <2>4. \E a \in Settings, t \in BOOLEAN :
          state' = [id |-> target, attrs |-> a, tainted |-> t]
    BY <1>2, <2>2, <2>3 DEF ReadCreated
  <2>5. QED BY <2>1, <2>4 DEF Resources
<1>3. CASE ReadUpdated
  <2>1. config \in Configs /\ plan = WithUnknowns
    BY <1>3 DEF ReadUpdated, TypeInv, PlanInv, Acting
  <2>2. state \in Resources
    BY <1>3 DEF ReadUpdated, TypeInv, KeepInv, Holding, StoreInv
  <2>3. TRUE \in Found(state.id) => Decode(plan, remote[state.id]) \in Settings
    BY <2>1, <2>2, DecodePlan DEF TypeInv, StoreInv, Resources, Found
  <2>4. Nullified(plan) \in Settings
    BY <2>1, PlanFacts, NullifiedPlan
  <2>5. \E a \in Settings : state' = [state EXCEPT !.attrs = a]
    BY <1>3, <2>3, <2>4 DEF ReadUpdated
  <2>6. QED BY <2>2, <2>5 DEF Resources
<1>4. CASE \E id \in Clusters : Import(id)
  <2>1. PICK id \in Clusters : Import(id)
    BY <1>4
  <2>2. Imported \in Settings
    BY DEF Imported, Settings
  <2>3. remote[id] \in Settings
    BY <2>1 DEF Import, TypeInv, StoreInv
  <2>4. Decode(Imported, remote[id]) \in Settings
    BY <2>2, <2>3, DecodeSettings
  <2>5. QED BY <2>1, <2>4 DEF Import, Resources
<1>5. CASE DeleteDone
  BY <1>5 DEF DeleteDone
<1>6. CASE ~(\/ StartRun \/ ReadCreated \/ ReadUpdated \/ DeleteDone
             \/ \E id \in Clusters : Import(id))
  <2>1. state' = state
    BY <1>6 DEF Next, Run, NC2, SendCreate, CreateDone, UpdateRefused, SendUpdate, Request,
       UpdateDone, SendTerminate, TaskFailed, RequestNotFound, CarryOut, TaskFails,
       DropLate, CarryOutLate, EditConfig, ReadFails, Fail, ChangeOutside, Settle,
       Stabilize, vars
  <2>2. QED BY <2>1 DEF TypeInv, StoreInv
<1>7. QED BY <1>1, <1>2, <1>3, <1>4, <1>5, <1>6

\* What a job makes of a cluster, operation by operation.
LEMMA EffectCases ==
  ASSUME NEW j, NEW id
  PROVE  /\ j.op = "create" => Effect(j, id) = j.body
         /\ j.op = "terminate" => Effect(j, id) = None
         /\ j.op = "hibernate" =>
              Effect(j, id) = [remote[id] EXCEPT !["desired_state"] = "hibernated"]
         /\ j.op = "resume" =>
              Effect(j, id) = [remote[id] EXCEPT !["desired_state"] = "running"]
         /\ j.op \in FieldOps /\ j.body = Null => Effect(j, id) = remote[id]
         /\ j.op \in FieldOps /\ j.body # Null =>
              Effect(j, id) = [remote[id] EXCEPT ![AttributeOf[j.op]] = j.body]
<1>1. FieldOps \cap {"create", "terminate", "hibernate", "resume"} = {}
  BY DEF FieldOps
<1>2. CASE j.op = "create"
  BY <1>1, <1>2 DEF Effect
<1>3. CASE j.op = "terminate"
  BY <1>1, <1>3 DEF Effect
<1>4. CASE j.op = "hibernate"
  BY <1>1, <1>4 DEF Effect
<1>5. CASE j.op = "resume"
  BY <1>1, <1>5 DEF Effect
<1>6. CASE j.op \in FieldOps
  BY <1>1, <1>6 DEF Effect
<1>7. QED BY <1>1, <1>2, <1>3, <1>4, <1>5, <1>6

LEMMA EffectTyped ==
  ASSUME NEW j, GoodJob(j), NEW id, j.op # "create" => remote[id] \in Settings
  PROVE  Effect(j, id) = None \/ Effect(j, id) \in Settings
<1>1. j.op \in Ops \cup {"create", "terminate"}
  BY DEF GoodJob, Jobs
<1>2. CASE j.op = "create" \/ j.op = "terminate"
  BY <1>2, EffectCases DEF GoodJob
<1>3. CASE j.op = "hibernate" \/ j.op = "resume"
  <2>1. \E v \in Powers : Effect(j, id) = [remote[id] EXCEPT !["desired_state"] = v]
    BY <1>3, EffectCases DEF Powers
  <2>2. QED BY <1>3, <2>1 DEF Settings
<1>4. CASE j.op \in FieldOps
  <2>1. j.op \notin {"create", "terminate", "hibernate", "resume"}
    BY <1>4 DEF FieldOps
  <2>2. j.body \in Values \cup {Null}
    BY <1>4 DEF GoodJob
  <2>3. CASE j.body = Null
    BY <1>4, <2>1, <2>3, EffectCases
  <2>4. CASE j.body # Null
    <3>1. Effect(j, id) = [remote[id] EXCEPT ![AttributeOf[j.op]] = j.body]
      BY <1>4, <2>4, EffectCases
    <3>2. remote[id] \in Settings
      BY <2>1
    <3>3. QED BY <2>2, <3>1, <3>2 DEF Settings
  <2>5. QED BY <2>3, <2>4
<1>5. QED BY <1>1, <1>2, <1>3, <1>4 DEF Ops

\* Every cluster keeps its settings typed.
LEMMA RemoteTyped ==
  ASSUME TypeInv, [Next]_vars
  PROVE  \A id \in Clusters : Exists(id)' => remote'[id] \in Settings
<1>1. CASE remote' = remote
  BY <1>1 DEF TypeInv, StoreInv, Exists
<1>2. ASSUME NEW id \in Clusters, NEW c, remote' = [remote EXCEPT ![id] = c],
             c = None \/ c \in Settings
      PROVE  \A other \in Clusters : Exists(other)' => remote'[other] \in Settings
  BY <1>2 DEF TypeInv, KeepInv, StoreInv, Exists
<1>3. ASSUME NEW id \in Clusters, NEW j, GoodJob(j), Subject(j, id),
             remote' = [remote EXCEPT ![id] = Effect(j, id)]
      PROVE  \A other \in Clusters : Exists(other)' => remote'[other] \in Settings
  <2>1. j.op # "create" => remote[id] \in Settings
    BY <1>3 DEF Subject, TypeInv, StoreInv
  <2>2. Effect(j, id) = None \/ Effect(j, id) \in Settings
    BY <1>3, <2>1, EffectTyped
  <2>3. QED BY <1>2, <1>3, <2>2
<1>4. CASE \E id \in Clusters : CarryOut(id)
  <2>1. PICK id \in Clusters : CarryOut(id)
    BY <1>4
  <2>2. GoodJob(job) /\ Subject(job, id) /\ remote' = [remote EXCEPT ![id] = Effect(job, id)]
    BY <2>1, JobIsGood DEF CarryOut
  <2>3. QED BY <1>3, <2>2
<1>5. CASE \E j \in late : \E id \in Clusters : CarryOutLate(j, id)
  <2>1. PICK j \in late : \E id \in Clusters : CarryOutLate(j, id)
    BY <1>5
  <2>2. PICK id \in Clusters : CarryOutLate(j, id)
    BY <2>1
  <2>3. GoodJob(j) /\ Subject(j, id) /\ remote' = [remote EXCEPT ![id] = Effect(j, id)]
    BY <2>2 DEF CarryOutLate, TypeInv, StoreInv
  <2>4. QED BY <1>3, <2>3
<1>6. CASE \E id \in Clusters : ChangeOutside(id)
  <2>1. PICK id \in Clusters : ChangeOutside(id)
    BY <1>6
  <2>2. remote[id] \in Settings
    BY <2>1 DEF ChangeOutside, TypeInv, StoreInv
  <2>3. CASE remote' = [remote EXCEPT ![id] = None]
    BY <1>2, <2>3
  <2>4. CASE \E a \in Attributes, v \in Values \cup Powers :
               remote' = [remote EXCEPT ![id][a] = v]
    <3>1. PICK a \in Attributes, v \in Values \cup Powers :
            remote' = [remote EXCEPT ![id][a] = v]
      BY <2>4
    <3>2. [remote[id] EXCEPT ![a] = v] \in Settings
      BY <2>2, <3>1 DEF Settings
    <3>3. remote' = [remote EXCEPT ![id] = [remote[id] EXCEPT ![a] = v]]
      BY <3>1 DEF TypeInv, KeepInv
    <3>4. QED BY <1>2, <3>2, <3>3
  <2>5. QED BY <2>1, <2>3, <2>4 DEF ChangeOutside
<1>7. QED
  BY <1>1, <1>4, <1>5, <1>6
  DEF Next, Run, NC2, StartRun, SendCreate, CreateDone, ReadCreated, UpdateRefused,
      SendUpdate, Request, UpdateDone, ReadUpdated, SendTerminate, DeleteDone, TaskFailed,
      RequestNotFound, TaskFails, DropLate, EditConfig, ReadFails, Fail, Import, Settle,
      Stabilize, vars, nc2Vars

\* Only a create's job can be done and have a cluster nobody else knows.
LEMMA DoneCreate ==
  ASSUME TypeInv, job # None, job.op = "create"
  PROVE  /\ pc = "create task"
         /\ job.status = "done" => job.id \in Clusters
         /\ job.status # "done" => job.id = None
<1>1. pc = "create task"
  <2>1. pc \in {"create task", "update task", "delete task"}
    BY DEF TypeInv, JobInv
  <2>2. ASSUME pc = "update task" PROVE FALSE
    <3>1. PICK op \in todo, st \in Statuses :
            job = [op |-> op, id |-> state.id,
                   body |-> IF op \in FieldOps THEN Payload(op, plan) ELSE Null,
                   status |-> st]
      BY <2>2 DEF TypeInv, JobInv
    <3>2. job.op = op /\ op \in Ops
      BY <3>1 DEF TypeInv, TodoInv
    <3>3. QED BY <3>2 DEF Ops, FieldOps
  <2>3. ASSUME pc = "delete task" PROVE FALSE
    <3>1. PICK st \in {"running", "done", "failed"} :
            job = [op |-> "terminate", id |-> state.id, body |-> Null, status |-> st]
      BY <2>3 DEF TypeInv, KeepInv
    <3>2. job.op = "terminate"
      BY <3>1
    <3>3. QED BY <3>2
  <2>4. QED BY <2>1, <2>2, <2>3
<1>2. PICK st \in Statuses, i \in Clusters \cup {None} :
        /\ job = [op |-> "create", id |-> i, body |-> Created, status |-> st]
        /\ i # None <=> st = "done"
  BY <1>1 DEF TypeInv, JobInv
<1>3. QED BY <1>1, <1>2

\* The jobs left behind are jobs of runs.
LEMMA LateTyped ==
  ASSUME TypeInv, [Next]_vars
  PROVE  \A j \in late' : GoodJob(j)
<1>1. \A j \in late : GoodJob(j)
  BY DEF TypeInv, StoreInv
<1>2. CASE Fail
  <2>1. late' = late \cup (IF job # None /\ job.status = "running" THEN {job} ELSE {})
    BY <1>2 DEF Fail, LeaveJob
  <2>2. QED BY <1>1, <2>1, JobIsGood
<1>3. CASE ~Fail
  <2>1. late' \subseteq late
    BY <1>3 DEF Next, Run, NC2, StartRun, SendCreate, CreateDone, ReadCreated, UpdateRefused,
       SendUpdate, Request, UpdateDone, ReadUpdated, SendTerminate, DeleteDone, TaskFailed,
       RequestNotFound, CarryOut, TaskFails, DropLate, CarryOutLate, EditConfig, ReadFails,
       Import, ChangeOutside, Settle, Stabilize, vars, nc2Vars
  <2>2. QED BY <1>1, <2>1
<1>4. QED BY <1>2, <1>3

\* What is left behind is a cluster.
LEMMA OrphansTyped ==
  ASSUME TypeInv, [Next]_vars
  PROVE  orphans' \subseteq Clusters
<1>1. orphans \subseteq Clusters
  BY DEF TypeInv, StoreInv
<1>2. CASE Fail
  <2>1. orphans' = IF target # None THEN orphans \cup {target}
                   ELSE IF job # None /\ job.op = "create" /\ job.status = "done"
                          THEN orphans \cup {job.id}
                   ELSE orphans
    BY <1>2 DEF Fail, LeaveJob
  <2>2. target # None => target \in Clusters
    BY DEF TypeInv, JobInv
  <2>3. QED BY <1>1, <2>1, <2>2, DoneCreate
<1>3. CASE \E j \in late : \E id \in Clusters : CarryOutLate(j, id)
  <2>1. PICK j \in late : \E id \in Clusters : CarryOutLate(j, id)
    BY <1>3
  <2>2. PICK id \in Clusters : CarryOutLate(j, id)
    BY <2>1
  <2>3. orphans' \subseteq orphans \cup {id}
    BY <2>2 DEF CarryOutLate
  <2>4. QED BY <1>1, <2>3
<1>4. CASE StartRun
  BY <1>1, <1>4, StartFacts
<1>5. CASE ~(Fail \/ StartRun \/ \E j \in late : \E id \in Clusters : CarryOutLate(j, id))
  <2>1. orphans' \subseteq orphans
    BY <1>5 DEF Next, Run, NC2, SendCreate, CreateDone, ReadCreated, UpdateRefused,
       SendUpdate, Request, UpdateDone, ReadUpdated, SendTerminate, DeleteDone, TaskFailed,
       RequestNotFound, CarryOut, TaskFails, DropLate, EditConfig, ReadFails,
       Import, ChangeOutside, Settle, Stabilize, vars, nc2Vars
  <2>2. QED BY <1>1, <2>1
<1>6. QED BY <1>2, <1>3, <1>4, <1>5

\* What is settling is a cluster.
LEMMA SettlingTyped ==
  ASSUME TypeInv, [Next]_vars
  PROVE  settling' \subseteq Clusters
<1>1. settling \subseteq Clusters
  BY DEF TypeInv, StoreInv
<1>2. CASE \E id \in Clusters : CarryOut(id)
  <2>1. PICK id \in Clusters : settling' = Settling(job, id)
    BY <1>2 DEF CarryOut
  <2>2. QED BY <1>1, <2>1 DEF Settling
<1>3. CASE \E j \in late : \E id \in Clusters : CarryOutLate(j, id)
  <2>1. PICK j \in late : \E id \in Clusters : settling' = Settling(j, id)
    BY <1>3 DEF CarryOutLate
  <2>2. QED BY <1>1, <2>1 DEF Settling
<1>4. CASE ~(\/ \E id \in Clusters : CarryOut(id)
             \/ \E j \in late : \E id \in Clusters : CarryOutLate(j, id))
  <2>1. settling' \subseteq settling
    BY <1>4 DEF Next, Run, NC2, StartRun, SendCreate, CreateDone, ReadCreated, UpdateRefused,
       SendUpdate, Request, UpdateDone, ReadUpdated, SendTerminate, DeleteDone, TaskFailed,
       RequestNotFound, TaskFails, DropLate, EditConfig, ReadFails, Fail, Import,
       ChangeOutside, Settle, Stabilize, vars, nc2Vars
  <2>2. QED BY <1>1, <2>1
<1>5. QED BY <1>2, <1>3, <1>4

\* How the last run ended, and what only counts.
LEMMA CountsTyped ==
  ASSUME TypeInv, [Next]_vars
  PROVE  /\ lastRun' \in {"none", "ok", "error"} /\ calm' \in BOOLEAN
         /\ changes' \in Nat /\ stable' \in BOOLEAN
<1> USE DEF TypeInv, StoreInv
<1>1. CASE StartRun
  BY <1>1, StartFacts
<1>2. CASE EditConfig
  BY <1>2 DEF EditConfig, nc2Vars
<1>3. CASE Ends
  <2>1. lastRun' \in {"ok", "error"}
    BY <1>3, EndsFinish DEF Finish
  <2>2. calm' = calm /\ changes' = changes /\ stable' = stable
    BY <1>3 DEF Ends, ReadCreated, UpdateRefused, ReadUpdated, TaskFailed, RequestNotFound,
       Fail, DeleteDone, nc2Vars
  <2>3. QED BY <2>1, <2>2
<1>4. CASE Beside
  <2>1. CASE NC2
    BY <2>1 DEF NC2, CarryOut, TaskFails, DropLate, CarryOutLate, nc2Vars
  <2>2. CASE ReadFails \/ Stabilize \/ UNCHANGED vars
    BY <2>2 DEF ReadFails, Stabilize, vars, nc2Vars
  <2>3. ASSUME NEW id \in Clusters, Import(id)
        PROVE  /\ lastRun' \in {"none", "ok", "error"} /\ calm' \in BOOLEAN
               /\ changes' \in Nat /\ stable' \in BOOLEAN
    BY <2>3 DEF Import
  <2>4. ASSUME NEW id \in Clusters, ChangeOutside(id)
        PROVE  /\ lastRun' \in {"none", "ok", "error"} /\ calm' \in BOOLEAN
               /\ changes' \in Nat /\ stable' \in BOOLEAN
    <3>1. changes' = changes + 1 /\ changes \in Nat
      BY <2>4 DEF ChangeOutside
    <3>2. changes' \in Nat
      BY <3>1
    <3>3. lastRun' = lastRun /\ calm' = FALSE /\ stable' = stable
      BY <2>4 DEF ChangeOutside
    <3>4. QED BY <3>2, <3>3
  <2>5. ASSUME NEW id \in Clusters, Settle(id)
        PROVE  /\ lastRun' \in {"none", "ok", "error"} /\ calm' \in BOOLEAN
               /\ changes' \in Nat /\ stable' \in BOOLEAN
    BY <2>5 DEF Settle
  <2>6. QED BY <1>4, <2>1, <2>2, <2>3, <2>4, <2>5 DEF Beside
<1>5. CASE Moves
  BY <1>5 DEF Moves, SendCreate, CreateDone, SendUpdate, UpdateDone, SendTerminate,
     DeleteDone, Request, nc2Vars
<1>6. QED BY <1>1, <1>2, <1>3, <1>4, <1>5, StepCases

LEMMA TypeInvStep ==
  ASSUME TypeInv, [Next]_vars
  PROVE  TypeInv'
<1>1. KeepInv'
  BY KeepStep DEF TypeInv
<1>2. StoreInv'
  <2>1. \A j \in late' : GoodJob(j)'
    BY LateTyped DEF GoodJob
  <2>2. QED BY <2>1, StateTyped, RemoteTyped, SettlingTyped, OrphansTyped, CountsTyped DEF StoreInv
<1>3. QED BY <1>1, <1>2, PlanStep, TodoStep, JobStep DEF TypeInv

LEMMA TypeInvInit == Init => TypeInv
<1> SUFFICES ASSUME Init PROVE TypeInv
  OBVIOUS
<1>1. PlanInv /\ TodoInv /\ JobInv
  BY DEF Init, PlanInv, TodoInv, JobInv, Acting
<1>2. StoreInv
  BY DEF Init, StoreInv, Exists
<1>3. QED BY <1>1, <1>2, KeepInit DEF TypeInv

\* The run's variables and the clusters at NC2 keep their types: a plan is never
\* a resource with something missing, and a job always one NC2 can be sent.
THEOREM ClusterTypes == Spec => []TypeOK
<1>1. TypeInv /\ [Next]_vars => TypeInv'
  BY TypeInvStep
<1>2. QED BY TypeInvInit, <1>1, TypesInvariant, PTL DEF Spec

-----------------------------------------------------------------------------
(* No cluster is lost without an error.                                    *)

\* Who knows of a cluster.
KnownTo(id) ==
  \/ state # None /\ state.id = id
  \/ id \in orphans \cup {target}
  \/ job # None /\ job.op = "create" /\ job.id = id

\* Of a cluster that is there after a step, who knew of it before it knows of it
\* after it, or somebody else does.
LEMMA KnownStep ==
  ASSUME TypeInv, NothingLostSilently, [Next]_vars, NEW id \in Clusters, Exists(id)'
  PROVE  KnownTo(id)'
<1>0. Exists(id) => KnownTo(id)
  BY DEF NothingLostSilently, KnownTo
<1>n. id # None /\ DOMAIN remote = Clusters
  BY LifecycleAssumption DEF TypeInv, KeepInv
<1>1. CASE StartRun
  <2>1. /\ job' = job /\ target' = target /\ remote' = remote /\ orphans \subseteq orphans'
        /\ state' = None \/ (state # None /\ Exists(state.id) /\ state' = Reread)
        /\ state # None /\ state.id = id /\ Exists(id) /\ state' = None => id \in orphans'
    BY <1>1, StartFacts
  <2>2. Exists(id)
    BY <2>1 DEF Exists
  <2>3. state # None /\ state.id = id =>
          id \in orphans' \/ (state' # None /\ state'.id = id)
    BY <2>1, <2>2, RereadFacts
  <2>4. QED BY <1>0, <2>1, <2>2, <2>3 DEF KnownTo
<1>2. CASE \E new \in Clusters : CarryOut(new)
  <2>1. PICK new \in Clusters : CarryOut(new)
    BY <1>2
  <2>2. /\ job # None /\ Subject(job, new) /\ remote' = [remote EXCEPT ![new] = Effect(job, new)]
        /\ job' = [job EXCEPT !.status = "done", !.id = new]
        /\ state' = state /\ target' = target /\ orphans' = orphans
        /\ job.status = "running"
    BY <2>1 DEF CarryOut
  <2>3. job \in Jobs
    BY <2>2, JobIsGood DEF GoodJob
  <2>4. job' = [op |-> job.op, id |-> new, body |-> job.body, status |-> "done"]
    BY <2>2, <2>3 DEF Jobs
  <2>5. job' # None /\ job'.op = job.op /\ job'.id = new
    BY <2>4, NoneNotRecord
  <2>6. CASE job.op = "create"
    <3>1. job.id = None
      BY <2>2, <2>6, DoneCreate
    <3>2. id # new => Exists(id)
      BY <2>2, <1>n DEF Exists
    <3>3. QED BY <1>0, <1>n, <2>2, <2>5, <2>6, <3>1, <3>2 DEF KnownTo
  <2>7. CASE job.op # "create"
    <3>1. Exists(new)
      BY <2>2, <2>7 DEF Subject
    <3>2. Exists(id)
      BY <2>2, <3>1, <1>n DEF Exists
    <3>3. QED BY <1>0, <2>2, <2>7, <3>2 DEF KnownTo
  <2>8. QED BY <2>6, <2>7
<1>3. CASE \E j \in late : \E new \in Clusters : CarryOutLate(j, new)
  <2>1. PICK j \in late : \E new \in Clusters : CarryOutLate(j, new)
    BY <1>3
  <2>2. PICK new \in Clusters : CarryOutLate(j, new)
    BY <2>1
  <2>3. /\ Subject(j, new) /\ remote' = [remote EXCEPT ![new] = Effect(j, new)]
        /\ state' = state /\ target' = target /\ job' = job
        /\ orphans' = CASE j.op = "create" -> orphans \cup {new}
                        [] j.op = "terminate" -> orphans \ {new}
                        [] OTHER -> orphans
    BY <2>2 DEF CarryOutLate
  <2>4. id # new => remote'[id] = remote[id]
    BY <2>3
  <2>5. CASE j.op = "create"
    <3>1. orphans' = orphans \cup {new}
      BY <2>3, <2>5
    <3>2. QED BY <1>0, <2>3, <2>4, <3>1 DEF KnownTo, Exists
  <2>6. CASE j.op = "terminate"
    <3>1. orphans' = orphans \ {new} /\ remote'[new] = None
      BY <2>3, <2>6, <1>n, EffectCases
    <3>2. id # new
      BY <3>1 DEF Exists
    <3>3. QED BY <1>0, <2>3, <2>4, <3>1, <3>2 DEF KnownTo, Exists
  <2>7. CASE j.op \notin {"create", "terminate"}
    <3>1. orphans' = orphans
      BY <2>3, <2>7
    <3>2. Exists(new)
      BY <2>3, <2>7 DEF Subject
    <3>3. QED BY <1>0, <2>3, <2>4, <3>1, <3>2 DEF KnownTo, Exists
  <2>8. QED BY <2>5, <2>6, <2>7
<1>4. CASE \E other \in Clusters : ChangeOutside(other)
  <2>1. PICK other \in Clusters : ChangeOutside(other)
    BY <1>4
  <2>2. /\ state' = state /\ target' = target /\ job' = job /\ Exists(other)
        /\ \/ remote' = [remote EXCEPT ![other] = None] /\ orphans' = orphans \ {other}
           \/ /\ \E c : remote' = [remote EXCEPT ![other] = c]
              /\ orphans' = orphans
    BY <2>1 DEF ChangeOutside
  <2>3. Exists(id)
    BY <2>2, <1>n DEF Exists
  <2>4. orphans' = orphans \/ (orphans' = orphans \ {other} /\ id # other)
    BY <2>2, <1>n DEF Exists
  <2>5. QED BY <1>0, <2>2, <2>3, <2>4 DEF KnownTo
<1>5. CASE \E new \in Clusters : Import(new)
  <2>1. PICK new \in Clusters : Import(new)
    BY <1>5
  <2>2. /\ state = None /\ target' = target /\ job' = job /\ remote' = remote
        /\ orphans' = orphans \ {new}
        /\ state' = [id |-> new, attrs |-> Decode(Imported, remote[new]), tainted |-> FALSE]
    BY <2>1 DEF Import
  <2>3. state' # None /\ state'.id = new
    BY <2>2, ResourceIsSome
  <2>4. QED BY <1>0, <2>2, <2>3 DEF KnownTo, Exists
<1>6. CASE Fail
  <2>1. /\ state' = state /\ remote' = remote
        /\ orphans' = IF target # None THEN orphans \cup {target}
                      ELSE IF job # None /\ job.op = "create" /\ job.status = "done"
                             THEN orphans \cup {job.id}
                      ELSE orphans
    BY <1>6 DEF Fail, LeaveJob
  <2>2. job # None /\ job.op = "create" /\ job.id = id =>
          target = None /\ job.status = "done"
    BY <1>n, DoneCreate DEF TypeInv, JobInv
  <2>3. QED BY <1>0, <1>n, <2>1, <2>2 DEF KnownTo, Exists
<1>7. CASE Ends /\ ~Fail
  <2>1. remote' = remote /\ orphans' = orphans
    BY <1>7 DEF Ends, ReadCreated, UpdateRefused, ReadUpdated, TaskFailed, RequestNotFound,
       DeleteDone, nc2Vars
  <2>2. Exists(id)
    BY <2>1 DEF Exists
  <2>3. ~(job # None /\ job.op = "create" /\ job.id = id)
    <3> SUFFICES ASSUME job # None, job.op = "create", job.id = id PROVE FALSE
      OBVIOUS
    <3>1. pc = "create task" /\ job.status = "done"
      BY <1>n, DoneCreate
    <3>2. QED BY <1>7, <3>1 DEF Ends, ReadCreated, UpdateRefused, ReadUpdated, TaskFailed,
          RequestNotFound, DeleteDone
  <2>4. CASE ReadCreated
    <3>1. pc = "read created" /\ state = None
      BY <2>4 DEF ReadCreated, TypeInv, KeepInv, Creating
    <3>2. state' # None /\ state'.id = target
      <4>1. \E a, t : state' = [id |-> target, attrs |-> a, tainted |-> t]
        BY <2>4 DEF ReadCreated
      <4>2. QED BY <4>1, ResourceIsSome
    <3>3. QED BY <1>0, <2>1, <2>2, <2>3, <3>1, <3>2 DEF KnownTo
  <2>5. CASE ~ReadCreated
    <3>1. pc # "read created" /\ target = None
      BY <1>7, <2>5 DEF Ends, TypeInv, JobInv, UpdateRefused, ReadUpdated, TaskFailed,
         RequestNotFound, DeleteDone
    <3>0. pc # "idle"
      BY <1>7 DEF Ends, ReadCreated, UpdateRefused, ReadUpdated, TaskFailed, RequestNotFound,
         DeleteDone, TypeInv, JobInv
    <3>2. state # None /\ state.id = id => state' # None /\ state'.id = id
      BY <2>2, <3>0, KeepStep DEF Kept, TypeInv
    <3>3. QED BY <1>0, <1>n, <2>1, <2>2, <2>3, <3>1, <3>2 DEF KnownTo
  <2>6. QED BY <2>4, <2>5
<1>8. CASE Moves
  <2>1. remote' = remote /\ orphans' = orphans
    BY <1>8 DEF Moves, SendCreate, CreateDone, SendUpdate, UpdateDone, SendTerminate,
       DeleteDone, Request, nc2Vars
  <2>2. Exists(id)
    BY <2>1 DEF Exists
  <2>0. pc # "idle"
    BY <1>8 DEF Moves, SendCreate, CreateDone, SendUpdate, UpdateDone, SendTerminate,
       DeleteDone
  <2>3. state # None /\ state.id = id => state' # None /\ state'.id = id
    BY <2>2, <2>0, KeepStep DEF Kept, TypeInv
  <2>4. CASE CreateDone
    <3>1. target' = job.id /\ target = None
      BY <2>4 DEF CreateDone, TypeInv, JobInv
    <3>2. QED BY <1>0, <1>n, <2>1, <2>2, <2>3, <3>1 DEF KnownTo
  <2>5. CASE ~CreateDone
    <3>1. target' = target /\ pc # "create task"
      BY <1>8, <2>5 DEF Moves, SendCreate, SendUpdate, UpdateDone, SendTerminate,
         DeleteDone, Request
    <3>2. QED BY <1>0, <2>1, <2>2, <2>3, <3>1, DoneCreate DEF KnownTo
  <2>6. QED BY <2>4, <2>5
<1>9. CASE EditConfig \/ ReadFails \/ TaskFails \/ Stabilize \/ UNCHANGED vars
           \/ (\E j \in late : DropLate(j)) \/ (\E other \in Clusters : Settle(other))
  <2>1. remote' = remote /\ orphans' = orphans /\ state' = state /\ target' = target
    BY <1>9 DEF EditConfig, ReadFails, TaskFails, Stabilize, vars, DropLate, Settle, nc2Vars
  <2>2. Exists(id)
    BY <2>1 DEF Exists
  <2>3. CASE TaskFails
    <3>1. job.status = "running"
      BY <2>3 DEF TaskFails
    <3>2. job # None /\ job.op = "create" => job.id # id
      BY <1>n, <3>1, DoneCreate
    <3>3. QED BY <1>0, <2>1, <2>2, <3>2 DEF KnownTo
  <2>4. CASE ~TaskFails
    <3>1. job' = job
      BY <1>9, <2>4 DEF EditConfig, ReadFails, Stabilize, vars, DropLate, Settle
    <3>2. QED BY <1>0, <2>1, <2>2, <3>1 DEF KnownTo
  <2>5. QED BY <2>3, <2>4
<1>10. QED
  BY <1>1, <1>2, <1>3, <1>4, <1>5, <1>6, <1>7, <1>8, <1>9, StepCases DEF Beside, NC2

\* Every cluster at NC2 is in the state, in the hands of a run, or was left by a
\* Create that reported an error or by a refresh that was told it is not there,
\* for any number of late jobs and outside changes.
THEOREM NoClusterLost == Spec => []NothingLostSilently
<1>1. Init => NothingLostSilently
  BY DEF Init, NothingLostSilently, Exists
<1>2. TypeInv /\ NothingLostSilently /\ [Next]_vars => TypeInv' /\ NothingLostSilently'
  BY TypeInvStep, KnownStep DEF NothingLostSilently, KnownTo
<1>3. QED BY TypeInvInit, <1>1, <1>2, PTL DEF Spec

-----------------------------------------------------------------------------
(* A run that reports success.                                             *)

\* A cluster has what the configuration sets and the provider reads back.
Agrees(id) == \A a \in ReadBack : config[a] # Null => remote[id][a] = config[a]

\* The update goes through.
Accepted == RouteUpdate(Diff(state.attrs, plan)).ok

\* An operation that sets the attribute has not been carried out yet.
Pending(a) ==
  \E op \in todo \cap FieldOps :
    AttributeOf[op] = a /\ ~(job # None /\ job.status = "done" /\ job.op = op)

\* With nobody interfering, a cluster that a run has made is as configured, and
\* one that it updates is so but for the operations still to come.
SuccessInv ==
  calm =>
    /\ pc = "create task" /\ job.status = "done" => Agrees(job.id)
    /\ pc = "read created" => Agrees(target)
    /\ pc \in {"update", "update task"} /\ Accepted /\ Exists(state.id) =>
         \A a \in ReadBack : config[a] \in {Null, remote[state.id][a]} \/ Pending(a)

\* After a success, with nobody interfering, state, configuration and cluster
\* agree; that also makes the next plan empty.
CleanInv ==
  /\ pc \in {"update", "update task"} => ~state.tainted
  /\ pc = "idle" /\ lastRun = "ok" /\ calm =>
       \/ config = None /\ state = None
       \/ /\ config # None /\ state # None /\ ~state.tainted
          /\ Exists(state.id) /\ Agrees(state.id)
          /\ \A a \in Attributes :
               config[a] # Null \/ a \notin Computed => state.attrs[a] = config[a]

OutcomeInv == TypeInv /\ SuccessInv /\ CleanInv

\* At the start of an update, each attribute that is not as configured has its
\* operation.
LEMMA StartPending ==
  ASSUME TypeInv, StartRun, pc' = "update", Accepted',
         NEW a \in ReadBack
  PROVE  config[a] \in {Null, remote[state'.id][a]} \/ Pending(a)'
<1> SUFFICES ASSUME config[a] # Null, config[a] # remote[state'.id][a]
             PROVE  Pending(a)'
  OBVIOUS
<1>1. /\ state' = Reread /\ state # None /\ Exists(state.id) /\ plan' = WithUnknowns
      /\ \A f \in ForcesReplace : config[f] = state'.attrs[f]
      /\ todo' = RouteUpdate(Diff(state'.attrs, plan')).ops
      /\ config \in Configs /\ job' = None
  BY StartFacts DEF Accepted, TypeInv, PlanInv, JobInv
<1>2. state'.attrs[a] = remote[state'.id][a]
  BY <1>1, RereadFacts, FieldAttributes DEF Decode
<1>3. a # "name"
  <2>1. a = "name" => a \in ForcesReplace
    BY FieldAttributes DEF ForcesReplace
  <2>2. QED BY <1>1, <1>2, <2>1
<1>4. PICK op \in FieldOps : AttributeOf[op] = a
  BY <1>3, FieldAttributes
<1>5. DOMAIN plan' = Attributes /\ plan'[a] = config[a] /\ a \in Attributes
  BY <1>1, PlanFacts, FieldAttributes
<1>6. op \in todo'
  BY <1>1, <1>2, <1>4, <1>5, RoutedOps DEF Accepted
<1>7. QED BY <1>1, <1>4, <1>6 DEF Pending

\* NC2 carries out what the run has asked for.
LEMMA CarryOutAgrees ==
  ASSUME TypeInv, SuccessInv, NEW id \in Clusters, CarryOut(id)
  PROVE  SuccessInv'
<1>0. /\ job # None /\ Subject(job, id) /\ remote' = [remote EXCEPT ![id] = Effect(job, id)]
      /\ job' = [job EXCEPT !.status = "done", !.id = id] /\ job.status = "running"
      /\ config' = config /\ state' = state /\ plan' = plan /\ pc' = pc /\ todo' = todo
      /\ target' = target /\ calm' = calm
  BY DEF CarryOut
<1>1. job \in Jobs /\ DOMAIN remote = Clusters
  BY <1>0, JobIsGood DEF GoodJob, TypeInv, KeepInv
<1>2. job' = [op |-> job.op, id |-> id, body |-> job.body, status |-> "done"]
  BY <1>0, <1>1 DEF Jobs
<1>3. job' # None /\ job'.op = job.op /\ job'.id = id /\ remote'[id] = Effect(job, id)
  BY <1>0, <1>1, <1>2, NoneNotRecord
<1>4. CASE pc = "create task"
  <2>1. PICK st \in Statuses, i \in Clusters \cup {None} :
          job = [op |-> "create", id |-> i, body |-> Created, status |-> st]
    BY <1>4 DEF TypeInv, JobInv
  <2>2. remote'[id] = Created
    BY <1>3, <2>1, EffectCases
  <2>3. config \in Configs /\ plan = WithUnknowns
    BY <1>4 DEF TypeInv, PlanInv, Acting
  <2>4. Agrees(job.id)'
    BY <1>0, <1>3, <2>2, <2>3, CreatedFacts DEF Agrees
  <2>5. QED BY <1>0, <1>4, <2>4 DEF SuccessInv
<1>5. CASE pc = "update task"
  <2>1. PICK op \in todo, st \in Statuses :
          job = [op |-> op, id |-> state.id,
                 body |-> IF op \in FieldOps THEN Payload(op, plan) ELSE Null,
                 status |-> st]
    BY <1>5 DEF TypeInv, JobInv
  <2>2. /\ op \in Ops /\ job.op = op /\ job.id = state.id
        /\ op \in FieldOps => job.body = Payload(op, plan)
    BY <2>1 DEF TypeInv, TodoInv
  <2>3. id = state.id /\ Exists(id) /\ remote[id] \in Settings
    <3>1. op # "create"
      BY <2>2 DEF Ops, FieldOps
    <3>2. QED BY <1>0, <2>2, <3>1 DEF Subject, TypeInv, StoreInv
  <2>4. config \in Configs /\ plan = WithUnknowns
    BY <1>5 DEF TypeInv, PlanInv, Acting
  <2>5. ASSUME NEW a \in ReadBack, config[a] # Null,
               op \in FieldOps, AttributeOf[op] = a
        PROVE  remote'[id][a] = config[a]
    <3>1. job.body = config[a]
      BY <2>2, <2>4, <2>5, PayloadFacts, FieldAttributes
    <3>2. remote'[id] = [remote[id] EXCEPT ![a] = config[a]]
      BY <1>3, <2>2, <2>5, <3>1, EffectCases
    <3>3. QED BY <2>3, <3>2, FieldAttributes DEF Settings
  <2>6. ASSUME NEW a \in ReadBack, ~(op \in FieldOps /\ AttributeOf[op] = a)
        PROVE  remote'[id][a] = remote[id][a]
    <3>1. a \in Attributes \ {"desired_state"}
      BY FieldAttributes
    <3>2. op \in FieldOps \/ op = "hibernate" \/ op = "resume"
      BY <2>2 DEF Ops
    <3>3. CASE op \in FieldOps
      BY <1>3, <2>2, <2>3, <2>6, <3>1, <3>3, EffectCases DEF Settings
    <3>4. CASE op = "hibernate" \/ op = "resume"
      BY <1>3, <2>2, <2>3, <3>1, <3>4, EffectCases DEF Settings
    <3>5. QED BY <3>2, <3>3, <3>4
  <2>7. ASSUME NEW a \in ReadBack, config[a] \in {Null, remote[id][a]} \/ Pending(a)
        PROVE  config[a] \in {Null, remote'[id][a]} \/ Pending(a)'
    <3>1. CASE config[a] = Null \/ (op \in FieldOps /\ AttributeOf[op] = a)
      BY <2>5, <3>1
    <3>2. CASE ~(op \in FieldOps /\ AttributeOf[op] = a)
      <4>1. Pending(a) => Pending(a)'
        BY <1>0, <1>3, <2>2, <3>2 DEF Pending
      <4>2. QED BY <2>6, <2>7, <3>2, <4>1
    <3>3. QED BY <3>1, <3>2
  <2>8. Accepted' = Accepted
    BY <1>0 DEF Accepted
  <2>9. QED BY <1>0, <1>5, <2>3, <2>7, <2>8 DEF SuccessInv
<1>6. CASE pc \notin {"create task", "update task"}
  <2>1. pc = "delete task"
    BY <1>0, <1>6 DEF TypeInv, JobInv
  <2>2. QED BY <1>0, <2>1 DEF SuccessInv
<1>7. QED BY <1>4, <1>5, <1>6

\* Between its answers a run only passes on what it has.
LEMMA MovesAgree ==
  ASSUME TypeInv, SuccessInv, Moves
  PROVE  SuccessInv'
<1>1. config' = config /\ remote' = remote /\ calm' = calm /\ plan' = plan
  BY DEF Moves, SendCreate, CreateDone, SendUpdate, UpdateDone, SendTerminate,
     DeleteDone, Request, nc2Vars
<1>2. CASE SendCreate
  <2>1. pc' = "create task" /\ job'.status = "running"
    BY <1>2 DEF SendCreate, Request, Job
  <2>2. QED BY <2>1 DEF SuccessInv
<1>3. CASE CreateDone
  <2>1. pc = "create task" /\ job.status = "done" /\ pc' = "read created" /\ target' = job.id
    BY <1>3 DEF CreateDone
  <2>2. calm => Agrees(target)'
    BY <1>1, <2>1 DEF SuccessInv, Agrees
  <2>3. QED BY <1>1, <2>1, <2>2 DEF SuccessInv
<1>4. ASSUME NEW op \in Ops, SendUpdate(op)
      PROVE  SuccessInv'
  <2>1. pc = "update" /\ pc' = "update task" /\ state' = state /\ todo' = todo
        /\ job'.status = "running"
    BY <1>4 DEF SendUpdate, Request, Job
  <2>2. \A a : Pending(a) => Pending(a)'
    BY <2>1 DEF Pending
  <2>3. Accepted' = Accepted /\ (Exists(state.id)' <=> Exists(state.id))
    BY <1>1, <2>1 DEF Accepted, Exists
  <2>4. QED BY <1>1, <2>1, <2>2, <2>3 DEF SuccessInv
<1>5. CASE UpdateDone
  <2>1. pc = "update task" /\ pc' = "update" /\ state' = state /\ todo' = todo \ {job.op}
        /\ job' = None /\ job.status = "done"
    BY <1>5 DEF UpdateDone
  <2>2. job # None
    <3>1. \E op, i, b, st : job = [op |-> op, id |-> i, body |-> b, status |-> st]
      BY <2>1 DEF TypeInv, JobInv
    <3>2. QED BY <3>1, NoneNotRecord
  <2>3. \A a : Pending(a) => Pending(a)'
    BY <2>1, <2>2 DEF Pending
  <2>4. Accepted' = Accepted /\ (Exists(state.id)' <=> Exists(state.id))
    BY <1>1, <2>1 DEF Accepted, Exists
  <2>5. QED BY <1>1, <2>1, <2>3, <2>4 DEF SuccessInv
<1>6. CASE SendTerminate \/ (DeleteDone /\ plan # None)
  <2>1. pc' \in {"delete task", "create"}
    BY <1>6 DEF SendTerminate, DeleteDone, Request
  <2>2. QED BY <2>1 DEF SuccessInv
<1>7. QED BY <1>2, <1>3, <1>4, <1>5, <1>6 DEF Moves

LEMMA SuccessStep ==
  ASSUME TypeInv, SuccessInv, [Next]_vars
  PROVE  SuccessInv'
<1>1. CASE StartRun
  <2>1. pc' \in {"idle", "create", "delete", "update"} /\ config' = config /\ remote' = remote
    BY <1>1, StartFacts
  <2>2. CASE pc' = "update"
    <3>1. Accepted' => \A a \in ReadBack : config[a] \in {Null, remote[state'.id][a]} \/ Pending(a)'
      BY <1>1, <2>2, StartPending
    <3>2. QED BY <2>1, <2>2, <3>1 DEF SuccessInv
  <2>3. CASE pc' # "update"
    BY <2>1, <2>3 DEF SuccessInv
  <2>4. QED BY <2>2, <2>3
<1>2. CASE EditConfig \/ Ends
  <2>1. pc' = "idle"
    BY <1>2, EndsFinish DEF EditConfig, Finish
  <2>2. QED BY <2>1 DEF SuccessInv
<1>3. CASE Beside
  <2>1. CASE \E id \in Clusters : CarryOut(id)
    BY <2>1, CarryOutAgrees
  <2>2. CASE TaskFails
    <3>1. /\ config' = config /\ state' = state /\ plan' = plan /\ pc' = pc /\ todo' = todo
          /\ target' = target /\ calm' = calm /\ remote' = remote
          /\ job # None /\ job' = [job EXCEPT !.status = "failed"]
      BY <2>2 DEF TaskFails, nc2Vars
    <3>2. job \in Jobs
      BY <3>1, JobIsGood DEF GoodJob
    <3>3. job'.status = "failed"
      BY <3>1, <3>2 DEF Jobs
    <3>4. \A a : Pending(a) => Pending(a)'
      BY <3>1, <3>3 DEF Pending
    <3>5. Agrees(target)' <=> Agrees(target)
      BY <3>1 DEF Agrees
    <3>6. Accepted' = Accepted /\ (Exists(state.id)' <=> Exists(state.id))
      BY <3>1 DEF Accepted, Exists
    <3>7. QED BY <3>1, <3>3, <3>4, <3>5, <3>6 DEF SuccessInv
  <2>3. CASE \/ \E j \in late : \E id \in Clusters : CarryOutLate(j, id)
             \/ \E id \in Clusters : ChangeOutside(id)
    <3>1. calm' = FALSE
      BY <2>3 DEF CarryOutLate, ChangeOutside
    <3>2. QED BY <3>1 DEF SuccessInv
  <2>4. CASE \E id \in Clusters : Import(id)
    <3>1. pc' = "idle"
      BY <2>4 DEF Import
    <3>2. QED BY <3>1 DEF SuccessInv
  <2>5. CASE \/ ReadFails \/ Stabilize \/ UNCHANGED vars
             \/ (\E j \in late : DropLate(j)) \/ (\E id \in Clusters : Settle(id))
    <3>1. /\ config' = config /\ state' = state /\ plan' = plan /\ pc' = pc /\ todo' = todo
          /\ target' = target /\ calm' = calm /\ remote' = remote /\ job' = job
      BY <2>5 DEF ReadFails, Stabilize, vars, DropLate, Settle, nc2Vars
    <3>2. \A a : Pending(a) => Pending(a)'
      BY <3>1 DEF Pending
    <3>3. (Agrees(target)' <=> Agrees(target)) /\ (Agrees(job.id)' <=> Agrees(job.id))
      BY <3>1 DEF Agrees
    <3>4. Accepted' = Accepted /\ (Exists(state.id)' <=> Exists(state.id))
      BY <3>1 DEF Accepted, Exists
    <3>5. QED BY <3>1, <3>2, <3>3, <3>4 DEF SuccessInv
  <2>6. QED BY <1>3, <2>1, <2>2, <2>3, <2>4, <2>5 DEF Beside, NC2
<1>4. CASE Moves
  BY <1>4, MovesAgree
<1>5. QED BY <1>1, <1>2, <1>3, <1>4, StepCases

\* What a run stores after it has read the cluster is what was configured.
LEMMA StoredAgrees ==
  ASSUME config \in Configs, plan = WithUnknowns, NEW cluster,
         \A a \in ReadBack : config[a] # Null => cluster[a] = config[a],
         NEW a \in Attributes, config[a] # Null \/ a \notin Computed
  PROVE  Decode(plan, cluster)[a] = config[a]
<1>1. plan[a] = config[a]
  BY PlanFacts
<1>2. CASE a \in ReadBack
  <2>1. config[a] # Null
    BY <1>2, ConfigFacts DEF ReadBack, Computed, Optional
  <2>2. QED BY <1>2, <2>1 DEF Decode
<1>3. CASE a \notin ReadBack
  <2>1. a = "desired_state" => plan[a] \notin {Null, Unknown}
    BY <1>1, ConfigFacts DEF Computed
  <2>2. QED BY <1>1, <1>3, <2>1 DEF Decode
<1>4. QED BY <1>2, <1>3

\* A run with nothing to do: what was read is as configured.
LEMMA StartClean ==
  ASSUME TypeInv, StartRun
  PROVE  CleanInv'
<1>0. /\ config' = config /\ remote' = remote
      /\ pc' = "update" => PlannedAction(state') = "update"
      /\ lastRun' = "ok" => PlannedAction(state') = "nothing"
      /\ state' = None \/ (state # None /\ Exists(state.id) /\ state' = Reread)
      /\ pc' # "update task"
  BY StartFacts
<1>1. pc' = "update" => ~state'.tainted
  BY <1>0 DEF PlannedAction
<1>2. ASSUME PlannedAction(state') = "nothing", config = None
      PROVE  state' = None
  BY <1>2 DEF PlannedAction
<1>3. ASSUME PlannedAction(state') = "nothing", config # None
      PROVE  /\ state' # None /\ ~state'.tainted
             /\ remote[state'.id] # None
             /\ \A a \in ReadBack : config[a] # Null => remote[state'.id][a] = config[a]
             /\ \A a \in Attributes :
                  config[a] # Null \/ a \notin Computed => state'.attrs[a] = config[a]
  <2>1. state' # None /\ ~state'.tainted /\ Proposed(state'.attrs) = state'.attrs
    BY <1>3 DEF PlannedAction
  <2>2. \A a \in Attributes :
          config[a] # Null \/ a \notin Computed => Proposed(state'.attrs)[a] = config[a]
    BY DEF Proposed
  <2>3. \A a \in Attributes :
          config[a] # Null \/ a \notin Computed => state'.attrs[a] = config[a]
    BY <2>1, <2>2
  <2>4. /\ Exists(state.id) /\ state'.id = state.id
        /\ state'.attrs = Decode(state.attrs, remote[state.id])
    BY <1>0, <2>1, RereadFacts
  <2>5. \A a \in ReadBack : state'.attrs[a] = remote[state'.id][a] /\ a \in Attributes
    BY <2>4, FieldAttributes DEF Decode
  <2>6. remote[state'.id] # None
    BY <2>4 DEF Exists
  <2>7. QED BY <2>1, <2>3, <2>5, <2>6
<1>4. QED BY <1>0, <1>1, <1>2, <1>3 DEF CleanInv, Exists, Agrees

\* A run that ends well, ends with state, configuration and cluster in agreement.
LEMMA EndClean ==
  ASSUME OutcomeInv, Ends
  PROVE  CleanInv'
<1>0. TypeInv /\ SuccessInv /\ CleanInv
  BY DEF OutcomeInv
<1>1. pc' = "idle" /\ config' = config
  BY EndsFinish DEF Finish
<1>2. CASE ReadCreated
  <2>1. pc = "read created" /\ remote' = remote /\ calm' = calm
    BY <1>2 DEF ReadCreated, nc2Vars
  <2>2. config \in Configs \ {None} /\ plan = WithUnknowns
    BY <1>0, <2>1 DEF TypeInv, PlanInv, Acting
  <2>3. CASE lastRun' = "ok"
    <3>0. Exists(target)
      BY <1>2, <2>3 DEF ReadCreated, Finish, Found
    <3>1. state' = [id |-> target, attrs |-> Decode(plan, remote[target]), tainted |-> FALSE]
      BY <1>2, <2>3 DEF ReadCreated, Finish
    <3>2. /\ state' # None /\ state'.id = target /\ ~state'.tainted
          /\ state'.attrs = Decode(plan, remote[target])
      BY <3>1, ResourceIsSome
    <3>3. calm => \A a \in ReadBack : config[a] # Null => remote[target][a] = config[a]
      BY <1>0, <2>1 DEF SuccessInv, Agrees
    <3>4. calm => \A a \in Attributes :
            config[a] # Null \/ a \notin Computed => state'.attrs[a] = config[a]
      BY <2>2, <3>2, <3>3, StoredAgrees
    <3>5. QED
      BY <1>1, <2>1, <2>2, <2>3, <3>0, <3>2, <3>3, <3>4 DEF CleanInv, Exists, Agrees
  <2>4. CASE lastRun' # "ok"
    BY <1>1, <2>4 DEF CleanInv
  <2>5. QED BY <2>3, <2>4
<1>3. CASE ReadUpdated
  <2>1. pc = "update" /\ remote' = remote /\ calm' = calm /\ todo = {} /\ Accepted
    BY <1>3 DEF ReadUpdated, nc2Vars, Accepted
  <2>2. config \in Configs \ {None} /\ plan = WithUnknowns
    BY <1>0, <2>1 DEF TypeInv, PlanInv, Acting
  <2>3. CASE lastRun' = "ok"
    <3>0. Exists(state.id)
      BY <1>3, <2>3 DEF ReadUpdated, Finish, Found
    <3>1. state' = [state EXCEPT !.attrs = Decode(plan, remote[state.id])]
      BY <1>3, <2>3 DEF ReadUpdated, Finish
    <3>2. state # None
         /\ state = [id |-> state.id, attrs |-> state.attrs, tainted |-> state.tainted]
      BY <1>0, <2>1 DEF TypeInv, KeepInv, Holding
    <3>3. state' = [id |-> state.id, attrs |-> Decode(plan, remote[state.id]),
                    tainted |-> state.tainted]
      BY <3>1, <3>2
    <3>4. /\ state' # None /\ state'.id = state.id /\ state'.tainted = state.tainted
          /\ state'.attrs = Decode(plan, remote[state.id])
      BY <3>3, ResourceIsSome
    <3>5. ~state'.tainted
      BY <1>0, <2>1, <3>4 DEF CleanInv
    <3>6. calm => \A a \in ReadBack : config[a] # Null => remote[state.id][a] = config[a]
      BY <1>0, <2>1, <3>0 DEF SuccessInv, Pending
    <3>7. calm => \A a \in Attributes :
            config[a] # Null \/ a \notin Computed => state'.attrs[a] = config[a]
      BY <2>2, <3>4, <3>6, StoredAgrees
    <3>8. QED
      BY <1>1, <2>1, <2>2, <2>3, <3>0, <3>4, <3>5, <3>6, <3>7 DEF CleanInv, Exists, Agrees
  <2>4. CASE lastRun' # "ok"
    BY <1>1, <2>4 DEF CleanInv
  <2>5. QED BY <2>3, <2>4
<1>4. CASE DeleteDone /\ plan = None
  <2>1. state' = None /\ pc = "delete task"
    BY <1>4 DEF DeleteDone
  <2>2. config = None
    BY <1>0, <1>4, <2>1 DEF TypeInv, PlanInv
  <2>3. QED BY <1>1, <2>1, <2>2 DEF CleanInv
<1>5. CASE UpdateRefused \/ TaskFailed \/ RequestNotFound \/ Fail
  <2>1. lastRun' = "error"
    BY <1>5 DEF UpdateRefused, TaskFailed, RequestNotFound, Fail, Finish
  <2>2. QED BY <1>1, <2>1 DEF CleanInv
<1>6. QED BY <1>2, <1>3, <1>4, <1>5 DEF Ends

LEMMA CleanStep ==
  ASSUME OutcomeInv, [Next]_vars
  PROVE  CleanInv'
<1>0. TypeInv /\ CleanInv
  BY DEF OutcomeInv
<1>1. CASE StartRun
  BY <1>0, <1>1, StartClean
<1>2. CASE Ends
  BY <1>2, EndClean
<1>3. CASE Moves
  <2>1. pc' # "idle"
    BY <1>3 DEF Moves, SendCreate, CreateDone, SendUpdate, UpdateDone, SendTerminate,
       DeleteDone, Request
  <2>2. pc' \in {"update", "update task"} =>
          state' = state /\ pc \in {"update", "update task"}
    BY <1>3 DEF Moves, SendCreate, CreateDone, SendUpdate, UpdateDone, SendTerminate,
       DeleteDone, Request
  <2>3. QED BY <1>0, <2>1, <2>2 DEF CleanInv
<1>4. CASE EditConfig \/ ReadFails \/ \E id \in Clusters : Import(id)
  <2>1. pc' = "idle" /\ lastRun' # "ok"
    BY <1>4 DEF EditConfig, ReadFails, Import
  <2>2. QED BY <2>1 DEF CleanInv
<1>5. CASE \/ NC2 \/ Stabilize \/ UNCHANGED vars
           \/ \E id \in Clusters : ChangeOutside(id) \/ Settle(id)
  <2>1. config' = config /\ state' = state /\ pc' = pc /\ lastRun' = lastRun
    BY <1>5 DEF NC2, CarryOut, TaskFails, DropLate, CarryOutLate, Stabilize, vars,
       ChangeOutside, Settle, nc2Vars
  <2>2. \/ calm' = FALSE
        \/ calm' = calm /\ (remote' = remote \/ pc # "idle")
    <3>1. CASE \E id \in Clusters : CarryOut(id)
      <4>1. calm' = calm /\ job # None
        BY <3>1 DEF CarryOut
      <4>2. QED BY <1>0, <4>1 DEF TypeInv, JobInv
    <3>2. CASE ~\E id \in Clusters : CarryOut(id)
      BY <1>5, <3>2 DEF NC2, TaskFails, DropLate, CarryOutLate, Stabilize, vars,
         ChangeOutside, Settle, nc2Vars
    <3>3. QED BY <3>1, <3>2
  <2>3. remote' = remote => (Agrees(state.id)' <=> Agrees(state.id))
                            /\ (Exists(state.id)' <=> Exists(state.id))
    BY <2>1 DEF Agrees, Exists
  <2>4. pc' \in {"update", "update task"} => ~state'.tainted
    BY <1>0, <2>1 DEF CleanInv
  <2>5. CASE pc = "idle" /\ lastRun = "ok" /\ calm'
    <3>1. calm /\ remote' = remote
      BY <2>2, <2>5
    <3>2. QED BY <1>0, <2>1, <2>3, <2>4, <2>5, <3>1 DEF CleanInv
  <2>6. CASE ~(pc = "idle" /\ lastRun = "ok" /\ calm')
    BY <2>1, <2>4, <2>6 DEF CleanInv
  <2>7. QED BY <2>5, <2>6
<1>6. QED BY <1>1, <1>2, <1>3, <1>4, <1>5, StepCases DEF Beside

LEMMA OutcomeInvStep ==
  ASSUME OutcomeInv, [Next]_vars
  PROVE  OutcomeInv'
BY TypeInvStep, SuccessStep, CleanStep DEF OutcomeInv

LEMMA OutcomeInvInit == Init => OutcomeInv
<1>1. Init => SuccessInv /\ CleanInv
  BY DEF Init, SuccessInv, CleanInv
<1>2. QED BY <1>1, TypeInvInit DEF OutcomeInv

\* After any history of failed runs, lost tasks and outside changes, a run that
\* reports success leaves the cluster as configured.
THEOREM SuccessHolds == Spec => []SuccessIsReal
<1>1. OutcomeInv => SuccessIsReal
  BY DEF OutcomeInv, CleanInv, SuccessIsReal, Agrees
<1>2. OutcomeInv /\ [Next]_vars => OutcomeInv'
  BY OutcomeInvStep
<1>3. QED BY OutcomeInvInit, <1>1, <1>2, PTL DEF Spec

\* State, configuration and cluster agree.
InAgreement ==
  \/ config = None /\ state = None
  \/ /\ config # None /\ state # None /\ ~state.tainted
     /\ Exists(state.id) /\ Agrees(state.id)
     /\ \A a \in Attributes :
          config[a] # Null \/ a \notin Computed => state.attrs[a] = config[a]

\* Between runs, after a success nobody has interfered with, they do.
LEMMA SuccessAgrees ==
  ASSUME OutcomeInv, pc = "idle", lastRun = "ok", calm
  PROVE  InAgreement
BY DEF OutcomeInv, CleanInv, InAgreement

\* In agreement with what Read finds, the configuration plans nothing.
LEMMA NothingPlanned ==
  ASSUME TypeInv, InAgreement, StartRun, state = None \/ state.id \notin settling
  PROVE  PlannedAction(state') = "nothing"
<1>0. /\ state' = None \/ (state # None /\ Exists(state.id) /\ state' = Reread)
      /\ state # None /\ Exists(state.id) => state' # None
  BY StartFacts
<1>1. CASE config = None
  BY <1>0, <1>1 DEF InAgreement, PlannedAction
<1>2. CASE config # None
  <2>1. /\ state # None /\ ~state.tainted /\ Exists(state.id) /\ Agrees(state.id)
        /\ \A a \in Attributes :
             config[a] # Null \/ a \notin Computed => state.attrs[a] = config[a]
    BY <1>2 DEF InAgreement
  <2>2. config \in Configs /\ state \in Resources
    BY <1>2, <2>1 DEF TypeInv, PlanInv, StoreInv
  <2>3. /\ state' # None /\ ~state'.tainted
        /\ state'.attrs = Decode(state.attrs, remote[state.id])
    BY <1>0, <2>1, RereadFacts
  <2>4. ASSUME NEW a \in Attributes, config[a] # Null \/ a \notin Computed
        PROVE  state'.attrs[a] = config[a]
    <3>1. CASE a \in ReadBack
      <4>1. config[a] # Null
        BY <2>2, <2>4, <3>1, ConfigFacts DEF ReadBack, Computed, Optional
      <4>2. QED BY <2>1, <2>3, <3>1, <4>1 DEF Decode, Agrees
    <3>2. CASE a \notin ReadBack
      <4>1. state.attrs[a] = config[a]
        BY <2>1, <2>4
      <4>2. a = "desired_state" => state.attrs[a] \notin {Null, Unknown}
        BY <2>2, <2>4, <4>1, ConfigFacts DEF Computed
      <4>3. QED BY <2>3, <3>2, <4>1, <4>2 DEF Decode
    <3>3. QED BY <3>1, <3>2
  <2>5. Proposed(state'.attrs) = state'.attrs
    <3>1. state'.attrs = [a \in Attributes |-> state'.attrs[a]]
      BY <2>3 DEF Decode
    <3>2. \A a \in Attributes : Proposed(state'.attrs)[a] = state'.attrs[a]
      BY <2>4 DEF Proposed
    <3>3. Proposed(state'.attrs) = [a \in Attributes |-> Proposed(state'.attrs)[a]]
      BY DEF Proposed
    <3>4. QED BY <3>1, <3>2, <3>3
  <2>6. \A a \in ForcesReplace : config[a] = state'.attrs[a]
    BY <2>4 DEF ForcesReplace, Computed
  <2>7. QED BY <1>2, <2>3, <2>5, <2>6 DEF PlannedAction
<1>3. QED BY <1>1, <1>2

\* The plan after a success is empty, once reads show what it created.
THEOREM EmptyPlan == Spec => CleanPlanAfterApply
<1> DEFINE Rests == /\ pc = "idle" /\ lastRun = "ok" /\ calm
                    /\ state = None \/ state.id \notin settling
                    => pc' = "idle"
<1>1. ASSUME OutcomeInv, [Next]_vars PROVE OutcomeInv' /\ Rests
  <2>1. OutcomeInv'
    BY <1>1, OutcomeInvStep
  <2>2. ASSUME pc = "idle", lastRun = "ok", calm, state = None \/ state.id \notin settling
        PROVE  pc' = "idle"
    <3>1. CASE StartRun
      BY <1>1, <2>2, <3>1, NothingPlanned, SuccessAgrees, StartFacts DEF OutcomeInv
    <3>2. CASE EditConfig \/ Ends
      BY <3>2, EndsFinish DEF EditConfig, Finish
    <3>3. CASE Beside
      BY <2>2, <3>3, BesideStays
    <3>4. CASE Moves
      BY <2>2, <3>4 DEF Moves, SendCreate, CreateDone, SendUpdate, UpdateDone, SendTerminate,
         DeleteDone, OutcomeInv, TypeInv, PlanInv
    <3>5. QED BY <1>1, <3>1, <3>2, <3>3, <3>4, StepCases
  <2>3. QED BY <2>1, <2>2
<1>2. OutcomeInv /\ [Next]_vars => OutcomeInv' /\ [Rests]_vars
  BY <1>1
<1>3. QED BY OutcomeInvInit, <1>2, PTL DEF Spec, CleanPlanAfterApply

=============================================================================
