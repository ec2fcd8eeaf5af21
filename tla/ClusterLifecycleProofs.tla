------------------------ MODULE ClusterLifecycleProofs ------------------------
(***************************************************************************)
(* Proofs about ClusterLifecycle for every schema, every set of values and *)
(* clusters and every bound: a hibernate or resume is alone in its run,    *)
(* and a cluster leaves Terraform's state only when NC2 has none any more, *)
(* or at a refresh that NC2 answers with 404 while its creation settles.   *)
(***************************************************************************)
EXTENDS ClusterLifecycle, FiniteSetTheorems, TLAPS

Flips == {"hibernate", "resume"}

\* Set-level form of FlipsAreAlone, for the inductive argument.
FlipInv == todo \cap Flips # {} => \E op \in Flips : todo = {op}

\* RouteUpdate's promise for every pair of attribute functions: a flip of
\* desired_state is routed by itself or not at all.
LEMMA RouteAlone ==
  ASSUME NEW old, NEW new,
         RouteUpdate(Diff(old, new)).ops \cap Flips # {}
  PROVE  \E op \in Flips : RouteUpdate(Diff(old, new)).ops = {op}
<1> DEFINE d == Diff(old, new)
<1> DEFINE flip == MapDesiredStateTransition(d.from, d.to)
<1>1. d.fields \subseteq FieldOps
  BY DEF Diff
<1>2. CASE ~HasDesiredStateChange(d)
  <2>1. RouteUpdate(d).ops = d.fields BY <1>2 DEF RouteUpdate, Routed
  <2>2. FieldOps \cap Flips = {} BY DEF FieldOps, Flips
  <2>3. QED BY <1>1, <2>1, <2>2
<1>3. CASE HasDesiredStateChange(d) /\ (HasFieldChanges(d) \/ flip = "error")
  <2>1. RouteUpdate(d).ops = {} BY <1>3 DEF RouteUpdate, Refused
  <2>2. QED BY <2>1
<1>4. CASE HasDesiredStateChange(d) /\ ~(HasFieldChanges(d) \/ flip = "error")
  <2>1. RouteUpdate(d).ops = {flip} \ {"noop"} BY <1>4 DEF RouteUpdate, Routed
  <2>2. QED BY <2>1
<1>5. QED BY <1>2, <1>3, <1>4

\* A run ends with nothing left to do.
LEMMA FinishClears == ASSUME NEW how, Finish(how) PROVE todo' = {} /\ pc' = "idle"
BY DEF Finish

\* Every step that changes todo empties it, takes a part of it, or routes anew.
LEMMA FlipStep == FlipInv /\ [Next]_vars => FlipInv'
<1> SUFFICES ASSUME FlipInv, [Next]_vars PROVE FlipInv'
  OBVIOUS
<1>1. todo' \subseteq todo => FlipInv'
  BY DEF FlipInv
<1>2. CASE StartRun
  <2>1. \/ todo' = {}
        \/ todo' = RouteUpdate(Diff(state'.attrs, plan')).ops
    BY <1>2 DEF StartRun
  <2>2. QED BY <2>1, RouteAlone DEF FlipInv
<1>3. CASE Run /\ ~StartRun
  <2>1. todo' \subseteq todo
    BY <1>3, FinishClears DEF Run, SendCreate, CreateDone, ReadCreated,
       UpdateRefused, SendUpdate, UpdateDone, ReadUpdated, SendTerminate,
       DeleteDone, TaskFailed, RequestNotFound, Request
  <2>2. QED BY <1>1, <2>1
<1>4. CASE NC2
  BY <1>1, <1>4 DEF NC2, CarryOut, TaskFails, DropLate, CarryOutLate
<1>5. CASE EditConfig \/ ReadFails \/ Fail
  BY <1>1, <1>5, FinishClears DEF EditConfig, ReadFails, Fail
<1>6. CASE Stabilize \/ \E id \in Clusters : Import(id) \/ ChangeOutside(id) \/ Settle(id)
  BY <1>1, <1>6 DEF Import, ChangeOutside, Stabilize, Settle
<1>7. CASE UNCHANGED vars
  BY <1>1, <1>7 DEF vars
<1>8. QED BY <1>2, <1>3, <1>4, <1>5, <1>6, <1>7 DEF Next

\* For every schema and history of failures, a hibernate or resume is never one
\* of several operations of a run.
THEOREM FlipsAlone == Spec => []FlipsAreAlone
<1>1. Init => FlipInv
  BY DEF Init, FlipInv
<1>2. FlipInv => FlipsAreAlone
  <2> SUFFICES ASSUME FlipInv, todo \cap Flips # {} PROVE Cardinality(todo) = 1
    BY DEF FlipsAreAlone, Flips
  <2>1. PICK op \in Flips : todo = {op} BY DEF FlipInv
  <2>2. QED BY <2>1, FS_Singleton
<1>3. QED BY <1>1, <1>2, FlipStep, PTL DEF Spec

-----------------------------------------------------------------------------

Creating == {"create", "create task", "read created"}
Holding == {"update", "update task", "delete", "delete task"}

\* The state is a resource, a run that creates has none to begin with, one that
\* updates or deletes has one; the job a deletion waits for is the termination of
\* that very cluster, and once it is done the cluster is gone.
KeepInv ==
  /\ state # None =>
       state = [id |-> state.id, attrs |-> state.attrs, tainted |-> state.tainted]
  /\ DOMAIN remote = Clusters
  /\ pc \in Creating => state = None
  /\ pc \in Holding => state # None
  /\ pc = "delete task" =>
       /\ \E st \in {"running", "done", "failed"} :
            job = [op |-> "terminate", id |-> state.id, body |-> Null, status |-> st]
       /\ job.status = "done" => state.id \in Clusters /\ ~Exists(state.id)

\* A resource is not None.
LEMMA ResourceIsSome ==
  ASSUME NEW i, NEW a, NEW t
  PROVE  [id |-> i, attrs |-> a, tainted |-> t] # None
<1>1. "id" \in DOMAIN [id |-> i, attrs |-> a, tainted |-> t] OBVIOUS
<1>2. "id" \notin DOMAIN None BY DEF None
<1>3. QED BY <1>1, <1>2

\* A resource with other attributes is the same resource.
LEMMA OtherAttributes ==
  ASSUME KeepInv, state # None, NEW read
  PROVE  /\ [state EXCEPT !.attrs = read] = [id |-> state.id, attrs |-> read,
                                             tainted |-> state.tainted]
         /\ [state EXCEPT !.attrs = read] # None
<1>1. state = [id |-> state.id, attrs |-> state.attrs, tainted |-> state.tainted]
  BY DEF KeepInv
<1>2. [state EXCEPT !.attrs = read] = [id |-> state.id, attrs |-> read,
                                       tainted |-> state.tainted]
  BY <1>1
<1>3. QED BY <1>2, ResourceIsSome

\* A step takes a cluster out of the state only if NC2 has it no more, or if a
\* refresh has not found it yet.
Kept ==
  state # None /\ (state' = None \/ state'.id # state.id) =>
    ~Exists(state.id) \/ (pc = "idle" /\ state.id \in settling)

\* A run that starts keeps the invariant; it forgets the cluster only on a 404.
LEMMA StartKeeps ==
  ASSUME KeepInv, StartRun
  PROVE  KeepInv' /\ Kept
<1>1. PICK found \in (IF state = None THEN {FALSE} ELSE Found(state.id)) :
        /\ state' = Refreshed(found) /\ remote' = remote /\ pc = "idle"
        /\ pc' \in {"idle", "delete", "create", "update"}
        /\ pc' = "create" => Refreshed(found) = None
        /\ pc' \in {"delete", "update"} => Refreshed(found) # None
  BY DEF StartRun, PlannedAction
<1>2. CASE found = FALSE
  <2>1. state' = None
    BY <1>1, <1>2 DEF Refreshed
  <2>2. state # None /\ Exists(state.id) => state.id \in settling
    BY <1>1, <1>2 DEF Found
  <2>3. KeepInv' BY <1>1, <1>2, <2>1 DEF KeepInv, Creating, Holding
  <2>4. QED BY <1>1, <2>2, <2>3 DEF Kept
<1>3. CASE found = TRUE
  <2>1. state # None
    BY <1>1, <1>3
  <2>2. state' = [state EXCEPT !.attrs = Decode(state.attrs, remote[state.id])]
    BY <1>1, <1>3 DEF Refreshed
  <2>3. /\ state' # None
        /\ state' = [id |-> state.id, attrs |-> Decode(state.attrs, remote[state.id]),
                     tainted |-> state.tainted]
    BY <2>1, <2>2, OtherAttributes
  <2>4. state'.id = state.id
        /\ state' = [id |-> state'.id, attrs |-> state'.attrs, tainted |-> state'.tainted]
    BY <2>3
  <2>5. KeepInv' BY <1>1, <2>3, <2>4 DEF KeepInv, Creating, Holding
  <2>6. QED BY <2>3, <2>4, <2>5 DEF Kept
<1>4. found \in BOOLEAN
  BY <1>1 DEF Found
<1>5. QED BY <1>2, <1>3, <1>4

\* The steps of a run: each keeps the invariant, and only DeleteDone takes a
\* cluster out of the state.
LEMMA RunKeeps ==
  ASSUME KeepInv, Run, ~StartRun
  PROVE  KeepInv' /\ Kept
<1> USE DEF KeepInv, Kept, Creating, Holding, Exists, nc2Vars
<1>1. CASE SendCreate BY <1>1 DEF SendCreate, Request
<1>2. CASE CreateDone BY <1>2 DEF CreateDone
<1>3. CASE ReadCreated
  <2>1. \E a, t : state' = [id |-> target, attrs |-> a, tainted |-> t]
    BY <1>3 DEF ReadCreated
  <2>2. state = None /\ pc' = "idle" /\ remote' = remote
    BY <1>3 DEF ReadCreated, Finish
  <2>3. QED BY <2>1, <2>2
<1>4. CASE UpdateRefused BY <1>4 DEF UpdateRefused, Finish
<1>5. CASE \E op \in Ops : SendUpdate(op) BY <1>5 DEF SendUpdate, Request
<1>6. CASE UpdateDone BY <1>6 DEF UpdateDone
<1>7. CASE ReadUpdated
  <2>1. PICK a : state' = [state EXCEPT !.attrs = a]
    BY <1>7 DEF ReadUpdated
  <2>2. pc' = "idle" /\ remote' = remote
    BY <1>7 DEF ReadUpdated, Finish
  <2>3. state # None
    BY <1>7 DEF ReadUpdated
  <2>4. /\ state' = [id |-> state.id, attrs |-> a, tainted |-> state.tainted]
        /\ state' # None
    BY <2>1, <2>3, OtherAttributes
  <2>5. state'.id = state.id /\ state'.attrs = a /\ state'.tainted = state.tainted
    BY <2>4
  <2>6. QED BY <2>2, <2>4, <2>5
<1>8. CASE SendTerminate BY <1>8 DEF SendTerminate, Request, Job
<1>9. CASE DeleteDone BY <1>9 DEF DeleteDone, Finish
<1>10. CASE TaskFailed BY <1>10 DEF TaskFailed, Finish
<1>11. CASE RequestNotFound BY <1>11 DEF RequestNotFound, Finish
<1>12. QED
  BY <1>1, <1>2, <1>3, <1>4, <1>5, <1>6, <1>7, <1>8, <1>9, <1>10, <1>11
  DEF Run

\* NC2 carries jobs out, and clusters change outside Terraform: neither gives
\* the id of a terminated cluster to another while the state has it.
LEMMA WorldKeeps ==
  ASSUME KeepInv,
         \/ NC2
         \/ EditConfig \/ ReadFails \/ Fail \/ Stabilize
         \/ \E id \in Clusters : ChangeOutside(id) \/ Settle(id)
  PROVE  KeepInv' /\ state' = state
<1> USE DEF KeepInv, Creating, Holding, Exists, nc2Vars
<1>1. ASSUME NEW id \in Clusters, CarryOut(id) PROVE KeepInv' /\ state' = state
  <2>1. CASE pc # "delete task" BY <1>1, <2>1 DEF CarryOut
  <2>2. CASE pc = "delete task"
    <3>1. job = [op |-> "terminate", id |-> state.id, body |-> Null,
                 status |-> "running"]
      <4>1. job.status = "running" BY <1>1 DEF CarryOut
      <4>2. PICK st \in {"running", "done", "failed"} :
              job = [op |-> "terminate", id |-> state.id, body |-> Null, status |-> st]
        BY <2>2
      <4>3. st = "running" BY <4>1, <4>2
      <4>4. QED BY <4>2, <4>3
    <3>2. id = state.id /\ Effect(job, id) = None
      <4>1. job.op = "terminate" /\ job.id = state.id BY <3>1
      <4>2. QED BY <1>1, <4>1 DEF CarryOut, Subject, Effect, FieldOps
    <3>3. job' = [op |-> "terminate", id |-> state.id, body |-> Null,
                  status |-> "done"]
      BY <1>1, <3>1, <3>2 DEF CarryOut
    <3>4. remote'[state.id] = None /\ DOMAIN remote' = Clusters
      BY <1>1, <3>2 DEF CarryOut
    <3>5. pc' = pc /\ state' = state /\ state # None /\ state.id \in Clusters
      BY <1>1, <2>2, <3>2 DEF CarryOut
    <3>6. QED BY <2>2, <3>3, <3>4, <3>5
  <2>3. QED BY <2>1, <2>2
<1>2. CASE TaskFails
  <2>1. CASE pc # "delete task" BY <1>2, <2>1 DEF TaskFails
  <2>2. CASE pc = "delete task"
    <3>1. PICK st \in {"running", "done", "failed"} :
            job = [op |-> "terminate", id |-> state.id, body |-> Null, status |-> st]
      BY <2>2
    <3>2. job' = [op |-> "terminate", id |-> state.id, body |-> Null,
                  status |-> "failed"]
      BY <1>2, <3>1 DEF TaskFails
    <3>3. QED BY <1>2, <2>2, <3>2 DEF TaskFails
  <2>3. QED BY <2>1, <2>2
<1>3. ASSUME NEW j \in late, NEW id \in Clusters, CarryOutLate(j, id)
      PROVE KeepInv' /\ state' = state
  <2>1. pc \in Holding => Exists(id) \/ id # state.id
    BY <1>3 DEF CarryOutLate, Subject, Free
  <2>2. /\ state' = state /\ pc' = pc /\ job' = job
        /\ remote' = [remote EXCEPT ![id] = Effect(j, id)]
    BY <1>3 DEF CarryOutLate
  <2>3. pc = "delete task" /\ job.status = "done" => remote'[state.id] = remote[state.id]
    BY <2>1, <2>2
  <2>4. QED BY <2>2, <2>3
<1>4. ASSUME NEW j \in late, DropLate(j) PROVE KeepInv' /\ state' = state
  BY <1>4 DEF DropLate
<1>5. CASE EditConfig BY <1>5 DEF EditConfig
<1>6. CASE ReadFails BY <1>6 DEF ReadFails
<1>7. CASE Fail BY <1>7 DEF Fail, Finish
<1>8. CASE Stabilize BY <1>8 DEF Stabilize
<1>9. ASSUME NEW id \in Clusters, ChangeOutside(id) PROVE KeepInv' /\ state' = state
  <2>1. \E c : remote' = [remote EXCEPT ![id] = c]
    BY <1>9 DEF ChangeOutside
  <2>2. state' = state /\ pc' = pc /\ job' = job /\ Exists(id)
    BY <1>9 DEF ChangeOutside
  <2>3. pc = "delete task" /\ job.status = "done" => remote'[state.id] = remote[state.id]
    BY <2>1, <2>2
  <2>4. QED BY <2>1, <2>2, <2>3
<1>10. ASSUME NEW id \in Clusters, Settle(id) PROVE KeepInv' /\ state' = state
  BY <1>10 DEF Settle
<1>11. QED
  BY <1>1, <1>2, <1>3, <1>4, <1>5, <1>6, <1>7, <1>8, <1>9, <1>10 DEF NC2

LEMMA KeepInit == Init => KeepInv
BY DEF Init, KeepInv, Creating, Holding

LEMMA KeepStep ==
  ASSUME KeepInv, [Next]_vars
  PROVE  KeepInv' /\ Kept
<1>1. CASE StartRun BY <1>1, StartKeeps
<1>2. CASE Run /\ ~StartRun BY <1>2, RunKeeps
<1>3. CASE \E id \in Clusters : Import(id)
  <2>1. state = None /\ pc' = "idle" /\ remote' = remote /\ state'.id \in Clusters
        /\ state' = [id |-> state'.id, attrs |-> state'.attrs,
                     tainted |-> state'.tainted]
    BY <1>3 DEF Import
  <2>2. QED BY <2>1 DEF KeepInv, Kept, Creating, Holding
<1>4. CASE \/ NC2
           \/ EditConfig \/ ReadFails \/ Fail \/ Stabilize
           \/ \E id \in Clusters : ChangeOutside(id) \/ Settle(id)
  <2>1. KeepInv' /\ state' = state BY <1>4, WorldKeeps
  <2>2. QED BY <2>1 DEF Kept
<1>5. CASE UNCHANGED vars
  BY <1>5 DEF vars, KeepInv, Kept, Creating, Holding, Exists
<1>6. QED BY <1>1, <1>2, <1>3, <1>4, <1>5 DEF Next

\* Whatever fails, is lost or changes behind the provider: a cluster leaves the
\* state only once NC2 no longer has it, or at a refresh that is told it is not
\* there while its creation settles.
THEOREM KeptInState == Spec => KeptWhileSeen
<1>1. KeepInv /\ [Next]_vars => KeepInv' /\ [Kept]_vars
  BY KeepStep
<1>2. QED BY KeepInit, <1>1, PTL DEF Spec, KeptWhileSeen, Kept

=============================================================================
