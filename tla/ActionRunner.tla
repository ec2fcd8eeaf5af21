---------------------------- MODULE ActionRunner ----------------------------
(***************************************************************************)
(* The actions: one-shot requests whose effects Terraform keeps no state   *)
(* of (internal/actions).  All of them go through one runner, which waits  *)
(* for the task the answer names.  A user who sees an error invokes the    *)
(* action again, while the task of before may still be carried out; most   *)
(* operations bring about what they name, extending the support tunnel     *)
(* adds to what is there.                                                  *)
(***************************************************************************)
EXTENDS Naturals

CONSTANT MaxInvocations   \* bound of the invocations of one action

VARIABLES
  op,           \* the action that is invoked
  at,           \* "idle", or "waiting" for a task
  task,         \* the task waited for
  verdict,      \* what the wait has said of it
  late,         \* tasks nobody waits for
  level,        \* how far NC2 has carried the operation out
  successes,    \* invocations reported as successes
  failures,     \* invocations whose task was reported failed
  doubts        \* invocations with another error

taskVars == <<task, verdict>>
counters == <<successes, failures, doubts>>
runnerVars == <<op, at, taskVars, late, level, counters>>

Wait == INSTANCE TaskWait

-----------------------------------------------------------------------------
(* What each action asks for: the resource in its path, its argument, and  *)
(* whether the answer names a task to wait for.                            *)

Asks(resource, request, argument, pollTask) ==
  [resource |-> resource, request |-> request, argument |-> argument, pollTask |-> pollTask]

OpenSupportTunnel == Asks("cluster", "open-support-tunnel", "none", TRUE)

CloseSupportTunnel == Asks("cluster", "close-support-tunnel", "none", TRUE)

ExtendSupportTunnel == Asks("cluster", "extend-support-tunnel", "duration_hours", TRUE)

CondemnHost == Asks("cluster", "condemn-host", "host_id", TRUE)

ScaleFlowGateway == Asks("cluster", "scale-out-fgw", "target_node_count", TRUE)

UpgradeFlowGateway == Asks("cluster", "upgrade-fgw", "none", TRUE)

StartRecovery == Asks("cluster", "start-recovery", "none", TRUE)

AcknowledgeNotification == Asks("notification", "update", "acknowledged", FALSE)

Operations ==
  {OpenSupportTunnel, CloseSupportTunnel, ExtendSupportTunnel, CondemnHost,
   ScaleFlowGateway, UpgradeFlowGateway, StartRecovery, AcknowledgeNotification}

-----------------------------------------------------------------------------
(* NC2: the requests for a cluster start a task (openapi.json).            *)

StartsTask == op.resource = "cluster"

Adds == op.argument = "duration_hours"

CarriedOut == IF Adds THEN level + 1 ELSE 1

RunnerInit ==
  /\ op \in Operations
  /\ at = "idle"
  /\ task = "pending"
  /\ verdict = "none"
  /\ late = 0
  /\ level = 0
  /\ successes = 0
  /\ failures = 0
  /\ doubts = 0

\* NC2 does what nobody waits for, now or as a task.
OnItsOwn ==
  \/ StartsTask /\ late' = late + 1 /\ UNCHANGED level
  \/ level' = CarriedOut /\ UNCHANGED late

Ready == at = "idle" /\ successes + failures + doubts < MaxInvocations

\* Invoke, whose request fails: it may have been carried out.
InvokeFails ==
  /\ Ready
  /\ doubts' = doubts + 1
  /\ OnItsOwn \/ UNCHANGED <<late, level>>
  /\ UNCHANGED <<op, at, taskVars, successes, failures>>

\* Invoke, whose answer names no task, or one the runner does not wait for.
InvokeSucceeds ==
  /\ Ready
  /\ OnItsOwn
  /\ late' # late => ~op.pollTask
  /\ successes' = successes + 1
  /\ UNCHANGED <<op, at, taskVars, failures, doubts>>

\* Invoke, whose answer names the task to wait for.
InvokeWaits ==
  /\ Ready
  /\ StartsTask
  /\ op.pollTask
  /\ at' = "waiting"
  /\ task' = "pending"
  /\ verdict' = "none"
  /\ UNCHANGED <<op, late, level, counters>>

\* The task goes on, or its wait ends (TaskPolling).
Poll ==
  /\ at = "waiting"
  /\ Wait!Next
  /\ level' = IF task # "done" /\ task' = "done" THEN CarriedOut ELSE level
  /\ UNCHANGED <<op, at, late, counters>>

\* Seeded fault for Succeeded: only a failed task is an error.
NotFailed == verdict # "failed"

Succeeded == verdict = "done"

\* The wait ended: a diagnostic, and the invocation is over.
Report ==
  /\ at = "waiting"
  /\ verdict # "none"
  /\ at' = "idle"
  /\ late' = IF task \in Wait!Terminal THEN late ELSE late + 1
  /\ IF Succeeded THEN successes' = successes + 1 /\ UNCHANGED <<failures, doubts>>
     ELSE IF verdict = "failed" THEN failures' = failures + 1 /\ UNCHANGED <<successes, doubts>>
     ELSE doubts' = doubts + 1 /\ UNCHANGED <<successes, failures>>
  /\ UNCHANGED <<op, taskVars, level>>

\* A task nobody waits for ends.
LateEnd ==
  /\ late > 0
  /\ late' = late - 1
  /\ level' \in {level, CarriedOut}
  /\ UNCHANGED <<op, at, taskVars, counters>>

RunnerNext ==
  InvokeFails \/ InvokeSucceeds \/ InvokeWaits \/ Poll \/ Report \/ LateEnd

RunnerSpec == RunnerInit /\ [][RunnerNext]_runnerVars

\* spec.md:222 (FR-017), an action reports how its task came out: a success
\* has been carried out when it is reported, a failed task never is, and an
\* operation that adds is carried out once for each success and at most once
\* more for each other error.
EffectsAccounted ==
  LET most == successes + doubts + (IF at = "waiting" THEN 1 ELSE 0)
  IN IF Adds THEN successes <= level /\ level <= most
     ELSE (successes > 0 => level = 1) /\ (level = 1 => most > 0)

=============================================================================
