------------------------- MODULE ActionRunnerProofs -------------------------
(***************************************************************************)
(* EffectsAccounted of ActionRunner for every number of invocations.  What *)
(* makes it inductive is that effects still to come are counted too: those *)
(* of the tasks nobody waits for (late), and of the task that is done but  *)
(* not yet reported (Unreported).                                          *)
(***************************************************************************)
EXTENDS ActionRunner, TLAPS

Unreported == IF at = "waiting" /\ task = "done" THEN 1 ELSE 0

RunnerTypeOK ==
  /\ op \in Operations
  /\ at \in {"idle", "waiting"}
  /\ task \in Wait!Statuses
  /\ late \in Nat
  /\ level \in Nat
  /\ successes \in Nat
  /\ failures \in Nat
  /\ doubts \in Nat

\* What the wait said is how the task ended.
VerdictAgrees ==
  at = "waiting" =>
    /\ verdict = "done" => task = "done"
    /\ verdict = "failed" => task = "failed"

\* The effects of an operation that adds, those to come among them.
AddedOnce ==
  Adds =>
    /\ successes + Unreported <= level
    /\ level + late <= successes + doubts + Unreported

\* The effect of an operation that brings about what it names.
DoneForAReason ==
  ~Adds =>
    /\ level \in {0, 1}
    /\ successes + Unreported > 0 => level = 1
    /\ level + late > 0 => successes + doubts + Unreported > 0

RunnerInv == RunnerTypeOK /\ VerdictAgrees /\ AddedOnce /\ DoneForAReason

-----------------------------------------------------------------------------

\* Every operation that starts a task is waited for.
LEMMA WaitedFor ==
  ASSUME op \in Operations, StartsTask
  PROVE  op.pollTask
<1>1. op.resource # "notification"
  BY DEF StartsTask
<1>2. op # AcknowledgeNotification
  BY <1>1 DEF AcknowledgeNotification, Asks
<1>3. op.pollTask = TRUE
  BY <1>2 DEF Operations, OpenSupportTunnel, CloseSupportTunnel, ExtendSupportTunnel,
         CondemnHost, ScaleFlowGateway, UpgradeFlowGateway, StartRecovery, Asks
<1> QED BY <1>3, Zenon

LEMMA InitInv == RunnerInit => RunnerInv
  BY DEF RunnerInit, RunnerInv, RunnerTypeOK, VerdictAgrees, AddedOnce, DoneForAReason,
         Unreported, Wait!Statuses, Wait!Terminal

\* The wait itself: a task that ended stays as it is, and is what is decided.
LEMMA WaitStep ==
  ASSUME RunnerTypeOK, VerdictAgrees, at = "waiting", Wait!Next
  PROVE  /\ task' \in Wait!Statuses
         /\ verdict' = "done" => task' = "done"
         /\ verdict' = "failed" => task' = "failed"
         /\ task = "done" => task' = "done"
  BY DEF RunnerTypeOK, VerdictAgrees, Wait!Next, Wait!Advance, Wait!Decide,
         Wait!Successors, Wait!Statuses, Wait!Terminal

\* Every step keeps the invariant.
LEMMA StepInv == RunnerInv /\ [RunnerNext]_runnerVars => RunnerInv'
<1> SUFFICES ASSUME RunnerInv, [RunnerNext]_runnerVars PROVE RunnerInv'
    OBVIOUS
<1> USE DEF RunnerInv, RunnerTypeOK, Unreported
<1>1. StartsTask => op.pollTask
  BY WaitedFor
<1>2. CASE InvokeFails
  <2>1. op' = op /\ at' = "idle" /\ at = "idle" /\ doubts' = doubts + 1
        /\ successes' = successes /\ failures' = failures /\ task' = task /\ verdict' = verdict
    BY <1>2 DEF InvokeFails, Ready, taskVars
  <2>2. \/ late' = late + 1 /\ level' = level
        \/ late' = late /\ level' = (IF Adds THEN level + 1 ELSE 1)
        \/ late' = late /\ level' = level
    BY <1>2 DEF InvokeFails, OnItsOwn, CarriedOut
  <2> QED BY <2>1, <2>2 DEF VerdictAgrees, AddedOnce, DoneForAReason, Adds
<1>3. CASE InvokeSucceeds
  <2>1. op' = op /\ at' = "idle" /\ at = "idle" /\ successes' = successes + 1
        /\ doubts' = doubts /\ failures' = failures /\ task' = task /\ verdict' = verdict
    BY <1>3 DEF InvokeSucceeds, Ready, taskVars
  <2>2. late' = late /\ level' = (IF Adds THEN level + 1 ELSE 1)
    BY <1>1, <1>3 DEF InvokeSucceeds, OnItsOwn, CarriedOut
  <2> QED BY <2>1, <2>2 DEF VerdictAgrees, AddedOnce, DoneForAReason, Adds
<1>4. CASE InvokeWaits
  <2>1. op' = op /\ at = "idle" /\ at' = "waiting" /\ task' = "pending" /\ verdict' = "none"
        /\ late' = late /\ level' = level
        /\ successes' = successes /\ failures' = failures /\ doubts' = doubts
    BY <1>4 DEF InvokeWaits, Ready, counters
  <2> QED BY <2>1 DEF VerdictAgrees, AddedOnce, DoneForAReason, Adds, Wait!Statuses
<1>5. CASE Poll
  <2>1. op' = op /\ at = "waiting" /\ at' = "waiting" /\ late' = late
        /\ successes' = successes /\ failures' = failures /\ doubts' = doubts
        /\ level' = (IF task # "done" /\ task' = "done"
                     THEN (IF Adds THEN level + 1 ELSE 1) ELSE level)
    BY <1>5 DEF Poll, counters, CarriedOut
  <2>2. /\ task' \in Wait!Statuses
        /\ verdict' = "done" => task' = "done"
        /\ verdict' = "failed" => task' = "failed"
        /\ task = "done" => task' = "done"
    BY <1>5, <2>1, WaitStep DEF Poll
  <2> QED BY <2>1, <2>2 DEF VerdictAgrees, AddedOnce, DoneForAReason, Adds
<1>6. CASE Report
  <2>1. op' = op /\ at = "waiting" /\ at' = "idle" /\ task' = task /\ verdict' = verdict
        /\ level' = level
        /\ late' = (IF task \in Wait!Terminal THEN late ELSE late + 1)
    BY <1>6 DEF Report, taskVars
  <2>2. \/ /\ task = "done"
           /\ successes' = successes + 1 /\ failures' = failures /\ doubts' = doubts
        \/ /\ task = "failed"
           /\ failures' = failures + 1 /\ successes' = successes /\ doubts' = doubts
        \/ doubts' = doubts + 1 /\ successes' = successes /\ failures' = failures
    BY <1>6 DEF Report, Succeeded, VerdictAgrees
  <2>3. late' \in Nat /\ (task = "done" => late' = late) /\ (late' = late \/ late' = late + 1)
        /\ successes' \in Nat /\ failures' \in Nat /\ doubts' \in Nat
    BY <2>1, <2>2 DEF Wait!Terminal
  <2>4. RunnerTypeOK'
    BY <2>1, <2>3
  <2>5. VerdictAgrees'
    BY <2>1 DEF VerdictAgrees
  <2>6. Adds' = Adds
    BY <2>1 DEF Adds
  <2>7. Unreported' = 0
    BY <2>1
  <2>8. CASE task = "done"
    <3>1. late' = late /\ Unreported = 1
      BY <2>1, <2>3, <2>8
    <3>2. \/ successes' = successes + 1 /\ doubts' = doubts
          \/ doubts' = doubts + 1 /\ successes' = successes
      BY <2>2, <2>8
    <3>3. AddedOnce'
      BY <2>1, <2>6, <2>7, <3>1, <3>2 DEF AddedOnce
    <3>4. DoneForAReason'
      BY <2>1, <2>6, <2>7, <3>1, <3>2 DEF DoneForAReason
    <3> QED BY <2>4, <2>5, <3>3, <3>4
  <2>9. CASE task = "failed"
    <3>1. late' = late /\ Unreported = 0
      BY <2>1, <2>9 DEF Wait!Terminal
    <3>2. \/ successes' = successes /\ doubts' = doubts
          \/ doubts' = doubts + 1 /\ successes' = successes
      BY <2>2, <2>9
    <3>3. AddedOnce'
      BY <2>1, <2>6, <2>7, <3>1, <3>2 DEF AddedOnce
    <3>4. DoneForAReason'
      BY <2>1, <2>6, <2>7, <3>1, <3>2 DEF DoneForAReason
    <3> QED BY <2>4, <2>5, <3>3, <3>4
  <2>10. CASE task # "done" /\ task # "failed"
    <3>1. Unreported = 0
      BY <2>10
    <3>2. doubts' = doubts + 1 /\ successes' = successes
      BY <2>2, <2>10
    <3>3. AddedOnce'
      BY <2>1, <2>3, <2>6, <2>7, <3>1, <3>2 DEF AddedOnce
    <3>4. DoneForAReason'
      BY <2>1, <2>3, <2>6, <2>7, <3>1, <3>2 DEF DoneForAReason
    <3> QED BY <2>4, <2>5, <3>3, <3>4
  <2> QED BY <2>8, <2>9, <2>10
<1>7. CASE LateEnd
  <2>1. op' = op /\ at' = at /\ task' = task /\ verdict' = verdict /\ late > 0
        /\ late' = late - 1
        /\ successes' = successes /\ failures' = failures /\ doubts' = doubts
    BY <1>7 DEF LateEnd, taskVars, counters
  <2>2. \/ level' = level
        \/ op.argument = "duration_hours" /\ level' = level + 1
        \/ op.argument # "duration_hours" /\ level' = 1
    BY <1>7 DEF LateEnd, CarriedOut, Adds
  <2>3. late' \in Nat /\ level' \in Nat
    BY <2>1, <2>2
  <2>4. RunnerTypeOK' /\ VerdictAgrees'
    BY <2>1, <2>3 DEF VerdictAgrees
  <2>5. Unreported' = Unreported /\ Unreported \in Nat
    BY <2>1
  <2>6. Adds' = Adds
    BY <2>1 DEF Adds
  <2>7. level + late \in Nat
    OBVIOUS
  <2>8. CASE level' = level
    <3>1. level' + late' <= level + late
      BY <2>1, <2>8
    <3> HIDE DEF Unreported
    <3>2. AddedOnce'
      BY <2>1, <2>5, <2>6, <3>1, <2>8 DEF AddedOnce
    <3>3. DoneForAReason'
      BY <2>1, <2>3, <2>5, <2>6, <3>1, <2>8 DEF DoneForAReason
    <3> QED BY <2>4, <3>2, <3>3
  <2>9. CASE op.argument = "duration_hours" /\ level' = level + 1
    <3>1. level' + late' = level + late /\ Adds
      BY <2>1, <2>9 DEF Adds
    <3> HIDE DEF Unreported
    <3>2. AddedOnce'
      BY <2>1, <2>5, <2>6, <2>9, <3>1 DEF AddedOnce
    <3>3. DoneForAReason'
      BY <2>6, <3>1 DEF DoneForAReason
    <3> QED BY <2>4, <3>2, <3>3
  <2>10. CASE op.argument # "duration_hours" /\ level' = 1
    <3>1. ~Adds /\ level + late > 0
      BY <2>1, <2>10 DEF Adds
    <3> HIDE DEF Unreported
    <3>2. AddedOnce'
      BY <2>6, <3>1 DEF AddedOnce
    <3>3. DoneForAReason'
      BY <2>1, <2>5, <2>6, <2>10, <3>1 DEF DoneForAReason
    <3> QED BY <2>4, <3>2, <3>3
  <2> QED BY <2>2, <2>8, <2>9, <2>10
<1>8. CASE UNCHANGED runnerVars
  BY <1>8 DEF runnerVars, taskVars, counters, VerdictAgrees, AddedOnce, DoneForAReason, Adds
<1> QED BY <1>2, <1>3, <1>4, <1>5, <1>6, <1>7, <1>8 DEF RunnerNext

\* The invariant is stronger than the property.
LEMMA InvSuffices == RunnerInv => EffectsAccounted
  BY DEF RunnerInv, RunnerTypeOK, AddedOnce, DoneForAReason, Unreported, EffectsAccounted

\* What the actions report is what NC2 has done, however often they are invoked,
\* and whatever of a request, an answer or a wait is lost (runner.go, Invoke).
THEOREM RunnerEffectsAccounted == RunnerSpec => []EffectsAccounted
<1>1. RunnerInv /\ [RunnerNext]_runnerVars => RunnerInv'
  BY StepInv
<1> QED BY InitInv, <1>1, InvSuffices, PTL DEF RunnerSpec

=============================================================================
