------------------------------ MODULE TaskWait -------------------------------
(***************************************************************************)
(* What a resource may rely on when it waits for an asynchronous NC2 task  *)
(* (internal/client.PollTask): one verdict, which names success only for a *)
(* task that succeeded and failure only for a task that failed, and which  *)
(* may at any time be that the outcome is unknown.                         *)
(***************************************************************************)

VARIABLES
  task,          \* the task at NC2
  verdict        \* what the waiting caller was told

vars == <<task, verdict>>

\* The statuses of the NC2 API, in its own spelling.
Terminal == {"done", "failed", "cancelled"}
Statuses == {"pending", "running"} \cup Terminal

\* The types of the task and of the verdict.
TypeOK ==
  /\ task \in Statuses
  /\ verdict \in {"none", "done", "failed", "unknown"}

Init ==
  /\ task \in Statuses
  /\ verdict = "none"

Successors(status) ==
  IF status = "pending" THEN {"running", "failed", "cancelled"}
  ELSE IF status = "running" THEN Terminal
  ELSE {}

Advance ==
  /\ task' \in Successors(task)
  /\ UNCHANGED verdict

Decide ==
  /\ verdict = "none"
  /\ \/ verdict' = "unknown"
     \/ task \in {"done", "failed"} /\ verdict' = task
  /\ UNCHANGED task

Next == Advance \/ Decide

Spec == Init /\ [][Next]_vars

\* A verdict is final and agrees with what the task came to, then and later.
VerdictIsTrue ==
  [][/\ verdict # "none" => verdict' = verdict
     /\ verdict' \in {"done", "failed"} => task' = verdict']_vars

=============================================================================
