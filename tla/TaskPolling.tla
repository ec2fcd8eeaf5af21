----------------------------- MODULE TaskPolling -----------------------------
(***************************************************************************)
(* internal/client/tasks.go: one call of PollTask against one NC2 task.    *)
(* Every resource operation that NC2 answers with a task waits in this     *)
(* loop.  The call starts at time 0 with the task in any state, so its     *)
(* deadline is Timeout.                                                    *)
(*                                                                         *)
(* A poll is one attempt of ApiClient's do.  Of its result only what the   *)
(* loop looks at is kept.                                                  *)
(***************************************************************************)
EXTENDS Naturals

CONSTANTS
  Interval,      \* Config.TaskPollInterval
  Timeout,       \* Config.TaskMaxTimeout
  Latency,       \* how long a prompt round trip takes at most
  MaxTime        \* bound of the clock

ASSUME PollingAssumption ==
  /\ Interval \in Nat \ {0}
  /\ Timeout \in Nat
  /\ Latency \in Nat
  /\ MaxTime \in Nat

VARIABLES
  now,           \* the clock
  task,          \* the task at NC2
  forgotten,     \* NC2 no longer knows the task
  endedAt,       \* history: when the task became terminal
  cancelled,     \* the caller's own context was cancelled
  at,            \* where the loop is
  polls,         \* history: requests sent
  sentAt,        \* when the last of them was sent
  reply,         \* NC2's answer to it, not yet taken
  last,          \* lastResult.Status, "" before the first poll
  wakeAt,        \* when time.After fires
  outcome,       \* what PollTask returned
  prompt         \* history: the host and the server have been prompt so far

vars == <<now, task, forgotten, endedAt, cancelled, at, polls, sentAt, reply,
          last, wakeAt, outcome, prompt>>

Wait == INSTANCE TaskWait WITH
  verdict <- IF outcome \in {"none", "done", "failed"} THEN outcome
             ELSE "unknown"

\* Seeded fault for IsTerminal: whatever is not "running" ends the loop.
NotRunning(status) == status # "running"

\* Seeded fault for IsTerminal: a finished task is not seen to be.
EndsInFailure(status) == status \in {"failed", "canceled"}

\* TaskStatus.IsTerminal, in the provider's own spelling.
IsTerminal(status) == status \in {"done", "failed", "canceled"}

Deadline == Timeout
DeadlinePassed == now >= Deadline

\* Seeded fault for ContextDone: the wait has no deadline of its own.
NoDeadline == cancelled

\* pollCtx.Done() is closed.
ContextDone == cancelled \/ DeadlinePassed

\* A host that is not overloaded and a server that answers: time does not pass
\* while the loop has a step to take, nor longer than Latency while a request
\* is out.
Urgent ==
  \/ at = "poll"
  \/ at = "sent" /\ (reply # "none" \/ ContextDone \/ now >= sentAt + Latency)
  \/ at = "wait" /\ (now >= wakeAt \/ ContextDone)

\* The step is one of a prompt host and server, if timely.
Promptly(timely) == prompt' = (prompt /\ timely)

Replies == Wait!Statuses \cup {"", "not found", "error status"}

Init ==
  /\ now = 0
  /\ task \in Wait!Statuses
  /\ forgotten = FALSE
  /\ endedAt = 0
  /\ cancelled = FALSE
  /\ at = "poll"
  /\ polls = 0
  /\ sentAt = 0
  /\ reply = "none"
  /\ last = ""
  /\ wakeAt = 0
  /\ outcome = "none"
  /\ prompt = TRUE

-----------------------------------------------------------------------------
(* The loop.                                                               *)

Return(out) ==
  /\ at' = "returned"
  /\ outcome' = out
  /\ UNCHANGED <<polls, sentAt, wakeAt>>

\* do sends nothing without a token, and Token refuses a context that is done.
\* The credentials may be refused as well.
NoTokenForPoll ==
  /\ at = "poll"
  /\ Return("error")
  /\ Promptly(ContextDone)
  /\ UNCHANGED <<now, task, forgotten, endedAt, cancelled, reply, last>>

SendPoll ==
  /\ at = "poll"
  /\ ~ContextDone
  /\ at' = "sent"
  /\ sentAt' = now
  /\ polls' = polls + 1
  /\ UNCHANGED <<now, task, forgotten, endedAt, cancelled, reply, last, wakeAt,
                 outcome, prompt>>

\* The round trip fails: the context, RequestTimeout or the connection.
PollTransportError ==
  /\ at = "sent"
  /\ reply' = "none"
  /\ Return("error")
  /\ Promptly(ContextDone)
  /\ UNCHANGED <<now, task, forgotten, endedAt, cancelled, last>>

PollBodyError ==
  /\ at = "sent"
  /\ reply # "none"
  /\ reply' = "none"
  /\ Return("error")
  /\ Promptly(ContextDone)
  /\ UNCHANGED <<now, task, forgotten, endedAt, cancelled, last>>

\* Any status of 400 and more ends the loop at once; the error names the path.
ReceiveError ==
  /\ at = "sent"
  /\ reply \in {"not found", "error status"}
  /\ reply' = "none"
  /\ Return("error")
  /\ UNCHANGED <<now, task, forgotten, endedAt, cancelled, last, prompt>>

\* Seeded fault for ReceiveStatus: every terminal status is taken for success.
ReceiveAsDone ==
  /\ at = "sent"
  /\ reply \in Wait!Statuses \cup {""}
  /\ reply' = "none"
  /\ last' = reply
  /\ IF IsTerminal(reply)
       THEN Return("done")
       ELSE /\ at' = "wait"
            /\ wakeAt' = now + Interval
            /\ UNCHANGED <<polls, sentAt, outcome>>
  /\ UNCHANGED <<now, task, forgotten, endedAt, cancelled, prompt>>

\* Seeded fault for ReceiveStatus: the polls keep to a fixed schedule, and make
\* up for one that was late.
ReceiveOnSchedule ==
  /\ at = "sent"
  /\ reply \in Wait!Statuses \cup {""}
  /\ reply' = "none"
  /\ last' = reply
  /\ IF IsTerminal(reply)
       THEN Return(reply)
       ELSE /\ at' = "wait"
            /\ wakeAt' = wakeAt + Interval
            /\ UNCHANGED <<polls, sentAt, outcome>>
  /\ UNCHANGED <<now, task, forgotten, endedAt, cancelled, prompt>>

ReceiveStatus ==
  /\ at = "sent"
  /\ reply \in Wait!Statuses \cup {""}
  /\ reply' = "none"
  /\ last' = reply
  /\ IF IsTerminal(reply)
       THEN Return(reply)
       ELSE /\ at' = "wait"
            /\ wakeAt' = now + Interval
            /\ UNCHANGED <<polls, sentAt, outcome>>
  /\ UNCHANGED <<now, task, forgotten, endedAt, cancelled, prompt>>

\* When both cases of the select are ready, Go picks either.
Wake ==
  /\ at = "wait"
  /\ now >= wakeAt
  /\ at' = "poll"
  /\ UNCHANGED <<now, task, forgotten, endedAt, cancelled, reply, polls,
                 sentAt, last, wakeAt, outcome, prompt>>

GiveUp ==
  /\ at = "wait"
  /\ ContextDone
  /\ Return("timeout")
  /\ UNCHANGED <<now, task, forgotten, endedAt, cancelled, reply, last, prompt>>

Loop ==
  \/ NoTokenForPoll \/ SendPoll \/ PollTransportError \/ PollBodyError
  \/ ReceiveError \/ ReceiveStatus \/ Wake \/ GiveUp

-----------------------------------------------------------------------------
(* The environment.                                                        *)

Tick ==
  /\ now < MaxTime
  /\ now' = now + 1
  /\ Promptly(~Urgent)
  /\ UNCHANGED <<task, forgotten, endedAt, cancelled, reply, at, polls, sentAt,
                 last, wakeAt, outcome>>

TaskAdvances ==
  /\ task' \in Wait!Successors(task)
  /\ endedAt' = IF task' \in Wait!Terminal THEN now ELSE endedAt
  /\ UNCHANGED <<now, forgotten, cancelled, reply, at, polls, sentAt, last,
                 wakeAt, outcome, prompt>>

\* The task's record is removed (retention, or out of band).
Forget ==
  /\ ~forgotten
  /\ forgotten' = TRUE
  /\ Promptly(FALSE)
  /\ UNCHANGED <<now, task, endedAt, cancelled, reply, at, polls, sentAt, last,
                 wakeAt, outcome>>

CancelCaller ==
  /\ at # "returned"
  /\ ~cancelled
  /\ cancelled' = TRUE
  /\ UNCHANGED <<now, task, forgotten, endedAt, reply, at, polls, sentAt, last,
                 wakeAt, outcome, prompt>>

\* NC2 reads the task's status when it answers.  A body without the fields of
\* the task envelope gives the status "".
AnswerStatus ==
  /\ at = "sent"
  /\ reply = "none"
  /\ reply' = IF forgotten THEN "not found" ELSE task
  /\ UNCHANGED <<now, task, forgotten, endedAt, cancelled, at, polls, sentAt,
                 last, wakeAt, outcome, prompt>>

AnswerBadly ==
  /\ at = "sent"
  /\ reply = "none"
  /\ reply' \in {"", "error status"}
  /\ Promptly(FALSE)
  /\ UNCHANGED <<now, task, forgotten, endedAt, cancelled, at, polls, sentAt,
                 last, wakeAt, outcome>>

Next ==
  \/ Loop
  \/ AnswerStatus \/ AnswerBadly
  \/ Tick \/ TaskAdvances \/ Forget \/ CancelCaller

Spec == Init /\ [][Next]_vars

\* The goroutine runs and time passes; every round trip ends, at the latest by
\* RequestTimeout.
FairSpec == Spec /\ WF_vars(Loop) /\ WF_vars(Tick)

-----------------------------------------------------------------------------

\* The types of the loop's variables and of the task it polls.
TypeOK ==
  /\ now \in Nat
  /\ task \in Wait!Statuses
  /\ forgotten \in BOOLEAN
  /\ endedAt \in Nat
  /\ cancelled \in BOOLEAN
  /\ at \in {"poll", "sent", "wait", "returned"}
  /\ polls \in Nat
  /\ sentAt \in Nat
  /\ reply \in Replies \cup {"none"}
  /\ last \in Wait!Statuses \cup {""}
  /\ wakeAt \in Nat
  /\ outcome \in {"none", "done", "failed", "canceled", "error", "timeout"}
  /\ prompt \in BOOLEAN

\* The loop gives a true verdict or none: late answers, a task that ends while
\* its status is on the wire, or that is forgotten, never make it report done
\* or failed for a task that did not end so.
ImplementsWait == Wait!Spec

\* A request is sent at least TaskPollInterval after the one before it, however
\* late the goroutine, the server or the timer is: no burst follows a delay.
PollsArePaced ==
  [][polls' # polls /\ polls > 0 => sentAt' >= sentAt + Interval]_vars

\* As long as host and server are prompt, a task that ended early enough for one
\* more poll is never reported as timed out: the poll that missed its end was
\* answered within Latency, and the next one, an interval later, is answered
\* before the deadline.
NoMissedEnd ==
  prompt /\ at = "returned" /\ ~cancelled /\ task \in {"done", "failed"}
    /\ endedAt + Interval + 2 * Latency < Deadline => outcome = task

\* PollTask returns whatever NC2 answers, and when it never answers.
PollReturns == <>(at = "returned")

\* docs/guides/async-and-tasks.md:18, "PollTask waits for any of done, failed,
\* or cancelled": the loop does not wait on after it has seen one of them.
TerminalStatusEndsPolling == at = "wait" => last \notin Wait!Terminal

=============================================================================
