-------------------------- MODULE TaskPollingProofs --------------------------
(***************************************************************************)
(* Proofs about TaskPolling for every interval, timeout, latency and clock *)
(* bound: PollTask implements TaskWait and its requests are paced, at any  *)
(* timing; and a prompt one misses no end that comes in time.              *)
(***************************************************************************)
EXTENDS TaskPolling, Integers, TLAPS

\* What the loop holds of the task is true: a terminal status, once seen, is
\* the task's for good.
SeenInv ==
  /\ reply \in {"done", "failed"} => task = reply
  /\ outcome \in {"done", "failed"} => task = outcome

\* A verdict is given exactly when the loop has returned.
ReturnInv == at = "returned" <=> outcome # "none"

\* Where the last request is in time: the loop only comes to the next one when
\* the timer it set after the answer has fired.
PaceInv ==
  /\ sentAt <= now
  /\ polls = 0 => at \in {"poll", "returned"}
  /\ at = "poll" /\ polls # 0 => sentAt + Interval <= now
  /\ at = "wait" => sentAt + Interval <= wakeAt

\* The inductive invariant.
PollInv == TypeOK /\ SeenInv /\ ReturnInv /\ PaceInv

\* Every step of the loop and of its environment keeps the variables' types.
LEMMA TypeStep == TypeOK /\ [Next]_vars => TypeOK'
<1> SUFFICES ASSUME TypeOK, [Next]_vars PROVE TypeOK'
  OBVIOUS
<1>0. polls + 1 \in Nat /\ now + 1 \in Nat /\ now + Interval \in Nat
  <2>1. polls \in Nat /\ now \in Nat BY DEF TypeOK
  <2>2. QED BY <2>1, PollingAssumption
<1>p. prompt' \in BOOLEAN
  <2>1. prompt' = prompt \/ \E timely : Promptly(timely)
    BY DEF Next, Loop, NoTokenForPoll, SendPoll, PollTransportError, PollBodyError,
       ReceiveError, ReceiveStatus, Wake, GiveUp, Tick, Forget, TaskAdvances,
       CancelCaller, AnswerStatus, AnswerBadly, vars
  <2>2. QED BY <2>1 DEF TypeOK, Promptly
<1> USE <1>p DEF TypeOK, Return
<1>1. CASE NoTokenForPoll BY <1>1 DEF NoTokenForPoll
<1>2. CASE SendPoll BY <1>0, <1>2 DEF SendPoll
<1>3. CASE PollTransportError BY <1>3 DEF PollTransportError
<1>4. CASE PollBodyError BY <1>4 DEF PollBodyError
<1>5. CASE ReceiveError BY <1>5 DEF ReceiveError
<1>6. CASE ReceiveStatus
  <2>1. CASE IsTerminal(reply) BY <1>6, <2>1 DEF ReceiveStatus, IsTerminal
  <2>2. CASE ~IsTerminal(reply) BY <1>0, <1>6, <2>2 DEF ReceiveStatus
  <2>3. QED BY <2>1, <2>2
<1>7. CASE Wake BY <1>7 DEF Wake
<1>8. CASE GiveUp BY <1>8 DEF GiveUp
<1>9. CASE Tick BY <1>0, <1>9 DEF Tick
<1>10. CASE TaskAdvances
  <2>1. task' \in Wait!Statuses
    BY <1>10 DEF TaskAdvances, Wait!Successors, Wait!Statuses, Wait!Terminal
  <2>2. QED BY <1>10, <2>1 DEF TaskAdvances
<1>11. CASE Forget BY <1>11 DEF Forget
<1>12. CASE CancelCaller BY <1>12 DEF CancelCaller
<1>13. CASE AnswerStatus BY <1>13 DEF AnswerStatus, Replies
<1>14. CASE AnswerBadly BY <1>14 DEF AnswerBadly, Replies
<1>15. CASE UNCHANGED vars BY <1>15 DEF vars
<1>16. QED
  BY <1>1, <1>2, <1>3, <1>4, <1>5, <1>6, <1>7, <1>8, <1>9, <1>10, <1>11,
     <1>12, <1>13, <1>14, <1>15 DEF Next, Loop

\* A terminal status that was read stays true, because NC2 never leaves one.
LEMMA SeenStep == SeenInv /\ ReturnInv /\ [Next]_vars => SeenInv' /\ ReturnInv'
<1> SUFFICES ASSUME SeenInv, ReturnInv, [Next]_vars
             PROVE SeenInv' /\ ReturnInv'
  OBVIOUS
<1> USE DEF SeenInv, ReturnInv, Return
<1>1. CASE NoTokenForPoll BY <1>1 DEF NoTokenForPoll
<1>2. CASE SendPoll BY <1>2 DEF SendPoll
<1>3. CASE PollTransportError BY <1>3 DEF PollTransportError
<1>4. CASE PollBodyError BY <1>4 DEF PollBodyError
<1>5. CASE ReceiveError BY <1>5 DEF ReceiveError
<1>6. CASE ReceiveStatus
  <2>1. CASE IsTerminal(reply) BY <1>6, <2>1 DEF ReceiveStatus, IsTerminal
  <2>2. CASE ~IsTerminal(reply) BY <1>6, <2>2 DEF ReceiveStatus
  <2>3. QED BY <2>1, <2>2
<1>7. CASE Wake BY <1>7 DEF Wake
<1>8. CASE GiveUp BY <1>8 DEF GiveUp
<1>9. CASE Tick BY <1>9 DEF Tick
<1>10. CASE TaskAdvances BY <1>10 DEF TaskAdvances, Wait!Successors, Wait!Terminal
<1>11. CASE Forget BY <1>11 DEF Forget
<1>12. CASE CancelCaller BY <1>12 DEF CancelCaller
<1>13. CASE AnswerStatus BY <1>13 DEF AnswerStatus
<1>14. CASE AnswerBadly BY <1>14 DEF AnswerBadly
<1>15. CASE UNCHANGED vars BY <1>15 DEF vars
<1>16. QED
  BY <1>1, <1>2, <1>3, <1>4, <1>5, <1>6, <1>7, <1>8, <1>9, <1>10, <1>11,
     <1>12, <1>13, <1>14, <1>15 DEF Next, Loop

\* An interval passes between an answer and the next request.
LEMMA PaceStep == TypeOK /\ PaceInv /\ [Next]_vars => PaceInv'
<1> SUFFICES ASSUME TypeOK, PaceInv, [Next]_vars PROVE PaceInv'
  OBVIOUS
<1>0. /\ Interval \in Nat /\ polls \in Nat /\ now \in Nat /\ wakeAt \in Nat
      /\ sentAt \in Nat
  BY PollingAssumption DEF TypeOK
<1> USE <1>0 DEF PaceInv, Return
<1>1. CASE NoTokenForPoll BY <1>1 DEF NoTokenForPoll
<1>2. CASE SendPoll BY <1>2 DEF SendPoll
<1>3. CASE PollTransportError BY <1>3 DEF PollTransportError
<1>4. CASE PollBodyError BY <1>4 DEF PollBodyError
<1>5. CASE ReceiveError BY <1>5 DEF ReceiveError
<1>6. CASE ReceiveStatus
  <2>1. CASE IsTerminal(reply) BY <1>6, <2>1 DEF ReceiveStatus, IsTerminal
  <2>2. CASE ~IsTerminal(reply)
    <3>1. /\ at = "sent" /\ at' = "wait" /\ now' = now /\ polls' = polls
          /\ sentAt' = sentAt /\ wakeAt' = now + Interval
      BY <1>6, <2>2 DEF ReceiveStatus
    <3>2. QED BY <3>1
  <2>3. QED BY <2>1, <2>2
<1>7. CASE Wake BY <1>7 DEF Wake
<1>8. CASE GiveUp BY <1>8 DEF GiveUp
<1>9. CASE Tick BY <1>9 DEF Tick
<1>10. CASE TaskAdvances BY <1>10 DEF TaskAdvances
<1>11. CASE Forget BY <1>11 DEF Forget
<1>12. CASE CancelCaller BY <1>12 DEF CancelCaller
<1>13. CASE AnswerStatus BY <1>13 DEF AnswerStatus
<1>14. CASE AnswerBadly BY <1>14 DEF AnswerBadly
<1>15. CASE UNCHANGED vars BY <1>15 DEF vars
<1>16. QED
  BY <1>1, <1>2, <1>3, <1>4, <1>5, <1>6, <1>7, <1>8, <1>9, <1>10, <1>11,
     <1>12, <1>13, <1>14, <1>15 DEF Next, Loop

\* Before the first poll.
LEMMA InitPoll == Init => PollInv
<1> SUFFICES ASSUME Init PROVE PollInv
  OBVIOUS
<1>1. TypeOK BY DEF Init, TypeOK
<1>2. SeenInv /\ ReturnInv BY DEF Init, SeenInv, ReturnInv
<1>3. PaceInv
  <2>1. now = 0 /\ sentAt = 0 /\ polls = 0 /\ at = "poll" BY DEF Init
  <2>2. QED BY <2>1 DEF PaceInv
<1>4. QED BY <1>1, <1>2, <1>3 DEF PollInv

\* The parts together are inductive.
LEMMA PollStep == PollInv /\ [Next]_vars => PollInv'
BY TypeStep, SeenStep, PaceStep DEF PollInv

\* PollTask's inductive invariant: the types, the truth of what was seen, and
\* the pace of the requests.
THEOREM PollInvariance == Spec => []PollInv
BY InitPoll, PollStep, PTL DEF Spec

\* However late timers and answers are, a request for a task is sent an interval
\* or more after the one before it: the timer starts when its answer is taken.
THEOREM PacedPolls == Spec => PollsArePaced
<1> DEFINE Paced == polls' # polls /\ polls > 0 => sentAt' >= sentAt + Interval
<1>1. ASSUME PollInv, [Next]_vars PROVE Paced
  <2> SUFFICES ASSUME polls' # polls, polls > 0 PROVE sentAt' >= sentAt + Interval
    OBVIOUS
  <2>1. SendPoll
    BY <1>1 DEF Next, Loop, NoTokenForPoll, PollTransportError, PollBodyError,
       ReceiveError, ReceiveStatus, Wake, GiveUp, Tick, Forget, TaskAdvances,
       CancelCaller, AnswerStatus, AnswerBadly, Return, vars
  <2>2. /\ at = "poll" /\ sentAt' = now
        /\ now \in Nat /\ sentAt \in Nat /\ polls \in Nat /\ Interval \in Nat
    BY <1>1, <2>1, PollingAssumption DEF SendPoll, PollInv, TypeOK
  <2>3. sentAt + Interval <= now
    BY <1>1, <2>2 DEF PollInv, PaceInv
  <2>4. QED BY <2>2, <2>3
<1>2. PollInv /\ [Next]_vars => [Paced]_vars
  BY <1>1
<1>3. QED BY <1>2, PollInvariance, PTL DEF Spec, PollsArePaced, Paced

\* What a caller of PollTask is told of its task, as TaskWait has it.
Told == IF outcome \in {"none", "done", "failed"} THEN outcome ELSE "unknown"

\* Every step of PollTask is a step of TaskWait or changes nothing TaskWait
\* sees.
LEMMA WaitStep == PollInv /\ PollInv' /\ [Next]_vars => [Wait!Next]_(Wait!vars)
<1> SUFFICES ASSUME PollInv, PollInv', [Next]_vars PROVE [Wait!Next]_(Wait!vars)
  OBVIOUS
<1>1. CASE TaskAdvances
  <2>1. task' \in Wait!Successors(task) /\ Told' = Told
    BY <1>1 DEF TaskAdvances, Told
  <2>2. QED BY <2>1 DEF Wait!Next, Wait!Advance, Wait!vars, Told
<1>2. CASE ~TaskAdvances
  <2>1. task' = task
    BY <1>2 DEF Next, Loop, NoTokenForPoll, SendPoll, PollTransportError,
       PollBodyError, ReceiveError, ReceiveStatus, Wake, GiveUp, Tick, Forget,
       CancelCaller, AnswerStatus, AnswerBadly, vars
  <2>2. outcome # "none" => outcome' = outcome
    BY <1>2 DEF Next, Loop, NoTokenForPoll, SendPoll, PollTransportError,
       PollBodyError, ReceiveError, ReceiveStatus, Wake, GiveUp, Tick, Forget,
       CancelCaller, AnswerStatus, AnswerBadly, vars, PollInv,
       ReturnInv
  <2>3. CASE outcome' = outcome
    BY <2>1, <2>3 DEF Wait!vars
  <2>4. CASE outcome = "none" /\ outcome' # "none"
    <3>1. Told = "none" BY <2>4 DEF Told
    <3>2. Told' = "unknown" \/ (task \in {"done", "failed"} /\ Told' = task)
      BY <2>1, <2>4 DEF Told, PollInv, SeenInv
    <3>3. QED BY <2>1, <3>1, <3>2 DEF Told, Wait!Next, Wait!Decide, Wait!vars
  <2>5. QED BY <2>2, <2>3, <2>4
<1>3. QED BY <1>1, <1>2

\* PollTask implements TaskWait: whatever the order of answers, status changes,
\* timeouts and cancellations, it reports only what became of the task.
THEOREM PollRefinement == Spec => ImplementsWait
<1>1. Init => Wait!Init
  BY DEF Init, Wait!Init, Wait!Statuses, Wait!Terminal
<1>2. PollInv /\ PollInv' /\ [Next]_vars => [Wait!Next]_(Wait!vars)
  BY WaitStep
<1>3. QED
  BY <1>1, <1>2, PollInvariance, PTL DEF Spec, ImplementsWait, Wait!Spec

\* What PollTask returned never changes and is true of the task, then and later:
\* the promise TaskWait exists for.
THEOREM TrueVerdicts == Spec => Wait!VerdictIsTrue
<1> DEFINE Truth == /\ Told # "none" => Told' = Told
                    /\ Told' \in {"done", "failed"} => task' = Told'
<1>1. ASSUME PollInv, PollInv', [Next]_vars PROVE Truth
  <2>1. outcome # "none" => outcome' = outcome
    BY <1>1 DEF Next, Loop, NoTokenForPoll, SendPoll, PollTransportError,
       PollBodyError, ReceiveError, ReceiveStatus, Wake, GiveUp, Tick, Forget,
       TaskAdvances, CancelCaller, AnswerStatus, AnswerBadly, vars, PollInv,
       ReturnInv
  <2>2. outcome' \in {"done", "failed"} => task' = outcome'
    BY <1>1 DEF PollInv, SeenInv
  <2>3. QED BY <2>1, <2>2 DEF Told
<1>2. PollInv /\ PollInv' /\ [Next]_vars => [Truth]_(Wait!vars)
  BY <1>1
<1>3. QED
  BY <1>2, PollInvariance, PTL DEF Spec, Wait!VerdictIsTrue, Truth, Told

\* The types of the loop's variables and of the task, at any timing.
THEOREM PollTypes == Spec => []TypeOK
<1>1. PollInv => TypeOK BY DEF PollInv
<1>2. QED BY <1>1, PollInvariance, PTL

-----------------------------------------------------------------------------
(* A prompt loop: how old what it knows of the task may be.                *)

Ended == task \in {"done", "failed"}

\* The steps a prompt host and server take.
PromptNext ==
  \/ ContextDone /\ (NoTokenForPoll \/ PollTransportError \/ PollBodyError)
  \/ SendPoll \/ ReceiveError \/ ReceiveStatus \/ Wake \/ GiveUp
  \/ AnswerStatus
  \/ ~Urgent /\ Tick
  \/ TaskAdvances
  \/ CancelCaller

\* They are the ones that leave host and server prompt.
LEMMA PromptSteps == [Next]_vars /\ prompt' => prompt /\ [PromptNext]_vars
BY DEF Next, Loop, PromptNext, Promptly, NoTokenForPoll, SendPoll,
   PollTransportError, PollBodyError, ReceiveError, ReceiveStatus, Wake, GiveUp,
   Tick, Forget, TaskAdvances, CancelCaller, AnswerStatus, AnswerBadly, vars

\* Where the clock may stand, and how long after the task's end the loop may
\* still not have seen it: an interval from one poll to the next, and a round
\* trip.
FreshInv ==
  /\ ~forgotten
  /\ reply \in Wait!Statuses \cup {"none"}
  /\ endedAt <= now
  /\ reply # "none" => at = "sent"
  /\ reply # "none" /\ reply # task /\ Ended => endedAt = now
  /\ at = "sent" => sentAt <= now /\ now <= sentAt + Latency
  /\ at = "wait" => now <= wakeAt /\ wakeAt <= now + Interval
  /\ Ended => /\ at = "poll" => now <= endedAt + Interval
              /\ at = "sent" => sentAt <= endedAt + Interval
              /\ at = "wait" => wakeAt <= endedAt + Interval

\* Without a cancellation, the loop returns no verdict only when its deadline
\* has passed, and the task ended too late for another poll.
LateInv ==
  at = "returned" /\ ~cancelled /\ outcome \notin {"done", "failed"} =>
    /\ now >= Deadline
    /\ Ended => Deadline <= endedAt + Interval + Latency

PromptInv == PollInv /\ (prompt => FreshInv /\ LateInv)

\* The clock only passes while the loop has nothing to do, and a request is
\* answered within Latency.
LEMMA FreshStep == PollInv /\ FreshInv /\ [PromptNext]_vars => FreshInv'
<1> SUFFICES ASSUME PollInv, FreshInv, [PromptNext]_vars PROVE FreshInv'
  OBVIOUS
<1>0. /\ now \in Nat /\ endedAt \in Nat /\ sentAt \in Nat /\ wakeAt \in Nat
      /\ Interval \in Nat /\ Latency \in Nat
      /\ task \in Wait!Statuses
      /\ at \in {"poll", "sent", "wait", "returned"}
  BY PollingAssumption DEF PollInv, TypeOK
<1> USE <1>0 DEF FreshInv, Ended, Return
<1>1. CASE NoTokenForPoll BY <1>1 DEF NoTokenForPoll
<1>2. CASE SendPoll BY <1>2 DEF SendPoll
<1>3. CASE PollTransportError BY <1>3 DEF PollTransportError
<1>4. CASE PollBodyError BY <1>4 DEF PollBodyError
<1>5. CASE ReceiveError BY <1>5 DEF ReceiveError
<1>6. CASE ReceiveStatus
  <2>1. CASE IsTerminal(reply) BY <1>6, <2>1 DEF ReceiveStatus, IsTerminal
  <2>2. CASE ~IsTerminal(reply)
    <3>1. /\ at = "sent" /\ reply # "none" /\ reply \notin {"done", "failed"}
          /\ at' = "wait" /\ wakeAt' = now + Interval /\ reply' = "none"
          /\ now' = now /\ task' = task /\ forgotten' = forgotten
          /\ endedAt' = endedAt
      BY <1>6, <2>2 DEF ReceiveStatus, IsTerminal, Wait!Statuses, Wait!Terminal
    <3>2. Ended => endedAt = now BY <3>1
    <3>3. QED BY <3>1, <3>2
  <2>3. QED BY <2>1, <2>2
<1>7. CASE Wake BY <1>7 DEF Wake
<1>8. CASE GiveUp BY <1>8 DEF GiveUp
<1>9. CASE ~Urgent /\ Tick BY <1>9 DEF Tick, Urgent
<1>10. CASE TaskAdvances
  <2>1. /\ task \in {"pending", "running"} /\ task' \in Wait!Statuses
        /\ task' \in {"done", "failed"} => endedAt' = now
        /\ task' \notin {"done", "failed"} => endedAt' \in {endedAt, now}
    BY <1>10 DEF TaskAdvances, Wait!Successors, Wait!Statuses, Wait!Terminal
  <2>2. /\ now' = now /\ forgotten' = forgotten /\ reply' = reply /\ at' = at
        /\ sentAt' = sentAt /\ wakeAt' = wakeAt
    BY <1>10 DEF TaskAdvances
  <2>3. QED BY <2>1, <2>2
<1>11. CASE CancelCaller BY <1>11 DEF CancelCaller
<1>12. CASE AnswerStatus BY <1>12 DEF AnswerStatus
<1>13. CASE UNCHANGED vars BY <1>13 DEF vars
<1>14. QED
  BY <1>1, <1>2, <1>3, <1>4, <1>5, <1>6, <1>7, <1>8, <1>9, <1>10, <1>11,
     <1>12, <1>13 DEF PromptNext

\* A loop that gives up does so at its deadline, with a task it saw an interval
\* and a round trip ago at most.
LEMMA LateStep ==
  PollInv /\ FreshInv /\ LateInv /\ [PromptNext]_vars => LateInv'
<1> SUFFICES ASSUME PollInv, FreshInv, LateInv, [PromptNext]_vars PROVE LateInv'
  OBVIOUS
<1>0. /\ now \in Nat /\ endedAt \in Nat /\ sentAt \in Nat /\ wakeAt \in Nat
      /\ Interval \in Nat /\ Latency \in Nat /\ Deadline \in Nat
      /\ at \in {"poll", "sent", "wait", "returned"}
      /\ at = "returned" <=> outcome # "none"
  BY PollingAssumption DEF PollInv, TypeOK, ReturnInv, Deadline
\* The steps that return without a verdict need a context that is done.
<1>1. ASSUME ContextDone, at' = "returned", cancelled' = cancelled, now' = now,
             at # "returned", task' = task, endedAt' = endedAt
      PROVE  LateInv'
  <2>1. ~cancelled => now >= Deadline
    BY <1>1 DEF ContextDone, DeadlinePassed
  <2>2. Ended => now <= endedAt + Interval + Latency
    BY <1>0, <1>1 DEF FreshInv
  <2>3. Deadline' = Deadline /\ Ended' = Ended
    BY <1>1 DEF Deadline, Ended
  <2>4. QED BY <1>0, <1>1, <2>1, <2>2, <2>3 DEF LateInv
<1>2. CASE \/ ContextDone /\ (NoTokenForPoll \/ PollTransportError \/ PollBodyError)
           \/ GiveUp
  <2>1. /\ ContextDone /\ at' = "returned" /\ cancelled' = cancelled
        /\ now' = now /\ at # "returned" /\ task' = task /\ endedAt' = endedAt
    BY <1>2 DEF NoTokenForPoll, PollTransportError, PollBodyError, GiveUp, Return
  <2>2. QED BY <2>1, <1>1
<1>3. CASE SendPoll \/ Wake \/ AnswerStatus
  <2>1. at' # "returned"
    BY <1>3 DEF SendPoll, Wake, AnswerStatus
  <2>2. QED BY <2>1 DEF LateInv
\* No error status is answered, and no task is unknown.
<1>4. CASE ReceiveError
  BY <1>4 DEF ReceiveError, FreshInv, Wait!Statuses, Wait!Terminal
<1>5. CASE ReceiveStatus
  <2>1. at' = "returned" => outcome' \in {"done", "failed"}
    BY <1>5 DEF ReceiveStatus, IsTerminal, Return, FreshInv, Wait!Statuses,
       Wait!Terminal
  <2>2. QED BY <2>1 DEF LateInv
<1>6. CASE ~Urgent /\ Tick
  <2>1. /\ now' = now + 1 /\ task' = task /\ endedAt' = endedAt /\ at' = at
        /\ outcome' = outcome /\ cancelled' = cancelled
    BY <1>6 DEF Tick
  <2>2. QED BY <1>0, <2>1 DEF LateInv, Ended, Deadline
\* A task that ends after the loop has given up ended after the deadline.
<1>7. CASE TaskAdvances
  <2>1. /\ now' = now /\ at' = at /\ outcome' = outcome /\ cancelled' = cancelled
        /\ Ended' => endedAt' = now
    BY <1>7 DEF TaskAdvances, Ended, Wait!Successors, Wait!Terminal
  <2>2. QED BY <1>0, <2>1 DEF LateInv, Deadline
<1>8. CASE CancelCaller
  BY <1>8 DEF CancelCaller, LateInv
<1>9. CASE UNCHANGED vars
  BY <1>9 DEF vars, LateInv, Ended, Deadline
<1>10. QED
  BY <1>2, <1>3, <1>4, <1>5, <1>6, <1>7, <1>8, <1>9 DEF PromptNext

\* What a prompt loop knows of its task is at most an interval and a round trip
\* old, so it reports every end that leaves it that long before the deadline.
THEOREM PromptVerdicts == Spec => []NoMissedEnd
<1>1. Init => PromptInv
  <2> SUFFICES ASSUME Init PROVE PromptInv
    OBVIOUS
  <2>1. PollInv BY InitPoll
  <2>2. FreshInv
    <3>1. /\ now = 0 /\ endedAt = 0 /\ at = "poll" /\ reply = "none"
          /\ ~forgotten
      BY DEF Init
    <3>2. 0 <= 0 + Interval BY PollingAssumption
    <3>3. QED BY <3>1, <3>2 DEF FreshInv
  <2>3. LateInv BY DEF Init, LateInv
  <2>4. QED BY <2>1, <2>2, <2>3 DEF PromptInv
<1>2. PromptInv /\ [Next]_vars => PromptInv'
  BY PollStep, PromptSteps, FreshStep, LateStep DEF PromptInv
<1>3. PromptInv => NoMissedEnd
  <2> SUFFICES ASSUME PromptInv, prompt, at = "returned", ~cancelled, Ended,
                      endedAt + Interval + 2 * Latency < Deadline
               PROVE  outcome = task
    BY DEF NoMissedEnd, Ended
  <2>1. /\ endedAt \in Nat /\ Interval \in Nat /\ Latency \in Nat
        /\ Deadline \in Nat
    BY PollingAssumption DEF PromptInv, PollInv, TypeOK, Deadline
  <2>2. outcome \in {"done", "failed"}
    BY <2>1 DEF PromptInv, LateInv
  <2>3. QED BY <2>2 DEF PromptInv, PollInv, SeenInv
<1>4. QED BY <1>1, <1>2, <1>3, PTL DEF Spec

=============================================================================
