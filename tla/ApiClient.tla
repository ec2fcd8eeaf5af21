----------------------------- MODULE ApiClient ------------------------------
(***************************************************************************)
(* internal/client: Client.Do and the single attempt, do, that it is built *)
(* from, for calls that run concurrently and share one TokenManager.  The  *)
(* token side is the TokenService that TokenCache implements.              *)
(*                                                                         *)
(* Each element of Callers is one call: Do, or the bare attempt PollTask   *)
(* makes.  The server (NC2, external) rejects a token whose exp claim its  *)
(* clock has passed, or any token once the API key is revoked; it may      *)
(* answer late, and a request whose caller has given up may still reach    *)
(* it.                                                                     *)
(*                                                                         *)
(* Marshalling the body and building the request cannot fail for the       *)
(* bodies and paths this provider builds, and are left out.                *)
(***************************************************************************)
EXTENDS Integers, Sequences, SequencesExt

CONSTANTS
  Callers, NoToken, Second, Lifetime, RefreshSlack, MaxTime, MaxEpoch,
  Skew           \* how far the server's clock is ahead, in ticks

VARIABLES
  now, cached, epoch, clearedAt, phase, since, floor, result,  \* as in TokenService
  at,            \* where each call is
  retries,       \* TRUE for Do, FALSE for the bare do of PollTask
  attempt,       \* which attempt the call is in, 1 or 2
  began,         \* history: when the attempt began; for a retry, when the
                 \* rejected token had been invalidated
  tokens,        \* the token each attempt carries, in order
  wire,          \* the attempts that may still reach the server
  reply,         \* the server's reply the client has not taken yet
  lag,           \* history: age of the attempt when it was rejected
  effects,       \* history: how often the server carried the call out
  audited,       \* the status of each audit record of the call
  outcome,       \* what the call returned
  keyRevoked     \* the API key has been revoked on the NC2 side

tokenVars == <<now, cached, epoch, clearedAt, phase, since, floor, result>>
callVars == <<at, retries, attempt, began, tokens, wire, reply, lag, effects,
              audited, outcome, keyRevoked>>
vars == <<tokenVars, callVars>>

Tokens == INSTANCE TokenService

ASSUME ClientAssumption == Tokens!TokenAssumption /\ Skew \in Nat

Locations == {"idle", "token", "sent", "rejected", "invalidating",
              "invalidated", "returned"}
Verdicts == {"ok", "api error", "unauthorized"}
Outcomes == Verdicts \cup {"failed", "none"}

Init ==
  /\ Tokens!Init
  /\ at = [g \in Callers |-> "idle"]
  /\ retries \in [Callers -> BOOLEAN]
  /\ attempt = [g \in Callers |-> 1]
  /\ began = [g \in Callers |-> 0]
  /\ tokens = [g \in Callers |-> << >>]
  /\ wire = {}
  /\ reply = [g \in Callers |-> "none"]
  /\ lag = [g \in Callers |-> 0]
  /\ effects = [g \in Callers |-> 0]
  /\ audited = [g \in Callers |-> << >>]
  /\ outcome = [g \in Callers |-> "none"]
  /\ keyRevoked = FALSE

Return(g, out) ==
  /\ at' = [at EXCEPT ![g] = "returned"]
  /\ outcome' = [outcome EXCEPT ![g] = out]

\* Seeded fault for Audit: the record is made from the call's outcome, which is
\* not known yet.
AuditOutcome(g, status) == audited' = [audited EXCEPT ![g] = Append(@, outcome[g])]

Audit(g, status) == audited' = [audited EXCEPT ![g] = Append(@, status)]

-----------------------------------------------------------------------------
(* The client.                                                             *)

\* do asks the TokenManager for a token.
Begin(g) ==
  /\ at[g] = "idle"
  /\ Tokens!Ask(g)
  /\ at' = [at EXCEPT ![g] = "token"]
  /\ began' = [began EXCEPT ![g] = now]
  /\ UNCHANGED <<retries, attempt, tokens, wire, reply, lag, effects, audited,
                 outcome, keyRevoked>>

\* Without a token there is no call, and no audit record.
NoTokenForCall(g) ==
  /\ at[g] = "token"
  /\ result[g] = NoToken
  /\ Tokens!Collect(g)
  /\ Return(g, "failed")
  /\ UNCHANGED <<retries, attempt, began, tokens, wire, reply, lag, effects,
                 audited, keyRevoked>>

Send(g) ==
  /\ at[g] = "token"
  /\ result[g] # NoToken
  /\ Tokens!Collect(g)
  /\ at' = [at EXCEPT ![g] = "sent"]
  /\ tokens' = [tokens EXCEPT ![g] = Append(@, result[g])]
  /\ wire' = wire \cup {<<g, attempt[g]>>}
  /\ UNCHANGED <<retries, attempt, began, reply, lag, effects, audited,
                 outcome, keyRevoked>>

\* http.Client.Do fails: no connection, RequestTimeout, a cancelled context.
\* The request stays on the wire.
TransportError(g) ==
  /\ at[g] = "sent"
  /\ Audit(g, "no response")
  /\ Return(g, "failed")
  /\ reply' = [reply EXCEPT ![g] = "none"]
  /\ UNCHANGED <<tokenVars, retries, attempt, began, tokens, wire, lag,
                 effects, keyRevoked>>

\* The response's header has arrived, its body cannot be read: do returns
\* before it reaches audit.Record.
BodyError(g) ==
  /\ at[g] = "sent"
  /\ reply[g] # "none"
  /\ reply' = [reply EXCEPT ![g] = "none"]
  /\ Return(g, "failed")
  /\ UNCHANGED <<tokenVars, retries, attempt, began, tokens, wire, lag,
                 effects, audited, keyRevoked>>

\* Seeded fault for Receive: any answer that is not a success is retried.
ReceiveRetriesErrors(g) ==
  /\ at[g] = "sent"
  /\ reply[g] # "none"
  /\ reply' = [reply EXCEPT ![g] = "none"]
  /\ Audit(g, reply[g])
  /\ IF reply[g] # "ok" /\ retries[g] /\ attempt[g] = 1
       THEN at' = [at EXCEPT ![g] = "rejected"] /\ UNCHANGED outcome
       ELSE Return(g, reply[g])
  /\ UNCHANGED <<tokenVars, retries, attempt, began, tokens, wire, lag,
                 effects, keyRevoked>>

\* Seeded fault for Receive: a 401 is handed back like any other status.
ReceiveNoRetry(g) ==
  /\ at[g] = "sent"
  /\ reply[g] # "none"
  /\ reply' = [reply EXCEPT ![g] = "none"]
  /\ Audit(g, reply[g])
  /\ Return(g, reply[g])
  /\ UNCHANGED <<tokenVars, retries, attempt, began, tokens, wire, lag,
                 effects, keyRevoked>>

\* A whole response: audited, then handed back, or on the first 401 of a Do
\* kept for a retry.
Receive(g) ==
  /\ at[g] = "sent"
  /\ reply[g] # "none"
  /\ reply' = [reply EXCEPT ![g] = "none"]
  /\ Audit(g, reply[g])
  /\ IF reply[g] = "unauthorized" /\ retries[g] /\ attempt[g] = 1
       THEN at' = [at EXCEPT ![g] = "rejected"] /\ UNCHANGED outcome
       ELSE Return(g, reply[g])
  /\ UNCHANGED <<tokenVars, retries, attempt, began, tokens, wire, lag,
                 effects, keyRevoked>>

\* Seeded fault for CallInvalidate: the retry starts without it.
CallInvalidateNot(g) ==
  /\ at[g] = "rejected"
  /\ at' = [at EXCEPT ![g] = "invalidated"]
  /\ UNCHANGED <<tokenVars, retries, attempt, began, tokens, wire, reply, lag,
                 effects, audited, outcome, keyRevoked>>

CallInvalidate(g) ==
  /\ at[g] = "rejected"
  /\ epoch < MaxEpoch
  /\ Tokens!AskInvalidate(g)
  /\ at' = [at EXCEPT ![g] = "invalidating"]
  /\ UNCHANGED <<retries, attempt, began, tokens, wire, reply, lag, effects,
                 audited, outcome, keyRevoked>>

Invalidated(g) ==
  /\ at[g] = "invalidating"
  /\ Tokens!Invalidate(g)
  /\ at' = [at EXCEPT ![g] = "invalidated"]
  /\ began' = [began EXCEPT ![g] = now]
  /\ UNCHANGED <<retries, attempt, tokens, wire, reply, lag, effects, audited,
                 outcome, keyRevoked>>

Retry(g) ==
  /\ at[g] = "invalidated"
  /\ Tokens!Ask(g)
  /\ at' = [at EXCEPT ![g] = "token"]
  /\ attempt' = [attempt EXCEPT ![g] = 2]
  /\ UNCHANGED <<retries, began, tokens, wire, reply, lag, effects, audited,
                 outcome, keyRevoked>>

\* The TokenManager answers the call's Token.
TokenAnswers(g) ==
  /\ \/ Tokens!Reuse(g)
     \/ Tokens!Renew(g)
     \/ Tokens!Refuse(g)
  /\ UNCHANGED callVars

-----------------------------------------------------------------------------
(* The server and the clock.                                               *)

Rejects(tok) == keyRevoked \/ Tokens!ExpClaim(tok) <= now + Skew

\* The server takes an attempt off the wire; its reply reaches the client only
\* if the client still waits for that attempt.  A request it fails with an
\* error may have been carried out or not.
Serve(g, n) ==
  LET waiting == at[g] = "sent" /\ attempt[g] = n
      Reply(r) == reply' = [reply EXCEPT ![g] = IF waiting THEN r ELSE @]
  IN
  /\ <<g, n>> \in wire
  /\ wire' = wire \ {<<g, n>>}
  /\ IF Rejects(tokens[g][n])
       THEN /\ Reply("unauthorized")
            /\ lag' = [lag EXCEPT ![g] = IF waiting THEN now - began[g] ELSE @]
            /\ UNCHANGED effects
       ELSE /\ \E r \in {"ok", "api error"}, e \in {0, 1} :
                 /\ r = "ok" => e = 1
                 /\ Reply(r)
                 /\ effects' = [effects EXCEPT ![g] = @ + e]
            /\ UNCHANGED lag
  /\ UNCHANGED <<tokenVars, at, retries, attempt, began, tokens, audited,
                 outcome, keyRevoked>>

RevokeKey ==
  /\ ~keyRevoked
  /\ keyRevoked' = TRUE
  /\ UNCHANGED <<tokenVars, at, retries, attempt, began, tokens, wire, reply,
                 lag, effects, audited, outcome>>

Tick ==
  /\ Tokens!Tick
  /\ UNCHANGED callVars

Client(g) ==
  \/ Begin(g) \/ NoTokenForCall(g) \/ Send(g) \/ TransportError(g)
  \/ BodyError(g) \/ Receive(g) \/ CallInvalidate(g) \/ Invalidated(g)
  \/ Retry(g) \/ TokenAnswers(g)

Next ==
  \/ Tick
  \/ RevokeKey
  \/ \E g \in Callers : Client(g) \/ \E n \in {1, 2} : Serve(g, n)

Spec == Init /\ [][Next]_vars

-----------------------------------------------------------------------------

\* The types of the calls' variables and of the shared token service.
TypeOK ==
  /\ Tokens!TypeOK
  /\ at \in [Callers -> Locations]
  /\ retries \in [Callers -> BOOLEAN]
  /\ attempt \in [Callers -> {1, 2}]
  /\ began \in [Callers -> Nat]
  /\ tokens \in [Callers -> Seq(Tokens!Token)]
  /\ wire \in SUBSET (Callers \X {1, 2})
  /\ reply \in [Callers -> Verdicts \cup {"none"}]
  /\ lag \in [Callers -> Nat]
  /\ effects \in [Callers -> Nat]
  /\ audited \in [Callers -> Seq(Verdicts \cup {"no response"})]
  /\ outcome \in [Callers -> Outcomes]
  /\ keyRevoked \in BOOLEAN

\* client.go:176, Do retries on a 401 and on nothing else: NC2 carries a call
\* out at most once, with late requests and lost replies, so a POST that
\* creates a cluster is never repeated behind the caller's back.
AtMostOneEffect == \A g \in Callers : effects[g] <= 1

\* spec.md's edge case "the JWT expires mid-operation": with a valid key, Do
\* returns a 401 only when the server's clock is ahead, or the retry itself was
\* under way, for a whole token lifetime (less the second the claim is cut by).
ExpiryNeverSurfaces ==
  \A g \in Callers :
    outcome[g] = "unauthorized" /\ retries[g] /\ ~keyRevoked =>
      lag[g] + Skew > Lifetime - Second

\* manager.go:11, refreshing early "absorbs typical clock skew and
\* request-in-flight time": an attempt is rejected for its age only when skew
\* and delay together reach the slack.
SlackAbsorbsDelay ==
  \A g \in Callers :
    reply[g] = "unauthorized" /\ ~keyRevoked => lag[g] + Skew > RefreshSlack - Second

\* The retry does not carry the token that was just rejected, nor one that was
\* cached before it, even when other calls renew and invalidate in between.
RetryCarriesNewToken ==
  \A g \in Callers :
    Len(tokens[g]) = 2 => tokens[g][2].epoch > tokens[g][1].epoch

\* spec.md:134, when "the JWT expires mid-operation" the provider must
\* "transparently mint a fresh JWT and retry the in-flight call once":
\* ExpiryNeverSurfaces for every call the client makes, a task's polls included.
ExpiryIsTransparent ==
  \A g \in Callers :
    outcome[g] = "unauthorized" /\ ~keyRevoked => lag[g] + Skew > Lifetime - Second

\* spec.md:232 (FR-020a), "exactly one structured audit record per outbound NC2
\* HTTP call": a call that has returned has one for each request it sent, the
\* rejected first one of a retry included, "regardless of success or failure"
\* (client/README.md).
EveryRequestIsAudited ==
  \A g \in Callers : at[g] = "returned" => Len(audited[g]) = Len(tokens[g])

=============================================================================
