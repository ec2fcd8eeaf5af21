-------------------------- MODULE ApiClientProofs ---------------------------
(***************************************************************************)
(* Proofs about ApiClient for every set of calls, every lifetime, slack    *)
(* and skew: Do carries a call out at most once, its retry carries a newer *)
(* token, its answers are audited, and a token's expiry is either absorbed *)
(* by the slack or hidden by the retry.                                    *)
(*                                                                         *)
(* First the TokenManager as the calls see it, then one call, then all.    *)
(***************************************************************************)
EXTENDS ApiClient, TLAPS

\* What the proofs use of the assumption on the constants.
LEMMA ConstantsOK ==
  /\ Second \in Nat \ {0}
  /\ RefreshSlack \in Nat
  /\ Lifetime \in Nat
  /\ RefreshSlack < Lifetime
  /\ Skew \in Nat
  /\ NoToken \notin Tokens!Token
BY ClientAssumption DEF Tokens!TokenAssumption, Tokens!Token

\* The parts of vars, variable by variable.
LEMMA TokenVarsStay ==
  ASSUME UNCHANGED tokenVars
  PROVE  /\ now' = now /\ cached' = cached /\ epoch' = epoch
         /\ clearedAt' = clearedAt /\ phase' = phase /\ since' = since
         /\ floor' = floor /\ result' = result
BY DEF tokenVars

LEMMA CallVarsStay ==
  ASSUME UNCHANGED callVars
  PROVE  /\ at' = at /\ retries' = retries /\ attempt' = attempt
         /\ began' = began /\ tokens' = tokens /\ wire' = wire
         /\ reply' = reply /\ lag' = lag /\ effects' = effects
         /\ audited' = audited /\ outcome' = outcome
         /\ keyRevoked' = keyRevoked
BY DEF callVars

\* Cutting a time to whole seconds loses less than a second.
LEMMA ClaimBound ==
  ASSUME NEW tok \in Tokens!Token
  PROVE  /\ Tokens!ExpiresAt(tok) \in Nat
         /\ Tokens!ExpClaim(tok) \in Int
         /\ Tokens!ExpiresAt(tok) < Tokens!ExpClaim(tok) + Second
<1>1. Tokens!ExpiresAt(tok) \in Nat
  BY ConstantsOK DEF Tokens!ExpiresAt, Tokens!Token
<1>2. \A t \in Nat : /\ Tokens!SecondOf(t) \in Int
                     /\ t < Tokens!SecondOf(t) * Second + Second
  BY ConstantsOK DEF Tokens!SecondOf
<1>3. QED BY <1>1, <1>2, ConstantsOK DEF Tokens!ExpClaim

\* One more element at the end of a sequence.
LEMMA AppendFacts ==
  ASSUME NEW S, NEW s \in Seq(S), NEW e \in S
  PROVE  /\ Append(s, e) \in Seq(S)
         /\ Len(Append(s, e)) = Len(s) + 1
         /\ Append(s, e)[Len(s) + 1] = e
         /\ \A i \in 1..Len(s) : Append(s, e)[i] = s[i]
OBVIOUS

-----------------------------------------------------------------------------
(* The TokenManager as the calls see it.                                   *)

\* Every step of a call is a step of TokenService, or none.
LEMMA ServiceStep ==
  ASSUME [Next]_vars
  PROVE  [Tokens!Next]_(Tokens!vars)
<1> USE DEF Tokens!Next, Tokens!vars
<1>1. CASE Tick
  BY <1>1 DEF Tick
<1>2. CASE RevokeKey
  BY <1>2, TokenVarsStay DEF RevokeKey
<1>3. ASSUME NEW g \in Callers, Client(g)
      PROVE  [Tokens!Next]_(Tokens!vars)
  <2>1. CASE TransportError(g) \/ BodyError(g) \/ Receive(g)
    BY <2>1, TokenVarsStay DEF TransportError, BodyError, Receive
  <2>2. CASE ~(TransportError(g) \/ BodyError(g) \/ Receive(g))
    BY <1>3, <2>2 DEF Client, Begin, NoTokenForCall, Send, CallInvalidate,
       Invalidated, Retry, TokenAnswers
  <2>3. QED BY <2>1, <2>2
<1>4. ASSUME NEW g \in Callers, NEW n \in {1, 2}, Serve(g, n)
      PROVE  [Tokens!Next]_(Tokens!vars)
  BY <1>4, TokenVarsStay DEF Serve
<1>5. CASE UNCHANGED vars
  BY <1>5, TokenVarsStay DEF vars
<1>6. QED BY <1>1, <1>2, <1>3, <1>4, <1>5 DEF Next

\* The calls use their TokenManager as TokenService has it, the specification
\* that TokenCache implements.
THEOREM UsesTokenService == Spec => Tokens!Spec
<1>1. Init => Tokens!Init
  BY DEF Init
<1>2. [Next]_vars => [Tokens!Next]_(Tokens!vars)
  BY ServiceStep
<1>3. QED BY <1>1, <1>2, PTL DEF Spec, Tokens!Spec

\* One caller's Token call: when and in which epoch it began is in the past; a
\* token it was given is of its epoch or a later one and outlives its start by
\* the slack.
AskOf(g) ==
  /\ phase[g] # "answered" => result[g] = NoToken
  /\ phase[g] \in {"asked", "answered"} => since[g] <= now /\ floor[g] <= epoch
  /\ result[g] # NoToken =>
       /\ floor[g] <= result[g].epoch /\ result[g].epoch <= epoch
       /\ since[g] + RefreshSlack <= Tokens!ExpiresAt(result[g])

\* What is cached was minted after the last Invalidate, in its epoch.
CacheInv ==
  /\ clearedAt <= now
  /\ cached # NoToken => cached.epoch = epoch /\ clearedAt <= cached.minted

ServiceInv == Tokens!TypeOK /\ CacheInv /\ \A g \in Callers : AskOf(g)


\* The service's variables keep their types.
LEMMA ServiceTypes ==
  ASSUME Tokens!TypeOK, [Tokens!Next]_(Tokens!vars)
  PROVE  Tokens!TypeOK'
<1> USE DEF Tokens!TypeOK
<1>1. CASE Tokens!Tick
  <2>1. now' \in Nat
    BY <1>1 DEF Tokens!Tick
  <2>2. QED BY <1>1, <2>1 DEF Tokens!Tick
<1>2. ASSUME NEW g \in Callers, Tokens!Ask(g)
      PROVE  Tokens!TypeOK'
  BY <1>2 DEF Tokens!Ask
<1>3. ASSUME NEW g \in Callers, Tokens!Reuse(g)
      PROVE  Tokens!TypeOK'
  BY <1>3 DEF Tokens!Reuse, Tokens!Answer
<1>4. ASSUME NEW g \in Callers, Tokens!Renew(g)
      PROVE  Tokens!TypeOK'
  <2>1. cached' \in Tokens!Token /\ Tokens!Answer(g, cached')
    BY <1>4 DEF Tokens!Renew, Tokens!Token
  <2>2. QED BY <2>1 DEF Tokens!Answer
<1>5. ASSUME NEW g \in Callers, Tokens!Refuse(g)
      PROVE  Tokens!TypeOK'
  BY <1>5 DEF Tokens!Refuse, Tokens!Answer
<1>6. ASSUME NEW g \in Callers, Tokens!Collect(g)
      PROVE  Tokens!TypeOK'
  BY <1>6 DEF Tokens!Collect
<1>7. ASSUME NEW g \in Callers, Tokens!AskInvalidate(g)
      PROVE  Tokens!TypeOK'
  BY <1>7 DEF Tokens!AskInvalidate
<1>8. ASSUME NEW g \in Callers, Tokens!Invalidate(g)
      PROVE  Tokens!TypeOK'
  BY <1>8 DEF Tokens!Invalidate
<1>9. CASE UNCHANGED Tokens!vars
  BY <1>9 DEF Tokens!vars
<1>10. QED
  BY <1>1, <1>2, <1>3, <1>4, <1>5, <1>6, <1>7, <1>8, <1>9 DEF Tokens!Next

\* What holds of the cache and of the Token calls, step by step.
LEMMA ServiceInvStep ==
  ASSUME ServiceInv, [Tokens!Next]_(Tokens!vars)
  PROVE  ServiceInv'
<1>t. Tokens!TypeOK'
  BY ServiceTypes DEF ServiceInv
<1>i. CacheInv' /\ \A g \in Callers : AskOf(g)'
  <2> USE ConstantsOK DEF ServiceInv, Tokens!TypeOK, CacheInv, AskOf
  <2>1. CASE Tokens!Tick
    BY <2>1 DEF Tokens!Tick, Tokens!Token, Tokens!ExpiresAt
  <2>2. ASSUME NEW g \in Callers, Tokens!Ask(g)
        PROVE  CacheInv' /\ \A h \in Callers : AskOf(h)'
    BY <2>2 DEF Tokens!Ask, Tokens!ExpiresAt
  <2>3. ASSUME NEW g \in Callers, Tokens!Reuse(g)
        PROVE  CacheInv' /\ \A h \in Callers : AskOf(h)'
    BY <2>3 DEF Tokens!Reuse, Tokens!Answer, Tokens!FreshAt, Tokens!ExpiresAt, Tokens!Token
  <2>4. ASSUME NEW g \in Callers, Tokens!Renew(g)
        PROVE  CacheInv' /\ \A h \in Callers : AskOf(h)'
    BY <2>4 DEF Tokens!Renew, Tokens!Answer, Tokens!Token, Tokens!ExpiresAt
  <2>5. ASSUME NEW g \in Callers, Tokens!Refuse(g)
        PROVE  CacheInv' /\ \A h \in Callers : AskOf(h)'
    BY <2>5 DEF Tokens!Refuse, Tokens!Answer, Tokens!ExpiresAt
  <2>6. ASSUME NEW g \in Callers, Tokens!Collect(g)
        PROVE  CacheInv' /\ \A h \in Callers : AskOf(h)'
    BY <2>6 DEF Tokens!Collect, Tokens!ExpiresAt
  <2>7. ASSUME NEW g \in Callers, Tokens!AskInvalidate(g)
        PROVE  CacheInv' /\ \A h \in Callers : AskOf(h)'
    BY <2>7 DEF Tokens!AskInvalidate, Tokens!ExpiresAt
  <2>8. ASSUME NEW g \in Callers, Tokens!Invalidate(g)
        PROVE  CacheInv' /\ \A h \in Callers : AskOf(h)'
    BY <2>8 DEF Tokens!Invalidate, Tokens!ExpiresAt, Tokens!Token
  <2>9. CASE UNCHANGED Tokens!vars
    BY <2>9 DEF Tokens!vars, Tokens!ExpiresAt
  <2>10. QED
    BY <2>1, <2>2, <2>3, <2>4, <2>5, <2>6, <2>7, <2>8, <2>9 DEF Tokens!Next
<1> QED BY <1>t, <1>i DEF ServiceInv

\* The first effect.
LEMMA FromNone == \A i \in {0, 1} : 0 + i = i
OBVIOUS

-----------------------------------------------------------------------------
(* One call.                                                               *)

AuditStatuses == Verdicts \cup {"no response"}

\* The places between the first 401 of a Do and its second attempt.
RejectedAt == {"rejected", "invalidating", "invalidated"}

\* Where a call is: what it is doing with the TokenManager, how many requests
\* it has sent, and whether it still waits for a reply.
PlaceOf(g) ==
  /\ at[g] = "token" => phase[g] \in {"asked", "answered"}
  /\ at[g] = "invalidating" => phase[g] = "invalidating"
  /\ at[g] \notin {"token", "invalidating"} => phase[g] = "idle"
  /\ at[g] \in RejectedAt \cup {"idle"} => attempt[g] = 1
  /\ at[g] \in {"idle", "token"} => Len(tokens[g]) = attempt[g] - 1
  /\ at[g] \in RejectedAt \cup {"sent"} => Len(tokens[g]) = attempt[g]
  /\ Len(tokens[g]) \in {attempt[g] - 1, attempt[g]}
  /\ reply[g] # "none" => at[g] = "sent"
  /\ outcome[g] # "none" <=> at[g] = "returned"

\* Only the current attempt can be on the wire, and not once it is answered;
\* a call that has had its effect has no request left that could have another.
WireOf(g) ==
  /\ \A n \in {1, 2} : <<g, n>> \in wire => n = attempt[g] /\ n = Len(tokens[g])
  /\ reply[g] # "none" \/ at[g] \in RejectedAt => <<g, attempt[g]>> \notin wire
  /\ effects[g] \in {0, 1}
  /\ effects[g] = 1 =>
       /\ <<g, attempt[g]>> \notin wire
       /\ at[g] = "returned" \/ reply[g] \in {"ok", "api error"}

\* Epochs: a rejected token is of an earlier one as soon as its Invalidate has
\* taken effect, and the Token call of the retry starts in a later one.
EpochOf(g) ==
  /\ Len(tokens[g]) > 0 => tokens[g][1].epoch <= epoch
  /\ at[g] = "invalidated" => tokens[g][1].epoch < epoch
  /\ at[g] = "token" /\ attempt[g] = 2 => tokens[g][1].epoch < floor[g]
  /\ Len(tokens[g]) = 2 => tokens[g][1].epoch < tokens[g][2].epoch

\* Times: an attempt starts no later than its Token call, its token outlives
\* that start by the slack, and a retry's token was minted after it.
AgeOf(g) ==
  /\ began[g] <= now
  /\ at[g] = "token" => began[g] <= since[g]
  /\ at[g] = "invalidated" => began[g] <= clearedAt
  /\ at[g] = "token" /\ attempt[g] = 2 =>
       /\ began[g] <= clearedAt
       /\ result[g] # NoToken => began[g] <= result[g].minted
  /\ at[g] = "sent" =>
       /\ began[g] + RefreshSlack <= Tokens!ExpiresAt(tokens[g][attempt[g]])
       /\ attempt[g] = 2 => began[g] <= tokens[g][2].minted

\* With a valid key, what a rejected attempt's age and the skew come to.
LagOf(g) ==
  ~keyRevoked =>
    /\ reply[g] = "unauthorized" => lag[g] + Skew > RefreshSlack - Second
    /\ reply[g] = "unauthorized" /\ attempt[g] = 2 => lag[g] + Skew > Lifetime - Second
    /\ outcome[g] = "unauthorized" /\ retries[g] => lag[g] + Skew > Lifetime - Second

\* One audit record for each request that was answered.
AuditOf(g) ==
  /\ at[g] \in {"idle", "token", "sent"} => Len(audited[g]) = attempt[g] - 1
  /\ at[g] \in RejectedAt => Len(audited[g]) = 1
  /\ at[g] = "returned" =>
       /\ outcome[g] \in Verdicts =>
            /\ Len(audited[g]) = Len(tokens[g]) /\ Len(audited[g]) > 0
            /\ audited[g][Len(audited[g])] = outcome[g]
       /\ outcome[g] = "failed" => Len(tokens[g]) - Len(audited[g]) \in {0, 1}

CallOf(g) == PlaceOf(g) /\ WireOf(g) /\ EpochOf(g) /\ AgeOf(g) /\ LagOf(g) /\ AuditOf(g)

\* The inductive invariant.
IInv == TypeOK /\ ServiceInv /\ \A g \in Callers : CallOf(g)

\* The types of one call's variables.
LEMMA TypesOf ==
  ASSUME TypeOK, NEW g \in Callers
  PROVE  /\ now \in Nat /\ epoch \in Nat /\ clearedAt \in Nat
         /\ cached \in Tokens!Token \cup {NoToken}
         /\ phase[g] \in {"idle", "asked", "answered", "invalidating"}
         /\ since[g] \in Nat /\ floor[g] \in Nat
         /\ result[g] \in Tokens!Token \cup {NoToken}
         /\ at[g] \in Locations
         /\ retries[g] \in BOOLEAN
         /\ attempt[g] \in {1, 2}
         /\ began[g] \in Nat
         /\ tokens[g] \in Seq(Tokens!Token)
         /\ reply[g] \in Verdicts \cup {"none"}
         /\ lag[g] \in Nat
         /\ effects[g] \in Nat
         /\ audited[g] \in Seq(Verdicts \cup {"no response"})
         /\ outcome[g] \in Outcomes
         /\ keyRevoked \in BOOLEAN
BY DEF TypeOK, Tokens!TypeOK

\* Every step keeps the types.
LEMMA TypeStep ==
  ASSUME IInv, [Next]_vars
  PROVE  TypeOK'
<1>0. TypeOK BY DEF IInv
<1>t. Tokens!TypeOK'
  BY ServiceStep, ServiceTypes DEF IInv, TypeOK
<1> USE DEF TypeOK
<1>1. CASE Tick
  BY <1>0, <1>t, <1>1, CallVarsStay DEF Tick
<1>2. CASE RevokeKey
  BY <1>0, <1>t, <1>2 DEF RevokeKey
<1>3. ASSUME NEW g \in Callers, Client(g)
      PROVE  TypeOK'
  <2>0. \A status \in Verdicts \cup {"no response"} :
          Append(audited[g], status) \in Seq(Verdicts \cup {"no response"})
    BY <1>0, AppendFacts
  <2>1. CASE Begin(g)
    BY <1>0, <1>t, <2>1 DEF Begin, Locations, Tokens!TypeOK
  <2>2. CASE NoTokenForCall(g)
    BY <1>0, <1>t, <2>2 DEF NoTokenForCall, Return, Locations, Outcomes
  <2>3. CASE Send(g)
    <3>1. result[g] \in Tokens!Token
      BY <1>0, <2>3, TypesOf DEF Send
    <3>2. Append(tokens[g], result[g]) \in Seq(Tokens!Token)
      BY <1>0, <3>1, AppendFacts
    <3>3. wire' \in SUBSET (Callers \X {1, 2})
      <4>1. wire' = wire \cup {<<g, attempt[g]>>} BY <2>3 DEF Send
      <4>2. attempt[g] \in {1, 2} /\ wire \in SUBSET (Callers \X {1, 2})
        BY <1>0
      <4>3. QED BY <4>1, <4>2
    <3>4. tokens' \in [Callers -> Seq(Tokens!Token)]
      BY <1>0, <2>3, <3>2 DEF Send
    <3>5. at' \in [Callers -> Locations]
      BY <1>0, <2>3 DEF Send, Locations
    <3>6. QED BY <1>0, <1>t, <2>3, <3>3, <3>4, <3>5 DEF Send
  <2>4. CASE TransportError(g)
    BY <1>0, <1>t, <2>0, <2>4 DEF TransportError, Audit, Return, Locations, Outcomes
  <2>5. CASE BodyError(g)
    BY <1>0, <1>t, <2>5 DEF BodyError, Return, Locations, Outcomes
  <2>6. CASE Receive(g)
    <3>1. reply[g] \in Verdicts
      BY <1>0, <2>6 DEF Receive
    <3>2. audited' \in [Callers -> Seq(Verdicts \cup {"no response"})]
      BY <1>0, <2>0, <2>6, <3>1 DEF Receive, Audit
    <3>3. at' \in [Callers -> Locations] /\ outcome' \in [Callers -> Outcomes]
      BY <1>0, <2>6, <3>1 DEF Receive, Return, Locations, Outcomes
    <3>4. QED BY <1>0, <1>t, <2>6, <3>2, <3>3 DEF Receive
  <2>7. CASE CallInvalidate(g)
    BY <1>0, <1>t, <2>7 DEF CallInvalidate, Locations
  <2>8. CASE Invalidated(g)
    BY <1>0, <1>t, <2>8 DEF Invalidated, Locations, Tokens!TypeOK
  <2>9. CASE Retry(g)
    BY <1>0, <1>t, <2>9 DEF Retry, Locations
  <2>10. CASE TokenAnswers(g)
    BY <1>0, <1>t, <2>10, CallVarsStay DEF TokenAnswers
  <2> QED BY <1>3, <2>1, <2>2, <2>3, <2>4, <2>5, <2>6, <2>7, <2>8, <2>9, <2>10
         DEF Client
<1>4. ASSUME NEW g \in Callers, NEW n \in {1, 2}, Serve(g, n)
      PROVE  TypeOK'
  <2>1. now \in Nat /\ began[g] \in Nat /\ began[g] <= now /\ effects[g] \in Nat
    BY <1>0, TypesOf DEF IInv, CallOf, AgeOf
  <2>2. wire' \in SUBSET (Callers \X {1, 2})
    BY <1>0, <1>4 DEF Serve
  <2>3. reply' \in [Callers -> Verdicts \cup {"none"}]
    <3>1. \E r \in Verdicts :
            reply' = [reply EXCEPT ![g] = IF at[g] = "sent" /\ attempt[g] = n THEN r ELSE @]
      BY <1>4 DEF Serve, Verdicts
    <3>2. reply \in [Callers -> Verdicts \cup {"none"}]
      BY <1>0
    <3>3. QED BY <3>1, <3>2
  <2>4. lag' \in [Callers -> Nat]
    <3>0. lag \in [Callers -> Nat] BY <1>0
    <3>1. now - began[g] \in Nat BY <2>1
    <3>2. \/ lag' = lag
          \/ lag' = [lag EXCEPT ![g] = now - began[g]]
          \/ lag' = [lag EXCEPT ![g] = lag[g]]
      BY <1>4 DEF Serve
    <3>3. QED BY <3>0, <3>1, <3>2
  <2>5. effects' \in [Callers -> Nat]
    <3>0. effects \in [Callers -> Nat] BY <1>0
    <3>1. effects[g] + 0 \in Nat /\ effects[g] + 1 \in Nat BY <2>1
    <3>2. \/ effects' = effects
          \/ \E e \in {0, 1} : effects' = [effects EXCEPT ![g] = @ + e]
      BY <1>4 DEF Serve
    <3>3. QED BY <3>0, <3>1, <3>2
  <2>6. QED BY <1>0, <1>t, <1>4, <2>2, <2>3, <2>4, <2>5 DEF Serve
<1>5. CASE UNCHANGED vars
  BY <1>0, <1>t, <1>5, CallVarsStay DEF vars
<1>6. QED BY <1>1, <1>2, <1>3, <1>4, <1>5 DEF Next

\* Nothing of the call h changes; the clock, the epoch and the key may move on.
Untouched(h) ==
  /\ phase'[h] = phase[h] /\ since'[h] = since[h] /\ floor'[h] = floor[h]
  /\ result'[h] = result[h] /\ at'[h] = at[h] /\ retries'[h] = retries[h]
  /\ attempt'[h] = attempt[h] /\ began'[h] = began[h] /\ tokens'[h] = tokens[h]
  /\ \A n \in {1, 2} : <<h, n>> \in wire' <=> <<h, n>> \in wire
  /\ reply'[h] = reply[h] /\ lag'[h] = lag[h] /\ effects'[h] = effects[h]
  /\ audited'[h] = audited[h] /\ outcome'[h] = outcome[h]

\* Time, the epoch and the key's revocation only move forward.
Onward ==
  /\ now <= now' /\ epoch <= epoch' /\ clearedAt <= clearedAt'
  /\ keyRevoked => keyRevoked'

\* One more audit record.
LEMMA AuditGrows ==
  ASSUME TypeOK, NEW g \in Callers, NEW status \in AuditStatuses
  PROVE  /\ Len(audited[g]) \in Nat
         /\ Len(Append(audited[g], status)) = Len(audited[g]) + 1
         /\ Append(audited[g], status)[Len(audited[g]) + 1] = status
<1>1. audited[g] \in Seq(AuditStatuses)
  BY DEF TypeOK, AuditStatuses
<1>2. QED BY <1>1, AppendFacts

\* The tokens a call has sent, and its audit records.
LEMMA TokensOf ==
  ASSUME TypeOK, NEW g \in Callers
  PROVE  /\ Len(tokens[g]) \in Nat
         /\ Len(audited[g]) \in Nat
         /\ \A i \in 1..Len(tokens[g]) :
              /\ tokens[g][i] \in Tokens!Token
              /\ tokens[g][i].epoch \in Nat /\ tokens[g][i].minted \in Nat
<1>0. Len(audited[g]) \in Nat
  <2>1. "no response" \in AuditStatuses BY DEF AuditStatuses
  <2>2. QED BY <2>1, AuditGrows
<1>1. tokens[g] \in Seq(Tokens!Token)
  BY DEF TypeOK
<1>2. \A i \in 1..Len(tokens[g]) : tokens[g][i] \in Tokens!Token
  BY <1>1
<1>3. QED BY <1>0, <1>1, <1>2 DEF Tokens!Token

\* The numbers that the steps of a call are about.
Scalars(g) ==
  /\ now \in Nat /\ epoch \in Nat /\ clearedAt \in Nat
  /\ attempt[g] \in {1, 2} /\ since[g] \in Nat /\ floor[g] \in Nat
  /\ began[g] \in Nat /\ lag[g] \in Nat
  /\ Len(tokens[g]) \in Nat /\ Len(audited[g]) \in Nat
  /\ Len(tokens[g]) > 0 => tokens[g][1].epoch \in Nat
  /\ RefreshSlack \in Nat /\ Lifetime \in Nat /\ Skew \in Nat /\ Second \in Nat
  /\ NoToken \notin Tokens!Token

LEMMA ScalarsOf ==
  ASSUME TypeOK, NEW g \in Callers
  PROVE  Scalars(g)
<1>1. Len(tokens[g]) \in Nat /\ Len(audited[g]) \in Nat
  BY TokensOf
<1>2. Len(tokens[g]) > 0 => tokens[g][1].epoch \in Nat
  BY TokensOf
<1>3. QED BY <1>1, <1>2, TypesOf, ConstantsOK DEF Scalars

\* What is true of a call stays true while others act.
LEMMA UntouchedKeeps ==
  ASSUME IInv, TypeOK', NEW h \in Callers, Untouched(h), Onward
  PROVE  CallOf(h)'
<1>0. TypeOK /\ CallOf(h)
  BY DEF IInv
<1>1. /\ now' \in Nat /\ epoch' \in Nat /\ clearedAt' \in Nat
      /\ keyRevoked \in BOOLEAN /\ keyRevoked' \in BOOLEAN
  BY <1>0 DEF TypeOK, Tokens!TypeOK
<1>2. /\ now \in Nat /\ epoch \in Nat /\ clearedAt \in Nat /\ since[h] \in Nat
      /\ began[h] \in Nat /\ attempt[h] \in {1, 2} /\ Len(tokens[h]) \in Nat
  BY <1>0, TypesOf, TokensOf
<1>3. Len(tokens[h]) > 0 => tokens[h][1].epoch \in Nat
  BY <1>0, TokensOf
<1>10. PlaceOf(h)'
  BY <1>0 DEF Untouched, CallOf, PlaceOf
<1>11. WireOf(h)'
  BY <1>0, TypesOf DEF Untouched, CallOf, WireOf
<1>12. EpochOf(h)'
  <2>1. EpochOf(h) BY <1>0 DEF CallOf
  <2>2. /\ at'[h] = at[h] /\ attempt'[h] = attempt[h] /\ floor'[h] = floor[h]
        /\ tokens'[h] = tokens[h] /\ epoch <= epoch'
    BY DEF Untouched, Onward
  <2>3. at[h] = "invalidated" => Len(tokens[h]) > 0
    BY <1>0 DEF CallOf, PlaceOf, RejectedAt
  <2>4. QED BY <1>1, <1>2, <1>3, <2>1, <2>2, <2>3 DEF EpochOf
<1>13. AgeOf(h)'
  <2>1. AgeOf(h) BY <1>0 DEF CallOf
  <2>2. /\ at'[h] = at[h] /\ attempt'[h] = attempt[h] /\ began'[h] = began[h]
        /\ tokens'[h] = tokens[h] /\ since'[h] = since[h] /\ result'[h] = result[h]
        /\ now <= now' /\ clearedAt <= clearedAt'
    BY DEF Untouched, Onward
  <2>3. Tokens!ExpiresAt(tokens[h][attempt[h]])' = Tokens!ExpiresAt(tokens[h][attempt[h]])
    BY <2>2 DEF Tokens!ExpiresAt
  <2>4. QED BY <1>1, <1>2, <2>1, <2>2, <2>3 DEF AgeOf
<1>14. LagOf(h)'
  BY <1>0, <1>1, TypesOf DEF Untouched, Onward, CallOf, LagOf
<1>15. AuditOf(h)'
  BY <1>0 DEF Untouched, CallOf, AuditOf
<1> QED BY <1>10, <1>11, <1>12, <1>13, <1>14, <1>15 DEF CallOf

\* Every step moves time and the epoch forward.
LEMMA OnwardStep ==
  ASSUME IInv, [Next]_vars
  PROVE  Onward
<1>0. /\ now \in Nat /\ epoch \in Nat /\ clearedAt \in Nat /\ clearedAt <= now
      /\ keyRevoked \in BOOLEAN
  BY DEF IInv, TypeOK, Tokens!TypeOK, ServiceInv, CacheInv
<1>1. now <= now' /\ epoch <= epoch' /\ clearedAt <= clearedAt'
  <2>1. [Tokens!Next]_(Tokens!vars)
    BY ServiceStep
  <2>2. QED
    BY <1>0, <2>1 DEF Tokens!Next, Tokens!vars, Tokens!Tick, Tokens!Ask,
       Tokens!Reuse, Tokens!Renew, Tokens!Refuse, Tokens!Answer,
       Tokens!Collect, Tokens!AskInvalidate, Tokens!Invalidate
<1>2. keyRevoked' = keyRevoked \/ keyRevoked' = TRUE
  BY CallVarsStay DEF Next, vars, Tick, RevokeKey, Client, Serve, Begin,
     NoTokenForCall, Send, TransportError, BodyError, Receive, CallInvalidate,
     Invalidated, Retry, TokenAnswers
<1>3. QED BY <1>0, <1>1, <1>2 DEF Onward

\* A call begins: its first Token call starts with it.
LEMMA BeginKeeps ==
  ASSUME IInv, NEW g \in Callers, Begin(g)
  PROVE  CallOf(g)'
<1>0. IInv /\ TypeOK /\ ServiceInv /\ CallOf(g) /\ AskOf(g) /\ CacheInv
  BY DEF IInv, ServiceInv
<1>1. /\ at[g] = "idle"
      /\ phase'[g] = "asked"
      /\ since'[g] = now
      /\ floor'[g] = epoch
      /\ at'[g] = "token"
      /\ began'[g] = now
      /\ now' = now /\ epoch' = epoch /\ clearedAt' = clearedAt /\ keyRevoked' = keyRevoked
      /\ wire' = wire
      /\ result'[g] = result[g] /\ retries'[g] = retries[g] /\ attempt'[g] = attempt[g]
      /\ tokens'[g] = tokens[g] /\ reply'[g] = reply[g] /\ lag'[g] = lag[g]
      /\ effects'[g] = effects[g] /\ audited'[g] = audited[g] /\ outcome'[g] = outcome[g]
  BY <1>0 DEF TypeOK, Tokens!TypeOK, Begin, Tokens!Ask
<1>t. Scalars(g)
  BY <1>0, ScalarsOf
<1>10. PlaceOf(g)'
  BY <1>0, <1>1, <1>t DEF CallOf, PlaceOf, RejectedAt, Scalars, AskOf, Locations, Outcomes, Verdicts
<1>11. WireOf(g)'
  BY <1>0, <1>1, <1>t DEF CallOf, PlaceOf, WireOf, RejectedAt, Scalars, Verdicts
<1>12. EpochOf(g)'
  BY <1>0, <1>1, <1>t DEF CallOf, PlaceOf, EpochOf, RejectedAt, Scalars, AskOf
<1>13. AgeOf(g)'
  BY <1>0, <1>1, <1>t DEF CallOf, PlaceOf, AgeOf, RejectedAt, Scalars, AskOf, Tokens!ExpiresAt
<1>14. LagOf(g)'
  BY <1>0, <1>1, <1>t DEF CallOf, PlaceOf, LagOf, RejectedAt, Scalars, Outcomes
<1>15. AuditOf(g)'
  BY <1>0, <1>1, <1>t DEF CallOf, PlaceOf, AuditOf, RejectedAt, Scalars, Outcomes, Verdicts
<1> QED BY <1>10, <1>11, <1>12, <1>13, <1>14, <1>15 DEF CallOf

\* A call that gets no token sends nothing more.
LEMMA NoTokenForCallKeeps ==
  ASSUME IInv, NEW g \in Callers, NoTokenForCall(g)
  PROVE  CallOf(g)'
<1>0. IInv /\ TypeOK /\ ServiceInv /\ CallOf(g) /\ AskOf(g) /\ CacheInv
  BY DEF IInv, ServiceInv
<1>1. /\ at[g] = "token"
      /\ phase'[g] = "idle"
      /\ since'[g] = 0
      /\ floor'[g] = 0
      /\ result'[g] = NoToken
      /\ at'[g] = "returned"
      /\ outcome'[g] = "failed"
      /\ now' = now /\ epoch' = epoch /\ clearedAt' = clearedAt /\ keyRevoked' = keyRevoked
      /\ wire' = wire
      /\ retries'[g] = retries[g] /\ attempt'[g] = attempt[g] /\ began'[g] = began[g]
      /\ tokens'[g] = tokens[g] /\ reply'[g] = reply[g] /\ lag'[g] = lag[g]
      /\ effects'[g] = effects[g] /\ audited'[g] = audited[g]
  BY <1>0 DEF TypeOK, Tokens!TypeOK, NoTokenForCall, Tokens!Collect, Return
<1>t. Scalars(g)
  BY <1>0, ScalarsOf
<1>10. PlaceOf(g)'
  BY <1>0, <1>1, <1>t DEF CallOf, PlaceOf, RejectedAt, Scalars, AskOf, Locations, Outcomes, Verdicts
<1>11. WireOf(g)'
  BY <1>0, <1>1, <1>t DEF CallOf, PlaceOf, WireOf, RejectedAt, Scalars, Verdicts
<1>12. EpochOf(g)'
  BY <1>0, <1>1, <1>t DEF CallOf, PlaceOf, EpochOf, RejectedAt, Scalars, AskOf
<1>13. AgeOf(g)'
  BY <1>0, <1>1, <1>t DEF CallOf, PlaceOf, AgeOf, RejectedAt, Scalars, AskOf, Tokens!ExpiresAt
<1>14. LagOf(g)'
  BY <1>0, <1>1, <1>t DEF CallOf, PlaceOf, LagOf, RejectedAt, Scalars, Outcomes
<1>15. AuditOf(g)'
  BY <1>0, <1>1, <1>t DEF CallOf, PlaceOf, AuditOf, RejectedAt, Scalars, Outcomes, Verdicts
<1> QED BY <1>10, <1>11, <1>12, <1>13, <1>14, <1>15 DEF CallOf

\* The token Token returned goes out with the attempt.
LEMMA SendKeeps ==
  ASSUME IInv, NEW g \in Callers, Send(g)
  PROVE  CallOf(g)'
<1>0. IInv /\ TypeOK /\ ServiceInv /\ CallOf(g) /\ AskOf(g) /\ CacheInv
  BY DEF IInv, ServiceInv
<1>1. /\ at[g] = "token" /\ result[g] # NoToken /\ phase[g] = "answered"
      /\ phase'[g] = "idle"
      /\ since'[g] = 0
      /\ floor'[g] = 0
      /\ result'[g] = NoToken
      /\ at'[g] = "sent"
      /\ tokens'[g] = Append(tokens[g], result[g])
      /\ now' = now /\ epoch' = epoch /\ clearedAt' = clearedAt /\ keyRevoked' = keyRevoked
      /\ wire' = wire \cup {<<g, attempt[g]>>}
      /\ retries'[g] = retries[g] /\ attempt'[g] = attempt[g] /\ began'[g] = began[g]
      /\ reply'[g] = reply[g] /\ lag'[g] = lag[g] /\ effects'[g] = effects[g]
      /\ audited'[g] = audited[g] /\ outcome'[g] = outcome[g]
  BY <1>0 DEF TypeOK, Tokens!TypeOK, Send, Tokens!Collect
<1>t. Scalars(g)
  BY <1>0, ScalarsOf
<1>2. /\ result[g] \in Tokens!Token /\ result[g].epoch \in Nat /\ result[g].minted \in Nat
      /\ tokens[g] \in Seq(Tokens!Token)
  BY <1>0, <1>1, TypesOf DEF Tokens!Token
<1>p. Len(tokens[g]) = attempt[g] - 1
  BY <1>0, <1>1 DEF CallOf, PlaceOf
<1>3. /\ Len(tokens'[g]) = Len(tokens[g]) + 1
      /\ tokens'[g][attempt[g]] = result[g]
      /\ attempt[g] = 2 => tokens'[g][1] = tokens[g][1]
  <2>1. Len(Append(tokens[g], result[g])) = Len(tokens[g]) + 1
    BY <1>2, AppendFacts
  <2>2. Append(tokens[g], result[g])[Len(tokens[g]) + 1] = result[g]
    BY <1>2, AppendFacts
  <2>3. attempt[g] = 2 => Append(tokens[g], result[g])[1] = tokens[g][1]
    BY <1>2, <1>p, <1>t, AppendFacts
  <2>4. tokens'[g] = Append(tokens[g], result[g])
    BY <1>1
  <2>5. Len(tokens[g]) + 1 = attempt[g]
    BY <1>p, <1>t DEF Scalars
  <2>6. QED BY <2>1, <2>2, <2>3, <2>4, <2>5
<1>10. PlaceOf(g)'
  BY <1>0, <1>1, <1>t, <1>2, <1>3, <1>p DEF CallOf, PlaceOf, RejectedAt, Scalars, AskOf, Locations, Outcomes, Verdicts
<1>11. WireOf(g)'
  <2>1. /\ WireOf(g) /\ at'[g] = "sent" /\ attempt'[g] = attempt[g]
        /\ effects'[g] = effects[g] /\ reply'[g] = "none" /\ at[g] = "token"
        /\ reply[g] = "none" /\ attempt[g] \in {1, 2}
        /\ wire' = wire \cup {<<g, attempt[g]>>}
        /\ Len(tokens'[g]) = attempt[g] /\ Len(tokens[g]) = attempt[g] - 1
    BY <1>0, <1>1, <1>t, <1>3, <1>p DEF CallOf, PlaceOf, Scalars
  <2>2. effects[g] = 0
    BY <2>1 DEF WireOf
  <2>3. QED BY <2>1, <2>2 DEF WireOf, RejectedAt
<1>12. EpochOf(g)'
  <2>1. /\ result[g].epoch <= epoch /\ floor[g] <= result[g].epoch
        /\ attempt[g] = 2 => tokens[g][1].epoch < floor[g]
        /\ attempt[g] = 2 => tokens[g][1].epoch \in Nat /\ tokens[g][1].epoch <= epoch
    BY <1>0, <1>1, <1>t, <1>p DEF CallOf, EpochOf, AskOf, Scalars
  <2>2. Len(tokens'[g]) = attempt[g] /\ at'[g] = "sent" /\ epoch' = epoch
    BY <1>1, <1>t, <1>3, <1>p DEF Scalars
  <2>3. attempt[g] = 1 => tokens'[g][1] = result[g]
    BY <1>3
  <2>4. CASE attempt[g] = 1
    BY <1>2, <2>1, <2>2, <2>3, <2>4 DEF EpochOf
  <2>5. CASE attempt[g] = 2
    <3>1. /\ tokens'[g][1] = tokens[g][1] /\ tokens'[g][2] = result[g]
      BY <1>3, <2>5
    <3>2. tokens[g][1].epoch < result[g].epoch
      BY <1>2, <1>t, <2>1, <2>5 DEF Scalars
    <3>3. QED BY <2>1, <2>2, <2>5, <3>1, <3>2 DEF EpochOf
  <2>6. QED BY <1>t, <2>4, <2>5 DEF Scalars
<1>13. AgeOf(g)'
  <2>1. /\ began[g] <= now /\ began[g] <= since[g]
        /\ since[g] + RefreshSlack <= result[g].minted + Lifetime
        /\ attempt[g] = 2 => began[g] <= result[g].minted
    BY <1>0, <1>1 DEF CallOf, AgeOf, AskOf, Tokens!ExpiresAt
  <2>2. began[g] + RefreshSlack <= result[g].minted + Lifetime
    BY <1>2, <1>t, <2>1 DEF Scalars
  <2>3. /\ at'[g] = "sent" /\ attempt'[g] = attempt[g] /\ now' = now
        /\ began'[g] = began[g] /\ tokens'[g][attempt[g]] = result[g]
    BY <1>1, <1>3
  <2>4. QED BY <2>1, <2>2, <2>3 DEF AgeOf, Tokens!ExpiresAt
<1>14. LagOf(g)'
  BY <1>0, <1>1, <1>t, <1>2, <1>3, <1>p DEF CallOf, PlaceOf, LagOf, RejectedAt, Scalars, Outcomes
<1>15. AuditOf(g)'
  BY <1>0, <1>1, <1>t, <1>2, <1>3, <1>p DEF CallOf, PlaceOf, AuditOf, RejectedAt, Scalars, Outcomes, Verdicts
<1> QED BY <1>10, <1>11, <1>12, <1>13, <1>14, <1>15 DEF CallOf

\* A request without a response is audited, and stays on the wire.
LEMMA TransportErrorKeeps ==
  ASSUME IInv, NEW g \in Callers, TransportError(g)
  PROVE  CallOf(g)'
<1>0. IInv /\ TypeOK /\ ServiceInv /\ CallOf(g) /\ AskOf(g) /\ CacheInv
  BY DEF IInv, ServiceInv
<1>1. /\ at[g] = "sent"
      /\ at'[g] = "returned"
      /\ reply'[g] = "none"
      /\ outcome'[g] = "failed"
      /\ audited'[g] = Append(audited[g], "no response")
      /\ now' = now /\ epoch' = epoch /\ clearedAt' = clearedAt /\ keyRevoked' = keyRevoked
      /\ wire' = wire
      /\ phase'[g] = phase[g] /\ since'[g] = since[g] /\ floor'[g] = floor[g]
      /\ result'[g] = result[g] /\ retries'[g] = retries[g] /\ attempt'[g] = attempt[g]
      /\ began'[g] = began[g] /\ tokens'[g] = tokens[g] /\ lag'[g] = lag[g]
      /\ effects'[g] = effects[g]
  BY <1>0 DEF TypeOK, Tokens!TypeOK, TransportError, Audit, Return, tokenVars
<1>t. Scalars(g)
  BY <1>0, ScalarsOf
<1>3. Len(audited'[g]) = Len(audited[g]) + 1
  <2>1. "no response" \in AuditStatuses BY DEF AuditStatuses
  <2>2. QED BY <1>0, <1>1, <2>1, AuditGrows
<1>10. PlaceOf(g)'
  BY <1>0, <1>1, <1>t, <1>3 DEF CallOf, PlaceOf, RejectedAt, Scalars, AskOf, Locations, Outcomes, Verdicts
<1>11. WireOf(g)'
  BY <1>0, <1>1, <1>t, <1>3 DEF CallOf, PlaceOf, WireOf, RejectedAt, Scalars, Verdicts
<1>12. EpochOf(g)'
  BY <1>0, <1>1, <1>t, <1>3 DEF CallOf, PlaceOf, EpochOf, RejectedAt, Scalars, AskOf
<1>13. AgeOf(g)'
  BY <1>0, <1>1, <1>t, <1>3 DEF CallOf, PlaceOf, AgeOf, RejectedAt, Scalars, AskOf, Tokens!ExpiresAt
<1>14. LagOf(g)'
  BY <1>0, <1>1, <1>t, <1>3 DEF CallOf, PlaceOf, LagOf, RejectedAt, Scalars, Outcomes
<1>15. AuditOf(g)'
  <2>1. Len(tokens[g]) = attempt[g] /\ Len(audited[g]) = attempt[g] - 1
    BY <1>0, <1>1 DEF CallOf, PlaceOf, AuditOf, RejectedAt
  <2>2. Len(tokens'[g]) - Len(audited'[g]) \in {0, 1}
    <3>1. Len(tokens'[g]) = attempt[g]
      BY <1>1, <2>1
    <3>2. Len(audited'[g]) = attempt[g]
      BY <1>3, <1>t, <2>1 DEF Scalars
    <3>3. QED BY <1>t, <3>1, <3>2 DEF Scalars
  <2>3. QED BY <1>1, <2>2 DEF AuditOf, RejectedAt, Verdicts
<1> QED BY <1>10, <1>11, <1>12, <1>13, <1>14, <1>15 DEF CallOf

\* An answer that cannot be read is not audited; the request was answered.
LEMMA BodyErrorKeeps ==
  ASSUME IInv, NEW g \in Callers, BodyError(g)
  PROVE  CallOf(g)'
<1>0. IInv /\ TypeOK /\ ServiceInv /\ CallOf(g) /\ AskOf(g) /\ CacheInv
  BY DEF IInv, ServiceInv
<1>1. /\ at[g] = "sent" /\ reply[g] # "none"
      /\ at'[g] = "returned"
      /\ reply'[g] = "none"
      /\ outcome'[g] = "failed"
      /\ now' = now /\ epoch' = epoch /\ clearedAt' = clearedAt /\ keyRevoked' = keyRevoked
      /\ wire' = wire
      /\ phase'[g] = phase[g] /\ since'[g] = since[g] /\ floor'[g] = floor[g]
      /\ result'[g] = result[g] /\ retries'[g] = retries[g] /\ attempt'[g] = attempt[g]
      /\ began'[g] = began[g] /\ tokens'[g] = tokens[g] /\ lag'[g] = lag[g]
      /\ effects'[g] = effects[g] /\ audited'[g] = audited[g]
  BY <1>0 DEF TypeOK, Tokens!TypeOK, BodyError, Return, tokenVars
<1>t. Scalars(g)
  BY <1>0, ScalarsOf
<1>10. PlaceOf(g)'
  BY <1>0, <1>1, <1>t DEF CallOf, PlaceOf, RejectedAt, Scalars, AskOf, Locations, Outcomes, Verdicts
<1>11. WireOf(g)'
  BY <1>0, <1>1, <1>t DEF CallOf, PlaceOf, WireOf, RejectedAt, Scalars, Verdicts
<1>12. EpochOf(g)'
  BY <1>0, <1>1, <1>t DEF CallOf, PlaceOf, EpochOf, RejectedAt, Scalars, AskOf
<1>13. AgeOf(g)'
  BY <1>0, <1>1, <1>t DEF CallOf, PlaceOf, AgeOf, RejectedAt, Scalars, AskOf, Tokens!ExpiresAt
<1>14. LagOf(g)'
  BY <1>0, <1>1, <1>t DEF CallOf, PlaceOf, LagOf, RejectedAt, Scalars, Outcomes
<1>15. AuditOf(g)'
  <2>1. Len(tokens[g]) = attempt[g] /\ Len(audited[g]) = attempt[g] - 1
    BY <1>0, <1>1 DEF CallOf, PlaceOf, AuditOf, RejectedAt
  <2>2. Len(tokens'[g]) - Len(audited'[g]) \in {0, 1}
    BY <1>1, <1>t, <2>1 DEF Scalars
  <2>3. QED BY <1>1, <2>2 DEF AuditOf, RejectedAt, Verdicts
<1> QED BY <1>10, <1>11, <1>12, <1>13, <1>14, <1>15 DEF CallOf

\* A whole answer is audited; the first 401 of a Do leaves nothing on the wire
\* and no effect behind, and every other answer ends the call.
LEMMA ReceiveKeeps ==
  ASSUME IInv, NEW g \in Callers, Receive(g)
  PROVE  CallOf(g)'
<1>0. IInv /\ TypeOK /\ ServiceInv /\ CallOf(g) /\ AskOf(g) /\ CacheInv
  BY DEF IInv, ServiceInv
<1>r. (reply[g] = "unauthorized" /\ retries[g] /\ attempt[g] = 1) \in BOOLEAN
  OBVIOUS
<1>1. /\ at[g] = "sent" /\ reply[g] # "none"
      /\ reply'[g] = "none"
      /\ audited'[g] = Append(audited[g], reply[g])
      /\ now' = now /\ epoch' = epoch /\ clearedAt' = clearedAt /\ keyRevoked' = keyRevoked
      /\ wire' = wire
      /\ phase'[g] = phase[g] /\ since'[g] = since[g] /\ floor'[g] = floor[g]
      /\ result'[g] = result[g] /\ retries'[g] = retries[g]
      /\ attempt'[g] = attempt[g] /\ began'[g] = began[g] /\ tokens'[g] = tokens[g]
      /\ lag'[g] = lag[g] /\ effects'[g] = effects[g]
  BY <1>0 DEF TypeOK, Tokens!TypeOK, Receive, Audit, tokenVars
<1>2. \/ /\ reply[g] = "unauthorized" /\ attempt[g] = 1
         /\ at'[g] = "rejected" /\ outcome'[g] = outcome[g]
      \/ /\ ~(reply[g] = "unauthorized" /\ retries[g] /\ attempt[g] = 1)
         /\ at'[g] = "returned" /\ outcome'[g] = reply[g]
  BY <1>0 DEF TypeOK, Receive, Return
<1>t. Scalars(g) /\ reply[g] \in Verdicts
  BY <1>0, <1>1, ScalarsOf, TypesOf
<1>p. /\ Len(tokens[g]) = attempt[g] /\ Len(audited[g]) = attempt[g] - 1
      /\ phase[g] = "idle" /\ outcome[g] = "none" /\ result[g] = NoToken
  BY <1>0, <1>1, <1>t DEF CallOf, PlaceOf, AuditOf, AskOf, RejectedAt
<1>3. /\ Len(audited'[g]) = attempt[g]
      /\ audited'[g][attempt[g]] = reply[g]
  <2>1. reply[g] \in AuditStatuses BY <1>t DEF AuditStatuses
  <2>2. /\ Len(Append(audited[g], reply[g])) = Len(audited[g]) + 1
        /\ Append(audited[g], reply[g])[Len(audited[g]) + 1] = reply[g]
    BY <1>0, <2>1, AuditGrows
  <2>3. Len(audited[g]) + 1 = attempt[g]
    BY <1>p, <1>t DEF Scalars
  <2>4. QED BY <1>1, <2>2, <2>3
<1>4. PlaceOf(g)'
  BY <1>0, <1>1, <1>2, <1>t, <1>p DEF CallOf, PlaceOf, RejectedAt, Scalars, Verdicts
<1>5. WireOf(g)'
  <2>1. WireOf(g) BY <1>0 DEF CallOf
  <2>2. <<g, attempt[g]>> \notin wire
    BY <1>1, <2>1 DEF WireOf
  <2>3. reply[g] = "unauthorized" => effects[g] # 1
    BY <1>1, <2>1 DEF WireOf
  <2>4. QED BY <1>1, <1>2, <2>1, <2>2, <2>3 DEF WireOf
<1>6. EpochOf(g)'
  BY <1>0, <1>1, <1>2 DEF CallOf, EpochOf
<1>7. AgeOf(g)'
  BY <1>0, <1>1, <1>2 DEF CallOf, AgeOf
<1>8. LagOf(g)'
  BY <1>0, <1>1, <1>2, <1>p, <1>t DEF CallOf, LagOf, Scalars
<1>9. AuditOf(g)'
  <2>1. CASE at'[g] = "rejected"
    <3>1. attempt[g] = 1 BY <1>2, <2>1
    <3>2. QED BY <1>3, <2>1, <3>1 DEF AuditOf, RejectedAt
  <2>2. CASE at'[g] = "returned"
    <3>1. outcome'[g] = reply[g] BY <1>2, <2>2
    <3>2. reply[g] # "failed" BY <1>t DEF Verdicts
    <3>3. Len(tokens'[g]) = attempt[g] BY <1>1, <1>p
    <3>4. attempt[g] > 0 BY <1>t DEF Scalars
    <3>5. QED BY <1>3, <2>2, <3>1, <3>2, <3>3, <3>4 DEF AuditOf, RejectedAt
  <2>3. QED BY <1>2, <2>1, <2>2
<1>10. QED BY <1>4, <1>5, <1>6, <1>7, <1>8, <1>9 DEF CallOf

\* The rejected call asks for its token to be dropped.
LEMMA CallInvalidateKeeps ==
  ASSUME IInv, NEW g \in Callers, CallInvalidate(g)
  PROVE  CallOf(g)'
<1>0. IInv /\ TypeOK /\ CallOf(g)
  BY DEF IInv
<1>1. /\ at[g] = "rejected" /\ at'[g] = "invalidating"
      /\ phase'[g] = "invalidating"
      /\ now' = now /\ epoch' = epoch /\ clearedAt' = clearedAt /\ keyRevoked' = keyRevoked
      /\ wire' = wire
      /\ since'[g] = since[g] /\ floor'[g] = floor[g] /\ result'[g] = result[g]
      /\ retries'[g] = retries[g] /\ attempt'[g] = attempt[g] /\ began'[g] = began[g]
      /\ tokens'[g] = tokens[g] /\ reply'[g] = reply[g] /\ lag'[g] = lag[g]
      /\ effects'[g] = effects[g] /\ audited'[g] = audited[g] /\ outcome'[g] = outcome[g]
  BY <1>0 DEF TypeOK, Tokens!TypeOK, CallInvalidate, Tokens!AskInvalidate
<1>2. PlaceOf(g)'
  BY <1>0, <1>1 DEF CallOf, PlaceOf, RejectedAt
<1>3. WireOf(g)'
  BY <1>0, <1>1 DEF CallOf, WireOf, RejectedAt
<1>4. EpochOf(g)' /\ AgeOf(g)' /\ LagOf(g)'
  BY <1>0, <1>1 DEF CallOf, EpochOf, AgeOf, LagOf
<1>5. AuditOf(g)'
  BY <1>0, <1>1 DEF CallOf, AuditOf, RejectedAt
<1>6. QED BY <1>2, <1>3, <1>4, <1>5 DEF CallOf

\* From here on the rejected token is of an earlier epoch, and whatever will be
\* cached was minted after the drop.
LEMMA InvalidatedKeeps ==
  ASSUME IInv, NEW g \in Callers, Invalidated(g)
  PROVE  CallOf(g)'
<1>0. IInv /\ TypeOK /\ CallOf(g)
  BY DEF IInv
<1>1. /\ at[g] = "invalidating" /\ at'[g] = "invalidated"
      /\ phase'[g] = "idle" /\ began'[g] = now
      /\ now' = now /\ epoch' = epoch + 1 /\ clearedAt' = now /\ keyRevoked' = keyRevoked
      /\ wire' = wire
      /\ since'[g] = since[g] /\ floor'[g] = floor[g] /\ result'[g] = result[g]
      /\ retries'[g] = retries[g] /\ attempt'[g] = attempt[g]
      /\ tokens'[g] = tokens[g] /\ reply'[g] = reply[g] /\ lag'[g] = lag[g]
      /\ effects'[g] = effects[g] /\ audited'[g] = audited[g] /\ outcome'[g] = outcome[g]
  BY <1>0 DEF TypeOK, Tokens!TypeOK, Invalidated, Tokens!Invalidate
<1>t. Scalars(g)
  BY <1>0, ScalarsOf
<1>2. PlaceOf(g)'
  BY <1>0, <1>1 DEF CallOf, PlaceOf, RejectedAt
<1>3. WireOf(g)'
  BY <1>0, <1>1 DEF CallOf, WireOf, RejectedAt
<1>4. EpochOf(g)'
  <2>1. Len(tokens[g]) = 1
    BY <1>0, <1>1 DEF CallOf, PlaceOf, RejectedAt
  <2>2. tokens[g][1].epoch <= epoch /\ tokens[g][1].epoch \in Nat /\ epoch \in Nat
    BY <1>0, <1>t, <2>1 DEF CallOf, EpochOf, Scalars
  <2>3. QED BY <1>1, <2>1, <2>2 DEF EpochOf
<1>5. AgeOf(g)' /\ LagOf(g)'
  BY <1>0, <1>1, <1>t DEF CallOf, AgeOf, LagOf, Scalars
<1>6. AuditOf(g)'
  BY <1>0, <1>1 DEF CallOf, AuditOf, RejectedAt
<1>7. QED BY <1>2, <1>3, <1>4, <1>5, <1>6 DEF CallOf

\* The second attempt's Token call starts in the later epoch.
LEMMA RetryKeeps ==
  ASSUME IInv, NEW g \in Callers, Retry(g)
  PROVE  CallOf(g)'
<1>0. IInv /\ TypeOK /\ ServiceInv /\ CallOf(g) /\ AskOf(g) /\ CacheInv
  BY DEF IInv, ServiceInv
<1>1. /\ at[g] = "invalidated" /\ at'[g] = "token"
      /\ phase'[g] = "asked" /\ since'[g] = now /\ floor'[g] = epoch /\ attempt'[g] = 2
      /\ now' = now /\ epoch' = epoch /\ clearedAt' = clearedAt /\ keyRevoked' = keyRevoked
      /\ wire' = wire
      /\ result'[g] = result[g] /\ retries'[g] = retries[g] /\ began'[g] = began[g]
      /\ tokens'[g] = tokens[g] /\ reply'[g] = reply[g] /\ lag'[g] = lag[g]
      /\ effects'[g] = effects[g] /\ audited'[g] = audited[g] /\ outcome'[g] = outcome[g]
  BY <1>0 DEF TypeOK, Tokens!TypeOK, Retry, Tokens!Ask
<1>t. Scalars(g)
  BY <1>0, ScalarsOf
<1>p. /\ attempt[g] = 1 /\ Len(tokens[g]) = 1 /\ Len(audited[g]) = 1
      /\ reply[g] = "none" /\ outcome[g] = "none" /\ result[g] = NoToken
  BY <1>0, <1>1 DEF CallOf, PlaceOf, AuditOf, AskOf, RejectedAt
<1>2. PlaceOf(g)'
  BY <1>0, <1>1, <1>p DEF CallOf, PlaceOf, RejectedAt
<1>3. WireOf(g)'
  <2>1. \A n \in {1, 2} : <<g, n>> \notin wire
    BY <1>0, <1>1, <1>p DEF CallOf, WireOf, RejectedAt
  <2>2. effects[g] = 0
    BY <1>0, <1>1, <1>p DEF CallOf, WireOf
  <2>3. QED BY <1>1, <1>p, <2>1, <2>2 DEF WireOf
<1>4. EpochOf(g)'
  BY <1>0, <1>1, <1>p DEF CallOf, EpochOf
<1>5. AgeOf(g)' /\ LagOf(g)'
  BY <1>0, <1>1, <1>p DEF CallOf, AgeOf, LagOf
<1>6. AuditOf(g)'
  BY <1>1, <1>p DEF AuditOf, RejectedAt
<1>7. QED BY <1>2, <1>3, <1>4, <1>5, <1>6 DEF CallOf

\* Whichever token the retry is answered with was minted after the drop.
LEMMA TokenAnswersKeeps ==
  ASSUME IInv, NEW g \in Callers, TokenAnswers(g)
  PROVE  CallOf(g)'
<1>0. IInv /\ TypeOK /\ ServiceInv /\ CallOf(g) /\ CacheInv
  BY DEF IInv, ServiceInv
<1>t. Scalars(g)
  BY <1>0, ScalarsOf
<1>1. /\ at'[g] = at[g] /\ retries'[g] = retries[g] /\ attempt'[g] = attempt[g]
      /\ began'[g] = began[g] /\ tokens'[g] = tokens[g] /\ wire' = wire
      /\ reply'[g] = reply[g] /\ lag'[g] = lag[g] /\ effects'[g] = effects[g]
      /\ audited'[g] = audited[g] /\ outcome'[g] = outcome[g]
      /\ keyRevoked' = keyRevoked
  BY CallVarsStay DEF TokenAnswers
<1>2. /\ phase[g] = "asked" /\ phase'[g] = "answered"
      /\ since'[g] = since[g] /\ floor'[g] = floor[g]
      /\ now' = now /\ epoch' = epoch /\ clearedAt' = clearedAt
      /\ result'[g] # NoToken => clearedAt <= result'[g].minted
  <2>1. ASSUME NEW tok, Tokens!Answer(g, tok)
        PROVE  /\ phase[g] = "asked" /\ phase'[g] = "answered" /\ result'[g] = tok
               /\ since'[g] = since[g] /\ floor'[g] = floor[g]
               /\ now' = now /\ epoch' = epoch /\ clearedAt' = clearedAt
    BY <1>0, <2>1 DEF Tokens!Answer, TypeOK, Tokens!TypeOK
  <2>2. CASE Tokens!Reuse(g)
    BY <1>0, <2>1, <2>2 DEF Tokens!Reuse, CacheInv
  <2>3. CASE Tokens!Renew(g)
    <3>1. PICK t \in since[g]..now :
            /\ clearedAt <= t
            /\ cached' = [minted |-> t, epoch |-> epoch]
            /\ Tokens!Answer(g, cached')
      BY <2>3 DEF Tokens!Renew
    <3>2. QED BY <2>1, <3>1
  <2>4. CASE Tokens!Refuse(g)
    BY <2>1, <2>4 DEF Tokens!Refuse
  <2>5. QED BY <2>2, <2>3, <2>4 DEF TokenAnswers
<1>3. result'[g] # NoToken => result'[g].minted \in Nat
  <2>1. Tokens!TypeOK'
    BY <1>0, ServiceStep, ServiceTypes DEF ServiceInv, Next, Client
  <2>2. QED BY <2>1 DEF Tokens!TypeOK, Tokens!Token
<1>4. PlaceOf(g)'
  BY <1>0, <1>1, <1>2 DEF CallOf, PlaceOf
<1>5. WireOf(g)' /\ EpochOf(g)' /\ LagOf(g)' /\ AuditOf(g)'
  <2>1. WireOf(g)' BY <1>0, <1>1 DEF CallOf, WireOf
  <2>2. EpochOf(g)' BY <1>0, <1>1, <1>2 DEF CallOf, EpochOf
  <2>3. LagOf(g)' BY <1>0, <1>1 DEF CallOf, LagOf
  <2>4. AuditOf(g)' BY <1>0, <1>1 DEF CallOf, AuditOf
  <2>5. QED BY <2>1, <2>2, <2>3, <2>4
<1>6. AgeOf(g)'
  <2>1. AgeOf(g) BY <1>0 DEF CallOf
  <2>2. result'[g] # NoToken /\ began[g] <= clearedAt => began[g] <= result'[g].minted
    BY <1>2, <1>3, <1>t DEF Scalars
  <2>3. Tokens!ExpiresAt(tokens[g][attempt[g]])' = Tokens!ExpiresAt(tokens[g][attempt[g]])
    BY <1>1 DEF Tokens!ExpiresAt
  <2>4. QED BY <1>1, <1>2, <2>1, <2>2, <2>3 DEF AgeOf
<1>7. QED BY <1>4, <1>5, <1>6 DEF CallOf

\* The server takes the current attempt, and no other, off the wire: the first
\* effect is the only one, and a rejection comes with the age it was rejected
\* for.
LEMMA ServeKeeps ==
  ASSUME IInv, NEW g \in Callers, NEW n \in {1, 2}, Serve(g, n)
  PROVE  CallOf(g)'
<1>0. IInv /\ TypeOK /\ ServiceInv /\ CallOf(g)
  BY DEF IInv
<1>t. Scalars(g)
  BY <1>0, ScalarsOf
<1>w. /\ <<g, n>> \in wire /\ n = attempt[g] /\ n = Len(tokens[g])
      /\ reply[g] = "none" /\ effects[g] = 0
  BY <1>0 DEF Serve, CallOf, WireOf
<1>f. /\ reply \in [Callers -> Verdicts \cup {"none"}]
      /\ lag \in [Callers -> Nat] /\ effects \in [Callers -> Nat]
  BY <1>0 DEF TypeOK
<1>1. /\ wire' = wire \ {<<g, n>>}
      /\ now' = now /\ epoch' = epoch /\ clearedAt' = clearedAt /\ keyRevoked' = keyRevoked
      /\ phase' = phase /\ since' = since /\ floor' = floor /\ result' = result
      /\ at' = at /\ retries' = retries /\ attempt' = attempt /\ began' = began
      /\ tokens' = tokens /\ audited' = audited /\ outcome' = outcome
  BY TokenVarsStay DEF Serve
<1>2. /\ at[g] # "sent" => reply'[g] = reply[g] /\ lag'[g] = lag[g]
      /\ effects'[g] \in {0, 1}
      /\ effects'[g] = 1 /\ at[g] = "sent" => reply'[g] \in {"ok", "api error"}
      /\ reply'[g] = "unauthorized" =>
           /\ Rejects(tokens[g][n])
           /\ at[g] = "sent" /\ lag'[g] = now - began[g]
  <2>1. CASE Rejects(tokens[g][n])
    <3>1. /\ reply' = [reply EXCEPT ![g] = IF at[g] = "sent" /\ attempt[g] = n
                                             THEN "unauthorized" ELSE @]
          /\ lag' = [lag EXCEPT ![g] = IF at[g] = "sent" /\ attempt[g] = n
                                         THEN now - began[g] ELSE @]
          /\ effects' = effects
      BY <2>1 DEF Serve
    <3>2. effects'[g] = 0
      BY <1>w, <3>1
    <3>3. CASE at[g] = "sent"
      <4>1. reply'[g] = "unauthorized" /\ lag'[g] = now - began[g]
        BY <1>w, <3>1, <3>3, <1>f
      <4>2. QED BY <2>1, <3>2, <3>3, <4>1
    <3>4. CASE at[g] # "sent"
      <4>1. reply'[g] = reply[g] /\ lag'[g] = lag[g]
        BY <3>1, <3>4, <1>f
      <4>2. QED BY <1>w, <3>2, <3>4, <4>1
    <3>5. QED BY <3>3, <3>4
  <2>2. CASE ~Rejects(tokens[g][n])
    <3>1. PICK r \in {"ok", "api error"}, more \in {0, 1} :
            /\ reply' = [reply EXCEPT ![g] = IF at[g] = "sent" /\ attempt[g] = n
                                               THEN r ELSE @]
            /\ effects' = [effects EXCEPT ![g] = @ + more]
            /\ lag' = lag
      BY <2>2 DEF Serve
    <3>2. effects'[g] = more
      <4>1. effects'[g] = effects[g] + more
        BY <3>1, <1>f
      <4>2. 0 + more = more
        BY <3>1, FromNone
      <4>3. effects'[g] = 0 + more
        BY <1>w, <4>1
      <4>4. QED BY <4>2, <4>3
    <3>3. CASE at[g] = "sent"
      <4>1. reply'[g] = r
        BY <1>w, <3>1, <3>3, <1>f
      <4>2. QED BY <3>2, <3>3, <4>1
    <3>4. CASE at[g] # "sent"
      <4>1. reply'[g] = reply[g] /\ lag'[g] = lag[g]
        BY <3>1, <3>4, <1>f
      <4>2. QED BY <1>w, <3>2, <3>4, <4>1
    <3>5. QED BY <3>3, <3>4
  <2>3. QED BY <2>1, <2>2
<1>3. PlaceOf(g)'
  BY <1>0, <1>1, <1>2 DEF CallOf, PlaceOf
<1>4. WireOf(g)'
  <2>1. \A m \in {1, 2} : <<g, m>> \notin wire'
    BY <1>0, <1>1, <1>w DEF CallOf, WireOf
  <2>2. at[g] \notin RejectedAt
    BY <1>0, <1>w DEF CallOf, WireOf
  <2>3. at[g] \notin {"idle", "token"}
    <3>1. attempt[g] # attempt[g] - 1
      BY <1>t DEF Scalars
    <3>2. QED BY <1>0, <1>w, <3>1 DEF CallOf, PlaceOf
  <2>4. at[g] = "sent" \/ at[g] = "returned"
    BY <1>0, <2>2, <2>3, TypesOf DEF RejectedAt, Locations
  <2>5. attempt'[g] \in {1, 2}
    BY <1>1, <1>t DEF Scalars
  <2>6. QED BY <1>1, <1>2, <2>1, <2>2, <2>4, <2>5 DEF WireOf, RejectedAt
<1>5. EpochOf(g)'
  BY <1>0, <1>1 DEF CallOf, EpochOf
<1>6. AgeOf(g)'
  <2>1. Tokens!ExpiresAt(tokens[g][attempt[g]])' = Tokens!ExpiresAt(tokens[g][attempt[g]])
    BY <1>1 DEF Tokens!ExpiresAt
  <2>2. QED BY <1>0, <1>1, <2>1 DEF CallOf, AgeOf
<1>7. LagOf(g)'
  <2> DEFINE tok == tokens[g][n]
  <2>1. CASE reply'[g] = "unauthorized" /\ ~keyRevoked
    <3>1. tok \in Tokens!Token /\ tok.minted \in Nat
      <4>1. n \in 1..n
        OBVIOUS
      <4>2. n \in 1..Len(tokens[g])
        BY <1>w, <4>1
      <4>3. QED BY <1>0, <4>2, TokensOf
    <3>2. /\ Tokens!ExpClaim(tok) <= now + Skew
          /\ lag'[g] = now - began[g]
          /\ at[g] = "sent"
      BY <1>2, <2>1 DEF Rejects
    <3>3. /\ Tokens!ExpiresAt(tok) \in Nat
          /\ Tokens!ExpClaim(tok) \in Int
          /\ Tokens!ExpiresAt(tok) < Tokens!ExpClaim(tok) + Second
      BY <3>1, ClaimBound
    <3>4. began[g] + RefreshSlack <= Tokens!ExpiresAt(tok)
      BY <1>0, <1>w, <3>2 DEF CallOf, AgeOf
    <3>5. attempt[g] = 2 => began[g] + Lifetime <= Tokens!ExpiresAt(tok)
      <4>1. attempt[g] = 2 => began[g] <= tok.minted
        BY <1>0, <1>w, <3>2 DEF CallOf, AgeOf
      <4>2. Tokens!ExpiresAt(tok) = tok.minted + Lifetime
        BY DEF Tokens!ExpiresAt
      <4>3. QED BY <1>t, <3>1, <4>1, <4>2 DEF Scalars
    <3>6. lag'[g] + Skew > RefreshSlack - Second
      BY <1>t, <3>2, <3>3, <3>4 DEF Scalars
    <3>7. attempt[g] = 2 => lag'[g] + Skew > Lifetime - Second
      BY <1>t, <3>2, <3>3, <3>5 DEF Scalars
    <3>8. outcome[g] = "none"
      BY <1>0, <3>2 DEF CallOf, PlaceOf
    <3>9. QED BY <1>1, <3>6, <3>7, <3>8 DEF LagOf
  <2>2. CASE ~(reply'[g] = "unauthorized" /\ ~keyRevoked)
    <3>1. outcome[g] = "unauthorized" => lag'[g] = lag[g]
      BY <1>0, <1>2 DEF CallOf, PlaceOf
    <3>2. QED BY <1>0, <1>1, <2>2, <3>1 DEF CallOf, LagOf
  <2>3. QED BY <2>1, <2>2
<1>8. AuditOf(g)'
  BY <1>0, <1>1 DEF CallOf, AuditOf
<1>9. QED BY <1>3, <1>4, <1>5, <1>6, <1>7, <1>8 DEF CallOf

\* A step of one call leaves every other alone.
LEMMA OthersUntouched ==
  ASSUME TypeOK, NEW g \in Callers, NEW h \in Callers, h # g,
         Client(g) \/ \E n \in {1, 2} : Serve(g, n)
  PROVE  Untouched(h)
<1> USE DEF TypeOK, Tokens!TypeOK, Untouched
<1>1. CASE Begin(g)
  BY <1>1 DEF Begin, Tokens!Ask
<1>2. CASE NoTokenForCall(g)
  BY <1>2 DEF NoTokenForCall, Tokens!Collect, Return
<1>3. CASE Send(g)
  BY <1>3 DEF Send, Tokens!Collect
<1>4. CASE TransportError(g)
  BY <1>4, TokenVarsStay DEF TransportError, Audit, Return
<1>5. CASE BodyError(g)
  BY <1>5, TokenVarsStay DEF BodyError, Return
<1>6. CASE Receive(g)
  BY <1>6, TokenVarsStay DEF Receive, Audit, Return
<1>7. CASE CallInvalidate(g)
  BY <1>7 DEF CallInvalidate, Tokens!AskInvalidate
<1>8. CASE Invalidated(g)
  BY <1>8 DEF Invalidated, Tokens!Invalidate
<1>9. CASE Retry(g)
  BY <1>9 DEF Retry, Tokens!Ask
<1>10. CASE TokenAnswers(g)
  BY <1>10, CallVarsStay DEF TokenAnswers, Tokens!Reuse, Tokens!Renew, Tokens!Refuse,
     Tokens!Answer
<1>11. ASSUME NEW n \in {1, 2}, Serve(g, n) PROVE Untouched(h)
  <2>1. wire' = wire \ {<<g, n>>}
    BY <1>11 DEF Serve
  <2>2. /\ \E r : reply' = [reply EXCEPT ![g] = r]
        /\ \E l : lag' = lag \/ lag' = [lag EXCEPT ![g] = l]
        /\ \E e : effects' = effects \/ effects' = [effects EXCEPT ![g] = e]
    BY <1>11 DEF Serve
  <2>3. UNCHANGED <<at, retries, attempt, began, tokens, audited, outcome, tokenVars>>
    BY <1>11 DEF Serve
  <2>4. reply'[h] = reply[h] /\ lag'[h] = lag[h] /\ effects'[h] = effects[h]
    BY <2>2
  <2>5. QED BY <2>1, <2>3, <2>4, TokenVarsStay
<1>12. QED
  BY <1>1, <1>2, <1>3, <1>4, <1>5, <1>6, <1>7, <1>8, <1>9, <1>10, <1>11 DEF Client

\* The parts together are inductive.
LEMMA StepInv ==
  ASSUME IInv, [Next]_vars
  PROVE  IInv'
<1>1. TypeOK'
  BY TypeStep
<1>2. ServiceInv'
  BY ServiceStep, ServiceInvStep DEF IInv
<1>3. ASSUME NEW h \in Callers PROVE CallOf(h)'
  <2>1. Onward
    BY OnwardStep
  <2>2. CASE Tick \/ RevokeKey \/ UNCHANGED vars
    <3>1. Untouched(h)
      BY <2>2, TokenVarsStay, CallVarsStay DEF Untouched, Tick, Tokens!Tick, RevokeKey, vars
    <3>2. QED BY <1>1, <2>1, <3>1, UntouchedKeeps
  <2>3. ASSUME NEW g \in Callers, Client(g) \/ \E n \in {1, 2} : Serve(g, n)
        PROVE  CallOf(h)'
    <3>1. CASE h # g
      <4>1. Untouched(h)
        BY <2>3, <3>1, OthersUntouched DEF IInv
      <4>2. QED BY <1>1, <2>1, <4>1, UntouchedKeeps
    <3>2. CASE h = g
      BY <2>3, <3>2, BeginKeeps, NoTokenForCallKeeps, SendKeeps, TransportErrorKeeps,
         BodyErrorKeeps, ReceiveKeeps, CallInvalidateKeeps, InvalidatedKeeps,
         RetryKeeps, TokenAnswersKeeps, ServeKeeps DEF Client
    <3>3. QED BY <3>1, <3>2
  <2>4. QED BY <2>2, <2>3 DEF Next
<1>4. QED BY <1>1, <1>2, <1>3 DEF IInv

\* Before the first call.
LEMMA InitInv == Init => IInv
<1> SUFFICES ASSUME Init PROVE IInv
  OBVIOUS
<1>1. TypeOK
  <2>1. Tokens!TypeOK
    BY DEF Init, Tokens!Init, Tokens!TypeOK
  <2>2. tokens \in [Callers -> Seq(Tokens!Token)]
    BY DEF Init
  <2>3. audited \in [Callers -> Seq(Verdicts \cup {"no response"})]
    BY DEF Init
  <2>4. QED BY <2>1, <2>2, <2>3 DEF Init, TypeOK, Locations, Outcomes
<1>2. ServiceInv
  BY <1>1 DEF Init, Tokens!Init, ServiceInv, TypeOK, CacheInv, AskOf
<1>3. ASSUME NEW g \in Callers PROVE CallOf(g)
  <2>1. /\ at[g] = "idle" /\ attempt[g] = 1 /\ tokens[g] = << >> /\ audited[g] = << >>
        /\ reply[g] = "none" /\ outcome[g] = "none" /\ effects[g] = 0 /\ wire = {}
        /\ began[g] = 0 /\ now = 0 /\ phase[g] = "idle"
    BY DEF Init, Tokens!Init
  <2>2. Len(tokens[g]) = 0 /\ Len(audited[g]) = 0
    BY <2>1
  <2>3. QED
    BY <2>1, <2>2 DEF CallOf, PlaceOf, WireOf, EpochOf, AgeOf, LagOf, AuditOf, RejectedAt
<1>4. QED BY <1>1, <1>2, <1>3 DEF IInv

-----------------------------------------------------------------------------

\* Where each call is, what it has on the wire, of which epoch its tokens are
\* and how old its attempt is: the inductive invariant of the calls.
THEOREM CallInvariance == Spec => []IInv
<1>1. IInv /\ [Next]_vars => IInv'
  BY StepInv
<1>2. QED BY InitInv, <1>1, PTL DEF Spec

\* The calls' and the service's variables keep their types.
THEOREM CallTypes == Spec => []TypeOK
<1>1. IInv => TypeOK
  BY DEF IInv
<1>2. QED BY <1>1, CallInvariance, PTL

\* However late its requests and whatever becomes of the replies, a call is
\* carried out at most once.
THEOREM OneEffect == Spec => []AtMostOneEffect
<1>1. IInv => AtMostOneEffect
  <2> SUFFICES ASSUME IInv, NEW g \in Callers
               PROVE  effects[g] <= 1
    BY DEF AtMostOneEffect
  <2>1. effects[g] = 0 \/ effects[g] = 1
    BY DEF IInv, CallOf, WireOf
  <2>2. QED BY <2>1
<1>2. QED BY <1>1, CallInvariance, PTL

\* A retry never carries the token that was rejected, nor one of its epoch.
THEOREM NewTokenForRetry == Spec => []RetryCarriesNewToken
<1>1. IInv => RetryCarriesNewToken
  <2> SUFFICES ASSUME IInv, NEW g \in Callers, Len(tokens[g]) = 2
               PROVE  tokens[g][2].epoch > tokens[g][1].epoch
    BY DEF RetryCarriesNewToken
  <2>1. tokens[g][1].epoch < tokens[g][2].epoch
    BY DEF IInv, CallOf, EpochOf
  <2>2. tokens[g][1].epoch \in Nat /\ tokens[g][2].epoch \in Nat
    BY TokensOf DEF IInv
  <2>3. QED BY <2>1, <2>2
<1>2. QED BY <1>1, CallInvariance, PTL

\* How far FR-020a holds: a call that returns NC2's answer has a record for each
\* of its requests, and the last one has the status returned.
AnswersAreAudited ==
  \A g \in Callers :
    at[g] = "returned" /\ outcome[g] \in Verdicts =>
      Len(audited[g]) = Len(tokens[g]) /\ Last(audited[g]) = outcome[g]

\* Only a call that returns no answer can lack a record (client.go:242-245).
THEOREM AuditedAnswers == Spec => []AnswersAreAudited
<1>1. IInv => AnswersAreAudited
  BY DEF IInv, CallOf, AuditOf, AnswersAreAudited, Last
<1>2. QED BY <1>1, CallInvariance, PTL

\* With a valid key, an attempt is only rejected when skew and delay have used
\* up the slack.
THEOREM SlackSuffices == Spec => []SlackAbsorbsDelay
<1>1. IInv => SlackAbsorbsDelay
  BY DEF IInv, CallOf, LagOf, SlackAbsorbsDelay
<1>2. QED BY <1>1, CallInvariance, PTL

\* With a valid key, Do only returns a 401 when skew and delay of its retry
\* exceed a whole lifetime.
THEOREM ExpiryHidden == Spec => []ExpiryNeverSurfaces
<1>1. IInv => ExpiryNeverSurfaces
  BY DEF IInv, CallOf, LagOf, ExpiryNeverSurfaces
<1>2. QED BY <1>1, CallInvariance, PTL

=============================================================================
