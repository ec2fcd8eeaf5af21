---------------------------- MODULE TokenService ----------------------------
(***************************************************************************)
(* What internal/auth.TokenManager promises to the HTTP client, without    *)
(* the lock, the two freshness checks and the order of the steps: Token    *)
(* answers, in one step, with the token every caller shares or with a new  *)
(* one, and Invalidate drops the shared one.                               *)
(*                                                                         *)
(* A token is its mint time and the epoch it was minted in; the epoch is a *)
(* history variable, the number of Invalidate calls that have taken        *)
(* effect: it tells apart two tokens minted in one second, whose bytes are *)
(* the same (the claims iat and exp are Unix seconds and nothing in a JWT  *)
(* is random).                                                             *)
(***************************************************************************)
EXTENDS Naturals

CONSTANTS
  Callers,       \* the goroutines that share one TokenManager
  NoToken,       \* the zero Token: nothing cached, or the call failed
  Second,        \* ticks of the clock in one second
  Lifetime,      \* auth.DefaultLifetime, in ticks
  RefreshSlack,  \* auth.refreshSlack, in ticks
  MaxTime,       \* bound of the clock
  MaxEpoch       \* bound of the number of Invalidate calls

\* Assumed by the modules that instantiate this one.
TokenAssumption ==
  /\ Second \in Nat \ {0}
  /\ RefreshSlack \in Nat
  /\ Lifetime \in Nat
  /\ RefreshSlack < Lifetime
  /\ MaxTime \in Nat
  /\ MaxEpoch \in Nat
  /\ NoToken \notin [minted : Nat, epoch : Nat]

VARIABLES
  now,           \* the clock, in ticks
  cached,        \* TokenManager.cached
  epoch,         \* history: Invalidate calls that have taken effect
  clearedAt,     \* history: when the last of them did
  phase,         \* what each caller is doing
  since,         \* history: when the caller's last Token call started
  floor,         \* history: the epoch in which it started
  result         \* what it returned; NoToken stands for an error

vars == <<now, cached, epoch, clearedAt, phase, since, floor, result>>

Token == [minted : Nat, epoch : Nat]

ExpiresAt(tok) == tok.minted + Lifetime

\* The whole second a time falls in, and the claims exp of a token: what the
\* server sees of ExpiresAt.
SecondOf(t) == t \div Second
ExpClaim(tok) == SecondOf(ExpiresAt(tok)) * Second

\* Seeded fault for FreshAt: the slack is forgotten.
FreshUntilExpiry(tok, t) == tok # NoToken /\ t <= ExpiresAt(tok)

\* cachedFresh counts a token as fresh at the very boundary, refresh does not.
FreshAt(tok, t) == tok # NoToken /\ t + RefreshSlack <= ExpiresAt(tok)
StrictlyFreshAt(tok, t) == tok # NoToken /\ t + RefreshSlack < ExpiresAt(tok)

Init ==
  /\ now = 0
  /\ cached = NoToken
  /\ epoch = 0
  /\ clearedAt = 0
  /\ phase = [g \in Callers |-> "idle"]
  /\ since = [g \in Callers |-> 0]
  /\ floor = [g \in Callers |-> 0]
  /\ result = [g \in Callers |-> NoToken]

Tick ==
  /\ now < MaxTime
  /\ now' = now + 1
  /\ UNCHANGED <<cached, epoch, clearedAt, phase, since, floor, result>>

Ask(g) ==
  /\ phase[g] = "idle"
  /\ phase' = [phase EXCEPT ![g] = "asked"]
  /\ since' = [since EXCEPT ![g] = now]
  /\ floor' = [floor EXCEPT ![g] = epoch]
  /\ UNCHANGED <<now, cached, epoch, clearedAt, result>>

Answer(g, tok) ==
  /\ phase[g] = "asked"
  /\ phase' = [phase EXCEPT ![g] = "answered"]
  /\ result' = [result EXCEPT ![g] = tok]
  /\ UNCHANGED <<now, epoch, clearedAt, since, floor>>

Reuse(g) ==
  /\ FreshAt(cached, now)
  /\ Answer(g, cached)
  /\ UNCHANGED cached

\* A renewal is minted at some instant of the call, after the last Invalidate,
\* when the shared token was no longer strictly fresh.
Renew(g) ==
  \E t \in since[g]..now :
    /\ clearedAt <= t
    /\ ~StrictlyFreshAt(cached, t)
    /\ cached' = [minted |-> t, epoch |-> epoch]
    /\ Answer(g, cached')

\* The caller's context was cancelled, or the credentials cannot be signed with.
Refuse(g) ==
  /\ Answer(g, NoToken)
  /\ UNCHANGED cached

\* The caller has taken its answer; the history of the call ends with it.
Collect(g) ==
  /\ phase[g] = "answered"
  /\ phase' = [phase EXCEPT ![g] = "idle"]
  /\ since' = [since EXCEPT ![g] = 0]
  /\ floor' = [floor EXCEPT ![g] = 0]
  /\ result' = [result EXCEPT ![g] = NoToken]
  /\ UNCHANGED <<now, cached, epoch, clearedAt>>

AskInvalidate(g) ==
  /\ phase[g] = "idle"
  /\ phase' = [phase EXCEPT ![g] = "invalidating"]
  /\ UNCHANGED <<now, cached, epoch, clearedAt, since, floor, result>>

Invalidate(g) ==
  /\ phase[g] = "invalidating"
  /\ phase' = [phase EXCEPT ![g] = "idle"]
  /\ cached' = NoToken
  /\ epoch' = epoch + 1
  /\ clearedAt' = now
  /\ UNCHANGED <<now, since, floor, result>>

Next ==
  \/ Tick
  \/ \E g \in Callers :
       \/ Ask(g) \/ Reuse(g) \/ Renew(g) \/ Refuse(g) \/ Collect(g)
       \/ AskInvalidate(g) \/ Invalidate(g)

Spec == Init /\ [][Next]_vars

-----------------------------------------------------------------------------

\* The types of the service's variables.
TypeOK ==
  /\ now \in Nat
  /\ cached \in Token \cup {NoToken}
  /\ epoch \in Nat
  /\ clearedAt \in Nat
  /\ phase \in [Callers -> {"idle", "asked", "answered", "invalidating"}]
  /\ since \in [Callers -> Nat]
  /\ floor \in [Callers -> Nat]
  /\ result \in [Callers -> Token \cup {NoToken}]

\* manager.go:41, "Token returns a JWT valid for at least refreshSlack from
\* now": the token a call returns outlives the start of the call by the slack,
\* however long the call took, and the claim the server reads, which is cut to
\* whole seconds, by less than a second less.
AnswerOutlivesSlack ==
  \A g \in Callers :
    phase[g] = "answered" /\ result[g] # NoToken =>
      /\ since[g] + RefreshSlack <= ExpiresAt(result[g])
      /\ since[g] + RefreshSlack < ExpClaim(result[g]) + Second

\* manager.go:59, "Invalidate forces the next Token call to mint": a call that
\* starts after an Invalidate has taken effect never returns a token minted
\* before it, whoever minted it and however the goroutines interleave.
NoRevivedToken ==
  \A g \in Callers :
    phase[g] = "answered" /\ result[g] # NoToken => result[g].epoch >= floor[g]

=============================================================================
