-------------------------- MODULE TokenCacheProofs --------------------------
(***************************************************************************)
(* Proofs about TokenCache for every set of callers, every lifetime and    *)
(* slack: the inductive invariant, and that the locked, double-checked     *)
(* cache implements the one-step TokenService.                             *)
(***************************************************************************)
EXTENDS TokenCache, Integers, TLAPS

\* What the proofs use of the assumption on the constants.
LEMMA ConstantsOK ==
  /\ Second \in Nat \ {0}
  /\ RefreshSlack \in Nat
  /\ Lifetime \in Nat
  /\ RefreshSlack < Lifetime
  /\ NoToken \notin Service!Token
BY ServiceAssumption DEF Service!TokenAssumption, Service!Token

\* Before the first call nothing is cached and no lock is held.
LEMMA InitInv == Init => IInv
BY ConstantsOK, CallerAssumption
   DEF Init, IInv, TypeOK, LockInv, CallInv, DraftInv, DueInv,
       Locations, Contexts, InWriterSection, Service!StrictlyFreshAt

\* Every step of a goroutine keeps the types of manager.go's variables.
LEMMA TypeStep ==
  ASSUME TypeOK, [Next]_vars
  PROVE  TypeOK'
<1> USE DEF TypeOK, Goto, Return, Locations
<1>1. CASE Tick
  BY <1>1 DEF Tick
<1>2. ASSUME NEW g \in Callers, Environment(g)
      PROVE  TypeOK'
  <2>1. CASE CallToken(g)
    BY <2>1 DEF CallToken
  <2>2. CASE CancelContext(g)
    BY <2>2 DEF CancelContext, Contexts
  <2>3. CASE Collect(g)
    BY <2>3 DEF Collect, Contexts
  <2>4. CASE CallInvalidate(g)
    BY <2>4 DEF CallInvalidate
  <2> QED BY <1>2, <2>1, <2>2, <2>3, <2>4 DEF Environment
<1>3. ASSUME NEW g \in Callers, Step(g)
      PROVE  TypeOK'
  <2>1. CASE CheckContext(g)
    BY <2>1 DEF CheckContext
  <2>2. CASE RLock(g)
    BY <2>2 DEF RLock
  <2>3. CASE ReadCache(g)
    BY <2>3 DEF ReadCache
  <2>4. CASE RefreshCheckContext(g)
    BY <2>4 DEF RefreshCheckContext
  <2>5. CASE AnnounceWriter(g)
    BY <2>5 DEF AnnounceWriter
  <2>6. CASE EnterWriter(g)
    BY <2>6 DEF EnterWriter
  <2>7. CASE Recheck(g)
    BY <2>7 DEF Recheck
  <2>8. CASE Mint(g)
    BY <2>8 DEF Mint, Service!Token
  <2>9. CASE Store(g)
    BY <2>9 DEF Store
  <2>10. CASE Clear(g)
    BY <2>10 DEF Clear
  <2> QED BY <1>3, <2>1, <2>2, <2>3, <2>4, <2>5, <2>6, <2>7, <2>8, <2>9, <2>10 DEF Step
<1>4. CASE UNCHANGED vars
  BY <1>4 DEF vars
<1> QED BY <1>1, <1>2, <1>3, <1>4 DEF Next

\* The lock hands itself from one writer to the next and keeps readers out.
LEMMA LockStep ==
  ASSUME TypeOK, LockInv, [Next]_vars
  PROVE  LockInv'
<1> USE CallerAssumption DEF TypeOK, LockInv, InWriterSection, Goto, Return
<1>1. CASE Tick
  BY <1>1 DEF Tick
<1>2. ASSUME NEW g \in Callers, Environment(g)
      PROVE  LockInv'
  <2>1. CASE CallToken(g)
    BY <2>1 DEF CallToken
  <2>2. CASE CancelContext(g)
    BY <2>2 DEF CancelContext
  <2>3. CASE Collect(g)
    BY <2>3 DEF Collect
  <2>4. CASE CallInvalidate(g)
    BY <2>4 DEF CallInvalidate
  <2> QED BY <1>2, <2>1, <2>2, <2>3, <2>4 DEF Environment
<1>3. ASSUME NEW g \in Callers, Step(g)
      PROVE  LockInv'
  <2>1. CASE CheckContext(g)
    BY <2>1 DEF CheckContext
  <2>2. CASE RLock(g)
    BY <2>2 DEF RLock
  <2>3. CASE ReadCache(g)
    BY <2>3 DEF ReadCache
  <2>4. CASE RefreshCheckContext(g)
    BY <2>4 DEF RefreshCheckContext
  <2>5. CASE AnnounceWriter(g)
    BY <2>5 DEF AnnounceWriter
  <2>6. CASE EnterWriter(g)
    BY <2>6 DEF EnterWriter
  <2>7. CASE Recheck(g)
    BY <2>7 DEF Recheck
  <2>8. CASE Mint(g)
    BY <2>8 DEF Mint
  <2>9. CASE Store(g)
    BY <2>9 DEF Store
  <2>10. CASE Clear(g)
    BY <2>10 DEF Clear
  <2> QED BY <1>3, <2>1, <2>2, <2>3, <2>4, <2>5, <2>6, <2>7, <2>8, <2>9, <2>10 DEF Step
<1>4. CASE UNCHANGED vars
  BY <1>4 DEF vars
<1> QED BY <1>1, <1>2, <1>3, <1>4 DEF Next

\* What a call started with, and what the cache holds, lies in the past.
LEMMA CallStep ==
  ASSUME TypeOK, CallInv, DraftInv, [Next]_vars
  PROVE  CallInv'
<1> USE ConstantsOK DEF TypeOK, CallInv, Service!Token, Goto, Return
<1>1. CASE Tick
  BY <1>1 DEF Tick
<1>2. ASSUME NEW g \in Callers, Environment(g)
      PROVE  CallInv'
  <2>1. CASE CallToken(g)
    BY <2>1 DEF CallToken
  <2>2. CASE CancelContext(g)
    BY <2>2 DEF CancelContext
  <2>3. CASE Collect(g)
    BY <2>3 DEF Collect
  <2>4. CASE CallInvalidate(g)
    BY <2>4 DEF CallInvalidate
  <2> QED BY <1>2, <2>1, <2>2, <2>3, <2>4 DEF Environment
<1>3. ASSUME NEW g \in Callers, Step(g)
      PROVE  CallInv'
  <2>1. CASE CheckContext(g)
    BY <2>1 DEF CheckContext
  <2>2. CASE RLock(g)
    BY <2>2 DEF RLock
  <2>3. CASE ReadCache(g)
    BY <2>3 DEF ReadCache
  <2>4. CASE RefreshCheckContext(g)
    BY <2>4 DEF RefreshCheckContext
  <2>5. CASE AnnounceWriter(g)
    BY <2>5 DEF AnnounceWriter
  <2>6. CASE EnterWriter(g)
    BY <2>6 DEF EnterWriter
  <2>7. CASE Recheck(g)
    BY <2>7 DEF Recheck
  <2>8. CASE Mint(g)
    BY <2>8 DEF Mint
  <2>9. CASE Store(g)
    BY <2>9 DEF Store, DraftInv
  <2>10. CASE Clear(g)
    BY <2>10 DEF Clear
  <2> QED BY <1>3, <2>1, <2>2, <2>3, <2>4, <2>5, <2>6, <2>7, <2>8, <2>9, <2>10 DEF Step
<1>4. CASE UNCHANGED vars
  BY <1>4 DEF vars
<1> QED BY <1>1, <1>2, <1>3, <1>4 DEF Next

\* Between the second look and the store nobody else writes the cache, and the
\* clock only makes the old token older.
LEMMA DueStep ==
  ASSUME TypeOK, LockInv, DueInv, [Next]_vars
  PROVE  DueInv'
<1> USE ConstantsOK
    DEF TypeOK, LockInv, DueInv, InWriterSection, Service!StrictlyFreshAt,
        Service!ExpiresAt, Service!Token, Goto, Return
<1>1. CASE Tick
  BY <1>1 DEF Tick
<1>2. ASSUME NEW g \in Callers, Environment(g)
      PROVE  DueInv'
  <2>1. CASE CallToken(g)
    BY <2>1 DEF CallToken
  <2>2. CASE CancelContext(g)
    BY <2>2 DEF CancelContext
  <2>3. CASE Collect(g)
    BY <2>3 DEF Collect
  <2>4. CASE CallInvalidate(g)
    BY <2>4 DEF CallInvalidate
  <2> QED BY <1>2, <2>1, <2>2, <2>3, <2>4 DEF Environment
<1>3. ASSUME NEW g \in Callers, Step(g)
      PROVE  DueInv'
  <2>1. CASE CheckContext(g)
    BY <2>1 DEF CheckContext
  <2>2. CASE RLock(g)
    BY <2>2 DEF RLock
  <2>3. CASE ReadCache(g)
    BY <2>3 DEF ReadCache
  <2>4. CASE RefreshCheckContext(g)
    BY <2>4 DEF RefreshCheckContext
  <2>5. CASE AnnounceWriter(g)
    BY <2>5 DEF AnnounceWriter
  <2>6. CASE EnterWriter(g)
    BY <2>6 DEF EnterWriter
  <2>7. CASE Recheck(g)
    BY <2>7 DEF Recheck
  <2>8. CASE Mint(g)
    BY <2>8 DEF Mint
  <2>9. CASE Store(g)
    BY <2>9 DEF Store
  <2>10. CASE Clear(g)
    BY <2>10 DEF Clear
  <2> QED BY <1>3, <2>1, <2>2, <2>3, <2>4, <2>5, <2>6, <2>7, <2>8, <2>9, <2>10 DEF Step
<1>4. CASE UNCHANGED vars
  BY <1>4 DEF vars
<1> QED BY <1>1, <1>2, <1>3, <1>4 DEF Next

\* What MintJWT returned stays the token of this call and this epoch until
\* refresh stores it, because the lock is held in between.
LEMMA DraftStep ==
  ASSUME TypeOK, LockInv, CallInv, DueInv, DraftInv, [Next]_vars
  PROVE  DraftInv'
<1> USE ConstantsOK
    DEF TypeOK, LockInv, CallInv, DueInv, DraftInv, InWriterSection,
        Service!StrictlyFreshAt, Service!ExpiresAt, Service!Token, Goto, Return
<1>1. CASE Tick
  BY <1>1 DEF Tick
<1>2. ASSUME NEW g \in Callers, Environment(g)
      PROVE  DraftInv'
  <2>1. CASE CallToken(g)
    BY <2>1 DEF CallToken
  <2>2. CASE CancelContext(g)
    BY <2>2 DEF CancelContext
  <2>3. CASE Collect(g)
    BY <2>3 DEF Collect
  <2>4. CASE CallInvalidate(g)
    BY <2>4 DEF CallInvalidate
  <2> QED BY <1>2, <2>1, <2>2, <2>3, <2>4 DEF Environment
<1>3. ASSUME NEW g \in Callers, Step(g)
      PROVE  DraftInv'
  <2>1. CASE CheckContext(g)
    BY <2>1 DEF CheckContext
  <2>2. CASE RLock(g)
    BY <2>2 DEF RLock
  <2>3. CASE ReadCache(g)
    BY <2>3 DEF ReadCache
  <2>4. CASE RefreshCheckContext(g)
    BY <2>4 DEF RefreshCheckContext
  <2>5. CASE AnnounceWriter(g)
    BY <2>5 DEF AnnounceWriter
  <2>6. CASE EnterWriter(g)
    BY <2>6 DEF EnterWriter
  <2>7. CASE Recheck(g)
    BY <2>7 DEF Recheck
  <2>8. CASE Mint(g)
    BY <2>8 DEF Mint
  <2>9. CASE Store(g)
    BY <2>9 DEF Store
  <2>10. CASE Clear(g)
    BY <2>10 DEF Clear
  <2> QED BY <1>3, <2>1, <2>2, <2>3, <2>4, <2>5, <2>6, <2>7, <2>8, <2>9, <2>10 DEF Step
<1>4. CASE UNCHANGED vars
  BY <1>4 DEF vars
<1> QED BY <1>1, <1>2, <1>3, <1>4 DEF Next

\* The parts together are inductive.
LEMMA StepInv ==
  ASSUME IInv, [Next]_vars
  PROVE  IInv'
BY TypeStep, LockStep, CallStep, DueStep, DraftStep DEF IInv

\* TokenCache keeps its inductive invariant: the types, who holds the lock, and
\* that a drafted token was minted under the hold of the lock that stores it.
THEOREM Invariance == Spec => []IInv
<1>1. IInv /\ [Next]_vars => IInv'
  BY StepInv
<1> QED BY InitInv, <1>1, PTL DEF Spec

-----------------------------------------------------------------------------

\* Both promises about an answer, over the locations of TokenCache.
AnswerInv ==
  \A g \in Callers :
    pc[g] = "done" /\ result[g] # NoToken =>
      /\ since[g] + RefreshSlack <= Service!ExpiresAt(result[g])
      /\ floor[g] <= result[g].epoch

\* Whichever way Token returns, the answer satisfies AnswerInv.
LEMMA AnswerStep ==
  ASSUME IInv, AnswerInv, [Next]_vars
  PROVE  AnswerInv'
<1> USE ConstantsOK
    DEF IInv, TypeOK, CallInv, DraftInv, AnswerInv, Service!FreshAt,
        Service!StrictlyFreshAt, Service!ExpiresAt, Service!Token, Goto, Return
<1>1. CASE Tick
  BY <1>1 DEF Tick
<1>2. ASSUME NEW g \in Callers, Environment(g)
      PROVE  AnswerInv'
  <2>1. CASE CallToken(g)
    BY <2>1 DEF CallToken
  <2>2. CASE CancelContext(g)
    BY <2>2 DEF CancelContext
  <2>3. CASE Collect(g)
    BY <2>3 DEF Collect
  <2>4. CASE CallInvalidate(g)
    BY <2>4 DEF CallInvalidate
  <2> QED BY <1>2, <2>1, <2>2, <2>3, <2>4 DEF Environment
<1>3. ASSUME NEW g \in Callers, Step(g)
      PROVE  AnswerInv'
  <2>1. CASE CheckContext(g)
    BY <2>1 DEF CheckContext
  <2>2. CASE RLock(g)
    BY <2>2 DEF RLock
  <2>3. CASE ReadCache(g)
    BY <2>3 DEF ReadCache
  <2>4. CASE RefreshCheckContext(g)
    BY <2>4 DEF RefreshCheckContext
  <2>5. CASE AnnounceWriter(g)
    BY <2>5 DEF AnnounceWriter
  <2>6. CASE EnterWriter(g)
    BY <2>6 DEF EnterWriter
  <2>7. CASE Recheck(g)
    BY <2>7 DEF Recheck
  <2>8. CASE Mint(g)
    BY <2>8 DEF Mint
  <2>9. CASE Store(g)
    BY <2>9 DEF Store
  <2>10. CASE Clear(g)
    BY <2>10 DEF Clear
  <2> QED BY <1>3, <2>1, <2>2, <2>3, <2>4, <2>5, <2>6, <2>7, <2>8, <2>9, <2>10 DEF Step
<1>4. CASE UNCHANGED vars
  BY <1>4 DEF vars
<1> QED BY <1>1, <1>2, <1>3, <1>4 DEF Next

\* Cutting a time to whole seconds loses less than a second.
LEMMA SecondBound ==
  ASSUME NEW t \in Nat
  PROVE  t < Service!SecondOf(t) * Second + Second
BY ConstantsOK DEF Service!SecondOf

\* What each location of manager.go is in TokenService.
LEMMA PhaseFacts ==
  /\ PhaseOf("idle") = "idle"
  /\ PhaseOf("done") = "answered"
  /\ \A loc \in {"ilock", "idrain", "clear"} : PhaseOf(loc) = "invalidating"
  /\ \A loc \in {"start", "rlock", "read", "refresh", "lock", "drain",
                  "recheck", "mint", "store"} : PhaseOf(loc) = "asked"
BY DEF PhaseOf

\* The properties of answers follow from AnswerInv.
LEMMA AnswersKept ==
  ASSUME IInv, AnswerInv
  PROVE  AnswerOutlivesSlack /\ NoRevivedToken
<1> USE ConstantsOK DEF IInv, TypeOK, AnswerInv
<1>1. ASSUME NEW g \in Callers, PhaseOf(pc[g]) = "answered", result[g] # NoToken
      PROVE  /\ since[g] + RefreshSlack <= Service!ExpiresAt(result[g])
             /\ since[g] + RefreshSlack < Service!ExpClaim(result[g]) + Second
             /\ result[g].epoch >= floor[g]
  <2>1. pc[g] = "done"
    BY <1>1, PhaseFacts DEF Locations
  <2>2. /\ since[g] + RefreshSlack <= Service!ExpiresAt(result[g])
        /\ floor[g] <= result[g].epoch
    BY <2>1, <1>1
  <2>3. /\ Service!ExpiresAt(result[g]) \in Nat
        /\ result[g].epoch \in Nat
    BY <1>1 DEF Service!ExpiresAt, Service!Token
  <2>4. Service!SecondOf(Service!ExpiresAt(result[g])) \in Int
    BY <2>3 DEF Service!SecondOf
  <2>5. Service!ExpiresAt(result[g]) < Service!ExpClaim(result[g]) + Second
    BY <2>3, SecondBound DEF Service!ExpClaim
  <2> QED
    BY <2>2, <2>3, <2>4, <2>5 DEF Service!ExpClaim
<1> QED
  BY <1>1 DEF AnswerOutlivesSlack, NoRevivedToken,
              Service!AnswerOutlivesSlack, Service!NoRevivedToken

\* No call has been answered initially.
LEMMA InitAnswers == Init => AnswerInv
BY DEF Init, AnswerInv

\* A token returned by Token was fresh for the slack when the call began, by
\* ExpiresAt and, up to a second, by the claim the server reads.
THEOREM FreshAnswers == Spec => []AnswerOutlivesSlack
<1>1. IInv /\ AnswerInv /\ [Next]_vars => IInv' /\ AnswerInv'
  BY StepInv, AnswerStep
<1>2. IInv /\ AnswerInv => AnswerOutlivesSlack
  BY AnswersKept
<1> QED BY InitInv, InitAnswers, <1>1, <1>2, PTL DEF Spec

\* A Token call that starts after an Invalidate has taken effect never returns
\* a token minted before it.
THEOREM InvalidateIsFinal == Spec => []NoRevivedToken
<1>1. IInv /\ AnswerInv /\ [Next]_vars => IInv' /\ AnswerInv'
  BY StepInv, AnswerStep
<1>2. IInv /\ AnswerInv => NoRevivedToken
  BY AnswersKept
<1> QED BY InitInv, InitAnswers, <1>1, <1>2, PTL DEF Spec

\* No token is replaced while it is still strictly fresh, so of the callers
\* that find it due together only the first mints.
THEOREM OneRenewal == Spec => RenewedOnlyWhenDue
<1> DEFINE Due ==
      cached' # cached /\ cached # NoToken /\ cached' # NoToken =>
        ~Service!StrictlyFreshAt(cached, cached'.minted)
<1>1. ASSUME IInv, [Next]_vars
      PROVE  [Due]_vars
  <2>1. ASSUME NEW g \in Callers, Step(g)
        PROVE  Due
    <3>1. CASE Store(g)
      BY <3>1, <1>1 DEF Store, IInv, DraftInv
    <3>2. CASE Clear(g)
      BY <3>2 DEF Clear
    <3>3. CASE ~Store(g) /\ ~Clear(g)
      BY <3>3, <2>1 DEF Step, CheckContext, RLock, ReadCache,
         RefreshCheckContext, AnnounceWriter, EnterWriter, Recheck, Mint
    <3> QED BY <3>1, <3>2, <3>3
  <2>2. ASSUME NEW g \in Callers, Environment(g)
        PROVE  Due
    BY <2>2 DEF Environment, CallToken, CancelContext, Collect, CallInvalidate
  <2>3. CASE Tick
    BY <2>3 DEF Tick
  <2> QED BY <1>1, <2>1, <2>2, <2>3 DEF Next
<1> QED BY Invariance, <1>1, PTL DEF Spec, RenewedOnlyWhenDue

-----------------------------------------------------------------------------
(* The refinement: each step of the locked cache is one step of the service *)
(* or a stutter.                                                           *)

Phases == [h \in Callers |-> PhaseOf(pc[h])]

\* A goroutine that moves changes its own phase and no other.
LEMMA PhasesMove ==
  ASSUME TypeOK, NEW g \in Callers, NEW loc \in Locations, Goto(g, loc)
  PROVE  Phases' = [Phases EXCEPT ![g] = PhaseOf(loc)]
BY DEF TypeOK, Phases, Goto

\* A goroutine that moves within a phase changes none.
LEMMA PhasesStay ==
  ASSUME TypeOK, NEW g \in Callers, NEW loc \in Locations, Goto(g, loc),
         PhaseOf(pc[g]) = PhaseOf(loc)
  PROVE  Phases' = Phases
BY PhasesMove DEF TypeOK, Phases

\* A new TokenManager is a TokenService nobody has called.
LEMMA RefineInit == Init => Service!Init
BY PhaseFacts DEF Init, Service!Init

\* Every step of manager.go is one step of TokenService or none: a call takes
\* effect where it reads the cache, stores a token or gives up.
LEMMA RefineStep ==
  ASSUME IInv, [Next]_vars
  PROVE  [Service!Next]_(Service!vars)
<1> USE PhaseFacts DEF IInv, Service!vars
<1>p. Phases = [g \in Callers |-> PhaseOf(pc[g])]
  BY DEF Phases
<1>1. CASE Tick
  BY <1>1 DEF Tick, Service!Next, Service!Tick
<1>2. ASSUME NEW g \in Callers, Environment(g)
      PROVE  [Service!Next]_(Service!vars)
  <2>1. CASE CallToken(g)
    <3>0. Phases[g] = "idle"
      BY <2>1 DEF CallToken, Phases
    <3>1. Phases' = [Phases EXCEPT ![g] = "asked"]
      BY <2>1, PhasesMove DEF CallToken, Locations
    <3>2. Service!Ask(g)
      BY <2>1, <3>0, <3>1 DEF CallToken, Service!Ask, Phases
    <3> QED BY <3>2 DEF Service!Next
  <2>2. CASE CancelContext(g)
    BY <2>2 DEF CancelContext
  <2>3. CASE Collect(g)
    <3>0. Phases[g] = "answered"
      BY <2>3 DEF Collect, Phases
    <3>1. Phases' = [Phases EXCEPT ![g] = "idle"]
      BY <2>3, PhasesMove DEF Collect, Locations
    <3>2. Service!Collect(g)
      BY <2>3, <3>0, <3>1 DEF Collect, Service!Collect, Phases
    <3> QED BY <3>2 DEF Service!Next
  <2>4. CASE CallInvalidate(g)
    <3>0. Phases[g] = "idle"
      BY <2>4 DEF CallInvalidate, Phases
    <3>1. Phases' = [Phases EXCEPT ![g] = "invalidating"]
      BY <2>4, PhasesMove DEF CallInvalidate, Locations
    <3>2. Service!AskInvalidate(g)
      BY <2>4, <3>0, <3>1 DEF CallInvalidate, Service!AskInvalidate, Phases
    <3> QED BY <3>2 DEF Service!Next
  <2> QED BY <1>2, <2>1, <2>2, <2>3, <2>4 DEF Environment
<1>3. ASSUME NEW g \in Callers, Step(g)
      PROVE  [Service!Next]_(Service!vars)
  <2>0. ASSUME NEW tok, Return(g, tok), Phases[g] = "asked"
        PROVE  Phases' = [Phases EXCEPT ![g] = "answered"]
    BY <2>0, PhasesMove DEF Return, Locations
  <2>a. pc[g] \in {"start", "rlock", "read", "refresh", "lock", "drain",
                   "recheck", "mint", "store"} => Phases[g] = "asked"
    BY DEF Phases
  <2>s. ASSUME NEW loc \in {"rlock", "read", "refresh", "lock", "drain",
                            "recheck", "mint", "store"},
               Goto(g, loc), Phases[g] = "asked"
        PROVE  Phases' = Phases
    BY <2>s, PhasesStay DEF Phases, Locations
  \* Every path that gives up answers with an error and leaves the cache.
  <2>r. ASSUME Return(g, NoToken), Phases[g] = "asked",
               UNCHANGED <<now, cached, epoch, clearedAt, since, floor>>
        PROVE  Service!Next
    <3>1. Service!Refuse(g)
      BY <2>r, <2>0 DEF Service!Refuse, Service!Answer, Return, Phases
    <3> QED BY <3>1 DEF Service!Next
  \* Both looks at the cache answer with a token that is fresh now.
  <2>u. ASSUME Return(g, cached), Phases[g] = "asked",
               Service!FreshAt(cached, now),
               UNCHANGED <<now, cached, epoch, clearedAt, since, floor>>
        PROVE  Service!Next
    <3>1. Service!Reuse(g)
      BY <2>u, <2>0 DEF Service!Reuse, Service!Answer, Return, Phases
    <3> QED BY <3>1 DEF Service!Next
  <2>1. CASE CheckContext(g)
    BY <2>1, <2>a, <2>r, <2>s DEF CheckContext, Phases
  <2>2. CASE RLock(g)
    BY <2>2, <2>a, <2>s DEF RLock, Phases
  <2>3. CASE ReadCache(g)
    BY <2>3, <2>a, <2>u, <2>s DEF ReadCache, Phases
  <2>4. CASE RefreshCheckContext(g)
    BY <2>4, <2>a, <2>r, <2>s DEF RefreshCheckContext, Phases
  <2>5. CASE AnnounceWriter(g)
    <3>1. CASE pc[g] = "lock"
      BY <2>5, <3>1, <2>a, <2>s DEF AnnounceWriter, Phases
    <3>2. CASE pc[g] = "ilock"
      BY <2>5, <3>2, PhasesStay DEF AnnounceWriter, Phases, Locations
    <3> QED BY <2>5, <3>1, <3>2 DEF AnnounceWriter
  <2>6. CASE EnterWriter(g)
    <3>1. CASE pc[g] = "drain"
      BY <2>6, <3>1, <2>a, <2>s DEF EnterWriter, Phases
    <3>2. CASE pc[g] = "idrain"
      BY <2>6, <3>2, PhasesStay DEF EnterWriter, Phases, Locations
    <3> QED BY <2>6, <3>1, <3>2 DEF EnterWriter
  <2>7. CASE Recheck(g)
    <3>1. Service!StrictlyFreshAt(cached, now) => Service!FreshAt(cached, now)
      BY ConstantsOK DEF TypeOK, Service!StrictlyFreshAt, Service!FreshAt,
                         Service!ExpiresAt, Service!Token
    <3> QED BY <2>7, <3>1, <2>a, <2>u, <2>s DEF Recheck, Phases
  <2>8. CASE Mint(g)
    BY <2>8, <2>a, <2>r, <2>s DEF Mint, Phases
  <2>9. CASE Store(g)
    <3>1. Phases[g] = "asked" /\ Return(g, draft[g])
      BY <2>9, <2>a DEF Store
    <3>2. Service!Answer(g, cached')
      BY <2>9, <3>1, <2>0 DEF Store, Service!Answer, Return, Phases
    <3>3. cached' = [minted |-> draft[g].minted, epoch |-> epoch]
      BY <2>9, ConstantsOK DEF Store, DraftInv, TypeOK, Service!Token
    <3>4. /\ draft[g].minted \in since[g]..now
          /\ clearedAt <= draft[g].minted
          /\ ~Service!StrictlyFreshAt(cached, draft[g].minted)
      BY <2>9 DEF Store, DraftInv
    <3>5. Service!Renew(g)
      BY <3>2, <3>3, <3>4 DEF Service!Renew
    <3> QED BY <3>5 DEF Service!Next
  <2>10. CASE Clear(g)
    <3>0. Phases[g] = "invalidating"
      BY <2>10 DEF Clear, Phases
    <3>1. Phases' = [Phases EXCEPT ![g] = "idle"]
      BY <2>10, PhasesMove DEF Clear, Locations
    <3>2. Service!Invalidate(g)
      BY <2>10, <3>0, <3>1 DEF Clear, Service!Invalidate, Phases
    <3> QED BY <3>2 DEF Service!Next
  <2> QED BY <1>3, <2>1, <2>2, <2>3, <2>4, <2>5, <2>6, <2>7, <2>8, <2>9, <2>10 DEF Step
<1>4. CASE UNCHANGED vars
  BY <1>4 DEF vars
<1> QED BY <1>1, <1>2, <1>3, <1>4 DEF Next

\* TokenCache implements TokenService: lock, double check and all, each call
\* takes effect in one step between its start and its return.
THEOREM Refinement == Spec => ImplementsService
<1>1. IInv /\ [Next]_vars => [Service!Next]_(Service!vars)
  BY RefineStep
<1> QED BY RefineInit, Invariance, <1>1, PTL DEF Spec, ImplementsService, Service!Spec
=============================================================================
