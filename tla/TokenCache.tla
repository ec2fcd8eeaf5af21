----------------------------- MODULE TokenCache -----------------------------
(***************************************************************************)
(* internal/auth/manager.go: the TokenManager every request of the client  *)
(* goes through, one action per step between two points at which another   *)
(* goroutine can run.                                                      *)
(*                                                                         *)
(* The sync.RWMutex is its own small machine: a writer first announces     *)
(* itself, which keeps new readers out, and enters once the readers that   *)
(* were in have left.  A caller's context may be cancelled at any time;    *)
(* the code looks at it twice.  The clock moves between any two steps.     *)
(***************************************************************************)
EXTENDS Naturals, FiniteSets

CONSTANTS
  Callers, NoToken, Second, Lifetime, RefreshSlack, MaxTime, MaxEpoch,
  NoCaller       \* nobody holds the write lock

ASSUME CallerAssumption == NoCaller \notin Callers

VARIABLES
  now, cached, epoch, clearedAt, since, floor, result,  \* as in TokenService
  pc,            \* where each caller is
  writer,        \* who holds, or has announced, the write lock of mu
  readers,       \* who holds the read lock of mu
  draft,         \* the token MintJWT returned, not yet stored
  ctx,           \* the caller's context
  credsValid     \* TokenManager.creds passes Validate

vars == <<now, cached, epoch, clearedAt, since, floor, result, pc, writer,
          readers, draft, ctx, credsValid>>

Locations ==
  {"idle", "start", "rlock", "read", "refresh", "lock", "drain", "recheck",
   "mint", "store", "done", "ilock", "idrain", "clear"}

PhaseOf(loc) ==
  CASE loc = "idle" -> "idle"
    [] loc = "done" -> "answered"
    [] loc \in {"ilock", "idrain", "clear"} -> "invalidating"
    [] OTHER -> "asked"

Service == INSTANCE TokenService WITH
  phase <- [g \in Callers |-> PhaseOf(pc[g])]

ASSUME ServiceAssumption == Service!TokenAssumption

Contexts == {"live", "cancelled"}
Cancelled(g) == ctx[g] # "live"

Goto(g, loc) == pc' = [pc EXCEPT ![g] = loc]

Return(g, tok) ==
  /\ Goto(g, "done")
  /\ result' = [result EXCEPT ![g] = tok]

Init ==
  /\ now = 0
  /\ cached = NoToken
  /\ epoch = 0
  /\ clearedAt = 0
  /\ since = [g \in Callers |-> 0]
  /\ floor = [g \in Callers |-> 0]
  /\ result = [g \in Callers |-> NoToken]
  /\ pc = [g \in Callers |-> "idle"]
  /\ writer = NoCaller
  /\ readers = {}
  /\ draft = [g \in Callers |-> NoToken]
  /\ ctx = [g \in Callers |-> "live"]
  /\ credsValid \in BOOLEAN

-----------------------------------------------------------------------------
(* The environment: the clock, the callers and their contexts.             *)

Tick ==
  /\ now < MaxTime
  /\ now' = now + 1
  /\ UNCHANGED <<cached, epoch, clearedAt, since, floor, result, pc, writer,
                 readers, draft, ctx, credsValid>>

CallToken(g) ==
  /\ pc[g] = "idle"
  /\ Goto(g, "start")
  /\ since' = [since EXCEPT ![g] = now]
  /\ floor' = [floor EXCEPT ![g] = epoch]
  /\ UNCHANGED <<now, cached, epoch, clearedAt, result, writer, readers, draft,
                 ctx, credsValid>>

\* After refresh's own check nothing looks at the context any more, not while
\* the caller waits for the write lock either.
CancelContext(g) ==
  /\ pc[g] \in {"start", "rlock", "read", "refresh"}
  /\ ~Cancelled(g)
  /\ ctx' = [ctx EXCEPT ![g] = "cancelled"]
  /\ UNCHANGED <<now, cached, epoch, clearedAt, since, floor, result, pc,
                 writer, readers, draft, credsValid>>

Collect(g) ==
  /\ pc[g] = "done"
  /\ Goto(g, "idle")
  /\ since' = [since EXCEPT ![g] = 0]
  /\ floor' = [floor EXCEPT ![g] = 0]
  /\ result' = [result EXCEPT ![g] = NoToken]
  /\ ctx' = [ctx EXCEPT ![g] = "live"]
  /\ UNCHANGED <<now, cached, epoch, clearedAt, writer, readers, draft,
                 credsValid>>

Invalidating == {g \in Callers : pc[g] \in {"ilock", "idrain", "clear"}}

CallInvalidate(g) ==
  /\ pc[g] = "idle"
  /\ epoch + Cardinality(Invalidating) < MaxEpoch
  /\ Goto(g, "ilock")
  /\ UNCHANGED <<now, cached, epoch, clearedAt, since, floor, result, writer,
                 readers, draft, ctx, credsValid>>

-----------------------------------------------------------------------------
(* Token and cachedFresh.                                                  *)

CheckContext(g) ==
  /\ pc[g] = "start"
  /\ IF Cancelled(g)
       THEN Return(g, NoToken)
       ELSE Goto(g, "rlock") /\ UNCHANGED result
  /\ UNCHANGED <<now, cached, epoch, clearedAt, since, floor, writer, readers,
                 draft, ctx, credsValid>>

RLock(g) ==
  /\ pc[g] = "rlock"
  /\ writer = NoCaller
  /\ readers' = readers \cup {g}
  /\ Goto(g, "read")
  /\ UNCHANGED <<now, cached, epoch, clearedAt, since, floor, result, writer,
                 draft, ctx, credsValid>>

\* The cache is looked at under the read lock, which is then released.
ReadCache(g) ==
  /\ pc[g] = "read"
  /\ readers' = readers \ {g}
  /\ IF Service!FreshAt(cached, now)
       THEN Return(g, cached)
       ELSE Goto(g, "refresh") /\ UNCHANGED result
  /\ UNCHANGED <<now, cached, epoch, clearedAt, since, floor, writer, draft,
                 ctx, credsValid>>

-----------------------------------------------------------------------------
(* refresh, and the write lock it shares with Invalidate.                  *)

RefreshCheckContext(g) ==
  /\ pc[g] = "refresh"
  /\ IF Cancelled(g)
       THEN Return(g, NoToken)
       ELSE Goto(g, "lock") /\ UNCHANGED result
  /\ UNCHANGED <<now, cached, epoch, clearedAt, since, floor, writer, readers,
                 draft, ctx, credsValid>>

AnnounceWriter(g) ==
  /\ writer = NoCaller
  /\ \/ pc[g] = "lock" /\ Goto(g, "drain")
     \/ pc[g] = "ilock" /\ Goto(g, "idrain")
  /\ writer' = g
  /\ UNCHANGED <<now, cached, epoch, clearedAt, since, floor, result, readers,
                 draft, ctx, credsValid>>

EnterWriter(g) ==
  /\ readers = {}
  /\ \/ pc[g] = "drain" /\ Goto(g, "recheck")
     \/ pc[g] = "idrain" /\ Goto(g, "clear")
  /\ UNCHANGED <<now, cached, epoch, clearedAt, since, floor, result, writer,
                 readers, draft, ctx, credsValid>>

\* Seeded fault for Recheck: the reuse forgets to unlock.
RecheckKeepsLock(g) ==
  /\ pc[g] = "recheck"
  /\ IF Service!StrictlyFreshAt(cached, now)
       THEN Return(g, cached)
       ELSE Goto(g, "mint") /\ UNCHANGED result
  /\ UNCHANGED <<now, cached, epoch, clearedAt, since, floor, writer, readers,
                 draft, ctx, credsValid>>

\* Seeded fault for Recheck: no second look.
RecheckAlwaysMints(g) ==
  /\ pc[g] = "recheck"
  /\ Goto(g, "mint")
  /\ UNCHANGED <<now, cached, epoch, clearedAt, since, floor, result, writer,
                 readers, draft, ctx, credsValid>>

\* The second look at the cache; a reuse unlocks and returns.
Recheck(g) ==
  /\ pc[g] = "recheck"
  /\ IF Service!StrictlyFreshAt(cached, now)
       THEN Return(g, cached) /\ writer' = NoCaller
       ELSE Goto(g, "mint") /\ UNCHANGED <<result, writer>>
  /\ UNCHANGED <<now, cached, epoch, clearedAt, since, floor, readers, draft,
                 ctx, credsValid>>

\* Seeded fault for Mint: the error path forgets to unlock.
MintErrorKeepsLock(g) ==
  /\ pc[g] = "mint"
  /\ IF credsValid
       THEN /\ draft' = [draft EXCEPT ![g] = [minted |-> now, epoch |-> epoch]]
            /\ Goto(g, "store")
            /\ UNCHANGED result
       ELSE Return(g, NoToken) /\ UNCHANGED draft
  /\ UNCHANGED <<now, cached, epoch, clearedAt, since, floor, writer, readers,
                 ctx, credsValid>>

\* MintJWT with the clock read again; an error unlocks and leaves the cache.
Mint(g) ==
  /\ pc[g] = "mint"
  /\ IF credsValid
       THEN /\ draft' = [draft EXCEPT ![g] = [minted |-> now, epoch |-> epoch]]
            /\ Goto(g, "store")
            /\ UNCHANGED <<result, writer>>
       ELSE /\ Return(g, NoToken)
            /\ writer' = NoCaller
            /\ UNCHANGED draft
  /\ UNCHANGED <<now, cached, epoch, clearedAt, since, floor, readers, ctx,
                 credsValid>>

\* Seeded fault for Store: the new token is returned and not cached.
StoreNothing(g) ==
  /\ pc[g] = "store"
  /\ Return(g, draft[g])
  /\ draft' = [draft EXCEPT ![g] = NoToken]
  /\ writer' = NoCaller
  /\ UNCHANGED <<now, cached, epoch, clearedAt, since, floor, readers, ctx,
                 credsValid>>

Store(g) ==
  /\ pc[g] = "store"
  /\ cached' = draft[g]
  /\ Return(g, draft[g])
  /\ draft' = [draft EXCEPT ![g] = NoToken]
  /\ writer' = NoCaller
  /\ UNCHANGED <<now, epoch, clearedAt, since, floor, readers, ctx,
                 credsValid>>

\* Seeded fault for Clear: the cached token stays.
ClearKeepsToken(g) ==
  /\ pc[g] = "clear"
  /\ epoch' = epoch + 1
  /\ clearedAt' = now
  /\ writer' = NoCaller
  /\ Goto(g, "idle")
  /\ UNCHANGED <<now, cached, since, floor, result, readers, draft, ctx,
                 credsValid>>

Clear(g) ==
  /\ pc[g] = "clear"
  /\ cached' = NoToken
  /\ epoch' = epoch + 1
  /\ clearedAt' = now
  /\ writer' = NoCaller
  /\ Goto(g, "idle")
  /\ UNCHANGED <<now, since, floor, result, readers, draft, ctx, credsValid>>

-----------------------------------------------------------------------------

\* The steps the code takes by itself once it has been called.
Step(g) ==
  \/ CheckContext(g) \/ RLock(g) \/ ReadCache(g)
  \/ RefreshCheckContext(g) \/ AnnounceWriter(g) \/ EnterWriter(g)
  \/ Recheck(g) \/ Mint(g) \/ Store(g) \/ Clear(g)

Environment(g) ==
  CallToken(g) \/ CancelContext(g) \/ Collect(g) \/ CallInvalidate(g)

Next == Tick \/ \E g \in Callers : Step(g) \/ Environment(g)

Spec == Init /\ [][Next]_vars

\* The Go scheduler runs every runnable goroutine, and sync.RWMutex starves
\* nobody: a blocked Lock or RLock is served after finitely many others.
Fairness ==
  \A g \in Callers :
    /\ WF_vars(Step(g))
    /\ SF_vars(RLock(g))
    /\ SF_vars(AnnounceWriter(g))

FairSpec == Spec /\ Fairness

-----------------------------------------------------------------------------

InWriterSection(g) ==
  pc[g] \in {"drain", "recheck", "mint", "store", "idrain", "clear"}

\* The types of the manager's variables and of its callers' local ones.
TypeOK ==
  /\ now \in Nat
  /\ cached \in Service!Token \cup {NoToken}
  /\ epoch \in Nat
  /\ clearedAt \in Nat
  /\ since \in [Callers -> Nat]
  /\ floor \in [Callers -> Nat]
  /\ result \in [Callers -> Service!Token \cup {NoToken}]
  /\ pc \in [Callers -> Locations]
  /\ writer \in Callers \cup {NoCaller}
  /\ readers \in SUBSET Callers
  /\ draft \in [Callers -> Service!Token \cup {NoToken}]
  /\ ctx \in [Callers -> Contexts]
  /\ credsValid \in BOOLEAN

\* The write lock is held by exactly the caller inside the writer's section,
\* the read lock by exactly the callers reading, and no reader is in when a
\* writer has entered.
LockInv ==
  /\ \A g \in Callers : InWriterSection(g) <=> writer = g
  /\ \A g \in Callers : pc[g] = "read" <=> g \in readers
  /\ \A g \in Callers :
       pc[g] \in {"recheck", "mint", "store", "clear"} => readers = {}

\* A drafted token belongs to this call and to this epoch: what Store writes
\* was minted under the same hold of the lock that writes it.
DraftInv ==
  \A g \in Callers :
    pc[g] = "store" =>
      /\ draft[g] # NoToken
      /\ draft[g].minted \in since[g]..now
      /\ draft[g].epoch = epoch
      /\ clearedAt <= draft[g].minted
      /\ ~Service!StrictlyFreshAt(cached, draft[g].minted)

\* manager.go:90: refresh mints only what its second look, under the lock it
\* still holds, found due.
DueInv ==
  \A g \in Callers : pc[g] = "mint" => ~Service!StrictlyFreshAt(cached, now)

\* Times and epochs a call recorded lie in the past, and the cache never holds
\* a token minted before the last Invalidate took effect.
CallInv ==
  /\ \A g \in Callers : since[g] <= now /\ floor[g] <= epoch
  /\ clearedAt <= now
  /\ cached # NoToken => cached.epoch = epoch /\ cached.minted \in clearedAt..now

\* The inductive invariant: the lock, and what a caller may rely on while it
\* holds it.
IInv == TypeOK /\ LockInv /\ CallInv /\ DraftInv /\ DueInv

\* The locked, double-checked cache is the one-step service of TokenService.
ImplementsService == Service!Spec

\* manager.go:41 and manager.go:59, as TokenService states them.
AnswerOutlivesSlack == Service!AnswerOutlivesSlack
NoRevivedToken == Service!NoRevivedToken

\* manager.go:42, "on expiry exactly one goroutine mints the replacement": a
\* token is replaced by another only when it was within the slack at the instant
\* that one was minted, so callers that queued behind a renewal reuse it.
RenewedOnlyWhenDue ==
  [][cached' # cached /\ cached # NoToken /\ cached' # NoToken =>
       ~Service!StrictlyFreshAt(cached, cached'.minted)]_vars

\* Every call of Token and of Invalidate returns: the lock is always handed on,
\* on the error paths too.
EveryCallReturns ==
  \A g \in Callers : (pc[g] \notin {"idle", "done"}) ~> (pc[g] \in {"idle", "done"})

=============================================================================
