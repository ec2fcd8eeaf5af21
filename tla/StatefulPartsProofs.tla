------------------------- MODULE StatefulPartsProofs -------------------------
(***************************************************************************)
(* Proofs about StatefulParts, for every set of ids, configurations and    *)
(* values and every bound.                                                 *)
(*                                                                         *)
(* The three resources differ in their requests, not in what becomes of a  *)
(* run.  A kind of resource is its ids, its attributes, the names that a   *)
(* block sets, and the blocks there may be; KindInv says of any kind what  *)
(* holds between the run, the state and NC2.  First comes what each way a  *)
(* run can go does to KindInv, then which of the ways the operations of    *)
(* each resource are, then the theorems.                                   *)
(***************************************************************************)
EXTENDS StatefulParts, ActionRunnerProofs

None == [none |-> TRUE]

\* Every answer has the attributes that the schemas say.
AnswersComplete == {"name", "description", "organization_id", "region"} \subseteq Carried

\* Of these, the name of the region in the rows that a create answers with.
RowsNamed == "region" \in Carried

\* What a read shows of an object; the account of a region is in its id.
Shown == (Carried \cup {"cloud_account_id"}) \ {"credentials"}

-----------------------------------------------------------------------------
(* The invariant of a kind.                                                *)

\* What is stored is wholly known.
Known(attributes) == [attributes -> Values \cup {Null, "active"}]

Stored(ids, attributes) ==
  [id : ids \cup {TaskId}, attrs : Known(attributes), tainted : BOOLEAN]

Steps == {"idle", "create", "update", "patch", "refresh", "delete"}

There(ids, id) == id \in ids /\ remote[id] # None

\* The attributes outside the configuration are computed.
Proposal(attributes) ==
  [a \in attributes |-> IF a \in DOMAIN config THEN config[a] ELSE Unknown]

IsKind(ids, attributes, names, configs) ==
  /\ TaskId \notin ids
  /\ "none" \notin attributes
  /\ names \subseteq attributes
  /\ configs \subseteq [names -> Values \cup {Null}]

\* The run: what is planned is what the block says, a resource that is created
\* is not there yet, one that is worked on is.
RunInv(ids, attributes, configs) ==
  /\ config \in configs \cup {None}
  /\ state \in Stored(ids, attributes) \cup {None}
  /\ pc \in Steps
  /\ lastRun \in {"none", "ok", "error"}
  /\ pc = "idle" => plan = None
  /\ pc # "idle" =>
       \/ config # None /\ plan = Proposal(attributes)
       \/ config = None /\ plan = None /\ pc = "delete"
  /\ pc = "create" => state = None
  /\ pc \in {"update", "patch", "refresh", "delete"} => state # None

\* NC2: every object is accounted for, one that is known of has what it is known
\* to have, and behind a calm run it is still there.
StoreInv(ids, attributes) ==
  /\ remote \in [ids -> Known(attributes) \cup {None}]
  /\ stray \subseteq ids
  /\ changes \in 0..MaxChanges
  /\ calm \in BOOLEAN
  /\ RowsNamed =>
       \A id \in ids : There(ids, id) =>
         id \in stray \cup going \/ (state # None /\ state.id = id)
  /\ state # None /\ There(ids, state.id) =>
       \A a \in attributes \ {"credentials"} :
         state.attrs[a] # Null => remote[state.id][a] # Null
  /\ calm /\ state # None /\ "task" \notin CreateAnswers => There(ids, state.id)

\* A run that has succeeded: the state is as configured, and so is NC2.
DoneInv(ids, names) ==
  pc = "idle" /\ lastRun = "ok" =>
    /\ config = None => state = None
    /\ config # None =>
         /\ state # None
         /\ ~state.tainted
         /\ \A a \in names : state.attrs[a] = config[a]
         /\ calm => There(ids, state.id)
         /\ calm => \A a \in names \cap Shown : remote[state.id][a] = config[a]

KindInv(ids, attributes, names, configs) ==
  /\ RunInv(ids, attributes, configs)
  /\ StoreInv(ids, attributes)
  /\ DoneInv(ids, names)

-----------------------------------------------------------------------------
(* Values.                                                                 *)

LEMMA Values3 ==
  /\ Null # Unknown
  /\ Null \notin Values /\ Unknown \notin Values
  /\ Null # "active" /\ Unknown # "active"
BY StatefulAssumption

\* A function with another domain than None is not None.
LEMMA NotNone ==
  ASSUME NEW S, NEW T, NEW f \in [S -> T], "none" \notin S
  PROVE  f # None
<1>1. DOMAIN f = S
  OBVIOUS
<1>2. DOMAIN None = {"none"}
  BY DEF None
<1>3. QED BY <1>1, <1>2

\* Nor is what is stored.
LEMMA StoredIsSome ==
  ASSUME NEW ids, NEW attributes, NEW r \in Stored(ids, attributes)
  PROVE  r # None
<1>1. DOMAIN r = {"id", "attrs", "tainted"}
  BY DEF Stored
<1>2. DOMAIN None = {"none"}
  BY DEF None
<1>3. "id" \in DOMAIN r /\ "id" \notin DOMAIN None
  BY <1>1, <1>2
<1>4. QED BY <1>3

\* Nor is what it becomes with other attributes.
LEMMA UpdatedIsSome ==
  ASSUME NEW ids, NEW attributes, NEW r \in Stored(ids, attributes), NEW attrs
  PROVE  [r EXCEPT !.attrs = attrs] # None
<1>1. DOMAIN [r EXCEPT !.attrs = attrs] = {"id", "attrs", "tainted"}
  BY DEF Stored
<1>2. DOMAIN None = {"none"}
  BY DEF None
<1>3. "id" \in DOMAIN [r EXCEPT !.attrs = attrs] /\ "id" \notin DOMAIN None
  BY <1>1, <1>2
<1>4. QED BY <1>3

\* The blocks, the objects and the plans of a kind.
LEMMA KindFacts ==
  ASSUME NEW ids, NEW attributes, NEW names, NEW configs,
         IsKind(ids, attributes, names, configs)
  PROVE  /\ \A c \in configs : c # None /\ DOMAIN c = names /\ c \in [names -> Values \cup {Null}]
         /\ \A object \in Known(attributes) : object # None
<1>1. ASSUME NEW c \in configs
      PROVE  c # None /\ DOMAIN c = names /\ c \in [names -> Values \cup {Null}]
  <2>1. c \in [names -> Values \cup {Null}] /\ "none" \notin names
    BY DEF IsKind
  <2>2. QED BY <2>1, NotNone
<1>2. ASSUME NEW object \in Known(attributes) PROVE object # None
  BY NotNone DEF Known, IsKind
<1>3. QED BY <1>1, <1>2

\* What is planned for a block.
LEMMA ProposalFacts ==
  ASSUME NEW ids, NEW attributes, NEW names, NEW configs,
         IsKind(ids, attributes, names, configs), config \in configs
  PROVE  /\ Proposal(attributes) \in [attributes -> Values \cup {Null, Unknown}]
         /\ Proposal(attributes) # None
         /\ \A a \in names : Proposal(attributes)[a] = config[a] /\ config[a] # Unknown
         /\ \A a \in attributes \ names : Proposal(attributes)[a] = Unknown
<1>1. DOMAIN config = names /\ config \in [names -> Values \cup {Null}]
  BY KindFacts
<1>2. names \subseteq attributes /\ "none" \notin attributes
  BY DEF IsKind
<1>3. Proposal(attributes) \in [attributes -> Values \cup {Null, Unknown}]
  BY <1>1, <1>2 DEF Proposal
<1>4. Proposal(attributes) # None
  BY <1>2, <1>3, NotNone
<1>5. \A a \in names : Proposal(attributes)[a] = config[a] /\ config[a] # Unknown
  BY <1>1, <1>2, Values3 DEF Proposal
<1>6. \A a \in attributes \ names : Proposal(attributes)[a] = Unknown
  BY <1>1 DEF Proposal
<1>7. QED BY <1>3, <1>4, <1>5, <1>6

\* A model with the fields of an object that an answer carries.
Merged(model, object, carried) ==
  [a \in DOMAIN model |->
     IF a \in carried \cap DOMAIN object /\ object[a] \notin {Null, Unknown}
       THEN object[a] ELSE model[a]]

-----------------------------------------------------------------------------
(* What a run may do, for any kind of resource.                            *)

\* Nothing to do, or something planned.
Begun(refreshed, attributes) ==
  /\ pc = "idle"
  /\ state' = refreshed
  /\ calm' = TRUE
  /\ UNCHANGED <<config, remote, stray, changes>>
  /\ \/ /\ IF refreshed = None THEN config = None
           ELSE /\ config # None
                /\ ~refreshed.tainted
                /\ \A a \in DOMAIN config : config[a] = refreshed.attrs[a]
        /\ pc' = "idle" /\ plan' = None /\ lastRun' = "ok"
     \/ /\ IF refreshed = None THEN config # None /\ pc' = "create"
           ELSE IF config = None THEN pc' = "delete"
           ELSE pc' \in {"delete", "update"}
        /\ plan' = IF config = None THEN None ELSE Proposal(attributes)
        /\ lastRun' = "none"

\* What was refreshed is as configured.
Agrees(refreshed, forces) ==
  IF refreshed = None THEN config = None
  ELSE /\ config # None
       /\ ~refreshed.tainted
       /\ \A a \in forces \cup DOMAIN config : config[a] = refreshed.attrs[a]

\* An error return: the state stays.
Errs ==
  /\ pc' = "idle" /\ plan' = None /\ lastRun' = "error"
  /\ UNCHANGED <<config, state>>

\* An operation returns.
Settled(id, attrs) ==
  LET ok == \A a \in DOMAIN attrs : attrs[a] # Unknown /\ plan[a] \in {Unknown, attrs[a]}
  IN /\ state' = [id |-> id,
                  attrs |-> [a \in DOMAIN attrs |->
                               IF attrs[a] = Unknown THEN Null ELSE attrs[a]],
                  tainted |-> pc = "create" /\ ~ok]
     /\ pc' = "idle" /\ plan' = None
     /\ lastRun' = IF ok THEN "ok" ELSE "error"
     /\ UNCHANGED config

\* The resource leaves the state.
Leaves ==
  /\ pc = "delete"
  /\ state' = None
  /\ IF plan = None THEN pc' = "idle" /\ plan' = None /\ lastRun' = "ok"
     ELSE pc' = "create" /\ UNCHANGED <<plan, lastRun>>
  /\ UNCHANGED config

\* An update goes on.
GoesOn ==
  /\ pc \in {"update", "patch"} /\ pc' \in {"patch", "refresh"}
  /\ UNCHANGED <<config, state, plan, lastRun>>

\* What was returned says what the object has.
Faithful(attrs, object, names) ==
  /\ \A a \in DOMAIN attrs \ {"credentials"} :
       attrs[a] \notin {Null, Unknown} => object[a] # Null
  /\ \A a \in names \cap Shown : object[a] # Null => attrs[a] = object[a]

-----------------------------------------------------------------------------
(* What a run does keeps RunInv.                                           *)

\* Two plans for one block are the same.
LEMMA SameProposal ==
  ASSUME NEW attributes, config' = config
  PROVE  Proposal(attributes)' = Proposal(attributes)
BY DEF Proposal

LEMMA SameRun ==
  ASSUME NEW ids, NEW attributes, NEW configs, RunInv(ids, attributes, configs),
         UNCHANGED <<config, state, plan, pc, lastRun>>
  PROVE  RunInv(ids, attributes, configs)'
BY SameProposal DEF RunInv

LEMMA EditedRun ==
  ASSUME NEW ids, NEW attributes, NEW configs, RunInv(ids, attributes, configs),
         pc = "idle", UNCHANGED <<state, plan, pc>>,
         config' \in configs \cup {None}, lastRun' = "none"
  PROVE  RunInv(ids, attributes, configs)'
BY DEF RunInv

LEMMA ErrsRun ==
  ASSUME NEW ids, NEW attributes, NEW configs, RunInv(ids, attributes, configs), Errs
  PROVE  RunInv(ids, attributes, configs)'
BY DEF RunInv, Errs, Steps

LEMMA GoesOnRun ==
  ASSUME NEW ids, NEW attributes, NEW configs, RunInv(ids, attributes, configs), GoesOn
  PROVE  RunInv(ids, attributes, configs)'
<1>1. Proposal(attributes)' = Proposal(attributes)
  BY SameProposal DEF GoesOn
<1>2. QED BY <1>1 DEF RunInv, GoesOn, Steps

LEMMA LeavesRun ==
  ASSUME NEW ids, NEW attributes, NEW names, NEW configs,
         IsKind(ids, attributes, names, configs), RunInv(ids, attributes, configs), Leaves
  PROVE  /\ RunInv(ids, attributes, configs)'
         /\ pc' = "idle" => config' = None
<1>1. Proposal(attributes)' = Proposal(attributes)
  BY SameProposal DEF Leaves
<1>2. config # None => Proposal(attributes) # None
  BY ProposalFacts DEF RunInv
<1>3. CASE plan = None
  <2>1. config = None
    BY <1>2, <1>3 DEF RunInv, Leaves
  <2>2. /\ pc' = "idle" /\ plan' = None /\ lastRun' = "ok" /\ state' = None /\ config' = config
    BY <1>3 DEF Leaves
  <2>3. QED BY <2>1, <2>2 DEF RunInv, Steps
<1>4. CASE plan # None
  <2>1. config # None /\ plan = Proposal(attributes)
    BY <1>4 DEF RunInv, Leaves
  <2>2. /\ pc' = "create" /\ plan' = plan /\ lastRun' = lastRun /\ state' = None
        /\ config' = config
    BY <1>4 DEF Leaves
  <2>3. QED BY <1>1, <2>1, <2>2 DEF RunInv, Steps
<1>5. QED BY <1>3, <1>4

LEMMA BegunRun ==
  ASSUME NEW ids, NEW attributes, NEW configs,
         RunInv(ids, attributes, configs),
         NEW refreshed \in Stored(ids, attributes) \cup {None}, Begun(refreshed, attributes)
  PROVE  RunInv(ids, attributes, configs)'
<1>1. Proposal(attributes)' = Proposal(attributes)
  BY SameProposal DEF Begun
<1>2. CASE pc' = "idle"
  <2>1. plan' = None /\ lastRun' \in {"none", "ok"} /\ config' = config /\ state' = refreshed
    BY <1>2 DEF Begun
  <2>2. QED BY <1>2, <2>1 DEF RunInv, Steps
<1>3. CASE pc' # "idle"
  <2>1. /\ IF refreshed = None THEN config # None /\ pc' = "create"
           ELSE IF config = None THEN pc' = "delete"
           ELSE pc' \in {"delete", "update"}
        /\ plan' = IF config = None THEN None ELSE Proposal(attributes)
        /\ lastRun' = "none" /\ config' = config /\ state' = refreshed
    BY <1>3 DEF Begun
  <2>2. QED BY <1>1, <2>1 DEF RunInv, Steps
<1>4. QED BY <1>2, <1>3

\* A resource that is returned is stored; a success has stored what the block
\* says.
LEMMA SettledRun ==
  ASSUME NEW ids, NEW attributes, NEW names, NEW configs,
         IsKind(ids, attributes, names, configs), RunInv(ids, attributes, configs),
         pc \in {"create", "update", "refresh"},
         NEW id \in ids \cup {TaskId},
         NEW attrs \in [attributes -> Values \cup {Null, Unknown, "active"}],
         Settled(id, attrs)
  PROVE  /\ RunInv(ids, attributes, configs)'
         /\ state' # None /\ state'.id = id
         /\ config \in configs /\ config # None
         /\ \A a \in attributes :
              state'.attrs[a] = IF attrs[a] = Unknown THEN Null ELSE attrs[a]
         /\ lastRun' = "ok" =>
              /\ ~state'.tainted
              /\ \A a \in attributes : attrs[a] # Unknown
              /\ \A a \in names : attrs[a] = config[a]
<1> DEFINE ok == \A a \in DOMAIN attrs : attrs[a] # Unknown /\ plan[a] \in {Unknown, attrs[a]}
           stored == [a \in DOMAIN attrs |-> IF attrs[a] = Unknown THEN Null ELSE attrs[a]]
<1>1. /\ state' = [id |-> id, attrs |-> stored, tainted |-> pc = "create" /\ ~ok]
      /\ pc' = "idle" /\ plan' = None /\ config' = config
      /\ lastRun' = IF ok THEN "ok" ELSE "error"
  BY DEF Settled
<1>2. DOMAIN attrs = attributes
  OBVIOUS
<1>3. stored \in Known(attributes)
  BY <1>2 DEF Known
<1>4. state' \in Stored(ids, attributes)
  <2>1. (pc = "create" /\ ~ok) \in BOOLEAN
    OBVIOUS
  <2>2. QED BY <1>1, <1>3, <2>1 DEF Stored
<1>5. state' # None
  BY <1>4, StoredIsSome
<1>6. config \in configs /\ config # None /\ plan = Proposal(attributes)
  BY DEF RunInv
<1>7. RunInv(ids, attributes, configs)'
  BY <1>1, <1>4, <1>6 DEF RunInv, Steps
<1>8. \A a \in attributes : state'.attrs[a] = IF attrs[a] = Unknown THEN Null ELSE attrs[a]
  BY <1>1, <1>2
<1>9. ASSUME lastRun' = "ok"
      PROVE  /\ ~state'.tainted
             /\ \A a \in attributes : attrs[a] # Unknown
             /\ \A a \in names : attrs[a] = config[a]
  <2>1. ok
    BY <1>1, <1>9
  <2>2. \A a \in names : plan[a] = config[a] /\ config[a] # Unknown /\ a \in attributes
    BY <1>6, ProposalFacts DEF IsKind
  <2>3. QED BY <1>1, <1>2, <2>1, <2>2
<1>10. QED BY <1>1, <1>5, <1>6, <1>7, <1>8, <1>9

-----------------------------------------------------------------------------
(* What a step does keeps KindInv.                                         *)

\* Nothing changes at NC2, nor in the state, and no run comes to succeed.
LEMMA Quiet ==
  ASSUME NEW ids, NEW attributes, NEW names, NEW configs,
         KindInv(ids, attributes, names, configs), RunInv(ids, attributes, configs)',
         UNCHANGED <<state, remote, stray, calm, changes>>, going \subseteq going',
         pc' = "idle" /\ lastRun' = "ok" => UNCHANGED <<pc, lastRun, config>>
  PROVE  KindInv(ids, attributes, names, configs)'
<1>1. StoreInv(ids, attributes)'
  BY DEF KindInv, StoreInv, There
<1>2. DoneInv(ids, names)'
  BY DEF KindInv, DoneInv, There
<1>3. QED BY <1>1, <1>2 DEF KindInv

\* The state is what a refresh has made of it.
Refreshes(ids, names, refreshed, carried) ==
  IF refreshed = None THEN state = None \/ ~There(ids, state.id)
  ELSE /\ state # None
       /\ There(ids, state.id)
       /\ refreshed = [state EXCEPT !.attrs = Merged(state.attrs, remote[state.id], carried)]
       /\ carried \subseteq Shown
       /\ \A a \in names \cap Shown :
            a \in carried \/ remote[state.id][a] = state.attrs[a]

LEMMA RefreshedFacts ==
  ASSUME NEW ids, NEW attributes, NEW names, NEW configs,
         KindInv(ids, attributes, names, configs),
         NEW refreshed, NEW carried, Refreshes(ids, names, refreshed, carried),
         refreshed # None
  PROVE  /\ state # None /\ There(ids, state.id)
         /\ refreshed \in Stored(ids, attributes)
         /\ refreshed.id = state.id
         /\ refreshed.tainted = state.tainted
         /\ remote[state.id] \in Known(attributes)
         /\ \A a \in attributes :
              refreshed.attrs[a] =
                IF a \in carried /\ remote[state.id][a] \notin {Null, Unknown}
                  THEN remote[state.id][a] ELSE state.attrs[a]
<1> DEFINE attrs == Merged(state.attrs, remote[state.id], carried)
<1>1. state # None /\ There(ids, state.id) /\ refreshed = [state EXCEPT !.attrs = attrs]
  BY DEF Refreshes
<1>2. state \in Stored(ids, attributes)
  BY <1>1 DEF KindInv, RunInv
<1>3. state.attrs \in [attributes -> Values \cup {Null, "active"}]
  BY <1>2 DEF Stored, Known
<1>4. remote[state.id] \in Known(attributes)
  BY <1>1 DEF KindInv, StoreInv, There
<1>5. remote[state.id] \in [attributes -> Values \cup {Null, Unknown, "active"}]
  BY <1>4 DEF Known
<1>6. /\ attrs \in [attributes -> Values \cup {Null, "active"}]
      /\ \A a \in attributes : attrs[a] =
           IF a \in carried \cap attributes /\ remote[state.id][a] \notin {Null, Unknown}
             THEN remote[state.id][a] ELSE state.attrs[a]
  <2>1. DOMAIN state.attrs = attributes /\ DOMAIN remote[state.id] = attributes
    BY <1>3, <1>5
  <2>2. \A a \in attributes : attrs[a] =
          IF a \in carried \cap attributes /\ remote[state.id][a] \notin {Null, Unknown}
            THEN remote[state.id][a] ELSE state.attrs[a]
    BY <2>1 DEF Merged
  <2>3. attrs = [a \in attributes |-> attrs[a]]
    BY <2>1 DEF Merged
  <2>4. \A a \in attributes : attrs[a] \in Values \cup {Null, "active"}
    BY <1>3, <1>5, <2>2
  <2> HIDE DEF attrs
  <2>5. QED BY <2>2, <2>3, <2>4
<1>7. attrs \in Known(attributes)
  BY <1>6 DEF Known
<1>8. /\ refreshed.id = state.id /\ refreshed.tainted = state.tainted
      /\ refreshed.attrs = attrs
      /\ refreshed \in Stored(ids, attributes)
  <2> HIDE DEF attrs
  <2>1. QED BY <1>1, <1>2, <1>7 DEF Stored
<1>9. QED
  <2> HIDE DEF attrs
  <2>1. QED BY <1>1, <1>4, <1>6, <1>8

\* The refresh and the plan.  Nothing is planned for a resource that NC2 has as
\* configured: what it has and the state has not, the refresh has brought in.
LEMMA Begins ==
  ASSUME NEW ids, NEW attributes, NEW names, NEW configs,
         IsKind(ids, attributes, names, configs), KindInv(ids, attributes, names, configs),
         NEW refreshed, NEW carried, Refreshes(ids, names, refreshed, carried),
         Begun(refreshed, attributes), UNCHANGED going
  PROVE  KindInv(ids, attributes, names, configs)'
<1>1. /\ state' = refreshed /\ remote' = remote /\ stray' = stray /\ going' = going
      /\ config' = config /\ changes' = changes /\ calm' = TRUE
  BY DEF Begun
<1>2. RunInv(ids, attributes, configs)'
  BY BegunRun, RefreshedFacts DEF KindInv
<1>3. StoreInv(ids, attributes)'
  <2>1. CASE refreshed = None
    <3>1. state = None \/ ~There(ids, state.id)
      BY <2>1 DEF Refreshes
    <3>2. QED BY <1>1, <2>1, <3>1 DEF KindInv, StoreInv, There
  <2>2. CASE refreshed # None
    <3>1. /\ state # None /\ There(ids, state.id) /\ refreshed.id = state.id
          /\ \A a \in attributes :
               refreshed.attrs[a] # Null =>
                 remote[state.id][a] # Null \/ state.attrs[a] # Null
      BY <2>2, RefreshedFacts
    <3>2. \A a \in attributes \ {"credentials"} :
            refreshed.attrs[a] # Null => remote[state.id][a] # Null
      BY <3>1 DEF KindInv, StoreInv
    <3>3. QED BY <1>1, <2>2, <3>1, <3>2 DEF KindInv, StoreInv, There
  <2>3. QED BY <2>1, <2>2
<1>4. DoneInv(ids, names)'
  <2> SUFFICES ASSUME pc' = "idle", lastRun' = "ok"
               PROVE  /\ config = None => refreshed = None
                      /\ config # None =>
                           /\ refreshed # None
                           /\ ~refreshed.tainted
                           /\ \A a \in names : refreshed.attrs[a] = config[a]
                           /\ There(ids, refreshed.id)
                           /\ \A a \in names \cap Shown :
                                remote[refreshed.id][a] = config[a]
    BY <1>1 DEF DoneInv, There
  <2>1. IF refreshed = None THEN config = None
        ELSE /\ config # None
             /\ ~refreshed.tainted
             /\ \A a \in DOMAIN config : config[a] = refreshed.attrs[a]
    BY DEF Begun
  <2>2. ASSUME config # None, refreshed # None, NEW a \in names \cap Shown
        PROVE  remote[refreshed.id][a] = config[a]
    <3>1. config \in configs /\ DOMAIN config = names /\ a \in attributes
      BY <2>2, KindFacts DEF KindInv, RunInv, IsKind
    <3>2. config[a] = refreshed.attrs[a]
      BY <2>1, <2>2, <3>1
    <3>3. /\ state # None /\ There(ids, state.id) /\ refreshed.id = state.id
          /\ remote[state.id][a] \in Values \cup {Null, "active"}
          /\ refreshed.attrs[a] =
               IF a \in carried /\ remote[state.id][a] \notin {Null, Unknown}
                 THEN remote[state.id][a] ELSE state.attrs[a]
      BY <2>2, <3>1, RefreshedFacts DEF Known
    <3>4. state.attrs[a] # Null => remote[state.id][a] # Null
      BY <3>1, <3>3 DEF KindInv, StoreInv, Shown
    <3>5. a \in carried \/ remote[state.id][a] = state.attrs[a]
      BY <2>2 DEF Refreshes
    <3>6. remote[state.id][a] # Unknown
      BY <3>3, Values3
    <3>7. QED BY <3>2, <3>3, <3>4, <3>5, <3>6
  <2>3. config # None => DOMAIN config = names
    BY KindFacts DEF KindInv, RunInv
  <2>4. QED BY <2>1, <2>2, <2>3, RefreshedFacts
<1>5. QED BY <1>2, <1>3, <1>4 DEF KindInv

\* An import, of an object that is there.
LEMMA Imports ==
  ASSUME NEW ids, NEW attributes, NEW names, NEW configs,
         IsKind(ids, attributes, names, configs), KindInv(ids, attributes, names, configs),
         NEW id, There(ids, id), NEW attrs \in Known(attributes),
         \A a \in attributes : attrs[a] # Null => remote[id][a] # Null,
         pc = "idle", state = None,
         state' = [id |-> id, attrs |-> attrs, tainted |-> FALSE],
         stray' = stray \ {id}, lastRun' = "none", calm' = TRUE,
         UNCHANGED <<config, plan, pc, remote, changes, going>>
  PROVE  KindInv(ids, attributes, names, configs)'
<1>1. state' \in Stored(ids, attributes) /\ state' # None
  <2>1. state' \in Stored(ids, attributes)
    BY DEF Stored, There
  <2>2. QED BY <2>1, StoredIsSome
<1>2. state'.id = id /\ state'.attrs = attrs
  OBVIOUS
<1>3. RunInv(ids, attributes, configs)'
  BY <1>1 DEF KindInv, RunInv
<1>4. StoreInv(ids, attributes)'
  BY <1>1, <1>2 DEF KindInv, StoreInv, There
<1>5. DoneInv(ids, names)'
  BY DEF DoneInv
<1>6. QED BY <1>3, <1>4, <1>5 DEF KindInv

\* The resource leaves the state: what is left of it is on its way out, or is a
\* stray.
LEMMA Departs ==
  ASSUME NEW ids, NEW attributes, NEW names, NEW configs,
         IsKind(ids, attributes, names, configs), KindInv(ids, attributes, names, configs),
         Leaves, UNCHANGED <<remote, calm, changes>>,
         stray \subseteq stray', stray' \subseteq ids, going \subseteq going',
         There(ids, state.id) => state.id \in stray' \cup going'
  PROVE  KindInv(ids, attributes, names, configs)'
<1>1. RunInv(ids, attributes, configs)' /\ (pc' = "idle" => config' = None) /\ state' = None
  BY LeavesRun DEF KindInv, Leaves
<1>2. StoreInv(ids, attributes)'
  BY <1>1 DEF KindInv, StoreInv, There
<1>3. DoneInv(ids, names)'
  BY <1>1 DEF DoneInv
<1>4. QED BY <1>1, <1>2, <1>3 DEF KindInv

\* Someone, or NC2 itself, changes or removes an object: a calm run has not had
\* its own object touched.
LEMMA Changes ==
  ASSUME NEW ids, NEW attributes, NEW names, NEW configs,
         IsKind(ids, attributes, names, configs), KindInv(ids, attributes, names, configs),
         NEW id, There(ids, id),
         NEW object \in Known(attributes) \cup {None},
         object # None =>
           \A a \in attributes \ {"credentials"} : remote[id][a] # Null => object[a] # Null,
         remote' = [remote EXCEPT ![id] = object],
         stray' \subseteq ids,
         stray \cup going \subseteq
           stray' \cup going' \cup (IF object = None THEN {id} ELSE {}),
         calm' \in BOOLEAN,
         calm' => calm /\ (state # None => state.id # id),
         changes' \in 0..MaxChanges,
         UNCHANGED <<config, state, plan, pc, lastRun>>
  PROVE  KindInv(ids, attributes, names, configs)'
<1>1. RunInv(ids, attributes, configs)'
  <2>1. Proposal(attributes)' = Proposal(attributes)
    BY SameProposal
  <2>2. QED BY <2>1 DEF KindInv, RunInv
<1>2. /\ remote' \in [ids -> Known(attributes) \cup {None}]
      /\ remote'[id] = object
      /\ \A i \in ids \ {id} : remote'[i] = remote[i]
  BY DEF KindInv, StoreInv, There
<1>3. StoreInv(ids, attributes)'
  <2>1. ASSUME RowsNamed, NEW i \in ids, There(ids, i)'
        PROVE  i \in stray' \cup going' \/ (state' # None /\ state'.id = i)
    <3>1. There(ids, i) /\ (i = id => object # None)
      BY <1>2, <2>1 DEF There
    <3>2. i \in stray \cup going \/ (state # None /\ state.id = i)
      BY <2>1, <3>1 DEF KindInv, StoreInv
    <3>3. QED BY <3>1, <3>2
  <2>2. ASSUME state' # None, There(ids, state.id)',
               NEW a \in attributes \ {"credentials"}, state.attrs[a] # Null
        PROVE  remote'[state.id][a] # Null
    <3>1. There(ids, state.id) /\ (state.id = id => object # None)
      BY <1>2, <2>2 DEF There
    <3>2. remote[state.id][a] # Null
      BY <2>2, <3>1 DEF KindInv, StoreInv
    <3>3. state.id \in ids
      BY <3>1 DEF There
    <3>4. QED BY <1>2, <3>1, <3>2, <3>3
  <2>3. calm' /\ state' # None /\ "task" \notin CreateAnswers => There(ids, state.id)'
    BY <1>2 DEF KindInv, StoreInv, There
  <2>4. QED BY <1>2, <2>1, <2>2, <2>3 DEF StoreInv, There
<1>4. DoneInv(ids, names)'
  <2>1. ASSUME state # None, calm', There(ids, state.id)
        PROVE  There(ids, state.id)' /\ remote'[state.id] = remote[state.id]
    BY <1>2, <2>1 DEF There
  <2>2. QED BY <2>1 DEF KindInv, DoneInv
<1>5. QED BY <1>1, <1>3, <1>4 DEF KindInv

\* An object that a success has returned is as configured.
LEMMA FaithfulIsReal ==
  ASSUME NEW ids, NEW attributes, NEW names, NEW configs,
         IsKind(ids, attributes, names, configs),
         NEW attrs \in [attributes -> Values \cup {Null, Unknown, "active"}],
         NEW object, Faithful(attrs, object, names),
         \A a \in attributes : attrs[a] # Unknown,
         NEW block, \A a \in names : attrs[a] = block[a]
  PROVE  \A a \in names \cap Shown : object[a] = block[a]
<1> SUFFICES ASSUME NEW a \in names \cap Shown PROVE object[a] = block[a]
  OBVIOUS
<1>1. a \in DOMAIN attrs /\ a \in attributes
  BY DEF IsKind
<1>2. CASE object[a] # Null
  BY <1>2 DEF Faithful
<1>3. CASE object[a] = Null
  BY <1>1, <1>3 DEF Faithful, Shown
<1>4. QED BY <1>2, <1>3

\* The object of the state is written, or only read: what it had it keeps having.
LEMMA Writes ==
  ASSUME NEW ids, NEW attributes, NEW names, NEW configs,
         IsKind(ids, attributes, names, configs), KindInv(ids, attributes, names, configs),
         pc \in {"update", "patch", "refresh"}, There(ids, state.id),
         NEW object \in Known(attributes),
         \A a \in attributes \ {"credentials"} : remote[state.id][a] # Null => object[a] # Null,
         remote' = [remote EXCEPT ![state.id] = object],
         UNCHANGED <<stray, going, calm, changes>>,
         \/ Errs
         \/ GoesOn
         \/ \E attrs \in [attributes -> Values \cup {Null, Unknown, "active"}] :
              /\ pc # "patch"
              /\ Settled(state.id, attrs)
              /\ Faithful(attrs, object, names)
  PROVE  KindInv(ids, attributes, names, configs)'
<1>1. /\ remote' \in [ids -> Known(attributes) \cup {None}]
      /\ remote'[state.id] = object
      /\ \A i \in ids \ {state.id} : remote'[i] = remote[i]
      /\ state.id \in ids
      /\ object # None
  BY KindFacts DEF KindInv, StoreInv, There
<1>2. \A i \in ids : There(ids, i)' = There(ids, i)
  BY <1>1 DEF There
<1>3. state # None
  BY DEF KindInv, RunInv
<1>4. CASE Errs \/ GoesOn
  <2>1. state' = state
    BY <1>4 DEF Errs, GoesOn
  <2>2. RunInv(ids, attributes, configs)'
    BY <1>4, ErrsRun, GoesOnRun DEF KindInv
  <2>3. StoreInv(ids, attributes)'
    <3>1. \A a \in attributes \ {"credentials"} :
            state.attrs[a] # Null => remote'[state.id][a] # Null
      BY <1>1, <1>3 DEF KindInv, StoreInv
    <3>2. QED BY <1>1, <1>2, <1>3, <2>1, <3>1 DEF KindInv, StoreInv
  <2>4. DoneInv(ids, names)'
    BY <1>4 DEF DoneInv, Errs, GoesOn
  <2>5. QED BY <2>2, <2>3, <2>4 DEF KindInv
<1>5. ASSUME NEW attrs \in [attributes -> Values \cup {Null, Unknown, "active"}],
             pc # "patch", Settled(state.id, attrs), Faithful(attrs, object, names)
      PROVE  KindInv(ids, attributes, names, configs)'
  <2>1. /\ RunInv(ids, attributes, configs)'
        /\ state' # None /\ state'.id = state.id
        /\ config # None
        /\ \A a \in attributes :
             state'.attrs[a] = IF attrs[a] = Unknown THEN Null ELSE attrs[a]
        /\ lastRun' = "ok" =>
             /\ ~state'.tainted
             /\ \A a \in attributes : attrs[a] # Unknown
             /\ \A a \in names : attrs[a] = config[a]
    BY <1>1, <1>5, SettledRun DEF KindInv
  <2>2. config' = config
    BY <1>5 DEF Settled
  <2>3. StoreInv(ids, attributes)'
    <3>1. ASSUME NEW a \in attributes \ {"credentials"}, state'.attrs[a] # Null
          PROVE  object[a] # Null
      BY <1>5, <2>1, <3>1 DEF Faithful
    <3>2. QED BY <1>1, <1>2, <1>3, <2>1, <3>1 DEF KindInv, StoreInv
  <2>4. DoneInv(ids, names)'
    <3>1. ASSUME lastRun' = "ok"
          PROVE  \A a \in names \cap Shown : remote'[state.id][a] = config[a]
      BY <1>1, <1>5, <2>1, <3>1, FaithfulIsReal
    <3>2. names \subseteq attributes
      BY DEF IsKind
    <3>3. QED BY <1>1, <1>2, <2>1, <2>2, <3>1, <3>2 DEF DoneInv
  <2>5. QED BY <2>1, <2>3, <2>4 DEF KindInv
<1>6. QED BY <1>4, <1>5

\* An object is created, and the answer is lost, or is the object, or another
\* one; then the run fails, and the object is a stray.
LEMMA Creates ==
  ASSUME NEW ids, NEW attributes, NEW names, NEW configs,
         IsKind(ids, attributes, names, configs), KindInv(ids, attributes, names, configs),
         pc = "create", NEW id \in ids, NEW object \in Known(attributes),
         \A a \in attributes \ {"credentials"} :
           There(ids, id) /\ remote[id][a] # Null => object[a] # Null,
         remote' = [remote EXCEPT ![id] = object],
         stray' = IF state' # None /\ state'.id = id THEN stray \ {id}
                  ELSE IF lastRun' = "error" THEN stray \cup {id}
                  ELSE stray,
         UNCHANGED <<going, calm, changes>>,
         \/ Errs
         \/ \E attrs \in [attributes -> Values \cup {Null, Unknown, "active"}] :
              /\ Settled(id, attrs)
              /\ Faithful(attrs, object, names)
         \/ \E attrs \in [attributes -> Values \cup {Null, Unknown, "active"}],
               other \in (ids \cup {TaskId}) \ {id} :
              /\ Settled(other, attrs)
              /\ RowsNamed \/ other = TaskId => lastRun' # "ok"
              /\ IF other = TaskId THEN "task" \in CreateAnswers
                 ELSE There(ids, other) /\ Faithful(attrs, remote[other], names)
  PROVE  KindInv(ids, attributes, names, configs)'
<1>1. /\ remote' \in [ids -> Known(attributes) \cup {None}]
      /\ remote'[id] = object
      /\ \A i \in ids \ {id} : remote'[i] = remote[i]
      /\ object # None
  BY KindFacts DEF KindInv, StoreInv
<1>2. /\ \A i \in ids \ {id} : There(ids, i)' = There(ids, i)
      /\ There(ids, id)'
  BY <1>1 DEF There
<1>3. state = None /\ TaskId \notin ids
  BY DEF KindInv, RunInv, IsKind
<1>4. RowsNamed => \A i \in ids \ {id} : There(ids, i) => i \in stray \cup going
  BY <1>3 DEF KindInv, StoreInv
<1>5. stray' \subseteq ids /\ stray \ {id} \subseteq stray'
  BY DEF KindInv, StoreInv
<1>6. CASE Errs
  <2>1. state' = None /\ pc' = "idle" /\ lastRun' = "error"
    BY <1>3, <1>6 DEF Errs
  <2>2. RunInv(ids, attributes, configs)'
    BY <1>6, ErrsRun DEF KindInv
  <2>3. StoreInv(ids, attributes)'
    BY <1>1, <1>2, <1>4, <1>5, <2>1 DEF KindInv, StoreInv
  <2>4. DoneInv(ids, names)'
    BY <2>1 DEF DoneInv
  <2>5. QED BY <2>2, <2>3, <2>4 DEF KindInv
<1>7. ASSUME NEW attrs \in [attributes -> Values \cup {Null, Unknown, "active"}],
             Settled(id, attrs), Faithful(attrs, object, names)
      PROVE  KindInv(ids, attributes, names, configs)'
  <2>1. /\ RunInv(ids, attributes, configs)'
        /\ state' # None /\ state'.id = id
        /\ config # None
        /\ \A a \in attributes :
             state'.attrs[a] = IF attrs[a] = Unknown THEN Null ELSE attrs[a]
        /\ lastRun' = "ok" =>
             /\ ~state'.tainted
             /\ \A a \in attributes : attrs[a] # Unknown
             /\ \A a \in names : attrs[a] = config[a]
    BY <1>7, SettledRun DEF KindInv
  <2>2. config' = config
    BY <1>7 DEF Settled
  <2>3. StoreInv(ids, attributes)'
    <3>1. ASSUME NEW a \in attributes \ {"credentials"}, state'.attrs[a] # Null
          PROVE  object[a] # Null
      BY <1>7, <2>1, <3>1 DEF Faithful
    <3>2. QED BY <1>1, <1>2, <1>4, <1>5, <2>1, <3>1 DEF KindInv, StoreInv
  <2>4. DoneInv(ids, names)'
    <3>1. ASSUME lastRun' = "ok"
          PROVE  \A a \in names \cap Shown : remote'[id][a] = config[a]
      BY <1>1, <1>7, <2>1, <3>1, FaithfulIsReal
    <3>2. names \subseteq attributes
      BY DEF IsKind
    <3>3. QED BY <1>2, <2>1, <2>2, <3>1, <3>2 DEF DoneInv
  <2>5. QED BY <2>1, <2>3, <2>4 DEF KindInv
<1>8. ASSUME NEW attrs \in [attributes -> Values \cup {Null, Unknown, "active"}],
             NEW other \in (ids \cup {TaskId}) \ {id},
             Settled(other, attrs), RowsNamed \/ other = TaskId => lastRun' # "ok",
             IF other = TaskId THEN "task" \in CreateAnswers
             ELSE There(ids, other) /\ Faithful(attrs, remote[other], names)
      PROVE  KindInv(ids, attributes, names, configs)'
  <2>1. /\ RunInv(ids, attributes, configs)'
        /\ state' # None /\ state'.id = other
        /\ config # None
        /\ \A a \in attributes :
             state'.attrs[a] = IF attrs[a] = Unknown THEN Null ELSE attrs[a]
        /\ lastRun' = "ok" =>
             /\ ~state'.tainted
             /\ \A a \in attributes : attrs[a] # Unknown
             /\ \A a \in names : attrs[a] = config[a]
    BY <1>8, SettledRun DEF KindInv
  <2>2. RowsNamed => lastRun' = "error"
    BY <1>8 DEF Settled
  <2>3. RowsNamed => id \in stray'
    BY <2>1, <2>2
  <2>4. StoreInv(ids, attributes)'
    <3>1. CASE other = TaskId
      <4>1. ~There(ids, state.id)'
        BY <1>3, <2>1, <3>1 DEF There
      <4>2. QED BY <1>1, <1>2, <1>4, <1>5, <1>8, <2>1, <2>3, <3>1, <4>1 DEF KindInv, StoreInv
    <3>2. CASE other # TaskId
      <4>1. There(ids, other)' /\ remote'[other] = remote[other] /\ other \in ids
        BY <1>1, <1>2, <1>8, <3>2
      <4>2. ASSUME NEW a \in attributes \ {"credentials"}, state'.attrs[a] # Null
            PROVE  remote'[other][a] # Null
        BY <1>8, <2>1, <3>2, <4>1, <4>2 DEF Faithful
      <4>3. There(ids, state.id)'
        BY <2>1, <4>1 DEF There
      <4>4. QED BY <1>1, <1>2, <1>4, <1>5, <2>1, <2>3, <4>2, <4>3 DEF KindInv, StoreInv
    <3>3. QED BY <3>1, <3>2
  <2>5. DoneInv(ids, names)'
    <3>1. SUFFICES ASSUME lastRun' = "ok" PROVE DoneInv(ids, names)'
      BY DEF DoneInv
    <3>2. ~RowsNamed /\ There(ids, other)
      BY <1>8, <3>1
    <3>3. There(ids, other)' /\ names \subseteq attributes
      BY <1>1, <1>2, <3>2 DEF There, IsKind
    <3>4. remote'[other] = remote[other]
      BY <1>1, <3>2 DEF There
    <3>5. config' = config
      BY <1>8 DEF Settled
    <3>6. There(ids, state.id)'
      BY <2>1, <3>3 DEF There
    <3>7. \A a \in names : state'.attrs[a] = config[a]
      BY <2>1, <3>1, <3>3
    <3>8. \A a \in names \cap Shown : remote[other][a] = config[a]
      BY <1>8, <2>1, <3>1, <3>2, FaithfulIsReal
    <3>9. QED BY <2>1, <3>1, <3>4, <3>5, <3>6, <3>7, <3>8 DEF DoneInv
  <2>6. QED BY <2>1, <2>4, <2>5 DEF KindInv
<1>9. QED BY <1>6, <1>7, <1>8

\* An object that has taken a body has what it had, or what was sent.
LEMMA Sends ==
  ASSUME NEW attributes, NEW sent, NEW before \in Known(attributes),
         NEW planned \in [attributes -> Values \cup {Null, Unknown}]
  PROVE  /\ Merged(before, planned, sent) \in Known(attributes)
         /\ \A a \in attributes : before[a] # Null => Merged(before, planned, sent)[a] # Null
         /\ \A a \in attributes :
              a \in sent /\ planned[a] \notin {Null, Unknown} =>
                Merged(before, planned, sent)[a] # Null
<1>1. DOMAIN before = attributes /\ DOMAIN planned = attributes
  BY DEF Known
<1>2. /\ Merged(before, planned, sent) \in Known(attributes)
      /\ \A a \in attributes :
           Merged(before, planned, sent)[a] =
             IF a \in sent /\ planned[a] \notin {Null, Unknown} THEN planned[a] ELSE before[a]
  BY <1>1 DEF Merged, Known
<1>3. QED BY <1>2

\* What an answer makes of the plan agrees with the object, when the object has
\* all that is planned.
LEMMA Answers ==
  ASSUME NEW attributes, NEW names, names \subseteq attributes, NEW carried,
         NEW planned \in [attributes -> Values \cup {Null, Unknown}],
         NEW object \in Known(attributes),
         \A a \in attributes \ {"credentials"} :
           planned[a] \notin {Null, Unknown} => object[a] # Null,
         \A a \in names \cap Shown : a \in carried \/ planned[a] = object[a]
  PROVE  /\ Merged(planned, object, carried)
              \in [attributes -> Values \cup {Null, Unknown, "active"}]
         /\ Faithful(Merged(planned, object, carried), object, names)
<1> DEFINE attrs == Merged(planned, object, carried)
<1>1. DOMAIN planned = attributes /\ DOMAIN object = attributes
  BY DEF Known
<1>2. \A a \in attributes : object[a] \in Values \cup {Null, "active"}
  BY DEF Known
<1>3. /\ DOMAIN attrs = attributes
      /\ attrs = [a \in attributes |-> attrs[a]]
      /\ \A a \in attributes :
           attrs[a] = IF a \in carried /\ object[a] \notin {Null, Unknown}
                        THEN object[a] ELSE planned[a]
  BY <1>1 DEF Merged
<1> HIDE DEF attrs
<1>4. attrs \in [attributes -> Values \cup {Null, Unknown, "active"}]
  <2>1. \A a \in attributes : attrs[a] \in Values \cup {Null, Unknown, "active"}
    BY <1>2, <1>3
  <2>2. QED BY <1>3, <2>1
<1>5. Faithful(attrs, object, names)
  <2>1. ASSUME NEW a \in attributes \ {"credentials"}, attrs[a] \notin {Null, Unknown}
        PROVE  object[a] # Null
    BY <1>3, <2>1
  <2>2. ASSUME NEW a \in names \cap Shown, object[a] # Null
        PROVE  attrs[a] = object[a]
    <3>1. a \in attributes
      OBVIOUS
    <3>2. object[a] # Unknown
      BY <1>2, <3>1, Values3
    <3>3. a \in carried \/ planned[a] = object[a]
      BY <2>2
    <3>4. QED BY <1>3, <2>2, <3>1, <3>2, <3>3
  <2>3. QED BY <1>3, <2>1, <2>2 DEF Faithful
<1>6. QED BY <1>4, <1>5 DEF attrs

-----------------------------------------------------------------------------
(* The organization.                                                       *)

OrgNames == {"name", "description"}

OrgInv ==
  /\ KindInv(OrganizationIds, Org!Attributes, OrgNames, OrganizationConfigs)
  /\ going \subseteq OrganizationIds

LEMMA OrgIsKind == IsKind(OrganizationIds, Org!Attributes, OrgNames, OrganizationConfigs)
BY StatefulAssumption DEF IsKind, OrgNames, Org!Attributes

\* Its ways are those of every kind.
LEMMA OrgWays ==
  /\ \A id : Org!Exists(id) = There(OrganizationIds, id)
  /\ Org!Finish("error") /\ UNCHANGED <<config, state>> => Errs
  /\ Org!Dropped /\ pc = "delete" /\ UNCHANGED config => Leaves
<1>1. \A id : Org!Exists(id) = There(OrganizationIds, id)
  BY DEF Org!Exists, There, Org!None, None
<1>2. Org!Finish("error") /\ UNCHANGED <<config, state>> => Errs
  BY DEF Org!Finish, Org!None, None, Errs
<1>3. Org!Dropped /\ pc = "delete" /\ UNCHANGED config => Leaves
  BY DEF Org!Dropped, Org!Finish, Org!None, None, Leaves
<1>4. QED BY <1>1, <1>2, <1>3

LEMMA OrgSettles ==
  ASSUME NEW id, NEW attrs, Org!Settle(id, attrs), UNCHANGED config
  PROVE  Settled(id, attrs)
BY DEF Org!Settle, Org!Finish, Org!None, None, Settled

LEMMA OrgBegins ==
  ASSUME NEW refreshed, NEW forces,
         Org!StartRun(refreshed, Org!Attributes, forces)
  PROVE  /\ Begun(refreshed, Org!Attributes)
         /\ pc' = "update" => \A a \in forces : config[a] = refreshed.attrs[a]
         /\ Agrees(refreshed, forces) => pc' = "idle"
<1> DEFINE action == Org!PlannedAction(refreshed, forces)
<1>1. /\ pc = "idle" /\ state' = refreshed
      /\ pc' = CASE action = "nothing" -> "idle"
                 [] action = "replace" -> "delete"
                 [] OTHER -> action
      /\ plan' = IF action \in {"nothing", "delete"} THEN None ELSE Proposal(Org!Attributes)
      /\ lastRun' = IF action = "nothing" THEN "ok" ELSE "none"
      /\ calm' = TRUE
      /\ UNCHANGED <<config, remote, stray, changes>>
  BY DEF Org!StartRun, Org!None, None, Org!Proposed, Proposal, Org!nc2Vars
<1>2. CASE refreshed = None
  <2>1. action = IF config = None THEN "nothing" ELSE "create"
    BY <1>2 DEF Org!PlannedAction, Org!None, None
  <2>2. QED BY <1>1, <1>2, <2>1 DEF Begun, Agrees
<1>3. CASE refreshed # None /\ config = None
  <2>1. action = "delete"
    BY <1>3 DEF Org!PlannedAction, Org!None, None
  <2>2. QED BY <1>1, <1>3, <2>1 DEF Begun, Agrees
<1>4. CASE refreshed # None /\ config # None
  <2>1. \/ action = "replace"
        \/ action = "update" /\ \A a \in forces : config[a] = refreshed.attrs[a]
        \/ /\ action = "nothing"
           /\ ~refreshed.tainted
           /\ \A a \in DOMAIN config : config[a] = refreshed.attrs[a]
    BY <1>4 DEF Org!PlannedAction, Org!None, None
  <2>2. Agrees(refreshed, forces) => action = "nothing"
    BY <1>4 DEF Org!PlannedAction, Org!None, None, Agrees
  <2>3. QED BY <1>1, <1>4, <2>1, <2>2 DEF Begun
<1>5. QED BY <1>2, <1>3, <1>4

LEMMA OrgMerges ==
  ASSUME NEW model, NEW object
  PROVE  /\ Org!Decode(model, object) = Merged(model, object, Carried)
         /\ Org!Decoded(model, Org!Body(object)) = Merged(model, object, OrgNames)
BY DEF Org!Decode, Org!Decoded, Org!Body, Org!Fields, Merged, OrgNames

LEMMA OrgRefreshes ==
  ASSUME OrgInv
  PROVE  Refreshes(OrganizationIds, OrgNames, Org!Refreshed, Carried)
<1>1. OrgNames \cap Shown \subseteq Carried
  BY DEF Shown, OrgNames
<1>2. Carried \subseteq Shown
  BY StatefulAssumption DEF Shown
<1>3. CASE state = None \/ ~There(OrganizationIds, state.id)
  <2>1. Org!Refreshed = None
    BY <1>3, OrgWays DEF Org!Refreshed, Org!None, None
  <2>2. QED BY <1>3, <2>1 DEF Refreshes
<1>4. CASE state # None /\ There(OrganizationIds, state.id)
  <2>1. Org!Refreshed = [state EXCEPT !.attrs = Org!Decode(state.attrs, remote[state.id])]
    BY <1>4, OrgWays DEF Org!Refreshed, Org!None, None
  <2>2. Org!Refreshed =
          [state EXCEPT !.attrs = Merged(state.attrs, remote[state.id], Carried)]
    BY <2>1, OrgMerges
  <2>3. state \in Stored(OrganizationIds, Org!Attributes)
    BY <1>4 DEF OrgInv, KindInv, RunInv
  <2>4. Org!Refreshed # None
    BY <2>2, <2>3, UpdatedIsSome
  <2>5. QED BY <1>1, <1>2, <1>4, <2>2, <2>4 DEF Refreshes
<1>5. QED BY <1>3, <1>4

\* What is planned of an organization: it is in the plan of every operation.
LEMMA OrgPlan ==
  ASSUME OrgInv, pc \in {"create", "update"}
  PROVE  /\ plan = Proposal(Org!Attributes)
         /\ plan \in [Org!Attributes -> Values \cup {Null, Unknown}]
         /\ plan["state"] = Unknown
<1>1. plan = Proposal(Org!Attributes) /\ config \in OrganizationConfigs
  BY DEF OrgInv, KindInv, RunInv
<1>2. /\ plan \in [Org!Attributes -> Values \cup {Null, Unknown}]
      /\ \A a \in Org!Attributes \ OrgNames : plan[a] = Unknown
  BY <1>1, OrgIsKind, ProposalFacts
<1>3. "state" \in Org!Attributes \ OrgNames
  BY DEF Org!Attributes, OrgNames
<1>4. QED BY <1>1, <1>2, <1>3

\* An organization that took a body, and what its answer makes of the plan.
LEMMA OrgAnswers ==
  ASSUME NEW before \in Known(Org!Attributes),
         NEW planned \in [Org!Attributes -> Values \cup {Null, Unknown}],
         planned["state"] = Unknown,
         NEW object, object = Org!Decoded(before, Org!Body(planned))
  PROVE  /\ object \in Known(Org!Attributes)
         /\ \A a \in Org!Attributes : before[a] # Null => object[a] # Null
         /\ Org!Decode(planned, object)
              \in [Org!Attributes -> Values \cup {Null, Unknown, "active"}]
         /\ Faithful(Org!Decode(planned, object), object, OrgNames)
<1>1. object = Merged(before, planned, OrgNames)
  BY OrgMerges
<1>2. Org!Decode(planned, object) = Merged(planned, object, Carried)
  BY OrgMerges
<1>3. OrgNames \subseteq Org!Attributes /\ Org!Attributes = OrgNames \cup {"state"}
  BY DEF OrgNames, Org!Attributes
<1>4. object \in Known(Org!Attributes)
  BY <1>1, Sends
<1>5. \A a \in Org!Attributes : before[a] # Null => object[a] # Null
  BY <1>1, Sends
<1>6. \A a \in Org!Attributes : a \in OrgNames /\ planned[a] \notin {Null, Unknown}
        => object[a] # Null
  BY <1>1, Sends
<1>7. \A a \in Org!Attributes \ {"credentials"} :
        planned[a] \notin {Null, Unknown} => object[a] # Null
  BY <1>3, <1>6
<1>8. \A a \in OrgNames \cap Shown : a \in Carried
  BY DEF Shown, OrgNames
<1>9. /\ Merged(planned, object, Carried)
           \in [Org!Attributes -> Values \cup {Null, Unknown, "active"}]
      /\ Faithful(Merged(planned, object, Carried), object, OrgNames)
  <2>1. OrgNames \subseteq Org!Attributes
    BY <1>3
  <2>2. QED BY <1>4, <1>7, <1>8, <2>1, Answers
<1>10. QED BY <1>2, <1>4, <1>5, <1>9

LEMMA OrgCreateStep ==
  ASSUME OrgInv, Org!Create
  PROVE  OrgInv'
<1> DEFINE object == Org!Decoded(Org!NewObject, Org!Body(plan))
           attrs == Org!Decode(plan, object)
<1>1. pc = "create" /\ going' = going
  BY DEF Org!Create
<1>2. PICK id \in OrganizationIds : Org!Free(id) /\ Org!Created(id, object, id, attrs)
  BY DEF Org!Create
<1>3. Org!NewObject \in Known(Org!Attributes)
  BY DEF Org!NewObject, Known, Org!Attributes
<1>4. /\ object \in Known(Org!Attributes)
      /\ attrs \in [Org!Attributes -> Values \cup {Null, Unknown, "active"}]
      /\ Faithful(attrs, object, OrgNames)
  BY <1>1, <1>3, OrgPlan, OrgAnswers
<1> HIDE DEF object, attrs
<1>5. ~There(OrganizationIds, id)
  BY <1>2, OrgWays DEF Org!Free
<1>6. /\ remote' = [remote EXCEPT ![id] = object]
      /\ stray' = IF state' # None /\ state'.id = id THEN stray \ {id}
                  ELSE IF lastRun' = "error" THEN stray \cup {id}
                  ELSE stray
      /\ UNCHANGED <<config, calm, changes>>
      /\ Org!Settle(id, attrs) \/ (Org!Finish("error") /\ UNCHANGED state)
  BY <1>2 DEF Org!Created, Org!None, None
<1>7. Settled(id, attrs) \/ Errs
  BY <1>6, OrgSettles, OrgWays
<1>8. KindInv(OrganizationIds, Org!Attributes, OrgNames, OrganizationConfigs)'
  BY <1>1, <1>4, <1>5, <1>6, <1>7, OrgIsKind, Creates DEF OrgInv
<1>9. QED BY <1>1, <1>8 DEF OrgInv

LEMMA OrgUpdateStep ==
  ASSUME OrgInv, Org!Update
  PROVE  OrgInv'
<1> DEFINE object == Org!Decoded(remote[state.id], Org!Body(plan))
           attrs == Org!Decode(plan, object)
<1>1. /\ pc = "update" /\ There(OrganizationIds, state.id)
      /\ remote' = [remote EXCEPT ![state.id] = object]
      /\ UNCHANGED <<config, calm, stray, changes, going>>
      /\ \/ Org!Settle(state.id, Org!Decode(plan, remote'[state.id]))
         \/ Org!Finish("error") /\ UNCHANGED state
  BY OrgWays DEF Org!Update
<1>2. remote[state.id] \in Known(Org!Attributes) /\ remote'[state.id] = object
  BY <1>1 DEF OrgInv, KindInv, StoreInv, There
<1>3. Org!Settle(state.id, attrs) \/ (Org!Finish("error") /\ UNCHANGED state)
  BY <1>1, <1>2
<1>4. /\ object \in Known(Org!Attributes)
      /\ \A a \in Org!Attributes : remote[state.id][a] # Null => object[a] # Null
      /\ attrs \in [Org!Attributes -> Values \cup {Null, Unknown, "active"}]
      /\ Faithful(attrs, object, OrgNames)
  BY <1>1, <1>2, OrgPlan, OrgAnswers
<1> HIDE DEF object, attrs
<1>5. Settled(state.id, attrs) \/ Errs
  BY <1>1, <1>3, OrgSettles, OrgWays
<1>6. KindInv(OrganizationIds, Org!Attributes, OrgNames, OrganizationConfigs)'
  BY <1>1, <1>4, <1>5, OrgIsKind, Writes DEF OrgInv
<1>7. QED BY <1>1, <1>6 DEF OrgInv

LEMMA OrgStartStep ==
  ASSUME OrgInv, Org!Start
  PROVE  OrgInv'
<1>1. Org!StartRun(Org!Refreshed, Org!Attributes, {}) /\ going' = going
  BY DEF Org!Start
<1>2. Begun(Org!Refreshed, Org!Attributes)
  BY <1>1, OrgBegins
<1>3. KindInv(OrganizationIds, Org!Attributes, OrgNames, OrganizationConfigs)'
  BY <1>1, <1>2, OrgRefreshes, OrgIsKind, Begins DEF OrgInv
<1>4. QED BY <1>1, <1>3 DEF OrgInv

LEMMA OrgDeleteStep ==
  ASSUME OrgInv, Org!Delete
  PROVE  OrgInv'
<1>1. /\ pc = "delete"
      /\ going' = IF There(OrganizationIds, state.id) THEN going \cup {state.id} ELSE going
      /\ UNCHANGED <<config, remote, stray, changes, calm>>
      /\ Org!Dropped \/ (Org!Finish("error") /\ UNCHANGED state)
  BY OrgWays DEF Org!Delete, Org!nc2Vars
<1>2. going \subseteq going' /\ going' \subseteq OrganizationIds
  BY <1>1 DEF OrgInv, There
<1>3. CASE Org!Dropped
  <2>1. Leaves
    BY <1>1, <1>3, OrgWays
  <2>2. There(OrganizationIds, state.id) => state.id \in stray' \cup going'
    BY <1>1
  <2>3. stray \subseteq stray' /\ stray' \subseteq OrganizationIds
    BY <1>1 DEF OrgInv, KindInv, StoreInv
  <2>4. KindInv(OrganizationIds, Org!Attributes, OrgNames, OrganizationConfigs)'
    BY <1>1, <1>2, <2>1, <2>2, <2>3, OrgIsKind, Departs DEF OrgInv
  <2>5. QED BY <1>2, <2>4 DEF OrgInv
<1>4. CASE Org!Finish("error") /\ UNCHANGED state
  <2>1. Errs
    BY <1>1, <1>4, OrgWays
  <2>2. RunInv(OrganizationIds, Org!Attributes, OrganizationConfigs)'
    BY <2>1, ErrsRun DEF OrgInv, KindInv
  <2>3. state' = state /\ lastRun' = "error"
    BY <2>1 DEF Errs
  <2>4. KindInv(OrganizationIds, Org!Attributes, OrgNames, OrganizationConfigs)'
    BY <1>1, <1>2, <2>2, <2>3, Quiet DEF OrgInv
  <2>5. QED BY <1>2, <2>4 DEF OrgInv
<1>5. QED BY <1>1, <1>3, <1>4

\* Steps that touch neither the state nor NC2.
LEMMA OrgQuietStep ==
  ASSUME OrgInv, UNCHANGED going,
         Org!NotFound \/ Org!Fail \/ Org!EditConfig \/ Org!Stabilize
  PROVE  OrgInv'
<1>1. UNCHANGED <<state, remote, stray, calm, changes>>
  BY DEF Org!NotFound, Org!Fail, Org!EditConfig, Org!Stabilize, Org!nc2Vars
<1>2. CASE Org!NotFound \/ Org!Fail
  <2>1. Errs
    BY <1>2, OrgWays DEF Org!NotFound, Org!Fail
  <2>2. RunInv(OrganizationIds, Org!Attributes, OrganizationConfigs)' /\ lastRun' = "error"
    BY <2>1, ErrsRun DEF OrgInv, KindInv, Errs
  <2>3. QED BY <1>1, <2>2, Quiet DEF OrgInv
<1>3. CASE Org!EditConfig
  <2>1. /\ pc = "idle" /\ UNCHANGED <<state, plan, pc>>
        /\ config' \in OrganizationConfigs \cup {None} /\ lastRun' = "none"
    BY <1>3 DEF Org!EditConfig, Org!None, None
  <2>2. RunInv(OrganizationIds, Org!Attributes, OrganizationConfigs)'
    BY <2>1, EditedRun DEF OrgInv, KindInv
  <2>3. QED BY <1>1, <2>1, <2>2, Quiet DEF OrgInv
<1>4. CASE Org!Stabilize
  <2>1. UNCHANGED <<config, state, plan, pc, lastRun>>
    BY <1>4 DEF Org!Stabilize
  <2>2. RunInv(OrganizationIds, Org!Attributes, OrganizationConfigs)'
    BY <2>1, SameRun DEF OrgInv, KindInv
  <2>3. QED BY <1>1, <2>1, <2>2, Quiet DEF OrgInv
<1>5. QED BY <1>2, <1>3, <1>4

\* What an import reads.
LEMMA OrgReads ==
  ASSUME NEW object \in Known(Org!Attributes)
  PROVE  /\ Org!Decode([a \in Org!Attributes |-> Null], object) \in Known(Org!Attributes)
         /\ \A a \in Org!Attributes :
              Org!Decode([b \in Org!Attributes |-> Null], object)[a] # Null => object[a] # Null
<1> DEFINE empty == [a \in Org!Attributes |-> Null]
<1>1. Org!Decode(empty, object) = Merged(empty, object, Carried)
  BY OrgMerges
<1>2. DOMAIN object = Org!Attributes
  BY DEF Known
<1>3. QED BY <1>1, <1>2 DEF Merged, Known

LEMMA OrgImportStep ==
  ASSUME OrgInv, NEW id \in OrganizationIds, Org!ImportState(id)
  PROVE  OrgInv'
<1> DEFINE attrs == Org!Decode([a \in Org!Attributes |-> Null], remote[id])
<1>1. /\ pc = "idle" /\ state = None /\ There(OrganizationIds, id)
      /\ state' = [id |-> id, attrs |-> attrs, tainted |-> FALSE]
      /\ stray' = stray \ {id} /\ lastRun' = "none" /\ calm' = TRUE
      /\ UNCHANGED <<config, plan, pc, remote, changes, going>>
  BY OrgWays DEF Org!ImportState, Org!Import, Org!None, None
<1>2. remote[id] \in Known(Org!Attributes)
  BY <1>1 DEF OrgInv, KindInv, StoreInv, There
<1>3. /\ attrs \in Known(Org!Attributes)
      /\ \A a \in Org!Attributes : attrs[a] # Null => remote[id][a] # Null
  BY <1>2, OrgReads
<1> HIDE DEF attrs
<1>4. KindInv(OrganizationIds, Org!Attributes, OrgNames, OrganizationConfigs)'
  BY <1>1, <1>3, OrgIsKind, Imports DEF OrgInv
<1>5. QED BY <1>1, <1>4 DEF OrgInv

LEMMA OrgChangeStep ==
  ASSUME OrgInv, NEW id \in OrganizationIds,
         Org!ChangeOutside(id, {[remote[id] EXCEPT !["name"] = v] : v \in Values}),
         going' = IF remote'[id] = Org!None THEN going \ {id} ELSE going
  PROVE  OrgInv'
<1>1. /\ There(OrganizationIds, id) /\ changes < MaxChanges /\ changes' = changes + 1
      /\ calm' = FALSE
      /\ UNCHANGED <<config, state, plan, pc, lastRun>>
      /\ stray' = IF remote'[id] = None THEN stray \ {id} ELSE stray
      /\ going' = IF remote'[id] = None THEN going \ {id} ELSE going
  BY OrgWays DEF Org!ChangeOutside, Org!None, None
<1>2. PICK object \in {[remote[id] EXCEPT !["name"] = v] : v \in Values} \cup {None} :
        remote' = [remote EXCEPT ![id] = object]
  BY DEF Org!ChangeOutside, Org!None, None
<1>3. remote[id] \in Known(Org!Attributes) /\ remote'[id] = object
  BY <1>1, <1>2 DEF OrgInv, KindInv, StoreInv, There
<1>4. /\ object \in Known(Org!Attributes) \cup {None}
      /\ object # None => \A a \in Org!Attributes : remote[id][a] # Null => object[a] # Null
  <2>1. CASE object # None
    <3>1. PICK v \in Values : object = [remote[id] EXCEPT !["name"] = v]
      BY <1>2, <2>1
    <3>2. v \in Values /\ v # Null
      BY <3>1, Values3
    <3>3. remote[id] \in [Org!Attributes -> Values \cup {Null, "active"}]
      BY <1>3 DEF Known
    <3>4. object \in [Org!Attributes -> Values \cup {Null, "active"}]
      BY <3>1, <3>2, <3>3
    <3>5. \A a \in Org!Attributes : object[a] = IF a = "name" THEN v ELSE remote[id][a]
      BY <3>1, <3>3
    <3>6. QED BY <3>2, <3>4, <3>5 DEF Known
  <2>2. QED BY <2>1
<1>5. changes' \in 0..MaxChanges
  BY <1>1, StatefulAssumption DEF OrgInv, KindInv, StoreInv
<1>6. stray' \subseteq OrganizationIds /\ going' \subseteq OrganizationIds
  BY <1>1 DEF OrgInv, KindInv, StoreInv
<1>7. stray \cup going \subseteq stray' \cup going' \cup (IF object = None THEN {id} ELSE {})
  BY <1>1, <1>3
<1>8. KindInv(OrganizationIds, Org!Attributes, OrgNames, OrganizationConfigs)'
  <2>1. object # None =>
          \A a \in Org!Attributes \ {"credentials"} : remote[id][a] # Null => object[a] # Null
    BY <1>4
  <2>2. object \in Known(Org!Attributes) \cup {None}
    BY <1>4
  <2>3. /\ There(OrganizationIds, id) /\ calm' = FALSE
        /\ UNCHANGED <<config, state, plan, pc, lastRun>>
    BY <1>1
  <2>4. QED BY <1>2, <1>5, <1>6, <1>7, <2>1, <2>2, <2>3, OrgIsKind, Changes DEF OrgInv
<1>9. QED BY <1>6, <1>8 DEF OrgInv

LEMMA OrgTerminatedStep ==
  ASSUME OrgInv, NEW id \in OrganizationIds, Org!Terminated(id)
  PROVE  OrgInv'
<1>1. /\ id \in going /\ going' = going \ {id} /\ stray' = stray \ {id}
      /\ remote' = [remote EXCEPT ![id] = None]
      /\ calm' = (calm /\ ~(state # None /\ state.id = id))
      /\ UNCHANGED <<config, state, plan, pc, lastRun, changes>>
  BY DEF Org!Terminated, Org!None, None
<1>2. going' \subseteq OrganizationIds
  BY <1>1 DEF OrgInv
<1>3. CASE There(OrganizationIds, id)
  <2>1. stray \cup going \subseteq stray' \cup going' \cup (IF None = None THEN {id} ELSE {})
    BY <1>1
  <2>2. stray' \subseteq OrganizationIds /\ changes' \in 0..MaxChanges
    BY <1>1 DEF OrgInv, KindInv, StoreInv
  <2>3. calm' \in BOOLEAN /\ (calm' => calm /\ (state # None => state.id # id))
    BY <1>1
  <2>4. None \in Known(Org!Attributes) \cup {None}
    OBVIOUS
  <2>5. KindInv(OrganizationIds, Org!Attributes, OrgNames, OrganizationConfigs)'
    BY <1>1, <1>3, <2>1, <2>2, <2>3, <2>4, OrgIsKind, Changes DEF OrgInv
  <2>6. QED BY <1>2, <2>5 DEF OrgInv
<1>4. CASE ~There(OrganizationIds, id)
  <2>1. remote' = remote
    BY <1>1, <1>4 DEF OrgInv, KindInv, StoreInv, There
  <2>2. RunInv(OrganizationIds, Org!Attributes, OrganizationConfigs)'
    BY <1>1, SameRun DEF OrgInv, KindInv
  <2>3. StoreInv(OrganizationIds, Org!Attributes)'
    BY <1>1, <1>4, <2>1 DEF OrgInv, KindInv, StoreInv, There
  <2>4. DoneInv(OrganizationIds, OrgNames)'
    BY <1>1, <2>1 DEF OrgInv, KindInv, DoneInv, There
  <2>5. QED BY <1>2, <2>2, <2>3, <2>4 DEF OrgInv, KindInv
<1>5. QED BY <1>3, <1>4

\* Every step of an organization.
LEMMA OrgStep ==
  ASSUME OrgInv, Org!Run \/ Org!NC2 \/ Org!Interference \/ UNCHANGED resourceVars
  PROVE  OrgInv'
<1>1. CASE Org!Run
  BY <1>1, OrgStartStep, OrgCreateStep, OrgUpdateStep, OrgDeleteStep, OrgQuietStep DEF Org!Run
<1>2. CASE Org!NC2
  BY <1>2, OrgTerminatedStep DEF Org!NC2
<1>3. CASE Org!Interference
  BY <1>3, OrgImportStep, OrgChangeStep, OrgQuietStep DEF Org!Interference
<1>4. CASE UNCHANGED resourceVars
  <2>1. UNCHANGED <<config, state, plan, pc, remote, lastRun, calm, stray, changes, going>>
    BY <1>4 DEF resourceVars
  <2>2. RunInv(OrganizationIds, Org!Attributes, OrganizationConfigs)'
    BY <2>1, SameRun DEF OrgInv, KindInv
  <2>3. QED BY <2>1, <2>2, Quiet DEF OrgInv
<1>5. QED BY <1>1, <1>2, <1>3, <1>4

-----------------------------------------------------------------------------
(* The cloud account.                                                      *)

AccNames == {"organization_id", "name", "description", "credentials"}

\* An update stays in its organization, and before its read NC2 has what was
\* planned to be set.
AccInv ==
  /\ KindInv(AccountIds, Account!Attributes, AccNames, AccountConfigs)
  /\ going = {}
  /\ suspect \subseteq AccountIds
  /\ pc \in {"update", "patch", "refresh"} =>
       plan["organization_id"] = state.attrs["organization_id"]
  /\ pc = "refresh" /\ There(AccountIds, state.id) =>
       \A a \in {"name", "description"} : plan[a] # Null => remote[state.id][a] # Null

LEMMA AccIsKind == IsKind(AccountIds, Account!Attributes, AccNames, AccountConfigs)
BY StatefulAssumption DEF IsKind, AccNames, Account!Attributes, Account!Settable

LEMMA AccWays ==
  /\ \A id : Account!Exists(id) = There(AccountIds, id)
  /\ Account!Finish("error") /\ UNCHANGED <<config, state>> => Errs
  /\ Account!Dropped /\ pc = "delete" /\ UNCHANGED config => Leaves
<1>1. \A id : Account!Exists(id) = There(AccountIds, id)
  BY DEF Account!Exists, There, Account!None, None
<1>2. Account!Finish("error") /\ UNCHANGED <<config, state>> => Errs
  BY DEF Account!Finish, Account!None, None, Errs
<1>3. Account!Dropped /\ pc = "delete" /\ UNCHANGED config => Leaves
  BY DEF Account!Dropped, Account!Finish, Account!None, None, Leaves
<1>4. QED BY <1>1, <1>2, <1>3

LEMMA AccSettles ==
  ASSUME NEW id, NEW attrs, Account!Settle(id, attrs), UNCHANGED config
  PROVE  Settled(id, attrs)
BY DEF Account!Settle, Account!Finish, Account!None, None, Settled

LEMMA AccBegins ==
  ASSUME NEW refreshed, NEW forces,
         Account!StartRun(refreshed, Account!Attributes, forces)
  PROVE  /\ Begun(refreshed, Account!Attributes)
         /\ pc' = "update" => \A a \in forces : config[a] = refreshed.attrs[a]
         /\ Agrees(refreshed, forces) => pc' = "idle"
<1> DEFINE action == Account!PlannedAction(refreshed, forces)
<1>1. /\ pc = "idle" /\ state' = refreshed
      /\ pc' = CASE action = "nothing" -> "idle"
                 [] action = "replace" -> "delete"
                 [] OTHER -> action
      /\ plan' = IF action \in {"nothing", "delete"} THEN None ELSE Proposal(Account!Attributes)
      /\ lastRun' = IF action = "nothing" THEN "ok" ELSE "none"
      /\ calm' = TRUE
      /\ UNCHANGED <<config, remote, stray, changes>>
  BY DEF Account!StartRun, Account!None, None, Account!Proposed, Proposal, Account!nc2Vars
<1>2. CASE refreshed = None
  <2>1. action = IF config = None THEN "nothing" ELSE "create"
    BY <1>2 DEF Account!PlannedAction, Account!None, None
  <2>2. QED BY <1>1, <1>2, <2>1 DEF Begun, Agrees
<1>3. CASE refreshed # None /\ config = None
  <2>1. action = "delete"
    BY <1>3 DEF Account!PlannedAction, Account!None, None
  <2>2. QED BY <1>1, <1>3, <2>1 DEF Begun, Agrees
<1>4. CASE refreshed # None /\ config # None
  <2>1. \/ action = "replace"
        \/ action = "update" /\ \A a \in forces : config[a] = refreshed.attrs[a]
        \/ /\ action = "nothing"
           /\ ~refreshed.tainted
           /\ \A a \in DOMAIN config : config[a] = refreshed.attrs[a]
    BY <1>4 DEF Account!PlannedAction, Account!None, None
  <2>2. Agrees(refreshed, forces) => action = "nothing"
    BY <1>4 DEF Account!PlannedAction, Account!None, None, Agrees
  <2>3. QED BY <1>1, <1>4, <2>1, <2>2 DEF Begun
<1>5. QED BY <1>2, <1>3, <1>4

LEMMA AccMerges ==
  ASSUME NEW model, NEW object
  PROVE  /\ Account!Decode(model, object) = Merged(model, object, Carried)
         /\ Account!Decoded(model, Account!CreateBody(object)) =
              Merged(model, object, Account!Settable)
         /\ Account!Decoded(model, Account!Fields(object, {"name", "description"})) =
              Merged(model, object, {"name", "description"})
BY DEF Account!Decode, Account!Decoded, Account!CreateBody, Account!Fields, Merged

LEMMA AccRefreshes ==
  ASSUME AccInv
  PROVE  Refreshes(AccountIds, AccNames, Account!Refreshed, Carried)
<1>1. AccNames \cap Shown \subseteq Carried
  BY DEF Shown, AccNames
<1>2. Carried \subseteq Shown
  BY StatefulAssumption DEF Shown
<1>3. CASE state = None \/ ~There(AccountIds, state.id)
  <2>1. Account!Refreshed = None
    BY <1>3, AccWays DEF Account!Refreshed, Account!None, None
  <2>2. QED BY <1>3, <2>1 DEF Refreshes
<1>4. CASE state # None /\ There(AccountIds, state.id)
  <2>1. Account!Refreshed =
          [state EXCEPT !.attrs = Account!Decode(state.attrs, remote[state.id])]
    BY <1>4, AccWays DEF Account!Refreshed, Account!None, None
  <2>2. Account!Refreshed =
          [state EXCEPT !.attrs = Merged(state.attrs, remote[state.id], Carried)]
    BY <2>1, AccMerges
  <2>3. state \in Stored(AccountIds, Account!Attributes)
    BY <1>4 DEF AccInv, KindInv, RunInv
  <2>4. Account!Refreshed # None
    BY <2>2, <2>3, UpdatedIsSome
  <2>5. QED BY <1>1, <1>2, <1>4, <2>2, <2>4 DEF Refreshes
<1>5. QED BY <1>3, <1>4

\* What is planned of an account: it is in the plan of every operation.
LEMMA AccPlan ==
  ASSUME AccInv, pc \in {"create", "update", "patch", "refresh"}
  PROVE  /\ plan = Proposal(Account!Attributes)
         /\ plan \in [Account!Attributes -> Values \cup {Null, Unknown}]
         /\ plan["state"] = Unknown
         /\ \A a \in AccNames : plan[a] \in Values \cup {Null} /\ plan[a] # Unknown
<1>1. plan = Proposal(Account!Attributes) /\ config \in AccountConfigs
  BY DEF AccInv, KindInv, RunInv
<1>2. /\ plan \in [Account!Attributes -> Values \cup {Null, Unknown}]
      /\ \A a \in AccNames : plan[a] = config[a] /\ config[a] # Unknown
      /\ \A a \in Account!Attributes \ AccNames : plan[a] = Unknown
  BY <1>1, AccIsKind, ProposalFacts
<1>3. "state" \in Account!Attributes \ AccNames /\ AccNames \subseteq Account!Attributes
  BY DEF Account!Attributes, Account!Settable, AccNames
<1>4. QED BY <1>1, <1>2, <1>3

\* What the answer makes of the plan, when the account has what was planned.
LEMMA AccAnswers ==
  ASSUME NEW planned \in [Account!Attributes -> Values \cup {Null, Unknown}],
         planned["state"] = Unknown,
         NEW object \in Known(Account!Attributes),
         \A a \in AccNames \ {"credentials"} :
           planned[a] \notin {Null, Unknown} => object[a] # Null
  PROVE  /\ Account!Decode(planned, object)
              \in [Account!Attributes -> Values \cup {Null, Unknown, "active"}]
         /\ Faithful(Account!Decode(planned, object), object, AccNames)
<1>1. Account!Decode(planned, object) = Merged(planned, object, Carried)
  BY AccMerges
<1>2. AccNames \subseteq Account!Attributes /\ Account!Attributes = AccNames \cup {"state"}
  BY DEF AccNames, Account!Attributes, Account!Settable
<1>3. \A a \in Account!Attributes \ {"credentials"} :
        planned[a] \notin {Null, Unknown} => object[a] # Null
  BY <1>2
<1>4. \A a \in AccNames \cap Shown : a \in Carried \/ planned[a] = object[a]
  BY DEF Shown, AccNames
<1>5. AccNames \subseteq Account!Attributes
  BY <1>2
<1>6. QED BY <1>1, <1>3, <1>4, <1>5, Answers

\* A new account has all that was planned to be set.
LEMMA AccNew ==
  ASSUME NEW planned \in [Account!Attributes -> Values \cup {Null, Unknown}],
         planned["organization_id"] \in Values \cup {Null},
         NEW object,
         object = Account!Decoded(Account!NewObject(planned["organization_id"]),
                                  Account!CreateBody(planned))
  PROVE  /\ object \in Known(Account!Attributes)
         /\ \A a \in AccNames : planned[a] \notin {Null, Unknown} => object[a] # Null
         /\ planned["credentials"] # Unknown => object["credentials"] = planned["credentials"]
<1> DEFINE new == Account!NewObject(planned["organization_id"])
<1>1. /\ new \in Known(Account!Attributes)
      /\ new["organization_id"] = planned["organization_id"]
      /\ new["credentials"] = Null
  BY DEF Account!NewObject, Known, Account!Attributes, Account!Settable
<1>2. object = Merged(new, planned, Account!Settable)
  BY AccMerges
<1> HIDE DEF new
<1>3. /\ object \in Known(Account!Attributes)
      /\ \A a \in Account!Attributes : new[a] # Null => object[a] # Null
      /\ \A a \in Account!Attributes :
           a \in Account!Settable /\ planned[a] \notin {Null, Unknown} => object[a] # Null
  <2> DEFINE merged == Merged(new, planned, Account!Settable)
  <2>1. new \in Known(Account!Attributes)
    BY <1>1
  <2>2. /\ merged \in Known(Account!Attributes)
        /\ \A a \in Account!Attributes : new[a] # Null => merged[a] # Null
        /\ \A a \in Account!Attributes :
             a \in Account!Settable /\ planned[a] \notin {Null, Unknown} => merged[a] # Null
    BY <2>1, Sends
  <2>3. QED BY <1>2, <2>2
<1>4. /\ AccNames \subseteq Account!Attributes
      /\ AccNames = Account!Settable \cup {"organization_id"}
      /\ "credentials" \in Account!Settable /\ "credentials" \in Account!Attributes
  BY DEF AccNames, Account!Attributes, Account!Settable
<1>5. DOMAIN new = Account!Attributes /\ DOMAIN planned = Account!Attributes
  BY <1>1 DEF Known
<1>6. planned["credentials"] # Unknown => object["credentials"] = planned["credentials"]
  BY <1>1, <1>2, <1>4, <1>5 DEF Merged
<1>7. \A a \in AccNames : planned[a] \notin {Null, Unknown} => object[a] # Null
  BY <1>1, <1>3, <1>4
<1>8. QED BY <1>3, <1>6, <1>7

\* NC2 has the credentials of the state, unless others may have been set; an
\* update that has rotated them may end without the state knowing of it.
CredInv ==
  /\ state # None /\ There(AccountIds, state.id) =>
       \/ state.id \in suspect
       \/ remote[state.id]["credentials"] = state.attrs["credentials"]
  /\ /\ pc \in {"patch", "refresh"}
     /\ There(AccountIds, state.id)
     /\ state.attrs["credentials"] # plan["credentials"]
     => /\ state.id \in suspect
        /\ calm => remote[state.id]["credentials"] = plan["credentials"]

LEMMA AccStartStep ==
  ASSUME AccInv, CredInv, Account!Start, UNCHANGED going
  PROVE  AccInv' /\ CredInv'
<1> DEFINE refreshed == Account!Refreshed
<1>1. Account!StartRun(refreshed, Account!Attributes, Account!ForcesReplace)
      /\ suspect' = suspect
  BY DEF Account!Start
<1>2. Refreshes(AccountIds, AccNames, refreshed, Carried)
  BY AccRefreshes
<1> HIDE DEF refreshed
<1>3. /\ Begun(refreshed, Account!Attributes)
      /\ pc' = "update" => config["organization_id"] = refreshed.attrs["organization_id"]
  BY <1>1, AccBegins DEF Account!ForcesReplace
<1>4. KindInv(AccountIds, Account!Attributes, AccNames, AccountConfigs)'
  BY <1>2, <1>3, AccIsKind, Begins DEF AccInv
<1>5. state' = refreshed /\ config' = config /\ remote' = remote
  BY <1>3 DEF Begun
<1>6. pc' \in {"idle", "create", "update", "delete"}
  BY <1>3 DEF Begun
<1>7. ASSUME pc' = "update"
      PROVE  plan'["organization_id"] = state'.attrs["organization_id"]
  <2>1. plan' = Proposal(Account!Attributes) /\ config # None /\ config \in AccountConfigs
    BY <1>3, <1>7 DEF Begun, AccInv, KindInv, RunInv
  <2>2. plan'["organization_id"] = config["organization_id"]
    BY <2>1, AccIsKind, ProposalFacts DEF AccNames
  <2>3. QED BY <1>3, <1>5, <1>7, <2>2
<1>8. AccInv'
  BY <1>1, <1>4, <1>6, <1>7 DEF AccInv
<1>9. CredInv'
  <2>1. ASSUME refreshed # None
        PROVE  /\ There(AccountIds, state.id) /\ refreshed.id = state.id /\ state # None
               /\ refreshed.attrs["credentials"] = state.attrs["credentials"]
    <3>1. "credentials" \in Account!Attributes
      BY DEF Account!Attributes, Account!Settable
    <3>2. "credentials" \notin Carried
      BY StatefulAssumption
    <3>3. KindInv(AccountIds, Account!Attributes, AccNames, AccountConfigs)
      BY DEF AccInv
    <3>4. QED BY <1>2, <2>1, <3>1, <3>2, <3>3, AccIsKind, RefreshedFacts
  <2>2. QED BY <1>1, <1>5, <1>6, <2>1 DEF CredInv, There
<1>10. QED BY <1>8, <1>9

LEMMA AccCreateStep ==
  ASSUME AccInv, Account!Create, UNCHANGED going
  PROVE  AccInv' /\ CredInv'
<1> DEFINE object == Account!Decoded(Account!NewObject(plan["organization_id"]),
                                     Account!CreateBody(plan))
           attrs == Account!Decode(plan, object)
<1>1. pc = "create"
  BY DEF Account!Create
<1>2. PICK id \in AccountIds, answer \in CreateAnswers \ {"rows"} :
        /\ Account!Free(id)
        /\ IF answer = "task" THEN Account!Created(id, object, TaskId, plan)
           ELSE Account!Created(id, object, id, attrs)
        /\ suspect' = suspect \ {id}
  BY DEF Account!Create
<1>3. /\ plan \in [Account!Attributes -> Values \cup {Null, Unknown}]
      /\ plan["state"] = Unknown
      /\ \A a \in AccNames : plan[a] \in Values \cup {Null} /\ plan[a] # Unknown
  BY <1>1, AccPlan
<1>4. /\ object \in Known(Account!Attributes)
      /\ \A a \in AccNames : plan[a] \notin {Null, Unknown} => object[a] # Null
      /\ object["credentials"] = plan["credentials"]
  BY <1>3, AccNew DEF AccNames
<1>5. attrs["credentials"] = plan["credentials"]
  <2>1. attrs = Merged(plan, object, Carried)
    BY AccMerges
  <2>2. "credentials" \in DOMAIN plan
    BY <1>3 DEF Account!Attributes, Account!Settable
  <2>3. "credentials" \notin Carried
    BY StatefulAssumption
  <2>4. QED BY <2>1, <2>2, <2>3 DEF Merged
<1> HIDE DEF object
<1>6. /\ attrs \in [Account!Attributes -> Values \cup {Null, Unknown, "active"}]
      /\ Faithful(attrs, object, AccNames)
  BY <1>3, <1>4, AccAnswers
<1> HIDE DEF attrs
<1>7. ~There(AccountIds, id)
  BY <1>2, AccWays DEF Account!Free
<1>8. /\ remote' = [remote EXCEPT ![id] = object]
      /\ stray' = IF state' # None /\ state'.id = id THEN stray \ {id}
                  ELSE IF lastRun' = "error" THEN stray \cup {id}
                  ELSE stray
      /\ UNCHANGED <<config, calm, changes>>
      /\ \/ Account!Finish("error") /\ UNCHANGED state
         \/ Account!Settle(id, attrs)
         \/ answer = "task" /\ Account!Settle(TaskId, plan)
  BY <1>2 DEF Account!Created, Account!None, None
<1>9. Errs \/ Settled(id, attrs) \/ (answer = "task" /\ Settled(TaskId, plan))
  BY <1>8, AccSettles, AccWays
<1>10. ASSUME answer = "task", Settled(TaskId, plan)
       PROVE  /\ plan \in [Account!Attributes -> Values \cup {Null, Unknown, "active"}]
              /\ TaskId \in (AccountIds \cup {TaskId}) \ {id}
              /\ lastRun' # "ok"
              /\ "task" \in CreateAnswers
  <2>1. "state" \in DOMAIN plan
    BY <1>3 DEF Account!Attributes
  <2>2. lastRun' # "ok"
    BY <1>3, <1>10, <2>1 DEF Settled
  <2>3. TaskId \notin AccountIds
    BY StatefulAssumption
  <2>4. QED BY <1>2, <1>3, <1>10, <2>2, <2>3
<1>11. KindInv(AccountIds, Account!Attributes, AccNames, AccountConfigs)'
  <2>1. KindInv(AccountIds, Account!Attributes, AccNames, AccountConfigs)
    BY DEF AccInv
  <2>2. \A a \in Account!Attributes \ {"credentials"} :
          There(AccountIds, id) /\ remote[id][a] # Null => object[a] # Null
    BY <1>7
  <2>3. UNCHANGED <<going, calm, changes>>
    BY <1>8
  <2>4. CASE Errs
    BY <1>1, <1>4, <1>8, <2>1, <2>2, <2>3, <2>4, AccIsKind, Creates
  <2>5. CASE Settled(id, attrs)
    BY <1>1, <1>4, <1>6, <1>8, <2>1, <2>2, <2>3, <2>5, AccIsKind, Creates
  <2>6. CASE answer = "task" /\ Settled(TaskId, plan)
    <3>1. \E a \in [Account!Attributes -> Values \cup {Null, Unknown, "active"}],
             other \in (AccountIds \cup {TaskId}) \ {id} :
            /\ Settled(other, a)
            /\ RowsNamed \/ other = TaskId => lastRun' # "ok"
            /\ IF other = TaskId THEN "task" \in CreateAnswers
               ELSE There(AccountIds, other) /\ Faithful(a, remote[other], AccNames)
      BY <1>10, <2>6
    <3>2. QED BY <1>1, <1>4, <1>8, <2>1, <2>2, <2>3, <3>1, AccIsKind, Creates
  <2>7. QED BY <1>9, <2>4, <2>5, <2>6
<1>12. pc' = "idle"
  BY <1>9 DEF Errs, Settled
<1>13. AccInv'
  BY <1>2, <1>11, <1>12 DEF AccInv
<1>14. CredInv'
  <2>1. state = None
    BY <1>1 DEF AccInv, KindInv, RunInv
  <2>2. CASE Errs
    BY <1>12, <2>1, <2>2 DEF CredInv, Errs
  <2>3. CASE Settled(id, attrs)
    <3>1. state'.id = id /\ state'.attrs["credentials"] = plan["credentials"]
      <4>1. "credentials" \in DOMAIN attrs
        BY <1>6 DEF Account!Attributes, Account!Settable
      <4>2. attrs["credentials"] # Unknown
        BY <1>3, <1>5 DEF AccNames
      <4>3. QED BY <1>5, <2>3, <4>1, <4>2 DEF Settled
    <3>2. remote'[id] = object
      BY <1>8 DEF AccInv, KindInv, StoreInv
    <3>3. QED BY <1>4, <1>12, <3>1, <3>2 DEF CredInv
  <2>4. CASE answer = "task" /\ Settled(TaskId, plan)
    <3>1. state'.id = TaskId /\ TaskId \notin AccountIds
      BY <2>4, StatefulAssumption DEF Settled
    <3>2. QED BY <1>12, <3>1 DEF CredInv, There
  <2>5. QED BY <1>9, <2>2, <2>3, <2>4
<1>15. QED BY <1>13, <1>14

\* The first request of an update.
LEMMA AccRotateStep ==
  ASSUME AccInv, CredInv, Account!Rotate, UNCHANGED going
  PROVE  AccInv' /\ CredInv'
<1>1. pc = "update" /\ UNCHANGED <<config, state, calm, stray, changes>>
  BY DEF Account!Rotate
<1>2. KindInv(AccountIds, Account!Attributes, AccNames, AccountConfigs)
  BY DEF AccInv
<1>3. plan["credentials"] \in Values \cup {Null}
  BY <1>1, AccPlan DEF AccNames
<1>4. CASE state.attrs["credentials"] = plan["credentials"]
  <2>1. /\ pc' = "patch" /\ UNCHANGED <<remote, suspect, plan, lastRun>>
    BY <1>4 DEF Account!Rotate, Account!MapsEqual
  <2>2. GoesOn
    BY <1>1, <2>1 DEF GoesOn
  <2>3. RunInv(AccountIds, Account!Attributes, AccountConfigs)'
    BY <1>2, <2>2, GoesOnRun DEF KindInv
  <2>4. KindInv(AccountIds, Account!Attributes, AccNames, AccountConfigs)'
    BY <1>1, <1>2, <2>1, <2>3, Quiet
  <2>5. AccInv'
    BY <1>1, <2>1, <2>4 DEF AccInv
  <2>6. CredInv'
    BY <1>1, <1>4, <2>1 DEF CredInv, There
  <2>7. QED BY <2>5, <2>6
<1>5. CASE state.attrs["credentials"] # plan["credentials"]
  <2> DEFINE object == [remote[state.id] EXCEPT !["credentials"] = plan["credentials"]]
  <2>1. /\ There(AccountIds, state.id)
        /\ remote' = [remote EXCEPT ![state.id] = object]
        /\ suspect' = suspect \cup {state.id}
        /\ \/ pc' = "patch" /\ UNCHANGED <<plan, lastRun>>
           \/ Account!Finish("error")
    BY <1>5, AccWays DEF Account!Rotate, Account!MapsEqual
  <2>2. /\ remote[state.id] \in Known(Account!Attributes)
        /\ remote \in [AccountIds -> Known(Account!Attributes) \cup {None}]
    BY <1>2, <2>1 DEF KindInv, StoreInv, There
  <2>3. /\ object \in Known(Account!Attributes)
        /\ object["credentials"] = plan["credentials"]
        /\ \A a \in Account!Attributes \ {"credentials"} : object[a] = remote[state.id][a]
    <3>1. "credentials" \in Account!Attributes
      BY DEF Account!Attributes, Account!Settable
    <3>2. QED BY <1>3, <2>2, <3>1 DEF Known
  <2> HIDE DEF object
  <2>4. Errs \/ GoesOn
    BY <1>1, <2>1, AccWays DEF GoesOn
  <2>5. KindInv(AccountIds, Account!Attributes, AccNames, AccountConfigs)'
    <3>1. pc \in {"update", "patch", "refresh"} /\ There(AccountIds, state.id)
      BY <1>1, <2>1
    <3>2. \A a \in Account!Attributes \ {"credentials"} :
            remote[state.id][a] # Null => object[a] # Null
      BY <2>3
    <3>3. object \in Known(Account!Attributes) /\ remote' = [remote EXCEPT ![state.id] = object]
      BY <2>1, <2>3
    <3>4. UNCHANGED <<stray, going, calm, changes>>
      BY <1>1
    <3>5. QED BY <1>2, <2>4, <3>1, <3>2, <3>3, <3>4, AccIsKind, Writes
  <2>6. remote'[state.id] = object /\ state.id \in AccountIds
    BY <2>1, <2>2 DEF There
  <2>7. \/ pc' = "patch" /\ plan' = plan
        \/ pc' = "idle"
    BY <2>1 DEF Account!Finish
  <2>8. AccInv'
    BY <1>1, <2>1, <2>5, <2>6, <2>7 DEF AccInv
  <2>9. CredInv'
    BY <1>1, <2>1, <2>3, <2>6, <2>7 DEF CredInv
  <2>10. QED BY <2>8, <2>9
<1>6. QED BY <1>4, <1>5

\* The second request of an update.
LEMMA AccPatchStep ==
  ASSUME AccInv, CredInv, Account!Patch, UNCHANGED going
  PROVE  AccInv' /\ CredInv'
<1>1. pc = "patch" /\ UNCHANGED <<config, state, calm, stray, changes, suspect>>
  BY DEF Account!Patch
<1>2. KindInv(AccountIds, Account!Attributes, AccNames, AccountConfigs)
  BY DEF AccInv
<1>3. /\ plan \in [Account!Attributes -> Values \cup {Null, Unknown}]
      /\ \A a \in AccNames : plan[a] \in Values \cup {Null} /\ plan[a] # Unknown
  BY <1>1, AccPlan
<1>4. "name" \in Account!Attributes /\ "description" \in Account!Attributes
      /\ "credentials" \in Account!Attributes /\ "name" \in AccNames /\ "description" \in AccNames
  BY DEF Account!Attributes, Account!Settable, AccNames
<1>5. CASE \A a \in {"name", "description"} : plan[a] = state.attrs[a]
  <2>1. pc' = "refresh" /\ UNCHANGED <<remote, plan, lastRun>>
    BY <1>5 DEF Account!Patch
  <2>2. GoesOn
    BY <1>1, <2>1 DEF GoesOn
  <2>3. RunInv(AccountIds, Account!Attributes, AccountConfigs)'
    BY <1>2, <2>2, GoesOnRun DEF KindInv
  <2>4. KindInv(AccountIds, Account!Attributes, AccNames, AccountConfigs)'
    BY <1>1, <1>2, <2>1, <2>3, Quiet
  <2>5. ASSUME There(AccountIds, state.id), NEW a \in {"name", "description"}, plan[a] # Null
        PROVE  remote[state.id][a] # Null
    <3>1. state # None
      BY <1>1, <1>2 DEF KindInv, RunInv
    <3>2. state.attrs[a] # Null /\ a \in Account!Attributes \ {"credentials"}
      BY <1>4, <1>5, <2>5
    <3>3. QED BY <1>2, <2>5, <3>1, <3>2 DEF KindInv, StoreInv
  <2>6. AccInv'
    BY <1>1, <2>1, <2>4, <2>5 DEF AccInv, There
  <2>7. CredInv'
    BY <1>1, <2>1 DEF CredInv, There
  <2>8. QED BY <2>6, <2>7
<1>6. CASE ~\A a \in {"name", "description"} : plan[a] = state.attrs[a]
  <2> DEFINE object == Merged(remote[state.id], plan, {"name", "description"})
  <2>1. /\ There(AccountIds, state.id)
        /\ remote' = [remote EXCEPT ![state.id] = Account!Decoded(remote[state.id],
                        Account!Fields(plan, {"name", "description"}))]
        /\ \/ pc' = "refresh" /\ UNCHANGED <<plan, lastRun>>
           \/ Account!Finish("error")
    BY <1>6, AccWays DEF Account!Patch
  <2>2. remote' = [remote EXCEPT ![state.id] = object]
    BY <2>1, AccMerges
  <2>3. /\ remote[state.id] \in Known(Account!Attributes)
        /\ remote \in [AccountIds -> Known(Account!Attributes) \cup {None}]
    BY <1>2, <2>1 DEF KindInv, StoreInv, There
  <2>4. /\ object \in Known(Account!Attributes)
        /\ \A a \in Account!Attributes : remote[state.id][a] # Null => object[a] # Null
        /\ \A a \in Account!Attributes :
             a \in {"name", "description"} /\ plan[a] \notin {Null, Unknown} => object[a] # Null
    <3>1. remote[state.id] \in Known(Account!Attributes)
      BY <2>3
    <3>2. plan \in [Account!Attributes -> Values \cup {Null, Unknown}]
      BY <1>3
    <3> DEFINE sent == {"name", "description"}
               written == Merged(remote[state.id], plan, sent)
    <3>3. written = object
      OBVIOUS
    <3> HIDE DEF sent
    <3>4. /\ written \in Known(Account!Attributes)
          /\ \A a \in Account!Attributes : remote[state.id][a] # Null => written[a] # Null
          /\ \A a \in Account!Attributes :
               a \in sent /\ plan[a] \notin {Null, Unknown} => written[a] # Null
      BY <3>1, <3>2, Sends
    <3> HIDE DEF written, object
    <3>5. QED BY <3>3, <3>4 DEF sent
  <2>5. object["credentials"] = remote[state.id]["credentials"]
    BY <1>4, <2>3 DEF Merged, Known
  <2> HIDE DEF object
  <2>6. Errs \/ GoesOn
    BY <1>1, <2>1, AccWays DEF GoesOn
  <2>7. KindInv(AccountIds, Account!Attributes, AccNames, AccountConfigs)'
    <3>1. pc \in {"update", "patch", "refresh"} /\ There(AccountIds, state.id)
      BY <1>1, <2>1
    <3>2. \A a \in Account!Attributes \ {"credentials"} :
            remote[state.id][a] # Null => object[a] # Null
      BY <2>4
    <3>3. object \in Known(Account!Attributes)
      BY <2>4
    <3>4. UNCHANGED <<stray, going, calm, changes>>
      BY <1>1
    <3>5. QED BY <1>2, <2>2, <2>6, <3>1, <3>2, <3>3, <3>4, AccIsKind, Writes
  <2>8. remote'[state.id] = object /\ state.id \in AccountIds
    BY <2>1, <2>2, <2>3 DEF There
  <2>9. \/ pc' = "refresh" /\ plan' = plan
        \/ pc' = "idle"
    BY <2>1 DEF Account!Finish
  <2>10. \A a \in {"name", "description"} : plan[a] # Null => object[a] # Null
    BY <1>3, <1>4, <2>4
  <2>11. AccInv'
    BY <1>1, <2>7, <2>8, <2>9, <2>10 DEF AccInv
  <2>12. CredInv'
    BY <1>1, <2>1, <2>5, <2>8, <2>9 DEF CredInv
  <2>13. QED BY <2>11, <2>12
<1>7. QED BY <1>5, <1>6

\* The read that ends an update.
LEMMA AccReadBackStep ==
  ASSUME AccInv, CredInv, Account!ReadBack, UNCHANGED going
  PROVE  AccInv' /\ CredInv'
<1> DEFINE attrs == Account!Decode(plan, remote[state.id])
<1>1. /\ pc = "refresh" /\ There(AccountIds, state.id)
      /\ suspect' = IF ~calm \/ state.attrs["credentials"] = plan["credentials"]
                      THEN suspect ELSE suspect \ {state.id}
      /\ Account!Settle(state.id, attrs)
      /\ UNCHANGED <<config, remote, stray, changes, calm>>
  BY AccWays DEF Account!ReadBack, Account!MapsEqual, Account!nc2Vars
<1>2. KindInv(AccountIds, Account!Attributes, AccNames, AccountConfigs)
  BY DEF AccInv
<1>3. /\ plan \in [Account!Attributes -> Values \cup {Null, Unknown}]
      /\ plan["state"] = Unknown
      /\ \A a \in AccNames : plan[a] \in Values \cup {Null} /\ plan[a] # Unknown
  BY <1>1, AccPlan
<1>4. /\ remote[state.id] \in Known(Account!Attributes)
      /\ remote \in [AccountIds -> Known(Account!Attributes) \cup {None}]
      /\ state.id \in AccountIds /\ state # None
  BY <1>1, <1>2 DEF KindInv, RunInv, StoreInv, There
<1>5. ASSUME NEW a \in AccNames \ {"credentials"}, plan[a] \notin {Null, Unknown}
      PROVE  remote[state.id][a] # Null
  <2>1. CASE a \in {"name", "description"}
    BY <1>1, <1>5, <2>1 DEF AccInv
  <2>2. CASE a = "organization_id"
    <3>1. state.attrs[a] # Null
      BY <1>1, <1>5, <2>2 DEF AccInv
    <3>2. a \in Account!Attributes \ {"credentials"}
      BY <2>2 DEF Account!Attributes
    <3>3. QED BY <1>1, <1>2, <1>4, <3>1, <3>2 DEF KindInv, StoreInv
  <2>3. QED BY <2>1, <2>2 DEF AccNames
<1>6. /\ attrs \in [Account!Attributes -> Values \cup {Null, Unknown, "active"}]
      /\ Faithful(attrs, remote[state.id], AccNames)
  BY <1>3, <1>4, <1>5, AccAnswers
<1>7. attrs["credentials"] = plan["credentials"]
  <2>1. attrs = Merged(plan, remote[state.id], Carried)
    BY AccMerges
  <2>2. "credentials" \in DOMAIN plan
    BY <1>3 DEF Account!Attributes, Account!Settable
  <2>3. "credentials" \notin Carried
    BY StatefulAssumption
  <2>4. QED BY <2>1, <2>2, <2>3 DEF Merged
<1> HIDE DEF attrs
<1>8. Settled(state.id, attrs)
  BY <1>1, AccSettles
<1>9. KindInv(AccountIds, Account!Attributes, AccNames, AccountConfigs)'
  <2>1. pc \in {"update", "patch", "refresh"} /\ There(AccountIds, state.id)
    BY <1>1
  <2>2. remote' = [remote EXCEPT ![state.id] = remote[state.id]]
    BY <1>1, <1>4
  <2>3. \A a \in Account!Attributes \ {"credentials"} :
          remote[state.id][a] # Null => remote[state.id][a] # Null
    OBVIOUS
  <2>4. UNCHANGED <<stray, going, calm, changes>>
    BY <1>1
  <2>5. \E a \in [Account!Attributes -> Values \cup {Null, Unknown, "active"}] :
          /\ pc # "patch"
          /\ Settled(state.id, a)
          /\ Faithful(a, remote[state.id], AccNames)
    BY <1>1, <1>6, <1>8
  <2>6. remote[state.id] \in Known(Account!Attributes)
    BY <1>4
  <2>7. QED BY <1>2, <2>1, <2>2, <2>3, <2>4, <2>5, <2>6, AccIsKind, Writes
<1>10. pc' = "idle" /\ state'.id = state.id /\ state'.attrs["credentials"] = plan["credentials"]
  <2>1. "credentials" \in DOMAIN attrs
    BY <1>6 DEF Account!Attributes, Account!Settable
  <2>2. attrs["credentials"] # Unknown
    BY <1>3, <1>7 DEF AccNames
  <2>3. QED BY <1>7, <1>8, <2>1, <2>2 DEF Settled
<1>11. AccInv'
  BY <1>1, <1>9, <1>10 DEF AccInv
<1>12. CredInv'
  BY <1>1, <1>4, <1>10 DEF CredInv
<1>13. QED BY <1>11, <1>12

\* The object remains, as a stray.
LEMMA AccDeleteStep ==
  ASSUME AccInv, CredInv, Account!Delete, UNCHANGED going
  PROVE  AccInv' /\ CredInv'
<1>1. /\ pc = "delete" /\ Account!Dropped
      /\ stray' = stray \cup {id \in {state.id} : There(AccountIds, id)}
      /\ UNCHANGED <<config, remote, calm, changes, suspect>>
  BY AccWays DEF Account!Delete
<1>2. Leaves
  BY <1>1, AccWays
<1>3. KindInv(AccountIds, Account!Attributes, AccNames, AccountConfigs)
  BY DEF AccInv
<1>4. /\ stray \subseteq stray' /\ stray' \subseteq AccountIds
      /\ There(AccountIds, state.id) => state.id \in stray' \cup going'
  BY <1>1, <1>3 DEF KindInv, StoreInv, There
<1>5. KindInv(AccountIds, Account!Attributes, AccNames, AccountConfigs)'
  BY <1>1, <1>2, <1>3, <1>4, AccIsKind, Departs
<1>6. state' = None /\ pc' \in {"idle", "create"}
  BY <1>2 DEF Leaves
<1>7. QED BY <1>1, <1>5, <1>6 DEF AccInv, CredInv

\* Steps that touch neither the state nor NC2.
LEMMA AccQuietStep ==
  ASSUME AccInv, CredInv, UNCHANGED <<going, suspect>>,
         Account!NotFound \/ Account!Fail \/ Account!EditConfig \/ Account!Stabilize
  PROVE  AccInv' /\ CredInv'
<1>1. UNCHANGED <<state, remote, stray, calm, changes>>
  BY DEF Account!NotFound, Account!Fail, Account!EditConfig, Account!Stabilize, Account!nc2Vars
<1>2. KindInv(AccountIds, Account!Attributes, AccNames, AccountConfigs)
  BY DEF AccInv
<1>3. CASE Account!NotFound \/ Account!Fail
  <2>1. Errs
    BY <1>3, AccWays DEF Account!NotFound, Account!Fail
  <2>2. /\ RunInv(AccountIds, Account!Attributes, AccountConfigs)'
        /\ lastRun' = "error" /\ pc' = "idle"
    BY <1>2, <2>1, ErrsRun DEF KindInv, Errs
  <2>3. KindInv(AccountIds, Account!Attributes, AccNames, AccountConfigs)'
    BY <1>1, <1>2, <2>2, Quiet
  <2>4. QED BY <1>1, <2>2, <2>3 DEF AccInv, CredInv, There
<1>4. CASE Account!EditConfig
  <2>1. /\ pc = "idle" /\ UNCHANGED <<state, plan, pc>>
        /\ config' \in AccountConfigs \cup {None} /\ lastRun' = "none"
    BY <1>4 DEF Account!EditConfig, Account!None, None
  <2>2. RunInv(AccountIds, Account!Attributes, AccountConfigs)'
    BY <1>2, <2>1, EditedRun DEF KindInv
  <2>3. KindInv(AccountIds, Account!Attributes, AccNames, AccountConfigs)'
    BY <1>1, <1>2, <2>1, <2>2, Quiet
  <2>4. QED BY <1>1, <2>1, <2>3 DEF AccInv, CredInv, There
<1>5. CASE Account!Stabilize
  <2>1. UNCHANGED <<config, state, plan, pc, lastRun>>
    BY <1>5 DEF Account!Stabilize
  <2>2. RunInv(AccountIds, Account!Attributes, AccountConfigs)'
    BY <1>2, <2>1, SameRun DEF KindInv
  <2>3. KindInv(AccountIds, Account!Attributes, AccNames, AccountConfigs)'
    BY <1>1, <1>2, <2>1, <2>2, Quiet
  <2>4. QED BY <1>1, <2>1, <2>3 DEF AccInv, CredInv, There
<1>6. QED BY <1>3, <1>4, <1>5

LEMMA AccReads ==
  ASSUME NEW object \in Known(Account!Attributes)
  PROVE  /\ Account!Decode([a \in Account!Attributes |-> Null], object)
              \in Known(Account!Attributes)
         /\ \A a \in Account!Attributes :
              Account!Decode([b \in Account!Attributes |-> Null], object)[a] # Null
                => object[a] # Null
<1> DEFINE empty == [a \in Account!Attributes |-> Null]
<1>1. Account!Decode(empty, object) = Merged(empty, object, Carried)
  BY AccMerges
<1>2. DOMAIN object = Account!Attributes
  BY DEF Known
<1>3. QED BY <1>1, <1>2 DEF Merged, Known

LEMMA AccImportStep ==
  ASSUME AccInv, CredInv, NEW id \in AccountIds, Account!ImportState(id), UNCHANGED going
  PROVE  AccInv' /\ CredInv'
<1> DEFINE attrs == Account!Decode([a \in Account!Attributes |-> Null], remote[id])
<1>1. /\ pc = "idle" /\ state = None /\ There(AccountIds, id)
      /\ state' = [id |-> id, attrs |-> attrs, tainted |-> FALSE]
      /\ stray' = stray \ {id} /\ lastRun' = "none" /\ calm' = TRUE
      /\ UNCHANGED <<config, plan, pc, remote, changes, going>>
      /\ suspect' = suspect \cup {id}
  BY AccWays DEF Account!ImportState, Account!Import, Account!None, None
<1>2. KindInv(AccountIds, Account!Attributes, AccNames, AccountConfigs)
  BY DEF AccInv
<1>3. remote[id] \in Known(Account!Attributes)
  BY <1>1, <1>2 DEF KindInv, StoreInv, There
<1>4. /\ attrs \in Known(Account!Attributes)
      /\ \A a \in Account!Attributes : attrs[a] # Null => remote[id][a] # Null
  BY <1>3, AccReads
<1> HIDE DEF attrs
<1>5. KindInv(AccountIds, Account!Attributes, AccNames, AccountConfigs)'
  BY <1>1, <1>2, <1>4, AccIsKind, Imports
<1>6. state'.id = id
  BY <1>1
<1>7. QED BY <1>1, <1>5, <1>6 DEF AccInv, CredInv

LEMMA AccChangeStep ==
  ASSUME AccInv, CredInv, NEW id \in AccountIds,
         Account!ChangeOutside(id, Account!Outside(remote[id])), UNCHANGED going,
         suspect' = IF remote'[id] = Account!None THEN suspect \ {id}
                    ELSE IF remote'[id]["credentials"] = remote[id]["credentials"]
                      THEN suspect
                    ELSE suspect \cup {id}
  PROVE  AccInv' /\ CredInv'
<1>1. /\ There(AccountIds, id) /\ changes < MaxChanges /\ changes' = changes + 1
      /\ calm' = FALSE
      /\ UNCHANGED <<config, state, plan, pc, lastRun>>
      /\ stray' = IF remote'[id] = None THEN stray \ {id} ELSE stray
      /\ suspect' = IF remote'[id] = None THEN suspect \ {id}
                    ELSE IF remote'[id]["credentials"] = remote[id]["credentials"]
                      THEN suspect
                    ELSE suspect \cup {id}
  BY AccWays DEF Account!ChangeOutside, Account!None, None
<1>2. PICK object \in Account!Outside(remote[id]) \cup {None} :
        remote' = [remote EXCEPT ![id] = object]
  BY DEF Account!ChangeOutside, Account!None, None
<1>3. KindInv(AccountIds, Account!Attributes, AccNames, AccountConfigs)
  BY DEF AccInv
<1>4. /\ remote[id] \in Known(Account!Attributes)
      /\ remote'[id] = object
      /\ \A i \in AccountIds \ {id} : remote'[i] = remote[i]
  BY <1>1, <1>2, <1>3 DEF KindInv, StoreInv, There
<1>5. /\ object \in Known(Account!Attributes) \cup {None}
      /\ object # None => \A a \in Account!Attributes \ {"credentials"} :
                            remote[id][a] # Null => object[a] # Null
  <2>1. CASE object # None
    <3>1. PICK b \in {"name", "credentials"}, v \in Values : object = [remote[id] EXCEPT ![b] = v]
      BY <1>2, <2>1 DEF Account!Outside
    <3>2. v \in Values /\ v # Null
      BY <3>1, Values3
    <3>3. remote[id] \in [Account!Attributes -> Values \cup {Null, "active"}]
      BY <1>4 DEF Known
    <3>4. object \in [Account!Attributes -> Values \cup {Null, "active"}]
      BY <3>1, <3>2, <3>3
    <3>5. \A a \in Account!Attributes : object[a] = IF a = b THEN v ELSE remote[id][a]
      BY <3>1, <3>3
    <3>6. QED BY <3>2, <3>4, <3>5 DEF Known
  <2>2. QED BY <2>1
<1>6. changes' \in 0..MaxChanges
  BY <1>1, <1>3, StatefulAssumption DEF KindInv, StoreInv
<1>7. stray' \subseteq AccountIds /\ suspect' \subseteq AccountIds
  BY <1>1, <1>3 DEF AccInv, KindInv, StoreInv
<1>8. stray \cup going \subseteq stray' \cup going' \cup (IF object = None THEN {id} ELSE {})
  BY <1>1, <1>4
<1>9. KindInv(AccountIds, Account!Attributes, AccNames, AccountConfigs)'
  <2>1. object \in Known(Account!Attributes) \cup {None}
    BY <1>5
  <2>2. object # None => \A a \in Account!Attributes \ {"credentials"} :
                           remote[id][a] # Null => object[a] # Null
    BY <1>5
  <2>3. There(AccountIds, id) /\ calm' = FALSE /\ UNCHANGED <<config, state, plan, pc, lastRun>>
    BY <1>1
  <2>4. stray' \subseteq AccountIds
    BY <1>7
  <2>5. QED BY <1>2, <1>3, <1>6, <1>8, <2>1, <2>2, <2>3, <2>4, AccIsKind, Changes
<1>10. There(AccountIds, state.id)' => There(AccountIds, state.id)
  BY <1>1, <1>4 DEF There
<1>11. AccInv'
  <2>1. ASSUME pc = "refresh", There(AccountIds, state.id)', NEW a \in {"name", "description"},
               plan[a] # Null
        PROVE  remote'[state.id][a] # Null
    <3>1. remote[state.id][a] # Null /\ state.id \in AccountIds
      BY <1>10, <2>1 DEF AccInv, There
    <3>2. a \in Account!Attributes \ {"credentials"}
      BY DEF Account!Attributes, Account!Settable
    <3>3. state.id = id => object # None
      BY <1>1, <1>4, <2>1 DEF There
    <3>4. QED BY <1>4, <1>5, <3>1, <3>2, <3>3
  <2>2. QED BY <1>1, <1>7, <1>9, <2>1 DEF AccInv
<1>12. CredInv'
  <2>1. CASE state.id = id
    <3>1. ASSUME There(AccountIds, state.id)'
          PROVE  /\ There(AccountIds, state.id)
                 /\ \/ suspect' = suspect
                       /\ remote'[state.id]["credentials"] = remote[state.id]["credentials"]
                    \/ suspect' = suspect \cup {state.id}
      BY <1>1, <1>10, <2>1, <3>1 DEF There
    <3>2. QED BY <1>1, <3>1 DEF CredInv
  <2>2. CASE state.id # id
    <3>1. There(AccountIds, state.id)' =>
            /\ There(AccountIds, state.id)
            /\ remote'[state.id] = remote[state.id]
      BY <1>1, <1>4, <1>10, <2>2 DEF There
    <3>2. state.id \in suspect => state.id \in suspect'
      BY <1>1, <2>2
    <3>3. QED BY <1>1, <3>1, <3>2 DEF CredInv
  <2>3. QED BY <2>1, <2>2
<1>13. QED BY <1>11, <1>12

\* Every step of an account.
LEMMA AccStep ==
  ASSUME AccInv, CredInv,
         \/ (Account!Run \/ Account!Interference) /\ UNCHANGED going
         \/ UNCHANGED resourceVars
  PROVE  AccInv' /\ CredInv'
<1>1. CASE Account!Run /\ UNCHANGED going
  BY <1>1, AccStartStep, AccCreateStep, AccRotateStep, AccPatchStep, AccReadBackStep,
     AccDeleteStep, AccQuietStep DEF Account!Run
<1>2. CASE Account!Interference /\ UNCHANGED going
  BY <1>2, AccImportStep, AccChangeStep, AccQuietStep DEF Account!Interference
<1>3. CASE UNCHANGED resourceVars
  <2>1. UNCHANGED <<config, state, plan, pc, remote, lastRun, calm, stray, changes, going, suspect>>
    BY <1>3 DEF resourceVars
  <2>2. RunInv(AccountIds, Account!Attributes, AccountConfigs)'
    BY <2>1, SameRun DEF AccInv, KindInv
  <2>3. KindInv(AccountIds, Account!Attributes, AccNames, AccountConfigs)'
    BY <2>1, <2>2, Quiet DEF AccInv
  <2>4. QED BY <2>1, <2>3 DEF AccInv, CredInv, There
<1>4. QED BY <1>1, <1>2, <1>3

-----------------------------------------------------------------------------
(* The region of a cloud account.                                          *)

RegNames == {"cloud_account_id", "region"}

\* A region is at NC2 as its id says, and so is its account in the state.
RegInv ==
  /\ KindInv(RegionIds, Region!Attributes, RegNames, RegionConfigs)
  /\ going = {}
  /\ \A id \in RegionIds : remote[id] \in {None, Region!Row(id)}
  /\ state # None =>
       state.id = TaskId \/ state.attrs["cloud_account_id"] = state.id[1]

LEMMA RegIsKind == IsKind(RegionIds, Region!Attributes, RegNames, RegionConfigs)
<1>1. RegionConfigs \subseteq [RegNames -> Values \cup {Null}]
  BY StatefulAssumption DEF RegNames
<1>2. TaskId \notin RegionIds
  BY StatefulAssumption
<1>3. QED BY <1>1, <1>2 DEF IsKind, RegNames, Region!Attributes

LEMMA RegWays ==
  /\ \A id : Region!Exists(id) = There(RegionIds, id)
  /\ Region!Finish("error") /\ UNCHANGED <<config, state>> => Errs
  /\ Region!Dropped /\ pc = "delete" /\ UNCHANGED config => Leaves
<1>1. \A id : Region!Exists(id) = There(RegionIds, id)
  BY DEF Region!Exists, There, Region!None, None
<1>2. Region!Finish("error") /\ UNCHANGED <<config, state>> => Errs
  BY DEF Region!Finish, Region!None, None, Errs
<1>3. Region!Dropped /\ pc = "delete" /\ UNCHANGED config => Leaves
  BY DEF Region!Dropped, Region!Finish, Region!None, None, Leaves
<1>4. QED BY <1>1, <1>2, <1>3

LEMMA RegSettles ==
  ASSUME NEW id, NEW attrs, Region!Settle(id, attrs), UNCHANGED config
  PROVE  Settled(id, attrs)
BY DEF Region!Settle, Region!Finish, Region!None, None, Settled

LEMMA RegBegins ==
  ASSUME NEW refreshed, NEW forces,
         Region!StartRun(refreshed, Region!Attributes, forces)
  PROVE  /\ Begun(refreshed, Region!Attributes)
         /\ pc' = "update" => \A a \in forces : config[a] = refreshed.attrs[a]
         /\ Agrees(refreshed, forces) => pc' = "idle"
<1> DEFINE action == Region!PlannedAction(refreshed, forces)
<1>1. /\ pc = "idle" /\ state' = refreshed
      /\ pc' = CASE action = "nothing" -> "idle"
                 [] action = "replace" -> "delete"
                 [] OTHER -> action
      /\ plan' = IF action \in {"nothing", "delete"} THEN None ELSE Proposal(Region!Attributes)
      /\ lastRun' = IF action = "nothing" THEN "ok" ELSE "none"
      /\ calm' = TRUE
      /\ UNCHANGED <<config, remote, stray, changes>>
  BY DEF Region!StartRun, Region!None, None, Region!Proposed, Proposal, Region!nc2Vars
<1>2. CASE refreshed = None
  <2>1. action = IF config = None THEN "nothing" ELSE "create"
    BY <1>2 DEF Region!PlannedAction, Region!None, None
  <2>2. QED BY <1>1, <1>2, <2>1 DEF Begun, Agrees
<1>3. CASE refreshed # None /\ config = None
  <2>1. action = "delete"
    BY <1>3 DEF Region!PlannedAction, Region!None, None
  <2>2. QED BY <1>1, <1>3, <2>1 DEF Begun, Agrees
<1>4. CASE refreshed # None /\ config # None
  <2>1. \/ action = "replace"
        \/ action = "update" /\ \A a \in forces : config[a] = refreshed.attrs[a]
        \/ /\ action = "nothing"
           /\ ~refreshed.tainted
           /\ \A a \in DOMAIN config : config[a] = refreshed.attrs[a]
    BY <1>4 DEF Region!PlannedAction, Region!None, None
  <2>2. Agrees(refreshed, forces) => action = "nothing"
    BY <1>4 DEF Region!PlannedAction, Region!None, None, Agrees
  <2>3. QED BY <1>1, <1>4, <2>1, <2>2 DEF Begun
<1>5. QED BY <1>2, <1>3, <1>4

LEMMA RegMerges ==
  ASSUME NEW model, NEW object
  PROVE  Region!Decode(model, object) = Merged(model, object, Carried \cap {"region", "state"})
BY DEF Region!Decode, Region!Decoded, Region!Fields, Merged

\* A row has what its id says.
LEMMA RowFacts ==
  ASSUME NEW id \in RegionIds
  PROVE  /\ Region!Row(id) \in Known(Region!Attributes)
         /\ Region!Row(id)["cloud_account_id"] = id[1]
         /\ Region!Row(id)["region"] = id[2]
         /\ \A a \in Region!Attributes : Region!Row(id)[a] \notin {Null, Unknown}
<1>1. id[1] \in Values /\ id[2] \in Values
  BY StatefulAssumption
<1>2. \A a \in Region!Attributes :
        Region!Row(id)[a] = IF a = "cloud_account_id" THEN id[1]
                            ELSE IF a = "region" THEN id[2] ELSE "active"
  BY DEF Region!Row, Region!Attributes
<1>3. DOMAIN Region!Row(id) = Region!Attributes
  BY DEF Region!Row, Region!Attributes
<1>4. Region!Row(id) = [a \in Region!Attributes |-> Region!Row(id)[a]]
  BY <1>3 DEF Region!Row
<1>5. Region!Row(id) \in Known(Region!Attributes)
  BY <1>1, <1>2, <1>4 DEF Known
<1>6. \A a \in Region!Attributes : Region!Row(id)[a] \notin {Null, Unknown}
  BY <1>1, <1>2, Values3
<1>7. QED BY <1>2, <1>5, <1>6 DEF Region!Attributes

LEMMA RegRefreshes ==
  ASSUME RegInv
  PROVE  Refreshes(RegionIds, RegNames, Region!Refreshed, Carried \cap {"region", "state"})
<1>1. Carried \cap {"region", "state"} \subseteq Shown
  BY StatefulAssumption DEF Shown
<1>2. CASE state = None \/ ~There(RegionIds, state.id)
  <2>1. state # None => Region!FindRegionByID = {}
    BY <1>2, RegWays DEF Region!FindRegionByID
  <2>2. Region!Refreshed = None
    BY <2>1 DEF Region!Refreshed, Region!None, None
  <2>3. QED BY <1>2, <2>2 DEF Refreshes
<1>3. CASE state # None /\ There(RegionIds, state.id)
  <2>1. state.attrs["cloud_account_id"] = state.id[1] /\ state.id \in RegionIds
    BY <1>3, RegIsKind DEF RegInv, There, IsKind
  <2>2. Region!FindRegionByID = {remote[state.id]}
    BY <1>3, <2>1, RegWays DEF Region!FindRegionByID
  <2>3. Region!Refreshed =
          [state EXCEPT !.attrs = Region!Decode(state.attrs, remote[state.id])]
    BY <1>3, <2>2 DEF Region!Refreshed, Region!None, None
  <2>4. Region!Refreshed = [state EXCEPT !.attrs =
          Merged(state.attrs, remote[state.id], Carried \cap {"region", "state"})]
    BY <2>3, RegMerges
  <2>5. state \in Stored(RegionIds, Region!Attributes)
    BY <1>3 DEF RegInv, KindInv, RunInv
  <2>6. Region!Refreshed # None
    BY <2>4, <2>5, UpdatedIsSome
  <2>7. remote[state.id]["cloud_account_id"] = state.attrs["cloud_account_id"]
    BY <1>3, <2>1, RowFacts DEF RegInv, There
  <2>8. \A a \in RegNames \cap Shown :
          a \in Carried \cap {"region", "state"} \/ remote[state.id][a] = state.attrs[a]
    BY <2>7 DEF Shown, RegNames
  <2>9. QED BY <1>1, <1>3, <2>4, <2>6, <2>8 DEF Refreshes
<1>4. QED BY <1>2, <1>3

\* What is planned of a region.
LEMMA RegPlan ==
  ASSUME RegInv, pc = "create"
  PROVE  /\ plan \in [Region!Attributes -> Values \cup {Null, Unknown}]
         /\ plan["state"] = Unknown
         /\ <<plan["cloud_account_id"], plan["region"]>> \in RegionIds
<1>1. plan = Proposal(Region!Attributes) /\ config \in RegionConfigs
  BY DEF RegInv, KindInv, RunInv
<1>2. /\ plan \in [Region!Attributes -> Values \cup {Null, Unknown}]
      /\ \A a \in RegNames : plan[a] = config[a]
      /\ \A a \in Region!Attributes \ RegNames : plan[a] = Unknown
  BY <1>1, RegIsKind, ProposalFacts
<1>3. "state" \in Region!Attributes \ RegNames
  BY DEF Region!Attributes, RegNames
<1>4. <<config["cloud_account_id"], config["region"]>> \in RegionIds
  BY <1>1, StatefulAssumption
<1>5. plan["cloud_account_id"] = config["cloud_account_id"] /\ plan["region"] = config["region"]
  BY <1>2 DEF RegNames
<1>6. QED BY <1>2, <1>3, <1>4, <1>5

\* What the row of an id makes of a plan.
LEMMA RegAnswers ==
  ASSUME NEW planned \in [Region!Attributes -> Values \cup {Null, Unknown}],
         NEW id \in RegionIds
  PROVE  LET attrs == Region!Decode(planned, Region!Row(id))
         IN /\ attrs \in [Region!Attributes -> Values \cup {Null, Unknown, "active"}]
            /\ attrs["cloud_account_id"] = planned["cloud_account_id"]
            /\ RowsNamed => attrs["region"] = id[2]
            /\ planned["cloud_account_id"] = id[1]
                 => Faithful(attrs, Region!Row(id), RegNames)
<1> DEFINE carried == Carried \cap {"region", "state"}
           attrs == Region!Decode(planned, Region!Row(id))
<1>1. attrs = Merged(planned, Region!Row(id), carried)
  BY RegMerges
<1>2. /\ DOMAIN planned = Region!Attributes
      /\ DOMAIN Region!Row(id) = Region!Attributes
      /\ \A a \in Region!Attributes : Region!Row(id)[a] \notin {Null, Unknown}
      /\ \A a \in Region!Attributes : Region!Row(id)[a] \in Values \cup {Null, "active"}
  BY RowFacts DEF Known
<1>3. /\ attrs = [a \in Region!Attributes |-> attrs[a]]
      /\ \A a \in Region!Attributes :
           attrs[a] = IF a \in carried THEN Region!Row(id)[a] ELSE planned[a]
  BY <1>1, <1>2 DEF Merged
<1> HIDE DEF attrs
<1>4. attrs \in [Region!Attributes -> Values \cup {Null, Unknown, "active"}]
  <2>1. \A a \in Region!Attributes : attrs[a] \in Values \cup {Null, Unknown, "active"}
    BY <1>2, <1>3
  <2>2. QED BY <1>3, <2>1
<1>5. attrs["cloud_account_id"] = planned["cloud_account_id"]
  BY <1>3 DEF Region!Attributes
<1>6. RowsNamed => attrs["region"] = id[2]
  BY <1>3, RowFacts DEF Region!Attributes, RowsNamed
<1>7. ASSUME planned["cloud_account_id"] = id[1]
      PROVE  Faithful(attrs, Region!Row(id), RegNames)
  <2>1. DOMAIN attrs = Region!Attributes
    BY <1>4
  <2>2. \A a \in DOMAIN attrs \ {"credentials"} :
          attrs[a] \notin {Null, Unknown} => Region!Row(id)[a] # Null
    BY <1>2, <2>1
  <2>3. ASSUME NEW a \in RegNames \cap Shown
        PROVE  attrs[a] = Region!Row(id)[a]
    BY <1>3, <1>5, <1>6, <1>7, <2>3, RowFacts DEF RegNames, Shown, RowsNamed
  <2>4. QED BY <2>2, <2>3 DEF Faithful
<1>8. QED BY <1>4, <1>5, <1>6, <1>7 DEF attrs

LEMMA RegStartStep ==
  ASSUME RegInv, Region!Start, UNCHANGED going
  PROVE  RegInv'
<1> DEFINE refreshed == Region!Refreshed
           carried == Carried \cap {"region", "state"}
<1>1. Region!StartRun(refreshed, Region!Attributes, Region!ForcesReplace)
  BY DEF Region!Start
<1>2. Refreshes(RegionIds, RegNames, refreshed, carried)
  BY RegRefreshes
<1>3. "cloud_account_id" \notin carried /\ "cloud_account_id" \in Region!Attributes
  BY DEF Region!Attributes
<1> HIDE DEF refreshed, carried
<1>4. Begun(refreshed, Region!Attributes)
  BY <1>1, RegBegins
<1>5. KindInv(RegionIds, Region!Attributes, RegNames, RegionConfigs)
  BY DEF RegInv
<1>6. KindInv(RegionIds, Region!Attributes, RegNames, RegionConfigs)'
  BY <1>2, <1>4, <1>5, RegIsKind, Begins
<1>7. state' = refreshed /\ remote' = remote
  BY <1>4 DEF Begun
<1>8. refreshed # None =>
        /\ state # None /\ refreshed.id = state.id
        /\ refreshed.attrs["cloud_account_id"] = state.attrs["cloud_account_id"]
  BY <1>2, <1>3, <1>5, RegIsKind, RefreshedFacts
<1>9. QED BY <1>6, <1>7, <1>8 DEF RegInv

\* An enabled region is the object; a run that takes another row for its own
\* fails, as the name of the region shows.
LEMMA RegCreateStep ==
  ASSUME RegInv, Region!Create, UNCHANGED going
  PROVE  RegInv'
<1> DEFINE id == <<plan["cloud_account_id"], plan["region"]>>
           object == Region!Row(id)
<1>1. pc = "create" /\ state = None
  BY DEF Region!Create, RegInv, KindInv, RunInv
<1>2. KindInv(RegionIds, Region!Attributes, RegNames, RegionConfigs)
  BY DEF RegInv
<1>3. /\ plan \in [Region!Attributes -> Values \cup {Null, Unknown}]
      /\ plan["state"] = Unknown
      /\ id \in RegionIds
  BY <1>1, RegPlan
<1>4. id[1] = plan["cloud_account_id"] /\ id[2] = plan["region"] /\ id[1] # Unknown
  <2>1. id[1] \in Values
    BY <1>3, StatefulAssumption
  <2>2. QED BY <2>1, Values3
<1>5. PICK answer \in CreateAnswers :
        \/ answer = "task" /\ Region!Created(id, object, TaskId, plan)
        \/ \E first \in Region!FirstRows(id, answer) :
             Region!Created(id, object, first, Region!Decode(plan, Region!Row(first)))
  BY DEF Region!Create
<1>6. ASSUME NEW answerId, NEW attrs, Region!Created(id, object, answerId, attrs)
      PROVE  /\ remote' = [remote EXCEPT ![id] = object]
             /\ stray' = IF state' # None /\ state'.id = id THEN stray \ {id}
                         ELSE IF lastRun' = "error" THEN stray \cup {id}
                         ELSE stray
             /\ UNCHANGED <<config, calm, changes>>
             /\ Errs \/ Settled(answerId, attrs)
  <2>1. /\ remote' = [remote EXCEPT ![id] = object]
        /\ stray' = IF state' # None /\ state'.id = id THEN stray \ {id}
                    ELSE IF lastRun' = "error" THEN stray \cup {id}
                    ELSE stray
        /\ UNCHANGED <<config, calm, changes>>
        /\ \/ Region!Finish("error") /\ UNCHANGED state
           \/ Region!Settle(answerId, attrs)
    BY <1>6 DEF Region!Created, Region!None, None
  <2>2. Errs \/ Settled(answerId, attrs)
    BY <2>1, RegSettles, RegWays
  <2>3. QED BY <2>1, <2>2
<1>7. /\ object \in Known(Region!Attributes)
      /\ \A a \in Region!Attributes \ {"credentials"} :
           There(RegionIds, id) /\ remote[id][a] # Null => object[a] # Null
  BY <1>3, RowFacts
<1>8. CASE answer = "task" /\ Region!Created(id, object, TaskId, plan)
  <2> HIDE DEF id, object
  <2>1. TaskId \notin RegionIds
    BY StatefulAssumption
  <2>2. ASSUME Settled(TaskId, plan)
        PROVE  \E a \in [Region!Attributes -> Values \cup {Null, Unknown, "active"}],
                  other \in (RegionIds \cup {TaskId}) \ {id} :
                 /\ Settled(other, a)
                 /\ RowsNamed \/ other = TaskId => lastRun' # "ok"
                 /\ IF other = TaskId THEN "task" \in CreateAnswers
                    ELSE There(RegionIds, other) /\ Faithful(a, remote[other], RegNames)
    <3>1. "state" \in DOMAIN plan
      BY <1>3 DEF Region!Attributes
    <3>2. lastRun' # "ok"
      BY <1>3, <2>2, <3>1 DEF Settled
    <3>3. plan \in [Region!Attributes -> Values \cup {Null, Unknown, "active"}]
      BY <1>3
    <3>4. QED BY <1>3, <1>5, <1>8, <2>1, <2>2, <3>2, <3>3
  <2>3. KindInv(RegionIds, Region!Attributes, RegNames, RegionConfigs)'
    <3>1. /\ remote' = [remote EXCEPT ![id] = object]
          /\ stray' = IF state' # None /\ state'.id = id THEN stray \ {id}
                      ELSE IF lastRun' = "error" THEN stray \cup {id}
                      ELSE stray
          /\ UNCHANGED <<config, calm, changes>>
          /\ Errs \/ Settled(TaskId, plan)
      BY <1>6, <1>8
    <3>2. CASE Errs
      BY <1>1, <1>2, <1>3, <1>7, <3>1, <3>2, RegIsKind, Creates
    <3>3. CASE Settled(TaskId, plan)
      BY <1>1, <1>2, <1>3, <1>7, <2>2, <3>1, <3>3, RegIsKind, Creates
    <3>4. QED BY <3>1, <3>2, <3>3
  <2>4. state' = None \/ state'.id = TaskId
    BY <1>1, <1>6, <1>8 DEF Errs, Settled
  <2>5. \A i \in RegionIds : remote'[i] \in {None, Region!Row(i)}
    BY <1>2, <1>6, <1>8 DEF RegInv, KindInv, StoreInv, object
  <2>6. QED BY <2>3, <2>4, <2>5 DEF RegInv
<1>9. ASSUME NEW first \in Region!FirstRows(id, answer),
             Region!Created(id, object, first, Region!Decode(plan, Region!Row(first)))
      PROVE  RegInv'
  <2> DEFINE attrs == Region!Decode(plan, Region!Row(first))
  <2>1. /\ first \in RegionIds /\ first[1] = id[1]
        /\ first # id => There(RegionIds, first)
    BY <1>3, <1>9, RegWays DEF Region!FirstRows
  <2>2. /\ attrs \in [Region!Attributes -> Values \cup {Null, Unknown, "active"}]
        /\ attrs["cloud_account_id"] = plan["cloud_account_id"]
        /\ RowsNamed => attrs["region"] = first[2]
        /\ plan["cloud_account_id"] = first[1]
             => Faithful(attrs, Region!Row(first), RegNames)
    BY <1>3, <2>1, RegAnswers
  <2> HIDE DEF attrs, id, object
  <2>3. /\ remote' = [remote EXCEPT ![id] = object]
        /\ stray' = IF state' # None /\ state'.id = id THEN stray \ {id}
                    ELSE IF lastRun' = "error" THEN stray \cup {id}
                    ELSE stray
        /\ UNCHANGED <<config, calm, changes>>
        /\ Errs \/ Settled(first, attrs)
    BY <1>6, <1>9 DEF attrs
  <2>4. KindInv(RegionIds, Region!Attributes, RegNames, RegionConfigs)'
    <3>1. CASE Errs
      BY <1>1, <1>2, <1>3, <1>7, <2>3, <3>1, RegIsKind, Creates
    <3>2. CASE Settled(first, attrs) /\ first = id
      <4>1. Faithful(attrs, object, RegNames)
        BY <1>4, <2>1, <2>2, <3>2 DEF object
      <4>2. QED BY <1>1, <1>2, <1>3, <1>7, <2>2, <2>3, <3>2, <4>1, RegIsKind, Creates
    <3>3. CASE Settled(first, attrs) /\ first # id
      <4>1. first[2] # id[2]
        BY <1>3, <2>1, <3>3, StatefulAssumption
      <4>2. ASSUME RowsNamed PROVE lastRun' # "ok"
        <5>1. attrs["region"] # plan["region"] /\ "region" \in DOMAIN attrs
          BY <1>4, <2>2, <4>1, <4>2 DEF Region!Attributes
        <5>2. plan["region"] # Unknown
          BY <1>3, <1>4, Values3, StatefulAssumption
        <5>3. QED BY <3>3, <5>1, <5>2 DEF Settled
      <4>3. first # TaskId
        BY <2>1, StatefulAssumption
      <4>4. Faithful(attrs, remote[first], RegNames)
        <5>1. remote[first] = Region!Row(first)
          BY <2>1, <3>3 DEF RegInv, There
        <5>2. QED BY <1>4, <2>1, <2>2, <5>1
      <4>5. \E a \in [Region!Attributes -> Values \cup {Null, Unknown, "active"}],
               other \in (RegionIds \cup {TaskId}) \ {id} :
              /\ Settled(other, a)
              /\ RowsNamed \/ other = TaskId => lastRun' # "ok"
              /\ IF other = TaskId THEN "task" \in CreateAnswers
                 ELSE There(RegionIds, other) /\ Faithful(a, remote[other], RegNames)
        BY <2>1, <2>2, <3>3, <4>2, <4>3, <4>4
      <4>6. QED BY <1>1, <1>2, <1>3, <1>7, <2>3, <4>5, RegIsKind, Creates
    <3>4. QED BY <2>3, <3>1, <3>2, <3>3
  <2>5. state' = None \/ state'.attrs["cloud_account_id"] = state'.id[1]
    <3>1. CASE Errs
      BY <1>1, <3>1 DEF Errs
    <3>2. CASE Settled(first, attrs)
      <4>1. "cloud_account_id" \in DOMAIN attrs /\ attrs["cloud_account_id"] # Unknown
        BY <1>4, <2>2 DEF Region!Attributes
      <4>2. state'.id = first /\ state'.attrs["cloud_account_id"] = attrs["cloud_account_id"]
        BY <3>2, <4>1 DEF Settled
      <4>3. QED BY <1>4, <2>1, <2>2, <4>2
    <3>3. QED BY <2>3, <3>1, <3>2
  <2>6. \A i \in RegionIds : remote'[i] \in {None, Region!Row(i)}
    BY <1>2, <2>3 DEF RegInv, KindInv, StoreInv, object
  <2>7. QED BY <2>4, <2>5, <2>6 DEF RegInv
<1>10. QED BY <1>5, <1>8, <1>9

\* The region remains enabled, as a stray.
LEMMA RegDeleteStep ==
  ASSUME RegInv, Region!Delete, UNCHANGED going
  PROVE  RegInv'
<1>1. /\ pc = "delete" /\ Region!Dropped
      /\ stray' = stray \cup {id \in {state.id} : There(RegionIds, id)}
      /\ UNCHANGED <<config, remote, calm, changes>>
  BY RegWays DEF Region!Delete
<1>2. Leaves
  BY <1>1, RegWays
<1>3. KindInv(RegionIds, Region!Attributes, RegNames, RegionConfigs)
  BY DEF RegInv
<1>4. /\ stray \subseteq stray' /\ stray' \subseteq RegionIds
      /\ There(RegionIds, state.id) => state.id \in stray' \cup going'
  BY <1>1, <1>3 DEF KindInv, StoreInv, There
<1>5. KindInv(RegionIds, Region!Attributes, RegNames, RegionConfigs)'
  BY <1>1, <1>2, <1>3, <1>4, RegIsKind, Departs
<1>6. state' = None
  BY <1>2 DEF Leaves
<1>7. QED BY <1>1, <1>5, <1>6 DEF RegInv

\* Steps that touch neither the state nor NC2.
LEMMA RegQuietStep ==
  ASSUME RegInv, UNCHANGED going, Region!Fail \/ Region!EditConfig \/ Region!Stabilize
  PROVE  RegInv'
<1>1. UNCHANGED <<state, remote, stray, calm, changes>>
  BY DEF Region!Fail, Region!EditConfig, Region!Stabilize, Region!nc2Vars
<1>2. KindInv(RegionIds, Region!Attributes, RegNames, RegionConfigs)
  BY DEF RegInv
<1>3. KindInv(RegionIds, Region!Attributes, RegNames, RegionConfigs)'
  <2>1. CASE Region!Fail
    <3>1. Errs
      BY <2>1, RegWays DEF Region!Fail
    <3>2. RunInv(RegionIds, Region!Attributes, RegionConfigs)' /\ lastRun' = "error"
      BY <1>2, <3>1, ErrsRun DEF KindInv, Errs
    <3>3. QED BY <1>1, <1>2, <3>2, Quiet
  <2>2. CASE Region!EditConfig
    <3>1. /\ pc = "idle" /\ UNCHANGED <<state, plan, pc>>
          /\ config' \in RegionConfigs \cup {None} /\ lastRun' = "none"
      BY <2>2 DEF Region!EditConfig, Region!None, None
    <3>2. RunInv(RegionIds, Region!Attributes, RegionConfigs)'
      BY <1>2, <3>1, EditedRun DEF KindInv
    <3>3. QED BY <1>1, <1>2, <3>1, <3>2, Quiet
  <2>3. CASE Region!Stabilize
    <3>1. UNCHANGED <<config, state, plan, pc, lastRun>>
      BY <2>3 DEF Region!Stabilize
    <3>2. RunInv(RegionIds, Region!Attributes, RegionConfigs)'
      BY <1>2, <3>1, SameRun DEF KindInv
    <3>3. QED BY <1>1, <1>2, <3>1, <3>2, Quiet
  <2>4. QED BY <2>1, <2>2, <2>3
<1>4. QED BY <1>1, <1>3 DEF RegInv

LEMMA RegImportStep ==
  ASSUME RegInv, NEW id \in RegionIds, Region!ImportState(id), UNCHANGED going
  PROVE  RegInv'
<1> DEFINE row == Region!Row(id)
           empty == [row EXCEPT !["region"] = Null, !["state"] = Null]
           attrs == Region!Decode(empty, row)
<1>1. /\ pc = "idle" /\ state = None /\ There(RegionIds, id)
      /\ state' = [id |-> id, attrs |-> attrs, tainted |-> FALSE]
      /\ stray' = stray \ {id} /\ lastRun' = "none" /\ calm' = TRUE
      /\ UNCHANGED <<config, plan, pc, remote, changes, going>>
  BY RegWays DEF Region!ImportState, Region!Import, Region!None, None
<1>2. KindInv(RegionIds, Region!Attributes, RegNames, RegionConfigs)
  BY DEF RegInv
<1>3. remote[id] = row
  BY <1>1 DEF RegInv, There
<1>4. /\ row \in [Region!Attributes -> Values \cup {Null, "active"}]
      /\ row["cloud_account_id"] = id[1]
      /\ \A a \in Region!Attributes : row[a] \notin {Null, Unknown}
  BY RowFacts DEF Known
<1>5. attrs = Merged(empty, row, Carried \cap {"region", "state"})
  BY RegMerges
<1> HIDE DEF row
<1>6. /\ empty \in [Region!Attributes -> Values \cup {Null, "active"}]
      /\ empty["cloud_account_id"] = id[1]
  BY <1>4 DEF Region!Attributes
<1> HIDE DEF empty, attrs
<1>7. attrs \in Known(Region!Attributes)
  <2>1. DOMAIN empty = Region!Attributes /\ DOMAIN row = Region!Attributes
    BY <1>4, <1>6
  <2>2. QED BY <1>4, <1>5, <1>6, <2>1 DEF Merged, Known
<1>8. attrs["cloud_account_id"] = id[1]
  BY <1>5, <1>6 DEF Merged, Region!Attributes
<1>9. \A a \in Region!Attributes : attrs[a] # Null => remote[id][a] # Null
  BY <1>3, <1>4
<1>10. KindInv(RegionIds, Region!Attributes, RegNames, RegionConfigs)'
  BY <1>1, <1>2, <1>7, <1>9, RegIsKind, Imports
<1>11. QED BY <1>1, <1>8, <1>10 DEF RegInv

LEMMA RegChangeStep ==
  ASSUME RegInv, NEW id \in RegionIds, Region!ChangeOutside(id, {}), UNCHANGED going
  PROVE  RegInv'
<1>1. /\ There(RegionIds, id) /\ changes < MaxChanges /\ changes' = changes + 1
      /\ calm' = FALSE
      /\ UNCHANGED <<config, state, plan, pc, lastRun>>
      /\ stray' = IF remote'[id] = None THEN stray \ {id} ELSE stray
      /\ remote' = [remote EXCEPT ![id] = None]
  BY RegWays DEF Region!ChangeOutside, Region!None, None
<1>2. KindInv(RegionIds, Region!Attributes, RegNames, RegionConfigs)
  BY DEF RegInv
<1>3. changes' \in 0..MaxChanges /\ stray' \subseteq RegionIds
  BY <1>1, <1>2, StatefulAssumption DEF KindInv, StoreInv
<1>4. stray \cup going \subseteq stray' \cup going' \cup (IF None = None THEN {id} ELSE {})
  BY <1>1
<1>5. KindInv(RegionIds, Region!Attributes, RegNames, RegionConfigs)'
  <2>1. None \in Known(Region!Attributes) \cup {None}
    OBVIOUS
  <2>2. calm' \in BOOLEAN /\ (calm' => calm /\ (state # None => state.id # id))
    BY <1>1
  <2>3. There(RegionIds, id) /\ remote' = [remote EXCEPT ![id] = None]
        /\ UNCHANGED <<config, state, plan, pc, lastRun>>
    BY <1>1
  <2>4. QED BY <1>2, <1>3, <1>4, <2>1, <2>2, <2>3, RegIsKind, Changes
<1>6. \A i \in RegionIds : remote'[i] \in {None, Region!Row(i)}
  BY <1>1, <1>2 DEF RegInv, KindInv, StoreInv
<1>7. QED BY <1>1, <1>5, <1>6 DEF RegInv

\* Every step of a region.
LEMMA RegStep ==
  ASSUME RegInv,
         \/ (Region!Run \/ Region!Interference) /\ UNCHANGED going
         \/ UNCHANGED resourceVars
  PROVE  RegInv'
<1>1. CASE Region!Run /\ UNCHANGED going
  BY <1>1, RegStartStep, RegCreateStep, RegDeleteStep DEF Region!Run
<1>2. CASE Region!Interference /\ UNCHANGED going
  BY <1>2, RegImportStep, RegChangeStep, RegQuietStep DEF Region!Interference
<1>3. CASE UNCHANGED resourceVars
  <2>1. UNCHANGED <<config, state, plan, pc, remote, lastRun, calm, stray, changes, going>>
    BY <1>3 DEF resourceVars
  <2>2. RunInv(RegionIds, Region!Attributes, RegionConfigs)'
    BY <2>1, SameRun DEF RegInv, KindInv
  <2>3. KindInv(RegionIds, Region!Attributes, RegNames, RegionConfigs)'
    BY <2>1, <2>2, Quiet DEF RegInv
  <2>4. QED BY <2>1, <2>3 DEF RegInv
<1>4. QED BY <1>1, <1>2, <1>3

-----------------------------------------------------------------------------
(* A plan right after an apply.                                            *)

\* A refresh after a success finds what the block says.
LEMMA AgreesAfterSuccess ==
  ASSUME NEW ids, NEW attributes, NEW names, NEW configs,
         IsKind(ids, attributes, names, configs), KindInv(ids, attributes, names, configs),
         NEW refreshed, NEW carried, Refreshes(ids, names, refreshed, carried),
         NEW forces, forces \subseteq names,
         pc = "idle", lastRun = "ok", calm
  PROVE  Agrees(refreshed, forces)
<1>1. /\ config = None => state = None
      /\ config # None =>
           /\ state # None /\ ~state.tainted /\ There(ids, state.id)
           /\ \A a \in names : state.attrs[a] = config[a]
           /\ \A a \in names \cap Shown : remote[state.id][a] = config[a]
  BY DEF KindInv, DoneInv
<1>2. CASE config = None
  BY <1>1, <1>2 DEF Refreshes, Agrees
<1>3. CASE config # None
  <2>1. refreshed # None
    BY <1>1, <1>3 DEF Refreshes
  <2>2. /\ refreshed.tainted = state.tainted
        /\ \A a \in attributes :
             refreshed.attrs[a] =
               IF a \in carried /\ remote[state.id][a] \notin {Null, Unknown}
                 THEN remote[state.id][a] ELSE state.attrs[a]
    BY <2>1, RefreshedFacts
  <2>3. carried \subseteq Shown
    BY <2>1 DEF Refreshes
  <2>4. names \subseteq attributes /\ DOMAIN config = names
    BY <1>3, KindFacts DEF IsKind, KindInv, RunInv
  <2>5. ASSUME NEW a \in names
        PROVE  config[a] = refreshed.attrs[a]
    <3>1. CASE a \in carried
      BY <1>1, <1>3, <2>2, <2>3, <2>4, <3>1
    <3>2. CASE a \notin carried
      BY <1>1, <1>3, <2>2, <2>4, <3>2
    <3>3. QED BY <3>1, <3>2
  <2>6. QED BY <1>1, <1>3, <2>1, <2>2, <2>4, <2>5 DEF Agrees
<1>4. QED BY <1>2, <1>3

LEMMA OrgClean ==
  ASSUME OrgInv, pc = "idle", lastRun = "ok", calm,
         Org!Run \/ Org!NC2 \/ Org!Interference
  PROVE  pc' = "idle"
<1>1. CASE Org!Start
  <2>1. Agrees(Org!Refreshed, {})
    BY OrgIsKind, OrgRefreshes, AgreesAfterSuccess DEF OrgInv
  <2>2. QED BY <1>1, <2>1, OrgBegins DEF Org!Start
<1>2. CASE Org!Interference \/ Org!NC2
  BY <1>2 DEF Org!Interference, Org!NC2, Org!Terminated, Org!ImportState, Org!Import,
     Org!ChangeOutside, Org!EditConfig, Org!Fail, Org!Finish, Org!Stabilize
<1>3. ~(Org!Create \/ Org!Update \/ Org!Delete \/ Org!NotFound)
  BY DEF Org!Create, Org!Update, Org!Delete, Org!NotFound
<1>4. QED BY <1>1, <1>2, <1>3 DEF Org!Run

LEMMA AccClean ==
  ASSUME AccInv, pc = "idle", lastRun = "ok", calm,
         Account!Run \/ Account!Interference
  PROVE  pc' = "idle"
<1>1. CASE Account!Start
  <2>1. Agrees(Account!Refreshed, Account!ForcesReplace)
    <3>1. Account!ForcesReplace \subseteq AccNames
      BY DEF Account!ForcesReplace, AccNames
    <3>2. QED BY <3>1, AccIsKind, AccRefreshes, AgreesAfterSuccess DEF AccInv
  <2>2. QED BY <1>1, <2>1, AccBegins DEF Account!Start
<1>2. CASE Account!Interference
  BY <1>2 DEF Account!Interference, Account!ImportState, Account!Import,
     Account!ChangeOutside, Account!EditConfig, Account!Fail, Account!Finish,
     Account!Stabilize
<1>3. ~(\/ Account!Create \/ Account!Rotate \/ Account!Patch \/ Account!ReadBack
        \/ Account!Delete \/ Account!NotFound)
  BY DEF Account!Create, Account!Rotate, Account!Patch, Account!ReadBack, Account!Delete,
         Account!NotFound
<1>4. QED BY <1>1, <1>2, <1>3 DEF Account!Run

LEMMA RegClean ==
  ASSUME RegInv, pc = "idle", lastRun = "ok", calm,
         Region!Run \/ Region!Interference
  PROVE  pc' = "idle"
<1>1. CASE Region!Start
  <2>1. Agrees(Region!Refreshed, Region!ForcesReplace)
    <3>1. Region!ForcesReplace \subseteq RegNames
      BY DEF Region!ForcesReplace, RegNames
    <3>2. QED BY <3>1, RegIsKind, RegRefreshes, AgreesAfterSuccess DEF RegInv
  <2>2. QED BY <1>1, <2>1, RegBegins DEF Region!Start
<1>2. CASE Region!Interference
  BY <1>2 DEF Region!Interference, Region!ImportState, Region!Import,
     Region!ChangeOutside, Region!EditConfig, Region!Fail, Region!Finish, Region!Stabilize
<1>3. ~(Region!Create \/ Region!Delete)
  BY DEF Region!Create, Region!Delete
<1>4. QED BY <1>1, <1>2, <1>3 DEF Region!Run

-----------------------------------------------------------------------------
(* The actions.                                                            *)

Waiting == IF at = "waiting" THEN 1 ELSE 0

\* The effect of the task that is waited for, which is still to come.
Pending == IF at = "waiting" /\ task # "done" THEN 1 ELSE 0

Invocations == successes + failures + doubts + Waiting

\* Each invocation has at most one effect, to come or there.
ActionInv ==
  /\ RunnerTypeOK
  /\ Wait!TypeOK
  /\ Invocations <= MaxInvocations
  /\ late + level + Pending <= Invocations

LEMMA ActionInit == RunnerInit => ActionInv
BY StatefulAssumption
   DEF RunnerInit, ActionInv, RunnerTypeOK, Waiting, Pending, Invocations, Wait!TypeOK,
       Wait!Statuses, Wait!Terminal


\* One task less, and at most one effect more.
LEMMA Traded ==
  ASSUME NEW before \in Nat, NEW after \in Nat, before = after + 1,
         NEW done \in Nat, NEW effects \in Nat, effects <= done + 1,
         NEW pending \in Nat
  PROVE  after + effects + pending <= before + done + pending
OBVIOUS

LEMMA ActionStep ==
  ASSUME ActionInv, RunnerNext \/ UNCHANGED runnerVars
  PROVE  ActionInv'
<1>1. /\ op \in Operations /\ at \in {"idle", "waiting"} /\ task \in Wait!Statuses
      /\ verdict \in {"none", "done", "failed", "unknown"}
      /\ late \in Nat /\ level \in Nat
      /\ successes \in Nat /\ failures \in Nat /\ doubts \in Nat
      /\ MaxInvocations \in Nat
  BY StatefulAssumption DEF ActionInv, RunnerTypeOK, Wait!TypeOK
<1>2. /\ Waiting \in {0, 1} /\ Pending \in {0, 1}
      /\ at = "idle" => Waiting = 0 /\ Pending = 0
      /\ at = "waiting" => Waiting = 1
      /\ at = "waiting" /\ task # "done" => Pending = 1
      /\ at = "waiting" /\ task = "done" => Pending = 0
  BY DEF Waiting, Pending
<1>3. /\ Waiting' = IF at' = "waiting" THEN 1 ELSE 0
      /\ Pending' = IF at' = "waiting" /\ task' # "done" THEN 1 ELSE 0
  BY DEF Waiting, Pending
<1>4. /\ successes + failures + doubts + Waiting <= MaxInvocations
      /\ late + level + Pending <= successes + failures + doubts + Waiting
  BY DEF ActionInv, Invocations
<1>5. SUFFICES /\ op' \in Operations /\ at' \in {"idle", "waiting"} /\ task' \in Wait!Statuses
               /\ verdict' \in {"none", "done", "failed", "unknown"}
               /\ late' \in Nat /\ level' \in Nat
               /\ successes' \in Nat /\ failures' \in Nat /\ doubts' \in Nat
               /\ successes' + failures' + doubts' + Waiting' <= MaxInvocations
               /\ late' + level' + Pending' <= successes' + failures' + doubts' + Waiting'
  BY DEF ActionInv, RunnerTypeOK, Wait!TypeOK, Invocations
<1> HIDE DEF Waiting, Pending
<1>6. CarriedOut \in Nat /\ CarriedOut <= level + 1
  BY <1>1 DEF CarriedOut
<1>7. CASE InvokeFails
  <2>1. /\ at = "idle" /\ at' = at /\ op' = op /\ task' = task /\ verdict' = verdict
        /\ successes + failures + doubts < MaxInvocations
        /\ successes' = successes /\ failures' = failures /\ doubts' = doubts + 1
    BY <1>7 DEF InvokeFails, Ready, taskVars
  <2>2. \/ late' = late + 1 /\ level' = level
        \/ late' = late /\ level' \in Nat /\ level' <= level + 1
    BY <1>1, <1>6, <1>7 DEF InvokeFails, OnItsOwn
  <2>3. QED BY <1>1, <1>2, <1>3, <1>4, <2>1, <2>2
<1>8. CASE InvokeSucceeds
  <2>1. /\ at = "idle" /\ at' = at /\ op' = op /\ task' = task /\ verdict' = verdict
        /\ successes + failures + doubts < MaxInvocations
        /\ successes' = successes + 1 /\ failures' = failures /\ doubts' = doubts
    BY <1>8 DEF InvokeSucceeds, Ready, taskVars
  <2>2. \/ late' = late + 1 /\ level' = level
        \/ late' = late /\ level' \in Nat /\ level' <= level + 1
    BY <1>1, <1>6, <1>8 DEF InvokeSucceeds, OnItsOwn
  <2>3. QED BY <1>1, <1>2, <1>3, <1>4, <2>1, <2>2
<1>9. CASE InvokeWaits
  <2>1. /\ at = "idle" /\ at' = "waiting" /\ op' = op
        /\ task' = "pending" /\ verdict' = "none"
        /\ successes + failures + doubts < MaxInvocations
        /\ UNCHANGED <<late, level, successes, failures, doubts>>
    BY <1>9 DEF InvokeWaits, Ready, counters
  <2>2. "pending" \in Wait!Statuses
    BY DEF Wait!Statuses
  <2>3. QED BY <1>1, <1>2, <1>3, <1>4, <2>1, <2>2
<1>10. CASE Poll
  <2>1. /\ at = "waiting" /\ at' = at /\ op' = op
        /\ UNCHANGED <<late, successes, failures, doubts>>
        /\ level' = IF task # "done" /\ task' = "done" THEN CarriedOut ELSE level
    BY <1>10 DEF Poll, counters
  <2>2. /\ task' \in Wait!Statuses /\ (task = "done" => task' = "done")
        /\ verdict' \in {"none", "done", "failed", "unknown"}
    BY <1>10 DEF Poll, ActionInv, Wait!TypeOK, Wait!Next, Wait!Advance, Wait!Decide,
                 Wait!Successors, Wait!Statuses, Wait!Terminal
  <2>3. \/ level' = level /\ (task = "done" <=> task' = "done")
        \/ task # "done" /\ task' = "done" /\ level' \in Nat /\ level' <= level + 1
    <3>1. CASE task # "done" /\ task' = "done"
      <4>1. level' = CarriedOut
        BY <2>1, <3>1
      <4>2. QED BY <1>6, <3>1, <4>1
    <3>2. CASE task = "done"
      <4>1. task' = "done" /\ level' = level
        BY <2>1, <2>2, <3>2
      <4>2. QED BY <3>2, <4>1
    <3>3. CASE task # "done" /\ task' # "done"
      <4>1. level' = level
        BY <2>1, <3>3
      <4>2. QED BY <3>3, <4>1
    <3>4. QED BY <3>1, <3>2, <3>3
  <2>4. QED BY <1>1, <1>2, <1>3, <1>4, <2>1, <2>2, <2>3
<1>11. CASE Report
  <2>1. /\ at = "waiting" /\ at' = "idle" /\ op' = op /\ task' = task /\ verdict' = verdict
        /\ level' = level
    BY <1>11 DEF Report, taskVars
  <2>2. \/ successes' = successes + 1 /\ failures' = failures /\ doubts' = doubts
        \/ successes' = successes /\ failures' = failures + 1 /\ doubts' = doubts
        \/ successes' = successes /\ failures' = failures /\ doubts' = doubts + 1
    BY <1>11 DEF Report
  <2>3. late' = late \/ (task # "done" /\ late' = late + 1)
    BY <1>11 DEF Report, Wait!Terminal
  <2>4. QED BY <1>1, <1>2, <1>3, <1>4, <2>1, <2>2, <2>3
<1>12. CASE LateEnd
  <2>0. Waiting \in Nat /\ Pending \in Nat
    BY <1>2
  <2>1. /\ late > 0 /\ late' = late - 1
        /\ UNCHANGED <<op, at, task, verdict, successes, failures, doubts>>
    BY <1>12 DEF LateEnd, taskVars, counters
  <2>2. level' \in Nat /\ level' <= level + 1
    BY <1>1, <1>6, <1>12 DEF LateEnd
  <2>3. Waiting' = Waiting /\ Pending' = Pending
    BY <2>1 DEF Waiting, Pending
  <2>4. late' \in Nat /\ late = late' + 1
    BY <1>1, <2>1
  <2>5. late' + level' + Pending <= late + level + Pending
    BY <1>1, <2>2, <2>4, <2>0, Traded
  <2>6. successes' + failures' + doubts' + Waiting' = successes + failures + doubts + Waiting
    BY <2>1, <2>3
  <2>7. late' + level' + Pending' <= successes' + failures' + doubts' + Waiting'
    <3>1. late' + level' + Pending \in Nat
      <4>1. late' \in Nat /\ level' \in Nat /\ Pending \in Nat
        BY <2>0, <2>2, <2>4
      <4>2. \A x, y, z \in Nat : x + y + z \in Nat
        OBVIOUS
      <4>3. QED BY <4>1, <4>2
    <3>2. late + level + Pending \in Nat
      BY <1>1, <2>0
    <3>3. successes + failures + doubts + Waiting \in Nat
      BY <1>1, <2>0
    <3>4. \A x, y, z \in Nat : (x <= y /\ y <= z) => x <= z
      OBVIOUS
    <3>5. late' + level' + Pending <= successes + failures + doubts + Waiting
      BY <1>4, <2>5, <3>1, <3>2, <3>3, <3>4
    <3>6. QED BY <2>3, <2>6, <3>5
  <2>8. QED BY <1>1, <1>4, <2>1, <2>2, <2>4, <2>6, <2>7
<1>13. CASE UNCHANGED runnerVars
  <2>1. UNCHANGED <<op, at, task, verdict, late, level, successes, failures, doubts>>
    BY <1>13 DEF runnerVars, taskVars, counters
  <2>2. Waiting' = Waiting /\ Pending' = Pending
    BY <2>1 DEF Waiting, Pending
  <2>3. QED BY <1>1, <1>2, <1>4, <2>1, <2>2
<1>14. QED BY <1>7, <1>8, <1>9, <1>10, <1>11, <1>12, <1>13 DEF RunnerNext

-----------------------------------------------------------------------------
(* The theorems.                                                           *)

\* The invariant of the part that a behaviour is about.
PartInv ==
  /\ part = "organization" => OrgInv
  /\ part = "cloud_account" => AccInv /\ CredInv
  /\ part = "cloud_account_region" => RegInv
  /\ ActionInv

\* There is nothing yet.
LEMMA KindInit ==
  ASSUME NEW ids, NEW attributes, NEW names, NEW configs,
         IsKind(ids, attributes, names, configs),
         config = None, state = None, plan = None, pc = "idle",
         remote = [id \in ids |-> None], lastRun = "none", calm = TRUE, stray = {}, changes = 0
  PROVE  KindInv(ids, attributes, names, configs)
<1>1. RunInv(ids, attributes, configs)
  BY DEF RunInv, Steps
<1>2. 0 \in 0..MaxChanges
  BY StatefulAssumption
<1>3. \A id : ~There(ids, id)
  BY DEF There
<1>4. StoreInv(ids, attributes)
  BY <1>2, <1>3 DEF StoreInv
<1>5. QED BY <1>1, <1>4 DEF KindInv, DoneInv

LEMMA PartInit == Init => PartInv
<1> SUFFICES ASSUME Init PROVE PartInv
  OBVIOUS
<1>1. RunnerInit
  BY DEF Init
<1>2. ASSUME part = "organization" PROVE OrgInv
  <2>1. Org!Init /\ going = {}
    BY <1>2 DEF Init, Org!OrgInit
  <2>2. KindInv(OrganizationIds, Org!Attributes, OrgNames, OrganizationConfigs)
    BY <2>1, OrgIsKind, KindInit DEF Org!Init, Org!None, None
  <2>3. QED BY <2>1, <2>2 DEF OrgInv
<1>3. ASSUME part = "cloud_account" PROVE AccInv /\ CredInv
  <2>1. Account!Init /\ suspect = {} /\ going = {}
    BY <1>3 DEF Init, Account!AccountInit
  <2>2. KindInv(AccountIds, Account!Attributes, AccNames, AccountConfigs)
    BY <2>1, AccIsKind, KindInit DEF Account!Init, Account!None, None
  <2>3. pc = "idle" /\ state = None
    BY <2>1 DEF Account!Init, Account!None, None
  <2>4. QED BY <2>1, <2>2, <2>3 DEF AccInv, CredInv
<1>4. ASSUME part = "cloud_account_region" PROVE RegInv
  <2>1. Region!Init /\ going = {}
    BY <1>4 DEF Init
  <2>2. KindInv(RegionIds, Region!Attributes, RegNames, RegionConfigs)
    BY <2>1, RegIsKind, KindInit DEF Region!Init, Region!None, None
  <2>3. state = None /\ \A id \in RegionIds : remote[id] = None
    BY <2>1 DEF Region!Init, Region!None, None
  <2>4. QED BY <2>1, <2>2, <2>3 DEF RegInv
<1>5. QED BY <1>1, <1>2, <1>3, <1>4, ActionInit DEF PartInv

\* A step is one of the part that the behaviour is about.
LEMMA StepOfPart ==
  ASSUME [Next]_statefulVars
  PROVE  /\ part' = part
         /\ RunnerNext \/ UNCHANGED runnerVars
         /\ part = "organization" =>
              Org!Run \/ Org!NC2 \/ Org!Interference \/ UNCHANGED resourceVars
         /\ part = "cloud_account" =>
              \/ (Account!Run \/ Account!Interference) /\ UNCHANGED going
              \/ UNCHANGED resourceVars
         /\ part = "cloud_account_region" =>
              \/ (Region!Run \/ Region!Interference) /\ UNCHANGED going
              \/ UNCHANGED resourceVars
         /\ part \notin {"organization", "cloud_account", "cloud_account_region"} =>
              UNCHANGED resourceVars
<1>1. CASE ResourceRun
  BY <1>1 DEF ResourceRun
<1>2. CASE Terminations
  BY <1>2 DEF Terminations
<1>3. CASE Interference
  BY <1>3 DEF Interference
<1>4. CASE Action
  BY <1>4 DEF Action
<1>5. CASE UNCHANGED statefulVars
  BY <1>5 DEF statefulVars
<1>6. QED BY <1>1, <1>2, <1>3, <1>4, <1>5 DEF Next

LEMMA PartStep == PartInv /\ [Next]_statefulVars => PartInv'
<1> SUFFICES ASSUME PartInv, [Next]_statefulVars PROVE PartInv'
  OBVIOUS
<1>1. part' = part /\ ActionInv'
  BY StepOfPart, ActionStep DEF PartInv
<1>2. part = "organization" => OrgInv'
  BY StepOfPart, OrgStep DEF PartInv
<1>3. part = "cloud_account" => AccInv' /\ CredInv'
  BY StepOfPart, AccStep DEF PartInv
<1>4. part = "cloud_account_region" => RegInv'
  BY StepOfPart, RegStep DEF PartInv
<1>5. QED BY <1>1, <1>2, <1>3, <1>4 DEF PartInv

LEMMA PartInvariant == Spec => []PartInv
BY PartInit, PartStep, PTL DEF Spec

\* What KindInv says of the types.
LEMMA KindTypes ==
  ASSUME NEW ids, NEW attributes, NEW names, NEW configs,
         IsKind(ids, attributes, names, configs), KindInv(ids, attributes, names, configs),
         NEW settings, settings = [attributes -> Values \cup {Null, Unknown, "active"}]
  PROVE  /\ state = None \/ state \in [id : ids \cup {TaskId}, attrs : settings, tainted : BOOLEAN]
         /\ plan = None \/ plan \in settings
         /\ pc \in Steps
         /\ \A id \in ids : There(ids, id) => remote[id] \in settings
         /\ lastRun \in {"none", "ok", "error"}
         /\ stray \subseteq ids
         /\ changes \in 0..MaxChanges
<1>1. Known(attributes) \subseteq settings
  BY DEF Known
<1>2. state = None \/ state \in [id : ids \cup {TaskId}, attrs : settings, tainted : BOOLEAN]
  <2>1. state = None \/ state \in Stored(ids, attributes)
    BY DEF KindInv, RunInv
  <2>2. QED BY <1>1, <2>1 DEF Stored
<1>3. plan = None \/ plan \in settings
  <2>1. CASE plan # None
    <3>1. config \in configs /\ plan = Proposal(attributes)
      BY <2>1 DEF KindInv, RunInv
    <3>2. plan \in [attributes -> Values \cup {Null, Unknown}]
      BY <3>1, ProposalFacts
    <3>3. QED BY <3>2
  <2>2. QED BY <2>1
<1>4. \A id \in ids : There(ids, id) => remote[id] \in settings
  BY <1>1 DEF KindInv, StoreInv, There
<1>5. QED BY <1>2, <1>3, <1>4 DEF KindInv, RunInv, StoreInv

\* Every part keeps to its types, whatever fails, is lost or is done by others.
THEOREM StatefulTypes == Spec => []TypeOK
<1>1. PartInv => TypeOK
  <2> SUFFICES ASSUME PartInv PROVE TypeOK
    OBVIOUS
  <2>1. ASSUME part = "organization"
        PROVE  Org!TypeOK(Org!Attributes) /\ going \subseteq OrganizationIds
    <3>1. OrgInv
      BY <2>1 DEF PartInv
    <3>2. KindInv(OrganizationIds, Org!Attributes, OrgNames, OrganizationConfigs)
      BY <3>1 DEF OrgInv
    <3>3. Org!TypeOK(Org!Attributes)
      <4> DEFINE settings == [Org!Attributes -> Values \cup {Null, Unknown, "active"}]
      <4>1. /\ \/ state = None
               \/ state \in [id : OrganizationIds \cup {TaskId}, attrs : settings, tainted : BOOLEAN]
            /\ plan = None \/ plan \in settings
            /\ pc \in Steps
            /\ \A id \in OrganizationIds : There(OrganizationIds, id) => remote[id] \in settings
            /\ lastRun \in {"none", "ok", "error"}
            /\ stray \subseteq OrganizationIds
            /\ changes \in 0..MaxChanges
        <5> HIDE DEF settings
        <5>1. settings = [Org!Attributes -> Values \cup {Null, Unknown, "active"}]
          BY DEF settings
        <5>2. QED BY <3>2, <5>1, OrgIsKind, KindTypes
      <4>2. QED BY <4>1, OrgWays DEF Org!TypeOK, Org!None, None, Steps
    <3>4. QED BY <3>1, <3>3 DEF OrgInv
  <2>2. ASSUME part = "cloud_account"
        PROVE  Account!TypeOK(Account!Attributes) /\ suspect \subseteq AccountIds
    <3>1. AccInv
      BY <2>2 DEF PartInv
    <3>2. KindInv(AccountIds, Account!Attributes, AccNames, AccountConfigs)
      BY <3>1 DEF AccInv
    <3>3. Account!TypeOK(Account!Attributes)
      <4> DEFINE settings == [Account!Attributes -> Values \cup {Null, Unknown, "active"}]
      <4>1. /\ \/ state = None
               \/ state \in [id : AccountIds \cup {TaskId}, attrs : settings, tainted : BOOLEAN]
            /\ plan = None \/ plan \in settings
            /\ pc \in Steps
            /\ \A id \in AccountIds : There(AccountIds, id) => remote[id] \in settings
            /\ lastRun \in {"none", "ok", "error"}
            /\ stray \subseteq AccountIds
            /\ changes \in 0..MaxChanges
        <5> HIDE DEF settings
        <5>1. settings = [Account!Attributes -> Values \cup {Null, Unknown, "active"}]
          BY DEF settings
        <5>2. QED BY <3>2, <5>1, AccIsKind, KindTypes
      <4>2. QED BY <4>1, AccWays DEF Account!TypeOK, Account!None, None, Steps
    <3>4. QED BY <3>1, <3>3 DEF AccInv
  <2>3. ASSUME part = "cloud_account_region"
        PROVE  Region!TypeOK(Region!Attributes)
    <3>1. RegInv
      BY <2>3 DEF PartInv
    <3>2. KindInv(RegionIds, Region!Attributes, RegNames, RegionConfigs)
      BY <3>1 DEF RegInv
    <3>3. Region!TypeOK(Region!Attributes)
      <4> DEFINE settings == [Region!Attributes -> Values \cup {Null, Unknown, "active"}]
      <4>1. /\ \/ state = None
               \/ state \in [id : RegionIds \cup {TaskId}, attrs : settings, tainted : BOOLEAN]
            /\ plan = None \/ plan \in settings
            /\ pc \in Steps
            /\ \A id \in RegionIds : There(RegionIds, id) => remote[id] \in settings
            /\ lastRun \in {"none", "ok", "error"}
            /\ stray \subseteq RegionIds
            /\ changes \in 0..MaxChanges
        <5> HIDE DEF settings
        <5>1. settings = [Region!Attributes -> Values \cup {Null, Unknown, "active"}]
          BY DEF settings
        <5>2. QED BY <3>2, <5>1, RegIsKind, KindTypes
      <4>2. QED BY <4>1, RegWays DEF Region!TypeOK, Region!None, None, Steps
    <3>4. QED BY <3>3
  <2>4. /\ Wait!TypeOK
        /\ at \in {"idle", "waiting"}
        /\ successes + failures + doubts <= MaxInvocations
        /\ late + level <= MaxInvocations
    <3>1. ActionInv
      BY DEF PartInv
    <3>2. /\ successes \in Nat /\ failures \in Nat /\ doubts \in Nat
          /\ late \in Nat /\ level \in Nat
          /\ MaxInvocations \in Nat
      BY <3>1, StatefulAssumption DEF ActionInv, RunnerTypeOK
    <3>3. Waiting \in Nat /\ Pending \in Nat
      BY DEF Waiting, Pending
    <3>4. /\ successes + failures + doubts + Waiting <= MaxInvocations
          /\ late + level + Pending <= successes + failures + doubts + Waiting
      BY <3>1 DEF ActionInv, Invocations
    <3>5. successes + failures + doubts <= MaxInvocations /\ late + level <= MaxInvocations
      BY <3>2, <3>3, <3>4
    <3>6. QED BY <3>1, <3>5 DEF ActionInv, RunnerTypeOK
  <2>5. QED BY <2>1, <2>2, <2>3, <2>4 DEF TypeOK
<1>2. QED BY PartInvariant, <1>1, PTL

\* Every object at NC2 is the one in the state, is being terminated, or an error
\* or a warning said that it would remain, when the rows of regions have their
\* names (create and delete of the three resources).
THEOREM NothingLost ==
  ASSUME RowsNamed
  PROVE  Spec => []NothingLostSilently
<1>1. PartInv => NothingLostSilently
  <2> SUFFICES ASSUME PartInv PROVE NothingLostSilently
    OBVIOUS
  <2>1. part = "organization" => Org!NothingLostSilently(going)
    BY OrgWays DEF PartInv, OrgInv, KindInv, StoreInv, Org!NothingLostSilently, Org!None, None
  <2>2. part = "cloud_account" => Account!NothingLostSilently({})
    BY AccWays DEF PartInv, AccInv, KindInv, StoreInv, Account!NothingLostSilently,
       Account!None, None
  <2>3. part = "cloud_account_region" => Region!NothingLostSilently({})
    BY RegWays DEF PartInv, RegInv, KindInv, StoreInv, Region!NothingLostSilently,
       Region!None, None
  <2>4. QED BY <2>1, <2>2, <2>3 DEF NothingLostSilently
<1>2. QED BY PartInvariant, <1>1, PTL

\* A success is one at NC2 too, when answers have their attributes: the object of
\* the block is there and as configured (the applies of the three resources).
THEOREM SuccessOfParts ==
  ASSUME AnswersComplete
  PROVE  Spec => []SuccessIsReal
<1>1. PartInv => SuccessIsReal
  <2> SUFFICES ASSUME PartInv PROVE SuccessIsReal
    OBVIOUS
  <2>1. ASSUME NEW ids, NEW attributes, NEW names, NEW configs,
               IsKind(ids, attributes, names, configs), names \ {"credentials"} \subseteq Shown,
               KindInv(ids, attributes, names, configs),
               pc = "idle", lastRun = "ok", calm, config # None
        PROVE  /\ state # None /\ There(ids, state.id)
               /\ \A a \in DOMAIN config \ {"credentials"} : remote[state.id][a] = config[a]
    <3>1. DOMAIN config = names
      BY <2>1, KindFacts DEF KindInv, RunInv
    <3>2. QED BY <2>1, <3>1 DEF KindInv, DoneInv
  <2>0. /\ OrgNames \ {"credentials"} \subseteq Shown
        /\ AccNames \ {"credentials"} \subseteq Shown
        /\ RegNames \ {"credentials"} \subseteq Shown
    BY DEF AnswersComplete, Shown, OrgNames, AccNames, RegNames
  <2>2. part = "organization" => Org!SuccessIsReal
    BY <2>0, <2>1, OrgWays, OrgIsKind DEF PartInv, OrgInv, Org!SuccessIsReal, Org!None, None
  <2>3. part = "cloud_account" => Account!SuccessIsReal
    BY <2>0, <2>1, AccWays, AccIsKind DEF PartInv, AccInv, Account!SuccessIsReal, Account!None, None
  <2>4. part = "cloud_account_region" => Region!SuccessIsReal
    BY <2>0, <2>1, RegWays, RegIsKind DEF PartInv, RegInv, Region!SuccessIsReal, Region!None, None
  <2>5. QED BY <2>2, <2>3, <2>4 DEF SuccessIsReal
<1>2. QED BY PartInvariant, <1>1, PTL

\* Between runs a read of the id in the state finds the object, unless it was
\* removed behind the last one, when a create answers with the object and not
\* with its task (spec.md:37).
THEOREM ReadBacks ==
  ASSUME "task" \notin CreateAnswers
  PROVE  Spec => []ReadBackFindsIt
<1>1. PartInv => ReadBackFindsIt
  <2> SUFFICES ASSUME PartInv PROVE ReadBackFindsIt
    OBVIOUS
  <2>1. part = "organization" => Org!ReadBackFindsIt
    BY OrgWays DEF PartInv, OrgInv, KindInv, StoreInv, Org!ReadBackFindsIt, Org!None, None
  <2>2. part = "cloud_account" => Account!ReadBackFindsIt
    BY AccWays DEF PartInv, AccInv, KindInv, StoreInv, Account!ReadBackFindsIt,
       Account!None, None
  <2>3. part = "cloud_account_region" => Region!ReadBackFindsIt
    BY RegWays DEF PartInv, RegInv, KindInv, StoreInv, Region!ReadBackFindsIt,
       Region!None, None
  <2>4. QED BY <2>1, <2>2, <2>3 DEF ReadBackFindsIt
<1>2. QED BY PartInvariant, <1>1, PTL

\* NC2 has the credentials that a successful run was configured with, whatever
\* rotation failed before, unless others were set behind it (resource.go, Update).
THEOREM CredentialsHold == Spec => []CredentialsReal
<1>1. PartInv => CredentialsReal
  <2> SUFFICES ASSUME PartInv, part = "cloud_account",
                      pc = "idle", lastRun = "ok", calm, config # None, state # None
               PROVE  \/ state.id \in suspect
                      \/ remote[state.id]["credentials"] = config["credentials"]
    BY DEF CredentialsReal, Account!CredentialsReal, Account!None, None
  <2>1. KindInv(AccountIds, Account!Attributes, AccNames, AccountConfigs) /\ CredInv
    BY DEF PartInv, AccInv
  <2>2. There(AccountIds, state.id) /\ state.attrs["credentials"] = config["credentials"]
    BY <2>1 DEF KindInv, DoneInv, AccNames
  <2>3. QED BY <2>1, <2>2 DEF CredInv
<1>2. QED BY PartInvariant, <1>1, PTL

\* A plan after a successful apply has no changes, whatever NC2's answers carry
\* (spec.md:226, FR-018).
THEOREM CleanPlans == Spec => CleanPlanAfterApply
<1>1. PartInv /\ [Next]_statefulVars => [Org!CleanPlanStep]_statefulVars
  <2> SUFFICES ASSUME PartInv, [Next]_statefulVars, pc = "idle", lastRun = "ok", calm
               PROVE  pc' = "idle"
    BY DEF Org!CleanPlanStep
  <2>1. UNCHANGED resourceVars => pc' = "idle"
    BY DEF resourceVars
  <2>2. part = "organization" => pc' = "idle"
    BY <2>1, StepOfPart, OrgClean DEF PartInv
  <2>3. part = "cloud_account" => pc' = "idle"
    BY <2>1, StepOfPart, AccClean DEF PartInv
  <2>4. part = "cloud_account_region" => pc' = "idle"
    BY <2>1, StepOfPart, RegClean DEF PartInv
  <2>5. QED BY <2>1, <2>2, <2>3, <2>4, StepOfPart
<1>2. QED BY PartInvariant, <1>1, PTL DEF Spec, CleanPlanAfterApply

=============================================================================
