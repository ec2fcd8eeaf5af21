---------------------------- MODULE ComputedParts ----------------------------
(***************************************************************************)
(* The parts of the provider that compute one output from one input, by    *)
(* going through it once: what a data source shows, the errors of a        *)
(* capacity, the configuration of the provider, and coverage-check.  A     *)
(* behaviour is one call of one of them, the computation.                  *)
(***************************************************************************)
EXTENDS DataSources, CapacityValidation, ProviderConfig, OpenApiCoverage

CONSTANTS
  Items, MaxItems,                    \* what may be listed, and how many of it
  Capacities,
  Texts, ProviderInputs,
  CoverageInputs                      \* of a document and the source tree

VARIABLES computation, input, output

computedVars == <<computation, input, output>>

ASSUME ComputedAssumption ==
  /\ Items \subseteq Item
  /\ Capacities \subseteq Seq(Element)
  /\ {Unset, "default"} \subseteq Texts
  /\ "default" \in Profiles
  /\ ProviderInputs \subseteq ConfigureInputs(Texts)
  /\ \A i \in CoverageInputs : IsFiniteSet(i.document) /\ Ordered(i.tree.rows)

Nothing == [nothing |-> TRUE]

-----------------------------------------------------------------------------

ComputedInit ==
  /\ output = Nothing
  /\ \/ /\ computation = "data_sources"
        /\ \E s \in Sources, i \in {i \in SUBSET Items : IsFiniteSet(i)} :
             /\ Cardinality(i) \in 1..MaxItems
             /\ input = [source |-> s, items |-> i]
     \/ /\ computation = "capacity"
        /\ input \in [cloud : {"aws", "azure"}, capacity : Capacities]
     \/ computation = "provider" /\ input \in ProviderInputs
     \/ computation = "coverage" /\ input \in CoverageInputs

ReadDataSource ==
  /\ computation = "data_sources"
  /\ output' \in [result : Shown(input.source, input.items)]

ValidateCapacity ==
  /\ computation = "capacity"
  /\ output' = [result |-> Validate(input.cloud, input.capacity)]

ConfigureProvider ==
  /\ computation = "provider"
  /\ output' = [result |-> Configure(input)]

CheckCoverage ==
  /\ computation = "coverage"
  /\ output' = [result |-> CoverageCheck(input.document, input.tree)]

ComputedNext ==
  /\ output = Nothing
  /\ ReadDataSource \/ ValidateCapacity \/ ConfigureProvider \/ CheckCoverage
  /\ UNCHANGED <<computation, input>>

ComputedSpec == ComputedInit /\ [][ComputedNext]_computedVars

-----------------------------------------------------------------------------

\* spec.md:208 (FR-015), lists are in the same order every time (DataSources).
StableOrder ==
  computation = "data_sources" /\ output # Nothing =>
    ListedInOrder(input.source, input.items, output.result)

\* A plan refuses a capacity only if no value of its unknown counts can make it
\* fit, and every one with known counts that does not (CapacityValidation).
RefusedOnlyIfHopeless ==
  computation = "capacity" /\ output # Nothing =>
    HopelessIfRefused(input.cloud, input.capacity, output.result)

\* A credentials file gives a key the value it has last (ProviderConfig).
LastAssignmentWins == computation = "provider" => ReadAsWritten(input.onDisk.lines)

\* spec.md (FR-001a), block before environment before file (ProviderConfig).
PrecedenceHolds ==
  computation = "provider" /\ output # Nothing => FollowsPrecedence(input, output.result)

\* FR-021, what coverage-check reads in the sources and what the provider's
\* packages register differ only by packages and rows that break the convention
\* the two rely on, and the report accounts for all (OpenApiCoverage).
CoverageAccountsForAll ==
  computation = "coverage" /\ output # Nothing =>
    CoverageHolds(input.document, input.tree, output.result)

=============================================================================
