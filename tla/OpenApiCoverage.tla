-------------------------- MODULE OpenApiCoverage ---------------------------
(***************************************************************************)
(* The repository tool coverage-check and the registry of the provider:    *)
(* every operation of openapi.json is called by something of the provider. *)
(* The provider registers its calls when its packages are initialised; the *)
(* tool runs none of it and reads source files instead.  Both are modelled *)
(* over one source tree,                                                   *)
(*                                                                         *)
(*   rows       the rows of the packages' OperationMappings: the ids of an *)
(*              operation and of the Terraform operation that calls it,    *)
(*              the file, the rank of the row's name in the order of       *)
(*              names, and whether both ids stand in it as keyed string    *)
(*              literals in a composite literal,                           *)
(*   seen       the files the tool opens: those named openapi_mapping.go   *)
(*              that are under no directory it skips,                      *)
(*   registers  the files of the packages whose init registers the rows.   *)
(***************************************************************************)
EXTENDS Naturals, FiniteSets

None == [none |-> TRUE]

\* The files, and the names in a file, come in an order.
Ordered(rows) == \A r \in rows : r.file \in Nat /\ r.rank \in Nat

\* Seeded fault for Register: a row may lack the name of its caller.
RegisterUnnamed(registry, mappings) ==
  registry \cup {[id |-> m.id, op |-> m.op] : m \in {m \in mappings : m.id # ""}}

\* Register, of the rows of a package: without blanks, each pair once.
Register(registry, mappings) ==
  registry \cup {[id |-> m.id, op |-> m.op] :
                    m \in {m \in mappings : m.id # "" /\ m.op # ""}}

\* What Default holds once the packages are initialised.
Default(tree) == Register({}, {r \in tree.rows : r.file \in tree.registers})

\* extractMapping: a row is taken from its literals, without blanks.
ExtractMapping(rows) == {r \in rows : r.literal /\ r.id # "" /\ r.op # ""}

\* scanMappings, through the tree to the files it opens.
ScanMappings(tree) == ExtractMapping({r \in tree.rows : r.file \in tree.seen})

\* loadOperations: what a path has under a name that is not a method, or that
\* is not an object, is no operation.
LoadOperations(document) == {o \in document : o.method # "other" /\ o.object}

\* The first of the mappings of an operation, by file and then by name.
Pinned(matches) ==
  CHOOSE m \in matches : \A n \in matches :
    m.file < n.file \/ (m.file = n.file /\ m.rank <= n.rank)

BuildReport(operations, mappings) ==
  LET Matches(o) == {m \in mappings : m.id = o.id}
      covered == {o \in operations : Matches(o) # {}}
  IN [uncovered |-> operations \ covered,
      covered |-> Cardinality(covered),
      pairs |-> [o \in operations |-> IF o \in covered THEN Pinned(Matches(o)) ELSE None],
      extras |-> {m \in mappings : m.id \notin {o.id : o \in operations}}]

\* run, of coverage-check.
CoverageCheck(document, tree) ==
  LET report == BuildReport(LoadOperations(document), ScanMappings(tree))
  IN [report |-> report, exit |-> IF report.uncovered = {} THEN 0 ELSE 1]

-----------------------------------------------------------------------------

\* The convention of mapping.go's head: a package declares its rows as literals
\* in a file that the tool opens, and its init registers them.
Conventional(tree) == \A r \in tree.rows :
  r.literal /\ r.file \in tree.seen /\ r.file \in tree.registers

\* FR-021, of the exit code (mapping.go:17 has the tool walk the registry, and
\* main.go:185 has it parse files).  Of a tree that keeps the convention, it is
\* 0 exactly when the registry has every operation.  Of any other tree, what
\* the tool counts and the registry lacks is declared by a package that does
\* not register, and what the registry has and the tool reports stands in a
\* file that the tool does not open or is not written as literals.
ToolAgrees(document, tree, result) ==
  LET operations == {o \in document : o.method # "other" /\ o.object}
      Called(o) == \E m \in Default(tree) : m.id = o.id
      uncovered == result.report.uncovered
  IN /\ Conventional(tree) => ((result.exit = 0) <=> \A o \in operations : Called(o))
     /\ \A o \in operations \ uncovered : ~Called(o) =>
          \E r \in tree.rows : r.id = o.id /\ r.file \notin tree.registers
     /\ \A o \in uncovered : Called(o) =>
          \E r \in tree.rows : r.id = o.id /\ (r.file \notin tree.seen \/ ~r.literal)

\* FR-021a, of the report: it accounts for every operation, and an operation is
\* pinned to a row of its own, of the first file that has one.
ReportAccounts(document, tree, report) ==
  LET operations == {o \in document : o.method # "other" /\ o.object}
  IN /\ report.covered + Cardinality(report.uncovered) = Cardinality(operations)
     /\ \A o \in operations \ report.uncovered :
          /\ report.pairs[o] \in tree.rows
          /\ report.pairs[o].id = o.id
          /\ \A r \in ScanMappings(tree) : r.id = o.id => report.pairs[o].file <= r.file

CoverageHolds(document, tree, result) ==
  ToolAgrees(document, tree, result) /\ ReportAccounts(document, tree, result.report)

=============================================================================
