--------------------------- MODULE SensitiveLint ----------------------------
(***************************************************************************)
(* The repository tool sensitive-lint: every attribute of openapi.json     *)
(* with a sensitive name is in the registry of a resource.  The document   *)
(* is a JSON value, and names are as Redaction has them.                   *)
(***************************************************************************)
EXTENDS Redaction, FiniteSets

Keyword == <<"properties">>

\* The properties an object of the document declares.
Declared(node) ==
  IF Keyword \in DOMAIN node.of /\ node.of[Keyword].is = "map" THEN node.of[Keyword].of ELSE <<>>


\* walkAny: the names of the properties at any depth.
RECURSIVE WalkAny(_)
WalkAny(node) ==
  CASE node.is = "map" ->
         DOMAIN Declared(node)
           \cup UNION {WalkAny(Declared(node)[name]) : name \in DOMAIN Declared(node)}
           \cup UNION {WalkAny(node.of[key]) : key \in DOMAIN node.of \ {Keyword}}
    [] node.is = "list" -> UNION {WalkAny(node.of[i]) : i \in DOMAIN node.of}
    [] OTHER -> {}

\* loadPatternedAttributes: those with a sensitive name.
LoadPatternedAttributes(schema) == {name \in WalkAny(schema) : MatchPattern(name)}

\* The last name of a dotted path.
LeafName(path) == path[Len(path)]

\* run, of sensitive-lint: an attribute is classified when the last name of a
\* path in a registry is its name.
Lint(schema, registry, strict) ==
  LET hits == LoadPatternedAttributes(schema)
      findings == hits \ {LeafName(p) : p \in registry}
  IN [classified |-> Cardinality(hits \ findings), findings |-> findings,
      exit |-> IF strict /\ findings # {} THEN 1 ELSE 0]

\* Whether the last key of a path in the document is the name of a property: it
\* follows a "properties" that is not itself such a name.
IsProperty(path) ==
  FoldLeft(LAMBDA role, key : IF role = "keyword" THEN "name"
                              ELSE IF key = Keyword THEN "keyword" ELSE "other",
           "other", path) = "name"

\* The first of the two clauses of FR-002a (spec.md:165), which is the one the
\* tool checks: a strict run passes exactly when every property with a sensitive
\* name of its own, however deep in the document, is at the end of a path that
\* some resource registers.  It reports neither a property that is sensitive by
\* its parent only, nor a path of a registry that the document has no property
\* for (extra_registry, main.go:10-13 and 51).
LintHolds(schema, registry, strict, result) ==
  LET paths == UNION {{SubSeq(l.path, 1, n) : n \in 1..Len(l.path)} : l \in LeavesOf(schema)}
      sensitive == {p[Len(p)] : p \in {q \in paths : IsProperty(q) /\ MatchPattern(q[Len(q)])}}
      kept == {n \in sensitive : \E p \in registry : p[Len(p)] = n}
  IN /\ result.findings = sensitive \ kept
     /\ result.exit = 1 <=> strict /\ sensitive # kept
     /\ result.classified = Cardinality(kept)

=============================================================================
