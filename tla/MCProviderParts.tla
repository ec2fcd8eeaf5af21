-------------------------- MODULE MCProviderParts ---------------------------
(***************************************************************************)
(* The instance of ProviderParts that TLC checks: that of StatefulParts,   *)
(* and inputs for the computations.                                        *)
(***************************************************************************)
EXTENDS ProviderParts, MCStatefulParts, TLC

MCItems ==
  {[object |-> FALSE]}
    \cup {[object |-> TRUE, id |-> i, under |-> u, rest |-> "string"] :
            i \in {1, 2}, u \in BOOLEAN}
    \cup {[object |-> TRUE, id |-> 0, under |-> TRUE, rest |-> "number"],
          [object |-> TRUE, id |-> 3, under |-> TRUE, rest |-> "bool"]}

Hosts(hosts, n, type) == [hosts |-> hosts, n |-> n, type |-> type]

MCElements ==
  {Hosts("number", n, "AN64") : n \in {0, 1, 2, 3, 25, 26, 28}}
    \cup {Hosts("number", 1, "other"), Hosts("text", 0, "AN36P"),
          Hosts("unknown", 0, "unknown"), Hosts("missing", 0, "missing")}

MCCapacities == UNION {[1..n -> MCElements] : n \in 0..2} \cup
  [1..3 -> {Hosts("number", n, "AN64") : n \in {1, 2, 25}} \cup
           {Hosts("unknown", 0, "AN64")}]

MCLines ==
  {[is |-> "section", name |-> n] : n \in {"", "staging", "default"}}
    \cup {[is |-> "setting", key |-> "api_key", value |-> x] : x \in {"a", "b"}}
    \cup {[is |-> "setting", key |-> "issuer", value |-> "i"], [is |-> "skipped"]}

MCFiles ==
  {[readable |-> TRUE, there |-> TRUE, lines |-> l] :
     l \in UNION {[1..n -> MCLines] : n \in 0..3} \cup
           {<<x, y, z, x, w>> : x \in {[is |-> "section", name |-> "staging"]},
                                y, z, w \in MCLines}}

NoFile == [readable |-> FALSE, there |-> FALSE, lines |-> <<>>]

Block(apiKey, profile) ==
  [api_key |-> apiKey, key_id |-> "k", issuer |-> "", profile |-> profile,
   credentials_file |-> ""]

Environment(apiKey, issuer, profile, path) ==
  [api_key |-> apiKey, key_id |-> "", issuer |-> issuer, profile |-> profile,
   credentials_file |-> path]

MCProviderInputs ==
  [block : {Block("a", ""), Block("", "staging"), Block(NotKnown, "")},
   env : {Environment("", "", "", ""), Environment("b", "i", "staging", "")},
   onDisk : MCFiles, bundle : {"none"}]
  \cup
  [block : {Block("a", "")}, env : {Environment("b", "i", "", p) : p \in {"", "path"}},
   onDisk : {NoFile, [NoFile EXCEPT !.there = TRUE]},
   bundle : {"none", "certificate", "other"}]

Operation(id, method, object) == [id |-> id, method |-> method, object |-> object]

Declares(id, caller, file, rank, literal) ==
  [id |-> id, op |-> caller, file |-> file, rank |-> rank, literal |-> literal]

MCCoverageInputs ==
  [document : SUBSET {Operation("", "get", TRUE), Operation("o1", "get", TRUE),
                      Operation("o1", "put", TRUE), Operation("o2", "post", TRUE),
                      Operation("o2", "other", FALSE)},
   tree : [rows : SUBSET {Declares("o1", "x", 1, 1, TRUE), Declares("o1", "y", 2, 1, TRUE),
                          Declares("o2", "", 2, 2, TRUE), Declares("o2", "z", 3, 1, FALSE),
                          Declares("o3", "x", 2, 3, TRUE)},
           seen : {1..3, {1, 2}, {2, 3}}, registers : {1..3, {1, 3}, {2}}]]

Scalar == [is |-> "scalar", of |-> "value"]
Maps(names, values) == [is : {"map"}, of : UNION {[n -> values] : n \in SUBSET names}]
Nested(names) ==
  LET small == {Scalar} \cup Maps(names, {Scalar})
  IN Maps(names, small \cup {[is |-> "list", of |-> <<v>>] : v \in small})
MCDocuments ==
  Nested({<<"my", "api", "key">>, <<"tags">>}) \cup Nested({<<"credential", "s">>, <<"tags">>})

MCRegistries == {{}, {<<<<"tags">>>>}, {<<<<"tags">>, <<"tags">>>>}}

Flat == {Scalar} \cup [is : {"map"}, of : {<<>>, <<"token", "s">> :> Scalar}]

Inner == [is : {"map"}, of : UNION {[names -> Flat] : names \in SUBSET {<<"properties">>, <<"token">>}}]

Schema(properties, items) ==
  [is |-> "map", of |-> <<"properties">> :> properties @@ <<"items">> :> items]

MCLintInputs ==
  [schema : {Schema(p, [is |-> "list", of |-> <<i>>]) : p, i \in {Scalar} \cup Inner},
   registry : SUBSET {<<<<"login">>, <<"token">>>>, <<<<"token", "s">>>>,
                      <<<<"token">>, <<"name">>>>},
   strict : BOOLEAN]

=============================================================================
