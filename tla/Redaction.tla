----------------------------- MODULE Redaction ------------------------------
(***************************************************************************)
(* What is hidden of a request, a response or a record before it is shown  *)
(* (internal/redact).  A JSON value is [is |-> "scalar", of |-> value],    *)
(* [is |-> "map", of |-> function from names] or [is |-> "list", of |->    *)
(* sequence].  A name is what normalize leaves of it, in lower case and    *)
(* without underscores, as the sequence of pieces it is put together of:   *)
(* api_key and ApiKey are <<"api", "key">>, "credentialed" is              *)
(* <<"credential", "ed">>.  The pieces are such that a pattern that stands *)
(* in a name begins and ends with one of them: a name contains a pattern   *)
(* when the pattern's pieces are adjacent in it, whole word or not.        *)
(***************************************************************************)
EXTENDS Naturals, Sequences, SequencesExt

Sentinel == [is |-> "scalar", of |-> "(sensitive)"]

FR002Patterns ==
  {<<"credential">>, <<"password">>, <<"secret">>, <<"token">>, <<"private", "key">>,
   <<"api", "key">>}

\* Seeded fault for MatchPattern: the name as a whole.
MatchWholeName(name) == name \in FR002Patterns

\* A pattern stands somewhere in the name.
MatchPattern(name) ==
  \E pattern \in FR002Patterns, i \in 0..Len(name) :
    IsPrefix(pattern, SubSeq(name, i + 1, Len(name)))

\* Redact, by redactMap and redactValue; extra are the paths of the registry.
RECURSIVE RedactValue(_, _, _)
RedactValue(value, path, extra) ==
  LET Child(name) ==
        IF \/ Append(path, name) \in extra
           \/ MatchPattern(name) /\ value.of[name].is = "scalar"
          THEN Sentinel
        ELSE RedactValue(value.of[name], Append(path, name), extra)
  IN CASE value.is = "map" ->
            [value EXCEPT !.of = [name \in DOMAIN value.of |-> Child(name)]]
       [] value.is = "list" ->
            [value EXCEPT !.of = [i \in DOMAIN value.of |-> RedactValue(value.of[i], path, extra)]]
       [] OTHER -> value

Redact(document, extra) == RedactValue(document, <<>>, extra)

\* The leaves of a value, each with the names that lead to it, its place in the
\* lists on the way, and whether it is directly under the last name.
RECURSIVE Leaves(_, _, _, _)
Leaves(value, path, places, direct) ==
  IF value.is = "scalar" \/ DOMAIN value.of = {}
    THEN {[path |-> path, places |-> places, direct |-> direct, leaf |-> value]}
  ELSE IF value.is = "map"
    THEN UNION {Leaves(value.of[name], Append(path, name), places, TRUE) : name \in DOMAIN value.of}
  ELSE UNION {Leaves(value.of[i], path, Append(places, i), FALSE) : i \in DOMAIN value.of}

LeavesOf(document) == Leaves(document, <<>>, <<>>, FALSE)

\* The classification rules of internal/redact/README.md, which the code keeps:
\* what is under a path of the registry is hidden, and so is a scalar whose own
\* name is sensitive.  Every other leaf is as it was, those in a map or a list
\* with a sensitive name included (credentials.role_arn is shown), and hiding
\* again hides nothing more.  The comment of redact.go:93-95 goes further, and
\* says that scalar children of a parent with a sensitive name are hidden too.
RedactionComplete(document, extra, shown) ==
  LET Registered(l) == \E p \in extra : IsPrefix(p, l.path)
      Sensitive(name) == \E p \in FR002Patterns : \E i \in 1..(1 + Len(name) - Len(p)) :
                           SubSeq(name, i, i + Len(p) - 1) = p
      Named(l) == l.direct /\ l.leaf.is = "scalar" /\ Sensitive(Last(l.path))
  IN
  /\ \A l \in LeavesOf(shown) :
       l.leaf = Sentinel \/ (l \in LeavesOf(document) /\ ~Registered(l) /\ ~Named(l))
  /\ \A l \in LeavesOf(document) : Registered(l) \/ Named(l) \/ l \in LeavesOf(shown)
  /\ Redact(shown, extra) = shown

=============================================================================
