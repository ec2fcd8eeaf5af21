--------------------------- MODULE ProviderConfig ---------------------------
(***************************************************************************)
(* How the provider comes to its credentials (internal/provider): each is  *)
(* taken from the provider block, the environment or a profile of the      *)
(* credentials file.                                                       *)
(***************************************************************************)
EXTENDS Naturals, Sequences, SequencesExt

CONSTANTS
  NotKnown,   \* a value of the block that is only known after an apply
  Profiles    \* the names a profile may have, "default" among them

\* A value that is not supplied, the empty string.
Unset == ""

Keys == {"api_key", "key_id", "issuer"}

\* Where a value may come from, first come first served.
Precedence == <<"block", "env", "file">>

\* Types of the framework: null and unknown values are the empty string.
ValueString(value) == IF value = NotKnown THEN Unset ELSE value

FirstNonEmpty(values) ==
  LET given == {i \in DOMAIN values : values[i] # Unset}
  IN IF given = {} THEN Unset ELSE values[Min(given)]

\* Seeded fault for Pick: the environment goes before the block.
PickFromEnvironment(supplied) ==
  LET value == FirstNonEmpty(<<supplied["env"], supplied["block"], supplied["file"]>>)
  IN [value |-> value,
      conflict |-> {s \in DOMAIN supplied : supplied[s] \notin {Unset, value}}]

\* pick: the first value that is supplied, and the sources that differ from it,
\* which a warning names.
Pick(supplied) ==
  LET value == FirstNonEmpty([i \in DOMAIN Precedence |-> supplied[Precedence[i]]])
  IN [value |-> value,
      conflict |-> {s \in DOMAIN supplied : supplied[s] \notin {Unset, value}}]

-----------------------------------------------------------------------------
(* A line of the file is a section, a setting, or one that is skipped:     *)
(* blank, a comment, or without a "=" after its first character.           *)

Line(texts) ==
  [is : {"section"}, name : texts]
    \cup [is : {"setting"}, key : Keys, value : texts]
    \cup [is : {"skipped"}]

Nobody == [p \in Profiles |-> [k \in Keys |-> Unset]]

\* Seeded fault for NextLine: a section that comes again starts afresh.
NextLineAfresh(file, line) ==
  IF file.error \/ line.is = "skipped" THEN file
  ELSE IF line.is = "section"
    THEN [file EXCEPT !.current = line.name, !.error = (line.name = Unset),
                      !.profiles = [p \in Profiles |->
                        IF p = line.name THEN Nobody[p] ELSE file.profiles[p]]]
  ELSE [file EXCEPT !.profiles[file.current][line.key] = line.value]

NextLine(file, line) ==
  IF file.error \/ line.is = "skipped" THEN file
  ELSE IF line.is = "section"
    THEN [file EXCEPT !.current = line.name, !.error = (line.name = Unset)]
  ELSE [file EXCEPT !.profiles[file.current][line.key] = line.value]

\* parseINI.
ParseINI(lines) ==
  FoldLeft(NextLine, [current |-> "default", profiles |-> Nobody, error |-> FALSE], lines)

\* ReadFile: only the default path may be without a file.
ReadFile(path, onDisk) ==
  IF onDisk.readable THEN ParseINI(onDisk.lines)
  ELSE [current |-> "default", profiles |-> Nobody, error |-> path # Unset \/ onDisk.there]

\* BuildTLSConfig: the bundle is read and has a certificate.
BuildTLSConfig(bundle) == bundle \in {"none", "certificate"}

Attributes == Keys \cup {"profile", "credentials_file"}

\* What Configure may be given: the values of the block, some of them not known
\* yet, those of the environment, the credentials file and the bundle.
ConfigureInputs(texts) ==
  [block : {b \in [Attributes -> texts \cup {NotKnown}] :
              b["profile"] \in Profiles \cup {Unset, NotKnown}},
   env : {e \in [Attributes -> texts] : e["profile"] \in Profiles \cup {Unset}},
   onDisk : [readable : BOOLEAN, there : BOOLEAN, lines : Seq(Line(texts))],
   bundle : {"none", "certificate", "other"}]

Refused == [ok |-> FALSE]

\* Resolve.
Resolve(block, env, file) ==
  LET profile == FirstNonEmpty(<<block["profile"], env["profile"], "default">>)
      picked == [k \in Keys |-> Pick([block |-> block[k], env |-> env[k],
                                      file |-> file.profiles[profile][k]])]
  IN IF \E k \in Keys : picked[k].value = Unset THEN Refused
     ELSE [ok |-> TRUE, picked |-> picked]

\* Configure.
Configure(input) ==
  LET block == [a \in DOMAIN input.block |-> ValueString(input.block[a])]
      env == input.env
      file == ReadFile(FirstNonEmpty(<<block["credentials_file"], env["credentials_file"]>>),
                       input.onDisk)
  IN IF file.error \/ ~BuildTLSConfig(input.bundle) THEN Refused
     ELSE Resolve(block, env, file)

-----------------------------------------------------------------------------

\* The settings of a profile: the lines after one of its sections and before
\* the next section; those before any section are the default's.
SettingsOf(lines, profile) ==
  {i \in DOMAIN lines :
     /\ lines[i].is = "setting"
     /\ \/ /\ profile = "default"
           /\ \A h \in 1..i : lines[h].is # "section"
        \/ \E h \in 1..i :
             /\ lines[h] = [is |-> "section", name |-> profile]
             /\ \A m \in (h + 1)..i : lines[m].is # "section"}

\* The value of a key in a profile of a file is the last one it is given, and
\* an empty section name anywhere makes the file an error.
Assigned(lines, profile, key) ==
  LET all == {i \in SettingsOf(lines, profile) : lines[i].key = key}
  IN IF all = {} THEN Unset ELSE lines[CHOOSE i \in all : \A m \in all : m <= i].value

ReadAsWritten(lines) ==
  LET file == ParseINI(lines)
      bad == \E i \in DOMAIN lines : lines[i] = [is |-> "section", name |-> Unset]
  IN /\ file.error = bad
     /\ ~bad => \A p \in Profiles, k \in Keys : file.profiles[p][k] = Assigned(lines, p, k)

\* spec.md (FR-001a): what the block has, once it is known, goes before the
\* environment, and that before the file; every source that has another value
\* is warned about; and a provider is configured only with all of its
\* credentials.
FollowsPrecedence(input, result) ==
  LET profile == IF input.block["profile"] \notin {Unset, NotKnown} THEN input.block["profile"]
                 ELSE IF input.env["profile"] # Unset THEN input.env["profile"]
                 ELSE "default"
      fromFile(k) == IF input.onDisk.readable THEN Assigned(input.onDisk.lines, profile, k)
                     ELSE Unset
  IN result.ok =>
       \A k \in Keys :
         LET used == result.picked[k].value
             block == input.block[k]
             env == input.env[k]
         IN /\ used # Unset
            /\ block \notin {Unset, NotKnown} => used = block
            /\ block \in {Unset, NotKnown} /\ env # Unset => used = env
            /\ block \in {Unset, NotKnown} /\ env = Unset => used = fromFile(k)
            /\ ("env" \in result.picked[k].conflict) = (env \notin {Unset, used})
            /\ ("file" \in result.picked[k].conflict) = (fromFile(k) \notin {Unset, used})

=============================================================================
