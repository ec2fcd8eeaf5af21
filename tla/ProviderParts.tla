--------------------------- MODULE ProviderParts ----------------------------
(***************************************************************************)
(* The parts of the provider around its clusters, each for itself: those   *)
(* of StatefulParts, those of ComputedParts, and the two that walk a       *)
(* document, of maps and lists within one another: what is redacted of a   *)
(* record, and sensitive-lint.  A behaviour is about one part; one that is *)
(* about a computation has "computed" for its part.                        *)
(***************************************************************************)
EXTENDS StatefulParts, ComputedParts

CONSTANTS
  Documents, Registries,              \* of redaction
  LintInputs                          \* of a schema, the registries, and the mode

partVars == <<statefulVars, computedVars>>

Redact == INSTANCE Redaction
Lint == INSTANCE SensitiveLint

-----------------------------------------------------------------------------

DocumentInit ==
  /\ output = Nothing
  /\ \/ computation = "redaction" /\ input \in [document : Documents, extra : Registries]
     \/ computation = "lint" /\ input \in LintInputs

RedactDocument ==
  /\ computation = "redaction"
  /\ output' = [result |-> Redact!Redact(input.document, input.extra)]

LintSchema ==
  /\ computation = "lint"
  /\ output' = [result |-> Lint!Lint(input.schema, input.registry, input.strict)]

DocumentNext ==
  /\ output = Nothing
  /\ RedactDocument \/ LintSchema
  /\ UNCHANGED <<computation, input>>

AllInit ==
  /\ Init
  /\ IF part = "computed" THEN ComputedInit \/ DocumentInit
     ELSE computation = "none" /\ input = Nothing /\ output = Nothing

AllNext ==
  \/ Next /\ UNCHANGED computedVars
  \/ (ComputedNext \/ DocumentNext) /\ UNCHANGED statefulVars

AllSpec == AllInit /\ [][AllNext]_partVars /\ Fairness

-----------------------------------------------------------------------------


=============================================================================
