--------------------------- MODULE ContentPipeline ---------------------------
(***************************************************************************)
(* ValidationPipeline with the files' contents: what the base validator    *)
(* passes is what MimeDecision says of it; the scanner passes what has no  *)
(* virus and, as ClamavClient shows, what has one with "OK" in its name.   *)
(***************************************************************************)
EXTENDS ValidationPipeline, MimeDecision

CONSTANTS
  Content,  \* [Files -> Contents]
  Infected, \* the files with a virus
  OkNamed   \* those of them whose virus has "OK" in its name

\* scanFileFromS3 passes what clamd's reply has an "OK" about.
Cleared == Files \ (Infected \ OkNamed)

Decided == [v \in Validators |->
  IF v = "base" THEN {f \in Files : Passes(Content[f])} ELSE Cleared]

ASSUME ContentAssumption  == Content \in [Files -> Contents]
ASSUME VirusAssumption    == OkNamed \subseteq Infected /\ Infected \subseteq Files
ASSUME DecisionAssumption == Good = Decided

\* End to end: what reaches the validated bucket is of an allowed type in the
\* category its client declared or, where the type cannot be detected, has an
\* allowed extension; and it has no virus, unless one with "OK" in its name,
\* which result.includes('OK') takes for a clean reply (validateFile and
\* scanFileFromS3, by way of results, redelivery and handleCompleteValidation).
ReleasedIsAllowed == \A f \in Files : "validated" \in location[f] =>
  Allowed(Content[f]) /\ (f \in Infected => f \in OkNamed)
==============================================================================
