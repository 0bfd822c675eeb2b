------------------------ MODULE ContentPipelineProofs ------------------------
(* What the pipeline releases, in terms of what the files contain, for every *)
(* configuration of types that has the categories of allowedVariations.      *)
EXTENDS ContentPipeline, ValidationPipelineProofs

\* The table of allowed variations lists types of one category only, so that
\* the comparison of the categories decides alone (isMimeTypeMismatch).
LEMMA TableIsRedundant ==
  ASSUME NEW declared \in MimeTypes, NEW detected \in MimeTypes
  PROVE  IsMimeTypeMismatch(declared, detected) <=> Major[declared] # Major[detected]
  <1>1. declared = detected => Major[declared] = Major[detected]
    OBVIOUS
  <1>2. <<declared, detected>> \in AllowedVariations => Major[declared] = Major[detected]
    BY VariationsAssumption DEF AllowedVariations
  <1> QED BY <1>1, <1>2 DEF IsMimeTypeMismatch

\* validateFile passes exactly what the allow-lists and the categories allow.
THEOREM DecisionIsAllowance ==
  ASSUME NEW c \in Contents
  PROVE  Passes(c) <=> Allowed(c)
  <1>1. AllowedMimeTypes \subseteq MimeTypes
    BY RulesAssumption DEF AllowedMimeTypes, Rules
  <1>2. c.declared \in MimeTypes
    BY DEF Contents
  <1> QED BY <1>1, <1>2, TableIsRedundant DEF Passes, Allowed

\* End to end: whatever is delayed, repeated, lost or crashes, a file in the
\* validated bucket is of an allowed type, of the category that its client
\* declared, and has no virus but one with "OK" in its name (validateFile,
\* scanFileFromS3, completeUpload and the transfer together).
THEOREM OnlyAllowedReleased == Spec => []ReleasedIsAllowed
  <1>1. ReleasedOnlyIfGood => ReleasedIsAllowed
    <2> SUFFICES ASSUME ReleasedOnlyIfGood, NEW f \in Files, "validated" \in location[f]
                 PROVE  Allowed(Content[f]) /\ (f \in Infected => f \in OkNamed)
      BY DEF ReleasedIsAllowed
    <2>1. f \in Good["base"] /\ f \in Good["clamav"]
      BY DEF ReleasedOnlyIfGood, Validators
    <2>2. Passes(Content[f]) /\ (f \in Infected => f \in OkNamed)
      BY <2>1, DecisionAssumption DEF Decided, Cleared, Validators
    <2> QED BY <2>2, ContentAssumption, DecisionIsAllowance
  <1> QED BY <1>1, ReleaseOfGoodFiles, PTL
==============================================================================
