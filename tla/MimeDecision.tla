---------------------------- MODULE MimeDecision -----------------------------
(***************************************************************************)
(* What the base validator makes of a file: validateFile with its two      *)
(* allow-lists, loaded from the configured file types or else from the     *)
(* built-in rules, and isMimeTypeMismatch.  The detector, fileTypeFromBuffer*)
(* of the file-type package, is external: a file's detected type is data.  *)
(***************************************************************************)

CONSTANTS
  MimeTypes,  \* the MIME types that are declared, detected or configured
  Major,      \* [MimeTypes -> the part before the slash]
  Extensions, \* the extensions of file names, in lower case
  FileTypes,  \* the fileTypes of application.yml, and ...
  Fallback    \* ... FALLBACK_MIME_RULES: sets of <<MIME types, extensions>>

Undetected == "undetected"  \* fileTypeFromBuffer found nothing it knows
Thrown     == "thrown"      \* fileTypeFromBuffer, or what follows it, threw

ASSUME MajorAssumption == Major \in [MimeTypes -> STRING]
ASSUME RulesAssumption ==
  FileTypes \cup Fallback \subseteq (SUBSET MimeTypes) \X (SUBSET Extensions)
\* The shapes of the types of allowedVariations.
ASSUME VariationsAssumption ==
  /\ {"application/zip", "application/x-zip-compressed", "image/jpeg", "image/jpg",
      "text/plain", "text/csv"} \subseteq MimeTypes
  /\ Major["application/zip"] = Major["application/x-zip-compressed"]
  /\ Major["image/jpeg"] = Major["image/jpg"]
  /\ Major["text/plain"] = Major["text/csv"]
ASSUME DetectorAssumption == {Undetected, Thrown} \cap MimeTypes = {}

\* What validateFile looks at of a file.
Contents == [declared : MimeTypes, detected : MimeTypes \cup {Undetected, Thrown},
             extension : Extensions]

\* loadAllowedTypesFromConfig: any configured type replaces all built-in ones.
Rules == IF FileTypes # {} THEN FileTypes ELSE Fallback
AllowedMimeTypes  == UNION {rule[1] : rule \in Rules}
AllowedExtensions == UNION {rule[2] : rule \in Rules}

\* allowedVariations, as pairs of a declared and a detected type.
AllowedVariations ==
  LET zips == {"application/zip", "application/x-zip-compressed"}
  IN (zips \X zips) \cup ({"image/jpeg"} \X {"image/jpg", "image/jpeg"})
                   \cup ({"text/plain"} \X {"text/csv", "text/plain"})

\* (Plausible bugs are defined beside the code they would be in.)
IsMimeTypeMismatch_Never(declared, detected) == FALSE

IsMimeTypeMismatch(declared, detected) ==
  /\ declared # detected
  /\ <<declared, detected>> \notin AllowedVariations
  /\ Major[declared] # Major[detected]

\* validateFile.  What is thrown is caught there, and is no type that passes.
Passes(c) ==
  \/ /\ c.detected = Undetected
     /\ c.extension \in AllowedExtensions
  \/ /\ c.detected \in AllowedMimeTypes
     /\ ~IsMimeTypeMismatch(c.declared, c.detected)

\* What the allow-lists and the comparison are for, without the table.
Allowed(c) ==
  \/ c.detected = Undetected /\ c.extension \in AllowedExtensions
  \/ c.detected \in AllowedMimeTypes /\ Major[c.declared] = Major[c.detected]
==============================================================================
