------------------------ MODULE MCValidationPipeline ------------------------
(* Small instances of ContentPipeline for TLC. *)
EXTENDS ContentPipeline, FiniteSets, TLC

CONSTANTS pdf, virus, named, disguised

\* A clean file; one with a virus with "OK" in its name, which passes for clean;
\* one with another virus, of no detectable type; and an archive that its client
\* declares to be an image.
OneFile    == {pdf}
ThreeFiles == {named, virus, disguised}
WithVirus  == Files \cap {virus, named}
WithOk     == Files \cap {named}
Text(ext)  == [declared |-> "text/plain", detected |-> Undetected, extension |-> ext]
Pdf        == [declared |-> "application/pdf", detected |-> "application/pdf",
               extension |-> ".pdf"]
Described  == (pdf :> Pdf) @@ (named :> Pdf) @@ (virus :> Text(".txt"))
              @@ (disguised :> [declared |-> "image/jpeg", detected |-> "application/zip",
                                extension |-> ".jpg"])
TheContent == [f \in Files |-> Described[f]]

TheMajor == ("application/pdf" :> "application") @@ ("application/zip" :> "application")
            @@ ("application/x-zip-compressed" :> "application")
            @@ ("image/jpeg" :> "image") @@ ("image/jpg" :> "image")
            @@ ("text/plain" :> "text") @@ ("text/csv" :> "text")
TheTypes == DOMAIN TheMajor
TheExtensions == {".pdf", ".jpg", ".zip", ".txt"}
Configured == {<<{"application/pdf"}, {".pdf"}>>, <<{"image/jpeg"}, {".jpg"}>>,
               <<{"application/zip"}, {".zip"}>>, <<{"text/plain", "text/csv"}, {".txt"}>>}
BuiltIn    == {}

FlagAll    == [v \in Validators |-> TRUE]
AllFaults  == Faults
CheckFault == {"check"}

\* A file that passes with two faults, another one with one fault, or one of
\* either kind without: calls and faults are what a behaviour may do without.
Submitted == {f \in Files : request[f] # "none"}
FewAtOnce == Cardinality(Submitted) + Cardinality(Submitted \ {named}) + faults <= 3
=============================================================================
