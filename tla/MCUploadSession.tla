--------------------------- MODULE MCUploadSession ---------------------------
(* Small instances of UploadSession for TLC.                                 *)
EXTENDS UploadSession, TLC

Extensions == [e \in {".pdf", ".PDF", ".bin", ".txt"} |-> IF e = ".PDF" THEN ".pdf" ELSE e]

\* In units of 2.5 MB: chunks of 10 MB for a PDF and of 5 MB by default; a type
\* that sets no limit of its own; and one whose chunks are below the minimum.
Types == << [mimes |-> {"application/pdf"}, exts |-> {".pdf"}, maxFile |-> 12, maxChunk |-> 4],
            [mimes |-> {}, exts |-> {".bin", ".pdf"}, maxFile |-> 0, maxChunk |-> 0],
            [mimes |-> {"text/plain"}, exts |-> {".txt"}, maxFile |-> 4, maxChunk |-> 1] >>

\* Two full chunks and a short one, an exact multiple, one that falls to the
\* second type, one too large, and one of a plan that S3 refuses.
Uploads ==
  { [size |-> 9,  mime |-> "application/pdf", ext |-> ".PDF"],
    [size |-> 8,  mime |-> "octet-stream",    ext |-> ".pdf"],
    [size |-> 5,  mime |-> "octet-stream",    ext |-> ".bin"],
    [size |-> 11, mime |-> "octet-stream",    ext |-> ".bin"],
    [size |-> 2,  mime |-> "text/plain",      ext |-> ".txt"] }

\* A PDF whose MIME type the client does not know and whose extension it
\* writes in capitals.
CapitalPdf == { [size |-> 10, mime |-> "octet-stream", ext |-> ".PDF"] }

\* In units of 1 MB: the text type of the shipped configuration.
ShippedText == << [mimes |-> {"text/plain"}, exts |-> {".txt"}, maxFile |-> 10, maxChunk |-> 1] >>
TextFile == { [size |-> 2, mime |-> "text/plain", ext |-> ".txt"] }

AllFaults == Faults
NoFaults  == {}
=============================================================================
