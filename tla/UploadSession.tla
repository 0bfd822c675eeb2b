---------------------------- MODULE UploadSession ----------------------------
(***************************************************************************)
(* One multipart upload: the service plans the chunks and signs a URL for  *)
(* each (initiateUpload), the client puts them straight into S3, asks for  *)
(* the status or for the missing chunks (getUploadStatus, resumeUpload) and *)
(* has the object assembled (completeUpload).  A status or resume request  *)
(* looks at S3 twice, and the other requests may run between the two.      *)
(***************************************************************************)
EXTENDS ChunkPlan

CONSTANTS
  Files,          \* the [size, mime, ext] a client may upload
  FileTypes,      \* the fileTypes configuration, a sequence of
                  \* [mimes, exts, maxFile, maxChunk]; 0 is an absent limit
  DefaultFile, DefaultChunk,  \* defaults.maxFileSize and maxChunkSize
  Lower,          \* [extension -> the extension in lower case]
  MinPart,        \* the least size of a part that is not the last
  FaultKinds,     \* the kinds of fault the environment may inject ...
  MaxFaults       \* ... and how many of them (a bound for TLC)

Faults   == {"s3", "answer", "restart"}
Sessions == {"none", "open", "assembled", "moved"}
Kinds    == {"status", "resume"}
Answers  == {"none", "initiated", "too-large", "error", "part-too-small",
             "in-progress", "missing", "all-uploaded", "completed", "not-found"}

Configured(limit, default) == IF limit = 0 THEN default ELSE limit

\* The first file type that lists the MIME type or the extension.
Matching(mime, ext) ==
  {k \in DOMAIN FileTypes : mime \in FileTypes[k].mimes \/ ext \in FileTypes[k].exts}
First(hits) == CHOOSE k \in hits : \A j \in hits : k <= j

FileLimit(mime, ext) ==
  IF Matching(mime, ext) = {} THEN DefaultFile
  ELSE Configured(FileTypes[First(Matching(mime, ext))].maxFile, DefaultFile)
ChunkLimit(mime, ext) ==
  IF Matching(mime, ext) = {} THEN DefaultChunk
  ELSE Configured(FileTypes[First(Matching(mime, ext))].maxChunk, DefaultChunk)

\* initiateUpload lowers the extension before it looks the type up;
\* resumeUpload takes it as the client wrote it.
InitiateChunk(f) == ChunkLimit(f.mime, Lower[f.ext])
ResumeChunk_Default(f) == DefaultChunk
ResumeChunk(f)   == ChunkLimit(f.mime, f.ext)

InitiatePlan(f) == Chunks(f.size, InitiateChunk(f))
ResumePlan(f)   == Chunks(f.size, ResumeChunk(f))

\* Resuming cuts every file as initiating did.
ConsistentPlans == \A f \in Files : ResumeChunk(f) = InitiateChunk(f)

ASSUME FilesAssumption  == \A f \in Files : f.size \in Nat \ {0}
ASSUME LimitsAssumption == \A f \in Files :
                             /\ InitiateChunk(f) \in Nat \ {0}
                             /\ ResumeChunk(f) \in Nat \ {0}
ASSUME MinPartAssumption == MinPart \in Nat
ASSUME BudgetAssumption == FaultKinds \subseteq Faults /\ MaxFaults \in Nat

VARIABLES
  file,      \* what the client uploads
  session,   \* S3: the multipart upload, then the object in quarantine
  parts,     \* S3: the parts put into the session
  object,    \* S3: the parts the object was assembled from
  urls,      \* client: the chunks it holds presigned URLs for
  known,     \* client: the parts it holds the ETag of
  total,     \* client: the totalChunks it was last told, 0 before
  query,     \* service: the request being served and the S3 call it is at
  answer,    \* client: the last answer it got
  faults     \* faults injected so far

s3     == <<session, parts, object>>
client == <<urls, known, total, answer>>
vars   == <<file, s3, client, query, faults>>

NoQuery == [kind |-> "none", step |-> "none"]
Queries == {NoQuery} \cup [kind : Kinds, step : {"object", "parts"}]

TypeOK ==
  /\ file \in Files
  /\ session \in Sessions
  /\ parts \subseteq InitiatePlan(file) \cup ResumePlan(file)
  /\ object \subseteq InitiatePlan(file) \cup ResumePlan(file)
  /\ urls \subseteq InitiatePlan(file) \cup ResumePlan(file)
  /\ known \subseteq InitiatePlan(file) \cup ResumePlan(file)
  /\ total \in Nat
  /\ query \in Queries
  /\ answer \in Answers
  /\ faults \in 0..MaxFaults

NoFault     == faults' = faults
Fault(kind) == kind \in FaultKinds /\ faults < MaxFaults /\ faults' = faults + 1

Init ==
  /\ file \in Files
  /\ session = "none" /\ parts = {} /\ object = {}
  /\ urls = {} /\ known = {} /\ total = 0 /\ answer = "none"
  /\ query = NoQuery /\ faults = 0

----------------------------------------------------------------------------
(* initiateUpload *)

Initiate ==
  /\ session = "none" /\ file.size <= FileLimit(file.mime, Lower[file.ext])
  /\ session' = "open"
  /\ urls' = InitiatePlan(file)
  /\ total' = TotalChunks(file.size, InitiateChunk(file))
  /\ answer' = "initiated"
  /\ NoFault
  /\ UNCHANGED <<file, parts, object, known, query>>

InitiateRejected ==
  /\ session = "none" /\ file.size > FileLimit(file.mime, Lower[file.ext])
  /\ answer' = "too-large"
  /\ NoFault
  /\ UNCHANGED <<file, s3, urls, known, total, query>>

\* S3 refuses the session or the signing of the URLs fails; an upload id that
\* the client never learns leaves nothing but garbage in S3.
InitiateFails ==
  /\ session = "none" /\ file.size <= FileLimit(file.mime, Lower[file.ext])
  /\ Fault("s3")
  /\ answer' = "error"
  /\ UNCHANGED <<file, s3, urls, known, total, query>>

----------------------------------------------------------------------------
(* The client: PUT to a presigned URL replaces the part of that number, and *)
(* its answer holds the part's ETag.                                       *)

Replacing(set, chunk) == {p \in set : p.number # chunk.number} \cup {chunk}

Put(chunk) ==
  /\ session = "open" /\ chunk \in urls \ known
  /\ parts' = Replacing(parts, chunk)
  /\ known' = Replacing(known, chunk)
  /\ NoFault
  /\ UNCHANGED <<file, session, object, urls, total, answer, query>>

PutAnswerLost(chunk) ==
  /\ session = "open" /\ chunk \in urls \ known
  /\ Fault("answer")
  /\ parts' = Replacing(parts, chunk)
  /\ UNCHANGED <<file, session, object, client, query>>

\* The client restarts, or its URLs expire: it is left with what initiateUpload
\* told it of the upload.
ClientRestarts ==
  /\ session # "none"
  /\ Fault("restart")
  /\ urls' = {} /\ known' = {} /\ answer' = "none" /\ query' = NoQuery
  /\ UNCHANGED <<file, s3, total>>

----------------------------------------------------------------------------
(* completeUpload: the client sends the parts once it has all it was told  *)
(* of.  The parts are sorted, and all but the last must have MinPart bytes. *)

AllUploaded == total # 0 /\ Numbers(known) = 1..total

TooSmall(list) ==
  \E p, q \in list : p.number < q.number /\ SizeOf(p) < MinPart

MayAssemble == session = "open" /\ AllUploaded /\ ~TooSmall(known)

\* S3 assembles the parts if it holds each of them.
Complete ==
  /\ MayAssemble /\ known \subseteq parts
  /\ session' = "assembled" /\ object' = known
  /\ answer' = "completed"
  /\ NoFault
  /\ UNCHANGED <<file, parts, urls, known, total, query>>

CompleteAnswerLost ==
  /\ MayAssemble /\ known \subseteq parts
  /\ Fault("answer")
  /\ session' = "assembled" /\ object' = known
  /\ answer' = "error"
  /\ UNCHANGED <<file, parts, urls, known, total, query>>

CompleteFails ==
  /\ MayAssemble
  /\ Fault("s3")
  /\ answer' = "error"
  /\ UNCHANGED <<file, s3, urls, known, total, query>>

\* An ETag S3 no longer holds, or a session it has closed.
CompleteRefused ==
  /\ session # "none" /\ AllUploaded /\ ~TooSmall(known)
  /\ session # "open" \/ ~(known \subseteq parts)
  /\ answer' = "error"
  /\ NoFault
  /\ UNCHANGED <<file, s3, urls, known, total, query>>

CompleteRejected ==
  /\ session # "none" /\ AllUploaded /\ TooSmall(known)
  /\ answer' = "part-too-small"
  /\ NoFault
  /\ UNCHANGED <<file, s3, urls, known, total, query>>

\* The transfer service takes the object out of quarantine.
Moved ==
  /\ session = "assembled"
  /\ session' = "moved"
  /\ NoFault
  /\ UNCHANGED <<file, parts, object, client, query>>

----------------------------------------------------------------------------
(* getUploadStatus, and resumeUpload, which begins with it *)

Ask(kind) ==
  /\ session # "none" /\ query = NoQuery
  /\ query' = [kind |-> kind, step |-> "object"]
  /\ NoFault
  /\ UNCHANGED <<file, s3, client>>

Answered(with) == query' = NoQuery /\ answer' = with

\* objectExists looks in the quarantine bucket only.
FindObject ==
  /\ query.step = "object"
  /\ IF session = "assembled" THEN Answered("completed")
     ELSE query' = [query EXCEPT !.step = "parts"] /\ UNCHANGED answer
  /\ NoFault
  /\ UNCHANGED <<file, s3, urls, known, total>>

\* An error of either look is answered as an upload that is not there.
LookupFails ==
  /\ query.step \in {"object", "parts"}
  /\ Fault("s3")
  /\ Answered("not-found")
  /\ UNCHANGED <<file, s3, urls, known, total>>

NoPartsFound ==
  /\ query.step = "parts" /\ (session # "open" \/ parts = {})
  /\ Answered("not-found")
  /\ NoFault
  /\ UNCHANGED <<file, s3, urls, known, total>>

StatusOfParts ==
  /\ query = [kind |-> "status", step |-> "parts"] /\ session = "open" /\ parts # {}
  /\ Answered("in-progress")
  /\ known' = parts
  /\ NoFault
  /\ UNCHANGED <<file, s3, urls, total>>

Missing_BelowTotal(f, stored) ==
  {c \in ResumePlan(f) : c.number \notin Numbers(stored)
                          /\ c.number < TotalChunks(f.size, ResumeChunk(f))}
Missing_FromZero(f, stored) ==
  {Chunk(f.size, ResumeChunk(f), i - 1) :
     i \in {k \in 1..TotalChunks(f.size, ResumeChunk(f)) : k \notin Numbers(stored)}}
Missing(f, stored) == {c \in ResumePlan(f) : c.number \notin Numbers(stored)}

ResumeAllUploaded ==
  /\ query = [kind |-> "resume", step |-> "parts"] /\ session = "open" /\ parts # {}
  /\ Missing(file, parts) = {}
  /\ Answered("all-uploaded")
  /\ NoFault
  /\ UNCHANGED <<file, s3, urls, known, total>>

ResumeMissing ==
  /\ query = [kind |-> "resume", step |-> "parts"] /\ session = "open" /\ parts # {}
  /\ Missing(file, parts) # {}
  /\ Answered("missing")
  /\ urls' = Missing(file, parts)
  /\ known' = parts
  /\ total' = TotalChunks(file.size, ResumeChunk(file))
  /\ NoFault
  /\ UNCHANGED <<file, s3>>

ResumeFails ==
  /\ query = [kind |-> "resume", step |-> "parts"] /\ session = "open" /\ parts # {}
  /\ Missing(file, parts) # {}
  /\ Fault("s3")
  /\ Answered("error")
  /\ UNCHANGED <<file, s3, urls, known, total>>

----------------------------------------------------------------------------
Service ==
  \/ Initiate \/ InitiateRejected \/ InitiateFails
  \/ Complete \/ CompleteAnswerLost \/ CompleteFails
  \/ CompleteRefused \/ CompleteRejected
  \/ FindObject \/ LookupFails \/ NoPartsFound
  \/ StatusOfParts \/ ResumeAllUploaded \/ ResumeMissing \/ ResumeFails

Next ==
  \/ Service \/ Moved \/ ClientRestarts
  \/ \E c \in urls : Put(c) \/ PutAnswerLost(c)
  \/ \E kind \in Kinds : Ask(kind)

Spec == Init /\ [][Next]_vars

\* A client that does not give up: it puts what it has a URL for, completes
\* when it has everything, and when it can do neither it resumes, or asks for
\* the ETags once resuming tells it that nothing is missing.  Strong fairness,
\* since a client that polls the status all the time asks nothing else in
\* between.  The service serves every request it has begun.
Stranded == urls \subseteq known /\ ~AllUploaded

Fairness ==
  /\ WF_vars(\E c \in urls : Put(c))
  /\ WF_vars(Complete)
  /\ SF_vars(Stranded /\ answer # "all-uploaded" /\ Ask("resume"))
  /\ SF_vars(Stranded /\ answer = "all-uploaded" /\ Ask("status"))
  /\ WF_vars(FindObject \/ NoPartsFound \/ StatusOfParts
             \/ ResumeAllUploaded \/ ResumeMissing)

FairSpec == Spec /\ Fairness

----------------------------------------------------------------------------
(* Properties *)

\* The object that S3 assembles is the client's file, every byte once and in
\* its place, whatever was interrupted, put twice or resumed on the way.
WholeFile == object # {} => IsWholeFile(object, file.size)

\* completeUpload does not refuse an upload all of whose chunks are there: the
\* plan the service made is one its own size check accepts.
FinalizesWhenAllUploaded == AllUploaded => ~TooSmall(known)

\* An upload of which S3 holds a part, and whose plan S3 can take, is assembled
\* in the end, through lost answers, failed calls and restarts of the client.
StartedIsAssembled ==
  parts # {} /\ ~TooSmall(InitiatePlan(file)) ~> object # {}
==============================================================================
