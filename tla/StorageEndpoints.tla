--------------------------- MODULE StorageEndpoints --------------------------
(***************************************************************************)
(* The endpoints that change files outside of the upload pipeline: the     *)
(* creation and deletion of a file in several Azure accounts, the copies   *)
(* between the S3 data bucket and the local data directory, and the        *)
(* deletion of an S3 object.  The requests of one process, with one action *)
(* per awaited call or stream event; S3, Azure and the directory keep      *)
(* their state when the process ends.                                      *)
(***************************************************************************)
EXTENDS Integers, Sequences, FiniteSets

CONSTANTS
  Creates, Deletes,           \* POST /files/create and /files/delete requests
  Fetches, Stores, Removals,  \* copies from S3, copies to S3, S3 deletions
  Targets,      \* [Creates \cup Deletes -> Seq(Blobs)]: the files of the body
  Blobs,        \* <account, container, name> triples
  Foreign,      \* those whose account id does not start with "azure-"
  Unknown,      \* those whose account is not configured
  NoContainer,  \* those whose container does not exist
  Old,          \* the blobs there at first
  Objects,      \* objects of the S3 data bucket
  Files,        \* paths in the local data directory
  ObjectOf,     \* [Fetches \cup Stores \cup Removals -> Objects]
  FileOf,       \* [Fetches \cup Stores -> Files]
  MaxRequests,  \* the requests that come in one behaviour (a bound for TLC)
  FaultKinds,   \* the kinds of fault the environment may inject ...
  MaxFaults     \* ... and how many of them (a bound for TLC)

Batches  == Creates \cup Deletes
Copies   == Fetches \cup Stores
Requests == Batches \cup Copies \cup Removals
Faults   == {"azure", "s3", "disk"}

ASSUME RequestsAssumption ==
  /\ Creates \cap Deletes = {} /\ Fetches \cap Stores = {}
  /\ Batches \cap (Copies \cup Removals) = {} /\ Copies \cap Removals = {}
  /\ Creates \cap {"absent", "old"} = {}
ASSUME TargetsAssumption  == Targets \in [Batches -> Seq(Blobs)]
ASSUME AccountsAssumption ==
  /\ Foreign \cup Unknown \cup NoContainer \subseteq Blobs
  /\ Old \subseteq Blobs \ (Foreign \cup Unknown \cup NoContainer)
ASSUME PathsAssumption    == ObjectOf \in [Copies \cup Removals -> Objects]
                             /\ FileOf \in [Copies -> Files]
ASSUME BudgetAssumption   == FaultKinds \subseteq Faults /\ {MaxFaults, MaxRequests} \subseteq Nat

VARIABLES
  answer,  \* [Requests -> Answers]: what the client was told
  op,      \* [Batches -> [index in Targets -> step of createBlob, deleteBlob]]
  blob,    \* [Blobs -> "absent", "old" or the request that wrote it]
  step,    \* [Copies -> step of the copy]
  data,    \* [Copies -> the chunks it reads]
  at,      \* [Copies -> how many of them it has written]
  object,  \* [Objects -> the chunks of the object, or Absent]
  file,    \* [Files -> the chunks of the local file, or Absent]
  shared,  \* history: the local files two copies wrote at the same time
  alive,   \* the process has not ended
  faults   \* faults injected so far

azure  == <<op, blob>>
copies == <<step, data, at, object, file, shared>>
vars   == <<answer, azure, copies, alive, faults>>

Answers   == {"none", "ok", "bad_request", "not_found", "error"}
OpSteps   == {"idle", "container", "exists", "write", "delete", "done", "rejected"}
CopySteps == {"idle", "pipe", "broken", "put", "over"}

Absent == <<"absent">>
Chunks == Objects \cup {"gap", "absent"}
\* Every object starts with two chunks of its own.
Original(o) == <<o, o>>

TypeOK ==
  /\ answer \in [Requests -> Answers]
  /\ \A r \in Batches : op[r] \in [DOMAIN Targets[r] -> OpSteps]
  /\ blob \in [Blobs -> Creates \cup {"absent", "old"}]
  /\ step \in [Copies -> CopySteps]
  /\ data \in [Copies -> Seq(Chunks)]
  /\ at \in [Copies -> Nat] /\ \A c \in Copies : at[c] <= Len(data[c])
  /\ object \in [Objects -> Seq(Chunks)]
  /\ file \in [Files -> Seq(Chunks)]
  /\ shared \subseteq Files
  /\ alive \in BOOLEAN
  /\ faults \in 0..MaxFaults

Init ==
  /\ answer = [q \in Requests |-> "none"]
  /\ op = [r \in Batches |-> [i \in DOMAIN Targets[r] |-> "idle"]]
  /\ blob = [b \in Blobs |-> IF b \in Old THEN "old" ELSE "absent"]
  /\ step = [c \in Copies |-> "idle"]
  /\ data = [c \in Copies |-> <<>>]
  /\ at = [c \in Copies |-> 0]
  /\ object = [o \in Objects |-> Original(o)]
  /\ file = [f \in Files |-> Absent]
  /\ shared = {}
  /\ alive = TRUE
  /\ faults = 0

NoFault == UNCHANGED faults
Fault(kind) == /\ kind \in FaultKinds
               /\ faults < MaxFaults
               /\ faults' = faults + 1

----------------------------------------------------------------------------
(* createFile and deleteFile                                               *)

\* The map over the files throws at the first account it does not support;
\* what it has started by then goes on.
StartedOps(r) == {i \in DOMAIN Targets[r] :
                    \A j \in 1..i : Targets[r][j] \notin Foreign}
Unsupported(r) == StartedOps(r) # DOMAIN Targets[r]

\* Then no Promise.all takes the rejections of what was started.
Detached(r) == Unsupported(r)

\* (Plausible bugs are defined beside the code they would be in.)
Combined_First(r, steps) ==
  IF \E i \in DOMAIN steps : steps[i] = "done" THEN "ok" ELSE "none"
\* Promise.all
Combined(r, steps) ==
  IF \A i \in DOMAIN steps : steps[i] = "done" THEN "ok" ELSE "none"

StartBatch(r) ==
  /\ alive
  /\ answer[r] = "none"
  /\ \A i \in DOMAIN op[r] : op[r][i] = "idle"
  /\ LET first(i) == IF i \notin StartedOps(r) THEN "idle"
                     ELSE IF Targets[r][i] \in Unknown THEN "rejected" ELSE "container"
         lost     == \E i \in StartedOps(r) : Targets[r][i] \in Unknown
     IN /\ op' = [op EXCEPT ![r] = [i \in DOMAIN Targets[r] |-> first(i)]]
        /\ answer' = [answer EXCEPT ![r] =
             IF Unsupported(r) THEN "bad_request"
             ELSE IF lost THEN "not_found" ELSE Combined(r, op'[r])]
        /\ alive' = ~(lost /\ Detached(r))
  /\ UNCHANGED <<blob, copies, faults>>

\* One operation is over.  The first rejection is the request's answer; one
\* nobody waits for ends the process.
Resolve(r, i) ==
  /\ op' = [op EXCEPT ![r][i] = "done"]
  /\ answer' = [answer EXCEPT ![r] =
       IF @ = "none" /\ alive THEN Combined(r, op'[r]) ELSE @]
  /\ UNCHANGED alive

Reject_Unheard(r, i, error) ==
  /\ op' = [op EXCEPT ![r][i] = "rejected"]
  /\ UNCHANGED <<answer, alive>>

Reject(r, i, error) ==
  /\ op' = [op EXCEPT ![r][i] = "rejected"]
  /\ answer' = [answer EXCEPT ![r] = IF @ = "none" /\ alive THEN error ELSE @]
  /\ alive' = (alive /\ ~Detached(r))

GoOn(r, i, next) ==
  /\ op' = [op EXCEPT ![r][i] = next]
  /\ UNCHANGED <<answer, alive>>

ContainerExists_OneRoute(r, i) ==
  /\ alive
  /\ op[r][i] = "container"
  /\ IF Targets[r][i] \in NoContainer THEN Reject(r, i, "not_found")
     ELSE GoOn(r, i, "write")
  /\ UNCHANGED <<blob, copies, faults>>

ContainerExists(r, i) ==
  /\ alive
  /\ op[r][i] = "container"
  /\ IF Targets[r][i] \in NoContainer THEN Reject(r, i, "not_found")
     ELSE GoOn(r, i, IF r \in Creates THEN "write" ELSE "exists")
  /\ UNCHANGED <<blob, copies, faults>>

BlobExists(r, i) ==
  /\ alive
  /\ op[r][i] = "exists"
  /\ IF blob[Targets[r][i]] = "absent" THEN Reject(r, i, "not_found")
     ELSE GoOn(r, i, "delete")
  /\ UNCHANGED <<blob, copies, faults>>

SetBlob(b, content) == blob' = [blob EXCEPT ![b] = content]

\* A call that is under way takes effect whether or not the process lives.
Upload(r, i) ==
  /\ op[r][i] = "write"
  /\ SetBlob(Targets[r][i], r)
  /\ Resolve(r, i)
  /\ UNCHANGED <<copies, faults>>

DeleteBlob_IfExists(r, i) ==
  /\ op[r][i] = "delete"
  /\ SetBlob(Targets[r][i], "absent")
  /\ Resolve(r, i)
  /\ UNCHANGED <<copies, faults>>

\* Azure refuses to delete a blob another request has deleted by now.
DeleteBlob(r, i) ==
  /\ op[r][i] = "delete"
  /\ IF blob[Targets[r][i]] = "absent" THEN Reject(r, i, "error") /\ UNCHANGED blob
     ELSE Resolve(r, i) /\ SetBlob(Targets[r][i], "absent")
  /\ UNCHANGED <<copies, faults>>

\* With its answer lost, a call may have taken effect.
AzureFails(r, i) ==
  /\ op[r][i] \in {"container", "exists", "write", "delete"}
  /\ Fault("azure")
  /\ Reject(r, i, "error")
  /\ \/ UNCHANGED blob
     \/ op[r][i] = "write" /\ SetBlob(Targets[r][i], r)
     \/ op[r][i] = "delete" /\ SetBlob(Targets[r][i], "absent")
  /\ UNCHANGED copies

----------------------------------------------------------------------------
(* copyFile and deleteFromS3                                               *)

Answer(q, a) == answer' = [answer EXCEPT ![q] = a]
Goto(c, s)   == step' = [step EXCEPT ![c] = s]
Over(c, a)   == Goto(c, "over") /\ Answer(c, a)

\* A write beyond the end leaves a gap of zeros.
Written(chunks, k, x) ==
  [i \in 1..(IF k > Len(chunks) THEN k ELSE Len(chunks)) |->
     IF i = k THEN x ELSE IF i <= Len(chunks) THEN chunks[i] ELSE "gap"]

Writing(f) == {c \in Fetches : step[c] = "pipe" /\ FileOf[c] = f}

\* copyFileFromRemoteToLocal: getObject, and createWriteStream truncates.
Fetch(c) ==
  /\ alive
  /\ step[c] = "idle"
  /\ object[ObjectOf[c]] # Absent
  /\ data' = [data EXCEPT ![c] = object[ObjectOf[c]]]
  /\ file' = [file EXCEPT ![FileOf[c]] = <<>>]
  /\ shared' = IF Writing(FileOf[c]) # {} THEN shared \cup {FileOf[c]} ELSE shared
  /\ Goto(c, "pipe")
  /\ UNCHANGED <<answer, azure, at, object, alive, faults>>

FetchFindsNone(c) ==
  /\ alive
  /\ step[c] = "idle"
  /\ object[ObjectOf[c]] = Absent
  /\ Over(c, "not_found")
  /\ UNCHANGED <<azure, data, at, object, file, shared, alive, faults>>

FetchFails(c) ==
  /\ alive
  /\ step[c] = "idle"
  /\ Fault("s3")
  /\ Over(c, "error")
  /\ UNCHANGED <<azure, data, at, object, file, shared, alive>>

WriteChunk(c) ==
  /\ alive
  /\ step[c] = "pipe"
  /\ at[c] < Len(data[c])
  /\ file' = [file EXCEPT ![FileOf[c]] = Written(@, at[c] + 1, data[c][at[c] + 1])]
  /\ at' = [at EXCEPT ![c] = @ + 1]
  /\ UNCHANGED <<answer, azure, step, data, object, shared, alive, faults>>

Finish_AtOnce(c) ==
  /\ alive
  /\ step[c] = "pipe"
  /\ answer[c] = "none"
  /\ Answer(c, "ok")
  /\ UNCHANGED <<azure, copies, alive, faults>>

\* writeStream.on('finish')
Finish(c) ==
  /\ alive
  /\ step[c] = "pipe"
  /\ at[c] = Len(data[c])
  /\ Over(c, "ok")
  /\ UNCHANGED <<azure, data, at, object, file, shared, alive, faults>>

\* pipe() hands on no error of its source, and nobody listens to it.
SourceBreaks(c) ==
  /\ alive
  /\ step[c] = "pipe"
  /\ Fault("s3")
  /\ Goto(c, "broken")
  /\ UNCHANGED <<answer, azure, data, at, object, file, shared, alive>>

WriteFails_Unheard(c) ==
  /\ alive
  /\ step[c] = "pipe"
  /\ Fault("disk")
  /\ Goto(c, "over")
  /\ UNCHANGED <<answer, azure, data, at, object, file, shared, alive>>

\* writeStream.on('error')
WriteFails(c) ==
  /\ alive
  /\ step[c] = "pipe"
  /\ Fault("disk")
  /\ Over(c, "error")
  /\ UNCHANGED <<azure, data, at, object, file, shared, alive>>

\* copyFileFromLocalToRemote: existsSync, and fPutObject reads the file.
Store(c) ==
  /\ alive
  /\ step[c] = "idle"
  /\ file[FileOf[c]] # Absent
  /\ data' = [data EXCEPT ![c] = file[FileOf[c]]]
  /\ Goto(c, "put")
  /\ UNCHANGED <<answer, azure, at, object, file, shared, alive, faults>>

StoreFindsNone(c) ==
  /\ alive
  /\ step[c] = "idle"
  /\ file[FileOf[c]] = Absent
  /\ Over(c, "not_found")
  /\ UNCHANGED <<azure, data, at, object, file, shared, alive, faults>>

Put(c) ==
  /\ alive
  /\ step[c] = "put"
  /\ object' = [object EXCEPT ![ObjectOf[c]] = data[c]]
  /\ Over(c, "ok")
  /\ UNCHANGED <<azure, data, at, file, shared, alive, faults>>

\* fPutObject fails, perhaps after its effect.
PutFails(c) ==
  /\ alive
  /\ step[c] = "put"
  /\ Fault("s3")
  /\ object' \in {object, [object EXCEPT ![ObjectOf[c]] = data[c]]}
  /\ Over(c, "error")
  /\ UNCHANGED <<azure, data, at, file, shared, alive>>

\* deleteFromS3: S3 removes an object that does not exist without an error.
Remove(q) ==
  /\ alive
  /\ answer[q] = "none"
  /\ object' = [object EXCEPT ![ObjectOf[q]] = Absent]
  /\ Answer(q, "ok")
  /\ UNCHANGED <<azure, step, data, at, file, shared, alive, faults>>

RemoveFails(q) ==
  /\ alive
  /\ answer[q] = "none"
  /\ Fault("s3")
  /\ object' \in {object, [object EXCEPT ![ObjectOf[q]] = Absent]}
  /\ Answer(q, "error")
  /\ UNCHANGED <<azure, step, data, at, file, shared, alive>>

----------------------------------------------------------------------------

Operation(r, i) ==
  ContainerExists(r, i) \/ BlobExists(r, i) \/ Upload(r, i) \/ DeleteBlob(r, i)

Begun == {q \in Requests : answer[q] # "none"} \cup {c \in Copies : step[c] # "idle"}
         \cup {r \in Batches : \E i \in DOMAIN op[r] : op[r][i] # "idle"}

\* A request comes.
Arrive ==
  \/ \E r \in Batches : StartBatch(r)
  \/ \E c \in Fetches : Fetch(c) \/ FetchFindsNone(c) \/ FetchFails(c)
  \/ \E c \in Stores : Store(c) \/ StoreFindsNone(c)
  \/ \E q \in Removals : Remove(q) \/ RemoveFails(q)

\* One that is under way goes on.
Continue ==
  \/ \E r \in Batches : \E i \in DOMAIN Targets[r] : Operation(r, i) \/ AzureFails(r, i)
  \/ \E c \in Fetches : WriteChunk(c) \/ Finish(c) \/ SourceBreaks(c) \/ WriteFails(c)
  \/ \E c \in Stores : Put(c) \/ PutFails(c)

Next == Continue \/ (Cardinality(Begun) < MaxRequests /\ Arrive)

Spec == Init /\ [][Next]_vars

\* Azure, S3 and the disk answer the calls made to them.  Nothing is assumed of
\* the clients: a request may never come.
Fairness ==
  /\ \A r \in Batches : \A i \in DOMAIN Targets[r] : WF_vars(Operation(r, i))
  /\ \A c \in Fetches : WF_vars(WriteChunk(c) \/ Finish(c))
  /\ \A c \in Stores : WF_vars(Put(c))

FairSpec == Spec /\ Fairness

----------------------------------------------------------------------------
(* Properties                                                              *)

\* Some request has come to an end with deleting blob b.
Deleted(b) == \E r \in Deletes : \E i \in DOMAIN Targets[r] :
  Targets[r][i] = b /\ op[r][i] \in {"done", "rejected"}

\* Every deletion a client was told of has deleted a blob of its own: no more
\* than there were at first and were written since, however the exists() of one
\* request and the delete() of another interleave, and though the answer is
\* given for all files of a request at once (deleteBlob, Promise.all).
DeletedOnce == \A b \in Blobs :
  LET ops(R) == UNION {{r} \X {i \in DOMAIN op[r] : Targets[r][i] = b} : r \in R}
      told    == ops({r \in Deletes : answer[r] = "ok"})
      written == {o \in ops(Creates) : op[o[1]][o[2]] \in {"done", "rejected"}}
  IN Cardinality(told) <= (IF b \in Old THEN 1 ELSE 0) + Cardinality(written)

\* Success is told of a whole request only: every blob of a creation answered so
\* has content that some creation gave it, unless a deletion of it was tried as
\* well, and of a deletion none has the content it had at first, whatever the
\* other requests on the same blobs do in between and whichever of a request's
\* operations is over last (Promise.all of createFile and deleteFile).
SuccessIsWhole ==
  /\ \A r \in Creates : answer[r] = "ok" =>
       \A i \in DOMAIN Targets[r] : blob[Targets[r][i]] \in Creates \/ Deleted(Targets[r][i])
  /\ \A r \in Deletes : answer[r] = "ok" =>
       \A i \in DOMAIN Targets[r] : blob[Targets[r][i]] # "old"

\* After a copy answered with success, and with no other copy into that file
\* broken or under way, the local file is whole: all the chunks of one object,
\* unless two copies wrote it at the same time (neither looks for the other).
CopiedWhole == \A c \in Fetches :
  LET f == FileOf[c]
  IN answer[c] = "ok" /\ f \notin shared
     /\ (\A d \in Fetches : FileOf[d] = f => step[d] = "idle" \/ answer[d] \in {"ok", "not_found"})
     => \E d \in Fetches : FileOf[d] = f /\ answer[d] = "ok" /\ file[f] = data[d]

\* Every request under way is answered, whatever one of its calls does, unless
\* the process ends or S3 breaks a stream off: then the copy hangs for good.
RequestsAnswered ==
  /\ \A r \in Batches : (\E i \in DOMAIN op[r] : op[r][i] # "idle") ~> answer[r] # "none" \/ ~alive
  /\ \A c \in Copies : step[c] # "idle" ~> answer[c] # "none" \/ step[c] = "broken" \/ ~alive
==============================================================================
