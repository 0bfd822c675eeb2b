----------------------- MODULE StorageEndpointsProofs ------------------------
(* What StorageEndpoints promises for any requests, accounts, objects and    *)
(* faults.                                                                   *)
EXTENDS StorageEndpoints, FiniteSetTheorems, TLAPS

LEMMA Budget ==
  ASSUME NEW kind, faults \in 0..MaxFaults, Fault(kind)
  PROVE  faults' \in 0..MaxFaults
  BY BudgetAssumption DEF Fault

LEMMA ChunkTypes ==
  /\ Absent \in Seq(Chunks)
  /\ \A o \in Objects : Original(o) \in Seq(Chunks)
  BY DEF Absent, Original, Chunks

LEMMA WrittenType ==
  ASSUME NEW chunks \in Seq(Chunks), NEW k \in Nat \ {0}, NEW x \in Chunks
  PROVE  /\ Written(chunks, k, x) \in Seq(Chunks)
         /\ Len(chunks) < k => Len(Written(chunks, k, x)) = k
         /\ Written(chunks, k, x)[k] = x
         /\ \A i \in 1..Len(chunks) : i # k => Written(chunks, k, x)[i] = chunks[i]
  <1> DEFINE n == IF k > Len(chunks) THEN k ELSE Len(chunks)
             g == [i \in 1..n |-> IF i = k THEN x ELSE IF i <= Len(chunks) THEN chunks[i] ELSE "gap"]
  <1>1. n \in Nat /\ k \in 1..n /\ Len(chunks) <= n /\ (Len(chunks) < k => n = k)
    OBVIOUS
  <1>2. g \in [1..n -> Chunks]
    BY <1>1 DEF Chunks
  <1>3. g \in Seq(Chunks) /\ Len(g) = n
    BY <1>1, <1>2
  <1>4. g[k] = x /\ \A i \in 1..Len(chunks) : i # k => g[i] = chunks[i]
    BY <1>1
  <1>5. Written(chunks, k, x) = g
    BY DEF Written
  <1> QED BY <1>1, <1>3, <1>4, <1>5

LEMMA ChunkAppended ==
  ASSUME NEW chunks \in Seq(Chunks), NEW n \in Nat, Len(chunks) = n, NEW x \in Chunks,
         NEW w, w = Written(chunks, n + 1, x)
  PROVE  /\ Len(w) = n + 1 /\ w[n + 1] = x
         /\ \A i \in 1..n : w[i] = chunks[i]
  <1>1. n + 1 \in Nat \ {0}
    OBVIOUS
  <1>2. /\ Len(chunks) < n + 1 => Len(w) = n + 1
        /\ w[n + 1] = x
        /\ \A i \in 1..Len(chunks) : i # n + 1 => w[i] = chunks[i]
    BY <1>1, WrittenType
  <1> QED BY <1>2

LEMMA CombinedType ==
  ASSUME NEW r, NEW steps
  PROVE  Combined(r, steps) \in {"ok", "none"}
  BY DEF Combined

LEMMA TargetType ==
  ASSUME NEW r \in Batches, NEW i \in DOMAIN Targets[r]
  PROVE  Targets[r][i] \in Blobs
  BY TargetsAssumption

----------------------------------------------------------------------------
(* Which variables a step may change.                                      *)

BatchVars == <<op, blob>>
CopyVars  == <<step, data, at, object, file, shared>>

\* The requests to Azure and the copies meet in nothing but the answers, of
\* which each gives its own, and in the process they share.
LEMMA StepKinds ==
  ASSUME [Next]_vars
  PROVE  \/ /\ UNCHANGED CopyVars
            /\ \E r \in Batches :
                 \/ StartBatch(r)
                 \/ \E i \in DOMAIN Targets[r] : Operation(r, i) \/ AzureFails(r, i)
         \/ /\ UNCHANGED <<op, blob, alive>>
            /\ \/ \E c \in Fetches : \/ Fetch(c) \/ FetchFindsNone(c) \/ FetchFails(c)
                                     \/ WriteChunk(c) \/ Finish(c) \/ SourceBreaks(c)
                                     \/ WriteFails(c)
               \/ \E c \in Stores : Store(c) \/ StoreFindsNone(c) \/ Put(c) \/ PutFails(c)
               \/ \E q \in Removals : Remove(q) \/ RemoveFails(q)
         \/ UNCHANGED vars
  BY DEF Next, Continue, Arrive, Operation, StartBatch, ContainerExists, BlobExists, Upload,
     DeleteBlob, AzureFails, Fetch, FetchFindsNone, FetchFails, WriteChunk, Finish,
     SourceBreaks, WriteFails, Store, StoreFindsNone, Put, PutFails, Remove, RemoveFails,
     copies, azure, CopyVars

----------------------------------------------------------------------------
(* Types, and the steps of each kind of request: nothing was started behind  *)
(* an unsupported account, only creations write and only deletions delete, a *)
(* copy that has not begun has written nothing.                              *)

TypeInv ==
  /\ TypeOK
  /\ op = [r \in Batches |-> op[r]]
  /\ \A r \in Batches : \A i \in DOMAIN Targets[r] :
       /\ op[r][i] # "idle" => i \in StartedOps(r)
       /\ op[r][i] = "write" => r \in Creates
       /\ op[r][i] \in {"exists", "delete"} => r \in Deletes
  /\ \A c \in Copies : step[c] = "idle" => at[c] = 0

LEMMA TypeInit == Init => TypeInv
  <1> SUFFICES ASSUME Init PROVE TypeInv
    OBVIOUS
  <1>1. TypeOK
    BY ChunkTypes, AccountsAssumption, BudgetAssumption
    DEF Init, TypeOK, Answers, OpSteps, CopySteps
  <1> QED BY <1>1 DEF TypeInv, Init

\* One operation of a request takes its next step.
LEMMA OpType ==
  ASSUME TypeInv, NEW r \in Batches, NEW i \in DOMAIN Targets[r], NEW next \in OpSteps,
         op' = [op EXCEPT ![r][i] = next]
  PROVE  /\ op' = [s \in Batches |-> op'[s]]
         /\ \A s \in Batches : op'[s] \in [DOMAIN Targets[s] -> OpSteps]
         /\ op'[r][i] = next
         /\ \A s \in Batches : \A j \in DOMAIN Targets[s] :
              s # r \/ j # i => op'[s][j] = op[s][j]
  BY DEF TypeInv, TypeOK

\* What a step of one operation does to its request.
LEMMA OperationSteps ==
  ASSUME NEW r \in Batches, NEW i \in DOMAIN Targets[r],
         Operation(r, i) \/ AzureFails(r, i)
  PROVE  /\ op[r][i] \in {"container", "exists", "write", "delete"}
         /\ \/ Resolve(r, i) /\ op[r][i] \in {"write", "delete"}
            \/ \E error \in {"not_found", "error"} : Reject(r, i, error)
            \/ GoOn(r, i, "write") /\ op[r][i] = "container" /\ r \in Creates
            \/ GoOn(r, i, "exists") /\ op[r][i] = "container" /\ r \notin Creates
            \/ GoOn(r, i, "delete") /\ op[r][i] = "exists"
  BY DEF Operation, ContainerExists, BlobExists, Upload, DeleteBlob, AzureFails

\* A request starts the operations in front of the first unsupported account.
LEMMA StartSteps ==
  ASSUME TypeInv, NEW r \in Batches, StartBatch(r)
  PROVE  /\ op' = [s \in Batches |-> op'[s]]
         /\ \A s \in Batches : op'[s] \in [DOMAIN Targets[s] -> OpSteps]
         /\ \A s \in Batches : \A j \in DOMAIN Targets[s] :
              \/ op'[s][j] = op[s][j]
              \/ /\ s = r /\ op[s][j] = "idle" /\ j \in StartedOps(r)
                 /\ op'[s][j] = IF Targets[r][j] \in Unknown THEN "rejected" ELSE "container"
         /\ \A j \in StartedOps(r) : Targets[r][j] \in Unknown => op'[r][j] = "rejected"
  <1> DEFINE first(i) == IF i \notin StartedOps(r) THEN "idle"
                         ELSE IF Targets[r][i] \in Unknown THEN "rejected" ELSE "container"
             g == [i \in DOMAIN Targets[r] |-> first(i)]
  <1>1. op' = [op EXCEPT ![r] = g]
    BY DEF StartBatch
  <1>2. g \in [DOMAIN Targets[r] -> OpSteps]
    BY DEF OpSteps
  <1>3. op'[r] = g /\ op' = [s \in Batches |-> op'[s]] /\ \A s \in Batches \ {r} : op'[s] = op[s]
    BY <1>1 DEF TypeInv
  <1>4. \A j \in DOMAIN Targets[r] : op[r][j] = "idle"
    BY DEF StartBatch, TypeInv, TypeOK
  <1>5. StartedOps(r) \subseteq DOMAIN Targets[r]
    BY DEF StartedOps
  <1> HIDE DEF g
  <1>6. \A s \in Batches : op'[s] \in [DOMAIN Targets[s] -> OpSteps]
    BY <1>2, <1>3 DEF TypeInv, TypeOK
  <1>7. ASSUME NEW j \in DOMAIN Targets[r]
        PROVE  \/ op'[r][j] = op[r][j]
               \/ /\ j \in StartedOps(r)
                  /\ op'[r][j] = IF Targets[r][j] \in Unknown THEN "rejected" ELSE "container"
    BY <1>3, <1>4 DEF g
  <1>8. \A j \in StartedOps(r) : Targets[r][j] \in Unknown => op'[r][j] = "rejected"
    BY <1>3, <1>5 DEF g
  <1> QED BY <1>3, <1>4, <1>6, <1>7, <1>8

LEMMA BatchTypes ==
  ASSUME TypeInv, NEW r \in Batches, UNCHANGED CopyVars,
         \/ StartBatch(r)
         \/ \E i \in DOMAIN Targets[r] : Operation(r, i) \/ AzureFails(r, i)
  PROVE  TypeInv'
  <1> USE DEF TypeInv, TypeOK, CopyVars
  <1>1. CASE StartBatch(r)
    <2>1. answer' \in [Requests -> Answers] /\ alive' \in BOOLEAN
      BY <1>1 DEF StartBatch, Answers, Combined
    <2>2. UNCHANGED <<blob, faults>>
      BY <1>1 DEF StartBatch
    <2>3. /\ op' = [s \in Batches |-> op'[s]]
          /\ \A s \in Batches : op'[s] \in [DOMAIN Targets[s] -> OpSteps]
      BY <1>1, StartSteps
    <2>4. ASSUME NEW s \in Batches, NEW j \in DOMAIN Targets[s]
          PROVE  /\ op'[s][j] # "idle" => j \in StartedOps(s)
                 /\ op'[s][j] = "write" => s \in Creates
                 /\ op'[s][j] \in {"exists", "delete"} => s \in Deletes
      <3>1. \/ op'[s][j] = op[s][j]
            \/ s = r /\ j \in StartedOps(r) /\ op'[s][j] \in {"container", "rejected"}
        BY <1>1, StartSteps
      <3> QED BY <3>1
    <2> QED BY <2>1, <2>2, <2>3, <2>4
  <1>2. ASSUME NEW i \in DOMAIN Targets[r], Operation(r, i) \/ AzureFails(r, i) PROVE TypeInv'
    <2>1. /\ op' = [s \in Batches |-> op'[s]]
          /\ \A s \in Batches : op'[s] \in [DOMAIN Targets[s] -> OpSteps]
          /\ \A s \in Batches : \A j \in DOMAIN Targets[s] :
               s # r \/ j # i => op'[s][j] = op[s][j]
          /\ op[r][i] # "idle" /\ op'[r][i] # "idle"
          /\ op'[r][i] = "write" => r \in Creates
          /\ op'[r][i] \in {"exists", "delete"} => r \in Deletes
      <3>1. PICK next \in {"done", "rejected", "write", "exists", "delete"} :
              /\ op' = [op EXCEPT ![r][i] = next] /\ op[r][i] # "idle"
              /\ next = "write" => r \in Creates
              /\ next \in {"exists", "delete"} => r \in Deletes
        BY <1>2, OperationSteps DEF Resolve, Reject, GoOn, Batches
      <3> QED BY <3>1, OpType DEF OpSteps
    <2>2. answer' \in [Requests -> Answers] /\ alive' \in BOOLEAN
      <3>1. r \in Requests
        BY DEF Requests
      <3>2. CASE Resolve(r, i)
        BY <3>1, <3>2, CombinedType DEF Resolve, Answers
      <3>3. CASE \E error \in {"not_found", "error"} : Reject(r, i, error)
        BY <3>1, <3>3 DEF Reject, Answers
      <3> QED BY <1>2, <3>2, <3>3, OperationSteps DEF GoOn
    <2>3. blob' \in [Blobs -> Creates \cup {"absent", "old"}]
      BY <1>2, TargetType
      DEF Operation, ContainerExists, BlobExists, Upload, DeleteBlob, AzureFails, SetBlob
    <2>4. faults' \in 0..MaxFaults
      BY <1>2, Budget
      DEF Operation, ContainerExists, BlobExists, Upload, DeleteBlob, AzureFails
    <2> QED BY <2>1, <2>2, <2>3, <2>4
  <1> QED BY <1>1, <1>2

LEMMA CopyTypes ==
  ASSUME TypeInv, [Next]_vars, UNCHANGED <<op, blob, alive>>,
         \/ \E c \in Fetches : \/ Fetch(c) \/ FetchFindsNone(c) \/ FetchFails(c)
                               \/ WriteChunk(c) \/ Finish(c) \/ SourceBreaks(c)
                               \/ WriteFails(c)
         \/ \E c \in Stores : Store(c) \/ StoreFindsNone(c) \/ Put(c) \/ PutFails(c)
         \/ \E q \in Removals : Remove(q) \/ RemoveFails(q)
  PROVE  TypeInv'
  <1> USE PathsAssumption DEF TypeInv, TypeOK, CopySteps, Answers, Over, Answer, Goto, Copies
  <1>1. ASSUME NEW c \in Fetches, Fetch(c) PROVE TypeInv'
    <2>1. ObjectOf[c] \in Objects /\ FileOf[c] \in Files /\ <<>> \in Seq(Chunks)
      BY DEF Copies
    <2> QED BY <1>1, <2>1 DEF Fetch, azure
  <1>2. ASSUME NEW c \in Fetches, FetchFindsNone(c) \/ FetchFails(c) PROVE TypeInv'
    BY <1>2, Budget DEF FetchFindsNone, FetchFails, azure, Requests
  <1>3. ASSUME NEW c \in Fetches, WriteChunk(c) PROVE TypeInv'
    <2>1. /\ FileOf[c] \in Files /\ at[c] + 1 \in Nat \ {0}
          /\ data[c] \in Seq(Chunks) /\ at[c] + 1 \in 1..Len(data[c])
      BY <1>3 DEF WriteChunk
    <2>2. data[c][at[c] + 1] \in Chunks
      BY <2>1
    <2>3. Written(file[FileOf[c]], at[c] + 1, data[c][at[c] + 1]) \in Seq(Chunks)
      BY <2>1, <2>2, WrittenType
    <2>4. file' \in [Files -> Seq(Chunks)]
      BY <1>3, <2>1, <2>3 DEF WriteChunk
    <2> QED BY <1>3, <2>1, <2>4 DEF WriteChunk, azure
  <1>4. ASSUME NEW c \in Fetches, Finish(c) \/ SourceBreaks(c) \/ WriteFails(c) PROVE TypeInv'
    BY <1>4, Budget DEF Finish, SourceBreaks, WriteFails, azure, Requests
  <1>5. ASSUME NEW c \in Stores, Store(c) \/ StoreFindsNone(c) PROVE TypeInv'
    <2>1. FileOf[c] \in Files
      OBVIOUS
    <2>2. CASE Store(c)
      BY <2>1, <2>2 DEF Store, azure
    <2>3. CASE StoreFindsNone(c)
      BY <2>3 DEF StoreFindsNone, azure, Requests
    <2> QED BY <1>5, <2>2, <2>3
  <1>6. ASSUME NEW c \in Stores, Put(c) \/ PutFails(c) PROVE TypeInv'
    <2>1. ObjectOf[c] \in Objects
      OBVIOUS
    <2> QED BY <1>6, <2>1, Budget DEF Put, PutFails, azure, Requests
  <1>7. ASSUME NEW q \in Removals, Remove(q) \/ RemoveFails(q) PROVE TypeInv'
    <2>1. ObjectOf[q] \in Objects
      OBVIOUS
    <2>2. object' \in [Objects -> Seq(Chunks)]
      BY <1>7, <2>1, ChunkTypes DEF Remove, RemoveFails
    <2>3. answer' \in [Requests -> Answers] /\ faults' \in 0..MaxFaults
      BY <1>7, Budget DEF Remove, RemoveFails, Requests
    <2> QED BY <1>7, <2>2, <2>3 DEF Remove, RemoveFails, azure
  <1> QED BY <1>1, <1>2, <1>3, <1>4, <1>5, <1>6, <1>7

LEMMA TypeNext == TypeInv /\ [Next]_vars => TypeInv'
  <1> SUFFICES ASSUME TypeInv, [Next]_vars PROVE TypeInv'
    OBVIOUS
  <1>1. ASSUME UNCHANGED vars PROVE TypeInv'
    BY <1>1 DEF TypeInv, TypeOK, vars, azure, copies
  <1> QED BY <1>1, StepKinds, BatchTypes, CopyTypes

\* Every variable of the requests and the stores keeps its type, for every list
\* of files in a body (createFile, deleteFile, copyFile, deleteFromS3).
THEOREM EndpointTypes == Spec => []TypeOK
  <1>1. TypeInv => TypeOK
    BY DEF TypeInv
  <1> QED BY <1>1, TypeInit, TypeNext, PTL DEF Spec

----------------------------------------------------------------------------
(* The requests over several accounts: operations and answers.             *)

\* What is over stays over.
LEMMA OpsOver ==
  ASSUME TypeInv, [Next]_vars, NEW r \in Batches, NEW i \in DOMAIN Targets[r],
         op[r][i] \in {"done", "rejected"}
  PROVE  op'[r][i] = op[r][i]
  <1>1. ASSUME NEW s \in Batches, StartBatch(s) PROVE op'[r][i] = op[r][i]
    BY <1>1, StartSteps
  <1>2. ASSUME NEW s \in Batches, NEW j \in DOMAIN Targets[s], Operation(s, j) \/ AzureFails(s, j)
        PROVE  op'[r][i] = op[r][i]
    <2>1. PICK next \in OpSteps : op' = [op EXCEPT ![s][j] = next]
      BY <1>2, OperationSteps DEF Resolve, Reject, GoOn, OpSteps
    <2>2. s # r \/ j # i
      BY <1>2, OperationSteps
    <2> QED BY <2>1, <2>2, OpType
  <1> QED BY <1>1, <1>2, StepKinds DEF vars, azure

\* Promise.all: success is answered for all files of the request.
OkMeansDone == \A r \in Batches : answer[r] = "ok" =>
  \A i \in DOMAIN Targets[r] : op[r][i] = "done"

\* Only its own operations answer such a request with success.
LEMMA BatchAnswers ==
  ASSUME TypeInv, [Next]_vars, NEW r \in Batches, answer'[r] = "ok", answer[r] # "ok"
  PROVE  Combined(r, op'[r]) = "ok"
  <1> USE DEF TypeInv, TypeOK
  <1>0. r \in Requests /\ r \notin Copies /\ r \notin Removals
    BY RequestsAssumption DEF Requests
  <1>1. ASSUME NEW s \in Batches, StartBatch(s) PROVE Combined(r, op'[r]) = "ok"
    BY <1>0, <1>1 DEF StartBatch
  <1>2. ASSUME NEW s \in Batches, NEW j \in DOMAIN Targets[s], Operation(s, j) \/ AzureFails(s, j)
        PROVE  Combined(r, op'[r]) = "ok"
    <2>1. CASE Resolve(s, j)
      BY <1>0, <2>1 DEF Resolve
    <2>2. ASSUME NEW error \in {"not_found", "error"}, Reject(s, j, error) PROVE FALSE
      BY <1>0, <2>2 DEF Reject
    <2>3. ~UNCHANGED answer
      OBVIOUS
    <2> QED BY <1>2, <2>1, <2>2, <2>3, OperationSteps DEF GoOn
  <1>3. ASSUME NEW c \in Copies, NEW a, Answer(c, a) PROVE FALSE
    BY <1>0, <1>3 DEF Answer
  <1>4. ASSUME NEW c \in Removals, NEW a, Answer(c, a) PROVE FALSE
    BY <1>0, <1>4 DEF Answer
  <1>5. ~UNCHANGED answer
    OBVIOUS
  <1>6. ASSUME NEW c \in Fetches, \/ Fetch(c) \/ FetchFindsNone(c) \/ FetchFails(c) \/ WriteChunk(c)
                                 \/ Finish(c) \/ SourceBreaks(c) \/ WriteFails(c)
        PROVE  FALSE
    BY <1>3, <1>5, <1>6
    DEF Fetch, FetchFindsNone, FetchFails, WriteChunk, Finish, SourceBreaks, WriteFails, Over, Copies
  <1>7. ASSUME NEW c \in Stores, Store(c) \/ StoreFindsNone(c) \/ Put(c) \/ PutFails(c)
        PROVE  FALSE
    BY <1>3, <1>5, <1>7 DEF Store, StoreFindsNone, Put, PutFails, Over, Copies
  <1>8. ASSUME NEW c \in Removals, Remove(c) \/ RemoveFails(c) PROVE FALSE
    BY <1>4, <1>8 DEF Remove, RemoveFails
  <1>9. ~UNCHANGED vars
    BY <1>5 DEF vars
  <1> QED BY <1>1, <1>2, <1>6, <1>7, <1>8, <1>9, StepKinds

LEMMA OkNext == TypeInv /\ OkMeansDone /\ [Next]_vars => OkMeansDone'
  <1> SUFFICES ASSUME TypeInv, OkMeansDone, [Next]_vars,
                      NEW r \in Batches, answer'[r] = "ok", NEW i \in DOMAIN Targets[r]
               PROVE  op'[r][i] = "done"
    BY DEF OkMeansDone
  <1>1. CASE answer[r] = "ok"
    BY <1>1, OpsOver DEF OkMeansDone
  <1>2. CASE answer[r] # "ok"
    <2>1. ASSUME Combined(r, op'[r]) = "ok" PROVE op'[r][i] = "done"
      BY <2>1, TypeNext DEF Combined, TypeInv, TypeOK
    <2>2. Combined(r, op'[r]) = "ok"
      BY <1>2, BatchAnswers
    <2> QED BY <2>1, <2>2
  <1> QED BY <1>1, <1>2

----------------------------------------------------------------------------
(* Copies into the directory.                                              *)

\* A file nobody shares has one writer, and has what that writer has read so
\* far; a copy is answered when it is over.
Copying ==
  /\ \A c \in Copies : step[c] # "over" => answer[c] = "none"
  /\ \A f \in Files : f \notin shared =>
       \A c \in Writing(f) :
         /\ \A d \in Writing(f) : d = c
         /\ Len(file[f]) = at[c]
         /\ \A i \in 1..at[c] : file[f][i] = data[c][i]

LEMMA CopyAnswered ==
  ASSUME TypeInv, Copying, [Next]_vars, NEW c \in Copies, step'[c] # "over"
  PROVE  answer'[c] = "none"
  <1> USE DEF TypeInv, TypeOK, Copying, Copies
  <1>1. c \in Requests /\ c \notin Batches /\ c \notin Removals
    BY RequestsAssumption DEF Requests
  <1>2. ASSUME NEW r \in Batches, StartBatch(r), UNCHANGED CopyVars PROVE answer'[c] = "none"
    BY <1>1, <1>2 DEF StartBatch, CopyVars
  <1>3. ASSUME NEW r \in Batches, NEW i \in DOMAIN Targets[r], Operation(r, i) \/ AzureFails(r, i),
               UNCHANGED CopyVars
        PROVE  answer'[c] = "none"
    <2>1. step'[c] = step[c] /\ c # r
      BY <1>1, <1>3 DEF CopyVars
    <2>2. CASE Resolve(r, i)
      BY <2>1, <2>2 DEF Resolve
    <2>3. ASSUME NEW error, Reject(r, i, error) PROVE answer'[c] = "none"
      BY <2>1, <2>3 DEF Reject
    <2>4. CASE UNCHANGED answer
      BY <2>1, <2>4
    <2> HIDE DEF TypeInv, TypeOK, Copying
    <2> QED BY <1>3, <2>2, <2>3, <2>4, OperationSteps DEF GoOn
  <1>4. ASSUME NEW d \in Fetches, Fetch(d) \/ WriteChunk(d) \/ SourceBreaks(d)
        PROVE  answer'[c] = "none"
    BY <1>4 DEF Fetch, WriteChunk, SourceBreaks, Goto
  <1>5. ASSUME NEW d \in Copies, NEW a, Over(d, a) PROVE answer'[c] = "none"
    BY <1>5 DEF Over, Goto, Answer
  <1>6. ASSUME NEW d \in Fetches, FetchFindsNone(d) \/ FetchFails(d) \/ Finish(d) \/ WriteFails(d)
        PROVE  answer'[c] = "none"
    BY <1>5, <1>6 DEF FetchFindsNone, FetchFails, Finish, WriteFails
  <1>7. ASSUME NEW d \in Stores, Store(d) \/ StoreFindsNone(d) \/ Put(d) \/ PutFails(d)
        PROVE  answer'[c] = "none"
    <2>1. CASE Store(d)
      BY <2>1 DEF Store, Goto
    <2>2. CASE StoreFindsNone(d) \/ Put(d) \/ PutFails(d)
      BY <1>5, <2>2 DEF StoreFindsNone, Put, PutFails
    <2> QED BY <1>7, <2>1, <2>2
  <1>8. ASSUME NEW q \in Removals, Remove(q) \/ RemoveFails(q) PROVE answer'[c] = "none"
    BY <1>1, <1>8 DEF Remove, RemoveFails, Answer
  <1>9. CASE UNCHANGED vars
    BY <1>9 DEF vars, copies
  <1> QED BY <1>2, <1>3, <1>4, <1>6, <1>7, <1>8, <1>9, StepKinds

KeepsFile(f) ==
  /\ Writing(f)' \subseteq Writing(f) /\ file'[f] = file[f]
  /\ f \in shared => f \in shared'
  /\ \A d \in Fetches : FileOf[d] = f => data'[d] = data[d] /\ at'[d] = at[d]

\* What a step does to a local file and to the fetches into it.
LEMMA FileSteps ==
  ASSUME TypeInv, [Next]_vars, NEW f \in Files
  PROVE  \/ KeepsFile(f)
         \/ \E c \in Fetches : FileOf[c] = f /\ (Fetch(c) \/ WriteChunk(c))
  <1> USE PathsAssumption DEF TypeInv, TypeOK, Writing, Copies, Over, Goto, KeepsFile
  <1>1. ASSUME UNCHANGED CopyVars PROVE KeepsFile(f)
    BY <1>1 DEF CopyVars
  <1>2. ASSUME NEW c \in Fetches, Fetch(c) \/ WriteChunk(c), FileOf[c] # f PROVE KeepsFile(f)
    BY <1>2 DEF Fetch, WriteChunk
  <1>3. ASSUME NEW c \in Fetches,
               FetchFindsNone(c) \/ FetchFails(c) \/ Finish(c) \/ SourceBreaks(c) \/ WriteFails(c)
        PROVE  KeepsFile(f)
    BY <1>3 DEF FetchFindsNone, FetchFails, Finish, SourceBreaks, WriteFails
  <1>4. ASSUME NEW c \in Stores, Store(c) \/ StoreFindsNone(c) \/ Put(c) \/ PutFails(c)
        PROVE  KeepsFile(f)
    BY <1>4, RequestsAssumption DEF Store, StoreFindsNone, Put, PutFails
  <1>5. ASSUME NEW q \in Removals, Remove(q) \/ RemoveFails(q) PROVE KeepsFile(f)
    BY <1>5 DEF Remove, RemoveFails
  <1>6. ASSUME UNCHANGED vars PROVE KeepsFile(f)
    BY <1>1, <1>6 DEF vars, copies, CopyVars
  <1> QED BY <1>1, <1>2, <1>3, <1>4, <1>5, <1>6, StepKinds

\* A fetch that begins, and one that writes a chunk.
LEMMA WritingSteps ==
  ASSUME TypeInv, Copying, NEW c \in Fetches, NEW f \in Files, FileOf[c] = f,
         Fetch(c) \/ WriteChunk(c), f \notin shared', NEW e \in Writing(f)'
  PROVE  /\ e = c
         /\ Len(file'[f]) = at'[c]
         /\ \A i \in 1..at'[c] : file'[f][i] = data'[c][i]
  <1> USE PathsAssumption DEF TypeInv, TypeOK, Writing, Copies
  <1>1. CASE Fetch(c)
    <2>1. Writing(f) = {} /\ file'[f] = <<>> /\ at'[c] = 0
      BY <1>1 DEF Fetch
    <2>2. e = c
      BY <1>1, <2>1 DEF Fetch, Goto
    <2> QED BY <2>1, <2>2
  <1>2. CASE WriteChunk(c)
    <2> DEFINE k == at[c] + 1
    <2>1. c \in Writing(f) /\ e \in Writing(f) /\ f \notin shared
      BY <1>2 DEF WriteChunk
    <2>2. e = c /\ Len(file[f]) = at[c] /\ \A i \in 1..at[c] : file[f][i] = data[c][i]
      BY <2>1 DEF Copying
    <2>3. /\ at[c] \in Nat /\ k \in Nat \ {0} /\ data[c][k] \in Chunks /\ file[f] \in Seq(Chunks)
          /\ at'[c] = k /\ file'[f] = Written(file[f], k, data[c][k]) /\ data' = data
      <3>1. at[c] \in Nat /\ data[c] \in Seq(Chunks) /\ at[c] < Len(data[c])
        BY <1>2 DEF WriteChunk
      <3> QED BY <1>2, <3>1 DEF WriteChunk
    <2>4. /\ Len(file'[f]) = k /\ file'[f][k] = data[c][k]
          /\ \A i \in 1..at[c] : file'[f][i] = file[f][i]
      <3> DEFINE old == file[f]
                 x   == data[c][k]
                 w   == file'[f]
      <3>1. /\ old \in Seq(Chunks) /\ at[c] \in Nat /\ Len(old) = at[c] /\ x \in Chunks
            /\ w = Written(old, at[c] + 1, x)
        BY <2>2, <2>3
      <3> HIDE DEF TypeInv, TypeOK, Writing, Copies, old, x, w
      <3>2. /\ Len(w) = at[c] + 1 /\ w[at[c] + 1] = x
            /\ \A i \in 1..at[c] : w[i] = old[i]
        BY <3>1, ChunkAppended
      <3> QED BY <3>2 DEF old, x, w
    <2>5. \A i \in 1..k : i = k \/ i \in 1..at[c]
      BY <2>3
    <2> QED BY <2>2, <2>3, <2>4, <2>5
  <1> QED BY <1>1, <1>2

LEMMA CopyingNext == TypeInv /\ Copying /\ [Next]_vars => Copying'
  <1> SUFFICES ASSUME TypeInv, Copying, [Next]_vars PROVE Copying'
    OBVIOUS
  <1>1. \A c \in Copies : step'[c] # "over" => answer'[c] = "none"
    BY CopyAnswered
  <1>2. ASSUME NEW f \in Files, f \notin shared', NEW e \in Writing(f)'
        PROVE  /\ \A d \in Writing(f)' : d = e
               /\ Len(file'[f]) = at'[e]
               /\ \A i \in 1..at'[e] : file'[f][i] = data'[e][i]
    <2>1. CASE \E c \in Fetches : FileOf[c] = f /\ (Fetch(c) \/ WriteChunk(c))
      <3>1. PICK c \in Fetches : FileOf[c] = f /\ (Fetch(c) \/ WriteChunk(c))
        BY <2>1
      <3>2. \A d \in Writing(f)' : /\ d = c
                                  /\ Len(file'[f]) = at'[c]
                                  /\ \A i \in 1..at'[c] : file'[f][i] = data'[c][i]
        BY <1>2, <3>1, WritingSteps
      <3> QED BY <1>2, <3>2
    <2>2. CASE KeepsFile(f)
      <3>1. e \in Writing(f) /\ f \notin shared /\ data'[e] = data[e] /\ at'[e] = at[e]
        BY <1>2, <2>2 DEF Writing, KeepsFile
      <3>2. /\ \A d \in Writing(f) : d = e
            /\ Len(file[f]) = at[e]
            /\ \A i \in 1..at[e] : file[f][i] = data[e][i]
        BY <3>1 DEF Copying
      <3> QED BY <2>2, <3>1, <3>2 DEF KeepsFile
    <2> QED BY <2>1, <2>2, FileSteps
  <1> QED BY <1>1, <1>2 DEF Copying

LEMMA CopyingInit == Init => Copying
  BY DEF Init, Copying, Writing, Requests, Copies

\* How a fetch is answered.
LEMMA FetchAnswers ==
  ASSUME TypeInv, Copying, [Next]_vars, NEW d \in Fetches
  PROVE  \/ answer'[d] = answer[d] /\ (step'[d] = "idle" => step[d] = "idle")
         \/ Finish(d)
         \/ step[d] = "idle" /\ answer'[d] = "not_found"
         \/ answer'[d] = "error" /\ step'[d] # "idle" /\ answer[d] = "none"
  <1> USE DEF TypeInv, TypeOK, Copies
  <1> DEFINE Same == answer'[d] = answer[d] /\ (step'[d] = "idle" => step[d] = "idle")
  <1>1. d \in Requests /\ d \notin Batches /\ d \notin Removals /\ d \notin Stores
    BY RequestsAssumption DEF Requests
  <1>2. ASSUME NEW r \in Batches, StartBatch(r), UNCHANGED CopyVars PROVE Same
    BY <1>1, <1>2 DEF StartBatch, CopyVars
  <1>3. ASSUME NEW r \in Batches, NEW i \in DOMAIN Targets[r], Operation(r, i) \/ AzureFails(r, i),
               UNCHANGED CopyVars
        PROVE  Same
    <2>1. step'[d] = step[d] /\ d # r
      BY <1>1, <1>3 DEF CopyVars
    <2>2. CASE Resolve(r, i)
      BY <2>1, <2>2 DEF Resolve
    <2>3. ASSUME NEW error, Reject(r, i, error) PROVE Same
      BY <2>1, <2>3 DEF Reject
    <2>4. CASE UNCHANGED answer
      BY <2>1, <2>4
    <2> HIDE DEF TypeInv, TypeOK
    <2> QED BY <1>3, <2>2, <2>3, <2>4, OperationSteps DEF GoOn
  <1>4. ASSUME NEW c \in Fetches, Fetch(c) \/ WriteChunk(c) \/ SourceBreaks(c) PROVE Same
    BY <1>4 DEF Fetch, WriteChunk, SourceBreaks, Goto
  <1>5. ASSUME NEW c \in Copies, c # d, NEW a, Over(c, a) PROVE Same
    BY <1>5 DEF Over, Goto, Answer
  <1>6. ASSUME NEW c \in Fetches, c # d,
               FetchFindsNone(c) \/ FetchFails(c) \/ Finish(c) \/ WriteFails(c)
        PROVE  Same
    BY <1>5, <1>6 DEF FetchFindsNone, FetchFails, Finish, WriteFails
  <1>7. CASE FetchFindsNone(d)
    BY <1>1, <1>7 DEF FetchFindsNone, Over, Answer
  <1>8. CASE FetchFails(d) \/ WriteFails(d)
    BY <1>1, <1>8 DEF FetchFails, WriteFails, Over, Answer, Goto, Copying
  <1>9. ASSUME NEW c \in Stores, Store(c) \/ StoreFindsNone(c) \/ Put(c) \/ PutFails(c)
        PROVE  Same
    <2>1. CASE Store(c)
      BY <1>1, <2>1 DEF Store, Goto
    <2>2. CASE StoreFindsNone(c) \/ Put(c) \/ PutFails(c)
      BY <1>1, <1>5, <2>2 DEF StoreFindsNone, Put, PutFails
    <2> QED BY <1>9, <2>1, <2>2
  <1>10. ASSUME NEW q \in Removals, Remove(q) \/ RemoveFails(q) PROVE Same
    BY <1>1, <1>10 DEF Remove, RemoveFails, Answer
  <1>11. CASE UNCHANGED vars
    BY <1>11 DEF vars, copies
  <1> HIDE DEF TypeInv, TypeOK
  <1> QED BY <1>2, <1>3, <1>4, <1>6, <1>7, <1>8, <1>9, <1>10, <1>11, StepKinds

Settled(f) == \A d \in Fetches :
  FileOf[d] = f => step[d] = "idle" \/ answer[d] \in {"ok", "not_found"}
WholeCopy(f) == \E d \in Fetches : FileOf[d] = f /\ answer[d] = "ok" /\ file[f] = data[d]

\* The step that leaves a file settled: the copy into it finishes, or the file
\* was settled already.
LEMMA SettlingSteps ==
  ASSUME TypeInv, Copying, [Next]_vars, NEW f \in Files, Settled(f)'
  PROVE  \/ \E e \in Fetches : FileOf[e] = f /\ Finish(e)
         \/ /\ KeepsFile(f) /\ Settled(f)
            /\ \A d \in Fetches : FileOf[d] = f => (answer[d] = "ok" <=> answer'[d] = "ok")
  <1> SUFFICES ASSUME \A e \in Fetches : FileOf[e] = f => ~Finish(e)
               PROVE  /\ KeepsFile(f) /\ Settled(f)
                      /\ \A d \in Fetches : FileOf[d] = f =>
                           (answer[d] = "ok" <=> answer'[d] = "ok")
    OBVIOUS
  <1>1. ASSUME NEW c \in Fetches, FileOf[c] = f, Fetch(c) \/ WriteChunk(c) PROVE FALSE
    <2>1. step'[c] = "pipe" /\ step[c] # "over" /\ answer' = answer
      BY <1>1 DEF Fetch, WriteChunk, Goto, TypeInv, TypeOK, Copies
    <2>2. answer[c] = "none"
      BY <2>1 DEF Copying, Copies
    <2> QED BY <1>1, <2>1, <2>2 DEF Settled
  <1>2. KeepsFile(f)
    BY <1>1, FileSteps
  <1>3. ASSUME NEW d \in Fetches, FileOf[d] = f
        PROVE  /\ step[d] = "idle" \/ answer[d] \in {"ok", "not_found"}
               /\ answer[d] = "ok" <=> answer'[d] = "ok"
    <2>1. step'[d] = "idle" \/ answer'[d] \in {"ok", "not_found"}
      BY <1>3 DEF Settled
    <2>2. step[d] = "idle" => answer[d] = "none"
      BY DEF Copying, Copies
    <2> QED BY <1>3, <2>1, <2>2, FetchAnswers
  <1> QED BY <1>2, <1>3 DEF Settled

LEMMA WholeNext ==
  ASSUME TypeInv, Copying, CopiedWhole, [Next]_vars
  PROVE  CopiedWhole'
  <1> SUFFICES ASSUME NEW c \in Fetches, NEW f \in Files, f = FileOf[c], answer'[c] = "ok",
                      f \notin shared', Settled(f)'
               PROVE  WholeCopy(f)'
    BY PathsAssumption DEF CopiedWhole, Settled, WholeCopy, Copies
  <1>1. ASSUME NEW e \in Fetches, FileOf[e] = f, Finish(e) PROVE WholeCopy(f)'
    <2>1. /\ e \in Writing(f) /\ f \notin shared /\ file' = file /\ data' = data
          /\ at[e] = Len(data[e]) /\ answer'[e] = "ok"
      BY <1>1 DEF Finish, Writing, Over, Answer, TypeInv, TypeOK, Copies, Requests
    <2>2. Len(file[f]) = at[e] /\ \A i \in 1..at[e] : file[f][i] = data[e][i]
      BY <2>1 DEF Copying
    <2>3. file[f] \in Seq(Chunks) /\ data[e] \in Seq(Chunks)
      BY DEF TypeInv, TypeOK, Copies
    <2>4. file[f] = data[e]
      BY <2>1, <2>2, <2>3
    <2> QED BY <1>1, <2>1, <2>4 DEF WholeCopy
  <1>2. CASE /\ KeepsFile(f) /\ Settled(f)
             /\ \A d \in Fetches : FileOf[d] = f => (answer[d] = "ok" <=> answer'[d] = "ok")
    <2>1. answer[c] = "ok" /\ f \notin shared
      BY <1>2 DEF KeepsFile
    <2>2. WholeCopy(f)
      BY <1>2, <2>1 DEF CopiedWhole, Settled, WholeCopy
    <2> QED BY <1>2, <2>2 DEF WholeCopy, KeepsFile
  <1> QED BY <1>1, <1>2, SettlingSteps

\* A copy reported as done left a whole object in the directory, unless another
\* copy into the same file ran at the same time or broke off (copyFile:
\* createWriteStream, pipe, 'finish').
THEOREM CopiesAreWhole == Spec => []CopiedWhole
  <1>1. Init => CopiedWhole
    BY DEF Init, CopiedWhole, Requests, Copies
  <1>2. TypeInv /\ Copying /\ CopiedWhole /\ [Next]_vars => CopiedWhole'
    BY WholeNext
  <1> QED BY <1>1, <1>2, TypeInit, TypeNext, CopyingInit, CopyingNext, PTL DEF Spec

----------------------------------------------------------------------------
(* The balance of a blob: what was deleted and what is there is no more than *)
(* what was there at first and what was, or may have been, written since.    *)

\* The files of the bodies of requests R that are blob b.
OpsOn(b, R) == {o \in R \X Nat : o[2] \in DOMAIN Targets[o[1]] /\ Targets[o[1]][o[2]] = b}
Gone(b)  == {o \in OpsOn(b, Deletes) : op[o[1]][o[2]] = "done"}
Added(b) == {o \in OpsOn(b, Creates) : op[o[1]][o[2]] \in {"done", "rejected"}}
Have(b)  == IF blob[b] = "absent" THEN 0 ELSE 1
Had(b)   == IF b \in Old THEN 1 ELSE 0

Balance == \A b \in Blobs :
  /\ IsFiniteSet(Gone(b)) /\ IsFiniteSet(Added(b))
  /\ Cardinality(Gone(b)) + Have(b) <= Had(b) + Cardinality(Added(b))

LEMMA BalanceInit == Init => Balance
  <1> SUFFICES ASSUME Init, NEW b \in Blobs
               PROVE  /\ IsFiniteSet(Gone(b)) /\ IsFiniteSet(Added(b))
                      /\ Cardinality(Gone(b)) + Have(b) <= Had(b) + Cardinality(Added(b))
    BY DEF Balance
  <1>1. ASSUME NEW o \in OpsOn(b, Batches) PROVE op[o[1]][o[2]] = "idle"
    BY <1>1 DEF Init, OpsOn
  <1>2. OpsOn(b, Creates) \subseteq OpsOn(b, Batches) /\ OpsOn(b, Deletes) \subseteq OpsOn(b, Batches)
    BY DEF OpsOn, Batches
  <1>3. Gone(b) = {} /\ Added(b) = {}
    BY <1>1, <1>2 DEF Gone, Added
  <1>4. Have(b) <= Had(b)
    BY DEF Init, Have, Had
  <1>5. Have(b) \in Nat /\ Had(b) \in Nat
    BY DEF Have, Had
  <1> QED BY <1>3, <1>4, <1>5, FS_EmptySet

\* What one operation does to its blob.
LEMMA BlobSteps ==
  ASSUME NEW r \in Batches, NEW i \in DOMAIN Targets[r], Operation(r, i) \/ AzureFails(r, i)
  PROVE  \E next \in OpSteps :
           /\ op' = [op EXCEPT ![r][i] = next]
           /\ \/ blob' = blob /\ next # "done"
              \/ /\ next \in {"done", "rejected"} /\ op[r][i] = "write"
                 /\ blob' = [blob EXCEPT ![Targets[r][i]] = r]
              \/ /\ next = "rejected" /\ op[r][i] = "delete"
                 /\ blob' = [blob EXCEPT ![Targets[r][i]] = "absent"]
              \/ /\ next = "done" /\ op[r][i] = "delete" /\ blob[Targets[r][i]] # "absent"
                 /\ blob' = [blob EXCEPT ![Targets[r][i]] = "absent"]
  BY DEF Operation, ContainerExists, BlobExists, Upload, DeleteBlob, AzureFails, SetBlob,
     Resolve, Reject, GoOn, OpSteps

\* The balance, of numbers.
LEMMA Weigh ==
  ASSUME NEW gone, NEW gone2, NEW added, NEW added2,
         IsFiniteSet(gone), IsFiniteSet(added), IsFiniteSet(added2), added \subseteq added2,
         NEW have \in 0..1, NEW have2 \in 0..1, NEW had \in Nat,
         Cardinality(gone) + have <= had + Cardinality(added),
         \/ gone2 = gone /\ have2 <= have
         \/ gone2 = gone /\ added2 # added
         \/ /\ \E o : gone2 = gone \cup {o}
            /\ have = 1 /\ have2 = 0
  PROVE  IsFiniteSet(gone2) /\ Cardinality(gone2) + have2 <= had + Cardinality(added2)
  <1>1. /\ Cardinality(gone) \in Nat /\ Cardinality(added) \in Nat /\ Cardinality(added2) \in Nat
        /\ Cardinality(added) <= Cardinality(added2)
        /\ added2 # added => Cardinality(added) < Cardinality(added2)
    BY FS_CardinalityType, FS_Subset
  <1>2. ASSUME NEW o, gone2 = gone \cup {o}
        PROVE  IsFiniteSet(gone2) /\ Cardinality(gone2) \in Nat
               /\ Cardinality(gone2) <= Cardinality(gone) + 1
    <2>1. /\ IsFiniteSet(gone \cup {o})
          /\ Cardinality(gone \cup {o}) \in {Cardinality(gone), Cardinality(gone) + 1}
      BY FS_AddElement
    <2> QED BY <1>1, <1>2, <2>1
  <1> QED BY <1>1, <1>2

LEMMA BalanceStart ==
  ASSUME TypeInv, NEW r \in Batches, StartBatch(r), NEW b \in Blobs, IsFiniteSet(Added(b)),
         \A s \in Batches : \A j \in DOMAIN Targets[s] :
           op[s][j] \in {"done", "rejected"} => op'[s][j] = op[s][j]
  PROVE  /\ Gone(b)' = Gone(b) /\ Added(b) \subseteq Added(b)' /\ IsFiniteSet(Added(b)')
         /\ Have(b)' = Have(b)
  <1>1. \A s \in Batches : \A j \in DOMAIN Targets[s] :
          \/ op'[s][j] = op[s][j]
          \/ s = r /\ op[s][j] = "idle" /\ op'[s][j] \in {"container", "rejected"}
    BY StartSteps
  <1>2. Gone(b)' = Gone(b)
    BY <1>1 DEF Gone, OpsOn, Batches
  <1>3. Added(b) \subseteq Added(b)'
    BY DEF Added, OpsOn, Batches
  <1> DEFINE own == {r} \X DOMAIN Targets[r]
  <1>4. Added(b)' \subseteq Added(b) \cup own
    BY <1>1 DEF Added, OpsOn, Batches
  <1>5. IsFiniteSet(own)
    <2>1. DOMAIN Targets[r] = 1..Len(Targets[r]) /\ Len(Targets[r]) \in Nat
      BY TargetsAssumption
    <2>2. ASSUME NEW m \in Nat PROVE IsFiniteSet(1..m)
      <3>1. 1 \in Int /\ m \in Int
        BY <2>2
      <3> QED BY <3>1, FS_Interval
    <2>3. IsFiniteSet(DOMAIN Targets[r])
      BY <2>1, <2>2
    <2>4. IsFiniteSet({r})
      BY FS_Singleton
    <2> QED BY <2>3, <2>4, FS_Product
  <1>6. IsFiniteSet(Added(b)')
    BY <1>4, <1>5, FS_Union, FS_Subset
  <1>7. Have(b)' = Have(b)
    BY DEF StartBatch, Have
  <1> QED BY <1>2, <1>3, <1>6, <1>7

LEMMA BalanceOperation ==
  ASSUME TypeInv, NEW r \in Batches, NEW i \in DOMAIN Targets[r],
         Operation(r, i) \/ AzureFails(r, i), NEW b \in Blobs, IsFiniteSet(Added(b))
  PROVE  /\ Added(b) \subseteq Added(b)' /\ IsFiniteSet(Added(b)')
         /\ \/ Gone(b)' = Gone(b) /\ Have(b)' <= Have(b)
            \/ Gone(b)' = Gone(b) /\ Added(b)' # Added(b)
            \/ (\E o : Gone(b)' = Gone(b) \cup {o}) /\ Have(b) = 1 /\ Have(b)' = 0
  <1> DEFINE o == <<r, i>>
             T == Targets[r][i]
  <1>1. PICK next \in OpSteps :
          /\ op' = [op EXCEPT ![r][i] = next]
          /\ \/ blob' = blob /\ next # "done"
             \/ /\ next \in {"done", "rejected"} /\ op[r][i] = "write"
                /\ blob' = [blob EXCEPT ![T] = r]
             \/ /\ next = "rejected" /\ op[r][i] = "delete"
                /\ blob' = [blob EXCEPT ![T] = "absent"]
             \/ /\ next = "done" /\ op[r][i] = "delete" /\ blob[T] # "absent"
                /\ blob' = [blob EXCEPT ![T] = "absent"]
    BY BlobSteps
  <1>2. /\ op'[r][i] = next
        /\ \A s \in Batches : \A j \in DOMAIN Targets[s] : s # r \/ j # i => op'[s][j] = op[s][j]
    BY <1>1, OpType
  <1>3. op[r][i] \notin {"done", "rejected"}
    BY OperationSteps
  <1>4. /\ op[r][i] = "write" => r \in Creates /\ r \notin Deletes
        /\ op[r][i] = "delete" => r \in Deletes /\ r \notin Creates
    BY RequestsAssumption DEF TypeInv
  <1>5. i \in Nat
    BY TargetsAssumption
  <1>6. Added(b) \subseteq Added(b)' /\ Added(b)' \subseteq Added(b) \cup {o}
    BY <1>2, <1>3 DEF Added, OpsOn, Batches
  <1>7. IsFiniteSet(Added(b)')
    BY <1>6, FS_AddElement, FS_Subset
  <1>8. Gone(b)' = Gone(b) \/ Gone(b)' = Gone(b) \cup {o}
    BY <1>2, <1>3 DEF Gone, OpsOn, Batches
  <1>9. next # "done" \/ r \notin Deletes \/ T # b => Gone(b)' = Gone(b)
    BY <1>2, <1>3 DEF Gone, OpsOn, Batches
  <1>10. T # b => blob'[b] = blob[b]
    BY <1>1 DEF TypeInv, TypeOK
  <1>11. T = b => b \in DOMAIN blob
    BY DEF TypeInv, TypeOK
  <1>12. CASE T # b
    BY <1>6, <1>7, <1>9, <1>10, <1>12 DEF Have
  <1>13. CASE T = b /\ op[r][i] = "write" /\ next \in {"done", "rejected"}
    <2>1. o \in Added(b)' /\ o \notin Added(b)
      BY <1>2, <1>3, <1>4, <1>5, <1>13 DEF Added, OpsOn
    <2> QED BY <1>4, <1>6, <1>7, <1>9, <1>13, <2>1
  <1>14. CASE T = b /\ blob' = blob /\ next # "done"
    BY <1>6, <1>7, <1>9, <1>14 DEF Have
  <1>15. CASE T = b /\ next = "rejected" /\ blob' = [blob EXCEPT ![T] = "absent"]
    <2>1. Have(b)' <= Have(b)
      BY <1>11, <1>15 DEF Have
    <2> QED BY <1>6, <1>7, <1>9, <1>15, <2>1
  <1>16. CASE T = b /\ next = "done" /\ blob[T] # "absent" /\ blob' = [blob EXCEPT ![T] = "absent"]
    <2>1. Have(b) = 1 /\ Have(b)' = 0 /\ Have(b)' <= Have(b)
      BY <1>11, <1>16 DEF Have
    <2>2. \E x : Gone(b)' = Gone(b) \/ Gone(b)' = Gone(b) \cup {x}
      BY <1>8
    <2> QED BY <1>6, <1>7, <2>1, <2>2, Zenon
  <1> QED BY <1>1, <1>12, <1>13, <1>14, <1>15, <1>16

LEMMA BalanceNext == TypeInv /\ Balance /\ [Next]_vars => Balance'
  <1> SUFFICES ASSUME TypeInv, Balance, [Next]_vars, NEW b \in Blobs
               PROVE  /\ IsFiniteSet(Gone(b)') /\ IsFiniteSet(Added(b)')
                      /\ Cardinality(Gone(b)') + Have(b)' <= Had(b) + Cardinality(Added(b)')
    BY DEF Balance, Had
  <1>1. /\ IsFiniteSet(Gone(b)) /\ IsFiniteSet(Added(b))
        /\ Cardinality(Gone(b)) + Have(b) <= Had(b) + Cardinality(Added(b))
        /\ Have(b) \in 0..1 /\ Have(b)' \in 0..1 /\ Had(b) \in Nat
    BY DEF Balance, Have, Had
  <1>2. /\ Added(b) \subseteq Added(b)' /\ IsFiniteSet(Added(b)')
        /\ \/ Gone(b)' = Gone(b) /\ Have(b)' <= Have(b)
           \/ Gone(b)' = Gone(b) /\ Added(b)' # Added(b)
           \/ (\E o : Gone(b)' = Gone(b) \cup {o}) /\ Have(b) = 1 /\ Have(b)' = 0
    <2>1. ASSUME NEW r \in Batches, StartBatch(r) PROVE <1>2!:
      <3>1. /\ Gone(b)' = Gone(b) /\ Added(b) \subseteq Added(b)' /\ IsFiniteSet(Added(b)')
            /\ Have(b)' = Have(b)
        BY <1>1, <2>1, OpsOver, BalanceStart
      <3> QED BY <1>1, <3>1
    <2>2. ASSUME NEW r \in Batches, NEW i \in DOMAIN Targets[r], Operation(r, i) \/ AzureFails(r, i)
          PROVE  <1>2!:
      BY <1>1, <2>2, BalanceOperation
    <2>3. CASE UNCHANGED <<op, blob>>
      <3>1. Gone(b)' = Gone(b) /\ Added(b)' = Added(b) /\ Have(b)' = Have(b)
        BY <2>3 DEF Gone, Added, Have
      <3> QED BY <1>1, <3>1
    <2> QED BY <2>1, <2>2, <2>3, StepKinds DEF vars, azure
  <1> HIDE DEF Gone, Added, Have, Had
  <1> QED BY <1>1, <1>2, Weigh

LEMMA BalanceEnough ==
  ASSUME TypeInv, OkMeansDone, Balance
  PROVE  DeletedOnce
  <1> DEFINE ops(R, b)  == UNION {{r} \X {i \in DOMAIN op[r] : Targets[r][i] = b} : r \in R}
             told(b)    == ops({r \in Deletes : answer[r] = "ok"}, b)
             written(b) == {o \in ops(Creates, b) : op[o[1]][o[2]] \in {"done", "rejected"}}
  <1> SUFFICES ASSUME NEW b \in Blobs
               PROVE  Cardinality(told(b)) <= Had(b) + Cardinality(written(b))
    BY DEF DeletedOnce, Had
  <1>1. \A r \in Batches : DOMAIN op[r] = DOMAIN Targets[r] /\ DOMAIN Targets[r] \subseteq Nat
    BY TargetsAssumption DEF TypeInv, TypeOK
  <1>2. ASSUME NEW R \in SUBSET Batches PROVE ops(R, b) = OpsOn(b, R)
    BY <1>1, <1>2 DEF OpsOn
  <1>3. written(b) = Added(b)
    BY <1>2 DEF Added, Batches
  <1>4. told(b) \subseteq Gone(b)
    <2>1. told(b) = OpsOn(b, {r \in Deletes : answer[r] = "ok"})
      BY <1>2 DEF Batches
    <2> QED BY <2>1 DEF OkMeansDone, OpsOn, Gone, Batches
  <1>5. /\ IsFiniteSet(Gone(b)) /\ IsFiniteSet(Added(b))
        /\ Cardinality(Gone(b)) + Have(b) <= Had(b) + Cardinality(Added(b))
        /\ Have(b) \in 0..1 /\ Had(b) \in Nat
    BY DEF Balance, Have, Had
  <1>6. /\ IsFiniteSet(told(b)) /\ Cardinality(told(b)) <= Cardinality(Gone(b))
    BY <1>4, <1>5, FS_Subset
  <1>7. /\ Cardinality(told(b)) \in Nat /\ Cardinality(Gone(b)) \in Nat
        /\ Cardinality(Added(b)) \in Nat
    BY <1>5, <1>6, FS_CardinalityType
  <1> HIDE DEF told, written
  <1> QED BY <1>3, <1>5, <1>6, <1>7

\* However many requests delete a blob at once, and whatever Azure does, no more
\* of them are told of success than there were blobs to delete (deleteBlob:
\* exists, then delete).
THEOREM DeletionsAreOwn == Spec => []DeletedOnce
  <1>1. Init => OkMeansDone
    BY DEF Init, OkMeansDone, Requests
  <1> QED BY <1>1, TypeInit, TypeNext, OkNext, BalanceInit, BalanceNext, BalanceEnough, PTL DEF Spec

----------------------------------------------------------------------------
(* What success says of the blobs.                                         *)

\* What a finished operation leaves: its blob was written, or is not the old one.
Finished ==
  /\ \A r \in Creates : \A i \in DOMAIN Targets[r] : op[r][i] = "done" =>
       blob[Targets[r][i]] \in Creates \/ Deleted(Targets[r][i])
  /\ \A r \in Deletes : \A i \in DOMAIN Targets[r] : op[r][i] = "done" =>
       blob[Targets[r][i]] # "old"

\* A blob loses what a creation gave it only to a deletion.
LEMMA BlobKept ==
  ASSUME TypeInv, [Next]_vars, NEW b \in Blobs
  PROVE  /\ blob[b] \in Creates => blob'[b] \in Creates \/ Deleted(b)'
         /\ blob[b] # "old" => blob'[b] # "old"
         /\ Deleted(b) => Deleted(b)'
  <1>1. Deleted(b) => Deleted(b)'
    BY OpsOver DEF Deleted, Batches
  <1>2. CASE blob' = blob
    BY <1>1, <1>2
  <1>3. ASSUME NEW r \in Batches, NEW i \in DOMAIN Targets[r], Operation(r, i) \/ AzureFails(r, i)
        PROVE  /\ blob[b] \in Creates => blob'[b] \in Creates \/ Deleted(b)'
               /\ blob[b] # "old" => blob'[b] # "old"
    <2>1. PICK next \in OpSteps :
            /\ op' = [op EXCEPT ![r][i] = next]
            /\ \/ blob' = blob
               \/ op[r][i] = "write" /\ blob' = [blob EXCEPT ![Targets[r][i]] = r]
               \/ /\ next \in {"done", "rejected"} /\ op[r][i] = "delete"
                  /\ blob' = [blob EXCEPT ![Targets[r][i]] = "absent"]
      BY <1>3, BlobSteps
    <2>2. /\ op[r][i] = "write" => r \in Creates
          /\ op[r][i] = "delete" => r \in Deletes
      BY DEF TypeInv
    <2>3. CASE op[r][i] = "write" /\ blob' = [blob EXCEPT ![Targets[r][i]] = r]
      BY <2>2, <2>3, RequestsAssumption DEF TypeInv, TypeOK
    <2>4. CASE /\ next \in {"done", "rejected"} /\ op[r][i] = "delete"
               /\ blob' = [blob EXCEPT ![Targets[r][i]] = "absent"]
      <3>1. op'[r][i] = next
        BY <2>1, OpType
      <3>2. Targets[r][i] = b => Deleted(b)'
        BY <2>2, <2>4, <3>1 DEF Deleted
      <3> QED BY <2>4, <3>2 DEF TypeInv, TypeOK
    <2> QED BY <1>2, <2>1, <2>3, <2>4
  <1> QED BY <1>1, <1>2, <1>3, StepKinds DEF StartBatch, vars, azure

LEMMA FinishedNext == TypeInv /\ Finished /\ [Next]_vars => Finished'
  <1> SUFFICES ASSUME TypeInv, Finished, [Next]_vars,
                      NEW r \in Batches, NEW i \in DOMAIN Targets[r], op'[r][i] = "done"
               PROVE  LET b == Targets[r][i]
                      IN /\ r \in Creates => blob'[b] \in Creates \/ Deleted(b)'
                         /\ r \in Deletes => blob'[b] # "old"
    BY DEF Finished, Batches
  <1> DEFINE b == Targets[r][i]
  <1>0. b \in Blobs
    BY TargetType
  <1>1. CASE op[r][i] = "done"
    BY <1>0, <1>1, BlobKept DEF Finished
  <1>2. CASE op[r][i] # "done"
    <2>1. ASSUME NEW s \in Batches, StartBatch(s) PROVE FALSE
      BY <1>2, <2>1, StartSteps
    <2>2. ASSUME NEW s \in Batches, NEW j \in DOMAIN Targets[s], Operation(s, j) \/ AzureFails(s, j)
          PROVE  \/ op[r][i] = "write" /\ blob' = [blob EXCEPT ![b] = r]
                 \/ op[r][i] = "delete" /\ blob' = [blob EXCEPT ![b] = "absent"]
      <3>1. PICK next \in OpSteps :
              /\ op' = [op EXCEPT ![s][j] = next]
              /\ \/ next # "done"
                 \/ op[s][j] = "write" /\ blob' = [blob EXCEPT ![Targets[s][j]] = s]
                 \/ op[s][j] = "delete" /\ blob' = [blob EXCEPT ![Targets[s][j]] = "absent"]
        BY <2>2, BlobSteps
      <3>2. s = r /\ j = i /\ next = "done"
        BY <1>2, <3>1, OpType
      <3> QED BY <3>1, <3>2
    <2>3. \/ op[r][i] = "write" /\ blob' = [blob EXCEPT ![b] = r]
          \/ op[r][i] = "delete" /\ blob' = [blob EXCEPT ![b] = "absent"]
      BY <1>2, <2>1, <2>2, StepKinds DEF vars, azure
    <2>4. op[r][i] = "write" => r \in Creates /\ r \notin Deletes
      BY RequestsAssumption DEF TypeInv
    <2>5. op[r][i] = "delete" => r \in Deletes /\ r \notin Creates
      BY RequestsAssumption DEF TypeInv
    <2> QED BY <1>0, <2>3, <2>4, <2>5 DEF TypeInv, TypeOK
  <1> QED BY <1>1, <1>2

\* A client that is told of success finds all blobs of its request as it asked
\* for them, up to what other requests did to the same blobs: no interleaving
\* of the operations of several requests has one answered before the last of
\* its own is over, or undoes one that is (createFile, deleteFile).
THEOREM SuccessesAreWhole == Spec => []SuccessIsWhole
  <1>1. Init => OkMeansDone /\ Finished
    BY DEF Init, OkMeansDone, Finished, Requests, Batches
  <1>2. TypeInv /\ Finished /\ [Next]_vars => Finished'
    BY FinishedNext
  <1>3. OkMeansDone /\ Finished => SuccessIsWhole
    BY DEF OkMeansDone, Finished, SuccessIsWhole, Batches
  <1> QED BY <1>1, <1>2, <1>3, TypeInit, TypeNext, OkNext, PTL DEF Spec
=============================================================================
