------------------------- MODULE ValidationPipeline --------------------------
(***************************************************************************)
(* From the end of an upload to the transfer: completeUpload assembles the *)
(* parts and queues a task for each validator, the base validator and the  *)
(* ClamAV scanner of every replica poll their tasks, check the file in the *)
(* quarantined bucket and publish results.  One action per awaited call.   *)
(* The transfer service is not modelled again: it takes any step that      *)
(* FileDisposition allows, which ObjectTransfer, its model, implements.    *)
(***************************************************************************)
EXTENDS Integers

CONSTANTS
  Replicas,        \* instances of the service
  Files,           \* one multipart upload, hence one object, each
  Good,            \* [validator -> the files whose content it passes]
  MoveToFlagged,   \* [validator -> BOOLEAN], the actionHandlers configuration
  MaxDeliver,      \* max_deliver of the two validators' consumers
  FaultKinds,      \* the kinds of fault the environment may inject ...
  MaxFaults        \* ... and how many of them (a bound for TLC)

Validators == {"base", "clamav"}
Statuses   == {"passed", "failed"}
Buckets    == {"quarantined", "validated", "flagged"}
Events     == {"file_validated", "file_flagged", "file_deleted"}
Faults     == {"s3", "check", "nats", "ack", "slow", "hang", "crash", "init"}

ASSUME ReplicasAssumption == Replicas # {}
ASSUME FilesAssumption    == Files # {}
ASSUME GoodAssumption     == Good \in [Validators -> SUBSET Files]
ASSUME HandlersAssumption == MoveToFlagged \in [Validators -> BOOLEAN]
ASSUME RetriesAssumption  == MaxDeliver \in Nat \ {0}
ASSUME BudgetAssumption   == FaultKinds \subseteq Faults /\ MaxFaults \in Nat

VARIABLES
  stored,      \* [Files -> BOOLEAN]: the parts are assembled in quarantine
  request,     \* [Files -> step of the completeUpload request]
  server,      \* [Files -> Replicas]: the replica that serves it (or any)
  task,        \* [Files -> [Validators -> state]]: the FILE_VALIDATION stream
  tries,       \* [Files -> [Validators -> Nat]]: how often it was delivered
  online,      \* [Replicas -> BOOLEAN]: connected to NATS
  pc,          \* [Replicas -> [Validators -> step of the poller]]
  work,        \* [Replicas -> [Validators -> file being checked]]
  results,     \* the [file, validator, status, cause] published
  location,    \* [Files -> SUBSET Buckets], once stored
  announced,   \* the <<file, event>> transfer webhooks sent
  faults       \* faults injected so far

upload   == <<stored, request, server>>
stream   == <<task, tries>>
pollers  == <<online, pc, work>>
transfer == <<location, announced>>
vars     == <<upload, stream, pollers, results, transfer, faults>>

Requests   == {"none", "assemble", "stat", "base", "clamav", "completed", "failed"}
TaskStates == {"none", "ready", "inflight", "acked", "exhausted"}
Steps      == {"down", "off", "idle", "check", "hung", "publish", "report", "ack", "nak"}
Results    == [file : Files, validator : Validators, status : Statuses,
               cause : {"content", "error"}]

TypeOK ==
  /\ stored \in [Files -> BOOLEAN]
  /\ request \in [Files -> Requests]
  /\ server \in [Files -> Replicas]
  /\ task \in [Files -> [Validators -> TaskStates]]
  /\ tries \in [Files -> [Validators -> 0..MaxDeliver]]
  /\ online \in [Replicas -> BOOLEAN]
  /\ pc \in [Replicas -> [Validators -> Steps]]
  /\ work \in [Replicas -> [Validators -> Files]]
  /\ results \subseteq Results
  /\ location \in [Files -> SUBSET Buckets]
  /\ announced \subseteq Files \X Events
  /\ faults \in 0..MaxFaults

Verdicts == {<<x.file, x.validator, x.status>> : x \in results}

Disposition == INSTANCE FileDisposition WITH verdicts <- Verdicts

AnyFile    == CHOOSE f \in Files : TRUE
AnyReplica == CHOOSE r \in Replicas : TRUE
Up(r)      == \A v \in Validators : pc[r][v] # "down"
At(r, v, step)   == pc[r][v] = step
Goto(r, v, step) == pc' = [pc EXCEPT ![r][v] = step]
\* processMessage is over: nothing of it survives in the poller.
Leave(r, v) == /\ Goto(r, v, "idle")
               /\ work' = [work EXCEPT ![r][v] = AnyFile]
Holds(r, v, f) == work[r][v] = f /\ pc[r][v] \notin {"down", "off", "idle", "hung"}

NoFault == UNCHANGED faults
Fault(kind) == /\ kind \in FaultKinds
               /\ faults < MaxFaults
               /\ faults' = faults + 1

Init ==
  /\ stored = [f \in Files |-> FALSE]
  /\ request = [f \in Files |-> "none"]
  /\ server = [f \in Files |-> AnyReplica]
  /\ task = [f \in Files |-> [v \in Validators |-> "none"]]
  /\ tries = [f \in Files |-> [v \in Validators |-> 0]]
  /\ online = [r \in Replicas |-> FALSE]
  /\ pc = [r \in Replicas |-> [v \in Validators |-> "down"]]
  /\ work = [r \in Replicas |-> [v \in Validators |-> AnyFile]]
  /\ results = {}
  /\ location = [f \in Files |-> {"quarantined"}]
  /\ announced = {}
  /\ faults = 0

----------------------------------------------------------------------------
(* completeUpload: the client's last call for file f                       *)

Answer(f, outcome) == request' = [request EXCEPT ![f] = outcome]

\* (Plausible bugs are defined beside the code they would be in.)
CompleteUpload_QueuesFirst(f, r) ==
  /\ request[f] \in {"none", "failed"}
  /\ Up(r)
  /\ Answer(f, "base")
  /\ server' = [server EXCEPT ![f] = r]
  /\ UNCHANGED <<stored, stream, pollers, results, transfer, faults>>

\* The client calls, or calls again after a failure.
CompleteUpload(f, r) ==
  /\ request[f] \in {"none", "failed"}
  /\ Up(r)
  /\ Answer(f, "assemble")
  /\ server' = [server EXCEPT ![f] = r]
  /\ UNCHANGED <<stored, stream, pollers, results, transfer, faults>>

\* CompleteMultipartUpload.  A second one finds no such upload.
Assemble(f) ==
  /\ request[f] = "assemble"
  /\ stored' = [stored EXCEPT ![f] = TRUE]
  /\ Answer(f, IF stored[f] THEN "failed" ELSE "stat")
  /\ UNCHANGED <<server, stream, pollers, results, transfer, faults>>

AssembleFails(f) ==
  /\ request[f] = "assemble"
  /\ Fault("s3")
  /\ \E done \in {stored[f], TRUE} : stored' = [stored EXCEPT ![f] = done]
  /\ Answer(f, "failed")
  /\ UNCHANGED <<server, stream, pollers, results, transfer>>

ReadMetadata(f) ==
  /\ request[f] = "stat"
  /\ Answer(f, "base")
  /\ UNCHANGED <<stored, server, stream, pollers, results, transfer, faults>>

\* From here on an error is logged and the upload reported as completed.
ReadMetadataFails(f) ==
  /\ request[f] = "stat"
  /\ Fault("s3")
  /\ Answer(f, "completed")
  /\ UNCHANGED <<stored, server, stream, pollers, results, transfer>>

QueueTask(f, v) == task' = [task EXCEPT ![f][v] = "ready"]

\* publishFileUploaded: one task after the other, the base validator's first.
Queue(f, v) ==
  /\ request[f] = v
  /\ online[server[f]]
  /\ QueueTask(f, v)
  /\ Answer(f, IF v = "base" THEN "clamav" ELSE "completed")
  /\ UNCHANGED <<stored, server, tries, pollers, results, transfer, faults>>

\* Without a NATS connection it queues nothing and says so to nobody.
QueueSkipped(f) ==
  /\ request[f] \in Validators
  /\ ~online[server[f]]
  /\ Answer(f, "completed")
  /\ UNCHANGED <<stored, server, stream, pollers, results, transfer, faults>>

QueueFails(f, v) ==
  /\ request[f] = v
  /\ online[server[f]]
  /\ Fault("nats")
  /\ QueueTask(f, v) \/ UNCHANGED task
  /\ Answer(f, "completed")
  /\ UNCHANGED <<stored, server, tries, pollers, results, transfer>>

----------------------------------------------------------------------------
(* The FILE_VALIDATION stream (external: NATS JetStream)                   *)

Requeued_OffByOne(f, v) == IF tries[f][v] <= MaxDeliver THEN "ready" ELSE "exhausted"
Requeued(f, v) == IF tries[f][v] < MaxDeliver THEN "ready" ELSE "exhausted"

\* ack_wait, 60 s, runs out: on a task nobody works on any more or, a fault,
\* on a slow check (a scan alone may take 120 s).
AckWaitExpires(f, v) ==
  /\ task[f][v] = "inflight"
  /\ IF \E r \in Replicas : Holds(r, v, f) THEN Fault("slow") ELSE NoFault
  /\ task' = [task EXCEPT ![f][v] = Requeued(f, v)]
  /\ UNCHANGED <<upload, tries, pollers, results, transfer>>

----------------------------------------------------------------------------
(* A replica and its two pollers                                           *)

Start(r) ==
  /\ ~Up(r)
  /\ online' = [online EXCEPT ![r] = TRUE]
  /\ pc' = [pc EXCEPT ![r] = [v \in Validators |-> "idle"]]
  /\ UNCHANGED <<upload, stream, work, results, transfer, faults>>

\* No NATS at start: the API serves, both pollers are off until a restart.
StartOffline(r) ==
  /\ ~Up(r)
  /\ Fault("init")
  /\ pc' = [pc EXCEPT ![r] = [v \in Validators |-> "off"]]
  /\ UNCHANGED <<upload, stream, online, work, results, transfer>>

\* The pollers stop where they are; the client of a request gets an error.
Crash(r) ==
  /\ Up(r)
  /\ Fault("crash")
  /\ online' = [online EXCEPT ![r] = FALSE]
  /\ pc' = [pc EXCEPT ![r] = [v \in Validators |-> "down"]]
  /\ work' = [work EXCEPT ![r] = [v \in Validators |-> AnyFile]]
  /\ request' = [f \in Files |->
       IF server[f] = r /\ request[f] \notin {"none", "completed"} THEN "failed"
       ELSE request[f]]
  /\ UNCHANGED <<stored, server, stream, results, transfer>>

Fetch(r, v, f) ==
  /\ At(r, v, "idle")
  /\ task[f][v] = "ready"
  /\ task' = [task EXCEPT ![f][v] = "inflight"]
  /\ tries' = [tries EXCEPT ![f][v] = @ + 1]
  /\ work' = [work EXCEPT ![r][v] = f]
  /\ Goto(r, v, "check")
  /\ UNCHANGED <<upload, online, results, transfer, faults>>

\* Where a failed download, scan or publish leads: only the scanner reports it.
OnError_Swallowed(v) == IF v = "clamav" THEN "report" ELSE "ack"
OnError_BothReport(v) == "report"
OnError(v) == IF v = "clamav" THEN "report" ELSE "nak"

\* The download from quarantine and the check of the content.
Check(r, v) ==
  /\ At(r, v, "check")
  /\ "quarantined" \in location[work[r][v]]
  /\ Goto(r, v, "publish")
  /\ UNCHANGED <<upload, stream, online, work, results, transfer, faults>>

\* The storage or ClamAV fails, ClamAV times out or answers nothing; or the
\* transfer has already removed the file.
CheckFails(r, v) ==
  /\ At(r, v, "check")
  /\ IF "quarantined" \in location[work[r][v]] THEN Fault("check") ELSE NoFault
  /\ Goto(r, v, OnError(v))
  /\ UNCHANGED <<upload, stream, online, work, results, transfer>>

\* The storage never answers the download.  Nothing times this await out, and
\* the poller stays in it until the replica is restarted.
CheckHangs(r, v) ==
  /\ At(r, v, "check")
  /\ Fault("hang")
  /\ Goto(r, v, "hung")
  /\ work' = [work EXCEPT ![r][v] = AnyFile]
  /\ UNCHANGED <<upload, stream, online, results, transfer>>

Verdict(f, v) == IF f \in Good[v] THEN "passed" ELSE "failed"

Report(f, v, status, cause) ==
  results' = results \cup {[file |-> f, validator |-> v, status |-> status, cause |-> cause]}

PublishResult(r, v) ==
  /\ At(r, v, "publish")
  /\ Report(work[r][v], v, Verdict(work[r][v], v), "content")
  /\ Goto(r, v, "ack")
  /\ UNCHANGED <<upload, stream, online, work, transfer, faults>>

\* The publish fails: before it took effect, or with only its answer lost.
PublishFails(r, v) ==
  /\ At(r, v, "publish")
  /\ Fault("nats")
  /\ Report(work[r][v], v, Verdict(work[r][v], v), "content") \/ UNCHANGED results
  /\ Goto(r, v, OnError(v))
  /\ UNCHANGED <<upload, stream, online, work, transfer>>

\* The scanner publishes "failed" for the error and has the task redelivered.
PublishError(r, v) ==
  /\ At(r, v, "report")
  /\ Report(work[r][v], v, "failed", "error")
  /\ Goto(r, v, "nak")
  /\ UNCHANGED <<upload, stream, online, work, transfer, faults>>

PublishErrorFails(r, v) ==
  /\ At(r, v, "report")
  /\ Fault("nats")
  /\ Report(work[r][v], v, "failed", "error") \/ UNCHANGED results
  /\ Goto(r, v, "nak")
  /\ UNCHANGED <<upload, stream, online, work, transfer>>

Ack(r, v) ==
  /\ At(r, v, "ack")
  /\ task' = [task EXCEPT ![work[r][v]][v] = "acked"]
  /\ Leave(r, v)
  /\ UNCHANGED <<upload, tries, online, results, transfer, faults>>

Nak_Acks(r, v) ==
  /\ At(r, v, "nak")
  /\ task' = [task EXCEPT ![work[r][v]][v] = "acked"]
  /\ Leave(r, v)
  /\ UNCHANGED <<upload, tries, online, results, transfer, faults>>

Nak(r, v) ==
  /\ At(r, v, "nak")
  /\ task' = [task EXCEPT ![work[r][v]][v] =
                IF @ = "inflight" THEN Requeued(work[r][v], v) ELSE @]
  /\ Leave(r, v)
  /\ UNCHANGED <<upload, tries, online, results, transfer, faults>>

\* Neither ack() nor nak() waits for the server: either may get lost.
SettlementLost(r, v) ==
  /\ At(r, v, "ack") \/ At(r, v, "nak")
  /\ Fault("ack")
  /\ Leave(r, v)
  /\ UNCHANGED <<upload, stream, online, results, transfer>>

----------------------------------------------------------------------------
(* The transfer service: the specification that ObjectTransfer implements  *)

Transfer(f) ==
  /\ UNCHANGED <<upload, stream, pollers, results, faults>>
  /\ \/ Disposition!Release(f)
     \/ Disposition!Flag(f)
     \/ Disposition!Remove(f)
     \/ \E e \in Events : Disposition!Announce(f, e)

----------------------------------------------------------------------------

Request(f) ==
  \/ Assemble(f) \/ ReadMetadata(f) \/ QueueSkipped(f) \/ \E v \in Validators : Queue(f, v)

RequestFails(f) ==
  AssembleFails(f) \/ ReadMetadataFails(f) \/ \E v \in Validators : QueueFails(f, v)

Process(r, v) ==
  Check(r, v) \/ PublishResult(r, v) \/ PublishError(r, v) \/ Ack(r, v) \/ Nak(r, v)

ProcessFails(r, v) ==
  \/ CheckFails(r, v) \/ CheckHangs(r, v)
  \/ PublishFails(r, v) \/ PublishErrorFails(r, v) \/ SettlementLost(r, v)

Next ==
  \/ \E f \in Files, r \in Replicas : CompleteUpload(f, r)
  \/ \E f \in Files : Request(f) \/ RequestFails(f) \/ Transfer(f)
  \/ \E f \in Files, v \in Validators : AckWaitExpires(f, v)
  \/ \E r \in Replicas : Start(r) \/ StartOffline(r) \/ Crash(r)
  \/ \E r \in Replicas, v \in Validators :
       Process(r, v) \/ ProcessFails(r, v) \/ \E f \in Files : Fetch(r, v, f)

Spec == Init /\ [][Next]_vars

\* The pollers keep polling, a crashed replica is restarted, JetStream delivers
\* what is ready and lets ack_wait run out.  Nothing is assumed of the clients,
\* of the transfer and of the faults.
Fairness ==
  /\ \A r \in Replicas : WF_vars(Start(r))
  /\ \A r \in Replicas, v \in Validators :
       WF_vars(Process(r, v) \/ (CheckFails(r, v) /\ NoFault))
  /\ \A v \in Validators :
       /\ WF_vars(\E r \in Replicas, f \in Files : Fetch(r, v, f))
       /\ WF_vars(\E f \in Files : AckWaitExpires(f, v) /\ NoFault)

FairSpec == Spec /\ Fairness

----------------------------------------------------------------------------
(* Properties                                                              *)

\* End to end: a file is in the validated bucket only if its content is what
\* both validators pass, whatever failed, was repeated or came late on the
\* way (processMessage and publishValidationResult of both validators, then
\* handleCompleteValidation).
ReleasedOnlyIfGood ==
  \A f \in Files : "validated" \in location[f] => \A v \in Validators : f \in Good[v]

\* A task is settled only after its verdict is on the results stream: no crash
\* between check, publish and ack loses the verdict on a file (startPolling
\* acknowledges after processMessage has returned).
SettledOnlyIfReported ==
  \A f \in Files, v \in Validators : task[f][v] = "acked" =>
    \E x \in results : x.file = f /\ x.validator = v /\ x.cause = "content"

\* A validator contradicts itself about one file only by way of a scan error,
\* never through redelivery or two replicas checking at once (the base
\* validator publishes nothing for an error, the scanner "failed").
ContradictsOnlyOnError ==
  \A f \in Files, v \in Validators :
    (\A s \in Statuses : <<f, v, s>> \in Verdicts) =>
      v = "clamav" /\ \E x \in results : x.file = f /\ x.cause = "error"

\* The first verdicts of a file are about a whole, stored object and both
\* tasks: nothing leaves quarantine before the base validator and the scanner
\* were both asked (completeUpload queues after the assembly, and
\* handleCompleteValidation waits for both results).
MovedOnlyIfAsked ==
  \A f \in Files : location[f] # {"quarantined"} =>
    stored[f] /\ \A v \in Validators : task[f][v] # "none"

\* A queued task leads to a verdict, as long as fewer faults happen than
\* deliveries are allowed (max_deliver of both consumers) and some replica has
\* a poller for it: one that was started without NATS is off, and one whose
\* download the storage never answers hangs, both until a restart.
QueuedIsJudged ==
  \A f \in Files, v \in Validators :
    task[f][v] # "none" ~>
      \/ \E s \in Statuses : <<f, v, s>> \in Verdicts
      \/ \A r \in Replicas : At(r, v, "off") \/ At(r, v, "hung")

\* A scan that failed is retried ("Re-throw to NAK the message for retry"), so
\* that only its content decides about a file.
RejectedOnlyIfBad ==
  \A f \in Files : "flagged" \in location[f] => \E v \in Validators : f \notin Good[v]

----------------------------------------------------------------------------
(* The inductive strengthening of the safety properties                    *)

Busy(r, v) == pc[r][v] \notin {"down", "off", "idle", "hung"}

\* Whatever exists of a file's validation was asked for, after the assembly:
\* a request past it and a task need the stored object, a poller at work and a
\* result need the task.
StoredFirst == \A f \in Files :
  /\ request[f] \in {"stat", "base", "clamav"} => stored[f]
  /\ \A v \in Validators : task[f][v] # "none" => stored[f]

WorksOnTask == \A r \in Replicas, v \in Validators :
  Busy(r, v) => task[work[r][v]][v] # "none"

ReportsOnTask == \A x \in results : task[x.file][x.validator] # "none"

\* A request queues a task at most once, because only one finds the upload.
QueuesOnce == \A f \in Files :
  /\ request[f] \in {"stat", "base"} => \A v \in Validators : task[f][v] = "none"
  /\ request[f] = "clamav" => task[f]["clamav"] = "none"

\* A task that waits for delivery has one left.
Countable == \A f \in Files, v \in Validators :
  /\ task[f][v] \in {"none", "ready"} => tries[f][v] < MaxDeliver
  /\ task[f][v] = "none" => tries[f][v] = 0

\* A result is the verdict on the content, or the scanner's report of an error.
Sound ==
  /\ \A x \in results :
       IF x.cause = "content" THEN x.status = Verdict(x.file, x.validator)
       ELSE x.status = "failed" /\ x.validator = "clamav"
  /\ \A r \in Replicas : pc[r]["base"] # "report"

\* A poller about to acknowledge has published.
Reported ==
  /\ SettledOnlyIfReported
  /\ \A r \in Replicas, v \in Validators : pc[r][v] = "ack" =>
       \E x \in results : x.file = work[r][v] /\ x.validator = v /\ x.cause = "content"

\* The transfer service has moved, or announced to delete, judged files only.
Moved ==
  /\ \A f \in Files : "validated" \in location[f] => Disposition!Passed(f)
  /\ \A f \in Files :
       location[f] # {"quarantined"} \/ <<f, "file_deleted">> \in announced =>
         Disposition!Judged(f)

TypeInv == TypeOK /\ StoredFirst /\ WorksOnTask /\ QueuesOnce /\ Countable

PipelineInv == TypeInv /\ ReportsOnTask /\ Sound /\ Reported /\ Moved
==============================================================================
