# Verification of S3-Ferry

TLA+ models of the file-handling service in this repository, the TLC instances
that check them, and theorems about them proved with TLAPS.  Source paths below
are relative to the repository (`src/...` is its TypeScript tree).  `PROJECT.json`
maps every definition to the lines it models and lists runs, mutants, findings,
hazards and theorems.

## 1. The system

A NestJS service, deployed with any number of replicas.  Clients upload large
files in parts straight into an S3 bucket `quarantined`; two validators judge
every file; a transfer service moves it to `validated` or `flagged`, or deletes
it.  The replicas share nothing but S3 and NATS JetStream.

| Component (file) | State it keeps | Operations | Talks to | What makes it correct |
|---|---|---|---|---|
| Upload session (`services/app.service.ts`, `s3/services/s3.service.ts`) | none; S3 keeps the multipart upload and its parts, the client keeps upload id, URLs and ETags | initiate, status, resume, complete | S3; the client PUTs to presigned URLs | the assembled object is the file; an upload once begun can be finished; a status tells the truth |
| Chunk calculation (`s3/utils/chunk-calculator.util.ts`) | none | `calculateChunks` | | the chunks tile the file exactly |
| Upload completion and queueing (`app.service.ts` `completeUpload`, `nats/services/nats.service.ts` `publishFileUploaded`) | stream `FILE_VALIDATION` | assemble, read metadata, queue a task for each validator | S3, NATS | a file that is reported queued is queued; nothing is queued before it is stored |
| Base validator (`validators/services/base-validator.service.ts`) | durable consumer `base-validator`, `isPolling` | poll, download 16 KB, check, publish, ack or nak | NATS, S3, webhooks | no task settled without its verdict |
| ClamAV scanner (`validators/services/clamav-scanner.service.ts`) | durable consumer `clamav-scanner`, `isPolling` | poll, stream to ClamAV, publish, ack or nak | NATS, S3, clamd, webhooks | as above; only the content decides |
| Object transfer (`validators/services/object-transfer.service.ts`) | key-value store `VALIDATION_TRACKING`, consumer `object-transfer`, the three buckets | store a result, look for the other one, copy, announce, delete, clean up | NATS, S3, webhooks | released only with both verdicts; never lost; never stuck |
| NATS service (`nats/services/nats.service.ts`) | connection, JetStream client | connect, set up streams, publish | NATS | a failed publish is noticed |
| Webhooks (`webhooks/services/webhook.service.ts`) | attempts of each event in flight, in memory | send with timeout and backoff, sign, verify | the client's receiver | an event arrives while attempts outnumber failures; duplicates only for answers that were not heard |
| Object naming (`s3/utils/file-naming.util.ts`) | none | unique or file name, date path | | two uploads do not share an object |
| Configuration (`config/configuration.ts`, `config/application.yml`) | file types and limits | load, first matching type | | every reader picks the same type |
| MIME decision (`base-validator.service.ts`) | the two allow-lists, loaded once | `validateFile`, `isMimeTypeMismatch` | the `file-type` package | no falsely declared type passes |
| ClamAV client (`clamav-scanner.service.ts`, behind the scanner and `/ready`) | a timer, a socket and an input stream per scan | scan, probe | clamd, S3 | settles once; a verdict is on the whole file |
| Azure blobs (`azure/`, `createFile` and `deleteFile` of `app.service.ts`) | the accounts, fixed at start | create and delete at several accounts at once | Azure SDK | success means all of a request; a deletion succeeds once |
| Local copies and deletion (`fs/`, `copyFile` and `deleteFromS3`) | none | list, copy both ways, delete | S3, disk | a copy answered with success is whole; every request is answered |
| Health, metrics, HTTP surface, deployment | counters | probes, routing, validation of requests | | |

Interactions: `completeUpload` queues two messages, one per validator; each
validator publishes a result; the transfer service stores each result under
`uploadId:objectName:validator` in the key-value store, *then* reads the other
validator's entry, and acts when both are there.  Every handler is a sequence of
awaited calls, so that another replica, a redelivery or a crash may come between
any two of them.

What is hard here: at-least-once delivery with 60 s `ack_wait` and 3 deliveries
(a scan alone may take 120 s, so the same file can be in two hands); acks that
nobody confirms; a rendezvous over a store that both sides write before they
read; `Promise.all` over two deletes; a crash between copy, delete and webhook;
errors that are swallowed and taken for an answer; a client that loses answers,
restarts and resumes; two lookups that are not one; promises settled by whichever
of a timer, a socket and a stream comes first; rejections nobody awaits.  `PROJECT.json` lists each
hazard at its line with the properties that cover it.

## 2. The modules

| Module | Models | Composed with |
|---|---|---|
| `FileDisposition` | what the pipeline promises of a file: verdicts arrive; copy only after the right verdicts; remove from quarantine only after a copy or an announced deletion; announce in the right order | the abstract specification |
| `ObjectTransfer` | the transfer service in any number of replicas, one action per awaited call | implements `FileDisposition` |
| `ValidationPipeline` | `completeUpload`, the stream of tasks, both pollers of every replica, with a transfer that may do whatever `FileDisposition` allows | instantiates `FileDisposition` |
| `ChunkPlan` | `calculateChunks`, and the reference `IsWholeFile` | |
| `UploadSession` | initiate, put, status, resume, complete of one upload | extends `ChunkPlan` |
| `PollerLifecycle` | connecting to NATS, setting up streams and consumers, the poll loops, reconnection, in any number of replicas | what a loop does with a message is in the two modules above |
| `MimeDecision` | the allow-lists and the comparison of types, with the reference `Allowed` | |
| `ContentPipeline` | the pipeline for files with contents | extends `ValidationPipeline` and `MimeDecision` |
| `ScanVerdict` | what a scan promises: one settlement, with the truth or an error | the abstract specification; the step `ValidationPipeline` makes of a scan |
| `ClamavClient` | `scanFileFromS3`, `scanStream` and `isHealthy`, one action per callback, with clamd | implements `ScanVerdict` |
| `WebhookDelivery` | `sendWebhook` and `sendWithRetry`, with the receiver | starts where `ObjectTransfer` hands an event over |
| `StorageEndpoints` | `createFile`, `deleteFile`, `copyFile`, `deleteFromS3`, one action per awaited call | |
| `MCObjectTransfer`, `MCValidationPipeline`, `MCUploadSession`, `MCPollerLifecycle`, `MCClamavClient`, `MCWebhookDelivery`, `MCStorageEndpoints` | constants for TLC | |
| `ObjectTransferProofs`, `ValidationPipelineProofs`, `ContentPipelineProofs`, `ClamavClientProofs`, `UploadSessionProofs`, `PollerLifecycleProofs`, `WebhookDeliveryProofs`, `StorageEndpointsProofs` | theorems and proofs | |

### ObjectTransfer

`delivery` and `count` are the JetStream consumer's view of each message, `kv`
the key-value store, `kvDeletes` the deletes of `Promise.all` that are still on
their way, `location` the buckets that hold a file, `notified` the webhooks
handed over.  A worker's `pc` stands at the awaited call it is about to make:
`put` (line 270), `get` (282), `stat` (501), `copy` (364 or 435), `notify`
(376, 448 or 471), `delete` (367 or 486), `cleanup` and `cleaning` (343), then
`ack` or `nak` (160, 163).  The order of copy, notify and delete depends on the
route, as in the code: a release is announced after the delete, flagging
between copy and delete, a deletion before it.  `other` is the status of the
other validator that the handler has read.  A delete in the key-value store
leaves an empty entry, which the handler treats as an error and the message is
redelivered (309-314).  `notified` counts what was handed to `sendWebhook`, which
returns at once and tries in memory (`webhook.service.ts` 77-82): what a client
receives, and what a crash loses, is in `WebhookDelivery`.  That the copy makes
its target bucket first where it is missing shows only as one more way to fail.

Each failing call either did or did not take effect.  Faults: `kv`, `s3`
(copy and delete), `stat` (the existence check, whose errors the code takes for
"not there"), `crash`, `ack` (a settlement is lost), `slow` (ack_wait runs out
on a living worker), `ttl` (an entry expires), `init` (a replica starts without
NATS or without its store).

### ValidationPipeline

`request` is the step of the `completeUpload` of a file and `server` the replica
that serves it; `task` and `tries` are the stream; `pc` and `work` the two
pollers of a replica; `results` the published verdicts with their cause
(`content`, or `error` for the "failed" that the scanner publishes when it could
not scan).  What the validators decide of a file's content is the constant
`Good`; `ContentPipeline` gives it its value.  A download of a file that has left
quarantine fails without costing a fault.  A download that S3 never answers
(`hang`) keeps its poller for good (`hung`): neither `getPartialObject` nor
`getObject` has a timer.

Nothing of the transfer's code is translated here.  `Transfer` is an assumption
about it: any step that `FileDisposition` allows, and nothing else.  That the code
keeps to it is shown by `ObjectTransfer` (`ImplementsDisposition`, `Refinement`).

### MimeDecision and ContentPipeline

A file's content is what `validateFile` looks at: the declared type, the
detected one (or that `fileTypeFromBuffer` found none, or that the check threw,
which `validateFile` catches and answers with a rejection) and the lower-cased
extension.  The allow-lists come from the configured file types or, if there are
none, from the built-in rules.  `ContentPipeline` assumes that `Good` is what
`MimeDecision` passes and what `scanFileFromS3` passes, a virus with OK in its
name included (`Cleared`), and states the end-to-end property in terms of
contents.

### ClamavClient

A scan begins with the request for its object (`requested`), which the scanner
awaits before `scanStream` sets its timer; S3 answers with the stream, with an
error, or not at all (`unanswered`).  From there the scan is a promise with a timer (`timer`), a connection (`socket`), an input
stream (`input`, `read`) and clamd's side of the conversation (`received`,
`marked`, `reply`).  Each callback of `scanStream` is an action that does what
its lines do: clear the timer, destroy the socket or the input, resolve or
reject; a promise keeps its first settlement.  The three handlers of the input
are attached in the connect callback, so that an S3 error before it is noticed
by nobody and the scan waits for the timer.  clamd is external: it answers a
terminator with a verdict on what it was given, cuts off what exceeds its limit,
drops a connection, hangs, stops and starts again.  Faults: `s3` (the download
fails or breaks off), `stall` (the request is not answered, or the stream goes on
without data), `reset`, `slow` (the
120 s pass although all are at work), `clamd`.  A readiness probe (`probe`,
`probeTimer`) has its timer cleared by the connection, not by the answer, and
takes any data but PONG for unhealthy.

"OK" is looked for before "FOUND" in the whole reply, so that a virus with OK in
its name passes; the refinement excepts those (`OkNamed`), and `ContentPipeline`
carries them on to the release.

### WebhookDelivery

`phase` and `attempt` follow `sendWithRetry`, `request` what became of each
POST.  The service hears only the attempt it awaits; a request that was aborted
may still be accepted.  Faults: `net` (unreachable, or the answer is lost),
`status`, `slow` (longer than the timeout), `crash`.

### StorageEndpoints

`op` is the step of each blob operation of a request, `answer` what the client
was told, `step`, `data` and `at` the copies.  `Promise.all` answers with the
first rejection while the other operations go on.  The map over the accounts
throws at the first unsupported one; the operations started before it then have
no handler, and a rejection among them ends the process (`alive`), as Node does
with an unhandled rejection.  Azure refuses to delete a blob that is gone.  A
copy to disk truncates the file and writes chunk by chunk, each stream at its own
position.  A stream that S3 breaks off leaves the request without an answer.

### ChunkPlan and UploadSession

Sizes are natural numbers; the theorems hold for bytes, the instances use larger
units.  A part is its number and byte range, which is what decides whether the
assembled object is the file.  `query` is a status or resume request between its
two looks at S3, `objectExists` and `listUploadedParts`; puts, completions and
the transfer interleave with it.  The client is external: it puts the chunks it
has URLs for, completes when it has the ETag of each part it was told of, may
lose an answer, and may restart with only what initiate told it.

### PollerLifecycle

`boot` is the awaited call of `NatsService.onModuleInit` a replica is at: the
connection, then for each stream (`current`) `streams.info`, and what follows
from its answer, `update`, or `delete` and `add`, or `add` alone.  `poll` is the
same for each poller: the validators get their consumer once, create it if it is
missing and start anew 2 s later (`timer`); the transfer looks its consumer up
before it starts and gets it in every turn of its loop.  A call fails when NATS
is away (`server`), when the replica's connection is not open (`conn`), or when
the stream or consumer it names does not exist.  The difference between the
pollers is in the code: any other error of `consumers.get` turns a validator's
polling off, while the transfer's loop goes on; a failed `createConsumer` of a
validator leaves `startPolling`, which nobody awaits, and Node ends the process,
while the transfer's is logged.  `stopPolling` is never called, and
`onModuleDestroy` only as the process ends.  The removal of legacy consumers, the
scanner's self-test and the key-value store change nothing this module speaks of.

The model makes two hazards of a start visible that no property can exclude,
since the code has them.  A short outage while a replica starts turns pollers
off until it is restarted, although the connection comes back, `isConnected`
says so and the warning promises to wait "until NATS is available".  And
`createOrUpdateStream` acts on what `streams.info` said before: two replicas
that start together after a change of the retention policy can delete a stream
one after the other.  `PollingStarts` and `SettledStreamsStay` state exactly how
far both reach.

## 3. Properties and runs

Faults are chosen by the environment, at most `MaxFaults` of the kinds in
`FaultKinds`; all other bounds are the sets of replicas, files and messages and
`MaxDeliver` (3 in the code).  Where `CHECK_DEADLOCK FALSE` is set, the system
comes to rest: every message settled, every upload done.

| Run | Instance | Shows |
|---|---|---|
| `transfer_safety` | 2 replicas, 1 file, 3 results (base passed, scan failed, retried scan passed), a failed base check configured to flag and a virus to delete, all 8 kinds of fault, 2 of them, 2 deliveries | `ReleasedOnlyIfPassed`, `NeverLost`, `AnnouncedOncePerReplica`, and that every step is one of `FileDisposition` |
| `transfer_settle` | 2 replicas, 1 file with the same three results, so that it may be released or flagged or both, the faults that a redelivery mends, fewer of them (1) than deliveries (2) | `HandledWhenSettled`, `RemovalAnnounced`, `SecondCopyNeedsRace`, and `LeavesQuarantine` under fairness |
| `transfer_stuck` | a file both pass, one result published twice, one `stat` fault | violates `HandledWhenSettled` |
| `pipeline` | 2 replicas, 3 deliveries, all kinds of fault; a file with a virus that has OK in its name (which passes), one with another virus and of no known type, one declared falsely | `ReleasedIsAllowed`, `SettledOnlyIfReported`, `ContradictsOnlyOnError`, `MovedOnlyIfAsked`, and `QueuedIsJudged` under fairness |
| `pipeline_rejected` | one `check` fault | violates `RejectedOnlyIfBad` |
| `upload` | five files: a short last part, an exact multiple, the second file type, one too large, one whose chunks are below the minimum; 3 faults | `WholeFile`, `StartedIsAssembled` |
| `upload_text` | the shipped text type | violates `FinalizesWhenAllUploaded` |
| `upload_capitals` | a PDF named in capitals with an unknown MIME type | violates `WholeFile` |
| `pollers` | 2 replicas, the base validator and the transfer, a leftover stream, any set of existing consumers, one outage or crash, 1 reconnection attempt | `SettledStreamsStay`, `PollingStarts`, `LoopRecovers` |
| `webhooks` | 3 events (own URL, global URL, not configured), 3 attempts, 4 faults | `DuplicatesAreFaults`, `Reaches`, `DeliveryEnds` |
| `scan` | up to 3 scans (clean, infected, infected by a virus with OK in its name), a probe, clamd with a limit above or below an object's size, up to 2 faults | `VerdictOnWholeFile`, `TimerGuards`, the refinement of `ScanVerdict`, `ScanSettles`, `UnharmedIsJudged`, `InputReleased`, `ProbeAnswered` |
| `endpoints` | any 3 of 3 creations, 2 deletions (one repeats a file), 2 copies into one path, a copy back and a deletion, 1 fault | `DeletedOnce`, `SuccessIsWhole`, `CopiedWhole`, `RequestsAnswered` |

Why the bounds are enough.  Two replicas are what it takes for every race over a
file (two results in two hands, or one result in two); files do not interact,
and the other files in `pipeline` show that pollers do not mix them up.
Two faults allow a crash and a lost ack of one message, or a slow worker and a
failed call of the other.  Two deliveries reach the redelivery and the exhausted
message.  The five uploads of `upload` cover each branch of the type lookup and
of the chunk arithmetic, and three faults allow a lost PUT, a restart and a
failed resume in one upload.  In `pollers` two replicas make the race over a
stream, the scanner would repeat the base validator, and one attempt is enough
to tell an outage the client outlasts from one it does not.  `pipeline` bounds
what a behaviour may contain by the constraint `FewAtOnce`: the file
that passes with two faults, a rejected one with one, or one of each with none.  The
constraint cuts submissions and faults only, neither of which any fairness
demands, so that a cut behaviour is a fair one of fewer calls or faults; the
constraint of the same name in `scan` counts scans and faults together.  TLC
visits 474,000 states in `transfer_settle`, 219,000 in `pipeline`, 59,000 in
`scan` and 82,000 in `endpoints`.  In
`webhooks` four faults exceed the three attempts, so that giving up happens; in
`scan` two faults allow an early reply while S3 stalls; in `endpoints` three
requests are what it takes for a deletion to race another one after a creation.
The safety properties are also proved for all
values (section 4).

Every property of a passing run has a mutant: a plausible bug in one definition
(a result read from the own status only, a swallowed error, a nak turned into an
ack, an off-by-one) under which TLC finds the property violated.

Symmetry is used for replicas, in safety runs only.

### Fairness

Weak fairness on each poller's next call, on fetching, on the restart of a
crashed replica, on the expiry of `ack_wait` and on the deletes already sent:
`startPolling` is an endless loop, the deployment restarts containers, and
JetStream delivers what is ready.  Nothing is assumed of faults, of clients of
the pipeline or of uploads that were never begun.  `QueuedIsJudged` excepts that
every poller for a task is off, its replica having started without NATS (line 258
of the base validator), or hangs in a download.  In `pipeline` fetching and the
expiry of `ack_wait` are fair per validator, and an answer of S3 to a download is
not assumed; the transfer and the validators' publishing are assumed to hear from
S3 and NATS, an answer or an error; in `transfer_settle` the faults that the code takes for success are left out,
since each of them really strands a file, and fewer faults happen than
deliveries, since the message is dropped otherwise.  In `PollerLifecycle` every call returns
or fails, timers run off and ended processes are started again; that NATS comes
back is not assumed, since the client gives up otherwise.  The client of `UploadSession` keeps
putting and completing, and asks again whenever it can do neither; strong
fairness there, because a client that polls the status all the time asks nothing
else in between.  In `ClamavClient` timers fire, sockets and streams deliver
their events, and clamd answers while it is up; nothing brings a silent or
stopped clamd back, nor an answer of S3 that has stalled.  In `WebhookDelivery` timers fire and a receiver answers what
has not stalled.  In `StorageEndpoints` Azure, S3 and the disk answer the calls
made to them.

### Disagreements found

Four runs show the code disagreeing with its own documentation; `PROJECT.json`
quotes the lines.

1. `objectExistsInQuarantine` reports any storage error as a missing object, and
   the file then stays in quarantine with both results acknowledged.
2. The scanner publishes "failed" for a scan error before the retry it announces.
3. Chunks of the shipped text type (1 MB) are refused by `completeUpload` (5 MB).
4. `resumeUpload` does not lower-case the extension and may cut a file by another
   chunk size than `initiateUpload` did.

Others are in the models as the code has them, as the exceptions the properties
name, without a run of their own:

- `completeUpload` answers "queued for validation" (`app.service.ts:577`) when
  the metadata lookup or the publish failed; a repeated call finds no upload.
- A status asked while the upload is completed may answer "not-found".
- The second of two concurrent deletions of a blob is an internal error, not the
  `NotFoundException` of the comment (`azure-blob.service.ts:70`).
- A create or delete request that names supported accounts before an unsupported
  one can end the process (`RequestsAnswered`).
- A virus with OK in its name passes the scan (`clamav-scanner.service.ts:169`)
  and its file is released (`ImplementsVerdict`, `ReleasedIsAllowed`).
- S3's answer to a download is awaited without a timer
  (`clamav-scanner.service.ts:155`, `s3.service.ts:399`), before the one of the
  scan is set: a request that is never answered keeps the poller until a restart
  (`ScanSettles`, `QueuedIsJudged`).
- A retried scan that contradicts the first one may leave a file both released and
  flagged (`SecondCopyNeedsRace`).
- Two copies into one local path overwrite each other, and both report success
  (`CopiedWhole`); a copy that S3 breaks off is never answered (`RequestsAnswered`).
- `/ready` is not answered while clamd accepts connections and says nothing, or
  after it has closed one with no word (`ProbeAnswered`).
- A webhook handed over is lost when the process ends before it is delivered
  (`Reaches`); of a release nobody sends it again.  `verifySignature` can match no delivered body, since the signature
  is added to the payload after it was computed over it (`webhook.service.ts:75`);
  contents of payloads are not modelled.

## 4. What is proved

All proofs are by TLAPS, for every value of the constants that satisfies the
named assumptions (non-empty sets of replicas and messages, positive limits,
well-typed configuration; for uploads, positive sizes and chunk limits).

**ObjectTransferProofs.**  `TypeCorrect`.  The safety properties are not
inductive: that a file in `validated` has two published "passed" results says
nothing of a worker that is about to copy it.  `SafetyInvariant` adds `Evidence`
(what the store holds, and what a worker has read from it, was published) and
`Routed` (a worker at the delete has made its copy or its announcement; a worker
at the notification of a release has deleted).  From it follow `ReleaseSafety`,
`TransferKeepsFiles` and `Refinement`, the last one action by action: each step
of a worker is a step of `FileDisposition` or leaves it unchanged.
`SecondCopiesRace` holds of scans that are retried with another result too: a
file with a copy and its original has, before the first fault, a worker that is
about to remove the original (`Underway`), and a second copy elsewhere needs
results that contradict each other.  `RemovalsAnnounced` follows from `Routed`: a
worker deletes the original of a rejected file only past its announcement.
`ReleaseAnnouncedOncePerReplica` counts: once a file has left quarantine nobody
joins the workers that may announce its release (`Releasing`), and each leaves
with its announcement, so that announcements and those workers together stay
within the number of replicas (`AnnounceInv`).
`Settlement` proves `HandledWhenSettled` under `NoSilentLoss`, the assumption
that the environment injects no `stat`, `ttl` or `init` fault; `transfer_stuck`
shows that it is needed.  Its invariant `SettleInv` is the heart of the
rendezvous: while the file is in quarantine nothing is cleaned up, a validator
whose message was acknowledged has its result in the store, and the other one's
has not been acknowledged.
`AbandoningNeedsFaults` is the safety part of `LeavesQuarantine`, under the same
assumption: no file is abandoned in quarantine, of each validator a result
acknowledged or given up, before there were as many faults as deliveries.  By
`SettleInv` one of them was given up, and the invariant `DeliveriesPaid` counts:
the deliveries of a result, together with the workers that failed on it and have
not handed it back, are no more than the faults, and one more while a worker is
at it (`MessageSteps` sorts every step by what it does to these numbers).

**ValidationPipelineProofs.**  `PipelineTypes`, and from `PipelineInvariant`
(tasks exist only of stored files; a poller works on a task that was delivered,
and reports on the file it works on; each task is queued once; a result agrees
with the content unless its cause is an error; an acknowledged task has a
content result; files move only once both verdicts, hence both tasks, exist) the safety properties.
They rest on the assumption about the transfer that `Refinement` discharges.
`RejectionNeedsError` proves `RejectedOnlyIfBad` under `ChecksSucceed`, the
assumption that no check fails and no connection breaks; `pipeline_rejected`
violates it with one failed check, so the proviso is needed.  The invariant is
`LateErrors`: then a scan fails only because its file has left quarantine, so
that its "failed" comes after the verdict that moved it.
`DroppedTasksNeedFaults` is the safety part of `QueuedIsJudged`: a task that is
given up has a verdict, or there were as many faults as deliveries.  The
invariant `PaidFor` counts: the deliveries of a task, together with the pollers
that failed on it and have not yet settled it, are no more than the faults, and
one more while a poller is at work on it.  `PayingSteps` sorts every step by what
it does to these numbers: keep a task, fail on it, queue, deliver or requeue it,
settle it.

**ContentPipelineProofs.**  `DecisionIsAllowance`: `validateFile` passes exactly
what `Allowed` describes, the table of variations deciding nothing that the
categories do not, provided each of its rows stays in one category
(`VariationsAssumption`).  With `ReleaseOfGoodFiles` it gives
`OnlyAllowedReleased`, the end-to-end property in terms of contents, from
`DecisionAssumption` that `Good` is what the validators decide.  It says what the
code keeps and no more: a released file is of an allowed type and has no virus
but one with OK in its name.

**ClamavClientProofs.**  `VerdictOnWholeFile` is not inductive: what is given to
clamd, the terminator, the reply and the settlement are four steps.
`ScanInvariant` adds `Exact`: while writes reach clamd it has all that was read; a
terminator was sent after the whole object, whose input has ended; a verdict of
clamd answers a terminator and is on what it has; `Begins` adds that nothing of
this starts before S3 has answered.  From it `ScanTypes`,
`TimersGuard`, `WholeFileJudged`, and `ScanRefinement`: each callback settles with
the truth or an error, once, or is invisible to `ScanVerdict`.

**UploadSessionProofs.**  Of the chunk arithmetic: `PlanIsWholeFile`, that the
chunks of any file with any chunk size are contiguous from the first byte to the
last, and `LastChunkSizeIsTrue`.  `UploadTypes`, and `AssembledIsWhole`: provided
that resuming plans every file as initiating did (`ConsistentPlans`), the
assembled object is the file.  The invariant is that all parts anyone holds are
chunks of one plan; a client that has the numbers 1 to `totalChunks` then has all
of it.  `upload_capitals` shows that the proviso is needed.
`CompleteUploadsFinalize` proves `FinalizesWhenAllUploaded` under the further
assumption `AcceptableChunks`, that a file is cut into chunks of at least the
5 MB `completeUpload` asks for, or not cut at all (`upload_text` shows that the
shipped configuration does not satisfy it): all parts but the last are full
chunks, so that the size check refuses none.

**PollerLifecycleProofs.**  `LifecycleTypes`, whose invariant adds that a
connection not yet closed has an attempt left and that a process that has not
connected holds no connection; and `StreamsStay`, that a settled stream stays.

**WebhookDeliveryProofs.**  `DeliveryTypes`.  `DuplicatesNeedFaults` and
`GivingUpNeedsFaults` both count attempts whose end was a fault (`Failed`): each
of them is paid for by a fault of its own, an event is handed to its receiver
again only after such an attempt, and `given_up` is reached only when all
`Retries` attempts are.

**StorageEndpointsProofs.**  `EndpointTypes`, and the three safety properties.
`SuccessesAreWhole` joins two facts: a request told of success has all its
operations over, and what a finished operation did to its blob (`Finished`) is
undone by a later creation or deletion of it only.
`CopiesAreWhole` rests on `Copying`: a file that nobody shares has one writer, and
holds what that writer has written of what it read.  `DeletionsAreOwn` rests on
`Balance`: for each blob, the deletions done and the blob itself, if it is there,
are no more than the creations done and the blob that was there at first; a
request told of success has all its operations done.

Only model-checked are the liveness properties (`LeavesQuarantine`,
`QueuedIsJudged`, `StartedIsAssembled`, `PollingStarts`, `LoopRecovers`,
`Reaches`, `DeliveryEnds`, `ScanSettles`, `UnharmedIsJudged`, `InputReleased`,
`ProbeAnswered`, `RequestsAnswered`), which are beyond this prover.  Every safety
property of a passing run is also a theorem.

## 5. What is not modelled, and what comes next

Not modelled, because they only read and keep no state: listing files and
accounts, download URLs, the S3 and NATS health indicators.  Request validation,
routing, metrics and deployment hold no behaviour of the kind checked here.
Object naming: the strategy `filename`, with its check-then-act, is not reachable,
since `configuration()` drops `objectNaming` (and `actionHandlers`; `MoveToFlagged`
is a constant so that both routes are covered); the other strategy makes a fresh
UUID.  `stopPolling` is never called.

Abstracted: payloads, signatures and the parsing of messages, which the service
writes itself; the detector of file types; the limits of the streams (age,
messages, bytes) and the legacy consumers; how much `socket.write` buffers when
clamd reads slower than S3 sends (`clamav-scanner.service.ts:242` ignores its
result); the order between webhooks of one file, which nothing in the service
promises.  In the transfer and pipeline modules NATS is either there at start or
not, and goes away later only as failed calls; `PollerLifecycle` has the
connection itself.  `deleteFromS3` may name any bucket; it is modelled on the data
bucket, and beside the pipeline it would weaken `NeverLost` to files nobody
deleted.

Met on the way and outside any model: the chart of the service sets `NATS_URL`
(`kubernetes/charts/s3-ferry/templates/deployment.yaml`) while
`nats.config.factory.ts` reads `NATS_SERVERS`, and its readiness probe asks
`/health` instead of `/ready`, so that a replica without NATS counts as ready.

Plan, in order of weight:

1. `ObjectTransfer` in place of the assumption `Transfer` of the pipeline: the two
   are joined so far by `Refinement`, which speaks of the transfer alone, with
   results from anywhere; a module that composes them, with the steps of
   `FileDisposition` in the pipeline replaced by those of the replicas, would
   state it of one system.
2. Bounds on time and number of deliveries that the liveness properties need, as
   far as they are safety: that a scan settles within its timer, and that a poller
   that was switched off stays off only for the causes `PollingStarts` names.
