--------------------------- MODULE ObjectTransfer ----------------------------
(***************************************************************************)
(* The object-transfer service: replicas ("workers") poll the              *)
(* VALIDATION_RESULTS stream one message at a time, store each result in   *)
(* the VALIDATION_TRACKING key-value store, look up the other validator's  *)
(* result and, when both are there, copy the file out of the quarantined   *)
(* bucket, announce it by webhook, delete the original and clean the two   *)
(* entries up.  One action per awaited call: another replica, a            *)
(* redelivery or a crash may come between any two.                         *)
(***************************************************************************)
EXTENDS Integers, FiniteSets

CONSTANTS
  Workers,         \* replicas of the service (kubernetes replicaCount)
  Files,           \* the objects under validation
  Messages,        \* the validation results that may be published
  MoveToFlagged,   \* [validator -> BOOLEAN], the actionHandlers configuration
  MaxDeliver,      \* max_deliver of the object-transfer consumer
  FaultKinds,      \* the kinds of fault the environment may inject ...
  MaxFaults        \* ... and how many of them (a bound for TLC)

Validators == {"base", "clamav"}
Statuses   == {"passed", "failed"}
Buckets    == {"quarantined", "validated", "flagged"}
Events     == {"file_validated", "file_flagged", "file_deleted"}
Faults     == {"kv", "stat", "s3", "crash", "ack", "slow", "ttl", "init"}

ASSUME WorkersAssumption  == Workers # {} /\ IsFiniteSet(Workers)
ASSUME MessagesAssumption ==
  /\ Messages # {}
  /\ Messages \subseteq [file : Files, validator : Validators, status : Statuses, id : Nat]
ASSUME ConfigAssumption   == MoveToFlagged \in [Validators -> BOOLEAN]
ASSUME DeliverAssumption  == MaxDeliver \in Nat \ {0}
ASSUME FaultsAssumption   == FaultKinds \subseteq Faults /\ MaxFaults \in Nat

VARIABLES
  delivery,   \* [Messages -> state]: the consumer's view of each message
  count,      \* [Messages -> Nat]: how often it has been delivered
  kv,         \* [Files -> [Validators -> entry]]
  kvDeletes,  \* delete requests on their way to the key-value store
  location,   \* [Files -> SUBSET Buckets]
  notified,   \* [Files -> [Events -> Nat]]: webhooks handed to WebhookService
  pc, job, other, bound,  \* per worker: step, message, other status, kv bound?
  faults      \* faults injected so far

worker == <<pc, job, other, bound>>
stream == <<delivery, count>>
vars   == <<stream, kv, kvDeletes, location, notified, worker, faults>>

DeliveryStates == {"unsent", "ready", "inflight", "acked", "exhausted"}
Entries        == Statuses \cup {"none", "deleted"}
Steps          == {"down", "off", "idle", "put", "get", "stat", "copy", "notify",
                   "delete", "cleanup", "cleaning", "ack", "nak"}

TypeOK ==
  /\ delivery \in [Messages -> DeliveryStates]
  /\ count \in [Messages -> 0..MaxDeliver]
  /\ kv \in [Files -> [Validators -> Entries]]
  /\ kvDeletes \subseteq Workers \X Files \X Validators
  /\ location \in [Files -> SUBSET Buckets]
  /\ notified \in [Files -> [Events -> Nat]]
  /\ pc \in [Workers -> Steps]
  /\ job \in [Workers -> Messages]
  /\ other \in [Workers -> Statuses]
  /\ bound \in [Workers -> BOOLEAN]
  /\ faults \in 0..MaxFaults

Other(v)        == IF v = "base" THEN "clamav" ELSE "base"
FileOf(w)       == job[w].file
ValidatorOf(w)  == job[w].validator
Published(f, v, s) ==
  \E m \in Messages : m.file = f /\ m.validator = v /\ m.status = s
                      /\ delivery[m] # "unsent"

\* The aggregated validation of worker w: the status of validator v.
StatusOf(w, v) == IF ValidatorOf(w) = v THEN job[w].status ELSE other[w]

\* Plausible bugs are defined beside the code they would be in (see PROJECT.json).
AllPassed_OwnOnly(w) == job[w].status = "passed"
AllPassed(w) == \A v \in Validators : StatusOf(w, v) = "passed"
ShouldMoveToFlagged(w) ==
  \E v \in Validators : StatusOf(w, v) = "failed" /\ MoveToFlagged[v]

Route(w) == IF AllPassed(w) THEN "validated"
            ELSE IF ShouldMoveToFlagged(w) THEN "flagged" ELSE "deleted"

\* The bucket handlePassedValidation and handleFailedValidation copy to.
Destination(w) == IF AllPassed(w) THEN "validated" ELSE "flagged"

EventOf(route) == IF route = "validated" THEN "file_validated"
                  ELSE IF route = "flagged" THEN "file_flagged" ELSE "file_deleted"

\* The order of the calls: a release is announced after the delete, flagging
\* between copy and delete, a deletion before it.
FirstStep_Unannounced(w) == IF Route(w) = "deleted" THEN "delete" ELSE "copy"
FirstStep(w) == IF Route(w) = "deleted" THEN "notify" ELSE "copy"
AfterCopy_AnnounceLast(w) == "delete"
AfterCopy_AnnounceFirst(w) == "notify"
AfterCopy(w) == IF Route(w) = "validated" THEN "delete" ELSE "notify"
AfterNotify(w) == IF Route(w) = "validated" THEN "cleanup" ELSE "delete"
AfterDelete(w) == IF Route(w) = "validated" THEN "notify" ELSE "cleanup"

At(w, step)   == pc[w] = step
Goto(w, step) == pc' = [pc EXCEPT ![w] = step]
\* The handler returns or dies: its local variables are gone.
NoJob == CHOOSE m \in Messages : TRUE
Leave(w, step) ==
  /\ Goto(w, step)
  /\ job' = [job EXCEPT ![w] = NoJob]
  /\ other' = [other EXCEPT ![w] = "passed"]
Holds(w, m)   == job[w] = m /\ pc[w] \notin {"down", "off", "idle"}

NoFault == UNCHANGED faults
Fault(kind) == /\ kind \in FaultKinds
               /\ faults < MaxFaults
               /\ faults' = faults + 1

Init ==
  /\ delivery = [m \in Messages |-> "unsent"]
  /\ count = [m \in Messages |-> 0]
  /\ kv = [f \in Files |-> [v \in Validators |-> "none"]]
  /\ kvDeletes = {}
  /\ location = [f \in Files |-> {"quarantined"}]
  /\ notified = [f \in Files |-> [e \in Events |-> 0]]
  /\ pc = [w \in Workers |-> "down"]
  /\ job = [w \in Workers |-> NoJob]
  /\ other = [w \in Workers |-> "passed"]
  /\ bound = [w \in Workers |-> FALSE]
  /\ faults = 0

----------------------------------------------------------------------------
(* The stream and its consumer (external: NATS JetStream)                  *)

\* A validator publishes a result.
Publish(m) ==
  /\ delivery[m] = "unsent"
  /\ delivery' = [delivery EXCEPT ![m] = "ready"]
  /\ UNCHANGED <<count, kv, kvDeletes, location, notified, worker, faults>>

Requeued_OffByOne(m) == IF count[m] <= MaxDeliver THEN "ready" ELSE "exhausted"
Requeued(m) == IF count[m] < MaxDeliver THEN "ready" ELSE "exhausted"

\* ack_wait runs out on a message nobody settled: its worker crashed, its
\* acknowledgement was lost or, a fault, the worker is merely slow.
AckWaitExpires(m) ==
  /\ delivery[m] = "inflight"
  /\ IF \E w \in Workers : Holds(w, m) THEN Fault("slow") ELSE NoFault
  /\ delivery' = [delivery EXCEPT ![m] = Requeued(m)]
  /\ UNCHANGED <<count, kv, kvDeletes, location, notified, worker>>

\* An entry, or the marker a delete leaves, outlives max_age.
KvExpires(f, v) ==
  /\ kv[f][v] # "none"
  /\ Fault("ttl")
  /\ kv' = [kv EXCEPT ![f][v] = "none"]
  /\ UNCHANGED <<stream, kvDeletes, location, notified, worker>>

----------------------------------------------------------------------------
(* A worker's life                                                         *)

\* onModuleInit with NATS up: key-value store bound, polling started.
Start(w) ==
  /\ At(w, "down")
  /\ Goto(w, "idle")
  /\ bound' = [bound EXCEPT ![w] = TRUE]
  /\ NoFault
  /\ UNCHANGED <<stream, kv, kvDeletes, location, notified, job, other>>

\* initializeKvStore failed and was swallowed: polling starts all the same.
StartWithoutKv(w) ==
  /\ At(w, "down")
  /\ Goto(w, "idle")
  /\ bound' = [bound EXCEPT ![w] = FALSE]
  /\ Fault("init")
  /\ UNCHANGED <<stream, kv, kvDeletes, location, notified, job, other>>

\* No NATS connection at start: polling is disabled until the next restart.
StartOffline(w) ==
  /\ At(w, "down")
  /\ Goto(w, "off")
  /\ bound' = [bound EXCEPT ![w] = FALSE]
  /\ Fault("init")
  /\ UNCHANGED <<stream, kv, kvDeletes, location, notified, job, other>>

Crash(w) ==
  /\ ~At(w, "down")
  /\ Fault("crash")
  /\ Leave(w, "down")
  /\ bound' = [bound EXCEPT ![w] = FALSE]
  /\ UNCHANGED <<stream, kv, kvDeletes, location, notified>>

Fetch(w, m) ==
  /\ At(w, "idle")
  /\ delivery[m] = "ready"
  /\ delivery' = [delivery EXCEPT ![m] = "inflight"]
  /\ count' = [count EXCEPT ![m] = @ + 1]
  /\ job' = [job EXCEPT ![w] = m]
  /\ Goto(w, IF bound[w] THEN "put" ELSE "ack")
  /\ UNCHANGED <<kv, kvDeletes, location, notified, other, bound, faults>>

----------------------------------------------------------------------------
(* processValidationResult: the key-value store                            *)

Put(w) == kv' = [kv EXCEPT ![FileOf(w)][ValidatorOf(w)] = job[w].status]

KvPut(w) ==
  /\ At(w, "put")
  /\ Put(w)
  /\ Goto(w, "get")
  /\ UNCHANGED <<stream, kvDeletes, location, notified, job, other, bound, faults>>

KvPutFails_Swallowed(w) ==
  /\ At(w, "put")
  /\ Fault("kv")
  /\ Put(w) \/ UNCHANGED kv
  /\ Goto(w, "ack")
  /\ UNCHANGED <<stream, kvDeletes, location, notified, job, other, bound>>

\* The put fails: before it took effect, or with only its answer lost.
KvPutFails(w) ==
  /\ At(w, "put")
  /\ Fault("kv")
  /\ Put(w) \/ UNCHANGED kv
  /\ Goto(w, "nak")
  /\ UNCHANGED <<stream, kvDeletes, location, notified, job, other, bound>>

\* No entry of the other validator: wait for it.  The empty payload of a
\* deleted entry: "Empty ... result", an error.  A result: both are complete.
KvGet(w) ==
  /\ At(w, "get")
  /\ LET entry == kv[FileOf(w)][Other(ValidatorOf(w))]
     IN  \/ entry = "none" /\ Goto(w, "ack") /\ UNCHANGED other
         \/ entry = "deleted" /\ Goto(w, "nak") /\ UNCHANGED other
         \/ /\ entry \in Statuses
            /\ Goto(w, "stat")
            /\ other' = [other EXCEPT ![w] = entry]
  /\ UNCHANGED <<stream, kv, kvDeletes, location, notified, job, bound, faults>>

KvGetFails(w) ==
  /\ At(w, "get")
  /\ Fault("kv")
  /\ Goto(w, "nak")
  /\ UNCHANGED <<stream, kv, kvDeletes, location, notified, job, other, bound>>

----------------------------------------------------------------------------
(* handleCompleteValidation: the buckets and the webhooks                  *)

Stat(w) ==
  /\ At(w, "stat")
  /\ Goto(w, IF "quarantined" \in location[FileOf(w)] THEN FirstStep(w) ELSE "cleanup")
  /\ UNCHANGED <<stream, kv, kvDeletes, location, notified, job, other, bound, faults>>

\* objectExistsInQuarantine answers false on any error.
StatFails(w) ==
  /\ At(w, "stat")
  /\ Fault("stat")
  /\ Goto(w, "cleanup")
  /\ UNCHANGED <<stream, kv, kvDeletes, location, notified, job, other, bound>>

\* The target bucket is made first where it is missing; the replica that loses
\* the race to make it has a copy that fails without effect (CopyFails).
CopyObject(w) ==
  /\ "quarantined" \in location[FileOf(w)]
  /\ location' = [location EXCEPT ![FileOf(w)] = @ \cup {Destination(w)}]

Copy(w) ==
  /\ At(w, "copy")
  /\ CopyObject(w)
  /\ Goto(w, AfterCopy(w))
  /\ UNCHANGED <<stream, kv, kvDeletes, notified, job, other, bound, faults>>

\* Another replica has already removed the source.
CopySourceMissing(w) ==
  /\ At(w, "copy")
  /\ "quarantined" \notin location[FileOf(w)]
  /\ Goto(w, "nak")
  /\ UNCHANGED <<stream, kv, kvDeletes, location, notified, job, other, bound, faults>>

CopyFails_Swallowed(w) ==
  /\ At(w, "copy")
  /\ Fault("s3")
  /\ CopyObject(w) \/ UNCHANGED location
  /\ Goto(w, "delete")
  /\ UNCHANGED <<stream, kv, kvDeletes, notified, job, other, bound>>

CopyFails(w) ==
  /\ At(w, "copy")
  /\ Fault("s3")
  /\ CopyObject(w) \/ UNCHANGED location
  /\ Goto(w, "nak")
  /\ UNCHANGED <<stream, kv, kvDeletes, notified, job, other, bound>>

RemoveObject(w) == location' = [location EXCEPT ![FileOf(w)] = @ \ {"quarantined"}]

Delete(w) ==
  /\ At(w, "delete")
  /\ RemoveObject(w)
  /\ Goto(w, AfterDelete(w))
  /\ UNCHANGED <<stream, kv, kvDeletes, notified, job, other, bound, faults>>

DeleteFails(w) ==
  /\ At(w, "delete")
  /\ Fault("s3")
  /\ RemoveObject(w) \/ UNCHANGED location
  /\ Goto(w, "nak")
  /\ UNCHANGED <<stream, kv, kvDeletes, notified, job, other, bound>>

\* The transfer metric and the fire-and-forget webhook.
Notify(w) ==
  /\ At(w, "notify")
  /\ notified' = [notified EXCEPT ![FileOf(w)][EventOf(Route(w))] = @ + 1]
  /\ Goto(w, AfterNotify(w))
  /\ UNCHANGED <<stream, kv, kvDeletes, location, job, other, bound, faults>>

----------------------------------------------------------------------------
(* Clean-up and settlement                                                 *)

\* Promise.all over the two deletes: both requests leave at once.
Cleanup(w) ==
  /\ At(w, "cleanup")
  /\ kvDeletes' = kvDeletes \cup {<<w, FileOf(w), v>> : v \in Validators}
  /\ Goto(w, "cleaning")
  /\ UNCHANGED <<stream, kv, location, notified, job, other, bound, faults>>

KvDelete(w, f, v) ==
  /\ <<w, f, v>> \in kvDeletes
  /\ kvDeletes' = kvDeletes \ {<<w, f, v>>}
  /\ kv' = [kv EXCEPT ![f][v] = "deleted"]
  /\ UNCHANGED <<stream, location, notified, worker, faults>>

\* One delete fails: Promise.all rejects at once, the failure is swallowed and
\* the other delete is still on its way.
KvDeleteFails(w, f, v) ==
  /\ <<w, f, v>> \in kvDeletes
  /\ Fault("kv")
  /\ kvDeletes' = kvDeletes \ {<<w, f, v>>}
  /\ kv' = [kv EXCEPT ![f][v] = "deleted"] \/ UNCHANGED kv
  /\ IF At(w, "cleaning") /\ FileOf(w) = f THEN Goto(w, "ack") ELSE UNCHANGED pc
  /\ UNCHANGED <<stream, location, notified, job, other, bound>>

CleanupDone(w) ==
  /\ At(w, "cleaning")
  /\ \A v \in Validators : <<w, FileOf(w), v>> \notin kvDeletes
  /\ Goto(w, "ack")
  /\ UNCHANGED <<stream, kv, kvDeletes, location, notified, job, other, bound, faults>>

Ack(w) ==
  /\ At(w, "ack")
  /\ delivery' = [delivery EXCEPT ![job[w]] = "acked"]
  /\ Leave(w, "idle")
  /\ UNCHANGED <<count, kv, kvDeletes, location, notified, bound, faults>>

Nak_Acks(w) ==
  /\ At(w, "nak")
  /\ delivery' = [delivery EXCEPT ![job[w]] = "acked"]
  /\ Leave(w, "idle")
  /\ UNCHANGED <<count, kv, kvDeletes, location, notified, bound, faults>>

Nak(w) ==
  /\ At(w, "nak")
  /\ delivery' = [delivery EXCEPT ![job[w]] = IF @ = "inflight" THEN Requeued(job[w]) ELSE @]
  /\ Leave(w, "idle")
  /\ UNCHANGED <<count, kv, kvDeletes, location, notified, bound, faults>>

\* Neither ack() nor nak() waits for the server: either may get lost.
SettlementLost(w) ==
  /\ At(w, "ack") \/ At(w, "nak")
  /\ Fault("ack")
  /\ Leave(w, "idle")
  /\ UNCHANGED <<stream, kv, kvDeletes, location, notified, bound>>

----------------------------------------------------------------------------

Process(w) ==
  \/ KvPut(w) \/ KvGet(w) \/ Stat(w) \/ Copy(w) \/ CopySourceMissing(w) \/ Delete(w)
  \/ Notify(w) \/ Cleanup(w) \/ CleanupDone(w) \/ Ack(w) \/ Nak(w)

Fails(w) ==
  \/ StartWithoutKv(w) \/ StartOffline(w) \/ Crash(w) \/ KvPutFails(w) \/ KvGetFails(w)
  \/ StatFails(w) \/ CopyFails(w) \/ DeleteFails(w) \/ SettlementLost(w)

Next ==
  \/ \E m \in Messages : Publish(m) \/ AckWaitExpires(m)
  \/ \E w \in Workers, m \in Messages : Fetch(w, m)
  \/ \E w \in Workers : Start(w) \/ Process(w) \/ Fails(w)
  \/ \E w \in Workers, f \in Files, v \in Validators :
       KvDelete(w, f, v) \/ KvDeleteFails(w, f, v)
  \/ \E f \in Files, v \in Validators : KvExpires(f, v)

Spec == Init /\ [][Next]_vars
\* No scheduling assumption for the faults; every worker that polls keeps
\* polling (startPolling's loop), a crashed one is restarted, JetStream
\* delivers what is ready and lets ack_wait run out.
Fairness ==
  /\ \A m \in Messages : WF_vars(AckWaitExpires(m) /\ NoFault)
  /\ \A m \in Messages : WF_vars(\E w \in Workers : Fetch(w, m))
  /\ \A w \in Workers : WF_vars(Start(w)) /\ WF_vars(Process(w))
  /\ \A w \in Workers, f \in Files, v \in Validators : WF_vars(KvDelete(w, f, v))

FairSpec == Spec /\ Fairness

----------------------------------------------------------------------------
(* Properties                                                              *)

\* A file is in the validated bucket only if both validators published a
\* "passed" result for it, whatever was redelivered, reordered, overwritten
\* or cut short on the way (handleCompleteValidation's allPassed).
ReleasedOnlyIfPassed ==
  \A f \in Files : "validated" \in location[f] =>
    \A v \in Validators : Published(f, v, "passed")

\* No step and no crash between two steps leaves a file in no bucket at all,
\* unless a validator failed it and is configured not to flag
\* (handlePassedValidation, handleFailedValidation: copy before delete).
NeverLost ==
  \A f \in Files : location[f] = {} =>
    \E v \in Validators : Published(f, v, "failed") /\ ~MoveToFlagged[v]

\* A file comes to be both released and flagged only if a validator
\* contradicted itself (a scan that failed and was retried, say) and another
\* worker has copied the file and not yet removed it, or a fault cut such a
\* worker short: the copy needs the source, and the worker that made the first
\* copy removes the source next (objectExistsInQuarantine, copy and delete of
\* handlePassedValidation and handleFailedValidation).
Contradicted(f) == \E v \in Validators : \A s \in Statuses : Published(f, v, s)

Removing(f) == \E w \in Workers :
  FileOf(w) = f /\ pc[w] \in {"notify", "delete"} /\ Route(w) # "deleted"

BothCopies(f) == {"validated", "flagged"} \subseteq location[f]

SecondCopyNeedsRace ==
  [][\A f \in Files : ~BothCopies(f) /\ BothCopies(f)' =>
       Contradicted(f) /\ (Removing(f) \/ faults > 0)]_vars

\* Put-then-get misses nobody: once a result of each validator has been
\* acknowledged the file has left quarantine, although each message on its
\* own may have been acknowledged with "waiting for" the other
\* (processValidationResult, steps 1 to 4, on any number of replicas).
Settled(f, v) ==
  \E m \in Messages : m.file = f /\ m.validator = v /\ delivery[m] = "acked"

HandledWhenSettled ==
  \A f \in Files :
    (\A v \in Validators : Settled(f, v)) => "quarantined" \notin location[f]

\* The original of a rejected file disappears only after a webhook about it,
\* that it was flagged or that it is deleted, was handed to WebhookService, also
\* when several replicas reject it on different routes or die on the way
\* (handleFailedValidation).  Handed over in memory: what becomes of it from
\* there, a crash included, is WebhookDelivery's.
RemovalAnnounced ==
  \A f \in Files : location[f] \cap {"quarantined", "validated"} = {} =>
    notified[f]["file_flagged"] + notified[f]["file_deleted"] > 0

\* However often the results are redelivered after faults, each replica tells
\* of a release at most once, so a single one never repeats itself
\* (handlePassedValidation: the webhook is sent after the delete, and a
\* handler that starts later finds no object in quarantine).  This counts the
\* hand-overs to WebhookService, not what a client receives.
AnnouncedOncePerReplica ==
  \A f \in Files : notified[f]["file_validated"] <= Cardinality(Workers)

\* The service implements the promise of FileDisposition.
Disposition == INSTANCE FileDisposition WITH
  verdicts  <- {<<m.file, m.validator, m.status>> :
                  m \in {n \in Messages : delivery[n] # "unsent"}},
  announced <- {fe \in Files \X Events : notified[fe[1]][fe[2]] > 0}

ImplementsDisposition == Disposition!Spec

\* A file about which both validators published eventually leaves
\* quarantine, if fewer faults than deliveries happen.
LeavesQuarantine ==
  \A f \in Files :
    (\A v \in Validators : \E s \in Statuses : Published(f, v, s))
      ~> "quarantined" \notin location[f]

----------------------------------------------------------------------------
(* The inductive strengthening of the safety properties                    *)

Busy(w) == pc[w] \notin {"down", "off", "idle"}
Judging == {"stat", "copy", "notify", "delete"}

\* What the store holds and what a worker has looked up was published.
Evidence ==
  /\ \A f \in Files, v \in Validators :
       kv[f][v] \in Statuses => Published(f, v, kv[f][v])
  /\ \A w \in Workers : Busy(w) => delivery[job[w]] # "unsent"
  /\ \A w \in Workers : pc[w] \in Judging =>
       Published(FileOf(w), Other(ValidatorOf(w)), other[w])

\* How far a worker has come on its route.
Routed == \A w \in Workers :
  /\ pc[w] = "copy" => Route(w) # "deleted"
  /\ pc[w] = "delete" =>
       IF Route(w) = "deleted" THEN notified[FileOf(w)]["file_deleted"] > 0
       ELSE Route(w) \in location[FileOf(w)]
  /\ pc[w] = "delete" /\ Route(w) = "flagged" => notified[FileOf(w)]["file_flagged"] > 0
  /\ pc[w] = "notify" /\ Route(w) = "validated" =>
       "validated" \in location[FileOf(w)] /\ "quarantined" \notin location[FileOf(w)]
  /\ pc[w] = "notify" /\ Route(w) = "flagged" => "flagged" \in location[FileOf(w)]

\* Before the first fault, whoever has made a copy is on its way to the delete.
Underway ==
  faults = 0 => \A f \in Files :
    "quarantined" \in location[f] /\ location[f] # {"quarantined"} => Removing(f)

\* A message of validator v was, or is about to be, acknowledged.
Waited(f, v) ==
  \E m \in Messages :
    /\ m.file = f /\ m.validator = v
    /\ delivery[m] = "acked" \/ \E w \in Workers : pc[w] = "ack" /\ job[w] = m

\* Without "stat", "ttl" and "init" faults: a result is cleaned up only once
\* the file has left quarantine ...
CleanedUp ==
  /\ \A w \in Workers : pc[w] # "down" => bound[w]
  /\ \A w \in Workers :
       pc[w] \in {"cleanup", "cleaning"} => "quarantined" \notin location[FileOf(w)]
  /\ \A f \in Files : "quarantined" \in location[f] => \A v \in Validators :
       kv[f][v] # "deleted" /\ \A w \in Workers : <<w, f, v>> \notin kvDeletes

\* ... and, while it has not, a worker that looks the other result up has
\* stored its own, and a validator whose message was acknowledged has its
\* result stored and the other one has none acknowledged.
OneWaits ==
  /\ \A w \in Workers :
       pc[w] = "get" /\ "quarantined" \in location[FileOf(w)] =>
         kv[FileOf(w)][ValidatorOf(w)] \in Statuses
  /\ \A f \in Files : "quarantined" \in location[f] => \A v \in Validators :
       Waited(f, v) => kv[f][v] \in Statuses /\ ~Waited(f, Other(v))

SettleInv == CleanedUp /\ OneWaits
==============================================================================
