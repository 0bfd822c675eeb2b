---------------------- MODULE ValidationPipelineProofs -----------------------
(* Proofs about ValidationPipeline, for every number of replicas, files,     *)
(* deliveries and faults.                                                    *)
EXTENDS ValidationPipeline, FiniteSetTheorems, TLAPS

LEMMA AnyFileType == AnyFile \in Files
  BY FilesAssumption DEF AnyFile

LEMMA AnyReplicaType == AnyReplica \in Replicas
  BY ReplicasAssumption DEF AnyReplica

LEMMA FaultType ==
  ASSUME NEW kind, faults \in 0..MaxFaults, Fault(kind)
  PROVE  faults' \in 0..MaxFaults
  BY BudgetAssumption DEF Fault

LEMMA RequeuedType ==
  ASSUME NEW f, NEW v
  PROVE  Requeued(f, v) \in {"ready", "exhausted"}
  BY DEF Requeued

LEMMA VerdictType ==
  ASSUME NEW f, NEW v
  PROVE  Verdict(f, v) \in Statuses
  BY DEF Verdict, Statuses

\* What a step of the transfer service does to the buckets and the webhooks.
LEMMA TransferSteps ==
  ASSUME NEW f \in Files, Transfer(f)
  PROVE  /\ UNCHANGED <<upload, stream, pollers, results, faults>>
         /\ \/ /\ UNCHANGED announced
               /\ \/ /\ Disposition!Passed(f)
                     /\ location' = [location EXCEPT ![f] = @ \cup {"validated"}]
                  \/ /\ Disposition!Judged(f)
                     /\ location' = [location EXCEPT ![f] = @ \cup {"flagged"}]
                  \/ /\ \/ location[f] \cap {"validated", "flagged"} # {}
                        \/ <<f, "file_deleted">> \in announced
                     /\ location' = [location EXCEPT ![f] = @ \ {"quarantined"}]
            \/ /\ UNCHANGED location
               /\ \E e \in Events :
                    /\ announced' = announced \cup {<<f, e>>}
                    /\ e = "file_deleted" => Disposition!Judged(f)
  <1>1. UNCHANGED <<upload, stream, pollers, results, faults>>
    BY DEF Transfer
  <1>2. CASE Disposition!Release(f)
    BY <1>1, <1>2 DEF Disposition!Release, Disposition!CopyTo
  <1>3. CASE Disposition!Flag(f)
    BY <1>1, <1>3 DEF Disposition!Flag, Disposition!CopyTo
  <1>4. CASE Disposition!Remove(f)
    BY <1>1, <1>4 DEF Disposition!Remove
  <1>5. CASE \E e \in Events : Disposition!Announce(f, e)
    <2>1. PICK e \in Events : Disposition!Announce(f, e)
      BY <1>5
    <2> QED BY <1>1, <2>1 DEF Disposition!Announce
  <1> QED BY <1>2, <1>3, <1>4, <1>5 DEF Transfer

LEMMA TransferType ==
  ASSUME NEW f \in Files, Transfer(f),
         location \in [Files -> SUBSET Buckets], announced \subseteq Files \X Events
  PROVE  /\ location' \in [Files -> SUBSET Buckets]
         /\ announced' \subseteq Files \X Events
         /\ UNCHANGED <<upload, stream, pollers, results, faults>>
  <1>1. CASE UNCHANGED announced
    BY <1>1, TransferSteps DEF Buckets
  <1>2. CASE UNCHANGED location
    <2>1. announced' = announced \/ \E e \in Events : announced' = announced \cup {<<f, e>>}
      BY TransferSteps
    <2>2. announced' \subseteq Files \X Events
      BY <2>1
    <2> QED BY <1>2, <2>2, TransferSteps
  <1> QED BY <1>1, <1>2, TransferSteps

----------------------------------------------------------------------------
(* Type correctness: a task is delivered at most MaxDeliver times, because *)
(* it is queued once and one that waits for delivery has a delivery left.  *)

LEMMA TypeInit == Init => TypeInv
  <1> SUFFICES ASSUME Init PROVE TypeInv
    OBVIOUS
  <1>1. TypeOK
    BY AnyFileType, AnyReplicaType, RetriesAssumption, BudgetAssumption
    DEF Init, TypeOK, Requests, TaskStates, Steps, Results, Buckets
  <1>2. Countable
    BY RetriesAssumption DEF Init, Countable
  <1>3. QueuesOnce
    BY DEF Init, QueuesOnce
  <1>4. StoredFirst /\ WorksOnTask
    BY DEF Init, StoredFirst, WorksOnTask, Busy
  <1> QED BY <1>1, <1>2, <1>3, <1>4 DEF TypeInv

LEMMA TypeNext == TypeInv /\ [Next]_vars => TypeInv'
  <1> SUFFICES ASSUME TypeInv, [Next]_vars PROVE TypeInv'
    OBVIOUS
  <1> USE DEF TypeInv, TypeOK, Countable, QueuesOnce, StoredFirst, WorksOnTask, Busy,
              Requests, TaskStates, Steps, upload, stream, pollers, transfer, Goto, Leave,
              At, Answer, NoFault
  <1>1. ASSUME NEW f \in Files, NEW r \in Replicas, CompleteUpload(f, r) PROVE TypeInv'
    BY <1>1 DEF CompleteUpload
  <1>2. ASSUME NEW f \in Files, Assemble(f) PROVE TypeInv'
    BY <1>2 DEF Assemble
  <1>3. ASSUME NEW f \in Files, ReadMetadata(f) PROVE TypeInv'
    BY <1>3 DEF ReadMetadata
  <1>4. ASSUME NEW f \in Files, QueueSkipped(f) PROVE TypeInv'
    BY <1>4 DEF QueueSkipped
  <1>5. ASSUME NEW f \in Files, NEW v \in Validators, Queue(f, v) PROVE TypeInv'
    <2>1. TypeOK'
      BY <1>5, RetriesAssumption DEF Queue, QueueTask, Validators
    <2>2. StoredFirst'
      BY <1>5, RetriesAssumption DEF Queue, QueueTask, Validators
    <2>3. WorksOnTask'
      BY <1>5, RetriesAssumption DEF Queue, QueueTask, Validators
    <2>4. QueuesOnce'
      BY <1>5, RetriesAssumption DEF Queue, QueueTask, Validators
    <2>5. Countable'
      BY <1>5, RetriesAssumption DEF Queue, QueueTask, Validators
    <2> QED BY <2>1, <2>2, <2>3, <2>4, <2>5
  <1>6. ASSUME NEW f \in Files, AssembleFails(f) PROVE TypeInv'
    <2>1. PICK done \in {stored[f], TRUE} : stored' = [stored EXCEPT ![f] = done]
      BY <1>6 DEF AssembleFails
    <2>2. \A g \in Files : stored[g] => stored'[g]
      BY <2>1
    <2>3. TypeOK'
      BY <1>6, <2>1, <2>2, FaultType DEF AssembleFails
    <2>4. StoredFirst'
      BY <1>6, <2>1, <2>2, FaultType DEF AssembleFails
    <2>5. WorksOnTask'
      BY <1>6, <2>1, <2>2, FaultType DEF AssembleFails
    <2>6. QueuesOnce'
      BY <1>6, <2>1, <2>2, FaultType DEF AssembleFails
    <2>7. Countable'
      BY <1>6, <2>1, <2>2, FaultType DEF AssembleFails
    <2> QED BY <2>3, <2>4, <2>5, <2>6, <2>7
  <1>7. ASSUME NEW f \in Files, ReadMetadataFails(f) PROVE TypeInv'
    BY <1>7, FaultType DEF ReadMetadataFails
  <1>8. ASSUME NEW f \in Files, NEW v \in Validators, QueueFails(f, v) PROVE TypeInv'
    <2>1. CASE UNCHANGED task
      BY <1>8, <2>1, FaultType DEF QueueFails, Validators
    <2>2. CASE QueueTask(f, v)
      <3>1. TypeOK'
        BY <1>8, <2>2, RetriesAssumption, FaultType DEF QueueFails, QueueTask, Validators
      <3>2. StoredFirst'
        BY <1>8, <2>2, RetriesAssumption, FaultType DEF QueueFails, QueueTask, Validators
      <3>3. WorksOnTask'
        BY <1>8, <2>2, RetriesAssumption, FaultType DEF QueueFails, QueueTask, Validators
      <3>4. QueuesOnce'
        BY <1>8, <2>2, RetriesAssumption, FaultType DEF QueueFails, QueueTask, Validators
      <3>5. Countable'
        BY <1>8, <2>2, RetriesAssumption, FaultType DEF QueueFails, QueueTask, Validators
      <3> QED BY <3>1, <3>2, <3>3, <3>4, <3>5
    <2> QED BY <1>8, <2>1, <2>2 DEF QueueFails
  <1>9. ASSUME NEW f \in Files, Transfer(f) PROVE TypeInv'
    <2>1. TypeOK'
      BY <1>9, TransferType DEF Transfer
    <2>2. StoredFirst'
      BY <1>9, TransferType DEF Transfer
    <2>3. WorksOnTask'
      BY <1>9, TransferType DEF Transfer
    <2>4. QueuesOnce'
      BY <1>9, TransferType DEF Transfer
    <2>5. Countable'
      BY <1>9, TransferType DEF Transfer
    <2> QED BY <2>1, <2>2, <2>3, <2>4, <2>5
  <1>10. ASSUME NEW f \in Files, NEW v \in Validators, AckWaitExpires(f, v) PROVE TypeInv'
    BY <1>10, FaultType, RequeuedType DEF AckWaitExpires, Requeued
  <1>11. ASSUME NEW r \in Replicas, Start(r) PROVE TypeInv'
    BY <1>11 DEF Start
  <1>12. ASSUME NEW r \in Replicas, StartOffline(r) PROVE TypeInv'
    BY <1>12, FaultType DEF StartOffline
  <1>13. ASSUME NEW r \in Replicas, Crash(r) PROVE TypeInv'
    BY <1>13, FaultType, AnyFileType DEF Crash
  <1>14. ASSUME NEW r \in Replicas, NEW v \in Validators, Check(r, v) PROVE TypeInv'
    BY <1>14 DEF Check
  <1>15. ASSUME NEW r \in Replicas, NEW v \in Validators, PublishResult(r, v) PROVE TypeInv'
    <2>1. TypeOK'
      BY <1>15, VerdictType DEF PublishResult, Report, Results
    <2>2. StoredFirst'
      BY <1>15, VerdictType DEF PublishResult, Report, Results
    <2>3. WorksOnTask'
      BY <1>15, VerdictType DEF PublishResult, Report, Results
    <2>4. QueuesOnce'
      BY <1>15, VerdictType DEF PublishResult, Report, Results
    <2>5. Countable'
      BY <1>15, VerdictType DEF PublishResult, Report, Results
    <2> QED BY <2>1, <2>2, <2>3, <2>4, <2>5
  <1>16. ASSUME NEW r \in Replicas, NEW v \in Validators, PublishError(r, v) PROVE TypeInv'
    <2>1. [file |-> work[r][v], validator |-> v, status |-> "failed", cause |-> "error"] \in Results
      BY DEF Results, Statuses
    <2>2. TypeOK'
      BY <1>16, <2>1 DEF PublishError, Report
    <2>3. StoredFirst'
      BY <1>16, <2>1 DEF PublishError, Report
    <2>4. WorksOnTask'
      BY <1>16, <2>1 DEF PublishError, Report
    <2>5. QueuesOnce'
      BY <1>16, <2>1 DEF PublishError, Report
    <2>6. Countable'
      BY <1>16, <2>1 DEF PublishError, Report
    <2> QED BY <2>2, <2>3, <2>4, <2>5, <2>6
  <1>17. ASSUME NEW r \in Replicas, NEW v \in Validators, Ack(r, v) PROVE TypeInv'
    <2>1. task[work[r][v]][v] # "none"
      BY <1>17 DEF Ack
    <2>2. TypeOK'
      BY <1>17, <2>1, AnyFileType DEF Ack
    <2>3. StoredFirst'
      BY <1>17, <2>1, AnyFileType DEF Ack
    <2>4. WorksOnTask'
      BY <1>17, <2>1, AnyFileType DEF Ack
    <2>5. QueuesOnce'
      <3>1. UNCHANGED request
        BY <1>17 DEF Ack
      <3>2. ASSUME NEW g \in Files, NEW u \in Validators, task[g][u] = "none"
            PROVE  task'[g][u] = "none"
        BY <1>17, <2>1, <3>2 DEF Ack
      <3> QED BY <3>1, <3>2 DEF Validators
    <2>6. Countable'
      BY <1>17, <2>1, AnyFileType DEF Ack
    <2> QED BY <2>2, <2>3, <2>4, <2>5, <2>6
  <1>18. ASSUME NEW r \in Replicas, NEW v \in Validators, Nak(r, v) PROVE TypeInv'
    <2>1. task[work[r][v]][v] # "none"
      BY <1>18 DEF Nak
    <2>2. TypeOK'
      BY <1>18, <2>1, AnyFileType, RequeuedType DEF Nak, Requeued
    <2>3. StoredFirst'
      BY <1>18, <2>1, AnyFileType, RequeuedType DEF Nak, Requeued
    <2>4. WorksOnTask'
      BY <1>18, <2>1, AnyFileType, RequeuedType DEF Nak, Requeued
    <2>5. QueuesOnce'
      BY <1>18, <2>1, AnyFileType, RequeuedType DEF Nak, Requeued
    <2>6. Countable'
      BY <1>18, <2>1, AnyFileType, RequeuedType DEF Nak, Requeued
    <2> QED BY <2>2, <2>3, <2>4, <2>5, <2>6
  <1>19. ASSUME NEW r \in Replicas, NEW v \in Validators, CheckFails(r, v) PROVE TypeInv'
    BY <1>19, FaultType DEF CheckFails, OnError
  <1>20. ASSUME NEW r \in Replicas, NEW v \in Validators, PublishFails(r, v) PROVE TypeInv'
    BY <1>20, FaultType, VerdictType DEF PublishFails, Report, Results, OnError
  <1>21. ASSUME NEW r \in Replicas, NEW v \in Validators, PublishErrorFails(r, v) PROVE TypeInv'
    BY <1>21, FaultType DEF PublishErrorFails, Report, Results, Statuses
  <1>22. ASSUME NEW r \in Replicas, NEW v \in Validators, SettlementLost(r, v) PROVE TypeInv'
    BY <1>22, FaultType, AnyFileType DEF SettlementLost
  <1>23. ASSUME NEW r \in Replicas, NEW v \in Validators, NEW f \in Files, Fetch(r, v, f) PROVE TypeInv'
    <2>1. tries[f][v] \in Nat /\ tries[f][v] < MaxDeliver
      BY <1>23 DEF Fetch
    <2>2. tries' \in [Files -> [Validators -> 0..MaxDeliver]]
      BY <2>1, <1>23, RetriesAssumption DEF Fetch
    <2>3. TypeOK'
      BY <1>23, <2>2, RetriesAssumption DEF Fetch
    <2>4. StoredFirst'
      BY <1>23, <2>2, RetriesAssumption DEF Fetch
    <2>5. WorksOnTask'
      BY <1>23, <2>2, RetriesAssumption DEF Fetch
    <2>6. QueuesOnce'
      BY <1>23, <2>2, RetriesAssumption DEF Fetch
    <2>7. Countable'
      BY <1>23, <2>2, RetriesAssumption DEF Fetch
    <2> QED BY <2>3, <2>4, <2>5, <2>6, <2>7
  <1>24. ASSUME NEW r \in Replicas, NEW v \in Validators, CheckHangs(r, v) PROVE TypeInv'
    BY <1>24, FaultType, AnyFileType DEF CheckHangs
  <1>25. CASE UNCHANGED vars
    BY <1>25 DEF vars
  <1> QED
    BY <1>1, <1>2, <1>3, <1>4, <1>5, <1>6, <1>7, <1>8, <1>9, <1>10, <1>11, <1>12, 
       <1>13, <1>14, <1>15, <1>16, <1>17, <1>18, <1>19, <1>20, <1>21, <1>22, <1>23,
       <1>24, <1>25
    DEF Next, Request, RequestFails, Process, ProcessFails

\* Every reachable state has the types of TypeOK: in particular no task is
\* delivered more than max_deliver times (both validators' consumers).
THEOREM PipelineTypes == Spec => []TypeOK
  <1>1. TypeInv => TypeOK
    BY DEF TypeInv
  <1> QED BY <1>1, TypeInit, TypeNext, PTL DEF Spec

THEOREM TypeInvariant == Spec => []TypeInv
  <1> QED BY TypeInit, TypeNext, PTL DEF Spec

----------------------------------------------------------------------------
(* What a step adds to the results, and what it never takes back.          *)

Publishes(r, v) ==
  \/ pc[r][v] = "publish" /\ Report(work[r][v], v, Verdict(work[r][v], v), "content")
  \/ pc[r][v] = "report" /\ Report(work[r][v], v, "failed", "error")

LEMMA ResultSteps ==
  ASSUME [Next]_vars
  PROVE  \/ UNCHANGED results
         \/ /\ UNCHANGED <<task, location, announced>>
            /\ \E r \in Replicas, v \in Validators : Publishes(r, v)
  <1> USE DEF upload, stream, pollers, transfer
  <1>1. ASSUME NEW r \in Replicas, NEW v \in Validators, NEW f \in Files,
               \/ Check(r, v) \/ Ack(r, v) \/ Nak(r, v) \/ CheckFails(r, v)
               \/ CheckHangs(r, v) \/ SettlementLost(r, v) \/ Fetch(r, v, f)
        PROVE  UNCHANGED results
    BY <1>1 DEF Check, Ack, Nak, CheckFails, CheckHangs, SettlementLost, Fetch
  <1>2. ASSUME NEW r \in Replicas, NEW v \in Validators,
               \/ PublishResult(r, v) \/ PublishFails(r, v)
               \/ PublishError(r, v) \/ PublishErrorFails(r, v)
        PROVE  \/ UNCHANGED results
               \/ UNCHANGED <<task, location, announced>> /\ Publishes(r, v)
    BY <1>2 DEF PublishResult, PublishFails, PublishError, PublishErrorFails, Publishes, At
  <1>3. ASSUME NEW f \in Files, Request(f) \/ RequestFails(f) \/ Transfer(f)
        PROVE  UNCHANGED results
    BY <1>3 DEF Request, RequestFails, Transfer, Assemble, ReadMetadata, QueueSkipped, Queue,
       AssembleFails, ReadMetadataFails, QueueFails
  <1>4. ASSUME NEW f \in Files, NEW r \in Replicas, NEW v \in Validators,
               \/ CompleteUpload(f, r) \/ AckWaitExpires(f, v)
               \/ Start(r) \/ StartOffline(r) \/ Crash(r)
        PROVE  UNCHANGED results
    BY <1>4 DEF CompleteUpload, AckWaitExpires, Start, StartOffline, Crash
  <1>5. CASE UNCHANGED vars
    BY <1>5 DEF vars
  <1>6. Files # {} /\ Replicas # {} /\ Validators # {}
    BY FilesAssumption, ReplicasAssumption DEF Validators
  <1> QED BY <1>1, <1>2, <1>3, <1>4, <1>5, <1>6 DEF Next, Process, ProcessFails

LEMMA TaskSteps ==
  ASSUME TypeInv, [Next]_vars, NEW f \in Files, NEW v \in Validators
  PROVE  /\ task[f][v] # "none" => task'[f][v] # "none"
         /\ task'[f][v] = "acked" => task[f][v] = "acked" \/ \E r \in Replicas :
              pc[r][v] = "ack" /\ work[r][v] = f
  <1> DEFINE Goal == /\ task[f][v] # "none" => task'[f][v] # "none"
                     /\ task'[f][v] = "acked" => task[f][v] = "acked" \/ \E r \in Replicas :
                          pc[r][v] = "ack" /\ work[r][v] = f
  <1> USE DEF TypeInv, TypeOK, upload, stream, pollers, transfer
  <1>1. ASSUME UNCHANGED task PROVE Goal
    BY <1>1
  <1>2. ASSUME NEW g \in Files, NEW u \in Validators,
               Queue(g, u) \/ QueueFails(g, u) \/ AckWaitExpires(g, u)
        PROVE  Goal
    <2>1. UNCHANGED task \/ \E s \in {"ready", "exhausted"} : task' = [task EXCEPT ![g][u] = s]
      BY <1>2, RequeuedType DEF Queue, QueueFails, AckWaitExpires, QueueTask
    <2>2. ASSUME NEW s \in {"ready", "exhausted"}, task' = [task EXCEPT ![g][u] = s]
          PROVE  Goal
      BY <2>2
    <2> QED BY <1>1, <2>1, <2>2
  <1>3. ASSUME NEW r \in Replicas, NEW u \in Validators, NEW g \in Files,
               Fetch(r, u, g) \/ Ack(r, u) \/ Nak(r, u)
        PROVE  Goal
    <2>1. CASE Fetch(r, u, g)
      BY <2>1 DEF Fetch
    <2>2. CASE Ack(r, u)
      BY <2>2 DEF Ack, At
    <2>3. CASE Nak(r, u)
      BY <2>3, RequeuedType DEF Nak
    <2> QED BY <1>3, <2>1, <2>2, <2>3
  <1>4. ASSUME NEW r \in Replicas, NEW u \in Validators, Process(r, u) \/ ProcessFails(r, u)
        PROVE  UNCHANGED task \/ Ack(r, u) \/ Nak(r, u)
    BY <1>4 DEF Process, ProcessFails, Check, PublishResult, PublishError, CheckFails,
       CheckHangs, PublishFails, PublishErrorFails, SettlementLost
  <1>5. ASSUME NEW g \in Files, Request(g) \/ RequestFails(g) \/ Transfer(g)
        PROVE  UNCHANGED task \/ \E u \in Validators : Queue(g, u) \/ QueueFails(g, u)
    BY <1>5 DEF Request, RequestFails, Transfer, Assemble, ReadMetadata, QueueSkipped,
       AssembleFails, ReadMetadataFails
  <1>6. ASSUME NEW g \in Files, NEW r \in Replicas,
               CompleteUpload(g, r) \/ Start(r) \/ StartOffline(r) \/ Crash(r)
        PROVE  UNCHANGED task
    BY <1>6 DEF CompleteUpload, Start, StartOffline, Crash
  <1>7. ASSUME UNCHANGED vars PROVE Goal
    BY <1>1, <1>7 DEF vars
  <1>8. Files # {}
    BY FilesAssumption
  <1> HIDE DEF Goal, TypeInv, TypeOK, upload, stream, pollers, transfer
  <1>9. ASSUME NEW g \in Files, Request(g) \/ RequestFails(g) \/ Transfer(g) PROVE Goal
    BY <1>1, <1>2, <1>5, <1>9
  <1>10. ASSUME NEW q \in Replicas, NEW u \in Validators, Process(q, u) \/ ProcessFails(q, u)
         PROVE  Goal
    BY <1>1, <1>3, <1>4, <1>8, <1>10
  <1>11. Goal
    BY <1>1, <1>2, <1>3, <1>6, <1>7, <1>8, <1>9, <1>10 DEF Next
  <1> QED BY <1>11 DEF Goal

\* A poller that comes to "ack" or "report" has just published or failed.
LEMMA PollerSteps ==
  ASSUME TypeInv, [Next]_vars, NEW r \in Replicas, NEW v \in Validators
  PROVE  /\ pc'[r][v] = "ack" =>
              \/ pc[r][v] = "ack" /\ work'[r][v] = work[r][v]
              \/ PublishResult(r, v)
         /\ pc'[r][v] = "report" =>
              \/ pc[r][v] = "report" /\ work'[r][v] = work[r][v]
              \/ /\ v = "clamav" /\ work'[r][v] = work[r][v]
                 /\ CheckFails(r, v) \/ PublishFails(r, v)
  <1> DEFINE Goal == /\ pc'[r][v] = "ack" =>
                          \/ pc[r][v] = "ack" /\ work'[r][v] = work[r][v]
                          \/ PublishResult(r, v)
                     /\ pc'[r][v] = "report" =>
                          \/ pc[r][v] = "report" /\ work'[r][v] = work[r][v]
                          \/ /\ v = "clamav" /\ work'[r][v] = work[r][v]
                             /\ CheckFails(r, v) \/ PublishFails(r, v)
  <1> USE DEF TypeInv, TypeOK, upload, stream, pollers, transfer, Goto, Leave
  <1>1. ASSUME UNCHANGED <<pc, work>> PROVE Goal
    BY <1>1
  <1>2. ASSUME NEW q \in Replicas, NEW u \in Validators, NEW g \in Files,
               \/ Check(q, u) \/ CheckHangs(q, u) \/ PublishError(q, u) \/ Ack(q, u)
               \/ Nak(q, u) \/ PublishErrorFails(q, u) \/ SettlementLost(q, u)
               \/ Fetch(q, u, g)
        PROVE  Goal
    <2>1. \E s \in {"publish", "nak", "idle", "check", "hung"} :
            pc' = [pc EXCEPT ![q][u] = s]
      BY <1>2 DEF Check, CheckHangs, PublishError, Ack, Nak, PublishErrorFails, SettlementLost,
                  Fetch
    <2>2. UNCHANGED work \/ \E g1 \in Files : work' = [work EXCEPT ![q][u] = g1]
      BY <1>2, AnyFileType
      DEF Check, CheckHangs, PublishError, Ack, Nak, PublishErrorFails, SettlementLost, Fetch
    <2> QED BY <2>1, <2>2
  <1>3. ASSUME NEW q \in Replicas, NEW u \in Validators, CheckFails(q, u) \/ PublishFails(q, u)
        PROVE  Goal
    <2>1. pc' = [pc EXCEPT ![q][u] = OnError(u)] /\ UNCHANGED work
      BY <1>3 DEF CheckFails, PublishFails
    <2>2. CASE q = r /\ u = v
      BY <1>3, <2>1, <2>2 DEF OnError
    <2>3. CASE ~(q = r /\ u = v)
      BY <2>1, <2>3
    <2> QED BY <2>2, <2>3
  <1>4. ASSUME NEW q \in Replicas, NEW u \in Validators, PublishResult(q, u)
        PROVE  Goal
    <2>1. CASE q = r /\ u = v
      BY <1>4, <2>1 DEF PublishResult
    <2>2. CASE ~(q = r /\ u = v)
      BY <1>4, <2>2 DEF PublishResult
    <2> QED BY <2>1, <2>2
  <1>5. ASSUME NEW q \in Replicas, Start(q) \/ StartOffline(q) \/ Crash(q)
        PROVE  Goal
    <2>1. \E s \in {"idle", "off", "down"} :
            pc' = [pc EXCEPT ![q] = [u \in Validators |-> s]]
      BY <1>5 DEF Start, StartOffline, Crash
    <2>2. r # q => work'[r] = work[r]
      BY <1>5 DEF Start, StartOffline, Crash
    <2> QED BY <2>1, <2>2
  <1>6. ASSUME NEW g \in Files, NEW q \in Replicas, NEW u \in Validators,
               \/ Request(g) \/ RequestFails(g) \/ Transfer(g)
               \/ CompleteUpload(g, q) \/ AckWaitExpires(g, u)
        PROVE  Goal
    BY <1>1, <1>6 DEF Request, RequestFails, Transfer, Assemble, ReadMetadata, QueueSkipped,
       Queue, AssembleFails, ReadMetadataFails, QueueFails, CompleteUpload, AckWaitExpires
  <1>7. ASSUME UNCHANGED vars PROVE Goal
    BY <1>1, <1>7 DEF vars
  <1>8. Files # {} /\ Replicas # {} /\ Validators # {}
    BY FilesAssumption, ReplicasAssumption DEF Validators
  <1> HIDE DEF Goal, TypeInv, TypeOK, upload, stream, pollers, transfer, Goto, Leave
  <1>9. ASSUME NEW q \in Replicas, NEW u \in Validators, Process(q, u) \/ ProcessFails(q, u)
        PROVE  Goal
    BY <1>2, <1>3, <1>4, <1>8, <1>9 DEF Process, ProcessFails
  <1>10. Goal
    BY <1>2, <1>5, <1>6, <1>7, <1>8, <1>9 DEF Next
  <1> QED BY <1>10 DEF Goal

----------------------------------------------------------------------------
(* The invariant.  Results are sound and about queued tasks; what is       *)
(* settled was reported; what has moved was judged.                        *)

LEMMA VerdictsGrow ==
  ASSUME [Next]_vars
  PROVE  results \subseteq results' /\ Verdicts \subseteq Verdicts'
  <1>1. results \subseteq results'
    BY ResultSteps DEF Publishes, Report
  <1> QED BY <1>1 DEF Verdicts

LEMMA InvInit == Init => PipelineInv
  <1> SUFFICES ASSUME Init PROVE PipelineInv
    OBVIOUS
  <1>1. ReportsOnTask /\ Sound /\ Reported
    BY DEF Init, ReportsOnTask, Sound, Reported, SettledOnlyIfReported, Validators
  <1>2. Moved
    BY DEF Init, Moved
  <1> QED BY <1>1, <1>2, TypeInit DEF PipelineInv

LEMMA SoundNext == TypeInv /\ ReportsOnTask /\ Sound /\ [Next]_vars => ReportsOnTask' /\ Sound'
  <1> SUFFICES ASSUME TypeInv, ReportsOnTask, Sound, [Next]_vars
               PROVE  ReportsOnTask' /\ Sound'
    OBVIOUS
  <1>1. ASSUME NEW x \in results
        PROVE  x.file \in Files /\ x.validator \in Validators
    BY DEF TypeInv, TypeOK, Results
  <1>2. \A r \in Replicas : pc'[r]["base"] # "report"
    BY PollerSteps DEF Sound, Validators
  <1>3. CASE UNCHANGED results
    BY <1>1, <1>2, <1>3, TaskSteps DEF ReportsOnTask, Sound, Verdict
  <1>4. ASSUME UNCHANGED task, NEW r \in Replicas, NEW v \in Validators, Publishes(r, v)
        PROVE  ReportsOnTask' /\ Sound'
    <2>1. task[work[r][v]][v] # "none"
      BY <1>4 DEF TypeInv, WorksOnTask, Busy, Publishes
    <2>2. pc[r][v] = "report" => v = "clamav"
      BY <1>4 DEF Sound, Validators
    <2>3. ASSUME NEW x \in results'
          PROVE  /\ task'[x.file][x.validator] # "none"
                 /\ IF x.cause = "content" THEN x.status = Verdict(x.file, x.validator)
                    ELSE x.status = "failed" /\ x.validator = "clamav"
      <3>1. CASE x \in results
        BY <1>4, <3>1 DEF ReportsOnTask, Sound
      <3>2. CASE x \notin results
        BY <1>4, <2>1, <2>2, <2>3, <3>2 DEF Publishes, Report
      <3> QED BY <3>1, <3>2
    <2> QED BY <1>2, <2>3 DEF ReportsOnTask, Sound, Verdict
  <1> QED BY <1>3, <1>4, ResultSteps

LEMMA ReportedNext == TypeInv /\ Reported /\ [Next]_vars => Reported'
  <1> SUFFICES ASSUME TypeInv, Reported, [Next]_vars PROVE Reported'
    OBVIOUS
  <1>1. results \subseteq results'
    BY VerdictsGrow
  <1>2. SettledOnlyIfReported'
    BY <1>1, TaskSteps DEF Reported, SettledOnlyIfReported
  <1>3. ASSUME NEW r \in Replicas, NEW v \in Validators, pc'[r][v] = "ack"
        PROVE  \E x \in results' : x.file = work'[r][v] /\ x.validator = v /\ x.cause = "content"
    <2>1. CASE PublishResult(r, v)
      <3>1. work' = work /\ Report(work[r][v], v, Verdict(work[r][v], v), "content")
        BY <2>1 DEF PublishResult
      <3>2. PICK x \in results' : x.file = work[r][v] /\ x.validator = v /\ x.cause = "content"
        <4> DEFINE new == [file |-> work[r][v], validator |-> v,
                           status |-> Verdict(work[r][v], v), cause |-> "content"]
        <4>1. new \in results'
          BY <3>1 DEF Report
        <4>2. new.file = work[r][v] /\ new.validator = v /\ new.cause = "content"
          OBVIOUS
        <4> QED BY <4>1, <4>2
      <3> QED BY <3>1, <3>2
    <2>2. CASE pc[r][v] = "ack" /\ work'[r][v] = work[r][v]
      BY <1>1, <2>2 DEF Reported
    <2> QED BY <1>3, <2>1, <2>2, PollerSteps
  <1> QED BY <1>2, <1>3 DEF Reported

\* Only the transfer service touches buckets and transfer webhooks.
LEMMA OnlyTransferMoves ==
  ASSUME [Next]_vars
  PROVE  UNCHANGED transfer \/ \E f \in Files : Transfer(f)
  <1>1. ASSUME NEW r \in Replicas, NEW v \in Validators, Process(r, v) \/ ProcessFails(r, v)
        PROVE  UNCHANGED transfer
    BY <1>1 DEF Process, ProcessFails, Check, PublishResult, PublishError, Ack, Nak, CheckFails,
       CheckHangs, PublishFails, PublishErrorFails, SettlementLost
  <1>2. ASSUME NEW f \in Files, Request(f) \/ RequestFails(f)
        PROVE  UNCHANGED transfer
    BY <1>2 DEF Request, RequestFails, Assemble, ReadMetadata, QueueSkipped, Queue, AssembleFails,
       ReadMetadataFails, QueueFails
  <1>3. ASSUME NEW f \in Files, NEW r \in Replicas, NEW v \in Validators,
               \/ CompleteUpload(f, r) \/ AckWaitExpires(f, v) \/ Fetch(r, v, f)
               \/ Start(r) \/ StartOffline(r) \/ Crash(r)
        PROVE  UNCHANGED transfer
    BY <1>3 DEF CompleteUpload, AckWaitExpires, Fetch, Start, StartOffline, Crash
  <1>4. Files # {} /\ Replicas # {} /\ Validators # {}
    BY FilesAssumption, ReplicasAssumption DEF Validators
  <1> QED BY <1>1, <1>2, <1>3, <1>4 DEF Next, vars

LEMMA MovedNext == TypeInv /\ Moved /\ [Next]_vars => Moved'
  <1> SUFFICES ASSUME TypeInv, Moved, [Next]_vars PROVE Moved'
    OBVIOUS
  <1>1. ASSUME NEW f \in Files
        PROVE  /\ Disposition!Passed(f) => Disposition!Passed(f)'
               /\ Disposition!Judged(f) => Disposition!Judged(f)'
               /\ Disposition!Passed(f) => Disposition!Judged(f)
    BY VerdictsGrow DEF Disposition!Passed, Disposition!Judged, Disposition!Statuses
  <1>2. CASE UNCHANGED transfer
    BY <1>1, <1>2 DEF Moved, transfer
  <1>3. ASSUME NEW f \in Files, Transfer(f) PROVE Moved'
    <2>0. ASSUME NEW g \in Files, location'[g] # location[g]
          PROVE  \/ Disposition!Passed(g) /\ location'[g] = location[g] \cup {"validated"}
                 \/ Disposition!Judged(g) /\ location'[g] = location[g] \cup {"flagged"}
                 \/ /\ \/ location[g] \cap {"validated", "flagged"} # {}
                       \/ <<g, "file_deleted">> \in announced
                    /\ location'[g] = location[g] \ {"quarantined"}
      <3>1. location \in [Files -> SUBSET Buckets]
        BY DEF TypeInv, TypeOK
      <3>2. PICK S : location' = [location EXCEPT ![f] = S]
        BY <1>3, <2>0, TransferSteps
      <3>3. g = f
        BY <2>0, <3>1, <3>2
      <3> QED BY <1>3, <2>0, <3>1, <3>3, TransferSteps
    <2>1. ASSUME NEW g \in Files, "validated" \in location'[g], "validated" \notin location[g]
          PROVE  Disposition!Passed(g)
      <3> DEFINE P == Disposition!Passed(g)
                 J == Disposition!Judged(g)
                 D == <<g, "file_deleted">> \in announced
                 B == location[g]
                 C == location'[g]
      <3>1. C # B /\ "validated" \in C /\ "validated" \notin B
        BY <2>1
      <3>2. \/ P /\ C = B \cup {"validated"}
            \/ J /\ C = B \cup {"flagged"}
            \/ (B \cap {"validated", "flagged"} # {} \/ D) /\ C = B \ {"quarantined"}
        BY <2>0, <3>1
      <3> HIDE DEF P, J, D, B, C
      <3>3. P
        BY <3>1, <3>2
      <3> QED BY <3>3 DEF P
    <2>2. ASSUME NEW g \in Files, location'[g] # {"quarantined"}, location[g] = {"quarantined"},
                 <<g, "file_deleted">> \notin announced
          PROVE  Disposition!Judged(g)
      BY <1>1, <2>0, <2>2
    <2>3. ASSUME NEW g \in Files, <<g, "file_deleted">> \in announced',
                 <<g, "file_deleted">> \notin announced
          PROVE  Disposition!Judged(g)
      <3>1. PICK e : announced' = announced \cup {<<f, e>>}
                     /\ (e = "file_deleted" => Disposition!Judged(f))
        BY <1>3, <2>3, TransferSteps
      <3>2. g = f /\ e = "file_deleted"
        BY <2>3, <3>1
      <3> QED BY <3>1, <3>2
    <2> QED BY <1>1, <2>1, <2>2, <2>3 DEF Moved
  <1> QED BY <1>2, <1>3, OnlyTransferMoves

\* The inductive invariant of the pipeline.
THEOREM PipelineInvariant == Spec => []PipelineInv
  <1>1. PipelineInv /\ [Next]_vars => PipelineInv'
    BY TypeNext, SoundNext, ReportedNext, MovedNext DEF PipelineInv
  <1> QED BY <1>1, InvInit, PTL DEF Spec

----------------------------------------------------------------------------
(* The safety properties                                                   *)

LEMMA VerdictMeaning ==
  ASSUME PipelineInv, NEW f \in Files, NEW v \in Validators, NEW s, <<f, v, s>> \in Verdicts
  PROVE  \/ s = Verdict(f, v)
         \/ /\ s = "failed" /\ v = "clamav"
            /\ \E x \in results : x.file = f /\ x.cause # "content"
  BY DEF PipelineInv, Sound, Verdicts

\* End to end: only a file whose content both validators pass is ever in the
\* validated bucket, through every crash, redelivery, lost answer and failed
\* scan (processMessage of both validators to handleCompleteValidation).
THEOREM ReleaseOfGoodFiles == Spec => []ReleasedOnlyIfGood
  <1>1. PipelineInv => ReleasedOnlyIfGood
    <2> SUFFICES ASSUME PipelineInv, NEW f \in Files, "validated" \in location[f],
                        NEW v \in Validators
                 PROVE  f \in Good[v]
      BY DEF ReleasedOnlyIfGood
    <2>1. <<f, v, "passed">> \in Verdicts
      BY DEF PipelineInv, Moved, Disposition!Passed, Disposition!Validators, Validators
    <2> QED BY <2>1, VerdictMeaning DEF Verdict
  <1> QED BY <1>1, PipelineInvariant, PTL

\* No crash between check, publish and ack loses a verdict (startPolling).
THEOREM SettlementIsReported == Spec => []SettledOnlyIfReported
  <1>1. PipelineInv => SettledOnlyIfReported
    BY DEF PipelineInv, Reported
  <1> QED BY <1>1, PipelineInvariant, PTL

\* Two different verdicts of one validator mean that a scan failed
\* (clamav-scanner processMessage publishes "failed" for an error).
THEOREM ContradictionNeedsError == Spec => []ContradictsOnlyOnError
  <1>1. PipelineInv => ContradictsOnlyOnError
    <2> SUFFICES ASSUME PipelineInv, NEW f \in Files, NEW v \in Validators,
                        \A s \in Statuses : <<f, v, s>> \in Verdicts
                 PROVE  v = "clamav" /\ \E x \in results : x.file = f /\ x.cause = "error"
      BY DEF ContradictsOnlyOnError
    <2>1. \A x \in results : x.cause \in {"content", "error"}
      BY DEF PipelineInv, TypeInv, TypeOK, Results
    <2> QED BY <2>1, VerdictMeaning DEF Statuses, Verdict
  <1> QED BY <1>1, PipelineInvariant, PTL

\* Nothing leaves quarantine before the whole object is stored and both
\* validators were asked (completeUpload, handleCompleteValidation).
THEOREM MovesAreAskedFor == Spec => []MovedOnlyIfAsked
  <1>1. PipelineInv => MovedOnlyIfAsked
    <2> SUFFICES ASSUME PipelineInv, NEW f \in Files, location[f] # {"quarantined"}
                 PROVE  stored[f] /\ \A v \in Validators : task[f][v] # "none"
      BY DEF MovedOnlyIfAsked
    <2>1. \A v \in Validators : task[f][v] # "none"
      <3>1. \A v \in Validators : \E s : <<f, v, s>> \in Verdicts
        BY DEF PipelineInv, Moved, Disposition!Judged, Disposition!Validators, Validators
      <3> QED BY <3>1 DEF PipelineInv, ReportsOnTask, Verdicts
    <2> QED BY <2>1 DEF PipelineInv, TypeInv, StoredFirst, Validators
  <1> QED BY <1>1, PipelineInvariant, PTL

----------------------------------------------------------------------------
(* Without a failed check or publish, the content alone decides.            *)

\* What leaves quarantine does not come back.
LEMMA QuarantineOnce ==
  ASSUME TypeInv, [Next]_vars, NEW f \in Files, "quarantined" \in location'[f]
  PROVE  "quarantined" \in location[f]
  <1>1. ASSUME NEW g \in Files, Transfer(g) PROVE "quarantined" \in location[f]
    <2>1. \/ UNCHANGED location
          \/ location' = [location EXCEPT ![g] = @ \cup {"validated"}]
          \/ location' = [location EXCEPT ![g] = @ \cup {"flagged"}]
          \/ location' = [location EXCEPT ![g] = @ \ {"quarantined"}]
      BY <1>1, TransferSteps
    <2>2. location \in [Files -> SUBSET Buckets]
      BY DEF TypeInv, TypeOK
    <2>3. ASSUME NEW S, location' = [location EXCEPT ![g] = S],
                 "quarantined" \in S => "quarantined" \in location[g]
          PROVE  "quarantined" \in location[f]
      <3>1. CASE f = g
        BY <2>2, <2>3, <3>1
      <3>2. CASE f # g
        BY <2>2, <2>3, <3>2
      <3> QED BY <3>1, <3>2
    <2> QED BY <2>1, <2>3
  <1> QED BY <1>1, OnlyTransferMoves DEF transfer

\* The environment fails no download, scan or publish.  Crashes, redelivery and
\* slow checks remain.
ChecksSucceed == FaultKinds \cap {"check", "nats"} = {}

\* A scan fails then only because the file is gone, hence judged by its content.
LateErrors ==
  /\ \A r \in Replicas : pc[r]["clamav"] = "report" =>
       "quarantined" \notin location[work[r]["clamav"]]
  /\ \A x \in results : x.cause = "error" => "quarantined" \notin location[x.file]

LEMMA LateErrorsNext ==
  ASSUME ChecksSucceed, TypeInv, Sound, LateErrors, [Next]_vars
  PROVE  LateErrors'
  <1>1. ASSUME NEW r \in Replicas, pc'[r]["clamav"] = "report"
        PROVE  "quarantined" \notin location'[work'[r]["clamav"]]
    <2>1. work[r]["clamav"] \in Files
      BY DEF TypeInv, TypeOK, Validators
    <2>2. ASSUME CheckFails(r, "clamav")
          PROVE  "quarantined" \notin location[work[r]["clamav"]]
      BY <2>2 DEF CheckFails, Fault, ChecksSucceed
    <2>3. ~PublishFails(r, "clamav")
      BY DEF PublishFails, Fault, ChecksSucceed
    <2>4. /\ work'[r]["clamav"] = work[r]["clamav"]
          /\ "quarantined" \notin location[work[r]["clamav"]]
      BY <1>1, <2>2, <2>3, PollerSteps DEF LateErrors, Validators
    <2> QED BY <2>1, <2>4, QuarantineOnce
  <1>2. ASSUME NEW x \in results', x.cause = "error"
        PROVE  "quarantined" \notin location'[x.file]
    <2>1. CASE x \in results
      <3>1. x.file \in Files
        BY <2>1 DEF TypeInv, TypeOK, Results
      <3> QED BY <1>2, <2>1, <3>1, QuarantineOnce DEF LateErrors
    <2>2. ASSUME x \notin results, NEW r \in Replicas, NEW v \in Validators, Publishes(r, v),
                 UNCHANGED location
          PROVE  "quarantined" \notin location'[x.file]
      <3>1. pc[r][v] = "report" /\ x.file = work[r][v]
        BY <1>2, <2>2 DEF Publishes, Report
      <3>2. v = "clamav"
        BY <3>1 DEF Sound, Validators
      <3> QED BY <2>2, <3>1, <3>2 DEF LateErrors
    <2> QED BY <1>2, <2>1, <2>2, ResultSteps
  <1> QED BY <1>1, <1>2 DEF LateErrors

LEMMA RejectedNext ==
  ASSUME PipelineInv, LateErrors, RejectedOnlyIfBad, [Next]_vars
  PROVE  RejectedOnlyIfBad'
  <1> SUFFICES ASSUME NEW f \in Files, "flagged" \in location'[f], "flagged" \notin location[f]
               PROVE  \E v \in Validators : f \notin Good[v]
    BY DEF RejectedOnlyIfBad
  <1>1. "quarantined" \in location[f] /\ \E v \in Validators : <<f, v, "failed">> \in Verdicts
    <2>1. PICK g \in Files : Transfer(g)
      BY OnlyTransferMoves DEF transfer
    <2>2. CASE Disposition!Flag(g)
      BY <2>2 DEF Disposition!Flag, Disposition!CopyTo, Disposition!Failed, Disposition!Validators,
                  Validators, PipelineInv, TypeInv, TypeOK
    <2>3. CASE Disposition!Release(g)
      BY <2>3 DEF Disposition!Release, Disposition!CopyTo, PipelineInv, TypeInv, TypeOK
    <2>4. CASE Disposition!Remove(g)
      BY <2>4 DEF Disposition!Remove, PipelineInv, TypeInv, TypeOK
    <2>5. ASSUME NEW e \in Events, Disposition!Announce(g, e) PROVE FALSE
      BY <2>5 DEF Disposition!Announce
    <2> QED BY <2>1, <2>2, <2>3, <2>4, <2>5 DEF Transfer
  <1>2. PICK v \in Validators : <<f, v, "failed">> \in Verdicts
    BY <1>1
  <1>3. PICK x \in results : x.file = f /\ x.validator = v /\ x.status = "failed"
    BY <1>2 DEF Verdicts
  <1>4. x.cause = "content"
    BY <1>1, <1>3 DEF LateErrors, PipelineInv, TypeInv, TypeOK, Results
  <1>5. Verdict(f, v) = "failed"
    BY <1>3, <1>4 DEF PipelineInv, Sound
  <1> QED BY <1>5 DEF Verdict

\* Only what a validator found in its content brings a file into the flagged
\* bucket, unless a download, a scan or a publish failed: crashes, redelivery,
\* slow scans and lost acks do no harm.  (For a failed scan the clamav-scanner
\* publishes "failed" and has the task redelivered; a run shows what follows.)
THEOREM RejectionNeedsError == ChecksSucceed => (Spec => []RejectedOnlyIfBad)
  <1> SUFFICES ASSUME ChecksSucceed PROVE Spec => []RejectedOnlyIfBad
    OBVIOUS
  <1>1. Init => LateErrors /\ RejectedOnlyIfBad
    BY DEF Init, LateErrors, RejectedOnlyIfBad, Validators
  <1>2. PipelineInv /\ LateErrors /\ [Next]_vars => LateErrors'
    BY LateErrorsNext DEF PipelineInv
  <1>3. PipelineInv /\ LateErrors /\ RejectedOnlyIfBad /\ [Next]_vars => RejectedOnlyIfBad'
    BY RejectedNext
  <1> QED BY <1>1, <1>2, <1>3, PipelineInvariant, PTL DEF Spec

----------------------------------------------------------------------------
(* Deliveries and faults: each delivery of a task that did not settle it was *)
(* paid for by a fault, and one fault pays for one delivery only.            *)

\* The pollers that failed on the task, and have not had it redelivered yet.
Failing(f, v) == {r \in Replicas : work[r][v] = f /\ pc[r][v] \in {"report", "nak"}}
Held(f, v)    == \E r \in Replicas : Holds(r, v, f)

\* The two pollers of a replica go down and come up together.
WholeReplicas == \A r \in Replicas :
  (\E v \in Validators : pc[r][v] = "down") => \A v \in Validators : pc[r][v] = "down"

LEMMA WholeNext == TypeInv /\ WholeReplicas /\ [Next]_vars => WholeReplicas'
  <1> SUFFICES ASSUME TypeInv, WholeReplicas, [Next]_vars PROVE WholeReplicas'
    OBVIOUS
  <1>1. CASE UNCHANGED pc
    BY <1>1 DEF WholeReplicas
  <1>2. ASSUME NEW q \in Replicas, NEW s, pc' = [pc EXCEPT ![q] = [v \in Validators |-> s]]
        PROVE  WholeReplicas'
    BY <1>2 DEF WholeReplicas, TypeInv, TypeOK
  <1>3. ASSUME NEW q \in Replicas, NEW u \in Validators, NEW s \in Steps \ {"down"},
               pc[q][u] # "down", pc' = [pc EXCEPT ![q][u] = s]
        PROVE  WholeReplicas'
    BY <1>3 DEF WholeReplicas, TypeInv, TypeOK
  <1>4. ASSUME NEW f \in Files, Request(f) \/ RequestFails(f) \/ Transfer(f)
        PROVE  UNCHANGED pc
    BY <1>4 DEF Request, RequestFails, Transfer, Assemble, ReadMetadata, QueueSkipped, Queue,
       AssembleFails, ReadMetadataFails, QueueFails, pollers
  <1>5. ASSUME NEW f \in Files, NEW r \in Replicas, NEW v \in Validators,
               CompleteUpload(f, r) \/ AckWaitExpires(f, v)
        PROVE  UNCHANGED pc
    BY <1>5 DEF CompleteUpload, AckWaitExpires, pollers
  <1>6. ASSUME NEW r \in Replicas, Start(r) \/ StartOffline(r) \/ Crash(r)
        PROVE  WholeReplicas'
    BY <1>2, <1>6 DEF Start, StartOffline, Crash
  <1>7. ASSUME NEW r \in Replicas, NEW v \in Validators, NEW f \in Files,
               Process(r, v) \/ ProcessFails(r, v) \/ Fetch(r, v, f)
        PROVE  WholeReplicas'
    <2>1. \E s \in Steps \ {"down"} : pc[r][v] # "down" /\ pc' = [pc EXCEPT ![r][v] = s]
      BY <1>7 DEF Process, ProcessFails, Check, PublishResult, PublishError, Ack, Nak, CheckFails,
         CheckHangs, PublishFails, PublishErrorFails, SettlementLost, Fetch, At, Goto, Leave,
         OnError, Steps
    <2> QED BY <1>3, <2>1
  <1>8. Files # {} /\ Replicas # {} /\ Validators # {}
    BY FilesAssumption, ReplicasAssumption DEF Validators
  <1> QED BY <1>1, <1>4, <1>5, <1>6, <1>7, <1>8 DEF Next, vars, pollers

\* What a step may do to a task: leave it, at the price of a fault if its last
\* holder goes; ...
Kept(f, v) ==
  /\ task'[f][v] = task[f][v] /\ tries'[f][v] = tries[f][v]
  /\ Failing(f, v)' \subseteq Failing(f, v)
  /\ faults' \in {faults, faults + 1}
  /\ \/ Held(f, v) => Held(f, v)'
     \/ faults' = faults + 1
     \/ task[f][v] # "inflight"
\* ... fail on it, at the price of a fault; ...
FailedOn(f, v) ==
  /\ task'[f][v] = task[f][v] /\ tries'[f][v] = tries[f][v]
  /\ \E r \in Replicas : Failing(f, v)' = Failing(f, v) \cup {r}
  /\ faults' = faults + 1
  /\ Held(f, v) => Held(f, v)'
\* ... queue it, deliver it, settle it; ...
Queued(f, v) ==
  /\ task[f][v] = "none" /\ task'[f][v] = "ready" /\ tries'[f][v] = tries[f][v]
  /\ Failing(f, v)' \subseteq Failing(f, v) /\ faults' \in {faults, faults + 1}
Delivered(f, v) ==
  /\ task[f][v] = "ready" /\ task'[f][v] = "inflight" /\ tries'[f][v] = tries[f][v] + 1
  /\ Failing(f, v)' \subseteq Failing(f, v) /\ faults' = faults /\ Held(f, v)'
Acked(f, v) == task'[f][v] = "acked" /\ Failing(f, v)' \subseteq Failing(f, v)
\* ... or have it delivered again: nobody holds it, a fault happens, or one of
\* the pollers that failed on it has done so.
Again(f, v) ==
  /\ task[f][v] = "inflight" /\ task'[f][v] = Requeued(f, v) /\ tries'[f][v] = tries[f][v]
  /\ \/ ~Held(f, v) /\ faults' = faults /\ Failing(f, v)' = Failing(f, v)
     \/ faults' = faults + 1 /\ Failing(f, v)' = Failing(f, v)
     \/ faults' = faults /\ \E r \in Failing(f, v) : Failing(f, v)' = Failing(f, v) \ {r}

\* How often a task was delivered is paid for by faults, but for the delivery
\* that is at work.
Paid(f, v) == IF task[f][v] = "inflight" /\ Held(f, v) THEN faults + 1 ELSE faults
PaidFor(f, v) ==
  /\ IsFiniteSet(Failing(f, v))
  /\ task[f][v] # "acked" => tries[f][v] + Cardinality(Failing(f, v)) <= Paid(f, v)

LEMMA PaidNext ==
  ASSUME TypeInv, NEW f \in Files, NEW v \in Validators, PaidFor(f, v),
         tries'[f][v] \in Nat, faults' \in Nat,
         \/ Kept(f, v) \/ FailedOn(f, v) \/ Delivered(f, v) \/ Again(f, v)
         \/ Queued(f, v) \/ Acked(f, v)
  PROVE  PaidFor(f, v)'
  <1> DEFINE F == Failing(f, v)
             t == tries[f][v]
  <1>1. t \in Nat /\ faults \in Nat /\ IsFiniteSet(F) /\ Cardinality(F) \in Nat
    BY FS_CardinalityType, RetriesAssumption, BudgetAssumption DEF TypeInv, TypeOK, PaidFor
  <1>2. ASSUME F' \subseteq F
        PROVE  IsFiniteSet(F') /\ Cardinality(F') \in Nat /\ Cardinality(F') <= Cardinality(F)
    BY <1>1, <1>2, FS_Subset, FS_CardinalityType
  <1>3. ASSUME NEW r, F' = F \cup {r}
        PROVE  IsFiniteSet(F') /\ Cardinality(F') \in Nat /\ Cardinality(F') <= Cardinality(F) + 1
    <2>1. IsFiniteSet(F \cup {r}) /\ Cardinality(F \cup {r}) \in {Cardinality(F), Cardinality(F) + 1}
      BY <1>1, FS_AddElement
    <2> QED BY <1>1, <1>3, <2>1
  <1>4. ASSUME NEW r \in F, F' = F \ {r}
        PROVE  IsFiniteSet(F') /\ Cardinality(F') \in Nat /\ Cardinality(F') = Cardinality(F) - 1
    <2>1. IsFiniteSet(F \ {r}) /\ Cardinality(F \ {r}) = Cardinality(F) - 1
      BY <1>1, FS_RemoveElement
    <2> QED BY <1>4, <2>1, FS_CardinalityType
  <1> HIDE DEF F
  <1>5. task[f][v] # "acked" => t + Cardinality(F) <= Paid(f, v)
    BY DEF PaidFor, F
  <1>6. Requeued(f, v) \in {"ready", "exhausted"}
    BY RequeuedType
  <1> SUFFICES /\ IsFiniteSet(F')
               /\ task'[f][v] # "acked" => tries'[f][v] + Cardinality(F') <= Paid(f, v)'
    BY DEF PaidFor, F
  <1>7. CASE Kept(f, v)
    <2>1. F' \subseteq F
      BY <1>7 DEF Kept, F
    <2> QED BY <1>1, <1>2, <1>5, <1>7, <2>1 DEF Kept, Paid
  <1>8. CASE FailedOn(f, v)
    <2>1. PICK r \in Replicas : F' = F \cup {r}
      BY <1>8 DEF FailedOn, F
    <2>2. IsFiniteSet(F') /\ Cardinality(F') \in Nat /\ Cardinality(F') <= Cardinality(F) + 1
      BY <1>3, <2>1
    <2> QED BY <1>1, <1>5, <1>8, <2>2 DEF FailedOn, Paid
  <1>9. CASE Delivered(f, v)
    <2>1. F' \subseteq F
      BY <1>9 DEF Delivered, F
    <2> QED BY <1>1, <1>2, <1>5, <1>9, <2>1 DEF Delivered, Paid
  <1>10. CASE Queued(f, v)
    <2>1. F' \subseteq F
      BY <1>10 DEF Queued, F
    <2> QED BY <1>1, <1>2, <1>5, <1>10, <2>1 DEF Queued, Paid
  <1>11. CASE Acked(f, v)
    <2>1. F' \subseteq F
      BY <1>11 DEF Acked, F
    <2> QED BY <1>2, <1>11, <2>1 DEF Acked
  <1>12. CASE Again(f, v)
    <2>1. Paid(f, v)' = faults' /\ task[f][v] = "inflight" /\ tries'[f][v] = t
      BY <1>6, <1>12 DEF Again, Paid
    <2>2. CASE ~Held(f, v) /\ faults' = faults /\ F' = F
      BY <1>1, <1>5, <2>1, <2>2 DEF Paid
    <2>3. CASE faults' = faults + 1 /\ F' = F
      BY <1>1, <1>5, <2>1, <2>3 DEF Paid
    <2>4. CASE faults' = faults /\ \E r \in F : F' = F \ {r}
      <3>1. IsFiniteSet(F') /\ Cardinality(F') \in Nat /\ Cardinality(F') = Cardinality(F) - 1
        BY <1>4, <2>4
      <3> QED BY <1>1, <1>5, <2>1, <2>4, <3>1 DEF Paid
    <2> QED BY <1>12, <2>2, <2>3, <2>4 DEF Again, F
  <1> QED BY <1>7, <1>8, <1>9, <1>10, <1>11, <1>12

\* Of a file that is in quarantine, the task takes one of those steps.
LEMMA PayingSteps ==
  ASSUME TypeInv, WholeReplicas, [Next]_vars, NEW f \in Files, NEW v \in Validators,
         "quarantined" \in location[f]
  PROVE  \/ Kept(f, v) \/ FailedOn(f, v) \/ Delivered(f, v) \/ Again(f, v)
         \/ Queued(f, v) \/ Acked(f, v)
  <1> DEFINE Goal == \/ Kept(f, v) \/ FailedOn(f, v) \/ Delivered(f, v) \/ Again(f, v)
                     \/ Queued(f, v) \/ Acked(f, v)
  <1> USE DEF TypeInv, TypeOK, upload, stream, pollers, transfer, NoFault, Fault,
              Failing, Held, Holds
  <1>1. ASSUME UNCHANGED <<task, tries, pc, work>>, faults' \in {faults, faults + 1} PROVE Goal
    BY <1>1 DEF Kept
  <1>2. ASSUME NEW g \in Files, NEW u \in Validators, Queue(g, u) \/ QueueFails(g, u)
        PROVE  Goal
    <2>1. /\ UNCHANGED <<tries, pc, work>> /\ faults' \in {faults, faults + 1}
          /\ UNCHANGED task \/ task' = [task EXCEPT ![g][u] = "ready"]
          /\ request[g] = u
      BY <1>2 DEF Queue, QueueFails, QueueTask
    <2>2. task[g][u] = "none"
      BY <2>1 DEF QueuesOnce, Validators
    <2>3. CASE UNCHANGED task
      BY <1>1, <2>1, <2>3
    <2>4. CASE g = f /\ u = v /\ task' = [task EXCEPT ![g][u] = "ready"]
      BY <2>1, <2>2, <2>4 DEF Queued
    <2>5. CASE ~(g = f /\ u = v) /\ task' = [task EXCEPT ![g][u] = "ready"]
      BY <2>1, <2>5 DEF Kept
    <2> QED BY <2>1, <2>3, <2>4, <2>5
  <1>3. ASSUME NEW g \in Files, NEW u \in Validators, AckWaitExpires(g, u) PROVE Goal
    <2>1. CASE g = f /\ u = v
      BY <1>3, <2>1 DEF AckWaitExpires, Again
    <2>2. CASE ~(g = f /\ u = v)
      BY <1>3, <2>2 DEF AckWaitExpires, Kept
    <2> QED BY <2>1, <2>2
  <1>4. ASSUME NEW q \in Replicas, Start(q) \/ StartOffline(q) PROVE Goal
    <2>1. pc[q][v] = "down"
      BY <1>4 DEF Start, StartOffline, Up, WholeReplicas
    <2>2. /\ UNCHANGED <<task, tries, work>> /\ faults' \in {faults, faults + 1}
          /\ pc'[q][v] \in {"idle", "off"} /\ \A r \in Replicas \ {q} : pc'[r] = pc[r]
      BY <1>4 DEF Start, StartOffline
    <2> QED BY <2>1, <2>2 DEF Kept
  <1>5. ASSUME NEW q \in Replicas, Crash(q) PROVE Goal
    <2>1. /\ UNCHANGED <<task, tries>> /\ faults' = faults + 1
          /\ pc'[q][v] = "down"
          /\ \A r \in Replicas \ {q} : pc'[r] = pc[r] /\ work'[r] = work[r]
      BY <1>5 DEF Crash
    <2> QED BY <2>1 DEF Kept
  <1>6. ASSUME NEW q \in Replicas, NEW u \in Validators, ~(u = v /\ work[q][u] = f),
               \/ CheckFails(q, u) \/ CheckHangs(q, u) \/ PublishFails(q, u)
               \/ Ack(q, u) \/ Nak(q, u) \/ SettlementLost(q, u)
        PROVE  Goal
    <2>1. /\ tries' = tries /\ faults' \in {faults, faults + 1} /\ task'[f][v] = task[f][v]
          /\ pc[q][u] \notin {"down", "off", "idle", "hung"}
      <3>1. CASE CheckFails(q, u) \/ CheckHangs(q, u) \/ PublishFails(q, u) \/ SettlementLost(q, u)
        BY <3>1 DEF CheckFails, CheckHangs, PublishFails, SettlementLost, At
      <3>2. CASE Ack(q, u)
        BY <1>6, <3>2 DEF Ack, At
      <3>3. CASE Nak(q, u)
        BY <1>6, <3>3 DEF Nak, At
      <3> QED BY <1>6, <3>1, <3>2, <3>3
    <2>2. /\ u = v => (pc'[q][v] \in {"idle", "hung"} \/ work'[q][v] # f)
          /\ \A r \in Replicas : r # q \/ u # v =>
               pc'[r][v] = pc[r][v] /\ work'[r][v] = work[r][v]
      BY <1>6 DEF CheckFails, CheckHangs, PublishFails, Ack, Nak, SettlementLost, Goto, Leave
    <2>3. u = v => work[q][v] # f
      BY <1>6
    <2>4. \A r \in Replicas : (work'[r][v] = f /\ pc'[r][v] \notin {"down", "off", "idle", "hung"}) =>
            work'[r][v] = work[r][v] /\ pc'[r][v] = pc[r][v]
      BY <2>2
    <2>5. \A r \in Replicas : (work[r][v] = f /\ pc[r][v] \notin {"down", "off", "idle", "hung"}) =>
            work'[r][v] = work[r][v] /\ pc'[r][v] = pc[r][v]
      BY <2>2, <2>3
    <2> QED BY <2>1, <2>4, <2>5 DEF Kept
  <1>7. ASSUME NEW q \in Replicas, work[q][v] = f, CheckFails(q, v) \/ PublishFails(q, v)
        PROVE  Goal
    <2>1. /\ UNCHANGED <<task, tries, work>> /\ faults' = faults + 1
          /\ pc[q][v] \in {"check", "publish"}
          /\ pc'[q][v] \in {"report", "nak"}
          /\ \A r \in Replicas \ {q} : pc'[r] = pc[r]
      BY <1>7 DEF CheckFails, PublishFails, At, Goto, OnError
    <2>2. Failing(f, v)' = Failing(f, v) \cup {q}
      BY <1>7, <2>1
    <2>3. Held(f, v)'
      BY <1>7, <2>1
    <2> QED BY <2>1, <2>2, <2>3 DEF FailedOn
  <1>8. ASSUME NEW q \in Replicas, NEW u \in Validators,
               \/ Check(q, u) \/ PublishResult(q, u) \/ PublishError(q, u)
               \/ PublishErrorFails(q, u)
        PROVE  Goal
    <2>1. /\ UNCHANGED <<task, tries, work>> /\ faults' \in {faults, faults + 1}
          /\ \/ pc[q][u] = "check" /\ pc' = [pc EXCEPT ![q][u] = "publish"]
             \/ pc[q][u] = "publish" /\ pc' = [pc EXCEPT ![q][u] = "ack"]
             \/ pc[q][u] = "report" /\ pc' = [pc EXCEPT ![q][u] = "nak"]
      BY <1>8 DEF Check, PublishResult, PublishError, PublishErrorFails, At, Goto
    <2>2. \A r \in Replicas :
            /\ pc'[r][v] \in {"report", "nak"} <=> pc[r][v] \in {"report", "nak"}
            /\ pc'[r][v] \in {"down", "off", "idle", "hung"} <=>
                 pc[r][v] \in {"down", "off", "idle", "hung"}
      <3> SUFFICES ASSUME NEW r \in Replicas
                   PROVE  /\ pc'[r][v] \in {"report", "nak"} <=> pc[r][v] \in {"report", "nak"}
                          /\ pc'[r][v] \in {"down", "off", "idle", "hung"} <=>
                               pc[r][v] \in {"down", "off", "idle", "hung"}
        OBVIOUS
      <3>1. CASE r = q /\ v = u
        BY <2>1, <3>1
      <3>2. CASE ~(r = q /\ v = u)
        BY <2>1, <3>2
      <3> QED BY <3>1, <3>2
    <2>3. Failing(f, v)' = Failing(f, v) /\ (Held(f, v) => Held(f, v)')
      BY <2>1, <2>2
    <2> QED BY <2>1, <2>3 DEF Kept
  <1>9. ASSUME NEW q \in Replicas, work[q][v] = f,
               \/ Ack(q, v) \/ Nak(q, v) \/ SettlementLost(q, v) \/ CheckHangs(q, v)
        PROVE  Goal
    <2>1. /\ UNCHANGED tries /\ pc'[q][v] \in {"idle", "hung"}
          /\ \A r \in Replicas : r # q => pc'[r][v] = pc[r][v] /\ work'[r][v] = work[r][v]
      BY <1>9 DEF Ack, Nak, SettlementLost, CheckHangs, Leave, Goto
    <2>2. Failing(f, v)' = Failing(f, v) \ {q}
      BY <2>1
    <2>3. CASE Ack(q, v)
      BY <1>9, <2>2, <2>3 DEF Ack, Acked
    <2>4. CASE Nak(q, v) /\ task[f][v] = "inflight"
      <3>1. q \in Failing(f, v) /\ faults' = faults /\ task'[f][v] = Requeued(f, v)
        BY <1>9, <2>4 DEF Nak, At
      <3> QED BY <2>1, <2>2, <2>4, <3>1 DEF Again
    <2>5. CASE Nak(q, v) /\ task[f][v] # "inflight"
      BY <1>9, <2>1, <2>2, <2>5 DEF Nak, Kept
    <2>6. CASE SettlementLost(q, v) \/ CheckHangs(q, v)
      BY <2>1, <2>2, <2>6 DEF SettlementLost, CheckHangs, Kept
    <2> QED BY <1>9, <2>3, <2>4, <2>5, <2>6
  <1>10. ASSUME NEW q \in Replicas, NEW u \in Validators, NEW g \in Files, Fetch(q, u, g)
         PROVE  Goal
    <2>1. /\ pc[q][u] = "idle" /\ pc' = [pc EXCEPT ![q][u] = "check"] /\ faults' = faults
          /\ work' = [work EXCEPT ![q][u] = g] /\ task[g][u] = "ready"
          /\ task' = [task EXCEPT ![g][u] = "inflight"]
          /\ tries' = [tries EXCEPT ![g][u] = @ + 1]
      BY <1>10 DEF Fetch, At, Goto
    <2>2. Failing(f, v)' \subseteq Failing(f, v) /\ (Held(f, v) => Held(f, v)')
      BY <2>1
    <2>3. CASE g = f /\ u = v
      <3>1. Held(f, v)'
        BY <2>1, <2>3
      <3> QED BY <2>1, <2>2, <2>3, <3>1 DEF Delivered
    <2>4. CASE ~(g = f /\ u = v)
      BY <2>1, <2>2, <2>4 DEF Kept
    <2> QED BY <2>3, <2>4
  <1>11. ASSUME NEW g \in Files, Request(g) \/ RequestFails(g) \/ Transfer(g) PROVE Goal
    <2>1. \/ UNCHANGED <<task, tries, pc, work>> /\ faults' \in {faults, faults + 1}
          \/ \E u \in Validators : Queue(g, u) \/ QueueFails(g, u)
      BY <1>11 DEF Request, RequestFails, Transfer, Assemble, ReadMetadata, QueueSkipped,
         AssembleFails, ReadMetadataFails
    <2> HIDE DEF Goal
    <2> QED BY <1>1, <1>2, <2>1
  <1>12. ASSUME NEW g \in Files, NEW q \in Replicas, CompleteUpload(g, q) PROVE Goal
    BY <1>1, <1>12 DEF CompleteUpload
  <1>13. CASE UNCHANGED vars
    BY <1>1, <1>13 DEF vars
  <1> HIDE DEF Goal, TypeInv, TypeOK, upload, stream, pollers, transfer, NoFault, Fault,
               Failing, Held, Holds
  <1>14. ASSUME NEW q \in Replicas, NEW u \in Validators, Process(q, u) \/ ProcessFails(q, u)
         PROVE  Goal
    <2>1. CASE u = v /\ work[q][u] = f
      BY <1>7, <1>8, <1>9, <1>14, <2>1 DEF Process, ProcessFails
    <2>2. CASE ~(u = v /\ work[q][u] = f)
      BY <1>6, <1>8, <1>14, <2>2 DEF Process, ProcessFails
    <2> QED BY <2>1, <2>2
  <1>15. ASSUME NEW q \in Replicas, NEW u \in Validators,
                Process(q, u) \/ ProcessFails(q, u) \/ \E g \in Files : Fetch(q, u, g)
         PROVE  Goal
    BY <1>10, <1>14, <1>15
  <1>16. ASSUME NEW q \in Replicas, Start(q) \/ StartOffline(q) \/ Crash(q) PROVE Goal
    BY <1>4, <1>5, <1>16
  <1>17. ASSUME Next PROVE Goal
    <2>1. CASE \E g \in Files, q \in Replicas : CompleteUpload(g, q)
      BY <1>12, <2>1
    <2>2. CASE \E g \in Files : Request(g) \/ RequestFails(g) \/ Transfer(g)
      BY <1>11, <2>2
    <2>3. CASE \E g \in Files, u \in Validators : AckWaitExpires(g, u)
      BY <1>3, <2>3
    <2>4. CASE \E q \in Replicas : Start(q) \/ StartOffline(q) \/ Crash(q)
      BY <1>16, <2>4
    <2>5. CASE \E q \in Replicas, u \in Validators :
                 Process(q, u) \/ ProcessFails(q, u) \/ \E g \in Files : Fetch(q, u, g)
      BY <1>15, <2>5
    <2> QED BY <1>17, <2>1, <2>2, <2>3, <2>4, <2>5, Zenon DEF Next
  <1> QED BY <1>13, <1>17 DEF Goal

DeliveriesPaid == \A f \in Files, v \in Validators : "quarantined" \in location[f] =>
  /\ PaidFor(f, v)
  /\ task[f][v] = "exhausted" => tries[f][v] >= MaxDeliver

LEMMA DeliveriesPaidNext ==
  ASSUME TypeInv, WholeReplicas, DeliveriesPaid, [Next]_vars
  PROVE  DeliveriesPaid'
  <1> SUFFICES ASSUME NEW f \in Files, NEW v \in Validators, "quarantined" \in location'[f]
               PROVE  /\ PaidFor(f, v)'
                      /\ task'[f][v] = "exhausted" => tries'[f][v] >= MaxDeliver
    BY DEF DeliveriesPaid
  <1>1. /\ tries[f][v] \in Nat /\ tries'[f][v] \in Nat /\ faults' \in Nat
        /\ MaxDeliver \in Nat
    BY TypeNext, RetriesAssumption, BudgetAssumption DEF TypeInv, TypeOK
  <1>2. "quarantined" \in location[f]
    BY QuarantineOnce
  <1>3. PaidFor(f, v) /\ (task[f][v] = "exhausted" => tries[f][v] >= MaxDeliver)
    BY <1>2 DEF DeliveriesPaid
  <1>4. \/ Kept(f, v) \/ FailedOn(f, v) \/ Delivered(f, v) \/ Again(f, v)
        \/ Queued(f, v) \/ Acked(f, v)
    BY <1>2, PayingSteps
  <1>5. PaidFor(f, v)'
    BY <1>1, <1>3, <1>4, PaidNext
  <1>6. task'[f][v] = "exhausted" => tries'[f][v] >= MaxDeliver
    BY <1>1, <1>3, <1>4 DEF Kept, FailedOn, Delivered, Again, Queued, Acked, Requeued
  <1> QED BY <1>5, <1>6

LEMMA DeliveriesPaidInit == Init => WholeReplicas /\ DeliveriesPaid
  <1> SUFFICES ASSUME Init PROVE WholeReplicas /\ DeliveriesPaid
    OBVIOUS
  <1>1. WholeReplicas
    BY DEF Init, WholeReplicas
  <1>2. ASSUME NEW f \in Files, NEW v \in Validators
        PROVE  Failing(f, v) = {} /\ task[f][v] = "none" /\ tries[f][v] = 0 /\ faults = 0
    BY DEF Init, Failing
  <1>3. \A f \in Files, v \in Validators : PaidFor(f, v)
    BY <1>2, FS_EmptySet DEF PaidFor, Paid
  <1> QED BY <1>1, <1>2, <1>3 DEF DeliveriesPaid

\* Of a task that the stream has given up, all its deliveries used.
LostOnlyOnFaults == \A f \in Files, v \in Validators :
  task[f][v] = "exhausted" =>
    faults >= MaxDeliver \/ \E s \in Statuses : <<f, v, s>> \in Verdicts

\* No task is dropped unjudged before as many faults have happened as there are
\* deliveries (max_deliver of both consumers): redelivery, two replicas on one
\* task, late naks and restarts never use up a delivery of their own.  It is the
\* safety part of QueuedIsJudged, and why that property asks for fewer faults.
THEOREM DroppedTasksNeedFaults == Spec => []LostOnlyOnFaults
  <1>1. TypeInv /\ WholeReplicas /\ [Next]_vars => WholeReplicas'
    BY WholeNext
  <1>2. TypeInv /\ WholeReplicas /\ DeliveriesPaid /\ [Next]_vars => DeliveriesPaid'
    BY DeliveriesPaidNext
  <1>3. PipelineInv /\ DeliveriesPaid => LostOnlyOnFaults
    <2> SUFFICES ASSUME PipelineInv, DeliveriesPaid, NEW f \in Files, NEW v \in Validators,
                        task[f][v] = "exhausted"
                 PROVE  faults >= MaxDeliver \/ \E s \in Statuses : <<f, v, s>> \in Verdicts
      BY DEF LostOnlyOnFaults
    <2>1. CASE "quarantined" \in location[f]
      <3>1. PaidFor(f, v) /\ tries[f][v] >= MaxDeliver
        BY <2>1 DEF DeliveriesPaid
      <3>2. Cardinality(Failing(f, v)) \in Nat /\ tries[f][v] \in Nat /\ faults \in Nat
        BY <3>1, FS_CardinalityType, RetriesAssumption, BudgetAssumption
        DEF PaidFor, PipelineInv, TypeInv, TypeOK
      <3> QED BY <3>1, <3>2, RetriesAssumption DEF PaidFor, Paid
    <2>2. CASE "quarantined" \notin location[f]
      BY <2>2 DEF PipelineInv, Moved, Disposition!Judged, Disposition!Validators,
                  Disposition!Statuses, Validators, Statuses
    <2> QED BY <2>1, <2>2
  <1> QED BY <1>1, <1>2, <1>3, TypeInvariant, PipelineInvariant, DeliveriesPaidInit, PTL DEF Spec
=============================================================================
