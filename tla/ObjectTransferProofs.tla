------------------------ MODULE ObjectTransferProofs -------------------------
(***************************************************************************)
(* Proofs about ObjectTransfer for any number of replicas, files and       *)
(* messages, any max_deliver and any number of faults.                     *)
(***************************************************************************)
EXTENDS ObjectTransfer, FiniteSetTheorems, TLAPS

LEMMA JobType == NoJob \in Messages
  BY MessagesAssumption DEF NoJob

\* What a message and the aggregation of two results consist of.
LEMMA MessageType ==
  ASSUME NEW m \in Messages
  PROVE  /\ m.file \in Files
         /\ m.validator \in Validators
         /\ m.status \in Statuses
  BY MessagesAssumption

LEMMA OtherType ==
  ASSUME NEW v \in Validators
  PROVE  Other(v) \in Validators /\ Other(v) # v /\ Validators = {v, Other(v)}
  BY DEF Other, Validators

LEMMA RouteType ==
  ASSUME NEW w
  PROVE  /\ Route(w) \in {"validated", "flagged", "deleted"}
         /\ FirstStep(w) \in {"copy", "notify"}
         /\ AfterCopy(w) \in {"delete", "notify"}
         /\ AfterNotify(w) \in {"delete", "cleanup"}
         /\ AfterDelete(w) \in {"notify", "cleanup"}
         /\ Destination(w) \in {"validated", "flagged"}
         /\ EventOf(Route(w)) \in Events
  BY DEF Route, FirstStep, AfterCopy, AfterNotify, AfterDelete, EventOf, Events,
      Destination

LEMMA FaultType ==
  ASSUME NEW kind, faults \in 0..MaxFaults, Fault(kind)
  PROVE  faults' \in 0..MaxFaults
  BY FaultsAssumption DEF Fault

LEMMA RequeuedType ==
  ASSUME NEW m
  PROVE  Requeued(m) \in {"ready", "exhausted"}
  BY DEF Requeued

----------------------------------------------------------------------------
(* Type correctness.  Besides the types, a delivery is counted at most     *)
(* MaxDeliver times: "ready" messages have a delivery left.                *)

Countable == \A m \in Messages :
  /\ delivery[m] \in {"unsent", "ready"} => count[m] < MaxDeliver
  /\ delivery[m] = "unsent" => count[m] = 0

TypeInv == TypeOK /\ Countable

LEMMA TypeInit == Init => TypeInv
  <1> SUFFICES ASSUME Init PROVE TypeInv
    OBVIOUS
  <1>1. TypeOK
    BY JobType, DeliverAssumption, FaultsAssumption
    DEF Init, TypeOK, DeliveryStates, Entries, Steps, Statuses, Validators, Events,
        Buckets
  <1>2. Countable
    BY DeliverAssumption DEF Init, Countable
  <1> QED BY <1>1, <1>2 DEF TypeInv
LEMMA TypeNext == TypeInv /\ [Next]_vars => TypeInv'
  <1> SUFFICES ASSUME TypeInv, [Next]_vars PROVE TypeInv'
    OBVIOUS
  <1> USE DEF TypeInv, TypeOK, Countable, DeliveryStates, Entries, Steps, stream, worker,
              Goto, Leave, At, NoFault
  <1>1. ASSUME NEW m \in Messages, Publish(m) PROVE TypeInv'
    BY <1>1 DEF Publish
  <1>2. ASSUME NEW m \in Messages, AckWaitExpires(m) PROVE TypeInv'
    BY <1>2, FaultType, RequeuedType DEF AckWaitExpires, Requeued
  <1>3. ASSUME NEW w \in Workers, NEW m \in Messages, Fetch(w, m) PROVE TypeInv'
    <2>1. count[m] \in Nat /\ count[m] < MaxDeliver
      BY <1>3 DEF Fetch
    <2>2. count' \in [Messages -> 0..MaxDeliver]
      BY <2>1, <1>3, DeliverAssumption DEF Fetch
    <2>3. delivery' \in [Messages -> DeliveryStates] /\ Countable'
      BY <1>3 DEF Fetch
    <2>4. job' \in [Workers -> Messages] /\ pc' \in [Workers -> Steps]
      BY <1>3 DEF Fetch
    <2> QED BY <2>2, <2>3, <2>4, <1>3 DEF Fetch
  <1>4. ASSUME NEW w \in Workers, Start(w) PROVE TypeInv'
    BY <1>4 DEF Start
  <1>5. ASSUME NEW w \in Workers, KvPut(w) PROVE TypeInv'
    BY <1>5, MessageType DEF KvPut, Put, FileOf, ValidatorOf
  <1>6. ASSUME NEW w \in Workers, KvGet(w) PROVE TypeInv'
    BY <1>6 DEF KvGet
  <1>7. ASSUME NEW w \in Workers, Stat(w) PROVE TypeInv'
    BY <1>7, RouteType DEF Stat
  <1>8. ASSUME NEW w \in Workers, Copy(w) PROVE TypeInv'
    BY <1>8, RouteType, MessageType DEF Copy, CopyObject, FileOf, Buckets
  <1>9. ASSUME NEW w \in Workers, CopySourceMissing(w) PROVE TypeInv'
    BY <1>9 DEF CopySourceMissing
  <1>10. ASSUME NEW w \in Workers, Delete(w) PROVE TypeInv'
    BY <1>10, RouteType, MessageType DEF Delete, RemoveObject, FileOf, Buckets
  <1>11. ASSUME NEW w \in Workers, Notify(w) PROVE TypeInv'
    BY <1>11, RouteType, MessageType DEF Notify, FileOf
  <1>12. ASSUME NEW w \in Workers, Cleanup(w) PROVE TypeInv'
    BY <1>12, MessageType DEF Cleanup, FileOf
  <1>13. ASSUME NEW w \in Workers, CleanupDone(w) PROVE TypeInv'
    BY <1>13 DEF CleanupDone
  <1>14. ASSUME NEW w \in Workers, Ack(w) PROVE TypeInv'
    BY <1>14, JobType DEF Ack, Statuses
  <1>15. ASSUME NEW w \in Workers, Nak(w) PROVE TypeInv'
    BY <1>15, JobType, RequeuedType DEF Nak, Statuses, Requeued
  <1>16. ASSUME NEW w \in Workers, StartWithoutKv(w) PROVE TypeInv'
    BY <1>16, FaultType DEF StartWithoutKv
  <1>17. ASSUME NEW w \in Workers, StartOffline(w) PROVE TypeInv'
    BY <1>17, FaultType DEF StartOffline
  <1>18. ASSUME NEW w \in Workers, Crash(w) PROVE TypeInv'
    BY <1>18, FaultType, JobType DEF Crash, Statuses
  <1>19. ASSUME NEW w \in Workers, KvPutFails(w) PROVE TypeInv'
    <2>1. faults' \in 0..MaxFaults
      BY <1>19, FaultType DEF KvPutFails
    <2>2. kv' \in [Files -> [Validators -> Entries]]
      <3>1. CASE UNCHANGED kv
        BY <3>1
      <3>2. CASE Put(w)
        BY <3>2, MessageType DEF Put, FileOf, ValidatorOf
      <3> QED BY <1>19, <3>1, <3>2 DEF KvPutFails
    <2> QED BY <1>19, <2>1, <2>2 DEF KvPutFails
  <1>20. ASSUME NEW w \in Workers, KvGetFails(w) PROVE TypeInv'
    BY <1>20, FaultType DEF KvGetFails
  <1>21. ASSUME NEW w \in Workers, StatFails(w) PROVE TypeInv'
    BY <1>21, FaultType DEF StatFails
  <1>22. ASSUME NEW w \in Workers, CopyFails(w) PROVE TypeInv'
    <2>1. faults' \in 0..MaxFaults
      BY <1>22, FaultType DEF CopyFails
    <2>2. location' \in [Files -> SUBSET Buckets]
      <3>1. CASE UNCHANGED location
        BY <3>1
      <3>2. CASE CopyObject(w)
        BY <3>2, RouteType, MessageType DEF CopyObject, FileOf, Buckets
      <3> QED BY <1>22, <3>1, <3>2 DEF CopyFails
    <2> QED BY <1>22, <2>1, <2>2 DEF CopyFails
  <1>23. ASSUME NEW w \in Workers, DeleteFails(w) PROVE TypeInv'
    <2>1. faults' \in 0..MaxFaults
      BY <1>23, FaultType DEF DeleteFails
    <2>2. location' \in [Files -> SUBSET Buckets]
      <3>1. CASE UNCHANGED location
        BY <3>1
      <3>2. CASE RemoveObject(w)
        BY <3>2, MessageType DEF RemoveObject, FileOf, Buckets
      <3> QED BY <1>23, <3>1, <3>2 DEF DeleteFails
    <2> QED BY <1>23, <2>1, <2>2 DEF DeleteFails
  <1>24. ASSUME NEW w \in Workers, SettlementLost(w) PROVE TypeInv'
    BY <1>24, FaultType, JobType DEF SettlementLost, Statuses
  <1>25. ASSUME NEW w \in Workers, NEW f \in Files, NEW v \in Validators, KvDelete(w, f, v) PROVE TypeInv'
    BY <1>25 DEF KvDelete
  <1>26. ASSUME NEW w \in Workers, NEW f \in Files, NEW v \in Validators, KvDeleteFails(w, f, v) PROVE TypeInv'
    <2>1. faults' \in 0..MaxFaults
      BY <1>26, FaultType DEF KvDeleteFails
    <2>2. kv' \in [Files -> [Validators -> Entries]]
      <3>1. CASE UNCHANGED kv
        BY <3>1
      <3>2. CASE kv' = [kv EXCEPT ![f][v] = "deleted"]
        BY <3>2 DEF Entries
      <3> QED BY <1>26, <3>1, <3>2 DEF KvDeleteFails
    <2>3. pc' \in [Workers -> Steps]
      BY <1>26 DEF KvDeleteFails
    <2> QED BY <1>26, <2>1, <2>2, <2>3 DEF KvDeleteFails
  <1>27. ASSUME NEW f \in Files, NEW v \in Validators, KvExpires(f, v) PROVE TypeInv'
    BY <1>27, FaultType DEF KvExpires
  <1>28. ASSUME UNCHANGED vars PROVE TypeInv'
    BY <1>28 DEF vars
  <1> QED
    BY <1>1, <1>2, <1>3, <1>4, <1>5, <1>6, <1>7, <1>8, <1>9, <1>10, <1>11, <1>12, <1>13, <1>14, <1>15, <1>16, <1>17, <1>18, <1>19, <1>20, <1>21, <1>22, <1>23, <1>24, <1>25, <1>26, <1>27, <1>28
    DEF Next, Process, Fails

\* Every reachable state has the types of TypeOK: in particular no message is
\* delivered more than max_deliver times (the object-transfer consumer).
THEOREM TypeCorrect == Spec => []TypeOK
  <1>1. TypeInv => TypeOK
    BY DEF TypeInv
  <1> QED BY <1>1, TypeInit, TypeNext, PTL DEF Spec


----------------------------------------------------------------------------
(* What only ever grows.                                                   *)

Monotone ==
  /\ \A m \in Messages : delivery[m] # "unsent" => delivery'[m] # "unsent"
  /\ \A f \in Files :
       /\ location[f] \cap {"validated", "flagged"} \subseteq location'[f]
       /\ "quarantined" \in location'[f] => "quarantined" \in location[f]
       /\ \A e \in Events : notified[f][e] <= notified'[f][e]

\* No step takes back a publication, a copy, a removal or an announcement.
LEMMA Monotonicity == TypeInv /\ [Next]_vars => Monotone
  <1> SUFFICES ASSUME TypeInv, [Next]_vars PROVE Monotone
    OBVIOUS
  <1> USE DEF TypeInv, TypeOK, stream, Monotone
  <1>1. ASSUME NEW m \in Messages, Publish(m) \/ AckWaitExpires(m) PROVE Monotone
    BY <1>1, RequeuedType DEF Publish, AckWaitExpires, worker
  <1>2. ASSUME NEW w \in Workers, NEW m \in Messages, Fetch(w, m) PROVE Monotone
    BY <1>2 DEF Fetch
  <1>3. ASSUME NEW w \in Workers, Copy(w) \/ CopyFails(w) PROVE Monotone
    BY <1>3, RouteType, MessageType DEF Copy, CopyFails, CopyObject, FileOf, Buckets
  <1>4. ASSUME NEW w \in Workers, Delete(w) \/ DeleteFails(w) PROVE Monotone
    <2>1. UNCHANGED <<delivery, notified>>
      BY <1>4 DEF Delete, DeleteFails
    <2>2. CASE RemoveObject(w)
      BY <2>1, <2>2, MessageType DEF RemoveObject, FileOf
    <2>3. CASE UNCHANGED location
      BY <2>1, <2>3
    <2> QED BY <1>4, <2>2, <2>3 DEF Delete, DeleteFails
  <1>5. ASSUME NEW w \in Workers, Notify(w) PROVE Monotone
    BY <1>5, RouteType, MessageType DEF Notify, FileOf
  <1>6. ASSUME NEW w \in Workers, Ack(w) \/ Nak(w) PROVE Monotone
    BY <1>6, RequeuedType DEF Ack, Nak
  <1>7. ASSUME UNCHANGED <<delivery, location, notified>> PROVE Monotone
    BY <1>7 DEF Monotone
  <1> QED
    BY <1>1, <1>2, <1>3, <1>4, <1>5, <1>6, <1>7
    DEF Next, Process, Fails, vars, KvDelete, KvDeleteFails, KvExpires,
        Start, KvPut, KvGet, Stat, CopySourceMissing, Cleanup, CleanupDone, StartWithoutKv, StartOffline, Crash, KvPutFails, KvGetFails, StatFails, SettlementLost

LEMMA PublishedStable ==
  ASSUME Monotone, NEW f, NEW v, NEW s, Published(f, v, s)
  PROVE  Published(f, v, s)'
  BY DEF Monotone, Published


----------------------------------------------------------------------------
(* What a step does to one worker.                                         *)

Stays(w) == pc'[w] = pc[w] /\ job'[w] = job[w] /\ other'[w] = other[w]

\* A worker changes by its own steps alone.
LEMMA OwnSteps ==
  ASSUME TypeInv, [Next]_vars, NEW x \in Workers
  PROVE  \/ Stays(x) \/ Start(x) \/ Process(x) \/ Fails(x)
         \/ \E m \in Messages : Fetch(x, m)
         \/ \E f \in Files, v \in Validators : KvDeleteFails(x, f, v)
  <1> USE DEF TypeInv, TypeOK, Stays, Goto, Leave, worker
  <1>1. ASSUME NEW m \in Messages, Publish(m) \/ AckWaitExpires(m) PROVE Stays(x)
    BY <1>1 DEF Publish, AckWaitExpires
  <1>2. ASSUME NEW w \in Workers \ {x}, NEW m \in Messages, Fetch(w, m) PROVE Stays(x)
    BY <1>2 DEF Fetch
  <1>3. ASSUME NEW w \in Workers \ {x}, Start(w) \/ Process(w) PROVE Stays(x)
    BY <1>3 DEF Start, Process, KvPut, KvGet, Stat, Copy, CopySourceMissing, Delete, Notify,
       Cleanup, CleanupDone, Ack, Nak
  <1>4. ASSUME NEW w \in Workers \ {x}, Fails(w) PROVE Stays(x)
    BY <1>4 DEF Fails, StartWithoutKv, StartOffline, Crash, KvPutFails, KvGetFails, StatFails,
       CopyFails, DeleteFails, SettlementLost
  <1>5. ASSUME NEW w \in Workers, NEW f \in Files, NEW v \in Validators, KvDelete(w, f, v)
        PROVE  Stays(x)
    BY <1>5 DEF KvDelete
  <1>6. ASSUME NEW w \in Workers \ {x}, NEW f \in Files, NEW v \in Validators,
               KvDeleteFails(w, f, v)
        PROVE  Stays(x)
    BY <1>6 DEF KvDeleteFails
  <1>7. ASSUME NEW f \in Files, NEW v \in Validators, KvExpires(f, v) PROVE Stays(x)
    BY <1>7 DEF KvExpires
  <1>8. CASE UNCHANGED vars
    BY <1>8 DEF vars
  <1> QED
    BY <1>1, <1>2, <1>3, <1>4, <1>5, <1>6, <1>7, <1>8 DEF Next

----------------------------------------------------------------------------
(* Evidence: nothing is judged that was not published.                     *)

LEMMA EvidenceInit == Init => Evidence
  BY DEF Init, Evidence, Busy, Judging, Statuses

\* A worker in the middle of a route has a published result of each validator.
LEMMA JudgedOnEvidence ==
  ASSUME TypeInv, Evidence, NEW w \in Workers, pc[w] \in Judging, NEW v \in Validators
  PROVE  Published(FileOf(w), v, StatusOf(w, v))
  <1>1. CASE v = ValidatorOf(w)
    BY <1>1 DEF TypeInv, TypeOK, Evidence, Busy, Judging, Published, StatusOf, FileOf, ValidatorOf
  <1>2. CASE v # ValidatorOf(w)
    <2>1. v = Other(ValidatorOf(w))
      BY <1>2, MessageType DEF TypeInv, TypeOK, ValidatorOf, Other, Validators
    <2> QED BY <1>2, <2>1 DEF Evidence, StatusOf
  <1> QED BY <1>1, <1>2

LEMMA EvidenceNext == TypeInv /\ Evidence /\ [Next]_vars => Evidence'
  <1> SUFFICES ASSUME TypeInv, Evidence, [Next]_vars PROVE Evidence'
    OBVIOUS
  <1> USE DEF TypeInv, TypeOK
  <1>0. Monotone
    BY Monotonicity
  \* The store: a value appears only by a put of a published result.
  <1>1. ASSUME NEW f \in Files, NEW v \in Validators, kv'[f][v] \in Statuses
        PROVE  Published(f, v, kv[f][v])'
    <2>1. kv'[f][v] = kv[f][v] \/ \E w \in Workers : Put(w) /\ At(w, "put")
      <3>1. ASSUME NEW w \in Workers, NEW g \in Files, NEW u \in Validators,
                   KvDelete(w, g, u) \/ KvDeleteFails(w, g, u) \/ KvExpires(g, u)
            PROVE  kv'[f][v] = kv[f][v]
        BY <1>1, <3>1 DEF KvDelete, KvDeleteFails, KvExpires, Statuses
      <3>2. ASSUME NEW w \in Workers, KvPut(w) \/ KvPutFails(w)
            PROVE  UNCHANGED kv \/ (Put(w) /\ At(w, "put"))
        BY <3>2 DEF KvPut, KvPutFails
      <3>3. ASSUME NEW w \in Workers, Start(w) \/ Process(w) \/ Fails(w)
            PROVE  UNCHANGED kv \/ KvPut(w) \/ KvPutFails(w)
        BY <3>3 DEF Process, Fails, Start, KvGet, Stat, Copy, CopySourceMissing, Delete, Notify,
           Cleanup, CleanupDone, Ack, Nak, StartWithoutKv, StartOffline, Crash, KvGetFails,
           StatFails, CopyFails, DeleteFails, SettlementLost
      <3>4. ASSUME NEW w \in Workers, NEW m \in Messages,
                   Publish(m) \/ AckWaitExpires(m) \/ Fetch(w, m)
            PROVE  UNCHANGED kv
        BY <3>4 DEF Publish, AckWaitExpires, Fetch
      <3>5. CASE UNCHANGED vars
        BY <3>5 DEF vars
      <3> QED BY <3>1, <3>2, <3>3, <3>4, <3>5, WorkersAssumption DEF Next
    <2>2. CASE kv'[f][v] = kv[f][v]
      BY <1>0, <1>1, <2>2, PublishedStable DEF Evidence, Published, Monotone
    <2>3. CASE \E w \in Workers : Put(w) /\ At(w, "put")
      <3> PICK w \in Workers : Put(w) /\ At(w, "put")
        BY <2>3
      <3>1. delivery[job[w]] # "unsent" /\ job[w] \in Messages
        BY DEF Evidence, At, Busy
      <3>2. CASE f = FileOf(w) /\ v = ValidatorOf(w)
        <4>1. kv'[f][v] = job[w].status
          BY <3>2, MessageType DEF Put, FileOf, ValidatorOf
        <4> QED BY <4>1, <3>1, <3>2, <1>0 DEF FileOf, ValidatorOf, Published, Monotone
      <3>3. CASE ~(f = FileOf(w) /\ v = ValidatorOf(w))
        <4>1. kv'[f][v] = kv[f][v]
          BY <3>3, MessageType DEF Put, FileOf, ValidatorOf
        <4> QED BY <4>1, <2>2
      <3> QED BY <3>2, <3>3
    <2> QED BY <2>1, <2>2, <2>3
  <1>2. ASSUME NEW x \in Workers, Busy(x)' PROVE delivery'[job'[x]] # "unsent"
    <2>1. (Busy(x) /\ job'[x] = job[x]) \/ (\E m \in Messages : Fetch(x, m))
      BY <1>2, OwnSteps DEF Busy, Stays, Goto, Leave, At, Start, Process, Fails, KvPut, KvGet,
         Stat, Copy, CopySourceMissing, Delete, Notify, Cleanup, CleanupDone, Ack, Nak,
         StartWithoutKv, StartOffline, Crash, KvPutFails, KvGetFails, StatFails, CopyFails,
         DeleteFails, SettlementLost, KvDeleteFails
    <2>2. CASE Busy(x) /\ job'[x] = job[x]
      BY <2>2, <1>0 DEF Evidence, Monotone
    <2>3. CASE \E m \in Messages : Fetch(x, m)
      BY <2>3 DEF Fetch
    <2> QED BY <2>1, <2>2, <2>3
  <1>3. ASSUME NEW x \in Workers, pc'[x] \in Judging
        PROVE  Published(FileOf(x), Other(ValidatorOf(x)), other[x])'
    <2>1. (pc[x] \in Judging /\ (Stays(x) \/ Process(x))) \/ KvGet(x)
      <3>1. CASE Start(x) \/ Fails(x)
        BY <1>3, <3>1 DEF Judging, Goto, Leave, Start, Fails, StartWithoutKv, StartOffline,
           Crash, KvPutFails, KvGetFails, StatFails, CopyFails, DeleteFails, SettlementLost
      <3>2. CASE \E m \in Messages : Fetch(x, m)
        BY <1>3, <3>2 DEF Judging, Goto, Fetch
      <3>3. CASE \E f \in Files, v \in Validators : KvDeleteFails(x, f, v)
        BY <1>3, <3>3 DEF Judging, Goto, KvDeleteFails, Stays
      <3>4. CASE Process(x)
        BY <1>3, <3>4 DEF Judging, Goto, Leave, At, Process, KvPut, Stat, Copy,
           CopySourceMissing, Delete, Notify, Cleanup, CleanupDone, Ack, Nak
      <3>5. CASE Stays(x)
        BY <1>3, <3>5 DEF Stays
      <3> QED BY <3>1, <3>2, <3>3, <3>4, <3>5, OwnSteps
    <2>2. CASE pc[x] \in Judging /\ (Stays(x) \/ Process(x))
      <3>1. job'[x] = job[x] /\ other'[x] = other[x]
        BY <1>3, <2>2 DEF Judging, Stays, Goto, At, Process, KvPut, KvGet, Stat, Copy,
           CopySourceMissing, Delete, Notify, Cleanup, CleanupDone, Ack, Nak
      <3> QED BY <3>1, <2>2, <1>0, PublishedStable
             DEF Evidence, FileOf, ValidatorOf, Other, Published, Monotone
    <2>3. CASE KvGet(x)
      <3>1. /\ job'[x] = job[x]
            /\ other'[x] = kv[FileOf(x)][Other(ValidatorOf(x))]
            /\ other'[x] \in Statuses
        BY <1>3, <2>3 DEF KvGet, Judging, Goto, At
      <3>2. Published(FileOf(x), Other(ValidatorOf(x)), other'[x])
        BY <3>1, MessageType, OtherType DEF Evidence, FileOf, ValidatorOf
      <3> QED BY <3>1, <3>2, <1>0 DEF FileOf, ValidatorOf, Other, Published, Monotone
    <2> QED BY <2>1, <2>2, <2>3
  <1> QED BY <1>1, <1>2, <1>3 DEF Evidence

----------------------------------------------------------------------------
(* Routes: what has been done before a worker copies, deletes, announces.  *)

LEMMA RouteMeaning ==
  ASSUME TypeInv, Evidence, NEW w \in Workers, pc[w] \in Judging
  PROVE  /\ AllPassed(w) => \A v \in Validators : Published(FileOf(w), v, "passed")
         /\ Route(w) = "flagged" =>
              \E v \in Validators : Published(FileOf(w), v, "failed") /\ MoveToFlagged[v]
         /\ Route(w) = "deleted" =>
              \E v \in Validators : Published(FileOf(w), v, "failed") /\ ~MoveToFlagged[v]
  <1>1. \A v \in Validators : Published(FileOf(w), v, StatusOf(w, v))
    BY JudgedOnEvidence
  <1>2. \A v \in Validators : StatusOf(w, v) \in {"passed", "failed"}
    BY MessageType DEF StatusOf, TypeInv, TypeOK, Statuses
  <1>3. AllPassed(w) => \A v \in Validators : Published(FileOf(w), v, "passed")
    BY <1>1 DEF AllPassed
  <1>4. CASE Route(w) = "flagged"
    <2>1. ShouldMoveToFlagged(w)
      BY <1>4 DEF Route
    <2> QED BY <1>3, <1>1, <1>4, <2>1 DEF ShouldMoveToFlagged
  <1>5. CASE Route(w) = "deleted"
    <2>1. ~AllPassed(w) /\ ~ShouldMoveToFlagged(w)
      BY <1>5 DEF Route
    <2>2. PICK v \in Validators : StatusOf(w, v) # "passed"
      BY <2>1 DEF AllPassed
    <2>3. StatusOf(w, v) = "failed" /\ ~MoveToFlagged[v]
      BY <1>2, <2>1, <2>2 DEF ShouldMoveToFlagged
    <2> QED BY <1>3, <1>1, <1>5, <2>3
  <1> QED BY <1>3, <1>4, <1>5

\* The route of a worker depends on its job and on what it looked up alone.
LEMMA RouteStable ==
  ASSUME NEW w, job'[w] = job[w], other'[w] = other[w]
  PROVE  Route(w)' = Route(w) /\ FileOf(w)' = FileOf(w)
  BY DEF Route, AllPassed, ShouldMoveToFlagged, StatusOf, ValidatorOf, FileOf

\* Where a worker on a route can come from.
LEMMA RouteSteps ==
  ASSUME TypeInv, [Next]_vars, NEW x \in Workers, pc'[x] \in {"copy", "delete", "notify"}
  PROVE  Stays(x) \/ Stat(x) \/ Copy(x) \/ Delete(x) \/ Notify(x)
  <1> USE DEF TypeInv, TypeOK
    <1>1. CASE Start(x) \/ Fails(x)
      BY <1>1 DEF Goto, Leave, Start, Fails, StartWithoutKv, StartOffline,
         Crash, KvPutFails, KvGetFails, StatFails, CopyFails, DeleteFails, SettlementLost
    <1>2. CASE \E m \in Messages : Fetch(x, m)
      BY <1>2 DEF Goto, Fetch
    <1>3. CASE \E f \in Files, v \in Validators : KvDeleteFails(x, f, v)
      BY <1>3 DEF Goto, KvDeleteFails, Stays
    <1>4. CASE Process(x)
      BY <1>4 DEF Goto, Leave, At, Process, KvPut, KvGet, CopySourceMissing,
         Cleanup, CleanupDone, Ack, Nak
    <1> QED BY <1>1, <1>2, <1>3, <1>4, OwnSteps

LEMMA RoutedInit == Init => Routed
  BY DEF Init, Routed

LEMMA RoutedNext == TypeInv /\ Routed /\ [Next]_vars => Routed'
  <1> SUFFICES ASSUME TypeInv, Routed, [Next]_vars, NEW x \in Workers,
                      pc'[x] \in {"copy", "delete", "notify"}
               PROVE  Routed!(x)'
    BY DEF Routed
  <1> USE DEF TypeInv, TypeOK
  <1>0. Monotone /\ FileOf(x) \in Files
    BY Monotonicity, MessageType DEF FileOf
  <1>1. Stays(x) \/ Stat(x) \/ Copy(x) \/ Delete(x) \/ Notify(x)
    BY RouteSteps
  <1>2. job'[x] = job[x] /\ other'[x] = other[x]
    BY <1>1 DEF Stays, Stat, Copy, Delete, Notify
  <1>3. Route(x)' = Route(x) /\ FileOf(x)' = FileOf(x)
    BY <1>2, RouteStable
  <1>4. CASE Stays(x)
    <2>1. ASSUME NEW e \in Events, notified[FileOf(x)][e] > 0
          PROVE  notified'[FileOf(x)][e] > 0
      <3>1. notified'[FileOf(x)][e] \in Nat
        BY <1>0, TypeNext
      <3> QED BY <3>1, <2>1, <1>0 DEF Monotone
    <2>2. pc'[x] = pc[x]
      BY <1>4 DEF Stays
    <2>3. Routed!(x)
      BY DEF Routed
    <2> QED BY <2>1, <2>2, <2>3, <1>0, <1>3 DEF Monotone, Route, Events
  <1>5. CASE Stat(x)
    BY <1>3, <1>5 DEF Stat, Goto, FirstStep, Route
  <1>6. CASE Copy(x)
    BY <1>0, <1>3, <1>6 DEF Copy, CopyObject, Goto, AfterCopy, Destination, Route, Routed, At
  <1>7. CASE Delete(x)
    BY <1>0, <1>3, <1>7 DEF Delete, RemoveObject, Goto, AfterDelete, Route, Routed, At
  <1>8. CASE Notify(x)
    BY <1>0, <1>3, <1>8 DEF Notify, Goto, AfterNotify, EventOf, Route, Routed, At, Events
  <1> QED BY <1>1, <1>4, <1>5, <1>6, <1>7, <1>8

----------------------------------------------------------------------------
(* The buckets.                                                            *)

\* The flagged bucket holds only files that a validator failed.
FlaggedOnlyIfFailed ==
  \A f \in Files : "flagged" \in location[f] =>
    \E v \in Validators : Published(f, v, "failed") /\ MoveToFlagged[v]

BucketInv == ReleasedOnlyIfPassed /\ FlaggedOnlyIfFailed /\ NeverLost

SafetyInv == TypeInv /\ Evidence /\ Routed /\ BucketInv

\* The buckets change by the copy and the delete of a worker alone.
LEMMA LocationSteps ==
  ASSUME [Next]_vars
  PROVE  \/ UNCHANGED location
         \/ \E w \in Workers : pc[w] = "copy" /\ CopyObject(w)
         \/ \E w \in Workers : pc[w] = "delete" /\ RemoveObject(w)
  <1>1. ASSUME NEW w \in Workers, Process(w) \/ Fails(w) \/ Start(w)
        PROVE  \/ UNCHANGED location
               \/ pc[w] = "copy" /\ CopyObject(w)
               \/ pc[w] = "delete" /\ RemoveObject(w)
    <2>1. CASE Copy(w) \/ CopyFails(w)
      BY <2>1 DEF Copy, CopyFails, At
    <2>2. CASE Delete(w) \/ DeleteFails(w)
      BY <2>2 DEF Delete, DeleteFails, At
    <2> QED
      BY <1>1, <2>1, <2>2 DEF Process, Fails, Start, KvPut, KvGet, Stat, CopySourceMissing,
         Notify, Cleanup, CleanupDone, Ack, Nak, StartWithoutKv, StartOffline, Crash,
         KvPutFails, KvGetFails, StatFails, SettlementLost
  <1> QED BY <1>1 DEF Next, vars, Publish, AckWaitExpires, Fetch, KvDelete, KvDeleteFails, KvExpires

LEMMA BucketNext == SafetyInv /\ [Next]_vars => BucketInv'
  <1> SUFFICES ASSUME SafetyInv, [Next]_vars PROVE BucketInv'
    OBVIOUS
  <1> USE DEF SafetyInv
  <1>0. Monotone
    BY Monotonicity
  <1>1. ASSUME NEW f, NEW v, NEW s, Published(f, v, s) PROVE Published(f, v, s)'
    BY <1>0, <1>1, PublishedStable
  <1>2. CASE UNCHANGED location
    BY <1>1, <1>2
    DEF BucketInv, ReleasedOnlyIfPassed, FlaggedOnlyIfFailed, NeverLost
  <1>3. ASSUME NEW w \in Workers, pc[w] = "copy", CopyObject(w) PROVE BucketInv'
    <2>1. FileOf(w) \in Files /\ location \in [Files -> SUBSET Buckets]
      BY MessageType DEF FileOf, TypeInv, TypeOK
    <2>2. /\ Destination(w) = "validated" =>
               \A v \in Validators : Published(FileOf(w), v, "passed")
          /\ Destination(w) = "flagged" =>
               \E v \in Validators : Published(FileOf(w), v, "failed") /\ MoveToFlagged[v]
      BY <1>3, RouteMeaning DEF Destination, Route, Routed, Judging
    <2>3. /\ location'[FileOf(w)] = location[FileOf(w)] \cup {Destination(w)}
          /\ \A f \in Files \ {FileOf(w)} : location'[f] = location[f]
      BY <1>3, <2>1 DEF CopyObject
    <2>4. ReleasedOnlyIfPassed'
      BY <1>1, <2>2, <2>3 DEF BucketInv, ReleasedOnlyIfPassed
    <2>5. FlaggedOnlyIfFailed'
      BY <1>1, <2>2, <2>3 DEF BucketInv, FlaggedOnlyIfFailed
    <2>6. NeverLost'
      BY <1>1, <2>3 DEF BucketInv, NeverLost
    <2> QED BY <2>4, <2>5, <2>6 DEF BucketInv
  <1>4. ASSUME NEW w \in Workers, pc[w] = "delete", RemoveObject(w) PROVE BucketInv'
    <2>1. FileOf(w) \in Files /\ location \in [Files -> SUBSET Buckets]
      BY MessageType DEF FileOf, TypeInv, TypeOK
    <2>2. /\ location'[FileOf(w)] = location[FileOf(w)] \ {"quarantined"}
          /\ \A f \in Files \ {FileOf(w)} : location'[f] = location[f]
      BY <1>4, <2>1 DEF RemoveObject
    <2>3. ReleasedOnlyIfPassed'
      BY <1>1, <2>2 DEF BucketInv, ReleasedOnlyIfPassed
    <2>4. FlaggedOnlyIfFailed'
      BY <1>1, <2>2 DEF BucketInv, FlaggedOnlyIfFailed
    <2>5. NeverLost'
      <3>1. CASE Route(w) = "deleted"
        BY <1>1, <1>4, <2>2, <3>1, RouteMeaning DEF BucketInv, NeverLost, Judging
      <3>2. CASE Route(w) # "deleted"
        <4>1. Route(w) \in location'[FileOf(w)]
          BY <1>4, <2>2, <3>2, RouteType DEF Routed
        <4> QED BY <1>1, <2>2, <4>1 DEF BucketInv, NeverLost
      <3> QED BY <3>1, <3>2
    <2> QED BY <2>3, <2>4, <2>5 DEF BucketInv
  <1> QED BY <1>2, <1>3, <1>4, LocationSteps

\* The inductive invariant holds in every reachable state.
THEOREM SafetyInvariant == Spec => []SafetyInv
  <1>1. Init => SafetyInv
    BY TypeInit, EvidenceInit, RoutedInit
    DEF SafetyInv, BucketInv, Init, ReleasedOnlyIfPassed, FlaggedOnlyIfFailed, NeverLost
  <1>2. SafetyInv /\ [Next]_vars => SafetyInv'
    BY TypeNext, EvidenceNext, RoutedNext, BucketNext DEF SafetyInv
  <1> QED BY <1>1, <1>2, PTL DEF Spec

\* Nothing reaches the validated bucket without a published "passed" of both
\* validators (handleCompleteValidation).
THEOREM ReleaseSafety == Spec => []ReleasedOnlyIfPassed
  <1>1. SafetyInv => ReleasedOnlyIfPassed
    BY DEF SafetyInv, BucketInv
  <1> QED BY <1>1, SafetyInvariant, PTL

\* No interleaving, fault or crash of the transfer loses a file
\* (handlePassedValidation, handleFailedValidation).
THEOREM TransferKeepsFiles == Spec => []NeverLost
  <1>1. SafetyInv => NeverLost
    BY DEF SafetyInv, BucketInv
  <1> QED BY <1>1, SafetyInvariant, PTL

----------------------------------------------------------------------------
(* Second copies, announced removals, announced releases.                  *)

\* A step that is no fault is one of the handler's own, or of the stream.
LEMMA FaultFreeSteps ==
  ASSUME TypeInv, [Next]_vars, faults' = 0, NEW x \in Workers
  PROVE  /\ faults = 0
         /\ Stays(x) \/ Start(x) \/ Process(x) \/ \E m \in Messages : Fetch(x, m)
         /\ UNCHANGED location \/ \E w \in Workers : Copy(w) \/ Delete(w)
  <1>1. \A kind : ~Fault(kind)
    BY FaultsAssumption DEF Fault, TypeInv, TypeOK
  <1>2. ~Fails(x)
    BY <1>1 DEF Fails, StartWithoutKv, StartOffline, Crash, KvPutFails, KvGetFails, StatFails,
                CopyFails, DeleteFails, SettlementLost
  <1>3. ~\E f \in Files, v \in Validators : KvDeleteFails(x, f, v)
    BY <1>1 DEF KvDeleteFails
  <1>4. faults' = faults
    <2>1. ASSUME NEW w \in Workers, Process(w) \/ Start(w) PROVE faults' = faults
      BY <2>1 DEF Process, Start, NoFault, KvPut, KvGet, Stat, Copy, CopySourceMissing, Delete,
                  Notify, Cleanup, CleanupDone, Ack, Nak
    <2>2. ASSUME NEW w \in Workers, Fails(w) PROVE FALSE
      BY <1>1, <2>2 DEF Fails, StartWithoutKv, StartOffline, Crash, KvPutFails, KvGetFails,
                        StatFails, CopyFails, DeleteFails, SettlementLost
    <2>3. ASSUME NEW m \in Messages, Publish(m) \/ AckWaitExpires(m) PROVE faults' = faults
      BY <1>1, <2>3 DEF Publish, AckWaitExpires, NoFault
    <2> QED BY <1>1, <2>1, <2>2, <2>3
            DEF Next, vars, Fetch, KvDelete, KvDeleteFails, KvExpires
  <1>5. UNCHANGED location \/ \E w \in Workers : Copy(w) \/ Delete(w)
    <2>1. ASSUME NEW w \in Workers, Process(w) \/ Start(w)
          PROVE  Copy(w) \/ Delete(w) \/ UNCHANGED location
      BY <2>1 DEF Process, Start, KvPut, KvGet, Stat, CopySourceMissing, Notify, Cleanup,
                  CleanupDone, Ack, Nak
    <2>2. ASSUME NEW w \in Workers, Fails(w) PROVE FALSE
      BY <1>1, <2>2 DEF Fails, StartWithoutKv, StartOffline, Crash, KvPutFails, KvGetFails,
                        StatFails, CopyFails, DeleteFails, SettlementLost
    <2> QED BY <2>1, <2>2
            DEF Next, vars, Publish, AckWaitExpires, Fetch, KvDelete, KvDeleteFails, KvExpires
  <1> QED BY <1>2, <1>3, <1>4, <1>5, OwnSteps DEF TypeInv, TypeOK

\* Before the first fault, the worker that made a copy stays between copy and
\* delete until the source is gone.
LEMMA UnderwayNext == SafetyInv /\ Underway /\ [Next]_vars => Underway'
  <1> SUFFICES ASSUME SafetyInv, Underway, [Next]_vars, faults' = 0, NEW f \in Files,
                      "quarantined" \in location'[f], location'[f] # {"quarantined"}
               PROVE  Removing(f)'
    BY DEF Underway
  <1> USE DEF SafetyInv
  <1>1. "quarantined" \in location[f]
    BY Monotonicity DEF Monotone
  <1>2. CASE location[f] = {"quarantined"}
    <2>1. PICK w \in Workers : Copy(w) \/ Delete(w)
      BY <1>2, FaultFreeSteps, WorkersAssumption
    <2>2. FileOf(w) = f
      BY <1>2, <2>1 DEF Copy, CopyObject, Delete, RemoveObject, TypeInv, TypeOK
    <2>3. Copy(w)
      BY <1>2, <2>1, <2>2 DEF Delete, RemoveObject, TypeInv, TypeOK
    <2>4. Route(w) # "deleted" /\ pc'[w] \in {"notify", "delete"}
      BY <2>3 DEF Copy, At, Goto, AfterCopy, Routed, TypeInv, TypeOK
    <2>5. job'[w] = job[w] /\ other'[w] = other[w]
      BY <2>3 DEF Copy
    <2> QED BY <2>2, <2>4, <2>5, RouteStable DEF Removing
  <1>3. CASE Removing(f)
    <2>1. PICK w \in Workers :
            FileOf(w) = f /\ pc[w] \in {"notify", "delete"} /\ Route(w) # "deleted"
      BY <1>3 DEF Removing
    <2>2. Stays(w) \/ Notify(w) \/ Delete(w)
      BY <2>1, FaultFreeSteps
      DEF At, Start, Process, KvPut, KvGet, Stat, Copy, CopySourceMissing, Cleanup,
          CleanupDone, Ack, Nak, Fetch
    <2>3. ~Delete(w)
      BY <2>1 DEF Delete, RemoveObject, TypeInv, TypeOK
    <2>4. job'[w] = job[w] /\ other'[w] = other[w]
      BY <2>2, <2>3 DEF Stays, Notify
    <2>5. pc'[w] \in {"notify", "delete"}
      BY <1>1, <2>1, <2>2, <2>3
      DEF Stays, Notify, At, Goto, AfterNotify, Routed, TypeInv, TypeOK
    <2> QED BY <2>1, <2>4, <2>5, RouteStable DEF Removing
  <1> QED BY <1>1, <1>2, <1>3, FaultFreeSteps, WorkersAssumption DEF Underway

LEMMA SecondCopyStep ==
  ASSUME SafetyInv, Underway, [Next]_vars, NEW f \in Files, ~BothCopies(f), BothCopies(f)'
  PROVE  Contradicted(f) /\ (Removing(f) \/ faults > 0)
  <1> USE DEF SafetyInv, BothCopies
  <1>0. /\ location \in [Files -> SUBSET Buckets]
        /\ faults \in Nat
    BY FaultsAssumption DEF TypeInv, TypeOK
  <1>1. PICK w \in Workers : pc[w] = "copy" /\ CopyObject(w)
    BY <1>0, LocationSteps DEF RemoveObject
  <1>2. /\ FileOf(w) = f
        /\ "quarantined" \in location[f]
        /\ location'[f] = location[f] \cup {Destination(w)}
    BY <1>0, <1>1 DEF CopyObject
  <1>3. /\ Destination(w) = "validated" => \A v \in Validators : Published(f, v, "passed")
        /\ Destination(w) = "flagged" => \E v \in Validators : Published(f, v, "failed")
    BY <1>1, <1>2, RouteMeaning DEF Destination, Route, Routed, Judging
  <1>4. Contradicted(f)
    BY <1>2, <1>3 DEF Contradicted, Statuses, BucketInv, ReleasedOnlyIfPassed,
                      FlaggedOnlyIfFailed, Destination
  <1>5. location[f] # {"quarantined"}
    BY <1>2
  <1> QED BY <1>0, <1>2, <1>4, <1>5 DEF Underway

\* A file comes to be both released and flagged only if a validator contradicts
\* itself and two workers race, or a fault has cut the first one short
\* (handlePassedValidation, handleFailedValidation).
THEOREM SecondCopiesRace == Spec => SecondCopyNeedsRace
  <1>1. Init => Underway
    BY DEF Init, Underway
  <1>2. SafetyInv /\ Underway /\ [Next]_vars =>
          [\A f \in Files : ~BothCopies(f) /\ BothCopies(f)' =>
             Contradicted(f) /\ (Removing(f) \/ faults > 0)]_vars
    BY SecondCopyStep
  <1>3. SafetyInv /\ Underway /\ [Next]_vars => Underway'
    BY UnderwayNext
  <1> QED BY <1>1, <1>2, <1>3, SafetyInvariant, PTL DEF Spec, SecondCopyNeedsRace

LEMMA RemovalNext ==
  ASSUME SafetyInv, RemovalAnnounced, [Next]_vars
  PROVE  RemovalAnnounced'
  <1> SUFFICES ASSUME NEW f \in Files, location'[f] \cap {"quarantined", "validated"} = {}
               PROVE  notified'[f]["file_flagged"] + notified'[f]["file_deleted"] > 0
    BY DEF RemovalAnnounced
  <1> USE DEF SafetyInv
  <1>0. /\ Monotone
        /\ location \in [Files -> SUBSET Buckets]
        /\ \A e \in Events : notified[f][e] \in Nat /\ notified'[f][e] \in Nat
                             /\ notified[f][e] <= notified'[f][e]
    BY Monotonicity, TypeNext DEF TypeInv, TypeOK, Monotone
  <1>1. ASSUME notified[f]["file_flagged"] > 0 \/ notified[f]["file_deleted"] > 0
        PROVE  notified'[f]["file_flagged"] + notified'[f]["file_deleted"] > 0
    BY <1>0, <1>1 DEF Events
  <1>2. CASE location[f] \cap {"quarantined", "validated"} = {}
    BY <1>0, <1>1, <1>2 DEF RemovalAnnounced, Events
  <1>3. CASE location[f] \cap {"quarantined", "validated"} # {}
    <2>1. PICK w \in Workers : \/ pc[w] = "copy" /\ CopyObject(w)
                               \/ pc[w] = "delete" /\ RemoveObject(w)
      BY <1>3, LocationSteps
    <2>2. FileOf(w) = f /\ pc[w] = "delete" /\ location'[f] = location[f] \ {"quarantined"}
      BY <1>0, <1>3, <2>1 DEF CopyObject, RemoveObject
    <2>3. Route(w) # "validated"
      BY <2>2 DEF Routed
    <2> QED BY <1>1, <2>2, <2>3, RouteType DEF Routed
  <1> QED BY <1>2, <1>3

\* The original of a rejected file is removed only after a webhook about it was
\* handed over, on whatever routes replicas reject it and wherever one dies
\* (handleFailedValidation).
THEOREM RemovalsAnnounced == Spec => []RemovalAnnounced
  <1>1. Init => RemovalAnnounced
    BY DEF Init, RemovalAnnounced
  <1>2. SafetyInv /\ RemovalAnnounced /\ [Next]_vars => RemovalAnnounced'
    BY RemovalNext
  <1> QED BY <1>1, <1>2, SafetyInvariant, PTL DEF Spec

\* The workers that have found a file in quarantine and may yet announce its
\* release.
Releasing(f) ==
  {w \in Workers : /\ pc[w] \in {"copy", "delete", "notify"}
                   /\ FileOf(w) = f /\ Route(w) = "validated"}

\* Nothing is announced while the file is in quarantine; afterwards nobody
\* joins the workers that may announce, and each leaves with its announcement.
AnnounceInv == \A f \in Files :
  IF "quarantined" \in location[f] THEN notified[f]["file_validated"] = 0
  ELSE notified[f]["file_validated"] + Cardinality(Releasing(f)) <= Cardinality(Workers)

LEMMA ReleasingFinite ==
  ASSUME NEW f
  PROVE  /\ IsFiniteSet(Releasing(f)) /\ Cardinality(Releasing(f)) \in Nat
         /\ Cardinality(Releasing(f)) <= Cardinality(Workers)
         /\ Cardinality(Workers) \in Nat
  <1>1. Releasing(f) \in SUBSET Workers
    BY DEF Releasing
  <1> QED BY <1>1, WorkersAssumption, FS_Subset, FS_CardinalityType

\* Once the file has left quarantine nobody starts to release it.
LEMMA ReleasingShrinks ==
  ASSUME TypeInv, [Next]_vars, NEW f, "quarantined" \notin location[f]
  PROVE  /\ Releasing(f)' \subseteq Releasing(f)
         /\ \A w \in Releasing(f) : Notify(w) => w \notin Releasing(f)'
  <1>1. ASSUME NEW x \in Workers, x \in Releasing(f)' PROVE x \in Releasing(f) /\ ~Notify(x)
    <2>0. pc'[x] \in {"copy", "delete", "notify"} /\ Route(x)' = "validated" /\ FileOf(x)' = f
      BY <1>1 DEF Releasing
    <2>1. Stays(x) \/ Stat(x) \/ Copy(x) \/ Delete(x) \/ Notify(x)
      BY <2>0, RouteSteps
    <2>2. job'[x] = job[x] /\ other'[x] = other[x]
      BY <2>1 DEF Stays, Stat, Copy, Delete, Notify
    <2>3. Route(x) = "validated" /\ FileOf(x) = f
      BY <2>0, <2>2, RouteStable
    <2>4. ~Stat(x)
      BY <2>0, <2>3 DEF Stat, Goto, TypeInv, TypeOK
    <2>5. ~Notify(x)
      BY <2>0, <2>3 DEF Notify, Goto, AfterNotify, TypeInv, TypeOK
    <2>6. pc[x] \in {"copy", "delete", "notify"}
      BY <2>0, <2>1, <2>4, <2>5 DEF Stays, Copy, Delete, At
    <2> QED BY <2>3, <2>5, <2>6 DEF Releasing
  <1>2. Releasing(f)' \subseteq Workers
    BY DEF Releasing
  <1> QED BY <1>1, <1>2

\* A release is announced by the notification of a releasing worker alone.
LEMMA ReleaseAnnouncements ==
  ASSUME TypeInv, [Next]_vars, NEW f \in Files
  PROVE  \/ notified'[f]["file_validated"] = notified[f]["file_validated"]
         \/ \E w \in Releasing(f) :
              Notify(w) /\ notified'[f]["file_validated"] = notified[f]["file_validated"] + 1
  <1> USE DEF TypeInv, TypeOK
  <1>1. ASSUME NEW w \in Workers, Notify(w)
        PROVE  \/ notified'[f]["file_validated"] = notified[f]["file_validated"]
               \/ /\ w \in Releasing(f)
                  /\ notified'[f]["file_validated"] = notified[f]["file_validated"] + 1
    <2>1. CASE FileOf(w) = f /\ Route(w) = "validated"
      BY <1>1, <2>1 DEF Notify, Releasing, At, EventOf, Events
    <2>2. CASE ~(FileOf(w) = f /\ Route(w) = "validated")
      BY <1>1, <2>2, MessageType DEF Notify, EventOf, Events, FileOf
    <2> QED BY <2>1, <2>2
  <1>2. CASE UNCHANGED notified
    BY <1>2
  <1>3. UNCHANGED notified \/ \E w \in Workers : Notify(w)
    BY DEF Next, Process, Fails, vars, Publish, AckWaitExpires, Fetch, KvDelete, KvDeleteFails,
       KvExpires, Start, KvPut, KvGet, Stat, Copy, CopySourceMissing, Delete, Cleanup,
       CleanupDone, Ack, Nak, StartWithoutKv, StartOffline, Crash, KvPutFails, KvGetFails,
       StatFails, CopyFails, DeleteFails, SettlementLost
  <1> QED BY <1>1, <1>2, <1>3

LEMMA AnnounceNext ==
  ASSUME SafetyInv, AnnounceInv, [Next]_vars
  PROVE  AnnounceInv'
  <1> SUFFICES ASSUME NEW f \in Files PROVE AnnounceInv!(f)'
    BY DEF AnnounceInv
  <1> USE DEF SafetyInv
  <1> DEFINE sent == notified[f]["file_validated"]
             left == Cardinality(Releasing(f))
  <1>0. /\ sent \in Nat /\ left \in Nat /\ Monotone
        /\ left' \in Nat /\ left' <= Cardinality(Workers) /\ Cardinality(Workers) \in Nat
    <2>1. Releasing(f)' \in SUBSET Workers
      BY DEF Releasing
    <2>2. left' \in Nat /\ left' <= Cardinality(Workers)
      BY <2>1, WorkersAssumption, FS_Subset, FS_CardinalityType
    <2> QED BY <2>2, ReleasingFinite, Monotonicity DEF TypeInv, TypeOK, Events
  <1>1. ASSUME "quarantined" \in location[f] PROVE sent = 0 /\ sent' = 0
    <2>1. sent = 0
      BY <1>1 DEF AnnounceInv
    <2>2. ASSUME NEW w \in Releasing(f) PROVE ~Notify(w)
      BY <1>1, <2>2 DEF Releasing, Routed, Notify, At
    <2> QED BY <2>1, <2>2, ReleaseAnnouncements
  <1>2. CASE "quarantined" \in location[f]
    BY <1>0, <1>1, <1>2 DEF AnnounceInv
  <1>3. CASE "quarantined" \notin location[f]
    <2>1. sent + left <= Cardinality(Workers) /\ "quarantined" \notin location'[f]
      BY <1>0, <1>3 DEF AnnounceInv, Monotone
    <2>2. CASE sent' = sent
      <3>1. left' <= left
        BY <1>3, ReleasingShrinks, ReleasingFinite, FS_Subset
      <3> QED BY <1>0, <2>1, <2>2, <3>1
    <2>3. ASSUME NEW w \in Releasing(f), Notify(w), sent' = sent + 1
          PROVE  sent' + left' <= Cardinality(Workers)
      <3>1. Releasing(f)' \in SUBSET (Releasing(f) \ {w})
        BY <1>3, <2>3, ReleasingShrinks
      <3>2. IsFiniteSet(Releasing(f) \ {w}) /\ Cardinality(Releasing(f) \ {w}) = left - 1
        BY ReleasingFinite, FS_RemoveElement
      <3>3. left' <= left - 1
        BY <3>1, <3>2, FS_Subset
      <3> QED BY <1>0, <2>1, <2>3, <3>3
    <2> QED BY <2>1, <2>2, <2>3, ReleaseAnnouncements
  <1> QED BY <1>2, <1>3

\* However often the results of a file are delivered and wherever replicas die,
\* its release is announced at most once per replica (handlePassedValidation).
THEOREM ReleaseAnnouncedOncePerReplica == Spec => []AnnouncedOncePerReplica
  <1>1. Init => AnnounceInv
    BY DEF Init, AnnounceInv, Events
  <1>2. SafetyInv /\ AnnounceInv /\ [Next]_vars => AnnounceInv'
    BY AnnounceNext
  <1>3. SafetyInv /\ AnnounceInv => AnnouncedOncePerReplica
    <2> SUFFICES ASSUME SafetyInv, AnnounceInv, NEW f \in Files
                 PROVE  notified[f]["file_validated"] <= Cardinality(Workers)
      BY DEF AnnouncedOncePerReplica
    <2>1. notified[f]["file_validated"] \in Nat
      BY DEF SafetyInv, TypeInv, TypeOK, Events
    <2> QED BY <2>1, ReleasingFinite DEF AnnounceInv
  <1> QED BY <1>1, <1>2, <1>3, SafetyInvariant, PTL DEF Spec

----------------------------------------------------------------------------
(* Refinement: every step is a step of FileDisposition or a stutter.       *)

Verdicts  == {<<m.file, m.validator, m.status>> :
                m \in {n \in Messages : delivery[n] # "unsent"}}
Announced == {fe \in Files \X Events : notified[fe[1]][fe[2]] > 0}

LEMMA VerdictsPublished ==
  \A f, v, s : <<f, v, s>> \in Verdicts <=> Published(f, v, s)
  BY DEF Verdicts, Published

LEMMA DispositionInit == Init => Disposition!Init
  BY DEF Init, Disposition!Init, Events

\* Which part of the abstract state a step touches.
LEMMA DispositionSteps ==
  ASSUME TypeInv, Evidence, [Next]_vars
  PROVE  \/ UNCHANGED <<location, notified>> /\ Verdicts' = Verdicts
         \/ \E m \in Messages : Publish(m)
         \/ \E w \in Workers : Notify(w)
         \/ /\ UNCHANGED <<delivery, notified>>
            /\ \E w \in Workers : \/ pc[w] = "copy" /\ CopyObject(w)
                                  \/ pc[w] = "delete" /\ RemoveObject(w)
  <1> USE DEF TypeInv, TypeOK, stream, worker
  <1>1. ASSUME \A m \in Messages : delivery'[m] = "unsent" <=> delivery[m] = "unsent"
        PROVE  Verdicts' = Verdicts
    BY <1>1 DEF Verdicts
  <1>2. ASSUME NEW m \in Messages, NEW w \in Workers, AckWaitExpires(m) \/ Fetch(w, m)
        PROVE  UNCHANGED <<location, notified>> /\ Verdicts' = Verdicts
    BY <1>1, <1>2, RequeuedType DEF AckWaitExpires, Fetch
  <1>3. ASSUME NEW w \in Workers, Ack(w) \/ Nak(w)
        PROVE  UNCHANGED <<location, notified>> /\ Verdicts' = Verdicts
    <2>1. delivery[job[w]] # "unsent"
      BY <1>3 DEF Ack, Nak, At, Evidence, Busy
    <2> QED BY <1>1, <1>3, <2>1, RequeuedType DEF Ack, Nak
  <1>4. ASSUME NEW w \in Workers, Copy(w) \/ CopyFails(w)
        PROVE  /\ UNCHANGED <<delivery, notified>> /\ pc[w] = "copy"
               /\ UNCHANGED location \/ CopyObject(w)
    <2>1. UNCHANGED <<delivery, notified>> /\ pc[w] = "copy"
      BY <1>4 DEF Copy, CopyFails, At
    <2>2. UNCHANGED location \/ CopyObject(w)
      BY <1>4 DEF Copy, CopyFails
    <2> QED BY <2>1, <2>2
  <1>5. ASSUME NEW w \in Workers, Delete(w) \/ DeleteFails(w)
        PROVE  /\ UNCHANGED <<delivery, notified>> /\ pc[w] = "delete"
               /\ UNCHANGED location \/ RemoveObject(w)
    <2>1. UNCHANGED <<delivery, notified>> /\ pc[w] = "delete"
      BY <1>5 DEF Delete, DeleteFails, At
    <2>2. UNCHANGED location \/ RemoveObject(w)
      BY <1>5 DEF Delete, DeleteFails
    <2> QED BY <2>1, <2>2
  <1>6. ASSUME NEW w \in Workers, Start(w) \/ Process(w) \/ Fails(w)
        PROVE  \/ UNCHANGED <<delivery, location, notified>>
               \/ Copy(w) \/ CopyFails(w) \/ Delete(w) \/ DeleteFails(w)
               \/ Ack(w) \/ Nak(w) \/ Notify(w)
    BY <1>6 DEF Process, Fails, Start, KvPut, KvGet, Stat, CopySourceMissing, Cleanup,
       CleanupDone, StartWithoutKv, StartOffline, Crash, KvPutFails, KvGetFails, StatFails,
       SettlementLost
  <1>7. ASSUME NEW w \in Workers, NEW f \in Files, NEW v \in Validators,
               KvDelete(w, f, v) \/ KvDeleteFails(w, f, v) \/ KvExpires(f, v)
        PROVE  UNCHANGED <<delivery, location, notified>>
    BY <1>7 DEF KvDelete, KvDeleteFails, KvExpires
  <1>8. CASE UNCHANGED vars
    BY <1>1, <1>8 DEF vars
  <1> QED
    BY <1>1, <1>2, <1>3, <1>4, <1>5, <1>6, <1>7, <1>8, WorkersAssumption DEF Next

LEMMA DispositionNext ==
  SafetyInv /\ [Next]_vars => [Disposition!Next]_(Disposition!vars)
  <1> SUFFICES ASSUME SafetyInv, [Next]_vars,
                      ~ UNCHANGED <<Verdicts, location, Announced>>
               PROVE  Disposition!Next
    BY DEF Disposition!vars, Verdicts, Announced
  <1> USE DEF SafetyInv
  <1>0. ASSUME NEW w \in Workers, pc[w] \in Judging, NEW f, f = FileOf(w)
        PROVE  Disposition!Judged(f)
    <2>1. \A v \in Validators : StatusOf(w, v) \in Statuses
      BY MessageType, OtherType DEF StatusOf, ValidatorOf, TypeInv, TypeOK
    <2> QED BY <1>0, <2>1, JudgedOnEvidence, VerdictsPublished
            DEF Disposition!Judged, Disposition!Validators, Disposition!Statuses, Validators,
                Statuses, Verdicts
  <1>1. ASSUME NEW m \in Messages, Publish(m)
        PROVE  Disposition!Judge(m.file, m.validator, m.status)
    <2>1. Verdicts' = Verdicts \cup {<<m.file, m.validator, m.status>>}
      BY <1>1 DEF Publish, Verdicts, TypeInv, TypeOK
    <2> QED BY <1>1, <2>1 DEF Disposition!Judge, Publish, Verdicts, Announced
  <1>2. ASSUME NEW w \in Workers, NEW f, NEW e, Notify(w), f = FileOf(w), e = EventOf(Route(w))
        PROVE  Disposition!Announce(f, e)
    <2>0. FileOf(w) \in Files /\ EventOf(Route(w)) \in Events /\ pc[w] \in Judging
      BY <1>2, MessageType, RouteType DEF FileOf, TypeInv, TypeOK, Notify, At, Judging
    <2>1. Announced' = Announced \cup {<<f, e>>}
      BY <1>2, <2>0 DEF Announced, Notify, TypeInv, TypeOK
    <2>2. CASE Route(w) = "deleted"
      <3>1. Disposition!Failed(f, FALSE)
        BY <1>2, <2>0, <2>2, RouteMeaning, VerdictsPublished, ConfigAssumption
        DEF Disposition!Failed, Disposition!Validators, Validators, Verdicts
      <3> QED BY <1>0, <1>2, <2>0, <2>1, <2>2, <3>1
              DEF Disposition!Announce, Notify, EventOf, Verdicts, Announced, worker, stream
    <2>3. CASE Route(w) # "deleted"
      BY <1>2, <2>1, <2>3, RouteType
      DEF Disposition!Announce, Notify, EventOf, Verdicts, Announced, Routed, At, stream
    <2> QED BY <2>2, <2>3
  <1>3. ASSUME NEW w \in Workers, UNCHANGED <<delivery, notified>>, pc[w] = "copy", CopyObject(w)
        PROVE  Disposition!Release(FileOf(w)) \/ Disposition!Flag(FileOf(w))
    <2>1. Disposition!CopyTo(FileOf(w), Destination(w))
      BY <1>3 DEF Disposition!CopyTo, CopyObject, Verdicts, Announced
    <2>2. CASE AllPassed(w)
      <3>1. Disposition!Passed(FileOf(w))
        BY <1>3, <2>2, RouteMeaning, VerdictsPublished
        DEF Disposition!Passed, Disposition!Validators, Validators, Verdicts, Judging
      <3> QED BY <2>1, <2>2, <3>1 DEF Disposition!Release, Destination
    <2>3. CASE ~AllPassed(w)
      <3>1. Route(w) = "flagged"
        BY <1>3, <2>3 DEF Routed, Route
      <3>2. Disposition!Failed(FileOf(w), TRUE)
        BY <1>3, <3>1, RouteMeaning, VerdictsPublished, ConfigAssumption
        DEF Disposition!Failed, Disposition!Validators, Validators, Verdicts, Judging
      <3>3. Disposition!Judged(FileOf(w))
        BY <1>0, <1>3 DEF Judging
      <3> QED BY <2>1, <2>3, <3>2, <3>3 DEF Disposition!Flag, Destination
    <2> QED BY <2>2, <2>3
  <1>4. ASSUME NEW w \in Workers, UNCHANGED <<delivery, notified>>, pc[w] = "delete", RemoveObject(w)
        PROVE  Disposition!Remove(FileOf(w))
    <2>0. FileOf(w) \in Files
      BY MessageType DEF FileOf, TypeInv, TypeOK
    <2>1. \/ location[FileOf(w)] \cap {"validated", "flagged"} # {}
          \/ <<FileOf(w), "file_deleted">> \in Announced
      BY <1>4, <2>0, RouteType DEF Routed, Announced, Events
    <2> QED BY <1>4, <2>1 DEF Disposition!Remove, RemoveObject, Verdicts, Announced
  <1>5. \A w \in Workers : FileOf(w) \in Files /\ EventOf(Route(w)) \in Disposition!Events
    BY MessageType, RouteType DEF FileOf, TypeInv, TypeOK, Events, Disposition!Events
  <1>6. CASE \E m \in Messages : Publish(m)
    BY <1>1, <1>6, MessageType
    DEF Disposition!Next, Disposition!Validators, Disposition!Statuses, Validators, Statuses
  <1>7. CASE \E w \in Workers : Notify(w)
    <2> PICK w \in Workers : Notify(w)
      BY <1>7
    <2>1. PICK f \in Files, e \in Disposition!Events : f = FileOf(w) /\ e = EventOf(Route(w))
      BY <1>5
    <2>2. Disposition!Announce(f, e)
      BY <1>2, <2>1
    <2> QED BY <2>2 DEF Disposition!Next
  <1>8. CASE /\ UNCHANGED <<delivery, notified>>
             /\ \E w \in Workers : \/ pc[w] = "copy" /\ CopyObject(w)
                                   \/ pc[w] = "delete" /\ RemoveObject(w)
    BY <1>3, <1>4, <1>5, <1>8 DEF Disposition!Next
  <1>9. CASE UNCHANGED <<location, notified>> /\ Verdicts' = Verdicts
    BY <1>9 DEF Announced
  <1> QED BY <1>6, <1>7, <1>8, <1>9, DispositionSteps

\* The transfer service implements the promise of FileDisposition: any number
\* of replicas, with crashes, redeliveries and lost answers, moves each file
\* only on published verdicts, copies before it removes, and announces only
\* what has happened.
THEOREM Refinement == Spec => ImplementsDisposition
  <1> QED BY DispositionInit, DispositionNext, SafetyInvariant, PTL
          DEF Spec, ImplementsDisposition, Disposition!Spec
----------------------------------------------------------------------------
(* Put before get: nobody waits for a result that is already there.        *)

NoSilentLoss == FaultKinds \cap {"stat", "ttl", "init"} = {}

LEMMA CleanedUpNext ==
  ASSUME NoSilentLoss, TypeInv, Routed, CleanedUp, [Next]_vars
  PROVE  CleanedUp'
  <1> USE DEF TypeInv, TypeOK
  <1>0. Monotone /\ ~Fault("stat") /\ ~Fault("ttl") /\ ~Fault("init")
    BY Monotonicity DEF NoSilentLoss, Fault
  <1>1. ASSUME NEW x \in Workers, pc'[x] # "down" PROVE bound'[x]
    <2>1. ASSUME NEW w \in Workers, Start(w) \/ Process(w) \/ Fails(w) PROVE bound'[x]
      BY <1>0, <1>1, <2>1 DEF CleanedUp, Goto, Leave, At, Process, Fails, KvPut, Start, KvGet,
         Stat, Copy, CopySourceMissing, Delete, Notify, Cleanup, CleanupDone, Ack, Nak,
         StartWithoutKv, StartOffline, Crash, KvPutFails, KvGetFails, StatFails, CopyFails,
         DeleteFails, SettlementLost
    <2>2. ASSUME NEW w \in Workers, NEW m \in Messages,
                 Publish(m) \/ AckWaitExpires(m) \/ Fetch(w, m)
          PROVE  bound'[x]
      BY <1>1, <2>2 DEF CleanedUp, Publish, AckWaitExpires, Fetch, Goto, At, worker
    <2>3. ASSUME NEW w \in Workers, NEW f \in Files, NEW v \in Validators,
                 KvDelete(w, f, v) \/ KvDeleteFails(w, f, v) \/ KvExpires(f, v)
          PROVE  bound'[x]
      BY <1>1, <2>3 DEF CleanedUp, KvDelete, KvDeleteFails, KvExpires, Goto, At, worker
    <2> QED BY <1>1, <2>1, <2>2, <2>3, WorkersAssumption DEF Next, vars, worker, CleanedUp
  <1>2. ASSUME NEW x \in Workers, pc'[x] \in {"cleanup", "cleaning"}
        PROVE  "quarantined" \notin location'[FileOf(x)']
    <2>1. FileOf(x) \in Files
      BY MessageType DEF FileOf
    <2>2. Stays(x) \/ Stat(x) \/ Delete(x) \/ Notify(x) \/ Cleanup(x)
      BY <1>0, <1>2, OwnSteps DEF Goto, Leave, At, Process, Fails, KvPut, Start, KvGet,
         Copy, CopySourceMissing, CleanupDone, Ack, Nak, AfterCopy, Fetch, Stays,
         StartWithoutKv, StartOffline, Crash, KvPutFails, KvGetFails, StatFails, CopyFails,
         DeleteFails, SettlementLost, KvDeleteFails
    <2>3. job'[x] = job[x]
      BY <2>2 DEF Stays, Stat, Delete, Notify, Cleanup
    <2>4. "quarantined" \notin location[FileOf(x)] \/ Delete(x)
      BY <1>2, <2>2 DEF CleanedUp, Routed, Stays, Stat, Notify, Cleanup, Goto, At, AfterNotify,
         FirstStep
    <2>5. CASE Delete(x)
      BY <2>1, <2>3, <2>5 DEF Delete, RemoveObject, FileOf
    <2> QED BY <1>0, <2>1, <2>3, <2>4, <2>5 DEF Monotone, FileOf
  <1>3. ASSUME NEW f \in Files, NEW v \in Validators, "quarantined" \in location'[f]
        PROVE  kv'[f][v] # "deleted" /\ \A w \in Workers : <<w, f, v>> \notin kvDeletes'
    <2>1. /\ "quarantined" \in location[f] /\ kv[f][v] # "deleted"
          /\ \A w \in Workers : <<w, f, v>> \notin kvDeletes
      BY <1>0, <1>3 DEF CleanedUp, Monotone
    <2>2. ASSUME NEW w \in Workers, NEW m \in Messages,
                 Publish(m) \/ AckWaitExpires(m) \/ Fetch(w, m)
          PROVE  UNCHANGED <<kv, kvDeletes>>
      BY <2>2 DEF Publish, AckWaitExpires, Fetch
    <2>3. ASSUME NEW w \in Workers, Start(w) \/ Process(w) \/ Fails(w)
          PROVE  UNCHANGED <<kv, kvDeletes>> \/ KvPut(w) \/ KvPutFails(w) \/ Cleanup(w)
      BY <2>3 DEF Process, Fails, Start, KvGet, Stat, Copy, CopySourceMissing, Delete, Notify,
         CleanupDone, Ack, Nak, StartWithoutKv, StartOffline, Crash, KvGetFails,
         StatFails, CopyFails, DeleteFails, SettlementLost
    <2>4. ASSUME NEW w \in Workers, KvPut(w) \/ KvPutFails(w)
          PROVE  kv'[f][v] # "deleted" /\ UNCHANGED kvDeletes
      <3>1. UNCHANGED kvDeletes /\ (UNCHANGED kv \/ Put(w))
        BY <2>4 DEF KvPut, KvPutFails
      <3>2. CASE Put(w)
        <4>1. kv'[f][v] = kv[f][v] \/ kv'[f][v] = job[w].status
          BY <3>2, MessageType DEF Put, FileOf, ValidatorOf
        <4> QED BY <2>1, <3>1, <4>1, MessageType DEF Statuses
      <3> QED BY <2>1, <3>1, <3>2
    <2>5. ASSUME NEW w \in Workers, Cleanup(w)
          PROVE  UNCHANGED kv /\ \A y \in Workers : <<y, f, v>> \notin kvDeletes'
      BY <2>1, <2>5 DEF Cleanup, CleanedUp, At
    <2>6. ASSUME NEW w \in Workers, NEW g \in Files, NEW u \in Validators,
                 KvDelete(w, g, u) \/ KvDeleteFails(w, g, u)
          PROVE  /\ kv'[f][v] # "deleted"
                 /\ \A y \in Workers : <<y, f, v>> \notin kvDeletes'
      BY <2>1, <2>6 DEF KvDelete, KvDeleteFails
    <2>7. ASSUME NEW g \in Files, NEW u \in Validators PROVE ~KvExpires(g, u)
      BY <1>0 DEF KvExpires
    <2> QED
      BY <2>1, <2>2, <2>3, <2>4, <2>5, <2>6, <2>7, WorkersAssumption DEF Next, vars
  <1> QED BY <1>1, <1>2, <1>3 DEF CleanedUp, FileOf

\* While a file is in quarantine the store forgets nothing about it.
LEMMA StoreKept ==
  ASSUME NoSilentLoss, TypeInv, CleanedUp, [Next]_vars,
         NEW f \in Files, NEW v \in Validators, "quarantined" \in location[f],
         kv[f][v] \in Statuses
  PROVE  kv'[f][v] \in Statuses
  <1> USE DEF TypeInv, TypeOK
  <1>1. ASSUME NEW w \in Workers, NEW g \in Files, NEW u \in Validators,
               KvDelete(w, g, u) \/ KvDeleteFails(w, g, u)
        PROVE  kv'[f][v] \in Statuses
    BY <1>1 DEF CleanedUp, KvDelete, KvDeleteFails
  <1>2. ASSUME NEW g \in Files, NEW u \in Validators PROVE ~KvExpires(g, u)
    BY DEF KvExpires, Fault, NoSilentLoss
  <1>3. ASSUME NEW w \in Workers, KvPut(w) \/ KvPutFails(w) PROVE kv'[f][v] \in Statuses
    <2>1. UNCHANGED kv \/ Put(w)
      BY <1>3 DEF KvPut, KvPutFails
    <2>2. CASE Put(w)
      <3>1. kv'[f][v] = kv[f][v] \/ kv'[f][v] = job[w].status
        BY <2>2, MessageType DEF Put, FileOf, ValidatorOf
      <3> QED BY <3>1, MessageType
    <2> QED BY <2>1, <2>2
  <1>4. ASSUME NEW w \in Workers, Start(w) \/ Process(w) \/ Fails(w)
        PROVE  UNCHANGED kv \/ KvPut(w) \/ KvPutFails(w)
    BY <1>4 DEF Process, Fails, Start, KvGet, Stat, Copy, CopySourceMissing, Delete, Notify,
       Cleanup, CleanupDone, Ack, Nak, StartWithoutKv, StartOffline, Crash, KvGetFails,
       StatFails, CopyFails, DeleteFails, SettlementLost
  <1>5. ASSUME NEW w \in Workers, NEW m \in Messages,
               Publish(m) \/ AckWaitExpires(m) \/ Fetch(w, m)
        PROVE  UNCHANGED kv
    BY <1>5 DEF Publish, AckWaitExpires, Fetch
  <1> QED BY <1>1, <1>2, <1>3, <1>4, <1>5, WorkersAssumption DEF Next, vars

\* A file still in quarantine gets a new waiter only by an empty look-up.
LEMMA NewWaiter ==
  ASSUME NoSilentLoss, TypeInv, CleanedUp, [Next]_vars,
         NEW f \in Files, NEW v \in Validators, "quarantined" \in location[f],
         Waited(f, v)', ~Waited(f, v)
  PROVE  \E w \in Workers : /\ KvGet(w) /\ FileOf(w) = f /\ ValidatorOf(w) = v
                            /\ kv[f][Other(v)] = "none"
  <1> USE DEF TypeInv, TypeOK
  <1>1. PICK m \in Messages :
          /\ m.file = f /\ m.validator = v
          /\ delivery'[m] = "acked" \/ \E w \in Workers : pc'[w] = "ack" /\ job'[w] = m
    BY DEF Waited
  <1>2. delivery[m] # "acked" /\ \A w \in Workers : ~(pc[w] = "ack" /\ job[w] = m)
    BY <1>1 DEF Waited
  <1>3. delivery'[m] # "acked"
    <2>1. ASSUME NEW w \in Workers, Start(w) \/ Process(w) \/ Fails(w)
          PROVE  delivery'[m] # "acked"
      <3>1. CASE Ack(w)
        BY <1>2, <3>1 DEF Ack, At
      <3>2. CASE Nak(w)
        BY <1>2, <3>2, RequeuedType DEF Nak
      <3> QED
        BY <1>2, <2>1, <3>1, <3>2 DEF stream, Process, Fails, Start, KvPut, KvGet, Stat, Copy,
           CopySourceMissing, Delete, Notify, Cleanup, CleanupDone, StartWithoutKv,
           StartOffline, Crash, KvPutFails, KvGetFails, StatFails, CopyFails, DeleteFails,
           SettlementLost
    <2>2. ASSUME NEW w \in Workers, NEW n \in Messages,
                 Publish(n) \/ AckWaitExpires(n) \/ Fetch(w, n)
          PROVE  delivery'[m] # "acked"
      BY <1>2, <2>2, RequeuedType DEF Publish, AckWaitExpires, Fetch
    <2>3. ASSUME NEW w \in Workers, NEW g \in Files, NEW u \in Validators,
                 KvDelete(w, g, u) \/ KvDeleteFails(w, g, u) \/ KvExpires(g, u)
          PROVE  UNCHANGED delivery
      BY <2>3 DEF KvDelete, KvDeleteFails, KvExpires, stream
    <2> QED BY <1>2, <2>1, <2>2, <2>3, WorkersAssumption DEF Next, vars, stream
  <1>4. PICK w \in Workers : pc'[w] = "ack" /\ job'[w] = m
    BY <1>1, <1>3
  <1>5. ~(pc[w] = "ack" /\ job[w] = m)
    BY <1>2
  <1>6. CASE KvGet(w)
    BY <1>1, <1>4, <1>6 DEF KvGet, Goto, At, FileOf, ValidatorOf, Statuses
  <1>7. CASE CleanupDone(w)
    BY <1>1, <1>4, <1>7 DEF CleanupDone, CleanedUp, At, FileOf
  <1>8. CASE \E g \in Files, u \in Validators : KvDeleteFails(w, g, u)
    BY <1>1, <1>4, <1>5, <1>8 DEF KvDeleteFails, CleanedUp, At, FileOf
  <1>9. CASE \E n \in Messages : Fetch(w, n)
    BY <1>4, <1>9 DEF Fetch, CleanedUp, At, Goto
  <1>10. CASE Start(w) \/ Fails(w)
    BY <1>4, <1>10 DEF Fails, Start, StartWithoutKv, StartOffline, Crash, KvPutFails,
       KvGetFails, StatFails, CopyFails, DeleteFails, SettlementLost, Goto, Leave
  <1>11. CASE Process(w) /\ ~KvGet(w) /\ ~CleanupDone(w)
    BY <1>4, <1>11, RouteType DEF Process, KvPut, Stat, Copy, CopySourceMissing, Delete, Notify,
       Cleanup, Ack, Nak, Goto, Leave
  <1>12. CASE Stays(w)
    BY <1>4, <1>5, <1>12 DEF Stays
  <1> QED BY <1>6, <1>7, <1>8, <1>9, <1>10, <1>11, <1>12, OwnSteps

LEMMA OneWaitsNext ==
  ASSUME NoSilentLoss, TypeInv, SettleInv, [Next]_vars
  PROVE  OneWaits'
  <1> USE DEF SettleInv
  <1>0. Monotone
    BY Monotonicity
  <1>1. ASSUME NEW x \in Workers, pc'[x] = "get", "quarantined" \in location'[FileOf(x)']
        PROVE  kv'[FileOf(x)'][ValidatorOf(x)'] \in Statuses
    <2>1. Stays(x) \/ KvPut(x)
      BY <1>1, OwnSteps, RouteType DEF TypeInv, TypeOK, Goto, Leave, Process, Fails, Start, KvGet, Stat,
         Copy, CopySourceMissing, Delete, Notify, Cleanup, CleanupDone, Ack, Nak, Fetch,
         StartWithoutKv, StartOffline, Crash, KvPutFails, KvGetFails, StatFails, CopyFails,
         DeleteFails, SettlementLost, KvDeleteFails, Stays
    <2>2. /\ job'[x] = job[x] /\ job[x] \in Messages
          /\ FileOf(x) \in Files /\ ValidatorOf(x) \in Validators
      BY <2>1, MessageType DEF Stays, KvPut, TypeInv, TypeOK, FileOf, ValidatorOf
    <2>3. CASE KvPut(x)
      BY <2>2, <2>3, MessageType DEF KvPut, Put, FileOf, ValidatorOf, TypeInv, TypeOK
    <2>4. CASE Stays(x)
      <3>1. "quarantined" \in location[FileOf(x)]
        BY <1>0, <1>1, <2>2 DEF Monotone, FileOf
      <3>2. kv[FileOf(x)][ValidatorOf(x)] \in Statuses
        BY <1>1, <2>4, <3>1 DEF Stays, OneWaits
      <3>3. kv'[FileOf(x)][ValidatorOf(x)] \in Statuses
        BY <2>2, <3>1, <3>2, StoreKept
      <3> QED BY <2>2, <3>3 DEF FileOf, ValidatorOf
    <2> QED BY <2>1, <2>3, <2>4
  <1>2. ASSUME NEW f \in Files, NEW v \in Validators, "quarantined" \in location'[f], Waited(f, v)'
        PROVE  kv'[f][v] \in Statuses /\ ~Waited(f, Other(v))'
    <2>0. "quarantined" \in location[f] /\ Other(v) \in Validators /\ Other(Other(v)) = v
      BY <1>0, <1>2, OtherType DEF Monotone, Other, Validators
    \* A new waiter of one validator and a waiter, new or old, of the other.
    <2>1. ASSUME NEW u \in Validators, Other(Other(u)) = u, ~Waited(f, u), Waited(f, u)'
          PROVE  /\ kv[f][u] \in Statuses
                 /\ ~Waited(f, Other(u)) /\ ~Waited(f, Other(u))'
      <3>1. PICK w \in Workers : /\ KvGet(w) /\ FileOf(w) = f /\ ValidatorOf(w) = u
                                /\ kv[f][Other(u)] = "none"
        BY <2>0, <2>1, NewWaiter
      <3>2. kv[f][u] \in Statuses
        BY <2>0, <3>1 DEF OneWaits, KvGet, At
      <3>3. Other(u) \in Validators
        BY OtherType
      <3>4. ~Waited(f, Other(u))
        BY <2>0, <3>1, <3>3 DEF OneWaits, Statuses
      <3>5. ASSUME Waited(f, Other(u))' PROVE FALSE
        <4>1. PICK y \in Workers : KvGet(y) /\ FileOf(y) = f /\ ValidatorOf(y) = Other(u)
          BY <2>0, <3>3, <3>4, <3>5, NewWaiter
        <4>2. kv[f][Other(u)] \in Statuses
          BY <2>0, <4>1 DEF OneWaits, KvGet, At
        <4> QED BY <3>1, <4>2 DEF Statuses
      <3> QED BY <3>2, <3>4, <3>5
    <2>2. CASE Waited(f, v)
      <3>1. kv[f][v] \in Statuses /\ ~Waited(f, Other(v))
        BY <2>0, <2>2 DEF OneWaits
      <3>2. ~Waited(f, Other(v))'
        BY <2>0, <2>1, <2>2, <3>1
      <3> QED BY <2>0, <3>1, <3>2, StoreKept
    <2>3. CASE ~Waited(f, v)
      BY <1>2, <2>0, <2>1, <2>3, StoreKept
    <2> QED BY <2>2, <2>3
  <1> QED BY <1>1, <1>2 DEF OneWaits

\* Put before get: when a result of each validator has been acknowledged the
\* file has left quarantine, on any number of replicas and under crashes, S3
\* and key-value errors, lost acknowledgements and early redeliveries
\* (processValidationResult).
THEOREM Settlement == NoSilentLoss => (Spec => []HandledWhenSettled)
  <1> SUFFICES ASSUME NoSilentLoss PROVE Spec => []HandledWhenSettled
    OBVIOUS
  <1>1. Init => SettleInv
    BY DEF Init, SettleInv, CleanedUp, OneWaits, Waited, Statuses
  <1>2. SafetyInv /\ SettleInv /\ [Next]_vars => SettleInv'
    BY CleanedUpNext, OneWaitsNext DEF SafetyInv, SettleInv
  <1>3. SettleInv => HandledWhenSettled
    <2> SUFFICES ASSUME SettleInv, NEW f \in Files, "quarantined" \in location[f],
                        \A v \in Validators : Settled(f, v)
                 PROVE  FALSE
      BY DEF HandledWhenSettled
    <2>1. \A v \in Validators : Waited(f, v)
      BY DEF Settled, Waited
    <2> QED BY <2>1 DEF SettleInv, OneWaits, Validators, Other
  <1> QED BY <1>1, <1>2, <1>3, SafetyInvariant, PTL DEF Spec

----------------------------------------------------------------------------
(* Deliveries and faults: while its file is in quarantine, each delivery of *)
(* a result that did not settle it was paid for by a fault of its own.      *)

\* The workers that failed on the message and have not handed it back yet.
Failing(m) == {w \in Workers : job[w] = m /\ pc[w] = "nak"}
Held(m)    == \E w \in Workers : Holds(w, m)

\* What a step may do to a message: leave it, at the price of a fault if its
\* last holder goes; ...
Kept(m) ==
  /\ delivery'[m] = delivery[m] /\ count'[m] = count[m]
  /\ Failing(m)' \subseteq Failing(m)
  /\ faults' \in {faults, faults + 1}
  /\ \/ Held(m) => Held(m)'
     \/ faults' = faults + 1
     \/ delivery[m] # "inflight"
\* ... fail on it, at the price of a fault; ...
FailedOn(m) ==
  /\ delivery'[m] = delivery[m] /\ count'[m] = count[m]
  /\ \E w \in Workers : Failing(m)' = Failing(m) \cup {w}
  /\ faults' = faults + 1
  /\ Held(m) => Held(m)'
\* ... publish it, deliver it, settle it; ...
Arrived(m) ==
  /\ delivery[m] = "unsent" /\ delivery'[m] = "ready" /\ count'[m] = count[m]
  /\ Failing(m)' \subseteq Failing(m) /\ faults' = faults
Delivered(m) ==
  /\ delivery[m] = "ready" /\ delivery'[m] = "inflight" /\ count'[m] = count[m] + 1
  /\ Failing(m)' \subseteq Failing(m) /\ faults' = faults /\ Held(m)'
Acked(m) == delivery'[m] = "acked" /\ Failing(m)' \subseteq Failing(m)
\* ... or have it delivered again: nobody holds it, a fault happens, or one of
\* the workers that failed on it hands it back.
Again(m) ==
  /\ delivery[m] = "inflight" /\ delivery'[m] = Requeued(m) /\ count'[m] = count[m]
  /\ \/ ~Held(m) /\ faults' = faults /\ Failing(m)' = Failing(m)
     \/ faults' = faults + 1 /\ Failing(m)' = Failing(m)
     \/ faults' = faults /\ \E w \in Failing(m) : Failing(m)' = Failing(m) \ {w}

MessageStep(m) ==
  Kept(m) \/ FailedOn(m) \/ Arrived(m) \/ Delivered(m) \/ Acked(m) \/ Again(m)

\* A worker leaves every message alone by moving on to a step that is no nak.
LEMMA MovingOn ==
  ASSUME TypeInv, NEW w \in Workers, NEW s, NEW m \in Messages, Busy(w),
         s \notin {"down", "off", "idle", "nak"}, pc' = [pc EXCEPT ![w] = s],
         UNCHANGED <<stream, job>>, faults' \in {faults, faults + 1}
  PROVE  Kept(m)
  BY DEF Kept, Failing, Held, Holds, Busy, stream, TypeInv, TypeOK

\* A failing call costs a fault.
LEMMA FailingCall ==
  ASSUME TypeInv, NEW w \in Workers, NEW m \in Messages, Busy(w), pc[w] # "nak",
         pc' = [pc EXCEPT ![w] = "nak"], UNCHANGED <<stream, job>>,
         faults' = faults + 1 \/ (faults' = faults /\ job[w] # m)
  PROVE  Kept(m) \/ FailedOn(m)
  <1> USE DEF TypeInv, TypeOK, stream
  <1>1. CASE job[w] = m
    <2>1. Failing(m)' = Failing(m) \cup {w}
      BY <1>1 DEF Failing
    <2>2. Held(m)'
      BY <1>1 DEF Held, Holds
    <2> QED BY <1>1, <2>1, <2>2 DEF FailedOn
  <1>2. CASE job[w] # m
    <2>1. Failing(m)' = Failing(m)
      BY <1>2 DEF Failing
    <2>2. Held(m)' = Held(m)
      BY <1>2 DEF Held, Holds
    <2> QED BY <1>2, <2>1, <2>2 DEF Kept
  <1> QED BY <1>1, <1>2

\* A worker that has no message takes none by a change of its state.
LEMMA IdleStep ==
  ASSUME TypeInv, NEW w \in Workers, NEW s \in {"down", "off", "idle"}, NEW m \in Messages,
         ~Busy(w), pc' = [pc EXCEPT ![w] = s], UNCHANGED <<stream, job>>,
         faults' \in {faults, faults + 1}
  PROVE  Kept(m)
  BY DEF Kept, Failing, Held, Holds, Busy, stream, TypeInv, TypeOK

\* A worker that dies, or whose settlement gets lost, costs a fault.
LEMMA LeavingStep ==
  ASSUME TypeInv, NEW w \in Workers, NEW s \in {"down", "off", "idle"}, NEW m \in Messages,
         Leave(w, s), UNCHANGED stream, faults' = faults + 1
  PROVE  Kept(m)
  <1>1. Failing(m)' \subseteq Failing(m)
    BY DEF Failing, Leave, Goto, TypeInv, TypeOK
  <1> QED BY <1>1 DEF Kept, stream

\* Acknowledging and handing back.
LEMMA SettlingStep ==
  ASSUME TypeInv, NEW w \in Workers, NEW m \in Messages, Ack(w) \/ Nak(w)
  PROVE  MessageStep(m)
  <1> USE DEF TypeInv, TypeOK, MessageStep
  <1>1. Failing(m)' = Failing(m) \ {w}
    BY DEF Ack, Nak, Leave, Goto, Failing
  <1>2. UNCHANGED <<count, faults>>
    BY DEF Ack, Nak
  <1>3. CASE job[w] # m
    <2>1. Held(m) => Held(m)'
      BY <1>3 DEF Held, Holds, Ack, Nak, Leave, Goto
    <2>2. delivery'[m] = delivery[m]
      BY <1>3 DEF Ack, Nak
    <2> QED BY <1>1, <1>2, <2>1, <2>2 DEF Kept
  <1>4. CASE job[w] = m /\ Ack(w)
    BY <1>1, <1>4 DEF Ack, Acked
  <1>5. CASE job[w] = m /\ Nak(w) /\ delivery[m] # "inflight"
    BY <1>1, <1>2, <1>5 DEF Nak, Kept
  <1>6. CASE job[w] = m /\ Nak(w) /\ delivery[m] = "inflight"
    <2>1. w \in Failing(m)
      BY <1>6 DEF Failing, Nak, At
    <2>2. delivery'[m] = Requeued(m)
      BY <1>6 DEF Nak
    <2> QED BY <1>1, <1>2, <1>6, <2>1, <2>2 DEF Again
  <1> QED BY <1>3, <1>4, <1>5, <1>6

\* Delivering a message, and delivering it again.
LEMMA StreamStep ==
  ASSUME TypeInv, CleanedUp, NEW m \in Messages, NEW n \in Messages,
         Publish(n) \/ AckWaitExpires(n) \/ \E w \in Workers : Fetch(w, n)
  PROVE  MessageStep(m)
  <1> USE DEF TypeInv, TypeOK, MessageStep
  <1>1. CASE Publish(n) \/ AckWaitExpires(n)
    <2>1. UNCHANGED <<worker, count>> /\ faults' \in {faults, faults + 1}
      BY <1>1 DEF Publish, AckWaitExpires, NoFault, Fault
    <2>2. Failing(m)' = Failing(m) /\ Held(m)' = Held(m)
      BY <2>1 DEF Failing, Held, Holds, worker
    <2>3. CASE n # m
      BY <1>1, <2>1, <2>2, <2>3 DEF Publish, AckWaitExpires, Kept
    <2>4. CASE n = m /\ Publish(n)
      BY <2>1, <2>2, <2>4 DEF Publish, Arrived
    <2>5. CASE n = m /\ AckWaitExpires(n)
      BY <2>1, <2>2, <2>5 DEF AckWaitExpires, Again, Held, NoFault, Fault
    <2> QED BY <1>1, <2>3, <2>4, <2>5
  <1>2. ASSUME NEW w \in Workers, Fetch(w, n) PROVE MessageStep(m)
    <2>1. /\ pc[w] = "idle" /\ bound[w] /\ job' = [job EXCEPT ![w] = n]
          /\ pc' = [pc EXCEPT ![w] = "put"] /\ UNCHANGED faults
      BY <1>2 DEF Fetch, At, Goto, CleanedUp
    <2>2. Failing(m)' \subseteq Failing(m)
      BY <2>1 DEF Failing
    <2>3. CASE n = m
      <3>1. Held(m)'
        BY <2>1, <2>3 DEF Held, Holds
      <3> QED BY <1>2, <2>1, <2>2, <2>3, <3>1 DEF Fetch, Delivered
    <2>4. CASE n # m
      <3>1. Held(m) => Held(m)'
        BY <2>1, <2>4 DEF Held, Holds
      <3> QED BY <1>2, <2>1, <2>2, <2>4, <3>1 DEF Fetch, Kept
    <2> QED BY <2>3, <2>4
  <1> QED BY <1>1, <1>2

\* Of a message whose file is in quarantine, every step is one of those.
LEMMA MessageSteps ==
  ASSUME NoSilentLoss, TypeInv, CleanedUp, [Next]_vars, NEW m \in Messages,
         "quarantined" \in location[m.file]
  PROVE  MessageStep(m)
  <1> USE DEF TypeInv, TypeOK
  <1>1. ASSUME NEW w \in Workers, Copy(w) \/ Delete(w) \/ Notify(w) \/ Stat(w) \/ KvPut(w)
                                 \/ Cleanup(w) \/ CleanupDone(w)
        PROVE  MessageStep(m)
    <2>1. /\ UNCHANGED <<stream, job, faults>> /\ Busy(w)
          /\ \E s \in Steps \ {"down", "off", "idle", "nak"} : pc' = [pc EXCEPT ![w] = s]
      BY <1>1 DEF Copy, Delete, Notify, Stat, KvPut, Cleanup, CleanupDone, At, Goto, Busy,
         AfterCopy, AfterDelete, AfterNotify, FirstStep, Steps
    <2> QED BY <2>1, MovingOn DEF MessageStep
  <1>2. ASSUME NEW w \in Workers, KvGet(w) PROVE MessageStep(m)
    <2> DEFINE entry == kv[FileOf(w)][Other(ValidatorOf(w))]
    <2>1. UNCHANGED <<stream, job, faults>> /\ Busy(w) /\ pc[w] # "nak"
      BY <1>2 DEF KvGet, At, Busy
    <2>2. CASE entry = "deleted" /\ Goto(w, "nak")
      <3>1. job[w] # m
        BY <2>2, MessageType DEF CleanedUp, FileOf, ValidatorOf, Other, Validators
      <3> QED BY <2>1, <2>2, <3>1, FailingCall DEF MessageStep, Goto
    <2>3. CASE \E s \in {"ack", "stat"} : Goto(w, s)
      BY <2>1, <2>3, MovingOn DEF MessageStep, Goto
    <2> QED BY <1>2, <2>2, <2>3 DEF KvGet
  <1>3. ASSUME NEW w \in Workers, CopySourceMissing(w) PROVE MessageStep(m)
    <2>1. job[w] # m
      BY <1>3 DEF CopySourceMissing, FileOf
    <2> QED BY <1>3, <2>1, FailingCall DEF CopySourceMissing, MessageStep, Goto, At, Busy
  <1>4. ASSUME NEW w \in Workers, KvPutFails(w) \/ KvGetFails(w) \/ CopyFails(w) \/ DeleteFails(w)
        PROVE  MessageStep(m)
    <2>1. /\ UNCHANGED <<stream, job>> /\ Busy(w) /\ pc[w] # "nak" /\ faults' = faults + 1
          /\ pc' = [pc EXCEPT ![w] = "nak"]
      BY <1>4 DEF KvPutFails, KvGetFails, CopyFails, DeleteFails, At, Goto, Busy, Fault
    <2> QED BY <2>1, FailingCall DEF MessageStep
  <1>5. ASSUME NEW w \in Workers, Start(w) PROVE MessageStep(m)
    BY <1>5, IdleStep DEF Start, MessageStep, At, Goto, Busy, NoFault
  <1>6. ASSUME NEW w \in Workers, Crash(w) \/ SettlementLost(w) PROVE MessageStep(m)
    BY <1>6, LeavingStep DEF Crash, SettlementLost, MessageStep, Fault
  <1>7. ASSUME NEW w \in Workers, StatFails(w) \/ StartWithoutKv(w) \/ StartOffline(w)
        PROVE  FALSE
    BY <1>7 DEF NoSilentLoss, StatFails, StartWithoutKv, StartOffline, Fault
  <1>8. ASSUME NEW w \in Workers, Start(w) \/ Process(w) \/ Fails(w) PROVE MessageStep(m)
    BY <1>1, <1>2, <1>3, <1>4, <1>5, <1>6, <1>7, <1>8, SettlingStep DEF Process, Fails
  <1>9. ASSUME NEW w \in Workers, NEW f \in Files, NEW v \in Validators,
               KvDelete(w, f, v) \/ KvDeleteFails(w, f, v) \/ KvExpires(f, v)
        PROVE  MessageStep(m)
    <2>1. /\ UNCHANGED <<stream, job>> /\ faults' \in {faults, faults + 1}
          /\ UNCHANGED pc \/ (pc[w] = "cleaning" /\ pc' = [pc EXCEPT ![w] = "ack"])
      BY <1>9 DEF KvDelete, KvDeleteFails, KvExpires, worker, Fault, At, Goto
    <2>2. CASE UNCHANGED pc
      BY <2>1, <2>2 DEF MessageStep, Kept, Failing, Held, Holds, stream
    <2>3. CASE pc[w] = "cleaning" /\ pc' = [pc EXCEPT ![w] = "ack"]
      BY <2>1, <2>3, MovingOn DEF MessageStep, Busy
    <2> QED BY <2>1, <2>2, <2>3
  <1>10. CASE UNCHANGED vars
    BY <1>10 DEF vars, worker, stream, MessageStep, Kept, Failing, Held, Holds
  <1> HIDE DEF TypeInv, TypeOK
  <1>11. CASE Next
    BY <1>8, <1>9, <1>11, StreamStep, WorkersAssumption DEF Next
  <1> QED BY <1>10, <1>11

\* How often a message was delivered is paid for by faults, but for the delivery
\* that is at work.
Paid(m) == IF delivery[m] = "inflight" /\ Held(m) THEN faults + 1 ELSE faults
PaidFor(m) ==
  /\ IsFiniteSet(Failing(m))
  /\ delivery[m] # "acked" => count[m] + Cardinality(Failing(m)) <= Paid(m)

LEMMA PaidNext ==
  ASSUME TypeInv, NEW m \in Messages, PaidFor(m),
         count'[m] \in Nat, faults' \in Nat,
         MessageStep(m)
  PROVE  PaidFor(m)'
  <1> DEFINE F == Failing(m)
             t == count[m]
  <1>1. t \in Nat /\ faults \in Nat /\ IsFiniteSet(F) /\ Cardinality(F) \in Nat
    BY FS_CardinalityType, DeliverAssumption, FaultsAssumption DEF TypeInv, TypeOK, PaidFor
  <1>2. ASSUME F' \subseteq F
        PROVE  IsFiniteSet(F') /\ Cardinality(F') \in Nat /\ Cardinality(F') <= Cardinality(F)
    BY <1>1, <1>2, FS_Subset, FS_CardinalityType
  <1>3. ASSUME NEW r, F' = F \cup {r}
        PROVE  IsFiniteSet(F') /\ Cardinality(F') \in Nat /\ Cardinality(F') <= Cardinality(F) + 1
    <2>1. IsFiniteSet(F \cup {r}) /\ Cardinality(F \cup {r}) \in {Cardinality(F), Cardinality(F) + 1}
      BY <1>1, FS_AddElement
    <2> QED BY <1>1, <1>3, <2>1
  <1>4. ASSUME NEW r \in F, F' = F \ {r}
        PROVE  IsFiniteSet(F') /\ Cardinality(F') \in Nat /\ Cardinality(F') = Cardinality(F) - 1
    <2>1. IsFiniteSet(F \ {r}) /\ Cardinality(F \ {r}) = Cardinality(F) - 1
      BY <1>1, FS_RemoveElement
    <2> QED BY <1>4, <2>1, FS_CardinalityType
  <1> HIDE DEF F
  <1>5. delivery[m] # "acked" => t + Cardinality(F) <= Paid(m)
    BY DEF PaidFor, F
  <1>6. Requeued(m) \in {"ready", "exhausted"}
    BY RequeuedType
  <1> SUFFICES /\ IsFiniteSet(F')
               /\ delivery'[m] # "acked" => count'[m] + Cardinality(F') <= Paid(m)'
    BY DEF PaidFor, F
  <1>7. CASE Kept(m)
    <2>1. F' \subseteq F
      BY <1>7 DEF Kept, F
    <2> QED BY <1>1, <1>2, <1>5, <1>7, <2>1 DEF Kept, Paid
  <1>8. CASE FailedOn(m)
    <2>1. PICK r \in Workers : F' = F \cup {r}
      BY <1>8 DEF FailedOn, F
    <2>2. IsFiniteSet(F') /\ Cardinality(F') \in Nat /\ Cardinality(F') <= Cardinality(F) + 1
      BY <1>3, <2>1
    <2> QED BY <1>1, <1>5, <1>8, <2>2 DEF FailedOn, Paid
  <1>9. CASE Delivered(m)
    <2>1. F' \subseteq F
      BY <1>9 DEF Delivered, F
    <2> QED BY <1>1, <1>2, <1>5, <1>9, <2>1 DEF Delivered, Paid
  <1>10. CASE Arrived(m)
    <2>1. F' \subseteq F
      BY <1>10 DEF Arrived, F
    <2> QED BY <1>1, <1>2, <1>5, <1>10, <2>1 DEF Arrived, Paid
  <1>11. CASE Acked(m)
    <2>1. F' \subseteq F
      BY <1>11 DEF Acked, F
    <2> QED BY <1>2, <1>11, <2>1 DEF Acked
  <1>12. CASE Again(m)
    <2>1. Paid(m)' = faults' /\ delivery[m] = "inflight" /\ count'[m] = t
      BY <1>6, <1>12 DEF Again, Paid
    <2>2. CASE ~Held(m) /\ faults' = faults /\ F' = F
      BY <1>1, <1>5, <2>1, <2>2 DEF Paid
    <2>3. CASE faults' = faults + 1 /\ F' = F
      BY <1>1, <1>5, <2>1, <2>3 DEF Paid
    <2>4. CASE faults' = faults /\ \E r \in F : F' = F \ {r}
      <3>1. IsFiniteSet(F') /\ Cardinality(F') \in Nat /\ Cardinality(F') = Cardinality(F) - 1
        BY <1>4, <2>4
      <3> QED BY <1>1, <1>5, <2>1, <2>4, <3>1 DEF Paid
    <2> QED BY <1>12, <2>2, <2>3, <2>4 DEF Again, F
  <1> QED BY <1>7, <1>8, <1>9, <1>10, <1>11, <1>12 DEF MessageStep

DeliveriesPaid == \A m \in Messages : "quarantined" \in location[m.file] =>
  /\ PaidFor(m)
  /\ delivery[m] = "exhausted" => count[m] >= MaxDeliver

LEMMA DeliveriesPaidNext ==
  ASSUME NoSilentLoss, TypeInv, CleanedUp, DeliveriesPaid, [Next]_vars
  PROVE  DeliveriesPaid'
  <1> SUFFICES ASSUME NEW m \in Messages, "quarantined" \in location'[m.file]
               PROVE  PaidFor(m)' /\ (delivery'[m] = "exhausted" => count'[m] >= MaxDeliver)
    BY DEF DeliveriesPaid
  <1>1. count[m] \in Nat /\ count'[m] \in Nat /\ faults' \in Nat /\ MaxDeliver \in Nat
    BY TypeNext, DeliverAssumption, FaultsAssumption DEF TypeInv, TypeOK
  <1>2. "quarantined" \in location[m.file]
    BY Monotonicity, MessagesAssumption DEF Monotone
  <1>3. PaidFor(m) /\ (delivery[m] = "exhausted" => count[m] >= MaxDeliver)
    BY <1>2 DEF DeliveriesPaid
  <1>4. MessageStep(m)
    BY <1>2, MessageSteps
  <1>5. PaidFor(m)'
    BY <1>1, <1>3, <1>4, PaidNext
  <1>6. delivery'[m] = "exhausted" => count'[m] >= MaxDeliver
    BY <1>1, <1>3, <1>4
    DEF MessageStep, Kept, FailedOn, Delivered, Again, Arrived, Acked, Requeued
  <1> QED BY <1>5, <1>6

LEMMA DeliveriesPaidInit == Init => DeliveriesPaid
  <1> SUFFICES ASSUME Init, NEW m \in Messages
               PROVE  PaidFor(m) /\ delivery[m] # "exhausted"
    BY DEF DeliveriesPaid
  <1>1. Failing(m) = {} /\ delivery[m] = "unsent" /\ count[m] = 0 /\ faults = 0
    BY DEF Init, Failing
  <1> QED BY <1>1, FS_EmptySet DEF PaidFor, Paid

\* A file still in quarantine although of each validator a result was
\* acknowledged or given up.
Abandoned(f) ==
  /\ "quarantined" \in location[f]
  /\ \A v \in Validators : \E m \in Messages :
       m.file = f /\ m.validator = v /\ delivery[m] \in {"acked", "exhausted"}

AbandonedOnlyOnFaults == (\E f \in Files : Abandoned(f)) => faults >= MaxDeliver

\* Under the same proviso no file is abandoned in quarantine before as many
\* faults have happened as there are deliveries: a redelivery, a wait for the
\* other result, a restart or a race of two replicas uses up none of its own
\* (processMessage's ack and nak, max_deliver).  It is the safety part of
\* LeavesQuarantine.
THEOREM AbandoningNeedsFaults == NoSilentLoss => (Spec => []AbandonedOnlyOnFaults)
  <1> SUFFICES ASSUME NoSilentLoss PROVE Spec => []AbandonedOnlyOnFaults
    OBVIOUS
  <1>1. Init => SettleInv
    BY DEF Init, SettleInv, CleanedUp, OneWaits, Waited, Statuses
  <1>2. SafetyInv /\ SettleInv /\ [Next]_vars => SettleInv'
    BY CleanedUpNext, OneWaitsNext DEF SafetyInv, SettleInv
  <1>3. SafetyInv /\ SettleInv /\ DeliveriesPaid /\ [Next]_vars => DeliveriesPaid'
    BY DeliveriesPaidNext DEF SafetyInv, SettleInv
  <1>4. SafetyInv /\ SettleInv /\ DeliveriesPaid => AbandonedOnlyOnFaults
    <2> SUFFICES ASSUME SafetyInv, SettleInv, DeliveriesPaid, NEW f \in Files, Abandoned(f)
                 PROVE  faults >= MaxDeliver
      BY DEF AbandonedOnlyOnFaults
    <2>1. ~ \A v \in Validators : Waited(f, v)
      BY DEF SettleInv, OneWaits, Abandoned, Validators, Other
    <2>2. PICK m \in Messages : m.file = f /\ delivery[m] = "exhausted"
      BY <2>1 DEF Abandoned, Waited
    <2>3. PaidFor(m) /\ count[m] >= MaxDeliver
      BY <2>2 DEF DeliveriesPaid, Abandoned
    <2>4. Cardinality(Failing(m)) \in Nat /\ count[m] \in Nat /\ faults \in Nat
      BY <2>3, FS_CardinalityType, DeliverAssumption, FaultsAssumption
      DEF PaidFor, SafetyInv, TypeInv, TypeOK
    <2> QED BY <2>2, <2>3, <2>4, DeliverAssumption DEF PaidFor, Paid
  <1> QED BY <1>1, <1>2, <1>3, <1>4, SafetyInvariant, DeliveriesPaidInit, PTL DEF Spec

=============================================================================
