------------------------- MODULE UploadSessionProofs -------------------------
(* What ChunkPlan and UploadSession promise for every configuration and      *)
(* every file.                                                               *)
EXTENDS UploadSession, TLAPS

----------------------------------------------------------------------------
(* The plan: calculateChunks cuts every file, with every chunk size, into a  *)
(* whole.                                                                    *)

LEMMA Products ==
  ASSUME NEW i \in Int, NEW j \in Int, NEW m \in Nat, i <= j
  PROVE  i * m <= j * m
  <1>1. (j - i) * m >= 0
    OBVIOUS
  <1>2. (j - i) * m = j * m - i * m
    OBVIOUS
  <1> QED BY <1>1, <1>2

\* TotalChunks is the ceiling: one chunk fewer would not hold the file, and
\* that many do.
LEMMA CeilingIsTight ==
  ASSUME NEW s \in Nat \ {0}, NEW m \in Nat \ {0}
  PROVE  /\ TotalChunks(s, m) \in Nat \ {0}
         /\ (TotalChunks(s, m) - 1) * m < s
         /\ s <= TotalChunks(s, m) * m
  <1> DEFINE n == (s + m - 1) \div m
  <1>1. n \in Int /\ n * m <= s + m - 1 /\ s + m - 1 < (n + 1) * m
    OBVIOUS
  <1> QED BY <1>1 DEF TotalChunks

\* Where a chunk begins and ends: the next one, if there is one, begins at the
\* byte after it, and the last ends with the file.
LEMMA ChunkBounds ==
  ASSUME NEW s \in Nat \ {0}, NEW m \in Nat \ {0},
         NEW i \in 1..TotalChunks(s, m)
  PROVE  /\ StartByte(m, i) \in Nat /\ EndByte(s, m, i) \in Nat
         /\ StartByte(m, i) <= EndByte(s, m, i)
         /\ i # TotalChunks(s, m) => EndByte(s, m, i) = StartByte(m, i + 1) - 1
         /\ i = TotalChunks(s, m) => EndByte(s, m, i) = s - 1
         /\ SizeOf(Chunk(s, m, i)) \in 1..m
  <1> DEFINE n == TotalChunks(s, m)
  <1>1. n \in Nat \ {0} /\ (n - 1) * m < s /\ s <= n * m
    BY CeilingIsTight
  <1>2. i \in Nat \ {0} /\ i <= n
    BY <1>1
  <1> HIDE DEF n
  <1>3. (i - 1) * m \in Nat /\ (i - 1) * m <= (n - 1) * m
    BY <1>1, <1>2, Products
  <1>4. i * m = (i - 1) * m + m
    BY <1>2
  <1>5. i # n => i * m <= (n - 1) * m
    BY <1>1, <1>2, Products
  <1>6. n * m = (n - 1) * m + m
    BY <1>1
  <1> DEFINE a == (i - 1) * m
  <1>7. a \in Nat /\ a < s /\ (i # n => a + m < s) /\ (i = n => s <= a + m)
    BY <1>1, <1>3, <1>4, <1>5, <1>6
  <1>8. StartByte(m, i) = a /\ StartByte(m, i + 1) = a + m
    BY <1>2, <1>4 DEF StartByte
  <1> HIDE DEF a
  <1>9. EndByte(s, m, i) = IF i = n THEN s - 1 ELSE a + m - 1
    BY <1>1, <1>2, <1>7, <1>8 DEF EndByte, Smaller
  <1> QED
    BY <1>7, <1>8, <1>9 DEF SizeOf, Chunk, n

\* calculateChunks cuts a file of any size, with any chunk size, into numbered
\* chunks that are contiguous from its first byte to its last.
THEOREM PlanIsWholeFile ==
  \A s, m \in Nat \ {0} : IsWholeFile(Chunks(s, m), s)
  <1> SUFFICES ASSUME NEW s \in Nat \ {0}, NEW m \in Nat \ {0}
               PROVE  IsWholeFile(Chunks(s, m), s)
    OBVIOUS
  <1> DEFINE n == TotalChunks(s, m)
             plan == Chunks(s, m)
  <1>1. n \in Nat \ {0}
    BY CeilingIsTight
  <1>2. \A p \in plan : p.number \in 1..n /\ p = Chunk(s, m, p.number)
    BY DEF Chunks, Chunk
  <1>3. Numbers(plan) = 1..n
    <2>1. \A i \in 1..n : Chunk(s, m, i) \in plan /\ Chunk(s, m, i).number = i
      BY DEF Chunks, Chunk
    <2> QED BY <1>2, <2>1 DEF Numbers
  <1>4. \A p, q \in plan : p.number = q.number => p = q
    BY <1>2
  <1>5. ASSUME NEW p \in plan
        PROVE  /\ p.start <= p.end
               /\ p.number = 1 => p.start = 0
               /\ p.number = n => p.end = s - 1
               /\ \A q \in plan : q.number = p.number + 1 => q.start = p.end + 1
    <2> DEFINE i == p.number
    <2>1. i \in 1..n /\ p.start = StartByte(m, i) /\ p.end = EndByte(s, m, i)
      BY <1>2 DEF Chunk
    <2>2. /\ StartByte(m, i) \in Nat /\ EndByte(s, m, i) \in Nat
          /\ StartByte(m, i) <= EndByte(s, m, i)
          /\ i # n => EndByte(s, m, i) = StartByte(m, i + 1) - 1
          /\ i = n => EndByte(s, m, i) = s - 1
      BY <2>1, ChunkBounds
    <2>3. StartByte(m, 1) = 0
      BY DEF StartByte
    <2>4. ASSUME NEW q \in plan, q.number = i + 1
          PROVE  q.start = p.end + 1
      <3>1. q.number \in 1..n /\ q.start = StartByte(m, i + 1)
        BY <1>2, <2>4 DEF Chunk
      <3>2. StartByte(m, i + 1) \in Nat /\ i # n
        BY <1>1, <2>1, <2>4, <3>1 DEF StartByte
      <3> QED BY <2>1, <2>2, <3>1, <3>2
    <2> QED BY <2>1, <2>2, <2>3, <2>4
  <1>6. n \in Numbers(plan)
    BY <1>1, <1>3
  <1> QED BY <1>3, <1>4, <1>5, <1>6 DEF IsWholeFile

\* The lastChunkSize that initiateUpload answers is the size of the last chunk
\* of its plan.
THEOREM LastChunkSizeIsTrue ==
  \A s, m \in Nat \ {0} :
    SizeOf(Chunk(s, m, TotalChunks(s, m))) = LastChunkSize(s, m)
  <1> SUFFICES ASSUME NEW s \in Nat \ {0}, NEW m \in Nat \ {0}
               PROVE  SizeOf(Chunk(s, m, TotalChunks(s, m))) = LastChunkSize(s, m)
    OBVIOUS
  <1> DEFINE n == TotalChunks(s, m)
             k == s \div m
             r == s % m
  <1>1. /\ n \in Nat \ {0} /\ (n - 1) * m < s /\ s <= n * m
        /\ n \in 1..n
    BY CeilingIsTight
  <1>2. EndByte(s, m, n) = s - 1
    BY <1>1, ChunkBounds
  <1>3. SizeOf(Chunk(s, m, n)) = s - (n - 1) * m
    BY <1>1, <1>2 DEF SizeOf, Chunk, StartByte
  <1>4. k \in Nat /\ r \in 0..(m - 1) /\ s = k * m + r
    OBVIOUS
  <1> HIDE DEF n, k, r
  <1>5. CASE r = 0
    <2>1. k = n
      <3>1. ASSUME k <= n - 1 PROVE FALSE
        BY <1>1, <1>4, <1>5, <3>1, Products
      <3>2. ASSUME n + 1 <= k PROVE FALSE
        <4>1. (n + 1) * m = n * m + m
          BY <1>1
        <4> QED BY <1>1, <1>4, <1>5, <3>2, <4>1, Products
      <3> QED BY <1>1, <1>4, <3>1, <3>2
    <2>2. (n - 1) * m = n * m - m
      BY <1>1
    <2> QED BY <1>1, <1>3, <1>4, <1>5, <2>1, <2>2 DEF LastChunkSize, n, r
  <1>6. CASE r # 0
    <2>1. k = n - 1
      <3>1. ASSUME k + 1 <= n - 1 PROVE FALSE
        <4>1. (k + 1) * m = k * m + m
          BY <1>4
        <4> QED BY <1>1, <1>4, <3>1, <4>1, Products
      <3>2. ASSUME n <= k PROVE FALSE
        BY <1>1, <1>4, <1>6, <3>2, Products
      <3> QED BY <1>1, <1>4, <3>1, <3>2
    <2> QED BY <1>1, <1>3, <1>4, <1>6, <2>1 DEF LastChunkSize, n, r
  <1> QED BY <1>5, <1>6

----------------------------------------------------------------------------
(* The session.                                                              *)

\* What holds of every upload that is resumed by the plan it was begun with:
\* all parts anyone holds are chunks of that plan, and an object is all of it.
PlanInv ==
  /\ parts \subseteq InitiatePlan(file)
  /\ urls \subseteq InitiatePlan(file)
  /\ known \subseteq InitiatePlan(file)
  /\ total \in {0, TotalChunks(file.size, InitiateChunk(file))}
  /\ object \in {{}, InitiatePlan(file)}

LEMMA Totals ==
  ASSUME file \in Files
  PROVE  /\ TotalChunks(file.size, InitiateChunk(file)) \in Nat \ {0}
         /\ TotalChunks(file.size, ResumeChunk(file)) \in Nat \ {0}
  <1>1. /\ file.size \in Nat \ {0} /\ InitiateChunk(file) \in Nat \ {0}
        /\ ResumeChunk(file) \in Nat \ {0}
    BY FilesAssumption, LimitsAssumption
  <1> QED BY <1>1, CeilingIsTight

LEMMA Budget ==
  ASSUME NEW kind \in Faults, Fault(kind), faults \in 0..MaxFaults
  PROVE  faults' \in 0..MaxFaults
  BY BudgetAssumption DEF Fault

\* Every variable keeps its type through every step.
LEMMA StepTypes == TypeOK /\ [Next]_vars => TypeOK'
  <1> SUFFICES ASSUME TypeOK, [Next]_vars PROVE TypeOK'
    OBVIOUS
  <1> USE DEF TypeOK, s3, client, NoFault, Queries, Answers, Sessions, Kinds, NoQuery
  <1>1. ASSUME UNCHANGED vars PROVE TypeOK'
    BY <1>1 DEF vars
  <1>2. CASE Initiate
    BY <1>2, Totals DEF Initiate
  <1>3. CASE InitiateRejected
    BY <1>3 DEF InitiateRejected
  <1>4. CASE InitiateFails
    BY <1>4, Budget DEF InitiateFails, Faults
  <1>5. ASSUME NEW c \in urls, Put(c) PROVE TypeOK'
    BY <1>5 DEF Put, Replacing
  <1>6. ASSUME NEW c \in urls, PutAnswerLost(c) PROVE TypeOK'
    BY <1>6, Budget DEF PutAnswerLost, Replacing, Faults
  <1>7. CASE ClientRestarts
    BY <1>7, Budget DEF ClientRestarts, Faults
  <1>8. CASE Complete
    BY <1>8 DEF Complete
  <1>9. CASE CompleteAnswerLost
    BY <1>9, Budget DEF CompleteAnswerLost, Faults
  <1>10. CASE CompleteFails
    BY <1>10, Budget DEF CompleteFails, Faults
  <1>11. CASE CompleteRefused
    BY <1>11 DEF CompleteRefused
  <1>12. CASE CompleteRejected
    BY <1>12 DEF CompleteRejected
  <1>13. CASE Moved
    BY <1>13 DEF Moved
  <1>14. ASSUME NEW kind \in Kinds, Ask(kind) PROVE TypeOK'
    BY <1>14 DEF Ask
  <1>15. CASE FindObject
    BY <1>15 DEF FindObject, Answered
  <1>16. CASE LookupFails
    BY <1>16, Budget DEF LookupFails, Answered, Faults
  <1>17. CASE NoPartsFound
    BY <1>17 DEF NoPartsFound, Answered
  <1>18. CASE StatusOfParts
    BY <1>18 DEF StatusOfParts, Answered
  <1>19. CASE ResumeAllUploaded
    BY <1>19 DEF ResumeAllUploaded, Answered
  <1>20. CASE ResumeMissing
    BY <1>20, Totals DEF ResumeMissing, Answered, Missing
  <1>21. CASE ResumeFails
    BY <1>21, Budget DEF ResumeFails, Answered, Faults
  <1> QED
    BY <1>1, <1>2, <1>3, <1>4, <1>5, <1>6, <1>7, <1>8, <1>9, <1>10, <1>11, <1>12,
       <1>13, <1>14, <1>15, <1>16, <1>17, <1>18, <1>19, <1>20, <1>21
    DEF Next, Service

THEOREM UploadTypes == Spec => []TypeOK
  <1>1. Init => TypeOK
    BY BudgetAssumption DEF Init, TypeOK, Sessions, Queries, Answers, NoQuery
  <1> QED BY <1>1, StepTypes, PTL DEF Spec

\* A client that has the parts 1 to totalChunks, all of them chunks of one
\* plan, has the whole of that plan.
LEMMA AllUploadedIsAll ==
  ASSUME file \in Files, known \subseteq InitiatePlan(file), AllUploaded,
         total \in {0, TotalChunks(file.size, InitiateChunk(file))}
  PROVE  known = InitiatePlan(file)
  <1> DEFINE m == InitiateChunk(file)
             n == TotalChunks(file.size, m)
  <1>1. Numbers(known) = 1..n
    BY DEF AllUploaded
  <1>2. \A p \in InitiatePlan(file) : p.number \in 1..n /\ p = Chunk(file.size, m, p.number)
    BY DEF InitiatePlan, Chunks, Chunk
  <1>3. ASSUME NEW p \in InitiatePlan(file) PROVE p \in known
    <2>1. PICK q \in known : q.number = p.number
      BY <1>1, <1>2 DEF Numbers
    <2> QED BY <1>2, <2>1
  <1> QED BY <1>3

\* When resuming plans as initiating did, every step keeps to that plan.
LEMMA StepPlan ==
  ASSUME ConsistentPlans, TypeOK, PlanInv, [Next]_vars
  PROVE  PlanInv'
  <1> USE DEF PlanInv, s3, client
  <1>1. file \in Files /\ ResumeChunk(file) = InitiateChunk(file)
    BY DEF TypeOK, ConsistentPlans
  <1>2. CASE UNCHANGED <<file, s3, urls, known, total>>
    BY <1>2
  <1>3. CASE Initiate
    BY <1>3 DEF Initiate
  <1>4. ASSUME NEW c \in urls, Put(c) PROVE PlanInv'
    BY <1>4 DEF Put, Replacing
  <1>5. ASSUME NEW c \in urls, PutAnswerLost(c) PROVE PlanInv'
    BY <1>5 DEF PutAnswerLost, Replacing
  <1>6. CASE ClientRestarts
    BY <1>6 DEF ClientRestarts
  <1>7. CASE Complete \/ CompleteAnswerLost
    <2>1. object' = known /\ known = InitiatePlan(file)
      BY <1>1, <1>7, AllUploadedIsAll DEF Complete, CompleteAnswerLost, MayAssemble
    <2> QED BY <1>7, <2>1 DEF Complete, CompleteAnswerLost
  <1>8. CASE Moved
    BY <1>8 DEF Moved
  <1>9. CASE StatusOfParts
    BY <1>9 DEF StatusOfParts
  <1>10. CASE ResumeMissing
    <2>1. Missing(file, parts) \subseteq InitiatePlan(file)
      BY <1>1 DEF Missing, ResumePlan, InitiatePlan
    <2> QED BY <1>1, <1>10, <2>1 DEF ResumeMissing
  <1>11. ASSUME NEW kind \in Kinds, Ask(kind) PROVE PlanInv'
    BY <1>11 DEF Ask
  <1> QED
    BY <1>2, <1>3, <1>4, <1>5, <1>6, <1>7, <1>8, <1>9, <1>10, <1>11
    DEF Next, Service, vars, InitiateRejected, InitiateFails, CompleteFails,
        CompleteRefused, CompleteRejected, FindObject, LookupFails, NoPartsFound,
        ResumeAllUploaded, ResumeFails

\* As long as resuming plans the chunks as initiating did, whatever is lost,
\* repeated or resumed, S3 assembles the client's file.  The hypothesis is
\* needed: resumeUpload does not lower the extension, and a run shows the file
\* it spoils.
THEOREM AssembledIsWhole == ConsistentPlans => (Spec => []WholeFile)
  <1> SUFFICES ASSUME ConsistentPlans PROVE Spec => []WholeFile
    OBVIOUS
  <1>1. Init => PlanInv
    BY DEF Init, PlanInv
  <1>2. TypeOK /\ PlanInv /\ [Next]_vars => PlanInv'
    BY StepPlan
  <1>3. TypeOK /\ PlanInv => WholeFile
    <2> SUFFICES ASSUME TypeOK, PlanInv, object # {}
                 PROVE  IsWholeFile(object, file.size)
      BY DEF WholeFile
    <2>1. file.size \in Nat \ {0} /\ InitiateChunk(file) \in Nat \ {0}
      BY FilesAssumption, LimitsAssumption DEF TypeOK
    <2> QED BY <2>1, PlanIsWholeFile DEF PlanInv, InitiatePlan
  <1> QED BY <1>1, <1>2, <1>3, UploadTypes, PTL DEF Spec

\* All chunks but the last are as large as the limit says.
LEMMA FullChunks ==
  ASSUME NEW s \in Nat \ {0}, NEW m \in Nat \ {0},
         NEW i \in 1..TotalChunks(s, m), i # TotalChunks(s, m)
  PROVE  SizeOf(Chunk(s, m, i)) = m
  <1>1. i \in Nat \ {0} /\ StartByte(m, i) \in Nat /\ EndByte(s, m, i) = StartByte(m, i + 1) - 1
    BY CeilingIsTight, ChunkBounds
  <1>2. StartByte(m, i) = (i - 1) * m /\ StartByte(m, i + 1) = (i - 1) * m + m
    <2>1. i * m = (i - 1) * m + m
      BY <1>1
    <2> QED BY <1>1, <2>1 DEF StartByte
  <1> QED BY <1>1, <1>2 DEF SizeOf, Chunk

\* Every file is cut into parts completeUpload accepts, or not cut at all.
AcceptableChunks == \A f \in Files :
  InitiateChunk(f) >= MinPart \/ f.size <= InitiateChunk(f)

\* What completeUpload refuses is a matter of the configuration alone: with
\* chunks of the least size it accepts, and plans that agree, an upload all of
\* whose chunks are there is never refused for a part too small.
THEOREM CompleteUploadsFinalize ==
  ConsistentPlans /\ AcceptableChunks => (Spec => []FinalizesWhenAllUploaded)
  <1> SUFFICES ASSUME ConsistentPlans, AcceptableChunks
               PROVE  Spec => []FinalizesWhenAllUploaded
    OBVIOUS
  <1>1. Init => PlanInv
    BY DEF Init, PlanInv
  <1>2. TypeOK /\ PlanInv /\ [Next]_vars => PlanInv'
    BY StepPlan
  <1>3. TypeOK /\ PlanInv => FinalizesWhenAllUploaded
    <2> SUFFICES ASSUME TypeOK, PlanInv, AllUploaded, NEW p \in known, NEW q \in known,
                        p.number < q.number
                 PROVE  ~(SizeOf(p) < MinPart)
      BY DEF FinalizesWhenAllUploaded, TooSmall
    <2> DEFINE s == file.size
               m == InitiateChunk(file)
               n == TotalChunks(s, m)
    <2>1. s \in Nat \ {0} /\ m \in Nat \ {0} /\ file \in Files
      BY FilesAssumption, LimitsAssumption DEF TypeOK
    <2>2. known = Chunks(s, m)
      BY <2>1, AllUploadedIsAll DEF PlanInv, InitiatePlan
    <2>3. /\ p = Chunk(s, m, p.number) /\ p.number \in 1..n /\ q.number \in 1..n
          /\ n \in Nat \ {0}
      BY <2>1, <2>2, CeilingIsTight DEF Chunks, Chunk
    <2>4. p.number # n
      <3> HIDE DEF n
      <3> QED BY <2>3
    <2>5. SizeOf(p) = m
      BY <2>1, <2>3, <2>4, FullChunks
    <2>6. ~(s <= m)
      <3>0. (n - 1) * m < s
        BY <2>1, CeilingIsTight
      <3> HIDE DEF n
      <3>1. n - 1 \in Nat /\ 1 <= n - 1 /\ (n - 1) * m < s
        BY <2>3, <3>0
      <3>2. 1 * m <= (n - 1) * m
        BY <2>1, <3>1, Products
      <3> QED BY <2>1, <3>1, <3>2
    <2> QED BY <2>1, <2>5, <2>6, MinPartAssumption DEF AcceptableChunks
  <1> QED BY <1>1, <1>2, <1>3, UploadTypes, PTL DEF Spec
==============================================================================
