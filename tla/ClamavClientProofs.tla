------------------------- MODULE ClamavClientProofs --------------------------
(* Proofs about ClamavClient, for every number of scans and probes, objects  *)
(* of any length, limits of clamd and faults.                                *)
EXTENDS ClamavClient, TLAPS

LEMMA FaultType ==
  ASSUME TypeOK, NoFault \/ \E kind \in Faults : Fault(kind)
  PROVE  faults' \in 0..MaxFaults
  BY BudgetAssumption DEF NoFault, Fault, TypeOK

\* Every reply is made something of, and only clamd's own words a verdict.
LEMMA ParseType ==
  ASSUME NEW r \in Replies
  PROVE  /\ Parse(r) \in {"passed", "failed", "error"}
         /\ Parse(r) \in {"passed", "failed"} => r \in {"OK", "FOUND", "OK FOUND"}
  BY DEF Parse, Replies

LEMMA VerdictType == \A s \in Scans : Verdict(s) \in Replies
  BY DEF Verdict, Replies

LEMMA ScanInit == Init => ScanInv
  <1> SUFFICES ASSUME Init PROVE ScanInv
    OBVIOUS
  <1>1. TypeOK
    BY ObjectsAssumption, BudgetAssumption
    DEF Init, TypeOK, Outcomes, Sockets, Inputs, Replies, ProbeSteps
  <1>2. TimerGuards
    BY DEF Init, TimerGuards, Settled, Running
  <1>3. ASSUME NEW s \in Scans PROVE Exact(s) /\ Begins(s)
    BY DEF Init, Exact, Begins, Settled, Heard
  <1> QED BY <1>1, <1>2, <1>3 DEF ScanInv

----------------------------------------------------------------------------
(* Types                                                                     *)

\* A chunk is read before it is passed on.
LEMMA ChunkCounts ==
  ASSUME TypeOK, NEW s \in Scans, Chunk(s)
  PROVE  /\ read' \in [Scans -> Nat] /\ received' \in [Scans -> Nat]
         /\ \A t \in Scans : received'[t] <= read'[t] /\ read'[t] <= Length[t]
  <1>1. /\ read' = [read EXCEPT ![s] = read[s] + 1]
        /\ \/ received' = [received EXCEPT ![s] = received[s] + 1]
           \/ received' = [received EXCEPT ![s] = received[s]]
    BY DEF Chunk
  <1>2. /\ read \in [Scans -> Nat] /\ received \in [Scans -> Nat]
        /\ \A t \in Scans : received[t] <= read[t] /\ read[t] <= Length[t]
    BY DEF TypeOK
  <1>3. read[s] < Length[s] /\ Length \in [Scans -> Nat]
    BY ObjectsAssumption DEF Chunk
  <1>4. CASE received' = [received EXCEPT ![s] = received[s] + 1]
    BY <1>1, <1>2, <1>3, <1>4
  <1>5. CASE received' = [received EXCEPT ![s] = received[s]]
    BY <1>1, <1>2, <1>3, <1>5
  <1> QED BY <1>1, <1>4, <1>5

\* What the callbacks of scan s do keeps every type.
LEMMA ClientTypes ==
  ASSUME TypeOK, NEW s \in Scans, Client(s)
  PROVE  TypeOK'
  <1> USE ObjectsAssumption, FaultType
      DEF TypeOK, Outcomes, Sockets, Inputs, Replies, Faults, NoFault, streams, peer, probes
  <1>1. CASE Download(s) \/ RequestStalls(s) \/ Open(s)
    BY <1>1 DEF Download, RequestStalls, Open, Becomes
  <1>2. CASE OpenFails(s)
    BY <1>2 DEF OpenFails, Settle
  <1>3. CASE Connected(s)
    BY <1>3 DEF Connected, Becomes
  <1>4. CASE ConnectionFails(s)
    BY <1>4 DEF ConnectionFails, SocketError, ClearTimeout, DestroyInput, Flowing, Becomes, Settle
  <1>5. CASE Chunk(s)
    <2>1. /\ read' \in [Scans -> Nat] /\ received' \in [Scans -> Nat]
          /\ \A t \in Scans : received'[t] <= read'[t] /\ read'[t] <= Length[t]
      BY <1>5, ChunkCounts
    <2>2. CASE UNCHANGED <<outcome, timer, socket, input>>
      BY <1>5, <2>1, <2>2 DEF Chunk
    <2>3. CASE SocketError(s)
      BY <1>5, <2>1, <2>3 DEF Chunk, SocketError, ClearTimeout, DestroyInput, Flowing, Becomes, Settle
    <2> QED BY <1>5, <2>2, <2>3 DEF Chunk
  <1>6. CASE InputEnds(s)
    BY <1>6 DEF InputEnds, Heard
  <1>7. CASE InputFails(s)
    <2>1. CASE Wired(s)
      BY <1>7, <2>1 DEF InputFails, Wired, ClearTimeout, Becomes, Settle
    <2>2. CASE ~Wired(s)
      BY <1>7, <2>2 DEF InputFails, Wired
    <2> QED BY <2>1, <2>2
  <1>8. CASE InputStalls(s)
    BY <1>8 DEF InputStalls
  <1>9. CASE End(s)
    BY <1>9, ParseType DEF End, ClearTimeout, Becomes, Settle
  <1>10. CASE Timeout(s)
    BY <1>10 DEF Timeout, ClearTimeout, DestroyInput, Flowing, Becomes, Settle
  <1> QED BY <1>1, <1>2, <1>3, <1>4, <1>5, <1>6, <1>7, <1>8, <1>9, <1>10 DEF Client

LEMMA OtherTypes ==
  ASSUME TypeOK,
         \/ \E s \in Scans : Clamd(s)
         \/ \E p \in Probes : Probe(p)
         \/ Daemon
  PROVE  TypeOK'
  <1> USE ObjectsAssumption, FaultType
      DEF TypeOK, Replies, ProbeSteps, Faults, NoFault, scans, streams, peer, probes
  <1>1. ASSUME NEW s \in Scans, Clamd(s) PROVE TypeOK'
    BY <1>1, VerdictType DEF Clamd, Answer, TooLarge, Drop
  <1>2. ASSUME NEW p \in Probes, Probe(p) PROVE TypeOK'
    BY <1>2 DEF Probe, Ask, ProbeConnected, Pong, ProbeFails, ProbeDropped, ProbeTimeout
  <1>3. CASE Daemon
    BY <1>3 DEF Daemon
  <1> QED BY <1>1, <1>2, <1>3

----------------------------------------------------------------------------
(* Timers and verdicts                                                       *)

\* One callback leaves its scan guarded, and all others as they are.
LEMMA TimersKept ==
  ASSUME ScanInv, NEW s \in Scans, Client(s), NEW t \in Scans
  PROVE  /\ (Settled(t) => ~timer[t] /\ socket[t] \notin {"connecting", "open"})'
         /\ (Running(t) => timer[t])'
         /\ Begins(t)'
  <1> USE DEF ScanInv, TypeOK, TimerGuards, Begins, Requested, Settled, Running, streams
  <1>1. CASE Download(s) \/ RequestStalls(s) \/ Open(s)
    BY <1>1 DEF Download, RequestStalls, Open, Becomes
  <1>2. CASE OpenFails(s)
    BY <1>2 DEF OpenFails, Settle
  <1>3. CASE Connected(s)
    BY <1>3 DEF Connected, Becomes
  <1>4. CASE ConnectionFails(s)
    BY <1>4 DEF ConnectionFails, SocketError, ClearTimeout, DestroyInput, Flowing, Becomes, Settle
  <1>5. CASE Chunk(s)
    BY <1>5 DEF Chunk, SocketError, ClearTimeout, DestroyInput, Flowing, Becomes, Settle
  <1>6. CASE InputEnds(s) \/ InputStalls(s)
    BY <1>6 DEF InputEnds, InputStalls
  <1>7. CASE InputFails(s)
    BY <1>7 DEF InputFails, Wired, Flowing, ClearTimeout, Becomes, Settle
  <1>8. CASE End(s)
    <2>1. Parse(reply[s]) # "none"
      BY ParseType
    <2> QED BY <1>8, <2>1 DEF End, ClearTimeout, Becomes, Settle
  <1>9. CASE Timeout(s)
    BY <1>9 DEF Timeout, ClearTimeout, DestroyInput, Flowing, Becomes, Settle
  <1> QED BY <1>1, <1>2, <1>3, <1>4, <1>5, <1>6, <1>7, <1>8, <1>9 DEF Client

LEMMA ExactKept ==
  ASSUME ScanInv, NEW s \in Scans, Client(s), NEW t \in Scans
  PROVE  Exact(t)'
  <1> USE ObjectsAssumption
      DEF ScanInv, TypeOK, Exact, Begins, Requested, Heard, Verdict, streams, peer
  <1>1. CASE Download(s) \/ RequestStalls(s) \/ Open(s)
    <2>1. UNCHANGED <<read, received, marked, reply, outcome>>
      BY <1>1 DEF Download, RequestStalls, Open
    <2>2. /\ input[s] \in {"none", "requested", "unanswered"}
          /\ \A u \in Scans : u # s => input'[u] = input[u] /\ socket'[u] = socket[u]
      BY <1>1 DEF Download, RequestStalls, Open, Becomes
    <2>3. socket[s] = "none" /\ socket'[s] \in {"none", "connecting"} /\ ~marked[s]
      BY <1>1, <2>2 DEF Download, RequestStalls, Open, Becomes
    <2> QED BY <2>1, <2>2, <2>3
  <1>2. CASE OpenFails(s)
    BY <1>2 DEF OpenFails, Settle
  <1>3. CASE Connected(s)
    BY <1>3 DEF Connected, Becomes
  <1>4. CASE ConnectionFails(s)
    BY <1>4 DEF ConnectionFails, SocketError, DestroyInput, Flowing, Becomes, Settle
  <1>5. CASE Chunk(s)
    BY <1>5 DEF Chunk, Wired, SocketError, DestroyInput, Flowing, Becomes, Settle
  <1>6. CASE InputEnds(s)
    BY <1>6 DEF InputEnds, Wired
  <1>7. CASE InputFails(s)
    BY <1>7 DEF InputFails, Wired, Flowing, Becomes, Settle
  <1>8. CASE InputStalls(s)
    BY <1>8 DEF InputStalls
  <1>9. CASE End(s)
    <2>1. Parse(reply[s]) \in {"passed", "failed"} => marked[s]
      BY ParseType
    <2> QED BY <1>9, <2>1 DEF End, Becomes, Settle
  <1>10. CASE Timeout(s)
    BY <1>10 DEF Timeout, DestroyInput, Flowing, Becomes, Settle
  <1> QED BY <1>1, <1>2, <1>3, <1>4, <1>5, <1>6, <1>7, <1>8, <1>9, <1>10 DEF Client

\* clamd's verdict is on the whole object: it answers a terminator, and only a
\* connection that has carried every chunk carries one.
LEMMA ClamdKeeps ==
  ASSUME ScanInv, NEW s \in Scans, Clamd(s)
  PROVE  TimerGuards' /\ \A t \in Scans : Exact(t)' /\ Begins(t)'
  <1>1. TimerGuards' /\ \A t \in Scans : Begins(t)'
    BY DEF ScanInv, TimerGuards, Begins, Settled, Running, Clamd, Answer, TooLarge, Drop, streams
  <1>2. ASSUME NEW t \in Scans PROVE Exact(t)'
    <2> USE DEF ScanInv, TypeOK, Exact, Heard, streams
    <2>1. CASE Answer(s)
      BY <2>1, VerdictType DEF Answer, Verdict
    <2>2. CASE TooLarge(s) \/ Drop(s)
      BY <2>2 DEF TooLarge, Drop, Verdict
    <2> QED BY <2>1, <2>2 DEF Clamd
  <1> QED BY <1>1, <1>2

LEMMA ScanStep == ScanInv /\ [Next]_vars => ScanInv'
  <1> SUFFICES ASSUME ScanInv, [Next]_vars PROVE ScanInv'
    OBVIOUS
  <1>1. ASSUME NEW s \in Scans, Client(s) PROVE ScanInv'
    BY <1>1, ClientTypes, TimersKept, ExactKept DEF ScanInv, TimerGuards
  <1>2. ASSUME NEW s \in Scans, Clamd(s) PROVE ScanInv'
    BY <1>2, OtherTypes, ClamdKeeps DEF ScanInv
  <1>3. CASE UNCHANGED scans /\ TypeOK'
    BY <1>3 DEF ScanInv, TimerGuards, Exact, Begins, Settled, Running, Heard, Verdict,
                scans, streams, peer
  <1>4. ASSUME NEW p \in Probes, Probe(p) PROVE UNCHANGED scans /\ TypeOK'
    BY <1>4, OtherTypes
    DEF ScanInv, Probe, Ask, ProbeConnected, Pong, ProbeFails, ProbeDropped, ProbeTimeout
  <1>5. CASE Daemon
    BY <1>3, <1>5, OtherTypes DEF ScanInv, Daemon
  <1>6. CASE UNCHANGED vars
    <2>1. TypeOK'
      BY <1>6 DEF ScanInv, TypeOK, vars, scans, streams, peer, probes
    <2> QED BY <1>3, <1>6, <2>1 DEF vars
  <1> QED BY <1>1, <1>2, <1>3, <1>4, <1>5, <1>6 DEF Next

\* The inductive invariant of ClamavClient.
THEOREM ScanInvariant == Spec => []ScanInv
  BY ScanInit, ScanStep, PTL DEF Spec

\* Every variable of the client and of clamd keeps its type.
THEOREM ScanTypes == Spec => []TypeOK
  <1>1. ScanInv => TypeOK
    BY DEF ScanInv
  <1> QED BY <1>1, ScanInvariant, PTL

\* A settled scan leaves no timer or open socket behind, a running one has its
\* timer (scanStream).
THEOREM TimersGuard == Spec => []TimerGuards
  <1>1. ScanInv => TimerGuards
    BY DEF ScanInv
  <1> QED BY <1>1, ScanInvariant, PTL

\* No object is judged by a part of it (scanStream, scanFileFromS3).
THEOREM WholeFileJudged == Spec => []VerdictOnWholeFile
  <1>1. ScanInv => VerdictOnWholeFile
    BY DEF ScanInv, Exact, VerdictOnWholeFile
  <1> QED BY <1>1, ScanInvariant, PTL

----------------------------------------------------------------------------
(* Refinement                                                                *)

\* What clamd's reply is turned into is the truth about the object, or an error.
LEMMA ReplyIsTrue ==
  ASSUME ScanInv, NEW s \in Scans
  PROVE  Parse(reply[s]) \in {Promise!Truth(s), "error"}
  <1>1. CASE reply[s] \in {"OK", "FOUND", "OK FOUND"}
    <2>1. received[s] = Length[s] /\ reply[s] = Verdict(s)
      BY <1>1 DEF ScanInv, Exact
    <2>2. received[s] \in Int /\ ~(received[s] < Length[s])
      BY <2>1, ObjectsAssumption
    <2> QED BY <1>1, <2>1, <2>2, ObjectsAssumption DEF Verdict, Parse, Promise!Truth
  <1>2. CASE reply[s] \notin {"OK", "FOUND", "OK FOUND"}
    BY <1>2 DEF Parse
  <1> QED BY <1>1, <1>2

\* The two promises, sockets, timers and streams of a scan come to a single
\* settlement with the truth or an error: ClamavClient implements the step that
\* ValidationPipeline makes of a scan.
THEOREM ScanRefinement == Spec => ImplementsVerdict
  <1>1. Init => Promise!Init
    BY DEF Init, Promise!Init
  <1>2. ScanInv /\ [Next]_vars => [Promise!Next]_outcome
    <2> SUFFICES ASSUME ScanInv, [Next]_vars, outcome' # outcome PROVE Promise!Next
      OBVIOUS
    <2>1. PICK s \in Scans : Client(s)
      BY DEF Next, vars, scans, Clamd, Answer, TooLarge, Drop, Daemon,
             Probe, Ask, ProbeConnected, Pong, ProbeFails, ProbeDropped, ProbeTimeout
    <2>2. \E o \in {Promise!Truth(s), "error"} : Settle(s, o)
      <3>1. CASE End(s)
        BY <3>1, ReplyIsTrue DEF End
      <3>2. CASE ~End(s)
        BY <2>1, <3>2 DEF Client, Download, RequestStalls, Open, OpenFails, Connected,
                          ConnectionFails, Chunk, SocketError, InputEnds, InputFails, InputStalls, Timeout
      <3> QED BY <3>1, <3>2
    <2>3. outcome[s] = "none"
      BY <2>2 DEF Settle, ScanInv, TypeOK
    <2> QED BY <2>2, <2>3 DEF Settle, Promise!Next, Promise!Settle, ScanInv, TypeOK
  <1> QED BY <1>1, <1>2, ScanInvariant, PTL DEF Spec, ImplementsVerdict, Promise!Spec
==============================================================================
