------------------------ MODULE PollerLifecycleProofs ------------------------
(***************************************************************************)
(* Proofs about PollerLifecycle, for any number of replicas, reconnection  *)
(* attempts and faults.                                                    *)
(***************************************************************************)
EXTENDS PollerLifecycle, TLAPS

\* A connection that may still fail to reconnect has an attempt left.
AttemptLeft == \A r \in Replicas : attempts[r] < MaxReconnectAttempts \/ conn[r] = "closed"

\* A process that has not connected yet has no connection, old or new.
Unconnected == \A r \in Replicas : boot[r] \in {"down", "connect"} => conn[r] = "none"

LifecycleInv == TypeOK /\ AttemptLeft /\ Unconnected

LEMMA InitLifecycle == Init => LifecycleInv
BY StreamsAssumption, AttemptsAssumption, BoundsAssumption
   DEF Init, LifecycleInv, TypeOK, AttemptLeft, Unconnected, BootSteps, PollSteps, Streams

\* LifecycleInv in the parts a step leaves alone together.
NatsTypes == /\ server \in {"up", "down"}
             /\ stream \in [Streams -> StreamStates]
             /\ consumer \subseteq Pollers
ClientTypes == /\ conn \in [Replicas -> {"none", "open", "lost", "closed"}]
               /\ attempts \in [Replicas -> 0..MaxReconnectAttempts]
               /\ AttemptLeft
SetupTypes == /\ boot \in [Replicas -> BootSteps]
              /\ current \in [Replicas -> Streams]
LoopTypes == /\ poll \in [Replicas -> [Pollers -> PollSteps]]
             /\ isPolling \in [Replicas -> [Pollers -> BOOLEAN]]

LEMMA Parts == LifecycleInv <=> /\ NatsTypes /\ ClientTypes /\ SetupTypes /\ LoopTypes
                                /\ faults \in 0..MaxFaults /\ Unconnected
BY DEF LifecycleInv, TypeOK, NatsTypes, ClientTypes, SetupTypes, LoopTypes

LEMMA PartsNext == LifecycleInv' <=> /\ NatsTypes' /\ ClientTypes' /\ SetupTypes' /\ LoopTypes'
                                  /\ faults' \in 0..MaxFaults /\ Unconnected'
BY DEF LifecycleInv, TypeOK, NatsTypes, ClientTypes, SetupTypes, LoopTypes

LEMMA Kept ==
  /\ NatsTypes /\ UNCHANGED nats => NatsTypes'
  /\ ClientTypes /\ UNCHANGED client => ClientTypes'
  /\ SetupTypes /\ UNCHANGED setup => SetupTypes'
  /\ LoopTypes /\ UNCHANGED loops => LoopTypes'
  /\ Unconnected /\ UNCHANGED <<client, setup>> => Unconnected'
BY DEF Unconnected, NatsTypes, ClientTypes, SetupTypes, LoopTypes, nats, client, setup, loops, AttemptLeft

LEMMA SetupSteps ==
  ASSUME SetupTypes, LoopTypes, NEW r \in Replicas,
         StreamDone(r) \/ Booted(r) \/ (\E next \in BootSteps : Step(r, next))
  PROVE  SetupTypes' /\ LoopTypes'
<1>1. CASE Booted(r)
  BY <1>1 DEF SetupTypes, LoopTypes, Booted, BootSteps, PollSteps
<1>2. CASE \E next \in BootSteps : Step(r, next)
  BY <1>2 DEF SetupTypes, LoopTypes, Step, loops
<1>3. CASE StreamDone(r)
  BY <1>1, <1>3 DEF SetupTypes, LoopTypes, StreamDone, loops, BootSteps, Streams
<1> QED BY <1>1, <1>2, <1>3

LEMMA BootConnects ==
  ASSUME NatsTypes, SetupTypes, ClientTypes, Unconnected, NEW r \in Replicas, Boot(r)
  PROVE  Unconnected'
<1>1. CASE Start(r)
  BY <1>1 DEF Start, Unconnected, SetupTypes, client
<1>2. CASE ~Start(r)
  <2>1. boot'[r] \notin {"down", "connect"}
    BY <1>2 DEF Boot, Connect, ConnectFails, Info, Update, Delete, Add, SetupFails, Step,
       StreamDone, Booted, SetupTypes, NatsTypes, StreamStates
  <2>2. \A q \in Replicas \ {r} : boot'[q] = boot[q] /\ conn'[q] = conn[q]
    BY <1>2 DEF Boot, Connect, ConnectFails, Info, Update, Delete, Add, SetupFails, Step,
       StreamDone, Booted, SetupTypes, ClientTypes, client
  <2> QED BY <2>1, <2>2 DEF Unconnected
<1> QED BY <1>1, <1>2

LEMMA BootKeeps ==
  ASSUME LifecycleInv, NEW r \in Replicas, Boot(r)
  PROVE  LifecycleInv'
<1>a. /\ NatsTypes /\ ClientTypes /\ SetupTypes /\ LoopTypes /\ Unconnected
      /\ faults \in 0..MaxFaults
  BY Parts
<1>0. /\ NatsTypes /\ ClientTypes /\ SetupTypes /\ LoopTypes /\ Unconnected /\ Unconnected'
      /\ faults \in 0..MaxFaults
  BY <1>a, BootConnects
<1>1. CASE Start(r)
  <2>1. SetupTypes'
    BY <1>0, <1>1 DEF Start, SetupTypes, BootSteps, Streams
  <2> QED BY <1>0, <1>1, <2>1, Kept, PartsNext DEF Start
<1>2. CASE Connect(r)
  <2>1. ClientTypes'
    BY <1>0, <1>2, AttemptsAssumption DEF Connect, ClientTypes, AttemptLeft, Unconnected
  <2>2. \E next \in BootSteps : Step(r, next)
    BY <1>2 DEF Connect, BootSteps
  <2> QED BY <1>0, <1>2, <2>1, <2>2, SetupSteps, Kept, PartsNext DEF Connect
<1>3. CASE ConnectFails(r) \/ SetupFails(r)
  BY <1>0, <1>3, SetupSteps, Kept, PartsNext DEF ConnectFails, SetupFails
<1>4. CASE Info(r)
  <2>1. \E next \in BootSteps : Step(r, next)
    BY <1>0, <1>4 DEF Info, BootSteps, NatsTypes, SetupTypes, StreamStates
  <2> QED BY <1>0, <1>4, <2>1, SetupSteps, Kept, PartsNext DEF Info
<1>5. CASE Update(r)
  <2>1. StreamDone(r) \/ \E next \in BootSteps : Step(r, next)
    BY <1>5 DEF Update, BootSteps
  <2> QED BY <1>0, <1>5, <2>1, SetupSteps, Kept, PartsNext DEF Update
<1>6. CASE Delete(r)
  <2>1. NatsTypes'
    BY <1>0, <1>6 DEF Delete, NatsTypes, StreamStates
  <2>2. \E next \in BootSteps : Step(r, next)
    BY <1>6 DEF Delete, BootSteps
  <2> QED BY <1>0, <1>6, <2>1, <2>2, SetupSteps, Kept, PartsNext DEF Delete
<1>7. CASE Add(r)
  <2>1. NatsTypes'
    BY <1>0, <1>7 DEF Add, NatsTypes, StreamStates
  <2> QED BY <1>0, <1>7, <2>1, SetupSteps, Kept, PartsNext DEF Add
<1> QED BY <1>1, <1>2, <1>3, <1>4, <1>5, <1>6, <1>7 DEF Boot

LEMMA ConnectionKeeps ==
  ASSUME LifecycleInv, NEW r \in Replicas, Connection(r)
  PROVE  LifecycleInv'
<1> USE AttemptsAssumption DEF LifecycleInv, TypeOK, AttemptLeft, Unconnected, nats, client, setup, loops
<1>1. CASE Disconnect(r)
  BY <1>1 DEF Disconnect
<1>2. CASE Reconnect(r)
  BY <1>2 DEF Reconnect
<1>3. CASE ReconnectFails(r)
  BY <1>3 DEF ReconnectFails
<1> QED BY <1>1, <1>2, <1>3 DEF Connection

LEMMA EndsKeeps ==
  ASSUME LifecycleInv, NEW r \in Replicas, Ends(r), UNCHANGED nats,
         faults' \in 0..MaxFaults
  PROVE  LifecycleInv'
BY AttemptsAssumption
   DEF LifecycleInv, TypeOK, AttemptLeft, Unconnected, Ends, nats, BootSteps, PollSteps

LEMMA GotoTypes ==
  ASSUME LoopTypes, NEW r \in Replicas, NEW p \in Pollers,
         \E step \in PollSteps : Goto(r, p, step),
         UNCHANGED isPolling \/ \E b \in BOOLEAN : Polling(r, p, b)
  PROVE  LoopTypes'
<1>1. poll' \in [Replicas -> [Pollers -> PollSteps]]
  BY DEF LoopTypes, Goto
<1>2. isPolling' \in [Replicas -> [Pollers -> BOOLEAN]]
  <2>1. CASE UNCHANGED isPolling
    BY <2>1 DEF LoopTypes
  <2>2. CASE \E b \in BOOLEAN : Polling(r, p, b)
    <3> PICK b \in BOOLEAN : Polling(r, p, b)
      BY <2>2
    <3>1. [isPolling[r] EXCEPT ![p] = b] \in [Pollers -> BOOLEAN]
      BY DEF LoopTypes
    <3> QED BY <3>1 DEF LoopTypes, Polling
  <2> QED BY <2>1, <2>2
<1> QED BY <1>1, <1>2 DEF LoopTypes

LEMMA PollKeeps ==
  ASSUME LifecycleInv, NEW r \in Replicas, NEW p \in Pollers, Poll(r, p)
  PROVE  LifecycleInv'
<1>0. /\ NatsTypes /\ ClientTypes /\ SetupTypes /\ LoopTypes /\ Unconnected
      /\ faults \in 0..MaxFaults
  BY Parts
<1>1. ASSUME \E step \in PollSteps : Goto(r, p, step),
             UNCHANGED isPolling \/ \E b \in BOOLEAN : Polling(r, p, b),
             NatsTypes', UNCHANGED <<client, setup, faults>>
      PROVE  LifecycleInv'
  BY <1>0, <1>1, GotoTypes, Kept, PartsNext
<1>2. CASE LookUp(r, p)
  BY <1>0, <1>1, <1>2, Kept DEF LookUp, Quiet, PollSteps
<1>3. CASE StartPolling(r, p)
  BY <1>0, <1>1, <1>3, Kept DEF StartPolling, Quiet, PollSteps
<1>4. CASE Get(r, p) \/ GetFindsNone(r, p) \/ GetFails(r, p)
  BY <1>0, <1>1, <1>4, Kept DEF Get, GetFindsNone, GetFails, Quiet, PollSteps
<1>5. CASE Create(r, p)
  <2>1. NatsTypes'
    BY <1>0, <1>5 DEF Create, NatsTypes
  <2> QED BY <1>1, <1>5, <2>1 DEF Create, PollSteps
<1>6. CASE CreateFails(r, p)
  <2>1. CASE p = "transfer"
    BY <1>0, <1>1, <1>6, <2>1, Kept DEF CreateFails, PollSteps
  <2>2. CASE p # "transfer"
    BY <1>0, <1>6, <2>2, EndsKeeps DEF CreateFails
  <2> QED BY <2>1, <2>2
<1>7. CASE Timer(r, p) \/ Fetch(r, p) \/ FetchFails(r, p) \/ Wake(r, p)
  BY <1>0, <1>1, <1>7, Kept DEF Timer, Fetch, FetchFails, Wake, Quiet, PollSteps
<1> QED BY <1>2, <1>3, <1>4, <1>5, <1>6, <1>7 DEF Poll

LEMMA StepKeeps == LifecycleInv /\ [Next]_vars => LifecycleInv'
<1> SUFFICES ASSUME LifecycleInv, [Next]_vars PROVE LifecycleInv'
  OBVIOUS
<1>1. CASE ServerDown \/ ServerUp
  BY <1>1, BoundsAssumption
     DEF ServerDown, ServerUp, Fault, LifecycleInv, TypeOK, AttemptLeft, Unconnected, client, setup, loops
<1>2. ASSUME NEW r \in Replicas, Crash(r) PROVE LifecycleInv'
  <2>1. faults' \in 0..MaxFaults
    BY <1>2, BoundsAssumption DEF Crash, Fault, LifecycleInv, TypeOK
  <2> QED BY <1>2, <2>1, EndsKeeps DEF Crash
<1>3. CASE UNCHANGED vars
  BY <1>3 DEF vars, nats, client, setup, loops, LifecycleInv, TypeOK, AttemptLeft, Unconnected
<1> QED BY <1>1, <1>2, <1>3, BootKeeps, ConnectionKeeps, PollKeeps DEF Next

LEMMA LifecycleInvariant == Spec => []LifecycleInv
BY InitLifecycle, StepKeeps, PTL DEF Spec

\* Every variable has its type; the client never counts more failed attempts
\* than it is configured to make.
THEOREM LifecycleTypes == Spec => []TypeOK
BY LifecycleInvariant, PTL DEF LifecycleInv

----------------------------------------------------------------------------
\* Only r itself can come to be about to delete a stream, and only by reading
\* that the stream is a leftover.
LEMMA SettledKept ==
  ASSUME LifecycleInv, [Next]_vars, NEW s \in Streams, Settled(s)
  PROVE  Settled(s)'
<1>1. ASSUME NEW r \in Replicas, Boot(r) PROVE Settled(s)'
  <2>0. /\ stream[s] = "ready" /\ \A q \in Replicas : ~Deciding(q, s)
        /\ stream \in [Streams -> StreamStates] /\ current \in [Replicas -> Streams]
        /\ boot \in [Replicas -> BootSteps]
    BY DEF Settled, LifecycleInv, TypeOK
  <2> USE DEF Settled, Deciding, Step, StreamDone, Booted, nats, BootSteps
  <2>1. CASE Start(r) \/ Connect(r) \/ ConnectFails(r) \/ SetupFails(r)
    BY <2>0, <2>1 DEF Start, Connect, ConnectFails, SetupFails
  <2>2. CASE Info(r)
    <3>1. UNCHANGED <<stream, current>> /\ (boot'[r] = "delete" => current[r] # s)
      BY <2>0, <2>2 DEF Info, StreamStates
    <3>2. \A q \in Replicas : q # r => boot'[q] = boot[q]
      BY <2>0, <2>2 DEF Info
    <3> QED BY <2>0, <3>1, <3>2
  <2>3. CASE Update(r)
    BY <2>0, <2>3 DEF Update
  <2>4. CASE Delete(r)
    BY <2>0, <2>4 DEF Delete
  <2>5. CASE Add(r)
    BY <2>0, <2>5 DEF Add
  <2> QED BY <1>1, <2>1, <2>2, <2>3, <2>4, <2>5 DEF Boot
<1>2. ASSUME NEW r \in Replicas, Ends(r), UNCHANGED nats PROVE Settled(s)'
  BY <1>2 DEF Settled, Deciding, Ends, nats, LifecycleInv, TypeOK
<1>3. ASSUME UNCHANGED <<stream, boot, current>> PROVE Settled(s)'
  BY <1>3 DEF Settled, Deciding
<1>4. ASSUME NEW r \in Replicas, NEW p \in Pollers, Poll(r, p) PROVE Settled(s)'
  <2>1. CASE CreateFails(r, p)
    BY <2>1, <1>2, <1>3 DEF CreateFails, nats, setup
  <2>2. CASE ~CreateFails(r, p)
    BY <1>4, <2>2, <1>3 DEF Poll, LookUp, StartPolling, Get, GetFindsNone, GetFails, Create,
       Timer, Fetch, FetchFails, Wake, Quiet, nats, setup
  <2> QED BY <2>1, <2>2
<1>5. ASSUME NEW r \in Replicas, Connection(r) PROVE Settled(s)'
  BY <1>5, <1>3 DEF Connection, Disconnect, Reconnect, ReconnectFails, nats, setup
<1>6. CASE ServerDown \/ ServerUp \/ UNCHANGED vars
  BY <1>6, <1>3 DEF ServerDown, ServerUp, vars, nats, setup
<1> QED BY <1>1, <1>2, <1>4, <1>5, <1>6 DEF Next, Crash

\* Once no replica is about to re-create it, a stream is never deleted by a
\* replica that starts, whatever fails: its messages stay.
THEOREM StreamsStay == Spec => SettledStreamsStay
<1>1. LifecycleInv /\ [Next]_vars => [\A s \in Streams : Settled(s) => Settled(s)']_vars
  BY SettledKept
<1> QED BY <1>1, LifecycleInvariant, PTL DEF Spec, SettledStreamsStay
=============================================================================
