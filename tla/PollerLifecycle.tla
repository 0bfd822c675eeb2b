--------------------------- MODULE PollerLifecycle ---------------------------
(***************************************************************************)
(* How a replica comes to poll NATS, and stays at it: connecting, setting  *)
(* up the two streams, creating the durable consumers, the poll loops of   *)
(* the base validator, the ClamAV scanner and the object transfer, and the *)
(* NATS client's reconnection.  What is done with a fetched message is in  *)
(* ValidationPipeline and ObjectTransfer.  One action per awaited call; a  *)
(* call fails exactly when the server is away or what it names is missing. *)
(***************************************************************************)
EXTENDS Integers

CONSTANTS
  Replicas,              \* instances of the service
  Pollers,               \* the pollers each of them runs
  InitialStreams,        \* the streams before the first start: functions
  MaxReconnectAttempts,  \* config.maxReconnectAttempts
  MaxFaults              \* NATS outages and kills of replicas (a bound for TLC)

Streams    == {"FILE_VALIDATION", "VALIDATION_RESULTS"}
Validators == {"base", "clamav"}
\* "leftover": an earlier version created it with another retention policy.
StreamStates == {"absent", "leftover", "ready"}

ASSUME ReplicasAssumption == Replicas # {}
ASSUME PollersAssumption  == Pollers \subseteq Validators \cup {"transfer"}
ASSUME StreamsAssumption  == InitialStreams \subseteq [Streams -> StreamStates]
ASSUME AttemptsAssumption == MaxReconnectAttempts \in Nat \ {0}
ASSUME BoundsAssumption   == MaxFaults \in Nat

VARIABLES
  server,     \* "up" or "down"
  stream,     \* [Streams -> StreamStates]
  consumer,   \* the pollers whose durable consumer exists
  conn,       \* [Replicas -> state of the NATS connection]
  attempts,   \* [Replicas -> reconnections that failed in a row]
  boot,       \* [Replicas -> step of NatsService.onModuleInit]
  current,    \* [Replicas -> the stream it sets up]
  poll,       \* [Replicas -> [Pollers -> step of the poller]]
  isPolling,  \* [Replicas -> [Pollers -> BOOLEAN]]
  faults      \* NATS outages and kills of replicas so far

nats    == <<server, stream, consumer>>
client  == <<conn, attempts>>
setup   == <<boot, current>>
loops   == <<poll, isPolling>>
vars    == <<nats, client, setup, loops, faults>>

BootSteps == {"down", "connect", "info", "update", "delete", "add", "over"}
PollSteps == {"off", "info", "create", "start", "get", "timer", "fetch", "sleep"}

TypeOK ==
  /\ server \in {"up", "down"}
  /\ stream \in [Streams -> StreamStates]
  /\ consumer \subseteq Pollers
  /\ conn \in [Replicas -> {"none", "open", "lost", "closed"}]
  /\ attempts \in [Replicas -> 0..MaxReconnectAttempts]
  /\ boot \in [Replicas -> BootSteps]
  /\ current \in [Replicas -> Streams]
  /\ poll \in [Replicas -> [Pollers -> PollSteps]]
  /\ isPolling \in [Replicas -> [Pollers -> BOOLEAN]]
  /\ faults \in 0..MaxFaults

StreamOf(p) == IF p = "transfer" THEN "VALIDATION_RESULTS" ELSE "FILE_VALIDATION"

Reachable(r) == conn[r] = "open" /\ server = "up"

\* r has read that the retention policy changed and will delete stream s.
Deciding(r, s) == boot[r] = "delete" /\ current[r] = s

Init ==
  /\ server = "up"
  /\ stream \in InitialStreams
  /\ consumer \in SUBSET {p \in Pollers : stream[StreamOf(p)] # "absent"}
  /\ conn = [r \in Replicas |-> "none"]
  /\ attempts = [r \in Replicas |-> 0]
  /\ boot = [r \in Replicas |-> "down"]
  /\ current = [r \in Replicas |-> "FILE_VALIDATION"]
  /\ poll = [r \in Replicas |-> [p \in Pollers |-> "off"]]
  /\ isPolling = [r \in Replicas |-> [p \in Pollers |-> FALSE]]
  /\ faults = 0

----------------------------------------------------------------------------
(* The NATS server and the client's connection                             *)

Fault == faults < MaxFaults /\ faults' = faults + 1

ServerDown ==
  /\ server = "up"
  /\ Fault
  /\ server' = "down"
  /\ UNCHANGED <<stream, consumer, client, setup, loops>>

\* Streams and consumers are kept in files: they are there again.
ServerUp ==
  /\ server = "down"
  /\ server' = "up"
  /\ UNCHANGED <<stream, consumer, client, setup, loops, faults>>

Disconnect(r) ==
  /\ conn[r] = "open"
  /\ server = "down"
  /\ conn' = [conn EXCEPT ![r] = "lost"]
  /\ UNCHANGED <<nats, attempts, setup, loops, faults>>

Reconnect(r) ==
  /\ conn[r] = "lost"
  /\ server = "up"
  /\ conn' = [conn EXCEPT ![r] = "open"]
  /\ attempts' = [attempts EXCEPT ![r] = 0]
  /\ UNCHANGED <<nats, setup, loops, faults>>

ReconnectFails_NeverCloses(r) ==
  /\ conn[r] = "lost"
  /\ server = "down"
  /\ attempts' = [attempts EXCEPT ![r] = @ + 1]
  /\ conn' = [conn EXCEPT ![r] = IF attempts[r] > MaxReconnectAttempts THEN "closed" ELSE @]
  /\ UNCHANGED <<nats, setup, loops, faults>>

\* After the last attempt the client closes the connection for good.
ReconnectFails(r) ==
  /\ conn[r] = "lost"
  /\ server = "down"
  /\ attempts' = [attempts EXCEPT ![r] = @ + 1]
  /\ conn' = [conn EXCEPT ![r] =
                IF attempts'[r] = MaxReconnectAttempts THEN "closed" ELSE @]
  /\ UNCHANGED <<nats, setup, loops, faults>>

----------------------------------------------------------------------------
(* NatsService.onModuleInit                                                *)

Step(r, next) == /\ boot' = [boot EXCEPT ![r] = next]
                 /\ UNCHANGED <<current, loops>>

\* onModuleInit is over, with or without an error: the pollers' begin.
Booted(r) ==
  /\ boot' = [boot EXCEPT ![r] = "over"]
  /\ poll' = [poll EXCEPT ![r] =
                [p \in Pollers |-> IF p = "transfer" THEN "info" ELSE "start"]]
  /\ UNCHANGED <<current, isPolling>>

\* setupStreams: the one stream, then the other.
StreamDone(r) ==
  IF current[r] = "FILE_VALIDATION"
    THEN /\ boot' = [boot EXCEPT ![r] = "info"]
         /\ current' = [current EXCEPT ![r] = "VALIDATION_RESULTS"]
         /\ UNCHANGED loops
    ELSE Booted(r)

Start(r) ==
  /\ boot[r] = "down"
  /\ boot' = [boot EXCEPT ![r] = "connect"]
  /\ current' = [current EXCEPT ![r] = "FILE_VALIDATION"]
  /\ UNCHANGED <<nats, client, loops, faults>>

Connect(r) ==
  /\ boot[r] = "connect"
  /\ server = "up"
  /\ conn' = [conn EXCEPT ![r] = "open"]
  /\ Step(r, "info")
  /\ UNCHANGED <<nats, attempts, faults>>

\* Its error is logged: the replica goes on without a connection.
ConnectFails(r) ==
  /\ boot[r] = "connect"
  /\ server = "down"
  /\ Booted(r)
  /\ UNCHANGED <<nats, client, faults>>

Info_AlwaysRecreates(r) ==
  /\ boot[r] = "info"
  /\ Reachable(r)
  /\ Step(r, IF stream[current[r]] = "absent" THEN "add" ELSE "delete")
  /\ UNCHANGED <<nats, client, faults>>

\* createOrUpdateStream: what is done follows from what streams.info says.
Info(r) ==
  /\ boot[r] = "info"
  /\ Reachable(r)
  /\ Step(r, CASE stream[current[r]] = "absent"   -> "add"
               [] stream[current[r]] = "leftover" -> "delete"
               [] stream[current[r]] = "ready"    -> "update")
  /\ UNCHANGED <<nats, client, faults>>

\* streams.update; "stream not found" falls through to streams.add.
Update(r) ==
  /\ boot[r] = "update"
  /\ Reachable(r)
  /\ IF stream[current[r]] = "absent" THEN Step(r, "add") ELSE StreamDone(r)
  /\ UNCHANGED <<nats, client, faults>>

\* streams.delete: the messages and the consumers go with the stream.
Delete(r) ==
  /\ boot[r] = "delete"
  /\ Reachable(r)
  /\ stream' = [stream EXCEPT ![current[r]] = "absent"]
  /\ consumer' = {p \in consumer : StreamOf(p) # current[r]}
  /\ Step(r, "add")
  /\ UNCHANGED <<server, client, faults>>

\* streams.add, which is also satisfied with an equal stream.
Add(r) ==
  /\ boot[r] = "add"
  /\ Reachable(r)
  /\ stream' = [stream EXCEPT ![current[r]] = "ready"]
  /\ StreamDone(r)
  /\ UNCHANGED <<server, consumer, client, faults>>

\* Any call of setupStreams fails: caught, and the connection is kept.
SetupFails(r) ==
  /\ boot[r] \in {"info", "update", "delete", "add"}
  /\ ~Reachable(r)
  /\ Booted(r)
  /\ UNCHANGED <<nats, client, faults>>

\* The process ends, and with it everything it held.
Ends(r) ==
  /\ boot' = [boot EXCEPT ![r] = "down"]
  /\ conn' = [conn EXCEPT ![r] = "none"]
  /\ attempts' = [attempts EXCEPT ![r] = 0]
  /\ poll' = [poll EXCEPT ![r] = [p \in Pollers |-> "off"]]
  /\ isPolling' = [isPolling EXCEPT ![r] = [p \in Pollers |-> FALSE]]
  /\ UNCHANGED current

Crash(r) ==
  /\ boot[r] # "down"
  /\ Fault
  /\ Ends(r)
  /\ UNCHANGED nats

----------------------------------------------------------------------------
(* The pollers                                                             *)

At(r, p, step)   == poll[r][p] = step
Goto(r, p, step) == poll' = [poll EXCEPT ![r][p] = step]
Polling(r, p, b) == isPolling' = [isPolling EXCEPT ![r][p] = b]
Quiet == UNCHANGED <<nats, client, setup, faults>>

Found(r, p)    == Reachable(r) /\ p \in consumer
NotFound(r, p) == /\ Reachable(r)
                  /\ p \notin consumer
                  /\ stream[StreamOf(p)] # "absent"

\* initializeConsumer of the transfer: any error of consumers.info is taken for
\* a missing consumer; one of jetstreamManager ends it.
LookUp(r, p) ==
  /\ At(r, p, "info")
  /\ \/ Goto(r, p, "start") /\ (Found(r, p) \/ ~Reachable(r))
     \/ Goto(r, p, "create") /\ ~Found(r, p) /\ conn[r] # "none"
  /\ UNCHANGED isPolling
  /\ Quiet

StartPolling(r, p) ==
  /\ At(r, p, "start")
  /\ IF isPolling[r][p] \/ conn[r] = "none"
       THEN Goto(r, p, "off") /\ UNCHANGED isPolling
       ELSE Goto(r, p, "get") /\ Polling(r, p, TRUE)
  /\ Quiet

\* consumers.get: once before a validator's loop, in each turn of the transfer's.
Get(r, p) ==
  /\ At(r, p, "get")
  /\ Found(r, p)
  /\ Goto(r, p, "fetch")
  /\ UNCHANGED isPolling
  /\ Quiet

GetFindsNone(r, p) ==
  /\ p \in Validators
  /\ At(r, p, "get")
  /\ NotFound(r, p)
  /\ Goto(r, p, "create")
  /\ UNCHANGED isPolling
  /\ Quiet

\* Any other error disables the polling of a validator; the transfer's goes on.
GetFails(r, p) ==
  /\ At(r, p, "get")
  /\ ~Found(r, p)
  /\ IF p = "transfer"
       THEN Goto(r, p, "sleep") /\ UNCHANGED isPolling
       ELSE /\ ~NotFound(r, p)
            /\ Goto(r, p, "off")
            /\ Polling(r, p, FALSE)
  /\ Quiet

Create_KeepsFlag(r, p) ==
  /\ At(r, p, "create")
  /\ Reachable(r)
  /\ stream[StreamOf(p)] # "absent"
  /\ consumer' = consumer \cup {p}
  /\ Goto(r, p, IF p = "transfer" THEN "start" ELSE "timer")
  /\ UNCHANGED <<isPolling, server, stream, client, setup, faults>>

\* createConsumer; a validator's polling starts anew 2 s later.
Create(r, p) ==
  /\ At(r, p, "create")
  /\ Reachable(r)
  /\ stream[StreamOf(p)] # "absent"
  /\ consumer' = consumer \cup {p}
  /\ Goto(r, p, IF p = "transfer" THEN "start" ELSE "timer")
  /\ Polling(r, p, FALSE)
  /\ UNCHANGED <<server, stream, client, setup, faults>>

\* The transfer logs the error.  A validator's leaves startPolling, which
\* nobody awaits: the unhandled rejection ends the process.
CreateFails(r, p) ==
  /\ At(r, p, "create")
  /\ ~(Reachable(r) /\ stream[StreamOf(p)] # "absent")
  /\ IF p = "transfer"
       THEN Goto(r, p, "start") /\ UNCHANGED <<isPolling, client, setup>>
       ELSE Ends(r)
  /\ UNCHANGED <<nats, faults>>

Timer(r, p) ==
  /\ At(r, p, "timer")
  /\ Goto(r, p, "start")
  /\ UNCHANGED isPolling
  /\ Quiet

\* consumer.fetch, with a message or with none; the loop begins its next turn.
Fetch(r, p) ==
  /\ At(r, p, "fetch")
  /\ Found(r, p)
  /\ Goto(r, p, IF p = "transfer" THEN "get" ELSE "fetch")
  /\ UNCHANGED isPolling
  /\ Quiet

FetchFails_Stops(r, p) ==
  /\ At(r, p, "fetch")
  /\ ~Found(r, p)
  /\ Goto(r, p, "off")
  /\ Polling(r, p, FALSE)
  /\ Quiet

FetchFails(r, p) ==
  /\ At(r, p, "fetch")
  /\ ~Found(r, p)
  /\ Goto(r, p, "sleep")
  /\ UNCHANGED isPolling
  /\ Quiet

Wake(r, p) ==
  /\ At(r, p, "sleep")
  /\ Goto(r, p, IF p = "transfer" THEN "get" ELSE "fetch")
  /\ UNCHANGED isPolling
  /\ Quiet

----------------------------------------------------------------------------
Boot(r) == \/ Start(r)  \/ Connect(r) \/ ConnectFails(r)
           \/ Info(r)   \/ Update(r)  \/ Delete(r) \/ Add(r) \/ SetupFails(r)

Connection(r) == Disconnect(r) \/ Reconnect(r) \/ ReconnectFails(r)

Poll(r, p) == \/ LookUp(r, p)       \/ StartPolling(r, p) \/ Get(r, p)
              \/ GetFindsNone(r, p) \/ GetFails(r, p)     \/ Create(r, p)
              \/ CreateFails(r, p)  \/ Timer(r, p)        \/ Fetch(r, p)
              \/ FetchFails(r, p)   \/ Wake(r, p)

Next ==
  \/ ServerDown \/ ServerUp
  \/ \E r \in Replicas : \/ Boot(r) \/ Connection(r) \/ Crash(r)
                         \/ \E p \in Pollers : Poll(r, p)

Spec == Init /\ [][Next]_vars

\* Calls return, timers run off, and a process that ended is started again.
Fairness ==
  \A r \in Replicas :
    /\ WF_vars(Boot(r) \/ Connection(r))
    /\ \A p \in Pollers : WF_vars(Poll(r, p))

FairSpec == Spec /\ Fairness

----------------------------------------------------------------------------
(* Properties                                                              *)

\* r is in the poll loop of p, whether its last fetch succeeded or not.
Looping(r, p) ==
  /\ isPolling[r][p]
  /\ poll[r][p] \in IF p = "transfer" THEN {"get", "fetch", "sleep"} ELSE {"fetch", "sleep"}

\* r polls for every consumer, and what it fetches is answered.
Serving(r) == \A p \in Pollers : Looping(r, p) /\ Found(r, p)

\* No replica will delete stream s and recreate it.
Settled(s) == stream[s] = "ready" /\ \A r \in Replicas : ~Deciding(r, s)

\* createOrUpdateStream deletes a stream whose retention policy changed, on
\* information that may be old: a replica can delete what another one has just
\* created, with the messages in it.  But once no replica is about to, however
\* many start, restart or fail half-way, no message of the stream is deleted.
SettledStreamsStay == [][\A s \in Streams : Settled(s) => Settled(s)']_vars

\* A replica that starts while NATS is up comes to fetch from each consumer,
\* unless NATS goes away, the process ends, or another replica re-creates a
\* stream in between.
PollingStarts ==
  \A r \in Replicas :
    boot[r] = "connect" /\ server = "up" ~>
      \/ Serving(r)
      \/ server = "down"
      \/ boot[r] = "down"
      \/ \E q \in Replicas \ {r}, s \in Streams : Deciding(q, s)

\* startPolling: no error ends a loop.  Replicas that poll are served again when
\* NATS is back, unless the client gave up, the process ended or a consumer was
\* deleted with its stream.
LoopRecovers ==
  \A r \in Replicas :
    (\A p \in Pollers : Looping(r, p)) ~> \/ Serving(r)
                                         \/ boot[r] = "down"
                                         \/ conn[r] = "closed"
                                         \/ ~(Pollers \subseteq consumer)

=============================================================================
