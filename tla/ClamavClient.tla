---------------------------- MODULE ClamavClient -----------------------------
(***************************************************************************)
(* The service's conversations with clamd: scanFileFromS3 with scanStream, *)
(* which pipes an object out of S3 into clamd's INSTREAM command, and the  *)
(* PING of isHealthy behind the readiness endpoint.  A promise is settled  *)
(* by whichever of its callbacks comes first: the timer's, the socket's or *)
(* the input stream's.  One action per callback.                           *)
(***************************************************************************)
EXTENDS Integers

CONSTANTS
  Scans,            \* calls of scanFileFromS3, of any replica
  Probes,           \* calls of isHealthy
  Length,           \* [Scans -> Nat]: the chunks S3 sends of the object
  Infected,         \* the scans of an object with a virus, in its last chunk
  OkNamed,          \* those of them whose virus has "OK" in its name
  MaxLengths,       \* the limits clamd may be configured with, in chunks
  FaultKinds,       \* the kinds of fault the environment may inject ...
  MaxFaults         \* ... and how many of them (a bound for TLC)

Faults == {"s3", "stall", "reset", "slow", "clamd"}

ASSUME ObjectsAssumption == Length \in [Scans -> Nat] /\ OkNamed \subseteq Infected
                            /\ Infected \subseteq Scans
ASSUME LimitAssumption   == MaxLengths \subseteq Nat
ASSUME BudgetAssumption  == FaultKinds \subseteq Faults /\ MaxFaults \in Nat

VARIABLES
  clamd,     \* "up", "silent" (may accept, answers nothing) or "down" (refuses)
  limit,     \* clamd's StreamMaxLength
  outcome,   \* [Scans -> Outcomes]: what scanFileFromS3 settled with
  timer,     \* [Scans -> BOOLEAN]: the 120 s timer is armed
  socket,    \* [Scans -> Sockets]: the connection to clamd
  input,     \* [Scans -> Inputs]: the stream from S3
  read,      \* [Scans -> Nat]: the chunks taken out of it
  received,  \* [Scans -> Nat]: the chunks clamd has been given
  marked,    \* [Scans -> BOOLEAN]: and the terminator after them
  reply,     \* [Scans -> Replies]: what clamd said before it closed
  probe,     \* [Probes -> step of isHealthy]
  probeTimer,\* [Probes -> BOOLEAN]: its 3 s timer is armed
  faults     \* faults injected so far

streams == <<socket, input, read>>
peer    == <<received, marked, reply>>
scans   == <<outcome, timer, streams, peer>>
probes  == <<probe, probeTimer>>
vars    == <<clamd, limit, scans, probes, faults>>

Outcomes == {"none", "passed", "failed", "error"}
Sockets  == {"none", "connecting", "open", "ended", "destroyed"}
\* "unanswered": S3 says nothing to the request for the object; "stalled": it
\* sends no more of the stream; "failed": it broke off the one or the other.
Inputs   == {"none", "requested", "unanswered", "flowing", "stalled", "failed",
             "ended", "destroyed"}
\* Named by the words scanFileFromS3 looks for.
Replies  == {"none", "OK", "FOUND", "OK FOUND", "ERROR", "empty"}
ProbeSteps == {"new", "connecting", "open", "closed", "healthy", "unhealthy"}

TypeOK ==
  /\ clamd \in {"up", "silent", "down"}
  /\ limit \in MaxLengths
  /\ outcome \in [Scans -> Outcomes]
  /\ timer \in [Scans -> BOOLEAN]
  /\ socket \in [Scans -> Sockets]
  /\ input \in [Scans -> Inputs]
  /\ read \in [Scans -> Nat] /\ received \in [Scans -> Nat]
  /\ \A s \in Scans : received[s] <= read[s] /\ read[s] <= Length[s]
  /\ marked \in [Scans -> BOOLEAN]
  /\ reply \in [Scans -> Replies]
  /\ probe \in [Probes -> ProbeSteps]
  /\ probeTimer \in [Probes -> BOOLEAN]
  /\ faults \in 0..MaxFaults

\* "OK" is looked for in all of the reply, the name of a virus included.
Promise == INSTANCE ScanVerdict WITH Infected <- Infected \ OkNamed

Running(s) == socket[s] # "none" /\ outcome[s] = "none"
Settled(s) == outcome[s] # "none"
\* scanFileFromS3 awaits the answer to getObject.
Requested(s) == input[s] \in {"requested", "unanswered"}
\* The input's handlers are attached in the connect callback.
Wired(s)   == socket[s] \in {"open", "ended"}
\* Bytes written now reach clamd.
Heard(s)   == socket[s] = "open" /\ reply[s] = "none"

NoFault == UNCHANGED faults
Fault(kind) == /\ kind \in FaultKinds
               /\ faults < MaxFaults
               /\ faults' = faults + 1

Becomes(s, state) == socket' = [socket EXCEPT ![s] = state]
ClearTimeout(s)   == timer' = [timer EXCEPT ![s] = FALSE]
\* A promise keeps what it was settled with first.
Settle(s, o)      == outcome' = [outcome EXCEPT ![s] = IF @ = "none" THEN o ELSE @]
Flowing(s)        == input[s] \in {"flowing", "stalled"}
DestroyInput(s)   == input' = [input EXCEPT ![s] = IF Flowing(s) THEN "destroyed" ELSE @]

Init ==
  /\ clamd = "up"
  /\ limit \in MaxLengths
  /\ outcome = [s \in Scans |-> "none"]
  /\ timer = [s \in Scans |-> FALSE]
  /\ socket = [s \in Scans |-> "none"]
  /\ input = [s \in Scans |-> "none"]
  /\ read = [s \in Scans |-> 0]
  /\ received = [s \in Scans |-> 0]
  /\ marked = [s \in Scans |-> FALSE]
  /\ reply = [s \in Scans |-> "none"]
  /\ probe = [p \in Probes |-> "new"]
  /\ probeTimer = [p \in Probes |-> FALSE]
  /\ faults = 0

----------------------------------------------------------------------------
(* scanFileFromS3 and the callbacks of scanStream                          *)

\* scanFileFromS3 asks for the object.  There is no timer yet.
Download(s) ==
  /\ input[s] = "none"
  /\ input' = [input EXCEPT ![s] = "requested"]
  /\ UNCHANGED <<clamd, limit, outcome, timer, socket, read, peer, probes, faults>>

\* S3 leaves the request unanswered, for now or for ever.
RequestStalls(s) ==
  /\ input[s] = "requested"
  /\ Fault("stall")
  /\ input' = [input EXCEPT ![s] = "unanswered"]
  /\ UNCHANGED <<clamd, limit, outcome, timer, socket, read, peer, probes>>

\* downloadFileAsStream answers and scanStream starts to connect.
Open(s) ==
  /\ Requested(s)
  /\ input' = [input EXCEPT ![s] = "flowing"]
  /\ timer' = [timer EXCEPT ![s] = TRUE]
  /\ Becomes(s, "connecting")
  /\ UNCHANGED <<clamd, limit, outcome, read, peer, probes, faults>>

OpenFails(s) ==
  /\ Requested(s)
  /\ Fault("s3")
  /\ input' = [input EXCEPT ![s] = "failed"]
  /\ Settle(s, "error")
  /\ UNCHANGED <<clamd, limit, timer, socket, read, peer, probes>>

Connected(s) ==
  /\ socket[s] = "connecting"
  /\ clamd # "down"
  /\ Becomes(s, "open")
  /\ UNCHANGED <<clamd, limit, outcome, timer, input, read, peer, probes, faults>>

\* (Plausible bugs are defined beside the code they would be in.)
SocketError_LeavesTimer(s) ==
  /\ UNCHANGED timer
  /\ DestroyInput(s)
  /\ Becomes(s, "destroyed")
  /\ Settle(s, "error")

SocketError_LeavesInput(s) ==
  /\ ClearTimeout(s)
  /\ UNCHANGED input
  /\ Becomes(s, "destroyed")
  /\ Settle(s, "error")

\* socket.on('error')
SocketError(s) ==
  /\ ClearTimeout(s)
  /\ DestroyInput(s)
  /\ Becomes(s, "destroyed")
  /\ Settle(s, "error")

\* Refused, or reset: because clamd went away, or closed on unread chunks.
ConnectionFails(s) ==
  /\ \/ socket[s] = "connecting" /\ clamd = "down" /\ NoFault
     \/ socket[s] = "open" /\ (reply[s] = "ERROR" \/ clamd = "down") /\ NoFault
     \/ socket[s] = "open" /\ Fault("reset")
  /\ SocketError(s)
  /\ UNCHANGED <<clamd, limit, read, peer, probes>>

\* inputStream.on('data'): a write after the end is an error of the socket, or
\* goes nowhere.
Chunk(s) ==
  /\ Wired(s)
  /\ input[s] = "flowing"
  /\ read[s] < Length[s]
  /\ read' = [read EXCEPT ![s] = @ + 1]
  /\ received' = [received EXCEPT ![s] = IF Heard(s) THEN @ + 1 ELSE @]
  /\ \/ UNCHANGED <<outcome, timer, socket, input>>
     \/ socket[s] = "ended" /\ SocketError(s)
  /\ UNCHANGED <<clamd, limit, marked, reply, probes, faults>>

InputEnds_Unmarked(s) ==
  /\ Wired(s)
  /\ input[s] = "flowing"
  /\ read[s] = Length[s]
  /\ input' = [input EXCEPT ![s] = "ended"]
  /\ UNCHANGED <<clamd, limit, outcome, timer, socket, read, peer, probes, faults>>

\* inputStream.on('end'): the terminator, which asks clamd for its verdict.
InputEnds(s) ==
  /\ Wired(s)
  /\ input[s] = "flowing"
  /\ read[s] = Length[s]
  /\ input' = [input EXCEPT ![s] = "ended"]
  /\ marked' = [marked EXCEPT ![s] = Heard(s)]
  /\ UNCHANGED <<clamd, limit, outcome, timer, socket, read, received, reply, probes, faults>>

InputFails_Ends(s) ==
  /\ Flowing(s)
  /\ Fault("s3")
  /\ input' = [input EXCEPT ![s] = "failed"]
  /\ marked' = [marked EXCEPT ![s] = Heard(s)]
  /\ UNCHANGED <<clamd, limit, outcome, timer, socket, read, received, reply, probes>>

\* inputStream.on('error').  Before the connect callback nobody listens, and an
\* HTTP response reports no error then.
InputFails(s) ==
  /\ Flowing(s)
  /\ Fault("s3")
  /\ input' = [input EXCEPT ![s] = "failed"]
  /\ IF Wired(s) THEN ClearTimeout(s) /\ Becomes(s, "destroyed") /\ Settle(s, "error")
     ELSE UNCHANGED <<timer, socket, outcome>>
  /\ UNCHANGED <<clamd, limit, read, peer, probes>>

InputStalls(s) ==
  /\ input[s] = "flowing"
  /\ Fault("stall")
  /\ input' = [input EXCEPT ![s] = "stalled"]
  /\ UNCHANGED <<clamd, limit, outcome, timer, socket, read, peer, probes>>

\* What scanFileFromS3 makes of clamd's words: neither is an error.
Parse_Raw(r) == r
Parse_NotFound(r) == IF r = "FOUND" THEN "failed" ELSE "passed"
Parse(r) == IF r \in {"OK", "OK FOUND"} THEN "passed"
            ELSE IF r = "FOUND" THEN "failed" ELSE "error"

\* socket.on('end')
End(s) ==
  /\ socket[s] = "open"
  /\ reply[s] # "none"
  /\ ClearTimeout(s)
  /\ Becomes(s, "ended")
  /\ Settle(s, Parse(reply[s]))
  /\ UNCHANGED <<clamd, limit, input, read, peer, probes, faults>>

Timeout_Unarmed(s) == FALSE

\* The 120 s are over: while clamd or S3 is mute or, a fault, slow.
Timeout(s) ==
  /\ timer[s]
  /\ IF clamd # "up" \/ input[s] \in {"stalled", "failed"} THEN NoFault ELSE Fault("slow")
  /\ ClearTimeout(s)
  /\ DestroyInput(s)
  /\ Becomes(s, "destroyed")
  /\ Settle(s, "error")
  /\ UNCHANGED <<clamd, limit, read, peer, probes>>

----------------------------------------------------------------------------
(* clamd (external)                                                        *)

Verdict(s) ==
  IF s \notin Infected \/ received[s] < Length[s] THEN "OK"
  ELSE IF s \in OkNamed THEN "OK FOUND" ELSE "FOUND"

\* The verdict is on what arrived before the terminator.
Answer(s) ==
  /\ clamd = "up"
  /\ Heard(s)
  /\ marked[s]
  /\ received[s] <= limit
  /\ reply' = [reply EXCEPT ![s] = Verdict(s)]
  /\ UNCHANGED <<clamd, limit, outcome, timer, streams, received, marked, probes, faults>>

\* "INSTREAM size limit exceeded. ERROR"
TooLarge(s) ==
  /\ clamd = "up"
  /\ Heard(s)
  /\ received[s] > limit
  /\ reply' = [reply EXCEPT ![s] = "ERROR"]
  /\ UNCHANGED <<clamd, limit, outcome, timer, streams, received, marked, probes, faults>>

\* clamd closes the connection with no word.
Drop(s) ==
  /\ Heard(s)
  /\ Fault("clamd")
  /\ reply' = [reply EXCEPT ![s] = "empty"]
  /\ UNCHANGED <<clamd, limit, outcome, timer, streams, received, marked, probes>>

\* A new clamd knows nothing of the connections to the old one.
Daemon ==
  /\ \/ /\ clamd # "up" /\ clamd' = "up" /\ NoFault
        /\ clamd = "down" => /\ \A s \in Scans : ~Heard(s)
                             /\ \A p \in Probes : probe[p] # "open"
     \/ clamd = "up" /\ Fault("clamd") /\ clamd' \in {"silent", "down"}
  /\ UNCHANGED <<limit, scans, probes>>

----------------------------------------------------------------------------
(* isHealthy                                                               *)

Ask(p) ==
  /\ probe[p] = "new"
  /\ probe' = [probe EXCEPT ![p] = "connecting"]
  /\ probeTimer' = [probeTimer EXCEPT ![p] = TRUE]
  /\ UNCHANGED <<clamd, limit, scans, faults>>

\* The connect callback clears the timer before there is an answer.
ProbeConnected(p) ==
  /\ probe[p] = "connecting"
  /\ clamd # "down"
  /\ probe' = [probe EXCEPT ![p] = "open"]
  /\ probeTimer' = [probeTimer EXCEPT ![p] = FALSE]
  /\ UNCHANGED <<clamd, limit, scans, faults>>

\* socket.on('data'): any words but PONG, the fault, are a bad answer.
Pong(p) ==
  /\ probe[p] = "open"
  /\ clamd = "up"
  /\ \/ probe' = [probe EXCEPT ![p] = "healthy"] /\ NoFault
     \/ probe' = [probe EXCEPT ![p] = "unhealthy"] /\ Fault("clamd")
  /\ UNCHANGED <<clamd, limit, scans, probeTimer>>

ProbeFails(p) ==
  /\ probe[p] \in {"connecting", "open"}
  /\ clamd = "down"
  /\ probe' = [probe EXCEPT ![p] = "unhealthy"]
  /\ probeTimer' = [probeTimer EXCEPT ![p] = FALSE]
  /\ UNCHANGED <<clamd, limit, scans, faults>>

\* clamd closes the connection with no word: isHealthy has no 'end' handler.
ProbeDropped(p) ==
  /\ probe[p] = "open"
  /\ Fault("clamd")
  /\ probe' = [probe EXCEPT ![p] = "closed"]
  /\ UNCHANGED <<clamd, limit, scans, probeTimer>>

ProbeTimeout_Unarmed(p) == FALSE

ProbeTimeout(p) ==
  /\ probeTimer[p]
  /\ probe' = [probe EXCEPT ![p] = "unhealthy"]
  /\ probeTimer' = [probeTimer EXCEPT ![p] = FALSE]
  /\ UNCHANGED <<clamd, limit, scans, faults>>

----------------------------------------------------------------------------

Client(s) ==
  \/ Download(s) \/ RequestStalls(s) \/ Open(s) \/ OpenFails(s)
  \/ Connected(s) \/ ConnectionFails(s)
  \/ Chunk(s) \/ InputEnds(s) \/ InputFails(s) \/ InputStalls(s) \/ End(s) \/ Timeout(s)

Clamd(s) == Answer(s) \/ TooLarge(s) \/ Drop(s)

Probe(p) ==
  \/ Ask(p) \/ ProbeConnected(p) \/ Pong(p) \/ ProbeFails(p)
  \/ ProbeDropped(p) \/ ProbeTimeout(p)

Next ==
  \/ \E s \in Scans : Client(s) \/ Clamd(s)
  \/ \E p \in Probes : Probe(p)
  \/ Daemon

Spec == Init /\ [][Next]_vars

\* Timers fire; clamd and S3 do their part unless a fault keeps them from it.
\* Nothing makes S3 answer a request that it left unanswered.
Fairness ==
  /\ \A s \in Scans :
       /\ WF_vars(Timeout(s) /\ NoFault)
       /\ WF_vars((input[s] = "requested" /\ Open(s))
                   \/ Connected(s) \/ Chunk(s) \/ InputEnds(s) \/ End(s))
       /\ WF_vars(Answer(s) \/ TooLarge(s))
  /\ \A p \in Probes : WF_vars(ProbeTimeout(p)) /\ WF_vars(Pong(p)) /\ WF_vars(ProbeFails(p))

FairSpec == Spec /\ Fairness

----------------------------------------------------------------------------
(* Properties                                                              *)

\* A scan settles once, and with the truth about the file or with an error,
\* whichever callback of scanStream comes first and whatever clamd says, up to
\* viruses with "OK" in their names, which result.includes('OK') lets pass.
ImplementsVerdict == Promise!Spec

\* A verdict, good or bad, is about all chunks of the object and was asked for
\* with the terminator: a stream that broke off is never taken for a shorter
\* file (the 'end' and 'error' handlers of inputStream).
VerdictOnWholeFile == \A s \in Scans :
  outcome[s] \in {"passed", "failed"} => received[s] = Length[s] /\ input[s] = "ended"

\* A settled scan keeps no connection to clamd and no timer that would destroy
\* something later; as long as it is not settled, something is there to settle
\* it: the timer (every handler of scanStream pairs clearTimeout with a resolve
\* or reject).
TimerGuards == \A s \in Scans :
  /\ Settled(s) => ~timer[s] /\ socket[s] \notin {"connecting", "open"}
  /\ Running(s) => timer[s]

\* Every scan settles, whatever clamd does or stops doing and however the stream
\* breaks off or stalls, once S3 has answered the request for the object.  An S3
\* that does not keeps the task's poller for ever: the await of getObject, in
\* downloadFileAsStream, comes before the timer and has none of its own.
ScanSettles == \A s \in Scans :
  input[s] = "requested" ~> Settled(s) \/ input[s] = "unanswered"

\* With nothing broken or slow, a file within clamd's limit gets its verdict.
UnharmedIsJudged == \A s \in Scans :
  input[s] = "requested" ~>
    outcome[s] = Promise!Truth(s) \/ faults > 0 \/ Length[s] > limit

\* The stream from S3 does not outlive its scan, unless S3 neither sends nor
\* ends: after an early reply nothing but further chunks destroys it.
InputReleased == \A s \in Scans : Settled(s) ~> input[s] # "flowing"

\* A probe is answered, unless clamd accepts its connection and then closes it
\* or says nothing: the timer of 3 s guards the connecting only (clearTimeout in
\* the connect callback of isHealthy).
ProbeAnswered == \A p \in Probes :
  probe[p] = "connecting" ~>
    probe[p] \in {"healthy", "unhealthy", "closed"} \/ clamd = "silent"

----------------------------------------------------------------------------
(* The invariant the proofs rest on                                        *)

\* What a verdict rests on: as long as writes reach clamd it has all that was
\* read, the terminator comes after the whole object, and clamd answers it with
\* what it then has.
Exact(s) ==
  /\ socket[s] \in {"none", "connecting"} \/ Heard(s) => received[s] = read[s]
  /\ marked[s] => socket[s] # "none" /\ received[s] = Length[s] /\ input[s] = "ended"
  /\ reply[s] \in {"OK", "FOUND", "OK FOUND"} => marked[s] /\ reply[s] = Verdict(s)
  /\ outcome[s] \in {"passed", "failed"} => marked[s]

\* A scan has no timer before it connects, and connects after the answer of S3.
Begins(s) ==
  /\ socket[s] = "none" => ~timer[s]
  /\ input[s] \in {"none", "requested", "unanswered"} =>
       socket[s] = "none" /\ ~Settled(s)

ScanInv ==
  /\ TypeOK
  /\ TimerGuards
  /\ \A s \in Scans : Exact(s) /\ Begins(s)
==============================================================================
