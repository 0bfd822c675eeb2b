--------------------------- MODULE WebhookDelivery ---------------------------
(***************************************************************************)
(* What becomes of an event once the transfer service has handed it to     *)
(* WebhookService.sendWebhook: up to Retries POST requests, each aborted   *)
(* after a timeout, with a pause after each failure.  The whole delivery   *)
(* lives in the memory of one process.  A receiver may be down, refuse, be *)
(* too slow, or accept the event and lose the answer on its way back.      *)
(***************************************************************************)
EXTENDS Integers, FiniteSets

CONSTANTS
  Events,        \* the events handed over in the life of the process
  Enabled,       \* webhooks.enabled
  EventEnabled,  \* the events whose type is configured and enabled
  OwnUrl,        \* the events whose type has a URL of its own
  GlobalUrl,     \* whether webhooks.globalUrl is set
  Retries,       \* webhooks.retries
  FaultKinds,    \* the kinds of fault the environment may inject ...
  MaxFaults      \* ... and how many of them (a bound for TLC)

Faults == {"net", "status", "slow", "crash"}

ASSUME EventsAssumption  == EventEnabled \subseteq Events /\ OwnUrl \subseteq Events
ASSUME ConfigAssumption  == {Enabled, GlobalUrl} \subseteq BOOLEAN
ASSUME RetriesAssumption == Retries \in Nat \ {0}
ASSUME BudgetAssumption  == FaultKinds \subseteq Faults /\ MaxFaults \in Nat

VARIABLES
  phase,     \* [Events -> Phases]: how far sendWithRetry has come
  attempt,   \* [Events -> 0..Retries]: its argument, 0 before the first call
  request,   \* [Events -> [Attempts -> Requests]]: what became of each POST
  alive,     \* the process that delivers is running
  faults     \* faults injected so far

vars == <<phase, attempt, request, alive, faults>>

Attempts == 1..Retries
\* "stalled": on its way or at the receiver for longer than the timeout;
\* "unheard": accepted by the receiver, and the answer lost.
Requests == {"none", "sent", "stalled", "accepted", "unheard", "refused", "failed"}
Phases   == {"new", "skipped", "fetch", "sleep", "delivered", "given_up", "lost"}

TypeOK ==
  /\ phase \in [Events -> Phases]
  /\ attempt \in [Events -> 0..Retries]
  /\ request \in [Events -> [Attempts -> Requests]]
  /\ alive \in BOOLEAN
  /\ faults \in 0..MaxFaults

Wanted(e)  == Enabled /\ e \in EventEnabled /\ (e \in OwnUrl \/ GlobalUrl)
Pending(e) == phase[e] \in {"fetch", "sleep"}
Ended(e)   == phase[e] \in {"skipped", "delivered", "given_up", "lost"}
Accepted(e) == {n \in Attempts : request[e][n] \in {"accepted", "unheard"}}
\* The request whose answer sendWithRetry is awaiting.
Awaits(e, n) == phase[e] = "fetch" /\ attempt[e] = n

Goto(e, step)       == phase' = [phase EXCEPT ![e] = step]
Becomes(e, n, fate) == request' = [request EXCEPT ![e][n] = fate]

NoFault == UNCHANGED faults
Fault(kind) == /\ kind \in FaultKinds
               /\ faults < MaxFaults
               /\ faults' = faults + 1

Init ==
  /\ phase = [e \in Events |-> "new"]
  /\ attempt = [e \in Events |-> 0]
  /\ request = [e \in Events |-> [n \in Attempts |-> "none"]]
  /\ alive = TRUE
  /\ faults = 0

----------------------------------------------------------------------------
(* The service                                                             *)

\* sendWithRetry(url, payload, eventType, n), up to the await of fetch.
Post(e, n) ==
  /\ attempt' = [attempt EXCEPT ![e] = n]
  /\ Becomes(e, n, "sent")
  /\ Goto(e, "fetch")

\* sendWebhook returns at once without configuration, event or URL.
Skip(e) ==
  /\ alive
  /\ phase[e] = "new"
  /\ ~Wanted(e)
  /\ Goto(e, "skipped")
  /\ UNCHANGED <<attempt, request, alive, faults>>

Send(e) ==
  /\ alive
  /\ phase[e] = "new"
  /\ Wanted(e)
  /\ Post(e, 1)
  /\ UNCHANGED <<alive, faults>>

\* (Plausible bugs are defined beside the code they would be in.)
AfterFailure_OffByOne(e) == IF attempt[e] + 1 < Retries THEN "sleep" ELSE "given_up"
AfterFailure_NeverEnds(e) == IF attempt[e] <= Retries THEN "sleep" ELSE "given_up"
AfterFailure(e) == IF attempt[e] < Retries THEN "sleep" ELSE "given_up"

\* The pause of 2^attempt seconds is over.
Retry(e) ==
  /\ phase[e] = "sleep"
  /\ Post(e, attempt[e] + 1)
  /\ UNCHANGED <<alive, faults>>

Abort_NeverArmed(e) == FALSE

\* The AbortController's timer: fetch rejects; the receiver may have the
\* request all the same.
Abort(e) ==
  /\ phase[e] = "fetch"
  /\ request[e][attempt[e]] = "stalled"
  /\ Goto(e, AfterFailure(e))
  /\ UNCHANGED <<attempt, request, alive, faults>>

\* Pending deliveries are nowhere but in memory.
Crash ==
  /\ alive
  /\ Fault("crash")
  /\ alive' = FALSE
  /\ phase' = [e \in Events |-> IF Pending(e) THEN "lost" ELSE phase[e]]
  /\ UNCHANGED <<attempt, request>>

----------------------------------------------------------------------------
(* The receiver and the network, with what fetch makes of the answer       *)

OnWay(e, n) == request[e][n] \in {"sent", "stalled"}

\* Only the attempt that is awaited notices; a late answer goes nowhere.
Hears(e, n, next) == IF Awaits(e, n) THEN Goto(e, next) ELSE UNCHANGED phase

Accept_Retried(e, n) ==
  /\ OnWay(e, n)
  /\ Becomes(e, n, "accepted")
  /\ Hears(e, n, AfterFailure(e))
  /\ UNCHANGED <<attempt, alive, faults>>

Accept(e, n) ==
  /\ OnWay(e, n)
  /\ Becomes(e, n, "accepted")
  /\ Hears(e, n, "delivered")
  /\ UNCHANGED <<attempt, alive, faults>>

\* The receiver has taken the event, and the connection breaks.
AnswerLost(e, n) ==
  /\ OnWay(e, n)
  /\ Fault("net")
  /\ Becomes(e, n, "unheard")
  /\ Hears(e, n, AfterFailure(e))
  /\ UNCHANGED <<attempt, alive>>

\* Any status outside 200..299 is thrown as an error.
Refuse(e, n) ==
  /\ OnWay(e, n)
  /\ Fault("status")
  /\ Becomes(e, n, "refused")
  /\ Hears(e, n, AfterFailure(e))
  /\ UNCHANGED <<attempt, alive>>

Unreachable(e, n) ==
  /\ OnWay(e, n)
  /\ Fault("net")
  /\ Becomes(e, n, "failed")
  /\ Hears(e, n, AfterFailure(e))
  /\ UNCHANGED <<attempt, alive>>

\* The receiver, or the way to it, takes longer than the timeout.
Stall(e, n) ==
  /\ request[e][n] = "sent"
  /\ Fault("slow")
  /\ Becomes(e, n, "stalled")
  /\ UNCHANGED <<phase, attempt, alive>>

----------------------------------------------------------------------------

Service(e) == Skip(e) \/ Send(e) \/ Retry(e) \/ Abort(e)

Receiver(e, n) ==
  Accept(e, n) \/ AnswerLost(e, n) \/ Refuse(e, n) \/ Unreachable(e, n) \/ Stall(e, n)

Next ==
  \/ \E e \in Events : Service(e) \/ \E n \in Attempts : Receiver(e, n)
  \/ Crash

Spec == Init /\ [][Next]_vars

\* Timers fire, and a receiver answers what has not stalled.  When an event is
\* handed over is the transfer's choice.
Fairness == \A e \in Events :
  /\ WF_vars(Retry(e))
  /\ WF_vars(Abort(e))
  /\ \A n \in Attempts : WF_vars(request[e][n] = "sent" /\ Accept(e, n))

FairSpec == Spec /\ Fairness

----------------------------------------------------------------------------
(* Properties                                                              *)

\* A receiver is given an event once more than needed only for an answer the
\* service could not have heard: all duplicates together are no more than the
\* lost answers and timeouts (sendWithRetry awaits one attempt before it makes
\* the next, and a crash forgets the delivery).
DuplicatesAreFaults ==
  LET acceptances == UNION {{e} \X Accepted(e) : e \in Events}
      reached     == {e \in Events : Accepted(e) # {}}
  IN Cardinality(acceptances) - Cardinality(reached) <= faults

\* An event that is sent reaches its receiver if fewer calls fail than there
\* are attempts, unless the process ends first (sendWithRetry).
Reaches == \A e \in Events :
  Pending(e) ~> Accepted(e) # {} \/ phase[e] = "lost" \/ faults >= Retries

\* No delivery hangs, whatever the receiver does: the abort timer ends every
\* fetch and the retries end (AbortController in sendWithRetry).
DeliveryEnds == \A e \in Events : Pending(e) ~> Ended(e)
==============================================================================
