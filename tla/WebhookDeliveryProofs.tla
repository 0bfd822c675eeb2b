------------------------ MODULE WebhookDeliveryProofs ------------------------
(* What WebhookDelivery promises for any number of events, attempts and      *)
(* faults.                                                                   *)
EXTENDS WebhookDelivery, FiniteSetTheorems, TLAPS

LEMMA Budget ==
  ASSUME NEW kind, faults \in 0..MaxFaults, Fault(kind)
  PROVE  faults' \in 0..MaxFaults /\ faults' = faults + 1
  BY BudgetAssumption DEF Fault

\* The failure that ends an attempt leads to a pause or to the end.
LEMMA FailureType ==
  ASSUME NEW e
  PROVE  /\ AfterFailure(e) \in {"sleep", "given_up"}
         /\ AfterFailure(e) = "sleep" => attempt[e] < Retries
         /\ AfterFailure(e) = "given_up" => ~(attempt[e] < Retries)
  BY DEF AfterFailure

----------------------------------------------------------------------------
(* Types, and how the attempt goes with the phase: the argument of          *)
(* sendWithRetry counts the requests made.                                  *)

Counted == \A e \in Events :
  /\ phase[e] \in {"new", "skipped"} => attempt[e] = 0
  /\ phase[e] = "fetch" => attempt[e] \in Attempts
  /\ phase[e] = "sleep" => attempt[e] \in Attempts /\ attempt[e] < Retries
  /\ phase[e] = "given_up" => attempt[e] = Retries
  /\ \A n \in Attempts : n > attempt[e] => request[e][n] = "none"

TypeInv == TypeOK /\ Counted

LEMMA TypeInit == Init => TypeInv
  BY RetriesAssumption, BudgetAssumption
  DEF Init, TypeInv, TypeOK, Counted, Phases, Requests, Attempts

\* What a step does to the events: one is handed over, made its next request,
\* given up on ("abort"), or hears of a request; a crash forgets all.
LEMMA TypeNext == TypeInv /\ [Next]_vars => TypeInv'
  <1> SUFFICES ASSUME TypeInv, [Next]_vars PROVE TypeInv'
    OBVIOUS
  <1> USE RetriesAssumption DEF TypeInv, TypeOK, Counted, Phases, Requests, Attempts, Goto, Becomes
  <1>1. ASSUME NEW e \in Events, Skip(e) PROVE TypeInv'
    BY <1>1 DEF Skip
  <1>2. ASSUME NEW e \in Events, NEW n \in Attempts, n = attempt[e] + 1, Post(e, n),
               UNCHANGED <<alive, faults>>
        PROVE  TypeInv'
    BY <1>2 DEF Post
  <1>3. ASSUME NEW e \in Events, Send(e) PROVE TypeInv'
    <2>1. 1 \in Attempts /\ 1 = attempt[e] + 1
      BY <1>3 DEF Send
    <2> QED BY <1>2, <1>3, <2>1 DEF Send
  <1>4. ASSUME NEW e \in Events, Retry(e) PROVE TypeInv'
    <2>1. attempt[e] + 1 \in Attempts
      BY <1>4 DEF Retry
    <2> QED BY <1>2, <1>4, <2>1 DEF Retry
  <1>5. ASSUME NEW e \in Events, Abort(e) PROVE TypeInv'
    BY <1>5, FailureType DEF Abort
  \* A request that was made meets its fate.
  <1>6. ASSUME NEW e \in Events, NEW n \in Attempts, NEW fate \in Requests,
               request[e][n] \in {"sent", "stalled"}, Becomes(e, n, fate),
               UNCHANGED <<attempt, alive>>, faults' \in 0..MaxFaults,
               \/ UNCHANGED phase
               \/ \E next \in {"delivered", "sleep", "given_up"} :
                    /\ Awaits(e, n) /\ Goto(e, next)
                    /\ next = "sleep" => attempt[e] < Retries
                    /\ next = "given_up" => ~(attempt[e] < Retries)
        PROVE  TypeInv'
    <2>0. request' = [request EXCEPT ![e][n] = fate] /\ request[e][n] # "none"
      BY <1>6
    <2>1. request' \in [Events -> [Attempts -> Requests]] /\ n <= attempt[e]
      BY <2>0
    <2>2. \A d \in Events, k \in Attempts : k > attempt[d] => request'[d][k] = "none"
      BY <1>6, <2>0, <2>1
    <2>3. CASE UNCHANGED phase
      BY <1>6, <2>1, <2>2, <2>3
    <2>4. ASSUME NEW next \in {"delivered", "sleep", "given_up"}, Awaits(e, n), Goto(e, next),
                 next = "sleep" => attempt[e] < Retries,
                 next = "given_up" => ~(attempt[e] < Retries)
          PROVE  TypeInv'
      BY <1>6, <2>1, <2>2, <2>4 DEF Awaits
    <2> QED BY <1>6, <2>3, <2>4
  <1>7. ASSUME NEW e \in Events, NEW n \in Attempts, Receiver(e, n) PROVE TypeInv'
    <2>1. CASE Accept(e, n)
      BY <1>6, <2>1 DEF Accept, OnWay, Hears
    <2>2. ASSUME NEW kind, NEW fate \in {"unheard", "refused", "failed"},
                 OnWay(e, n), Fault(kind), Becomes(e, n, fate), Hears(e, n, AfterFailure(e)),
                 UNCHANGED <<attempt, alive>>
          PROVE  TypeInv'
      BY <1>6, <2>2, Budget, FailureType DEF OnWay, Hears
    <2>3. CASE AnswerLost(e, n)
      BY <2>2, <2>3 DEF AnswerLost
    <2>4. CASE Refuse(e, n)
      BY <2>2, <2>4 DEF Refuse
    <2>5. CASE Unreachable(e, n)
      BY <2>2, <2>5 DEF Unreachable
    <2>6. CASE Stall(e, n)
      BY <1>6, <2>6, Budget DEF Stall
    <2> QED BY <1>7, <2>1, <2>3, <2>4, <2>5, <2>6 DEF Receiver
  <1>8. CASE Crash
    BY <1>8, Budget DEF Crash, Pending
  <1>9. CASE UNCHANGED vars
    BY <1>9 DEF vars
  <1> QED BY <1>1, <1>3, <1>4, <1>5, <1>7, <1>8, <1>9 DEF Next, Service

\* Every variable keeps its type; in particular no event is posted more often
\* than webhooks.retries says (sendWithRetry).
THEOREM DeliveryTypes == Spec => []TypeOK
  <1>1. TypeInv => TypeOK
    BY DEF TypeInv
  <1> QED BY <1>1, TypeInit, TypeNext, PTL DEF Spec

----------------------------------------------------------------------------
(* Duplicates.  A receiver has more of an event than it needs only from      *)
(* attempts before the last, and each of those was ended by a fault.         *)

\* The attempts that a fault has ended, or will end when the timer fires.
Failed == {a \in Events \X Attempts :
  \/ a[2] < attempt[a[1]]
  \/ /\ a[2] = attempt[a[1]]
     /\ \/ phase[a[1]] \in {"sleep", "given_up"}
        \/ phase[a[1]] = "fetch" /\ request[a[1]][a[2]] = "stalled"}

HandedOver == {e \in Events : phase[e] # "new"}

CountInv ==
  /\ IsFiniteSet(HandedOver)
  /\ IsFiniteSet(Failed)
  /\ Cardinality(Failed) <= faults

\* A step adds an attempt to the failed ones only at the price of a fault.
LEMMA FailedGrows ==
  ASSUME TypeInv, [Next]_vars
  PROVE  \/ Failed' \subseteq Failed /\ faults' \in {faults, faults + 1}
         \/ \E a : Failed' \subseteq Failed \cup {a} /\ faults' = faults + 1
  <1> USE DEF TypeInv, TypeOK, Counted, Goto, Becomes
  <1>1. ASSUME NEW e \in Events, Skip(e) \/ Abort(e)
        PROVE  Failed' \subseteq Failed /\ faults' = faults
    BY <1>1, FailureType DEF Skip, Abort, Failed
  <1>2. ASSUME NEW e \in Events, Send(e) \/ Retry(e)
        PROVE  Failed' \subseteq Failed /\ faults' = faults
    <2>1. PICK n \in Nat : Post(e, n) /\ n = attempt[e] + 1 /\ faults' = faults
      BY <1>2 DEF Send, Retry, Attempts
    <2>2. \A d \in Events \ {e} :
            phase'[d] = phase[d] /\ attempt'[d] = attempt[d] /\ request'[d] = request[d]
      BY <2>1 DEF Post
    <2>3. phase'[e] = "fetch" /\ attempt'[e] = n
      BY <2>1 DEF Post
    <2>4. n \in Attempts => request'[e][n] = "sent"
      BY <2>1 DEF Post
    <2>5. ASSUME NEW k \in Attempts, k < n PROVE <<e, k>> \in Failed
      BY <1>2, <2>1, <2>5 DEF Failed, Send, Retry, Attempts
    <2> QED BY <2>1, <2>2, <2>3, <2>4, <2>5 DEF Failed
  <1>3. ASSUME NEW e \in Events, NEW n \in Attempts, Accept(e, n)
        PROVE  Failed' \subseteq Failed /\ faults' = faults
    BY <1>3 DEF Accept, Hears, Awaits, Failed
  <1>4. ASSUME NEW e \in Events, NEW n \in Attempts, Receiver(e, n), ~Accept(e, n)
        PROVE  Failed' \subseteq Failed \cup {<<e, n>>} /\ faults' = faults + 1
    <2>1. faults' = faults + 1 /\ UNCHANGED attempt
      BY <1>4, Budget DEF Receiver, AnswerLost, Refuse, Unreachable, Stall
    <2>2. \A d \in Events \ {e} : phase'[d] = phase[d] /\ request'[d] = request[d]
      BY <1>4 DEF Receiver, AnswerLost, Refuse, Unreachable, Stall, Hears
    <2>3. \A k \in Attempts \ {n} : request'[e][k] = request[e][k]
      BY <1>4 DEF Receiver, AnswerLost, Refuse, Unreachable, Stall
    <2>4. phase'[e] = phase[e] \/ attempt[e] = n
      BY <1>4 DEF Receiver, AnswerLost, Refuse, Unreachable, Stall, Hears, Awaits
    <2> QED BY <2>1, <2>2, <2>3, <2>4 DEF Failed
  <1>5. ASSUME Crash PROVE Failed' \subseteq Failed /\ faults' = faults + 1
    BY <1>5, Budget DEF Crash, Pending, Failed
  <1>6. ASSUME UNCHANGED vars PROVE Failed' \subseteq Failed /\ faults' = faults
    BY <1>6 DEF vars, Failed
  <1> QED BY <1>1, <1>2, <1>3, <1>4, <1>5, <1>6 DEF Next, Service

LEMMA HandedOverGrows ==
  ASSUME TypeInv, [Next]_vars
  PROVE  \E x : HandedOver' \subseteq HandedOver \cup {x}
  <1> USE DEF TypeInv, TypeOK, HandedOver, Goto
  <1>1. ASSUME NEW e \in Events, Service(e) PROVE HandedOver' \subseteq HandedOver \cup {e}
    BY <1>1 DEF Service, Skip, Send, Retry, Abort, Post
  <1>2. ASSUME NEW e \in Events, NEW n \in Attempts, Receiver(e, n)
        PROVE  HandedOver' \subseteq HandedOver
    BY <1>2 DEF Receiver, Accept, AnswerLost, Refuse, Unreachable, Stall, Hears, Awaits
  <1>3. CASE Crash
    BY <1>3 DEF Crash, Pending
  <1>4. CASE UNCHANGED vars
    BY <1>4 DEF vars
  <1> QED BY <1>1, <1>2, <1>3, <1>4 DEF Next

LEMMA CountNext == TypeInv /\ CountInv /\ [Next]_vars => CountInv'
  <1> SUFFICES ASSUME TypeInv, CountInv, [Next]_vars PROVE CountInv'
    OBVIOUS
  <1> USE DEF CountInv
  <1>1. IsFiniteSet(HandedOver')
    <2>1. PICK x : HandedOver' \in SUBSET (HandedOver \cup {x})
      BY HandedOverGrows
    <2> QED BY <2>1, FS_AddElement, FS_Subset
  <1>2. faults \in Nat /\ Cardinality(Failed) \in Nat
    BY FS_CardinalityType DEF TypeInv, TypeOK
  <1>3. CASE Failed' \subseteq Failed /\ faults' \in {faults, faults + 1}
    <2>1. IsFiniteSet(Failed') /\ Cardinality(Failed') <= Cardinality(Failed)
      BY <1>3, FS_Subset
    <2>2. Cardinality(Failed') \in Nat
      BY <2>1, FS_CardinalityType
    <2> QED BY <1>1, <1>2, <1>3, <2>1, <2>2
  <1>4. ASSUME NEW a, Failed' \subseteq Failed \cup {a}, faults' = faults + 1
        PROVE  CountInv'
    <2>1. /\ IsFiniteSet(Failed \cup {a})
          /\ Cardinality(Failed \cup {a}) <= Cardinality(Failed) + 1
          /\ Cardinality(Failed \cup {a}) \in Nat
      <3>1. IsFiniteSet(Failed \cup {a})
        BY FS_AddElement
      <3>2. Cardinality(Failed \cup {a}) \in {Cardinality(Failed), Cardinality(Failed) + 1}
        BY FS_AddElement
      <3> QED BY <1>2, <3>1, <3>2
    <2>2. IsFiniteSet(Failed') /\ Cardinality(Failed') <= Cardinality(Failed \cup {a})
      BY <1>4, <2>1, FS_Subset
    <2>3. Cardinality(Failed') \in Nat
      BY <2>2, FS_CardinalityType
    <2> QED BY <1>1, <1>2, <1>4, <2>1, <2>2, <2>3
  <1> QED BY <1>3, <1>4, FailedGrows

\* Each event's last attempt aside, the accepted ones were ended by a fault.
LEMMA DuplicatesFailed ==
  ASSUME TypeInv, CountInv
  PROVE  DuplicatesAreFaults
  <1> DEFINE acceptances == UNION {{e} \X Accepted(e) : e \in Events}
             reached     == {e \in Events : Accepted(e) # {}}
             last        == {<<e, attempt[e]>> : e \in reached}
             f           == [e \in reached |-> <<e, attempt[e]>>]
  <1>1. IsFiniteSet(reached)
    <2>1. ASSUME NEW e \in reached PROVE e \in HandedOver
      <3>1. PICK n \in Attempts : request[e][n] \in {"accepted", "unheard"}
        BY DEF Accepted
      <3>2. ~(n > attempt[e]) /\ n > 0
        BY <3>1 DEF TypeInv, Counted, Attempts
      <3> QED BY <3>2 DEF TypeInv, TypeOK, Counted, HandedOver, Attempts
    <2>2. reached \in SUBSET HandedOver
      BY <2>1
    <2> QED BY <2>2, FS_Subset DEF CountInv
  <1>2. IsFiniteSet(last) /\ Cardinality(last) <= Cardinality(reached)
    <2>1. f \in Surjection(reached, last)
      BY DEF Surjection
    <2> QED BY <1>1, <2>1, FS_Surjection
  <1>3. acceptances \in SUBSET (last \cup Failed)
    <2> SUFFICES ASSUME NEW e \in Events, NEW n \in Accepted(e)
                 PROVE  <<e, n>> \in last \cup Failed
      OBVIOUS
    <2>1. n \in Attempts /\ request[e][n] # "none" /\ e \in reached
      BY DEF Accepted
    <2>2. n <= attempt[e]
      BY <2>1 DEF TypeInv, TypeOK, Counted, Attempts
    <2>3. CASE n = attempt[e]
      BY <2>1, <2>3
    <2>4. CASE n < attempt[e]
      BY <2>1, <2>4 DEF Failed
    <2> QED BY <2>1, <2>2, <2>3, <2>4 DEF TypeInv, TypeOK, Attempts
  <1> HIDE DEF acceptances, reached, last
  <1>4. /\ IsFiniteSet(last \cup Failed)
        /\ Cardinality(last \cup Failed) =
             Cardinality(last) + Cardinality(Failed) - Cardinality(last \cap Failed)
        /\ IsFiniteSet(last \cap Failed)
    BY <1>2, FS_Union, FS_Intersection DEF CountInv
  <1>5. IsFiniteSet(acceptances) /\ Cardinality(acceptances) <= Cardinality(last \cup Failed)
    BY <1>3, <1>4, FS_Subset
  <1>6. /\ Cardinality(acceptances) \in Nat /\ Cardinality(reached) \in Nat
        /\ Cardinality(last) \in Nat /\ Cardinality(Failed) \in Nat
        /\ Cardinality(last \cap Failed) \in Nat /\ faults \in Nat
    BY <1>1, <1>2, <1>4, <1>5, FS_CardinalityType DEF CountInv, TypeInv, TypeOK
  <1>7. Cardinality(acceptances) - Cardinality(reached) <= faults
    BY <1>2, <1>4, <1>5, <1>6 DEF CountInv
  <1> QED BY <1>7 DEF DuplicatesAreFaults, acceptances, reached

LEMMA CountInit == Init => CountInv
  <1> SUFFICES ASSUME Init PROVE CountInv
    OBVIOUS
  <1>1. HandedOver = {} /\ Failed = {}
    BY DEF Init, HandedOver, Failed, Attempts
  <1> QED BY <1>1, FS_EmptySet DEF CountInv, Init

\* For any number of events, attempts and faults: however answers get lost,
\* come late or not at all, the receivers hear an event a second time at most
\* once per fault (sendWithRetry).
THEOREM DuplicatesNeedFaults == Spec => []DuplicatesAreFaults
  <1> QED BY CountInit, CountNext, TypeInit, TypeNext, DuplicatesFailed, PTL DEF Spec

\* An event is given up on only after as many faults as there are attempts.
GivesUpOnlyOnFaults == (\E e \in Events : phase[e] = "given_up") => faults >= Retries

\* The service gives an event up only when every one of its attempts was ended
\* by a fault of its own: the safety core of Reaches (sendWithRetry).
THEOREM GivingUpNeedsFaults == Spec => []GivesUpOnlyOnFaults
  <1>1. TypeInv /\ CountInv => GivesUpOnlyOnFaults
    <2> SUFFICES ASSUME TypeInv, CountInv, NEW e \in Events, phase[e] = "given_up"
                 PROVE  faults >= Retries
      BY DEF GivesUpOnlyOnFaults
    <2> DEFINE f == [n \in Attempts |-> <<e, n>>]
    <2>1. f \in Injection(Attempts, Failed)
      <3>1. \A n \in Attempts : <<e, n>> \in Failed
        BY DEF TypeInv, TypeOK, Counted, Failed, Attempts
      <3>2. f \in [Attempts -> Failed]
        BY <3>1
      <3>3. \A m, n \in Attempts : f[m] = f[n] => m = n
        OBVIOUS
      <3> QED BY <3>2, <3>3 DEF Injection, IsInjective
    <2>2. Cardinality(Attempts) <= Cardinality(Failed)
      BY <2>1, FS_Injection DEF CountInv
    <2>3. Cardinality(Attempts) = Retries
      BY RetriesAssumption, FS_Interval DEF Attempts
    <2>4. Cardinality(Failed) \in Nat /\ faults \in Nat
      BY FS_CardinalityType DEF CountInv, TypeInv, TypeOK
    <2> QED BY <2>2, <2>3, <2>4, RetriesAssumption DEF CountInv
  <1> QED BY <1>1, CountInit, CountNext, TypeInit, TypeNext, PTL DEF Spec
=============================================================================
