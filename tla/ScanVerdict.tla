----------------------------- MODULE ScanVerdict -----------------------------
(***************************************************************************)
(* What a scan promises its caller, processMessage: it settles at most     *)
(* once, with the truth about the whole file or with an error.  This is    *)
(* what ValidationPipeline makes of it (Check and Verdict, CheckFails or,  *)
(* if it never settles, CheckHangs).                                       *)
(***************************************************************************)
CONSTANTS Scans, Infected

VARIABLE outcome  \* [Scans -> "none" or what scanFileFromS3 settled with]

Truth(s) == IF s \in Infected THEN "failed" ELSE "passed"

Init == outcome = [s \in Scans |-> "none"]

Settle(s) ==
  /\ outcome[s] = "none"
  /\ \E o \in {Truth(s), "error"} : outcome' = [outcome EXCEPT ![s] = o]

Next == \E s \in Scans : Settle(s)

Spec == Init /\ [][Next]_outcome
==============================================================================
