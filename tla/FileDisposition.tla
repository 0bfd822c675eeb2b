--------------------------- MODULE FileDisposition ---------------------------
(***************************************************************************)
(* What the validation pipeline promises about every uploaded file,        *)
(* without replicas, queues or a key-value store: a file waits in the      *)
(* quarantined bucket, verdicts about it arrive, and it may be copied to   *)
(* the validated bucket only when every validator has passed it, to the    *)
(* flagged bucket only when every validator has judged it and one has      *)
(* failed it, and be removed from quarantine only once a copy exists or    *)
(* its deletion was announced.                                             *)
(* ObjectTransfer is shown to implement this specification.                *)
(***************************************************************************)
EXTENDS Integers

CONSTANTS
  Files,           \* the objects (uploadId:objectName pairs) under validation
  MoveToFlagged    \* [validator -> BOOLEAN], the actionHandlers configuration

Validators == {"base", "clamav"}
Statuses   == {"passed", "failed"}
Buckets    == {"quarantined", "validated", "flagged"}
Events     == {"file_validated", "file_flagged", "file_deleted"}

VARIABLES
  verdicts,        \* the <<file, validator, status>> published so far
  location,        \* [Files -> SUBSET Buckets]: the buckets that hold a copy
  announced        \* the <<file, event>> webhooks sent so far

vars == <<verdicts, location, announced>>

Passed(f) == \A v \in Validators : <<f, v, "passed">> \in verdicts

Judged(f) == \A v \in Validators : \E s \in Statuses : <<f, v, s>> \in verdicts

\* A verdict that sends the file to the flagged bucket (flag = TRUE) or one
\* that leaves it to be deleted (flag = FALSE).
Failed(f, flag) ==
  \E v \in Validators : <<f, v, "failed">> \in verdicts /\ MoveToFlagged[v] = flag

Init ==
  /\ verdicts = {}
  /\ location = [f \in Files |-> {"quarantined"}]
  /\ announced = {}

Judge(f, v, s) ==
  /\ verdicts' = verdicts \cup {<<f, v, s>>}
  /\ UNCHANGED <<location, announced>>

CopyTo(f, bucket) ==
  /\ "quarantined" \in location[f]
  /\ location' = [location EXCEPT ![f] = @ \cup {bucket}]
  /\ UNCHANGED <<verdicts, announced>>

Release(f) == Passed(f) /\ CopyTo(f, "validated")

Flag(f) == Judged(f) /\ Failed(f, TRUE) /\ CopyTo(f, "flagged")

Remove(f) ==
  /\ \/ location[f] \cap {"validated", "flagged"} # {}
     \/ <<f, "file_deleted">> \in announced
  /\ location' = [location EXCEPT ![f] = @ \ {"quarantined"}]
  /\ UNCHANGED <<verdicts, announced>>

\* A webhook about the file: the client is told of a release only after the
\* file has left quarantine, of flagging once the copy is there, and of a
\* deletion before it happens.
Announce(f, e) ==
  /\ \/ /\ e = "file_validated"
        /\ "validated" \in location[f]
        /\ "quarantined" \notin location[f]
     \/ e = "file_flagged" /\ "flagged" \in location[f]
     \/ e = "file_deleted" /\ Judged(f) /\ Failed(f, FALSE)
  /\ announced' = announced \cup {<<f, e>>}
  /\ UNCHANGED <<verdicts, location>>

Next ==
  \E f \in Files :
    \/ \E v \in Validators, s \in Statuses : Judge(f, v, s)
    \/ Release(f)
    \/ Flag(f)
    \/ Remove(f)
    \/ \E e \in Events : Announce(f, e)

Spec == Init /\ [][Next]_vars
==============================================================================
