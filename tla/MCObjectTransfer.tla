-------------------------- MODULE MCObjectTransfer --------------------------
(* Small instances of ObjectTransfer for TLC. *)
EXTENDS ObjectTransfer, TLC

CONSTANTS f1

OneFile == {f1}
Replicas == Permutations(Workers)

Result(v, s, i) == [file |-> f1, validator |-> v, status |-> s, id |-> i]

\* Both pass, and a scan error was reported before the scan succeeded.
ScanRetried == {Result("base", "passed", 1), Result("clamav", "failed", 1),
                Result("clamav", "passed", 2)}
\* Both pass, one of the results is published twice.
BothPass == {Result("base", "passed", 1), Result("base", "passed", 2),
             Result("clamav", "passed", 1)}
FlagAll      == [v \in Validators |-> TRUE]
DeleteInfected == [v \in Validators |-> v = "base"]

AllFaults     == Faults
\* Every fault that leaves a result either in the key-value store or unsettled.
BenignFaults == Faults \ {"stat", "ttl", "init"}
StatFault     == {"stat"}
=============================================================================
