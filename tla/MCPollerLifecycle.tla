------------------------- MODULE MCPollerLifecycle -------------------------
(* Small instances of PollerLifecycle for TLC. *)
EXTENDS PollerLifecycle

\* The base validator stands for the scanner too: their code is the same here.
TwoPollers == {"base", "transfer"}

\* An earlier version created FILE_VALIDATION with another retention policy.
Upgraded == {[FILE_VALIDATION |-> "leftover", VALIDATION_RESULTS |-> "ready"]}
=============================================================================
