--------------------------- MODULE MCClamavClient ----------------------------
(* Small instances of ClamavClient for TLC. *)
EXTENDS ClamavClient, FiniteSets

CONSTANTS virus, clean, named

\* Two infected files, one of them by a virus with "OK" in its name, and a good
\* one; with a limit of 1 the infected ones are too large.
ThreeScans == {virus, clean, named}
BothInfected == {virus, named}
OneNamed == {named}
Chunks   == [s \in ThreeScans |-> IF s = clean THEN 1 ELSE 2]
Limits   == {1, 2}
AllFaults == Faults

\* Up to three scans, or fewer with a fault for each one less: calls and faults are what a
\* behaviour may do without.
FewAtOnce == Cardinality({s \in Scans : input[s] # "none"}) + faults <= 3
=============================================================================
