---------------------------- MODULE MCBatchCycle ----------------------------
(***************************************************************************)
(* Instances of BatchCycle for TLC.                                        *)
(***************************************************************************)
EXTENDS BatchCycle

CONSTANTS k1, k2, t1

\* Three observations, two of one sentence, which they spell differently.
MCAbout == [s \in Sources |-> IF s = 3 THEN 2 ELSE 1]
MCText == [s \in Sources |-> IF s = 2 THEN "spaced" ELSE "plain"]

\* The first import has one of them, later ones have all.
Growing == [b \in NewBatches |-> IF b = 1 THEN {1} ELSE Sources]
=============================================================================
