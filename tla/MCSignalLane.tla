---------------------------- MODULE MCSignalLane ----------------------------
(* Small instances of SignalLane for TLC.                                  *)
EXTENDS SignalLane

\* Batches of one and two records.
MCSize == [b \in 1..MaxBatches |-> 1 + (b % 2)]
MCHints == {3}
=============================================================================
