-------------------------- MODULE MCHistogramSlot --------------------------
(* Small instances of HistogramSlot for TLC. *)
EXTENDS HistogramSlot, TLC

CONSTANTS w1, w2

MCWorkers == {w1, w2}
MCSymmetry == Permutations(MCWorkers)
MCBounds == <<1, 3>>

\* Nothing is claimed once a reset has overlapped a record or a snapshot.
Undisturbed == ~disturbed
=============================================================================
