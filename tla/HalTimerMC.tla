----------------------------- MODULE HalTimerMC -----------------------------
(* Small instances of the hardware timer; see README.md for the bounds. *)
EXTENDS HalTimer, TLC

Symmetry == Permutations(Timers)
=============================================================================
