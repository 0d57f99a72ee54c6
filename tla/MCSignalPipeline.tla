--------------------------- MODULE MCSignalPipeline ---------------------------
(* SignalPipeline with a few signals, channels of one and a limit of one open order. *)
EXTENDS SignalPipeline, TLC

\* Opening signals are interchangeable.
Symmetry == Permutations(Opening)
=============================================================================
