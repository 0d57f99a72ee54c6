---------------------------- MODULE MCMarketRouter ----------------------------
(* MarketRouter and its hub with two strategies, a contract and two intervals. *)
EXTENDS MarketRouter, TLC

\* Strategies, contracts and intervals are interchangeable.
Symmetry == Permutations(Strategies) \cup Permutations(Contracts) \cup Permutations(Intervals)

AllStreams == Contracts \X (Intervals \cup {TickerOnly})
=============================================================================
