---------------------------- MODULE MCLogStream ----------------------------
(* LogStream on two interchangeable strategies and one client.             *)
EXTENDS LogStream, TLC

Symmetry == Permutations(Strategies)
=============================================================================
