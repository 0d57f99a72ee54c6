-------------------------- MODULE MCStrategyLifecycle --------------------------
(* StrategyLifecycle with a crash limit of two or three. *)
EXTENDS StrategyLifecycle
=============================================================================
