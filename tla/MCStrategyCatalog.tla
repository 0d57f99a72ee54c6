-------------------------- MODULE MCStrategyCatalog --------------------------
(* Two directories and two clients. *)
EXTENDS StrategyCatalog, TLC

DirsMC == <<"a", "b">>
Valid == [name |-> "a", enabled |-> TRUE, symbols |-> "some", interval |-> "1m", bars |-> 2000, market |-> "perp",
          limit |-> 0, drawdown |-> NoLimit]
\* A strategy, the same switched off, one without an interval and one with one nobody has.
WrittenMC ==
  {Valid, [Valid EXCEPT !.enabled = FALSE], [Valid EXCEPT !.interval = ""], [Valid EXCEPT !.interval = "2m"]}
InitialMC == {<<>>, [d \in {"a"} |-> [config |-> Valid, script |-> "whole"]]}

Request == [name |-> "b", template |-> "trend", symbols |-> "none", interval |-> NoOption, bars |-> NoOption,
            enabled |-> TRUE]
RequestsMC == {Request, [Request EXCEPT !.interval = "2m"], [Request EXCEPT !.name = "a", !.template = "blank"]}

Symmetry == Permutations(Callers)
=============================================================================
