---------------------------- MODULE MCGateClient ----------------------------
(* GateClient with a few requests: both sides, both types, short and long ids. *)
EXTENDS GateClient

Id(head, tail, prefixed, hex) == [head |-> head, tail |-> tail, prefixed |-> prefixed, hex |-> hex]

\* Two long ids with the same beginning, and a short one with and without "t-".
MCIds ==
  {Id("h", "x", FALSE, FALSE), Id("h", "y", FALSE, FALSE), Id("g", "", FALSE, FALSE),
   Id("g", "", TRUE, FALSE)}

Request(side, type, tif, id) ==
  [side |-> side, type |-> type, size |-> Size, quote |-> Size * Spot!Rate, price |-> 3,
   tif |-> tif, id |-> id]

MCRequests ==
  {Request("Sell", "Limit", "GTC", Id("g", "", TRUE, FALSE)),
   Request("Buy", "Market", "GTC", Id("h", "x", FALSE, FALSE))}

\* A channel of its own for one contract; on the spot market it is the only one for orders.
MCSubs == [m \in Markets |-> {Sub("orders", {Btc}, <<>>)}]

\* The rows a session reads; that the others are read alike is ToldAsItIs.
MCWritten == {[numbers |-> TRUE, levers |-> TRUE, idText |-> TRUE, millis |-> TRUE]}
MCBalancesWritten == {[total |-> FALSE, freeze |-> TRUE]}

\* Isolated margin, with no lever, and cross margin.
MCMargins == {[lever |-> Blank, leverage |-> 5], [lever |-> 5, leverage |-> 0]}
=============================================================================
