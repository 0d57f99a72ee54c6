----------------------------- MODULE SpotConvert -----------------------------
(***************************************************************************)
(* The conversions of the Gate.io spot client (pkg/exchange/spot/gateio).  *)
(* A market buy is placed, kept and reported in units of the quote         *)
(* currency, of which Rate make one of the base currency.                  *)
(***************************************************************************)
EXTENDS GateRows

Rate == 2

mapGateSide(side) ==
  CASE side = "Buy" -> "buy" [] side = "Sell" -> "sell" [] OTHER -> "none"

mapSide(side) ==
  CASE side = "buy" -> "Buy" [] side = "sell" -> "Sell" [] OTHER -> "none"

\* What buildGateOrder checks: a market buy has a quote amount, all others a size.
Placeable(req) ==
  /\ mapGateSide(req.side) # "none"
  /\ CASE req.type = "Limit" -> req.price > 0 /\ req.size > 0
       [] req.type = "Market" /\ req.side = "Buy" -> req.quote > 0
       [] req.type = "Market" /\ req.side = "Sell" -> req.size > 0
       [] OTHER -> FALSE

buildGateOrder(req) ==
  [side |-> mapGateSide(req.side), type |-> IF req.type = "Market" THEN "market" ELSE "limit",
   amount |-> IF req.type = "Market" /\ req.side = "Buy" THEN req.quote ELSE req.size,
   price |-> IF req.type = "Market" THEN Blank ELSE req.price,
   tif |-> IF req.type = "Market" THEN "ioc" ELSE mapTIF(req.tif),
   text |-> normalizeGateOrderText(req.id)]

-----------------------------------------------------------------------------
(* Snapshots of orders *)

orderTypeFromGate(o) == IF o.type = "market" THEN "Market" ELSE "Limit"

\* filled_amount where the row has it, in the base currency.
spotFilled(o) ==
  LET total == parseFloat(o.amount)
      left == parseFloat(o.left)
  IN  CASE o.filled_amount # Blank -> o.filled_amount
        [] o.filled_amount = Blank /\ total > 0 /\ left >= 0 -> IF total < left THEN 0 ELSE total - left
        [] OTHER -> 0

\* A closed order counts as filled whatever is left of it.
mapSpotOrderStatus(o) ==
  CASE o.status = "open" ->
         IF o.left > 0 /\ o.left < o.amount THEN "PartialFilled" ELSE "Submitted"
    [] o.status = "closed" -> "Filled"
    [] o.status = "cancelled" -> "Cancelled"
    [] OTHER -> "Rejected"

unixFromFloat(ts) == IF ts >= MilliFrom THEN ts \div 1000 ELSE fromSeconds(ts)

\* The first time the row has: the update in milliseconds, the creation in
\* milliseconds, then both in seconds.
spotOrderTime(o) ==
  CASE o.update_time_ms > 0 -> o.update_time_ms
    [] o.update_time_ms <= 0 /\ o.create_time_ms > 0 -> o.create_time_ms
    [] o.update_time_ms <= 0 /\ o.create_time_ms <= 0 /\ parseFloat(o.update_time) > 0 ->
         unixFromFloat(o.update_time)
    [] OTHER -> unixFromFloat(parseFloat(o.create_time))

\* The creation time of a snapshot is the one of its last update.  A snapshot has no
\* client order id.
orderViewFromSpot(o) ==
  [id |-> o.id, contract |-> o.pair, side |-> mapSide(o.side), type |-> orderTypeFromGate(o),
   size |-> o.amount, price |-> IF parseFloat(o.price) = 0 THEN Blank ELSE o.price,
   filled |-> spotFilled(o), status |-> mapSpotOrderStatus(o), tag |-> NoTag,
   created |-> spotOrderTime(o), updated |-> spotOrderTime(o)]

-----------------------------------------------------------------------------
(* Rows of REST and of the websocket *)

\* The order over REST: with all its times in milliseconds.
restOrder(o) ==
  [id |-> o.id, pair |-> o.contract, side |-> o.side, type |-> o.type, amount |-> o.size,
   left |-> o.left, filled_amount |-> o.filled, price |-> o.price, status |-> o.status,
   create_time |-> o.created, update_time |-> o.updated,
   create_time_ms |-> o.created, update_time_ms |-> o.updated]

\* A pushed row may leave out the times in milliseconds, and the seconds then carry
\* the fraction.  Numbers and texts of amounts are read alike.
normalizeWSSpotOrderMap(o, enc) ==
  [restOrder(o) EXCEPT
     !.amount = str(Field(enc.numbers, o.size)), !.left = str(Field(enc.numbers, o.left)),
     !.filled_amount = str(Field(enc.numbers, o.filled)), !.price = str(Field(enc.numbers, o.price)),
     !.create_time_ms = IF enc.millis THEN o.created ELSE 0,
     !.update_time_ms = IF enc.millis THEN o.updated ELSE 0]

spotOrderFromWSElement(o, enc) == normalizeWSSpotOrderMap(o, enc)

handleOrder(frame, enc) ==
  LET good == Decoded(frame)
  IN  [i \in DOMAIN good |-> orderViewFromSpot(spotOrderFromWSElement(good[i].row, enc))]

-----------------------------------------------------------------------------
(* Balances *)

\* How a row is written: with or without a total, its locked part named freeze or locked.
BalanceRows == [total : BOOLEAN, freeze : BOOLEAN]

balanceUpdateFromWSRow(free, locked, row) ==
  LET field(here, n) == IF here THEN Text(n) ELSE Missing
      total == str(field(row.total, free + locked))
      freeze == str(field(row.freeze, locked))
      lockedPart == str(field(~row.freeze, locked))
      frozen == IF parseFloat(freeze) # 0 THEN freeze ELSE parseFloat(lockedPart)
  IN  [total |-> IF total # Blank THEN total ELSE free + frozen,
       available |-> free,
       frozen |-> IF freeze # Blank THEN freeze ELSE lockedPart]

balanceViewFromSpot(free, locked) ==
  [total |-> free + locked, available |-> free, frozen |-> locked]

handleBalances(frame, row) ==
  LET good == Decoded(frame)
  IN  [i \in DOMAIN good |-> balanceUpdateFromWSRow(good[i].row.free, good[i].row.locked, row)]
=============================================================================
