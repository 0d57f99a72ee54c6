----------------------------- MODULE PerpConvert -----------------------------
(***************************************************************************)
(* The conversions of the Gate.io perp client (pkg/exchange/perp/gateio):  *)
(* a place request becomes a futures order, and the rows of the exchange,  *)
(* read over REST or pushed on the websocket, become snapshots.            *)
(***************************************************************************)
EXTENDS GateRows

-----------------------------------------------------------------------------
(* Placing *)

\* The exchange knows a sell by a negative size.
gateOrderSizeString(size, side) == IF side = "Sell" THEN -size ELSE size

\* What Place checks before it asks the exchange.
Placeable(req) ==
  /\ req.type \in {"Market", "Limit"}
  /\ req.type = "Limit" => req.price > 0
  /\ req.size > 0
  /\ req.side \in {"Buy", "Sell"}

\* The order Place sends, as the exchange keeps it.
Place(req) ==
  [size |-> gateOrderSizeString(req.size, req.side),
   price |-> IF req.type = "Market" THEN 0 ELSE req.price,
   tif |-> IF req.type = "Market" THEN "ioc" ELSE mapTIF(req.tif),
   text |-> normalizeGateOrderText(req.id)]

-----------------------------------------------------------------------------
(* Snapshots of orders *)

gateSizeSide(size) == IF size < 0 THEN "Sell" ELSE "Buy"

futuresFilled(fo) ==
  LET d == Abs(fo.size) - Abs(fo.left) IN IF d < 0 THEN 0 ELSE d

\* left is compared with its sign: an open sell never shows as partly filled.
mapFuturesOrderStatus(fo) ==
  CASE fo.status = "open" ->
         IF fo.left > 0 /\ fo.left < Abs(fo.size) THEN "PartialFilled" ELSE "Submitted"
    [] fo.status = "finished" ->
         (CASE fo.finish = "filled" -> "Filled"
           [] fo.finish \in {"cancelled", "reduce_only", "position_closed", "stp", "reduce_out"} -> "Cancelled"
           [] fo.finish \in {"ioc", "fok"} -> IF fo.left = 0 THEN "Filled" ELSE "Cancelled"
           [] OTHER -> "Rejected")
    [] OTHER -> "Pending"

futuresTime(ts) ==
  IF ts <= 0 THEN 0 ELSE IF ts >= MilliFrom THEN ts \div 1000 ELSE fromSeconds(ts)

orderTypeFromGate(fo) == IF fo.tif = "ioc" /\ fo.price = 0 THEN "Market" ELSE "Limit"

orderViewFromFutures(fo) ==
  [id |-> fo.id, contract |-> fo.contract,
   side |-> gateSizeSide(fo.size), type |-> orderTypeFromGate(fo),
   size |-> Abs(fo.size), price |-> IF fo.price = 0 THEN Blank ELSE fo.price,
   filled |-> futuresFilled(fo), status |-> mapFuturesOrderStatus(fo),
   tag |-> fo.text, created |-> futuresTime(fo.create_time), updated |-> futuresTime(fo.update_time)]

-----------------------------------------------------------------------------
(* Rows of the websocket *)

int64Val(v) == IF v.json = "number" THEN v.n ELSE 0

\* A float64 keeps an id up to Exact, then every other one.
Exact == 10
Rounded(n) == IF n <= Exact THEN n ELSE 2 * (n \div 2)

\* The order as REST gives it: ids as they are, times in seconds with a fraction.
restOrder(o) ==
  [id |-> o.id, contract |-> o.contract, size |-> o.size, left |-> o.left, price |-> o.price,
   tif |-> o.tif, text |-> o.text, status |-> o.status, finish |-> o.finish,
   create_time |-> o.created, update_time |-> o.updated]

\* The row the websocket pushes for it; a large id comes as text too.
wsOrderRow(o, enc) ==
  [size |-> Field(enc.numbers, o.size), left |-> Field(enc.numbers, o.left),
   price |-> Field(enc.numbers, o.price), id |-> Number(Rounded(o.id)),
   id_string |-> IF enc.idText \/ o.id > Exact THEN Text(o.id) ELSE Missing,
   create_time |-> IF enc.millis THEN 1000 * o.created ELSE o.created,
   update_time |-> IF enc.millis THEN 1000 * o.updated ELSE o.updated]

\* Mutant: the id is what the JSON number holds.
normalizeWSOrderMapFloat(row) == row.id.n

\* The id of a row: its text, if it has one.
normalizeWSOrderMap(row) ==
  IF row.id_string.json = "text" THEN row.id_string.n ELSE row.id.n

\* The order of a pushed row: as over REST, but for what a row writes differently.
futuresOrderFromWSElement(o, enc) ==
  LET row == wsOrderRow(o, enc)
  IN  [restOrder(o) EXCEPT
         !.id = normalizeWSOrderMap(row),
         !.size = str(row.size),
         !.left = str(row.left),
         !.price = str(row.price),
         !.create_time = row.create_time,
         !.update_time = row.update_time]

handleOrder(frame, enc) ==
  LET good == Decoded(frame)
  IN  [i \in DOMAIN good |-> orderViewFromFutures(futuresOrderFromWSElement(good[i].row, enc))]

-----------------------------------------------------------------------------
(* Trades and positions *)

\* A pushed trade has a signed size too.
userTradeFromWSRow(size, enc) ==
  LET sizeRaw == str(Field(enc.numbers, size))
  IN  [side |-> gateSizeSide(sizeRaw), size |-> Abs(parseFloat(sizeRaw))]

\* margin: what the exchange says of the leverage of a position, in lever, which it may
\* leave out, and in leverage, which is 0 in cross margin.

\* A pushed position of size zero is an event like any other: it says the position
\* is closed.  Only leverage is read, and only a number.
positionFromWSRow(size, margin, enc) ==
  LET sz == parseFloat(str(Field(enc.numbers, size)))
  IN  [side |-> IF sz < 0 THEN "Short" ELSE "Long", size |-> Abs(sz),
       leverage |-> int64Val(Field(enc.levers, margin.leverage))]

\* Over REST a position of size zero is an error; both fields are texts, and lever
\* comes first.
positionView(size, margin) ==
  IF size = 0
  THEN [error |-> "ErrPositionNotFound"]
  ELSE [side |-> IF size < 0 THEN "Short" ELSE "Long", size |-> Abs(size),
        leverage |-> parseFloat(IF margin.lever # Blank THEN margin.lever ELSE margin.leverage)]

handleUserTrades(frame, enc) ==
  LET good == Decoded(frame) IN [i \in DOMAIN good |-> userTradeFromWSRow(good[i].row, enc)]

handlePositions(frame, margin, enc) ==
  LET good == Decoded(frame) IN [i \in DOMAIN good |-> positionFromWSRow(good[i].row, margin, enc)]
=============================================================================
