------------------------------ MODULE GateClient ------------------------------
(***************************************************************************)
(* A session of a Gate.io client, perp or spot (pkg/exchange/perp/gateio   *)
(* and pkg/exchange/spot/gateio): one order is placed, filled, finished or *)
(* cancelled, its rows are pushed on the websocket, decoded and handed out *)
(* as user events; the connection may be cut and is dialled again; Close   *)
(* ends the session.  market says which of the two clients runs: they have *)
(* the same shape, and the conversions of PerpConvert or SpotConvert.      *)
(*                                                                         *)
(* The exchange is external.  Rows of one channel come in order, rows of   *)
(* different channels in any order.  A cut loses the rows nobody read.     *)
(* Taking the snapshot of the subscriptions and writing it is one step;    *)
(* WsHub takes them apart.                                                 *)
(***************************************************************************)
EXTENDS GateRows

Perp == INSTANCE PerpConvert
Spot == INSTANCE SpotConvert

\* The time of the placement.
Placed == 1000

CONSTANTS
  Markets,    \* the clients to check: "perp", "spot"
  Size,       \* the amount of the order, in contracts or units of the base currency
  Requests,   \* the place requests of the caller
  Ids,        \* the client order ids of the session
  Written,    \* how the rows read in this session are written
  BalancesWritten,
  Margins,    \* what the exchange may say of the leverage of the position
  Subs,       \* by market, what the caller may subscribe after Connect
  ExchangeId, \* the id the exchange gives the order
  FrameCap,   \* bound: rows of a channel the exchange has sent and nobody has read
  UserCap,    \* capacity of userCh
  MaxCuts     \* bound: connections cut by the exchange

ASSUME WrittenAssumption == Written \subseteq Encodings /\ BalancesWritten \subseteq Spot!BalanceRows
ASSUME MarginsAssumption == Margins # {} /\ Margins \subseteq [lever : Nat \cup {Blank}, leverage : Nat]
ASSUME BoundsAssumption == FrameCap \in Nat \ {0} /\ UserCap \in Nat \ {0} /\ MaxCuts \in Nat

\* A session is shorter than a number of milliseconds that could be one of seconds.
ASSUME SessionAssumption ==
  /\ Markets \subseteq {"perp", "spot"} /\ ExchangeId \in Nat
  /\ Size \in Nat \ {0} /\ Placed + Size + 1 < MilliFrom
  /\ Ids \subseteq ClientIds
  /\ Requests \subseteq [side : {"Buy", "Sell"}, type : {"Market", "Limit"}, size : {Size},
                         quote : {Size * Spot!Rate}, price : Nat, tif : STRING, id : Ids]

VARIABLES
  market,
  conn,       \* h.conn: "up", "cut" (broken, and nobody noticed) or "none" (nil)
  reader,     \* readLoop: "reading", "backoff", "dialled" or "off"
  activeSubs,
  server,     \* the keys the exchange serves on the current connection
  closing,    \* Close: "no", "waiting" in shutdown, or "closed"
  req,        \* the request of the order, or NoRequest
  ord,        \* the order at the exchange, or NoOrder
  stopper,    \* the client order id that cancelled it, or NoRequest
  rows,       \* by channel, the rows pushed and not read
  userCh,
  shown,      \* the last order snapshot taken from userCh, or NoOrder
  traded,     \* the signed sum of the trades taken from userCh
  held,       \* the position, or the total balance, last taken from userCh
  lost,       \* a row was not pushed, was cut off or found userCh full
  cuts

session == <<conn, reader, activeSubs, server, closing, cuts>>
exchange == <<req, ord, stopper>>
caller == <<shown, traded, held>>
clientVars == <<market, session, exchange, rows, userCh, caller, lost>>

NoRequest == [side |-> "none"]
NoOrder == [status |-> "none"]

Btc == "BTC/USDT"
UserId == "uid"

-----------------------------------------------------------------------------
(* Subscriptions *)

\* A subscription names a channel, contracts or pairs, and more of the payload.
Sub(channel, contracts, payload) ==
  [channel |-> channel, contracts |-> contracts, payload |-> payload]

\* Every expansion gives a set of payloads; the empty set is its error.
expandContractOnly(sub) == {<<c>> : c \in sub.contracts}

expandUserOnly(sub) == {<<UserId>>}

expandUserContract(sub) ==
  IF sub.contracts = {} THEN {<<UserId, "!all">>} ELSE {<<UserId, c>> : c \in sub.contracts}

expandCandlesticks(sub) ==
  IF sub.payload = <<>> THEN {} ELSE {<<sub.payload[1], c>> : c \in sub.contracts}

\* The i-th part of a payload, or what stands for one that is not given.
PartOr(sub, i, default) == IF Len(sub.payload) >= i THEN sub.payload[i] ELSE default

expandOrderBook(sub) == {<<c, PartOr(sub, 1, "20"), PartOr(sub, 2, "0")>> : c \in sub.contracts}

expandOrderBookUpdate(sub) ==
  {<<c, PartOr(sub, 1, "100ms"), PartOr(sub, 2, "100")>> : c \in sub.contracts}

expandContractStats(sub) == {<<c, PartOr(sub, 1, "1m")>> : c \in sub.contracts}

expandRawPayload(sub) == IF sub.payload = <<>> THEN {} ELSE {sub.payload}

expandEmptyPayload(sub) == {<<>>}

wsSubKey(channel, payload) == <<channel, payload>>

\* wsChannelRegistry of the perp client, and of the spot client.
perpRegistry(sub) ==
  CASE sub.channel \in {"tickers", "trades", "book_ticker", "public_liquidates", "position_adl_rank", "autoorders"} ->
         expandContractOnly(sub)
    [] sub.channel = "order_book" -> expandOrderBook(sub)
    [] sub.channel = "order_book_update" -> expandOrderBookUpdate(sub)
    [] sub.channel = "obu" -> expandRawPayload(sub)
    [] sub.channel = "candlesticks" -> expandCandlesticks(sub)
    [] sub.channel = "contract_stats" -> expandContractStats(sub)
    [] sub.channel = "balances" -> expandUserOnly(sub)
    [] OTHER -> expandUserContract(sub)

spotRegistry(sub) ==
  CASE sub.channel \in {"tickers", "orders"} -> expandContractOnly(sub)
    [] sub.channel = "candlesticks" -> expandCandlesticks(sub)
    [] sub.channel = "balances" -> expandEmptyPayload(sub)

\* Their names: a subscription of another channel is refused.
Registered(m) ==
  IF m = "perp"
  THEN {"tickers", "trades", "order_book", "order_book_update", "book_ticker", "obu", "candlesticks",
        "public_liquidates", "contract_stats", "orders", "usertrades", "liquidates",
        "auto_deleverages", "position_closes", "balances", "reduce_risk_limits", "positions",
        "position_adl_rank", "autoorders"}
  ELSE {"tickers", "candlesticks", "orders", "balances"}

ASSUME SubsAssumption == \A m \in Markets : \A sub \in Subs[m] : sub.channel \in Registered(m)

Keys(sub) ==
  {wsSubKey(sub.channel, p) : p \in IF market = "perp" THEN perpRegistry(sub) ELSE spotRegistry(sub)}

\* What Connect subscribes with PrivateWS, and what the caller subscribes later.
connectSubs(m) ==
  {Sub(c, {}, <<>>) : c \in IF m = "perp" THEN {"orders", "usertrades", "positions", "balances"}
                                           ELSE {"balances"}}

CallerSubs == Subs[market]

-----------------------------------------------------------------------------
(* What the exchange pushes *)

\* The channels whose rows become user events here.
Channels == {"orders", "usertrades", "positions", "balances"}

Served(channel) == \E k \in server : k[1] = channel

Nothing == [c \in Channels |-> <<>>]

\* The rows go to the channels that are served; the others are never told.
Push(new) ==
  /\ \A c \in Channels : Served(c) => Len(rows[c]) + Len(new[c]) <= FrameCap
  /\ rows' = [c \in Channels |-> IF Served(c) THEN rows[c] \o new[c] ELSE rows[c]]
  /\ lost' = (lost \/ \E c \in Channels : new[c] # <<>> /\ ~Served(c))

Buys == req.side = "Buy"
Signed(n) == IF Buys THEN n ELSE -n

\* What the caller held before the order: a sell gives it all away.
Before == IF Buys THEN 0 ELSE Size

\* What it holds of a filled order, and what of it an open spot sell locks.
Holding(o) == Before + Signed(o.filled)
Locked(o) == IF o.status = "open" /\ ~Buys THEN Size - o.filled ELSE 0

\* The rows about order o, n of which was just traded.
Report(o, n) ==
  [c \in Channels |->
     CASE c = "orders" -> <<o>>
       [] c = "usertrades" /\ market = "perp" /\ n > 0 -> <<Signed(n)>>
       [] c = "positions" /\ market = "perp" /\ n > 0 -> <<Holding(o)>>
       [] c = "balances" /\ market = "spot" -> <<[free |-> Holding(o) - Locked(o), locked |-> Locked(o)]>>
       [] OTHER -> <<>>]

MarketBuy == req.type = "Market" /\ Buys

\* What a trade of n takes from the part that is left.
Unit(n) ==
  IF market = "perp" THEN Signed(n) ELSE IF MarketBuy THEN n * Spot!Rate ELSE n

-----------------------------------------------------------------------------
(* Calls over REST *)

RestReady == closing # "closed"

Placeable(r) == IF market = "perp" THEN Perp!Placeable(r) ELSE Spot!Placeable(r)

\* The order the exchange keeps of a perp request, and of a spot request.
PerpOrder(r) ==
  LET fo == Perp!Place(r)
  IN  [id |-> ExchangeId, contract |-> Btc, side |-> "", type |-> "", size |-> fo.size, left |-> fo.size,
       filled |-> 0, price |-> fo.price, tif |-> fo.tif, text |-> fo.text,
       status |-> "open", finish |-> "", created |-> Placed, updated |-> Placed]

SpotOrder(r) ==
  LET o == Spot!buildGateOrder(r)
  IN  [id |-> ExchangeId, contract |-> Btc, side |-> o.side, type |-> o.type, size |-> o.amount, left |-> o.amount,
       filled |-> 0, price |-> o.price, tif |-> o.tif, text |-> o.text,
       status |-> "open", finish |-> "", created |-> Placed, updated |-> Placed]

Place(r) ==
  /\ RestReady
  /\ ord = NoOrder
  /\ Placeable(r)
  /\ req' = r
  /\ ord' = IF market = "perp" THEN PerpOrder(r) ELSE SpotOrder(r)
  /\ Push([Nothing EXCEPT !["orders"] = <<ord'>>])
  /\ UNCHANGED <<market, session, stopper, userCh, caller>>

\* The snapshot REST gives of an order.
RestView(o) ==
  IF market = "perp" THEN Perp!orderViewFromFutures(Perp!restOrder(o)) ELSE Spot!orderViewFromSpot(Spot!restOrder(o))

\* GetOrder asks for one contract and refuses the order of another.
GetOrder(contract, o) ==
  LET view == RestView(o)
  IN  IF view.contract # contract THEN [error |-> "order contract mismatch"] ELSE view

Open == ord # NoOrder /\ ord.status = "open"

Finished(finish) ==
  [ord EXCEPT !.status = IF market = "perp" THEN "finished" ELSE "cancelled",
              !.finish = finish, !.updated = @ + 1]

\* Cancel by the id the exchange gave.
CancelById ==
  /\ RestReady /\ Open
  /\ ord' = Finished("cancelled")
  /\ Push(Report(ord', 0))
  /\ UNCHANGED <<market, session, req, stopper, userCh, caller>>

\* Cancel by a client order id: the exchange looks for its tag.
Cancel(id) ==
  /\ RestReady /\ Open
  /\ normalizeGateOrderText(id) = ord.text
  /\ stopper' = id
  /\ ord' = Finished("cancelled")
  /\ Push(Report(ord', 0))
  /\ UNCHANGED <<market, session, req, userCh, caller>>

-----------------------------------------------------------------------------
(* The exchange *)

\* n is traded; the order is finished when nothing is left, as filled or, if it was an
\* immediate order, as one.
Fill(n, as) ==
  LET left == ord.left - Unit(n)
      filled == [ord EXCEPT !.left = left, !.filled = @ + n, !.updated = @ + 1]
  IN  /\ Open
      /\ n \in 1 .. Size - ord.filled
      /\ as = "ioc" => ord.tif = "ioc" /\ left = 0
      /\ ord' = IF left # 0 THEN filled
                ELSE [filled EXCEPT !.status = IF market = "perp" THEN "finished" ELSE "closed",
                                    !.finish = as]
      /\ Push(Report(ord', n))
      /\ UNCHANGED <<market, session, req, stopper, userCh, caller>>

\* The exchange ends an order early: what an immediate order leaves, or for a reason
\* of its own.
Finish(reason) ==
  /\ Open
  /\ reason = "ioc" <=> ord.tif = "ioc"
  /\ ord' = Finished(reason)
  /\ Push(Report(ord', 0))
  /\ UNCHANGED <<market, session, req, stopper, userCh, caller>>

CutOff ==
  /\ conn' = "cut"
  /\ server' = {}
  /\ rows' = Nothing
  /\ lost' = (lost \/ rows # Nothing)
  /\ UNCHANGED <<market, reader, activeSubs, closing, exchange, userCh, caller>>

Cut == conn = "up" /\ cuts < MaxCuts /\ cuts' = cuts + 1 /\ CutOff

\* A connection on which nobody sends a ping any more is cut.
CutSilent == conn = "up" /\ closing = "waiting" /\ cuts' = cuts /\ CutOff

-----------------------------------------------------------------------------
(* The read loop: readLoop, dispatch, reconnectAfterError *)

\* The loop looks at hubCtx before it reads again.
Loops == IF closing = "no" THEN "reading" ELSE "off"

\* A pushed result: rows, one of which may not be what the handler expects.
Frame(channel, k, bad) ==
  [i \in 1 .. (IF bad = 0 THEN k ELSE k + 1) |->
     IF i = bad THEN [ok |-> FALSE]
     ELSE [ok |-> TRUE, row |-> rows[channel][IF bad = 0 \/ i < bad THEN i ELSE i - 1]]]

\* The kinds of user events a client knows: NewUserEvent refuses all others.
perpUserKinds == {"orders", "balances", "usertrades", "positions"}
spotUserKinds == {"orders", "balances"}

\* What it says in the session: nothing the caller keeps here depends on it.
Margin == CHOOSE m \in Margins : TRUE

\* The snapshots the handler of a channel makes of a frame; the perp balances are not
\* followed here.
Handled(channel, frame, enc, bal) ==
  CASE market = "perp" /\ channel = "orders" -> Perp!handleOrder(frame, enc)
    [] market = "perp" /\ channel = "usertrades" -> Perp!handleUserTrades(frame, enc)
    [] market = "perp" /\ channel = "positions" -> Perp!handlePositions(frame, Margin, enc)
    [] market = "spot" /\ channel = "orders" -> Spot!handleOrder(frame, enc)
    [] market = "spot" /\ channel = "balances" -> Spot!handleBalances(frame, bal)
    [] OTHER -> <<>>

Events(channel, frame, enc, bal) ==
  LET snaps == Handled(channel, frame, enc, bal)
  IN  IF channel \in (IF market = "perp" THEN perpUserKinds ELSE spotUserKinds)
      THEN [i \in DOMAIN snaps |-> [kind |-> channel, payload |-> snaps[i]]]
      ELSE <<>>

\* The handlers never wait: what finds userCh full is dropped.
Emit(events) ==
  LET all == userCh \o events
  IN  userCh' = IF Len(all) <= UserCap THEN all ELSE SubSeq(all, 1, UserCap)

ReadFrame(channel, k, bad, enc, bal) ==
  LET events == Events(channel, Frame(channel, k, bad), enc, bal)
  IN  /\ reader = "reading" /\ conn = "up"
      /\ rows' = [rows EXCEPT ![channel] = SubSeq(@, k + 1, Len(@))]
      /\ Emit(events)
      /\ lost' = (lost \/ Len(userCh) + Len(events) > UserCap)
      /\ reader' = Loops
      /\ UNCHANGED <<market, conn, activeSubs, server, closing, cuts, exchange, caller>>

\* ReadJSON fails: the connection is dropped, and the back-off watches hubCtx too.
readError ==
  /\ reader = "reading" /\ conn = "cut"
  /\ conn' = "none"
  /\ reader' = IF closing = "no" THEN "backoff" ELSE "off"
  /\ UNCHANGED <<market, activeSubs, server, closing, cuts, exchange, rows, userCh, caller, lost>>

redial ==
  /\ reader = "backoff" /\ closing = "no"
  /\ conn' = "up"
  /\ reader' = "dialled"
  /\ UNCHANGED <<market, activeSubs, server, closing, cuts, exchange, rows, userCh, caller, lost>>

\* Without a connection the loop sleeps and looks at hubCtx, and dials no more.
redialFailed ==
  /\ reader = "backoff"
  /\ reader' = Loops
  /\ UNCHANGED <<market, conn, activeSubs, server, closing, cuts, exchange, rows, userCh, caller, lost>>

resubscribe ==
  /\ reader = "dialled"
  /\ server' = IF conn = "up" THEN activeSubs ELSE server
  /\ reader' = Loops
  /\ UNCHANGED <<market, conn, activeSubs, closing, cuts, exchange, rows, userCh, caller, lost>>

\* Mutant: the loop looks at hubCtx only between two messages.
wakesAsleep == reader = "reading" /\ conn = "none" /\ closing = "waiting" /\ UNCHANGED clientVars

\* The loop that sleeps without a connection sees that hubCtx is done.
wakes ==
  /\ reader = "reading" /\ conn = "none" /\ closing = "waiting"
  /\ reader' = "off"
  /\ UNCHANGED <<market, conn, activeSubs, server, closing, cuts, exchange, rows, userCh, caller, lost>>

-----------------------------------------------------------------------------
(* The caller *)

\* A call holds wsMu only to find the hub, and Close keeps it until the end.
HubReady == closing = "no" /\ conn # "none"

subscribe(sub) ==
  /\ HubReady
  /\ ~(Keys(sub) \subseteq activeSubs)
  /\ conn = "up"
  /\ activeSubs' = activeSubs \cup Keys(sub)
  /\ server' = server \cup Keys(sub)
  /\ UNCHANGED <<market, conn, reader, closing, cuts, exchange, rows, userCh, caller, lost>>

unsubscribe(sub) ==
  /\ HubReady
  /\ conn = "up"
  /\ Keys(sub) \subseteq activeSubs
  /\ activeSubs' = activeSubs \ Keys(sub)
  /\ server' = server \ Keys(sub)
  /\ UNCHANGED <<market, conn, reader, closing, cuts, exchange, rows, userCh, caller, lost>>

\* On a connection whose end nobody noticed the write may succeed and is recorded.
subscribeCut(sub) ==
  /\ HubReady /\ conn = "cut"
  /\ activeSubs' \in {activeSubs \cup Keys(sub), activeSubs \ Keys(sub)}
  /\ UNCHANGED <<market, conn, reader, server, closing, cuts, exchange, rows, userCh, caller, lost>>

Consume ==
  LET ev == Head(userCh)
  IN  /\ userCh # <<>>
      /\ userCh' = Tail(userCh)
      /\ shown' = IF ev.kind = "orders" THEN ev.payload ELSE shown
      /\ traded' = IF ev.kind = "usertrades"
                   THEN traded + (IF ev.payload.side = "Buy" THEN 1 ELSE -1) * ev.payload.size
                   ELSE traded
      /\ held' = CASE ev.kind = "positions" ->
                        (IF ev.payload.side = "Long" THEN 1 ELSE -1) * ev.payload.size
                   [] ev.kind = "balances" -> ev.payload.total
                   [] OTHER -> held
      /\ UNCHANGED <<market, session, exchange, rows, lost>>

\* Close cancels hubCtx and waits in shutdown, holding wsMu.
Close ==
  /\ closing = "no"
  /\ closing' = "waiting"
  /\ reader' = IF reader = "backoff" THEN "off" ELSE reader
  /\ UNCHANGED <<market, conn, activeSubs, server, cuts, exchange, rows, userCh, caller, lost>>

\* The hub and what it knew are gone; userCh stays.
Closed ==
  /\ closing = "waiting" /\ reader = "off"
  /\ closing' = "closed"
  /\ conn' = "none"
  /\ server' = {} /\ activeSubs' = {}
  /\ rows' = Nothing
  /\ lost' = (lost \/ rows # Nothing)
  /\ UNCHANGED <<market, reader, cuts, exchange, userCh, caller>>

-----------------------------------------------------------------------------
\* Connect has dialled and subscribed; the order does not exist yet.
ClientInit ==
  /\ market \in Markets
  /\ conn = "up" /\ reader = "reading" /\ closing = "no" /\ cuts = 0
  /\ activeSubs = UNION {Keys(s) : s \in connectSubs(market)}
  /\ server = activeSubs
  /\ req = NoRequest /\ stopper = NoRequest
  /\ ord = NoOrder /\ shown = NoOrder
  /\ rows = Nothing
  /\ userCh = <<>>
  /\ traded = 0 /\ held = 0
  /\ lost = FALSE

Reads ==
  \E c \in Channels, enc \in Written, bal \in BalancesWritten :
    \E k \in 1 .. Len(rows[c]) : \E bad \in 0 .. k + 1 : ReadFrame(c, k, bad, enc, bal)

reconnects == readError \/ redial \/ redialFailed \/ resubscribe \/ wakes

Reasons == IF market = "perp" THEN {"ioc", "liquidated", "reduce_only"} ELSE {"ioc", "stp"}

Exchange ==
  \/ \E n \in 1 .. Size, as \in {"filled", "ioc"} : Fill(n, as)
  \/ \E reason \in Reasons : Finish(reason)
  \/ Cut \/ CutSilent

Caller ==
  \/ \E r \in Requests : Place(r)
  \/ CancelById \/ \E id \in Ids : Cancel(id)
  \/ \E sub \in CallerSubs : subscribe(sub) \/ unsubscribe(sub) \/ subscribeCut(sub)
  \/ Consume \/ Close \/ Closed

ClientNext == Reads \/ reconnects \/ Exchange \/ Caller

ClientSpec == ClientInit /\ [][ClientNext]_clientVars

\* The read loop runs on after an error, Close goes on when it can, and a client that
\* sends no pings is cut off in the end.  Nothing is assumed to be pushed or read.
ClientFairSpec == ClientSpec /\ WF_clientVars(reconnects \/ Closed \/ CutSilent)

-----------------------------------------------------------------------------
(* Properties *)

Views ==
  [id : {ExchangeId}, contract : {Btc}, side : {"Buy", "Sell"}, type : {"Market", "Limit"},
   size : 0 .. Size * Spot!Rate, price : Int \cup {Blank}, filled : 0 .. Size,
   status : {"Submitted", "PartialFilled", "Filled", "Cancelled", "Rejected"},
   tag : {NoTag} \cup {normalizeGateOrderText(id) : id \in Ids},
   created : Int, updated : Int]

\* Types; the channels stay within their capacity (wsHub, Client).
ClientTypeOK ==
  /\ market \in Markets
  /\ conn \in {"up", "cut", "none"}
  /\ reader \in {"reading", "backoff", "dialled", "off"}
  /\ closing \in {"no", "waiting", "closed"}
  /\ \A k \in activeSubs \cup server : k[1] \in Registered(market)
  /\ server # {} => conn = "up"
  /\ shown # NoOrder => shown \in Views
  /\ \A c \in Channels : Len(rows[c]) <= FrameCap
  /\ Len(userCh) <= UserCap
  /\ cuts \in 0 .. MaxCuts

\* The snapshot a pushed row of an order gives.
PushView(o, enc) ==
  IF market = "perp" THEN Perp!orderViewFromFutures(Perp!futuresOrderFromWSElement(o, enc))
                     ELSE Spot!orderViewFromSpot(Spot!spotOrderFromWSElement(o, enc))

\* A time is told to a thousandth of a second.
Near(t, real) == t \in real - 1 .. real

\* The times of a snapshot of the order; a spot snapshot has only the last one.
InTime(v) ==
  /\ Near(v.created, IF market = "perp" THEN ord.created ELSE ord.updated)
  /\ Near(v.updated, ord.updated)

\* What the websocket says of an order is what REST says of it at the same moment, in
\* whatever form its row comes: an id beyond a float64, numbers or texts, times in
\* seconds or milliseconds, which either may tell a thousandth early; and so for the side
\* and size of the position, or the balance, it made.  The leverage of the position is the
\* same only where lever says no other and the row writes a number.
SaidAlike ==
  /\ LET view == GetOrder(Btc, ord)
     IN  /\ InTime(view)
         /\ \A enc \in Encodings :
              LET pushed == PushView(ord, enc)
              IN  InTime(pushed) /\ pushed = [view EXCEPT !.created = pushed.created, !.updated = pushed.updated]
  /\ market = "perp" /\ Holding(ord) # 0 =>
       \A margin \in Margins, enc \in Encodings :
         LET view == Perp!positionView(Holding(ord), margin)
             pushed == Perp!positionFromWSRow(Holding(ord), margin, enc)
         IN  /\ pushed.side = view.side /\ pushed.size = view.size
             /\ margin.lever \in {Blank, margin.leverage} /\ enc.levers => pushed.leverage = view.leverage
  /\ market = "spot" =>
       \A bal \in Spot!BalanceRows :
         LET l == Locked(ord)  free == Holding(ord) - l
         IN  Spot!balanceUpdateFromWSRow(free, l, bal) = Spot!balanceViewFromSpot(free, l)

\* A snapshot of the order is the order that was asked for: its side, type, amount, price
\* and client order id.  Spot snapshots have no client order id, and the amount of a
\* market buy is in the quote currency.
AsAsked(v) ==
  /\ v.side = req.side /\ v.type = req.type
  /\ v.size = IF market = "spot" /\ MarketBuy THEN req.quote ELSE req.size
  /\ req.type = "Limit" => v.price = req.price
  /\ market = "perp" => v.tag = normalizeGateOrderText(req.id)

\* It says Filled exactly when the whole order was traded, however the exchange ended it,
\* and is final exactly when the order is.
EndedAsTraded(v) ==
  /\ v.status = "Filled" <=> ord.filled = Size
  /\ v.status \in {"Filled", "Cancelled", "Rejected"} <=> ~Open

\* The order is told as it is: alike by REST and websocket, but for a thousandth of a second
\* and a leverage that only REST knows; as it was asked for, ended as it was traded; and a
\* cancel by client order id stops only an order placed with that id (normalizeWSOrderMap,
\* futuresTime, positionView, positionFromWSRow, gateOrderSizeString, mapFuturesOrderStatus
\* and their spot counterparts, normalizeGateOrderText, localIDFromGateText).  Ids that
\* differ only by a leading "t-" are one id to the exchange.
ToldAsItIs ==
  /\ ClientTypeOK
  /\ ord # NoOrder =>
       /\ SaidAlike /\ AsAsked(RestView(ord)) /\ EndedAsTraded(RestView(ord))
       /\ localIDFromGateText(ord.text) \in {"none", req.id.head}
  /\ stopper # NoRequest => [stopper EXCEPT !.prefixed = FALSE] = [req.id EXCEPT !.prefixed = FALSE]

\* Once the loop reads a working connection again, every recorded subscription is served on
\* it; and when no row was lost and every event was taken, the trades add up to what the
\* order snapshot says is filled, and the position, or the balance, moved by as much,
\* whatever rows the handlers could not decode in between (setSubscriptions,
\* reconnectAfterError, handleOrder, handleUserTrades, handlePositions, handleBalances).
ToldEverything ==
  /\ reader = "reading" /\ conn = "up" => activeSubs \subseteq server
  /\ ~lost /\ rows = Nothing /\ userCh = <<>> /\ ord # NoOrder =>
       /\ shown # NoOrder /\ shown.filled = ord.filled
       /\ market = "perp" => traded = Signed(shown.filled)
       /\ shown.filled > 0 => held = Before + Signed(shown.filled)

\* Close ends: the loop leaves its read, its sleep or its back-off
\* (shutdown, readLoop, reconnectAfterError).
CloseEnds == closing = "waiting" ~> closing = "closed"
=============================================================================
