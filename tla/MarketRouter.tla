----------------------------- MODULE MarketRouter -----------------------------
(***************************************************************************)
(* The subscription tables of the perp market router on top of the         *)
(* websocket hub.  A ticker stream is counted per strategy, a candle       *)
(* stream has the set of its strategies; both are subscribed at the        *)
(* exchange by the first strategy and unsubscribed by the last.            *)
(*                                                                         *)
(* A call holds subMu until the hub has written or failed, so calls do not *)
(* interleave; the hub's read loop and the exchange go on around them.     *)
(* WsHub's Streams are the streams of the contracts and intervals.         *)
(***************************************************************************)
EXTENDS WsHub, FiniteSets

CONSTANTS
  Strategies,
  Contracts,
  Intervals,
  TickerOnly, \* in the place of an interval: the ticker stream of a contract
  MaxRef      \* bound: starts of one strategy that was not stopped count as well

CandleKeys == Contracts \X Intervals
Ticker(c) == <<c, TickerOnly>>
Tickers == {Ticker(c) : c \in Contracts}

ASSUME RouterAssumption ==
  /\ MaxRef \in Nat
  /\ TickerOnly \notin Intervals
  /\ Streams = Tickers \cup CandleKeys

VARIABLES
  tickerRef,
  candleSubs,      \* no strategies: no entry
  tickerPushSubs,
  unsent           \* streams whose latest call failed before writing them (no variable of the code)

tables == <<tickerRef, candleSubs, tickerPushSubs, unsent>>
vars == <<tables, hub>>

-----------------------------------------------------------------------------
(* What a call changes at the exchange *)

\* Mutant: a contract that is subscribed already needs no candle stream.
NewStreamsByContract(contracts, i) ==
  {Ticker(c) : c \in {c \in contracts : tickerRef[c] = 0}}
    \cup {<<c, i>> : c \in {c \in contracts : tickerRef[c] = 0}}

NewStreams(contracts, i) ==
  {Ticker(c) : c \in {c \in contracts : tickerRef[c] = 0}}
    \cup {<<c, i>> : c \in {c \in contracts : candleSubs[<<c, i>>] = {}}}

\* The contracts of the strategy, by its candle entries.
Subscribed(s) == {k[1] : k \in {k \in CandleKeys : s \in candleSubs[k]}}

\* Mutant: the contracts of all strategies lose a reference.
RefAfterEvery(s, c) == tickerRef[c] - 1

RefAfter(s, c) ==
  IF c \in Subscribed(s) /\ tickerRef[c] > 0 THEN tickerRef[c] - 1 ELSE tickerRef[c]

GoneStreams(s) ==
  {Ticker(c) : c \in {c \in Contracts : tickerRef[c] > 0 /\ RefAfter(s, c) = 0}}
    \cup {k \in CandleKeys : candleSubs[k] = {s}}

\* What a call could not write; the tables keep its change all the same.
Unsent(streams, sent) == unsent' = (unsent \ sent) \cup (streams \ sent)

-----------------------------------------------------------------------------
\* Mutant: only strategies that want ticks count.
SubscribeContractsPushed(s, contracts, i, subscribeTicker, sent) ==
  /\ \A c \in contracts : tickerRef[c] < MaxRef
  /\ tickerRef' = [c \in Contracts |-> IF c \in contracts /\ (subscribeTicker \/ tickerRef[c] = 0)
                                        THEN tickerRef[c] + 1 ELSE tickerRef[c]]
  /\ tickerPushSubs' = [c \in Contracts |->
       IF subscribeTicker /\ c \in contracts THEN tickerPushSubs[c] \cup {s} ELSE tickerPushSubs[c]]
  /\ candleSubs' = [k \in CandleKeys |->
       IF k[1] \in contracts /\ k[2] = i THEN candleSubs[k] \cup {s} ELSE candleSubs[k]]
  /\ subscribe(NewStreams(contracts, i), sent)
  /\ Unsent(NewStreams(contracts, i), sent)

SubscribeContracts(s, contracts, i, subscribeTicker, sent) ==
  /\ \A c \in contracts : tickerRef[c] < MaxRef
  /\ tickerRef' = [c \in Contracts |-> IF c \in contracts THEN tickerRef[c] + 1 ELSE tickerRef[c]]
  /\ tickerPushSubs' = [c \in Contracts |->
       IF subscribeTicker /\ c \in contracts THEN tickerPushSubs[c] \cup {s} ELSE tickerPushSubs[c]]
  /\ candleSubs' = [k \in CandleKeys |->
       IF k[1] \in contracts /\ k[2] = i THEN candleSubs[k] \cup {s} ELSE candleSubs[k]]
  /\ subscribe(NewStreams(contracts, i), sent)
  /\ Unsent(NewStreams(contracts, i), sent)

UnsubscribeAll(s, sent) ==
  /\ tickerRef' = [c \in Contracts |-> RefAfter(s, c)]
  /\ candleSubs' = [k \in CandleKeys |-> candleSubs[k] \ {s}]
  /\ tickerPushSubs' = [c \in Contracts |-> tickerPushSubs[c] \ {s}]
  /\ unsubscribe(GoneStreams(s), sent)
  /\ Unsent(GoneStreams(s), sent)

-----------------------------------------------------------------------------
RouterInit ==
  /\ tickerRef = [c \in Contracts |-> 0]
  /\ candleSubs = [k \in CandleKeys |-> {}]
  /\ tickerPushSubs = [c \in Contracts |-> {}]
  /\ unsent = {}
  /\ HubInit

\* The engine's calls: a launch, a stop or an exit of a strategy.
Calls ==
  \E s \in Strategies :
    \/ \E contracts \in SUBSET Contracts \ {{}}, i \in Intervals, push \in BOOLEAN :
         \E sent \in SUBSET NewStreams(contracts, i) : SubscribeContracts(s, contracts, i, push, sent)
    \/ \E sent \in SUBSET GoneStreams(s) : UnsubscribeAll(s, sent)

HubRuns == HubStep /\ UNCHANGED tables

RouterNext == Calls \/ HubRuns

RouterSpec == RouterInit /\ [][RouterNext]_vars

-----------------------------------------------------------------------------
(* Properties *)

Wanted ==
  {Ticker(c) : c \in {c \in Contracts : tickerRef[c] > 0}}
    \cup {k \in CandleKeys : candleSubs[k] # {}}

\* Types, the hub's included; ticks go only to strategies that follow the contract
\* (UnsubscribeAll).
RouterTypeOK ==
  /\ HubTypeOK
  /\ tickerRef \in [Contracts -> 0..MaxRef]
  /\ candleSubs \in [CandleKeys -> SUBSET Strategies]
  /\ tickerPushSubs \in [Contracts -> SUBSET Strategies]
  /\ \A c \in Contracts : tickerPushSubs[c] \subseteq {s \in Strategies : c \in Subscribed(s)}
  /\ unsent \subseteq Streams

\* No strategy's stop cuts another one off: a contract's ticker is counted at least once
\* for every strategy that follows its candles, whatever intervals it used and however
\* often it was started (decTickerRefForSymbols).
NeverCutOff ==
  \A c \in Contracts : Cardinality({s \in Strategies : c \in Subscribed(s)}) <= tickerRef[c]

\* Apart from the streams a failed call left behind, the exchange pushes everything the
\* tables want whenever the read loop reads from a working connection, and the hub's table, from
\* which every reconnection takes its snapshot, holds no stream nobody wants.  (What is
\* unsubscribed between a snapshot and its resending is sent all the same, and pushed until
\* the next cut: SubscribeContracts, UnsubscribeAll, reconnectAfterError 300-328.)
StreamsServed ==
  /\ reader = "reading" /\ conn /\ wire => Wanted \ unsent \subseteq server
  /\ activeSubs \ unsent \subseteq Wanted
=============================================================================
