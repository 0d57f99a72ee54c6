------------------------------ MODULE MarketFeed ------------------------------
(***************************************************************************)
(* The closed candles of one contract and interval: pushed by the          *)
(* exchange, kept in the router's history and sent on to the strategies;   *)
(* and a launch, which subscribes, asks REST for past candles, puts them   *)
(* into the history and sends them to the new process.  Ticks share the    *)
(* two channels.  The subscription tables are MarketRouter's.              *)
(*                                                                         *)
(* A candle is its window and whether its data is the window's last; the   *)
(* window that is still open has a candle in a REST answer too, and the    *)
(* code marks it closed like all others.                                   *)
(***************************************************************************)
EXTENDS Integers, SequencesExt, FiniteSetsExt

CONSTANTS
  Listeners,    \* the strategies
  TickerSubs,   \* strategies that want ticks
  HistoryBars,  \* of each strategy's configuration
  KlineHistMax,
  PubBuf,       \* capacity of pubCh
  MarketBuf,    \* capacity of marketCh
  LastWindow,   \* bound: the window that stays open
  MaxTicks,     \* bound: ticks
  MaxLaunches   \* bound: launches

ASSUME FeedAssumption ==
  /\ TickerSubs \subseteq Listeners /\ HistoryBars \in [Listeners -> Nat]
  /\ {KlineHistMax, PubBuf, MarketBuf} \subseteq Nat \ {0}
  /\ LastWindow \in Nat \ {0, 1} /\ {MaxTicks, MaxLaunches} \subseteq Nat

VARIABLES
  now,         \* the open window
  ticks,       \* ticks pushed
  pubCh,       \* windows whose last candle was pushed, and ticks
  klineHistory,
  subscribers, \* to the interval's candles (candleSubs)
  marketCh,
  routerUp,    \* router and pump are started after the first launches
  running,     \* strategyProcess
  launch,      \* the launch that holds processMu
  launches,
  stdin,       \* the candles each process was sent
  since,       \* the window in which it subscribed
  missed,      \* windows whose push was dropped on its way to it
  unpushed,    \* windows that closed without a push, nobody asks for them later
  torn,        \* windows whose last candle cannot come, or was overwritten
  late         \* a window's push came after a newer candle (no variables of the code, these five)

history == <<since, missed, unpushed, torn, late>>
exchange == <<now, ticks, pubCh>>
feedVars == <<exchange, klineHistory, subscribers, marketCh, routerUp, running, launch, launches, stdin, history>>

Windows == 1..LastWindow
Tick == 0
Candle == [ts : Windows, final : BOOLEAN]
NoLaunch == [pc |-> "none", strategy |-> CHOOSE s \in Listeners : TRUE, answer |-> <<>>]

\* Types; both channels and, between ingests, the history are bounded.
FeedTypeOK ==
  /\ now \in Windows /\ ticks \in 0..MaxTicks /\ launches \in 0..MaxLaunches
  /\ pubCh \in Seq(Windows \cup {Tick}) /\ Len(pubCh) <= PubBuf
  /\ klineHistory \in Seq(Candle) /\ Len(klineHistory) <= KlineHistMax
  /\ running \subseteq subscribers /\ subscribers \subseteq Listeners
  /\ marketCh \in Seq([to : Listeners, ts : Windows \cup {Tick}]) /\ Len(marketCh) <= MarketBuf
  /\ routerUp \in BOOLEAN
  /\ launch.pc \in {"none", "asking", "answered"} /\ launch.answer \in Seq(Candle)
  /\ \A s \in Listeners : stdin[s] \in Seq([ts : Windows, final : BOOLEAN, pushed : BOOLEAN])
  /\ since \in [Listeners -> Windows] /\ missed \in [Listeners -> SUBSET Windows]
  /\ unpushed \subseteq Windows /\ torn \subseteq Windows /\ late \in BOOLEAN

-----------------------------------------------------------------------------
(* The exchange *)

\* handleCandlestick: the window's last candle.  None comes while the websocket is cut or
\* reconnecting, or when the stream's Subscribe failed, and a full pubCh drops it.
WindowCloses(pushed) ==
  /\ now < LastWindow
  /\ pushed => subscribers # {}
  /\ now' = now + 1
  /\ unpushed' = IF pushed THEN unpushed ELSE unpushed \cup {now}
  /\ IF pushed /\ Len(pubCh) < PubBuf
     THEN pubCh' = Append(pubCh, now) /\ UNCHANGED <<missed, torn>>
     ELSE /\ torn' = torn \cup {now}
          /\ missed' = [s \in Listeners |-> IF pushed /\ s \in subscribers THEN missed[s] \cup {now} ELSE missed[s]]
          /\ UNCHANGED pubCh
  /\ UNCHANGED <<ticks, klineHistory, subscribers, marketCh, routerUp, running, launch, launches,
                 stdin, since, late>>

handleTicker ==
  /\ ticks < MaxTicks /\ subscribers # {}
  /\ ticks' = ticks + 1
  /\ pubCh' = IF Len(pubCh) < PubBuf THEN Append(pubCh, Tick) ELSE pubCh
  /\ UNCHANGED <<now, klineHistory, subscribers, marketCh, routerUp, running, launch, launches,
                 stdin, history>>

-----------------------------------------------------------------------------
(* The history *)

trimList(list) ==
  SubSeq(list, Max({1, Len(list) - KlineHistMax + 1}), Len(list))

appendKline(list, k) ==
  trimList(IF list # <<>> /\ Last(list).ts = k.ts THEN Append(Front(list), k) ELSE Append(list, k))

\* sort.Search: where the binary search for the first candle not older ends, sorted or not.
Search(list, ts) ==
  LET find[stretch \in (0..Len(list)) \X (0..Len(list))] ==
        LET i == stretch[1]
            j == stretch[2]
            h == (i + j) \div 2
        IN IF i >= j THEN i ELSE IF list[h + 1].ts < ts THEN find[<<h + 1, j>>] ELSE find[<<i, h>>]
  IN find[<<0, Len(list)>>] + 1

\* Mutant: past candles are put behind.
mergeKlineBehind(list, k) == Append(list, k)

mergeKline(list, k) ==
  LET i == Search(list, k.ts)
  IN IF i <= Len(list) /\ list[i].ts = k.ts THEN [list EXCEPT ![i] = k] ELSE InsertAt(list, i, k)

\* sort.Slice by time.  It leaves the order of equal windows open: the candles of one with this
\* value of final come first.
SortedBefore(list, final, i, j) ==
  \/ list[i].ts < list[j].ts
  \/ list[i].ts = list[j].ts /\ list[i].final = final /\ list[j].final # final
  \/ list[i] = list[j] /\ i < j

Place(list, final, i) == Cardinality({j \in DOMAIN list : SortedBefore(list, final, j, i)}) + 1

Sorted(list) ==
  {[n \in DOMAIN list |-> list[CHOOSE i \in DOMAIN list : Place(list, final, i) = n]] : final \in BOOLEAN}

IngestHistoryKlines(list, bars) ==
  IF bars = <<>> THEN {list} ELSE {trimList(sorted) : sorted \in Sorted(FoldLeft(mergeKline, list, bars))}

-----------------------------------------------------------------------------
(* The router *)

\* emit to every strategy in turn: a full marketCh drops what is left.
Emit(ts, order) ==
  LET room == SubSeq(order, 1, Min({Len(order), MarketBuf - Len(marketCh)}))
      left == ToSet(order) \ ToSet(room)
  IN /\ marketCh' = marketCh \o [i \in DOMAIN room |-> [to |-> room[i], ts |-> ts]]
     /\ missed' = IF ts = Tick THEN missed
                  ELSE [s \in Listeners |-> IF s \in left THEN missed[s] \cup {ts} ELSE missed[s]]

onCandlestick ==
  /\ routerUp /\ pubCh # <<>> /\ Head(pubCh) # Tick
  /\ pubCh' = Tail(pubCh)
  /\ klineHistory' = appendKline(klineHistory, [ts |-> Head(pubCh), final |-> TRUE])
  /\ late' = (late \/ \E i \in DOMAIN klineHistory : klineHistory[i].ts > Head(pubCh))
  /\ \E order \in SetToSeqs(subscribers) : Emit(Head(pubCh), order)
  /\ UNCHANGED <<now, ticks, subscribers, routerUp, running, launch, launches, stdin, since,
                 unpushed, torn>>

onTicker ==
  /\ routerUp /\ pubCh # <<>> /\ Head(pubCh) = Tick
  /\ pubCh' = Tail(pubCh)
  /\ \E order \in SetToSeqs(subscribers \cap TickerSubs) : Emit(Tick, order)
  /\ UNCHANGED <<now, ticks, klineHistory, subscribers, routerUp, running, launch, launches, stdin,
                 since, unpushed, torn, late>>

\* dispatchKlineUpdate, dispatchTickerUpdate: to the process of that name, if any; a launch keeps it waiting.
pumpMarketUpdates ==
  /\ routerUp /\ marketCh # <<>> /\ launch.pc = "none"
  /\ marketCh' = Tail(marketCh)
  /\ LET u == Head(marketCh)
     IN stdin' = IF u.to \in running /\ u.ts # Tick
                 THEN [stdin EXCEPT ![u.to] = Append(@, [ts |-> u.ts, final |-> TRUE, pushed |-> TRUE])]
                 ELSE stdin
  /\ UNCHANGED <<exchange, klineHistory, subscribers, routerUp, running, launch, launches, history>>

-----------------------------------------------------------------------------
(* Strategies come and go *)

\* Mutant: a stream that is there already is taken for the strategy's own subscription.
launchStrategyShared(s) ==
  /\ launch.pc = "none" /\ launches < MaxLaunches /\ s \notin running
  /\ launches' = launches + 1
  /\ subscribers' = IF subscribers = {} THEN {s} ELSE subscribers
  /\ running' = running \cup {s}
  /\ stdin' = [stdin EXCEPT ![s] = <<>>]
  /\ launch' = IF HistoryBars[s] = 0 THEN NoLaunch ELSE [NoLaunch EXCEPT !.pc = "asking", !.strategy = s]
  /\ since' = [since EXCEPT ![s] = now]
  /\ missed' = [missed EXCEPT ![s] = {}]
  /\ UNCHANGED <<exchange, klineHistory, marketCh, routerUp, unpushed, torn, late>>

\* A running one is left alone.
launchStrategy(s) ==
  /\ launch.pc = "none" /\ launches < MaxLaunches /\ s \notin running
  /\ launches' = launches + 1
  /\ subscribers' = subscribers \cup {s}
  /\ running' = running \cup {s}
  /\ stdin' = [stdin EXCEPT ![s] = <<>>]
  /\ launch' = IF HistoryBars[s] = 0 THEN NoLaunch ELSE [NoLaunch EXCEPT !.pc = "asking", !.strategy = s]
  /\ since' = [since EXCEPT ![s] = now]
  /\ missed' = [missed EXCEPT ![s] = {}]
  /\ UNCHANGED <<exchange, klineHistory, marketCh, routerUp, unpushed, torn, late>>

\* The latest windows, the open one among them.
ListCandlesticks ==
  /\ launch.pc = "asking"
  /\ LET first == Max({1, now - HistoryBars[launch.strategy] + 1})
     IN launch' = [launch EXCEPT
          !.pc = "answered",
          !.answer = [i \in 1..(now - first + 1) |-> [ts |-> first + i - 1, final |-> first + i - 1 < now]]]
  /\ UNCHANGED <<exchange, klineHistory, subscribers, marketCh, routerUp, running, launches, stdin, history>>

\* The launch goes on without past candles.
ListCandlesticksFails ==
  /\ launch.pc = "asking"
  /\ launch' = NoLaunch
  /\ UNCHANGED <<exchange, klineHistory, subscribers, marketCh, routerUp, running, launches, stdin, history>>

Pending == ToSet(pubCh)

\* WarmupHistory's end, and SendHistory.
warmupHistory ==
  /\ launch.pc = "answered"
  /\ LET bars == launch.answer
         overtaken == {t \in Windows : /\ [ts |-> t, final |-> FALSE] \in ToSet(bars)
                                       /\ t < now /\ t \notin Pending}
     IN /\ klineHistory' \in IngestHistoryKlines(klineHistory, bars)
        /\ stdin' = [stdin EXCEPT ![launch.strategy] =
                       @ \o [i \in DOMAIN bars |-> [ts |-> bars[i].ts, final |-> bars[i].final, pushed |-> FALSE]]]
        /\ torn' = {t \in torn : [ts |-> t, final |-> TRUE] \notin ToSet(bars)} \cup overtaken
  /\ launch' = NoLaunch
  /\ UNCHANGED <<exchange, subscribers, marketCh, routerUp, running, launches, since, missed,
                 unpushed, late>>

\* StopStrategy, handleProcessExit.
StopStrategy(s) ==
  /\ launch.pc = "none" /\ s \in running
  /\ running' = running \ {s}
  /\ subscribers' = subscribers \ {s}
  /\ UNCHANGED <<exchange, klineHistory, marketCh, routerUp, launch, launches, stdin, history>>

\* Engine.Start gets to the market's Start.
StartsRouter ==
  /\ ~routerUp /\ launch.pc = "none"
  /\ routerUp' = TRUE
  /\ UNCHANGED <<exchange, klineHistory, subscribers, marketCh, running, launch, launches, stdin, history>>

-----------------------------------------------------------------------------
FeedInit ==
  /\ now = 2 /\ ticks = 0 /\ pubCh = <<>>
  /\ klineHistory = <<>> /\ subscribers = {} /\ marketCh = <<>>
  /\ routerUp = FALSE /\ running = {} /\ launch = NoLaunch /\ launches = 0
  /\ stdin = [s \in Listeners |-> <<>>]
  /\ since = [s \in Listeners |-> 1] /\ missed = [s \in Listeners |-> {}]
  /\ unpushed = {} /\ torn = {} /\ late = FALSE

Router == onCandlestick \/ onTicker
Launching == ListCandlesticks \/ ListCandlesticksFails \/ warmupHistory

FeedNext ==
  \/ \E pushed \in BOOLEAN : WindowCloses(pushed)
  \/ handleTicker \/ Router \/ pumpMarketUpdates \/ Launching \/ StartsRouter
  \/ \E s \in Listeners : launchStrategy(s) \/ StopStrategy(s)

FeedSpec == FeedInit /\ [][FeedNext]_feedVars

-----------------------------------------------------------------------------
(* Properties *)

\* A strategy's view has no gap: its history is sent before any pushed candle, also when the
\* router emits to its name while REST is being asked, and of each window that closed since
\* it was launched the last data was sent to it, or is on its way, or was dropped for a full
\* channel, or was never pushed: what closes while the websocket is down or the stream is not
\* subscribed is not asked for afterwards (launchStrategy, subscribe before REST, SendKline, emit).
CompleteView ==
  /\ \A s \in Listeners : \A i, j \in DOMAIN stdin[s] :
       stdin[s][i].pushed /\ ~stdin[s][j].pushed => j < i
  /\ \A s \in running : \A t \in since[s]..(now - 1) :
       \/ \E i \in DOMAIN stdin[s] : stdin[s][i].ts = t /\ stdin[s][i].final
       \/ launch.pc # "none" /\ launch.strategy = s /\ [ts |-> t, final |-> TRUE] \in ToSet(launch.answer)
       \/ t \in Pending \/ [to |-> s, ts |-> t] \in ToSet(marketCh)
       \/ t \in missed[s] \/ t \in unpushed

Ascending(list) == \A i, j \in DOMAIN list : i < j => list[i].ts < list[j].ts

\* As long as no push came after a newer candle, the history is ascending and without
\* duplicates, and a window that has closed is not left with the candle REST gave of it while
\* it was open, unless its push was dropped or never made, or came while that answer was on its way
\* (appendKlineLocked, mergeKlineLocked).
HistorySound ==
  /\ FeedTypeOK
  /\ ~late =>
       /\ Ascending(klineHistory)
       /\ \A k \in ToSet(klineHistory) :
            k.ts < now => k.ts \in torn \cup Pending \/ [ts |-> k.ts, final |-> TRUE] \in ToSet(klineHistory)

=============================================================================
