----------------------------- MODULE MarketProofs -----------------------------
(***************************************************************************)
(* Proofs about the market side.  First MarketRouter and the hub below it: *)
(* types, the liveness of every recorded subscription on the connection    *)
(* being read, the reference count of a ticker stream and the agreement of *)
(* the router's tables with the hub's, for any number of strategies,       *)
(* contracts, intervals and cuts, infinitely many included.  Then          *)
(* MarketFeed: what a strategy is sent has no gap, and the history is in   *)
(* order and right, for any number of strategies, windows, launches and    *)
(* any sizes of the channels and the history.                              *)
(***************************************************************************)
EXTENDS MarketRouter, MarketFeed, FiniteSetTheorems, SequenceTheorems, TLAPS

-----------------------------------------------------------------------------
(* Subscriptions *)

\* What is recorded and not live waits in the snapshot of the reconnection.
HubLive ==
  /\ ActiveSubsAreLive
  /\ reader = "resubscribing" /\ conn /\ wire => activeSubs \subseteq server \cup snapshot

Followers(c) == {s \in Strategies : c \in Subscribed(s)}

\* A contract's ticker is counted at least once per strategy that follows its candles.
Counted == \A c \in Contracts : IsFiniteSet(Followers(c)) /\ Cardinality(Followers(c)) <= tickerRef[c]

\* The hub records what the tables want, apart from the streams of a failed call.
Agrees == Wanted \ unsent \subseteq activeSubs /\ activeSubs \ unsent \subseteq Wanted

IInv == RouterTypeOK /\ HubLive /\ Counted /\ Agrees

-----------------------------------------------------------------------------
(* Steps *)

LEMMA StepKinds ==
  ASSUME [RouterNext]_vars
  PROVE  \/ \E s \in Strategies, contracts \in SUBSET Contracts, i \in Intervals,
              push \in BOOLEAN, sent \in SUBSET Streams :
              sent \subseteq NewStreams(contracts, i) /\ SubscribeContracts(s, contracts, i, push, sent)
         \/ \E s \in Strategies, sent \in SUBSET Streams :
              sent \subseteq GoneStreams(s) /\ UnsubscribeAll(s, sent)
         \/ HubStep /\ UNCHANGED tables
         \/ UNCHANGED vars
<1> USE RouterAssumption
<1>1. \A contracts \in SUBSET Contracts, i \in Intervals : NewStreams(contracts, i) \subseteq Streams
  <2> TAKE contracts \in SUBSET Contracts, i \in Intervals
  <2>1. \A c \in contracts : Ticker(c) \in Streams /\ <<c, i>> \in Streams
    BY DEF Tickers, CandleKeys
  <2> QED
    BY <2>1 DEF NewStreams
<1>2. \A s \in Strategies : GoneStreams(s) \subseteq Streams
  BY DEF GoneStreams, Tickers, CandleKeys
<1>3. CASE Calls
  <2>1. PICK s \in Strategies :
          \/ \E contracts \in SUBSET Contracts \ {{}}, i \in Intervals, push \in BOOLEAN :
               \E sent \in SUBSET NewStreams(contracts, i) : SubscribeContracts(s, contracts, i, push, sent)
          \/ \E sent \in SUBSET GoneStreams(s) : UnsubscribeAll(s, sent)
    BY <1>3 DEF Calls
  <2>2. CASE \E contracts \in SUBSET Contracts \ {{}}, i \in Intervals, push \in BOOLEAN :
               \E sent \in SUBSET NewStreams(contracts, i) : SubscribeContracts(s, contracts, i, push, sent)
    <3>1. PICK contracts \in SUBSET Contracts \ {{}}, i \in Intervals, push \in BOOLEAN :
            \E sent \in SUBSET NewStreams(contracts, i) : SubscribeContracts(s, contracts, i, push, sent)
      BY <2>2
    <3>2. PICK sent \in SUBSET NewStreams(contracts, i) : SubscribeContracts(s, contracts, i, push, sent)
      BY <3>1
    <3>3. contracts \in SUBSET Contracts /\ sent \in SUBSET Streams /\ sent \subseteq NewStreams(contracts, i)
      BY <1>1
    <3> QED
      BY <3>2, <3>3, Zenon
  <2>3. CASE \E sent \in SUBSET GoneStreams(s) : UnsubscribeAll(s, sent)
    <3>1. PICK sent \in SUBSET GoneStreams(s) : UnsubscribeAll(s, sent)
      BY <2>3
    <3>2. sent \in SUBSET Streams /\ sent \subseteq GoneStreams(s)
      BY <1>2
    <3> QED
      BY <3>1, <3>2, Zenon
  <2> QED
    BY <2>1, <2>2, <2>3
<1> QED
  BY <1>3 DEF RouterNext, HubRuns

\* The strategies that follow a contract after a call.
LEMMA FollowersOfSubscribe ==
  ASSUME RouterTypeOK, NEW s \in Strategies, NEW contracts \in SUBSET Contracts, NEW i \in Intervals,
         NEW push, NEW sent, SubscribeContracts(s, contracts, i, push, sent), NEW c \in Contracts
  PROVE  /\ c \in contracts => Followers(c)' = Followers(c) \cup {s}
         /\ c \notin contracts => Followers(c)' = Followers(c)
<1>0. candleSubs' = [k \in CandleKeys |->
        IF k[1] \in contracts /\ k[2] = i THEN candleSubs[k] \cup {s} ELSE candleSubs[k]]
  BY DEF SubscribeContracts
<1>1. \A k \in CandleKeys : k[1] \in Contracts /\ k[2] \in Intervals /\ candleSubs[k] \subseteq Strategies
  BY DEF CandleKeys, RouterTypeOK
<1>2. \A t \in Strategies : c \in Subscribed(t) <=> \E k \in CandleKeys : k[1] = c /\ t \in candleSubs[k]
  BY <1>1 DEF Subscribed
<1>3. \A t \in Strategies : c \in Subscribed(t)' <=> \E k \in CandleKeys : k[1] = c /\ t \in candleSubs'[k]
  BY <1>1 DEF Subscribed
<1>4. <<c, i>> \in CandleKeys /\ <<c, i>>[1] = c /\ <<c, i>>[2] = i
  BY DEF CandleKeys
<1>5. \A t \in Strategies : c \in Subscribed(t)' <=> c \in Subscribed(t) \/ (c \in contracts /\ t = s)
  <2> TAKE t \in Strategies
  <2>1. ASSUME c \in Subscribed(t)' PROVE c \in Subscribed(t) \/ (c \in contracts /\ t = s)
    BY <2>1, <1>0, <1>2, <1>3
  <2>2. ASSUME c \in Subscribed(t) PROVE c \in Subscribed(t)'
    BY <2>2, <1>0, <1>2, <1>3
  <2>3. ASSUME c \in contracts, t = s PROVE c \in Subscribed(t)'
    BY <2>3, <1>0, <1>3, <1>4
  <2> QED
    BY <2>1, <2>2, <2>3
<1> QED
  BY <1>5 DEF Followers

LEMMA FollowersOfUnsubscribe ==
  ASSUME RouterTypeOK, NEW s \in Strategies, NEW sent, UnsubscribeAll(s, sent), NEW c \in Contracts
  PROVE  Followers(c)' = Followers(c) \ {s}
<1>0. candleSubs' = [k \in CandleKeys |-> candleSubs[k] \ {s}]
  BY DEF UnsubscribeAll
<1>1. \A t \in Strategies : c \in Subscribed(t) <=> \E k \in CandleKeys : k[1] = c /\ t \in candleSubs[k]
  BY DEF Subscribed
<1>2. \A t \in Strategies : c \in Subscribed(t)' <=> \E k \in CandleKeys : k[1] = c /\ t \in candleSubs'[k]
  BY DEF Subscribed
<1>3. \A t \in Strategies : c \in Subscribed(t)' <=> c \in Subscribed(t) /\ t # s
  BY <1>0, <1>1, <1>2
<1> QED
  BY <1>3 DEF Followers

\* What a call writes at the exchange is what it changes in the set of wanted streams.
LEMMA WantedOfSubscribe ==
  ASSUME RouterTypeOK, NEW s \in Strategies, NEW contracts \in SUBSET Contracts, NEW i \in Intervals,
         NEW push, NEW sent, SubscribeContracts(s, contracts, i, push, sent)
  PROVE  Wanted' = Wanted \cup NewStreams(contracts, i)
<1>1. \A c \in Contracts : tickerRef'[c] > 0 <=> tickerRef[c] > 0 \/ c \in contracts
  BY RouterAssumption DEF SubscribeContracts, RouterTypeOK
<1>2. \A k \in CandleKeys : candleSubs'[k] # {} <=> candleSubs[k] # {} \/ (k[1] \in contracts /\ k[2] = i)
  BY DEF SubscribeContracts
<1>3. \A c \in Contracts : tickerRef[c] = 0 <=> ~ (tickerRef[c] > 0)
  BY RouterAssumption DEF RouterTypeOK
<1>4. \A k \in CandleKeys : k = <<k[1], k[2]>>
  BY DEF CandleKeys
<1>5. \A c \in contracts : <<c, i>> \in CandleKeys /\ <<c, i>>[1] = c /\ <<c, i>>[2] = i
  BY DEF CandleKeys
<1>6. ASSUME NEW x \in Wanted' PROVE x \in Wanted \cup NewStreams(contracts, i)
  <2>1. CASE \E c \in Contracts : tickerRef'[c] > 0 /\ x = Ticker(c)
    BY <2>1, <1>1, <1>3 DEF Wanted, NewStreams
  <2>2. CASE x \in CandleKeys /\ candleSubs'[x] # {}
    BY <2>2, <1>2, <1>4 DEF Wanted, NewStreams
  <2> QED
    BY <1>6, <2>1, <2>2 DEF Wanted
<1>7. Wanted \subseteq Wanted'
  BY <1>1, <1>2 DEF Wanted
<1>8. NewStreams(contracts, i) \subseteq Wanted'
  <2>1. \A c \in contracts : Ticker(c) \in Wanted'
    BY <1>1 DEF Wanted
  <2>2. \A c \in contracts : <<c, i>> \in Wanted'
    BY <1>2, <1>5 DEF Wanted
  <2> QED
    BY <2>1, <2>2 DEF NewStreams
<1> QED
  BY <1>6, <1>7, <1>8

LEMMA WantedOfUnsubscribe ==
  ASSUME RouterTypeOK, NEW s \in Strategies, NEW sent, UnsubscribeAll(s, sent)
  PROVE  Wanted' = Wanted \ GoneStreams(s)
<1>1. \A c \in Contracts : tickerRef'[c] = RefAfter(s, c) /\ tickerRef[c] \in Nat /\ RefAfter(s, c) \in Nat
  BY RouterAssumption DEF UnsubscribeAll, RouterTypeOK, RefAfter
<1>2. \A c \in Contracts : tickerRef'[c] > 0 <=> tickerRef[c] > 0 /\ ~(tickerRef[c] > 0 /\ RefAfter(s, c) = 0)
  BY <1>1 DEF RefAfter
<1>3. \A k \in CandleKeys : candleSubs'[k] # {} <=> candleSubs[k] # {} /\ candleSubs[k] # {s}
  BY DEF UnsubscribeAll
<1>4. \A c \in Contracts : Ticker(c) \notin CandleKeys
  BY RouterAssumption DEF Ticker, CandleKeys
<1>5. \A c, d \in Contracts : Ticker(c) = Ticker(d) => c = d
  BY DEF Ticker
<1> DEFINE Gone(c) == tickerRef[c] > 0 /\ RefAfter(s, c) = 0
<1>6. \A c \in Contracts : (Ticker(c) \in Wanted' <=> tickerRef'[c] > 0)
        /\ (Ticker(c) \in Wanted <=> tickerRef[c] > 0) /\ (Ticker(c) \in GoneStreams(s) <=> Gone(c))
  BY <1>4, <1>5 DEF Wanted, GoneStreams
<1>7. \A k \in CandleKeys : (k \in Wanted' <=> candleSubs'[k] # {})
        /\ (k \in Wanted <=> candleSubs[k] # {}) /\ (k \in GoneStreams(s) <=> candleSubs[k] = {s})
  BY <1>4 DEF Wanted, GoneStreams
<1>8. Wanted' \cup Wanted \subseteq {Ticker(c) : c \in Contracts} \cup CandleKeys
  BY DEF Wanted
<1>9. \A x \in {Ticker(c) : c \in Contracts} : x \in Wanted' <=> x \in Wanted \ GoneStreams(s)
  BY <1>2, <1>6
<1>10. \A x \in CandleKeys : x \in Wanted' <=> x \in Wanted \ GoneStreams(s)
  BY <1>3, <1>7
<1> QED
  BY <1>8, <1>9, <1>10

-----------------------------------------------------------------------------
(* The invariant, part by part *)

\* The router's tables.
Tables ==
  /\ tickerRef \in [Contracts -> 0..MaxRef]
  /\ candleSubs \in [CandleKeys -> SUBSET Strategies]
  /\ tickerPushSubs \in [Contracts -> SUBSET Strategies]
  /\ \A c \in Contracts : tickerPushSubs[c] \subseteq Followers(c)
  /\ unsent \subseteq Streams

LEMMA TypesSplit == RouterTypeOK <=> HubTypeOK /\ Tables
BY DEF RouterTypeOK, Tables, Followers

LEMMA HubTypesStep ==
  ASSUME RouterTypeOK, [RouterNext]_vars
  PROVE  HubTypeOK'
<1> USE MaxCutsAssumption DEF HubTypeOK, RouterTypeOK, Reader
<1>1. ASSUME NEW streams, NEW sent \in SUBSET Streams, subscribe(streams, sent) PROVE HubTypeOK'
  BY <1>1 DEF subscribe
<1>2. ASSUME NEW streams, NEW sent \in SUBSET Streams, unsubscribe(streams, sent) PROVE HubTypeOK'
  BY <1>2 DEF unsubscribe
<1>3. CASE HubStep
  <2>1. CASE Cut
    <3>1. cuts' \in 0..MaxCuts
      BY <2>1 DEF Cut
    <3> QED
      BY <2>1, <3>1 DEF Cut
  <2>2. CASE readError \/ redial \/ redialFailed
    BY <2>2 DEF readError, redial, redialFailed
  <2>3. CASE takeSnapshot \/ resubscribed
    BY <2>3 DEF takeSnapshot, resubscribed
  <2>4. ASSUME NEW s \in Streams, resubscribe(s) PROVE HubTypeOK'
    BY <2>4 DEF resubscribe
  <2> QED
    BY <1>3, <2>1, <2>2, <2>3, <2>4 DEF HubStep, readLoop
<1>4. CASE UNCHANGED vars
  BY <1>4 DEF vars, hub
<1>5. ASSUME NEW s, NEW contracts, NEW i, NEW push, NEW sent \in SUBSET Streams,
             SubscribeContracts(s, contracts, i, push, sent)
      PROVE  HubTypeOK'
  BY <1>1, <1>5 DEF SubscribeContracts
<1>6. ASSUME NEW s, NEW sent \in SUBSET Streams, UnsubscribeAll(s, sent) PROVE HubTypeOK'
  BY <1>2, <1>6 DEF UnsubscribeAll
<1> QED
  BY <1>3, <1>4, <1>5, <1>6, StepKinds, Zenon

\* A recorded subscription is live, or the reconnection still has it to send.
LEMMA HubLiveStep ==
  ASSUME RouterTypeOK, HubLive, [RouterNext]_vars
  PROVE  HubLive'
<1> USE DEF HubLive, ActiveSubsAreLive, HubTypeOK, RouterTypeOK, Reader
<1>1. ASSUME NEW streams, NEW sent \in SUBSET Streams, subscribe(streams, sent) PROVE HubLive'
  BY <1>1 DEF subscribe
<1>2. ASSUME NEW streams, NEW sent \in SUBSET Streams, unsubscribe(streams, sent) PROVE HubLive'
  BY <1>2 DEF unsubscribe
<1>3. CASE HubStep
  <2>1. CASE Cut
    BY <2>1 DEF Cut
  <2>2. CASE readError \/ redial \/ redialFailed
    BY <2>2 DEF readError, redial, redialFailed
  <2>3. CASE takeSnapshot \/ resubscribed
    BY <2>3 DEF takeSnapshot, resubscribed
  <2>4. ASSUME NEW s \in Streams, resubscribe(s) PROVE HubLive'
    BY <2>4 DEF resubscribe
  <2> QED
    BY <1>3, <2>1, <2>2, <2>3, <2>4 DEF HubStep, readLoop
<1>4. CASE UNCHANGED vars
  BY <1>4 DEF vars, hub
<1>5. ASSUME NEW s, NEW contracts, NEW i, NEW push, NEW sent \in SUBSET Streams,
             SubscribeContracts(s, contracts, i, push, sent)
      PROVE  HubLive'
  BY <1>1, <1>5 DEF SubscribeContracts
<1>6. ASSUME NEW s, NEW sent \in SUBSET Streams, UnsubscribeAll(s, sent) PROVE HubLive'
  BY <1>2, <1>6 DEF UnsubscribeAll
<1> QED
  BY <1>3, <1>4, <1>5, <1>6, StepKinds, Zenon

\* A call changes a contract's count by one exactly when it changes its followers.
LEMMA TablesStep ==
  ASSUME RouterTypeOK, Counted, [RouterNext]_vars
  PROVE  Tables' /\ Counted'
<1> USE DEF Tables, Counted
<1>1. Tables
  BY TypesSplit
<1>2. ASSUME NEW s \in Strategies, NEW contracts \in SUBSET Contracts, NEW i \in Intervals,
             NEW push \in BOOLEAN, NEW sent \in SUBSET Streams,
             sent \subseteq NewStreams(contracts, i), SubscribeContracts(s, contracts, i, push, sent)
      PROVE  Tables' /\ Counted'
  <2>1. \A c \in Contracts : /\ c \in contracts => Followers(c)' = Followers(c) \cup {s}
                             /\ c \notin contracts => Followers(c)' = Followers(c)
    BY <1>2, FollowersOfSubscribe, Zenon
  <2>2. \A c \in Contracts : IsFiniteSet(Followers(c)') /\ Cardinality(Followers(c)') <= tickerRef'[c]
    <3> TAKE c \in Contracts
    <3>1. tickerRef[c] \in Nat /\ Cardinality(Followers(c)) \in Nat
      BY <1>1, RouterAssumption, FS_CardinalityType
    <3>2. /\ IsFiniteSet(Followers(c) \cup {s})
          /\ Cardinality(Followers(c) \cup {s}) \in {Cardinality(Followers(c)), Cardinality(Followers(c)) + 1}
      BY FS_AddElement
    <3>3. tickerRef'[c] = IF c \in contracts THEN tickerRef[c] + 1 ELSE tickerRef[c]
      BY <1>2 DEF SubscribeContracts
    <3>4. CASE c \in contracts
      <4>1. Followers(c)' = Followers(c) \cup {s} /\ tickerRef'[c] = tickerRef[c] + 1
        BY <2>1, <3>3, <3>4
      <4>2. Cardinality(Followers(c) \cup {s}) <= tickerRef[c] + 1
        BY <3>1, <3>2
      <4> QED
        BY <4>1, <4>2, <3>2
    <3>5. CASE c \notin contracts
      BY <2>1, <3>3, <3>5
    <3> QED
      BY <3>4, <3>5
  <2>3. tickerRef' \in [Contracts -> 0..MaxRef]
    BY <1>1, <1>2, RouterAssumption DEF SubscribeContracts
  <2>4. candleSubs' \in [CandleKeys -> SUBSET Strategies] /\ tickerPushSubs' \in [Contracts -> SUBSET Strategies]
    BY <1>1, <1>2 DEF SubscribeContracts
  <2>5. \A c \in Contracts : tickerPushSubs'[c] \subseteq Followers(c)'
    BY <1>1, <1>2, <2>1 DEF SubscribeContracts
  <2>6. NewStreams(contracts, i) \subseteq Streams
    <3>1. \A c \in Contracts : Ticker(c) \in Streams /\ <<c, i>> \in Streams
      BY RouterAssumption DEF Tickers, CandleKeys
    <3> QED
      BY <3>1 DEF NewStreams
  <2>7. unsent' \subseteq Streams
    BY <1>1, <1>2, <2>6 DEF SubscribeContracts, Unsent
  <2> QED
    BY <2>2, <2>3, <2>4, <2>5, <2>7
<1>3. ASSUME NEW s \in Strategies, NEW sent \in SUBSET Streams,
             sent \subseteq GoneStreams(s), UnsubscribeAll(s, sent)
      PROVE  Tables' /\ Counted'
  <2>1. \A c \in Contracts : Followers(c)' = Followers(c) \ {s}
    BY <1>3, FollowersOfUnsubscribe
  <2>2. \A c \in Contracts : IsFiniteSet(Followers(c)') /\ Cardinality(Followers(c)') <= tickerRef'[c]
    <3> TAKE c \in Contracts
    <3>1. tickerRef[c] \in Nat /\ Cardinality(Followers(c)) \in Nat /\ IsFiniteSet(Followers(c))
      BY <1>1, RouterAssumption, FS_CardinalityType
    <3>2. /\ IsFiniteSet(Followers(c) \ {s})
          /\ Cardinality(Followers(c) \ {s})
               = IF s \in Followers(c) THEN Cardinality(Followers(c)) - 1 ELSE Cardinality(Followers(c))
      BY <3>1, FS_RemoveElement
    <3>3. s \in Followers(c) <=> c \in Subscribed(s)
      BY DEF Followers
    <3>4. tickerRef'[c] = IF s \in Followers(c) /\ tickerRef[c] > 0 THEN tickerRef[c] - 1 ELSE tickerRef[c]
      BY <1>3, <3>3 DEF UnsubscribeAll, RefAfter
    <3>5. Cardinality(Followers(c)) <= tickerRef[c]
      OBVIOUS
    <3>6. Cardinality(Followers(c) \ {s}) <= tickerRef'[c]
      BY <3>1, <3>2, <3>4, <3>5
    <3> QED
      BY <2>1, <3>2, <3>6
  <2>3. tickerRef' \in [Contracts -> 0..MaxRef]
    BY <1>1, <1>3, RouterAssumption DEF UnsubscribeAll, RefAfter
  <2>4. candleSubs' \in [CandleKeys -> SUBSET Strategies] /\ tickerPushSubs' \in [Contracts -> SUBSET Strategies]
    BY <1>1, <1>3 DEF UnsubscribeAll
  <2>5. \A c \in Contracts : tickerPushSubs'[c] \subseteq Followers(c)'
    BY <1>1, <1>3, <2>1 DEF UnsubscribeAll
  <2>6. GoneStreams(s) \subseteq Streams
    BY RouterAssumption DEF GoneStreams, Tickers, CandleKeys
  <2>7. unsent' \subseteq Streams
    BY <1>1, <1>3, <2>6 DEF UnsubscribeAll, Unsent
  <2> QED
    BY <2>2, <2>3, <2>4, <2>5, <2>7
<1>4. CASE UNCHANGED tables
  BY <1>1, <1>4 DEF tables, Followers, Subscribed
<1> QED
  BY <1>2, <1>3, <1>4, StepKinds, Zenon DEF vars

\* The hub's record follows the tables, failed calls apart.
LEMMA AgreesStep ==
  ASSUME RouterTypeOK, Agrees, [RouterNext]_vars
  PROVE  Agrees'
<1>1. ASSUME NEW s \in Strategies, NEW contracts \in SUBSET Contracts, NEW i \in Intervals,
             NEW push \in BOOLEAN, NEW sent \in SUBSET Streams,
             sent \subseteq NewStreams(contracts, i), SubscribeContracts(s, contracts, i, push, sent)
      PROVE  Agrees'
  <2>1. Wanted' = Wanted \cup NewStreams(contracts, i)
    BY <1>1, WantedOfSubscribe
  <2>2. /\ unsent' = (unsent \ sent) \cup (NewStreams(contracts, i) \ sent)
        /\ activeSubs' = activeSubs \cup sent
    BY <1>1 DEF SubscribeContracts, Unsent, subscribe
  <2> QED
    BY <1>1, <2>1, <2>2 DEF Agrees
<1>2. ASSUME NEW s \in Strategies, NEW sent \in SUBSET Streams,
             sent \subseteq GoneStreams(s), UnsubscribeAll(s, sent)
      PROVE  Agrees'
  <2>1. Wanted' = Wanted \ GoneStreams(s)
    BY <1>2, WantedOfUnsubscribe
  <2>2. unsent' = (unsent \ sent) \cup (GoneStreams(s) \ sent) /\ activeSubs' = activeSubs \ sent
    BY <1>2 DEF UnsubscribeAll, Unsent, unsubscribe
  <2> QED
    BY <1>2, <2>1, <2>2 DEF Agrees
<1>3. CASE HubStep /\ UNCHANGED tables
  <2>1. activeSubs' = activeSubs
    BY <1>3 DEF HubStep, readLoop, Cut, readError, redial, redialFailed, takeSnapshot, resubscribed, resubscribe
  <2> QED
    BY <1>3, <2>1 DEF tables, Agrees, Wanted
<1>4. CASE UNCHANGED vars
  BY <1>4 DEF vars, tables, hub, Agrees, Wanted
<1> QED
  BY <1>1, <1>2, <1>3, <1>4, StepKinds, Zenon

LEMMA InitIInv == RouterInit => IInv
<1> SUFFICES ASSUME RouterInit PROVE IInv
  OBVIOUS
<1> USE DEF RouterInit, HubInit
<1>1. HubTypeOK /\ HubLive
  BY MaxCutsAssumption DEF HubTypeOK, HubLive, ActiveSubsAreLive, Reader
<1>2. \A c \in Contracts : Followers(c) = {}
  BY DEF Followers, Subscribed
<1>3. Tables
  BY <1>2, RouterAssumption DEF Tables
<1>4. Counted
  <2>1. IsFiniteSet({}) /\ Cardinality({}) = 0
    BY FS_EmptySet
  <2> QED
    BY <1>2, <2>1 DEF Counted
<1>5. Agrees
  BY DEF Agrees, Wanted
<1> QED
  BY <1>1, <1>3, <1>4, <1>5, TypesSplit DEF IInv

\* The inductive invariant holds in every state, over calls that fail half way, cuts and
\* reconnections (SubscribeContracts, UnsubscribeAll, readLoop).
THEOREM Invariance == RouterSpec => []IInv
<1>1. IInv /\ [RouterNext]_vars => IInv'
  <2> SUFFICES ASSUME IInv, [RouterNext]_vars PROVE IInv'
    OBVIOUS
  <2>1. HubTypeOK' /\ Tables' /\ Counted' /\ HubLive' /\ Agrees'
    BY HubTypesStep, TablesStep, HubLiveStep, AgreesStep DEF IInv
  <2>2. RouterTypeOK'
    BY <2>1, TypesSplit DEF RouterTypeOK, Tables, Followers
  <2> QED
    BY <2>1, <2>2 DEF IInv
<1> QED
  BY <1>1, InitIInv, PTL DEF RouterSpec

-----------------------------------------------------------------------------
(* The properties *)

\* Types of the router's tables and the hub; ticks go only to strategies that follow the
\* contract (SubscribeContracts, UnsubscribeAll, WsHub).
THEOREM TypeCorrect == RouterSpec => []RouterTypeOK
<1>1. IInv => RouterTypeOK
  BY DEF IInv
<1> QED
  BY <1>1, Invariance, PTL

\* Every recorded subscription is live whenever the read loop reads from a working
\* connection, whatever was subscribed or cut while it reconnected (setSubscriptions,
\* reconnectAfterError).
THEOREM RecordedAreLive == RouterSpec => []ActiveSubsAreLive
<1>1. IInv => ActiveSubsAreLive
  BY DEF IInv, HubLive
<1> QED
  BY <1>1, Invariance, PTL

\* A stop never takes the ticker from a strategy that still follows the contract
\* (decTickerRefForSymbols).
THEOREM StopsCutNobodyOff == RouterSpec => []NeverCutOff
<1>1. IInv => NeverCutOff
  BY DEF IInv, Counted, Followers, NeverCutOff
<1> QED
  BY <1>1, Invariance, PTL

\* Streams of failed calls apart, what the tables want is pushed while the connection
\* works, and the hub's table holds nothing nobody wants; that a snapshot taken before an
\* unsubscription is resent behind it is not excluded (SubscribeContracts, UnsubscribeAll).
THEOREM WantedAreServed == RouterSpec => []StreamsServed
<1>1. IInv => StreamsServed
  BY DEF IInv, HubLive, ActiveSubsAreLive, Agrees, StreamsServed
<1> QED
  BY <1>1, Invariance, PTL

-----------------------------------------------------------------------------
(* The feed: its inductive invariant *)

Update == [to : Listeners, ts : Windows \cup {Tick}]
Bar == [ts : Windows, final : BOOLEAN, pushed : BOOLEAN]

\* Types, the history's left out.
FeedSorts ==
  /\ now \in Windows
  /\ pubCh \in Seq(Windows \cup {Tick}) /\ Len(pubCh) <= PubBuf
  /\ IsFiniteSet(subscribers) /\ subscribers \subseteq Listeners /\ running \subseteq subscribers
  /\ marketCh \in Seq(Update) /\ Len(marketCh) <= MarketBuf
  /\ launch \in [pc : {"none", "asking", "answered"}, strategy : {launch.strategy}, answer : Seq(Candle)]
  /\ launch.pc # "none" => launch.strategy \in Listeners
  /\ stdin \in [Listeners -> Seq(Bar)]
  /\ since \in [Listeners -> Windows] /\ missed \in [Listeners -> SUBSET Windows]
  /\ unpushed \subseteq Windows

\* The process of a launch was sent nothing yet, as the pump waits for the launch; before
\* REST answers the launch has no candles.
Fresh ==
  /\ launch.pc # "none" => stdin[launch.strategy] = <<>>
  /\ launch.pc = "asking" => launch.answer = <<>>

HistoryFirst ==
  \A s \in Listeners : \A i, j \in DOMAIN stdin[s] : stdin[s][i].pushed /\ ~stdin[s][j].pushed => j < i

Sent(s, t) == \E i \in DOMAIN stdin[s] : stdin[s][i].ts = t /\ stdin[s][i].final
Answered(s, t) == launch.pc # "none" /\ launch.strategy = s /\ [ts |-> t, final |-> TRUE] \in ToSet(launch.answer)
OnItsWay(s, t) == t \in Pending \/ [to |-> s, ts |-> t] \in ToSet(marketCh)

\* Where the last data of a window is.
Covered(s, t) == Sent(s, t) \/ Answered(s, t) \/ OnItsWay(s, t) \/ t \in missed[s] \/ t \in unpushed

NoGap == \A s \in running : \A t \in since[s]..(now - 1) : Covered(s, t)

\* The rest of the types, the history's among them; an answer is in order.
Keeps ==
  /\ ticks \in 0..MaxTicks /\ launches \in 0..MaxLaunches
  /\ routerUp \in BOOLEAN /\ late \in BOOLEAN /\ torn \subseteq Windows
  /\ klineHistory \in Seq(Candle) /\ Len(klineHistory) <= KlineHistMax
  /\ Ascending(launch.answer)

\* Every candle of a closed window that is not its last is known to be wrong, or its last is
\* on its way.
Sound ==
  ~late => /\ Ascending(klineHistory)
           /\ \A k \in ToSet(klineHistory) : k.ts < now /\ ~k.final => k.ts \in torn \cup Pending

\* The feed's inductive invariant.
FeedIInv == FeedSorts /\ Fresh /\ HistoryFirst /\ NoGap /\ Keeps /\ Sound

-----------------------------------------------------------------------------
(* Sequences *)

LEMMA SetOfAppend ==
  ASSUME NEW T, NEW q \in Seq(T), NEW x \in T
  PROVE  Append(q, x) \in Seq(T) /\ ToSet(Append(q, x)) = ToSet(q) \cup {x}
<1> DEFINE r == Append(q, x)
<1>1. Len(q) \in Nat /\ DOMAIN q = 1..Len(q) /\ DOMAIN r = 1..(Len(q) + 1) /\ r \in Seq(T)
  OBVIOUS
<1>2. r[Len(q) + 1] = x /\ \A i \in 1..Len(q) : r[i] = q[i]
  OBVIOUS
<1>3. ToSet(r) \subseteq ToSet(q) \cup {x}
  <2> SUFFICES ASSUME NEW i \in DOMAIN r PROVE r[i] \in ToSet(q) \cup {x}
    BY DEF ToSet
  <2>1. i = Len(q) + 1 \/ i \in DOMAIN q
    BY <1>1
  <2> QED
    BY <2>1, <1>1, <1>2 DEF ToSet
<1>4. ToSet(q) \cup {x} \subseteq ToSet(r)
  <2>1. Len(q) + 1 \in DOMAIN r /\ \A i \in DOMAIN q : i \in DOMAIN r
    BY <1>1
  <2>2. \A i \in DOMAIN q : q[i] = r[i]
    BY <1>1, <1>2
  <2> QED
    BY <2>1, <2>2, <1>2, Zenon DEF ToSet
<1> QED
  BY <1>1, <1>3, <1>4

LEMMA SetOfTail ==
  ASSUME NEW T, NEW q \in Seq(T), q # <<>>
  PROVE  /\ Tail(q) \in Seq(T) /\ Len(Tail(q)) = Len(q) - 1
         /\ Head(q) \in T /\ ToSet(q) = {Head(q)} \cup ToSet(Tail(q))
<1>1. /\ Len(q) \in Nat /\ Len(q) # 0 /\ DOMAIN q = 1..Len(q) /\ Tail(q) \in Seq(T) /\ Len(Tail(q)) = Len(q) - 1
      /\ DOMAIN Tail(q) = 1..(Len(q) - 1) /\ Head(q) = q[1]
  OBVIOUS
<1>2. \A i \in 1..(Len(q) - 1) : Tail(q)[i] = q[i + 1]
  OBVIOUS
<1>3. ToSet(q) \subseteq {Head(q)} \cup ToSet(Tail(q))
  <2> SUFFICES ASSUME NEW i \in DOMAIN q PROVE q[i] \in {Head(q)} \cup ToSet(Tail(q))
    BY DEF ToSet
  <2>1. CASE i = 1
    BY <2>1, <1>1
  <2>2. CASE i # 1
    <3>1. i - 1 \in DOMAIN Tail(q) /\ Tail(q)[i - 1] = q[i]
      BY <2>2, <1>1, <1>2
    <3> QED
      BY <3>1 DEF ToSet
  <2> QED
    BY <2>1, <2>2
<1>4. {Head(q)} \cup ToSet(Tail(q)) \subseteq ToSet(q)
  <2>1. 1 \in DOMAIN q /\ \A i \in DOMAIN Tail(q) : i + 1 \in DOMAIN q /\ Tail(q)[i] = q[i + 1]
    BY <1>1, <1>2
  <2> QED
    BY <2>1, <1>1 DEF ToSet
<1>5. Head(q) \in T
  BY <1>1
<1> QED
  BY <1>1, <1>3, <1>4, <1>5

LEMMA SetOfConcat ==
  ASSUME NEW T, NEW q \in Seq(T), NEW r \in Seq(T)
  PROVE  q \o r \in Seq(T) /\ Len(q \o r) = Len(q) + Len(r) /\ ToSet(q \o r) = ToSet(q) \cup ToSet(r)
<1> DEFINE c == q \o r
<1>1. /\ Len(q) \in Nat /\ Len(r) \in Nat /\ DOMAIN q = 1..Len(q) /\ DOMAIN r = 1..Len(r)
      /\ c \in Seq(T) /\ Len(c) = Len(q) + Len(r) /\ DOMAIN c = 1..(Len(q) + Len(r))
  OBVIOUS
<1>2. (\A i \in 1..Len(q) : c[i] = q[i]) /\ \A i \in 1..Len(r) : c[Len(q) + i] = r[i]
  OBVIOUS
<1>3. ToSet(c) \subseteq ToSet(q) \cup ToSet(r)
  <2> SUFFICES ASSUME NEW i \in DOMAIN c PROVE c[i] \in ToSet(q) \cup ToSet(r)
    BY DEF ToSet
  <2>1. CASE i \in DOMAIN q
    BY <2>1, <1>1, <1>2 DEF ToSet
  <2>2. CASE i \notin DOMAIN q
    <3>1. i - Len(q) \in DOMAIN r /\ Len(q) + (i - Len(q)) = i
      BY <2>2, <1>1
    <3>2. c[i] = r[i - Len(q)]
      BY <3>1, <1>1, <1>2
    <3> QED
      BY <3>1, <3>2 DEF ToSet
  <2> QED
    BY <2>1, <2>2
<1>4. ToSet(q) \cup ToSet(r) \subseteq ToSet(c)
  <2>1. (\A i \in DOMAIN q : i \in DOMAIN c /\ c[i] = q[i])
        /\ \A i \in DOMAIN r : Len(q) + i \in DOMAIN c /\ c[Len(q) + i] = r[i]
    BY <1>1, <1>2
  <2> QED
    BY <2>1 DEF ToSet
<1> QED
  BY <1>1, <1>3, <1>4

\* An enumeration of a finite set has all of it.
LEMMA EnumerationCovers ==
  ASSUME NEW S, IsFiniteSet(S), NEW order \in SetToSeqs(S)
  PROVE  order \in Seq(S) /\ ToSet(order) = S
<1> DEFINE n == Cardinality(S)
<1>1. n \in Nat /\ IsFiniteSet(1..n) /\ Cardinality(1..n) = n
  BY FS_CardinalityType, FS_Interval
<1>2. order \in [1..n -> S] /\ \A i, j \in 1..n : i # j => order[i] # order[j]
  BY DEF SetToSeqs
<1>3. order \in Injection(1..n, S)
  BY <1>2 DEF Injection, IsInjective
<1>4. order \in Surjection(1..n, S)
  BY <1>1, <1>3, FS_Injection
<1>5. \A x \in S : \E i \in 1..n : order[i] = x
  BY <1>4 DEF Surjection
<1>6. order \in Seq(S) /\ DOMAIN order = 1..n
  BY <1>1, <1>2
<1> QED
  BY <1>2, <1>5, <1>6 DEF ToSet

-----------------------------------------------------------------------------
(* emit *)

LEMMA SmallerOfTwo ==
  ASSUME NEW a \in Int, NEW b \in Int
  PROVE  Min({a, b}) = IF a <= b THEN a ELSE b
BY DEF Min

LEMMA Emitted ==
  ASSUME FeedSorts, NEW ts \in Windows \cup {Tick}, NEW S \in SUBSET subscribers,
         NEW order \in SetToSeqs(S), Emit(ts, order)
  PROVE  /\ marketCh' \in Seq(Update) /\ Len(marketCh') <= MarketBuf
         /\ missed' \in [Listeners -> SUBSET Windows]
         /\ ToSet(marketCh) \subseteq ToSet(marketCh') /\ \A s \in Listeners : missed[s] \subseteq missed'[s]
         /\ ts # Tick => \A s \in S : [to |-> s, ts |-> ts] \in ToSet(marketCh') \/ ts \in missed'[s]
<1> USE FeedAssumption
<1>1. order \in Seq(S) /\ ToSet(order) = S
  <2>1. IsFiniteSet(S)
    BY FS_Subset DEF FeedSorts
  <2> QED
    BY <2>1, EnumerationCovers
<1> DEFINE free == MarketBuf - Len(marketCh)
           m == Min({Len(order), free})
           room == SubSeq(order, 1, m)
           left == ToSet(order) \ ToSet(room)
           new == [i \in DOMAIN room |-> [to |-> room[i], ts |-> ts]]
<1>2. /\ marketCh' = marketCh \o new
      /\ missed' = IF ts = Tick THEN missed
                   ELSE [s \in Listeners |-> IF s \in left THEN missed[s] \cup {ts} ELSE missed[s]]
  BY DEF Emit
<1>3. Len(order) \in Nat /\ Len(marketCh) \in Nat /\ MarketBuf \in Nat /\ free \in Nat /\ m \in Nat
      /\ m <= Len(order) /\ m <= free
  <2>1. Len(order) \in Nat /\ Len(marketCh) \in Nat /\ MarketBuf \in Nat /\ free \in Nat
    BY <1>1 DEF FeedSorts
  <2> HIDE DEF free
  <2> QED
    BY <2>1, SmallerOfTwo
<1>4. room \in Seq(S) /\ Len(room) = m /\ DOMAIN room = 1..m
  <2> HIDE DEF m
  <2> QED
    BY <1>1, <1>3
<1>5. S \subseteq Listeners
  BY DEF FeedSorts
<1>6. new \in Seq(Update) /\ Len(new) = m /\ DOMAIN new = 1..m
  <2> HIDE DEF room, m
  <2>1. \A i \in 1..m : room[i] \in Listeners
    BY <1>4, <1>5
  <2> QED
    BY <1>3, <1>4, <2>1 DEF Update
<1> HIDE DEF room, m, free, new
<1>7. marketCh' \in Seq(Update) /\ Len(marketCh') = Len(marketCh) + m /\ ToSet(marketCh') = ToSet(marketCh) \cup ToSet(new)
  BY <1>2, <1>6, SetOfConcat, ZenonT(40) DEF FeedSorts
<1>8. Len(marketCh') <= MarketBuf
  BY <1>3, <1>7 DEF free
<1>9. missed' \in [Listeners -> SUBSET Windows] /\ \A s \in Listeners : missed[s] \subseteq missed'[s]
  BY <1>2 DEF FeedSorts
<1>10. ASSUME ts # Tick, NEW s \in S PROVE [to |-> s, ts |-> ts] \in ToSet(marketCh') \/ ts \in missed'[s]
  <2>1. CASE s \in left
    BY <2>1, <1>2, <1>5, <1>10
  <2>2. CASE s \notin left
    <3>1. PICK i \in DOMAIN room : room[i] = s
      BY <2>2, <1>1 DEF ToSet
    <3>2. i \in DOMAIN new /\ new[i] = [to |-> s, ts |-> ts]
      BY <3>1 DEF new
    <3> QED
      BY <3>2, <1>7 DEF ToSet
  <2> QED
    BY <2>1, <2>2
<1> QED
  BY <1>7, <1>8, <1>9, <1>10

-----------------------------------------------------------------------------
(* Steps *)

LEMMA FeedStepKinds ==
  ASSUME [FeedNext]_feedVars
  PROVE  \/ (\E pushed \in BOOLEAN : WindowCloses(pushed)) \/ handleTicker \/ onCandlestick \/ onTicker \/ pumpMarketUpdates
         \/ ListCandlesticks \/ ListCandlesticksFails \/ warmupHistory \/ StartsRouter
         \/ (\E s \in Listeners : launchStrategy(s)) \/ (\E s \in Listeners : StopStrategy(s))
         \/ UNCHANGED feedVars
BY DEF FeedNext, Router, Launching

LEMMA SortsStill ==
  ASSUME FeedSorts,
         UNCHANGED <<now, pubCh, subscribers, running, marketCh, launch, stdin, since, missed, unpushed>>
  PROVE  FeedSorts'
BY DEF FeedSorts

LEMMA SortsOfWindow == ASSUME FeedSorts, NEW pushed \in BOOLEAN, WindowCloses(pushed) PROVE FeedSorts'
<1> USE FeedAssumption DEF Windows, history
<1>1. now \in Nat /\ now' \in 1..LastWindow /\ now \in 1..LastWindow
  BY SMTT(30) DEF FeedSorts, WindowCloses
<1>2. pubCh' \in Seq(Windows \cup {Tick}) /\ Len(pubCh') <= PubBuf
  <2>1. CASE pushed /\ Len(pubCh) < PubBuf
    <3>1. pubCh' = Append(pubCh, now)
      BY <2>1 DEF WindowCloses
    <3>2. pubCh \in Seq(Windows \cup {Tick}) /\ now \in Windows \cup {Tick} /\ Len(pubCh) \in Nat /\ PubBuf \in Nat
      BY DEF FeedSorts
    <3> HIDE DEF Windows
    <3> QED
      BY <2>1, <3>1, <3>2
  <2> QED
    BY <2>1 DEF FeedSorts, WindowCloses
<1>3. missed' \in [Listeners -> SUBSET Windows]
  <2>1. \/ missed' = missed
        \/ missed' = [s \in Listeners |-> IF pushed /\ s \in subscribers THEN missed[s] \cup {now} ELSE missed[s]]
    BY DEF WindowCloses
  <2>2. missed \in [Listeners -> SUBSET Windows] /\ now \in Windows
    BY DEF FeedSorts
  <2> HIDE DEF Windows
  <2> QED
    BY <2>1, <2>2
<1>4. unpushed' \subseteq Windows
  <2>1. unpushed' = unpushed \/ unpushed' = unpushed \cup {now}
    BY DEF WindowCloses
  <2>2. unpushed \subseteq Windows /\ now \in Windows
    BY DEF FeedSorts
  <2> HIDE DEF Windows
  <2> QED
    BY <2>1, <2>2
<1> HIDE DEF Windows
<1> QED
  BY <1>1, <1>2, <1>3, <1>4 DEF FeedSorts, WindowCloses, Windows

LEMMA SortsOfTick == ASSUME FeedSorts, handleTicker PROVE FeedSorts'
<1>1. pubCh' \in Seq(Windows \cup {Tick}) /\ Len(pubCh') <= PubBuf
  <2>1. pubCh \in Seq(Windows \cup {Tick}) /\ Len(pubCh) \in Nat /\ PubBuf \in Nat /\ Len(pubCh) <= PubBuf
    BY FeedAssumption DEF FeedSorts
  <2> QED
    BY <2>1 DEF handleTicker
<1> QED
  BY <1>1 DEF FeedSorts, handleTicker, history

LEMMA SortsOfRouter ==
  ASSUME FeedSorts, onCandlestick \/ onTicker
  PROVE  FeedSorts'
<1>1. Head(pubCh) \in Windows \cup {Tick} /\ pubCh' \in Seq(Windows \cup {Tick}) /\ Len(pubCh') <= PubBuf
  <2>1. pubCh # <<>> /\ pubCh' = Tail(pubCh)
    BY DEF onCandlestick, onTicker
  <2>2. pubCh \in Seq(Windows \cup {Tick}) /\ Len(pubCh) <= PubBuf /\ PubBuf \in Nat /\ Len(pubCh) \in Nat
    BY FeedAssumption DEF FeedSorts
  <2> QED
    BY <2>1, <2>2, SetOfTail
<1>2. \E S \in SUBSET subscribers : \E order \in SetToSeqs(S) : Emit(Head(pubCh), order)
  <2>1. onTicker => Head(pubCh) = Tick
    BY DEF onTicker
  <2> QED
    BY <2>1 DEF onCandlestick, onTicker
<1>3. /\ marketCh' \in Seq(Update) /\ Len(marketCh') <= MarketBuf
      /\ missed' \in [Listeners -> SUBSET Windows]
  BY <1>1, <1>2, Emitted
<1>4. UNCHANGED <<now, subscribers, running, launch, stdin, since, unpushed>>
  BY DEF onCandlestick, onTicker
<1> QED
  BY <1>1, <1>3, <1>4 DEF FeedSorts

LEMMA SortsOfPump == ASSUME FeedSorts, pumpMarketUpdates PROVE FeedSorts'
<1> DEFINE u == Head(marketCh)
           bar == [ts |-> u.ts, final |-> TRUE, pushed |-> TRUE]
<1>1. u \in Update /\ marketCh' \in Seq(Update) /\ Len(marketCh') <= MarketBuf
  <2>1. marketCh \in Seq(Update) /\ Len(marketCh) <= MarketBuf /\ MarketBuf \in Nat /\ Len(marketCh) \in Nat
    BY FeedAssumption DEF FeedSorts
  <2> QED
    BY <2>1, SetOfTail DEF pumpMarketUpdates
<1>2. stdin' \in [Listeners -> Seq(Bar)]
  <2>1. CASE u.to \in running /\ u.ts # Tick
    <3>1. stdin' = [stdin EXCEPT ![u.to] = Append(@, bar)]
      BY <2>1 DEF pumpMarketUpdates
    <3>2. bar \in Bar /\ u.to \in Listeners
      BY <1>1, <2>1 DEF Update, Bar
    <3>3. stdin \in [Listeners -> Seq(Bar)]
      BY DEF FeedSorts
    <3>4. Append(stdin[u.to], bar) \in Seq(Bar)
      BY <3>2, <3>3
    <3> HIDE DEF bar, u
    <3> QED
      BY <3>1, <3>3, <3>4
  <2>2. CASE ~(u.to \in running /\ u.ts # Tick)
    <3>1. stdin' = stdin
      BY <2>2 DEF pumpMarketUpdates
    <3> QED
      BY <3>1 DEF FeedSorts
  <2> QED
    BY <2>1, <2>2
<1> QED
  BY <1>1, <1>2 DEF FeedSorts, pumpMarketUpdates, exchange, history

LEMMA SortsOfLaunch == ASSUME FeedSorts, NEW s \in Listeners, launchStrategy(s) PROVE FeedSorts'
<1>1. IsFiniteSet(subscribers') /\ subscribers' \subseteq Listeners /\ running' \subseteq subscribers'
  <2>1. IsFiniteSet(subscribers \cup {s})
    BY FS_AddElement DEF FeedSorts
  <2> QED
    BY <2>1 DEF FeedSorts, launchStrategy
<1>2. /\ launch' \in [pc : {"none", "asking", "answered"}, strategy : {launch'.strategy}, answer : Seq(Candle)]
      /\ launch'.pc # "none" => launch'.strategy \in Listeners
  <2>1. NoLaunch \in [pc : {"none"}, strategy : {NoLaunch.strategy}, answer : Seq(Candle)]
    BY DEF NoLaunch
  <2>2. CASE HistoryBars[s] = 0
    BY <2>1, <2>2 DEF launchStrategy
  <2>3. CASE HistoryBars[s] # 0
    <3>1. launch' = [pc |-> "asking", strategy |-> s, answer |-> <<>>]
      BY <2>3 DEF launchStrategy, NoLaunch
    <3> QED
      BY <3>1
  <2> QED
    BY <2>2, <2>3
<1>3. stdin' \in [Listeners -> Seq(Bar)] /\ since' \in [Listeners -> Windows] /\ missed' \in [Listeners -> SUBSET Windows]
  BY DEF FeedSorts, launchStrategy
<1> QED
  BY <1>1, <1>2, <1>3 DEF FeedSorts, launchStrategy, exchange

LEMMA SortsOfAnswer == ASSUME FeedSorts, ListCandlesticks PROVE FeedSorts' /\ launch'.pc = "answered"
<1> USE FeedAssumption
<1> DEFINE bars == HistoryBars[launch.strategy]
           first == Max({1, now - bars + 1})
           answer == [i \in 1..(now - first + 1) |-> [ts |-> first + i - 1, final |-> first + i - 1 < now]]
<1>1. launch' = [launch EXCEPT !.pc = "answered", !.answer = answer]
  BY DEF ListCandlesticks
<1>2. now \in Nat /\ now <= LastWindow /\ LastWindow \in Nat /\ bars \in Nat
  BY DEF FeedSorts, ListCandlesticks, Windows
<1>3. first \in Nat /\ first >= 1
  <2>1. \A a \in Int : Max({1, a}) = IF a >= 1 THEN a ELSE 1
    BY DEF Max
  <2> HIDE DEF bars
  <2> QED
    BY <1>2, <2>1
<1>4. answer \in Seq(Candle)
  <2> HIDE DEF first
  <2>1. now - first + 1 \in Int
    BY <1>2, <1>3
  <2>2. \A i \in 1..(now - first + 1) : [ts |-> first + i - 1, final |-> first + i - 1 < now] \in Candle
    <3> TAKE i \in 1..(now - first + 1)
    <3>1. first + i - 1 \in 1..LastWindow
      BY <1>2, <1>3, <2>1
    <3>2. (first + i - 1 < now) \in BOOLEAN
      OBVIOUS
    <3> QED
      BY <3>1, <3>2, Zenon DEF Candle, Windows
  <2>3. CASE now - first + 1 \in Nat
    BY <2>2, <2>3
  <2>4. CASE now - first + 1 \notin Nat
    <3>1. 1..(now - first + 1) = {}
      BY <2>1, <2>4
    <3>2. DOMAIN answer = {} /\ <<>> \in Seq(Candle)
      BY <3>1
    <3>3. answer = <<>>
      BY <3>2
    <3> QED
      BY <3>2, <3>3
  <2> QED
    BY <2>3, <2>4
<1> HIDE DEF answer
<1>5. /\ launch' \in [pc : {"none", "asking", "answered"}, strategy : {launch'.strategy}, answer : Seq(Candle)]
      /\ launch'.pc = "answered" /\ launch'.strategy = launch.strategy /\ launch.pc # "none"
  BY <1>1, <1>4 DEF FeedSorts, ListCandlesticks
<1> QED
  BY <1>5 DEF FeedSorts, ListCandlesticks, exchange, history

LEMMA NoLaunchIs ==
  /\ NoLaunch.pc = "none" /\ NoLaunch.answer = <<>>
  /\ NoLaunch \in [pc : {"none", "asking", "answered"}, strategy : {NoLaunch.strategy}, answer : Seq(Candle)]
BY DEF NoLaunch

LEMMA SortsOfFailure == ASSUME FeedSorts, ListCandlesticksFails PROVE FeedSorts'
BY NoLaunchIs DEF FeedSorts, ListCandlesticksFails, exchange, history

\* What a launch's process is sent of its past candles.
PastBars == [i \in DOMAIN launch.answer |->
              [ts |-> launch.answer[i].ts, final |-> launch.answer[i].final, pushed |-> FALSE]]

LEMMA Warmed ==
  ASSUME FeedSorts, Fresh, warmupHistory
  PROVE  /\ PastBars \in Seq(Bar) /\ launch.strategy \in Listeners
         /\ stdin' = [stdin EXCEPT ![launch.strategy] = PastBars]
<1>1. launch.answer \in Seq(Candle) /\ launch.strategy \in Listeners /\ stdin \in [Listeners -> Seq(Bar)]
  BY DEF FeedSorts, warmupHistory
<1>2. PastBars \in Seq(Bar)
  <2>1. \A i \in DOMAIN launch.answer : launch.answer[i] \in Candle
    BY <1>1
  <2>2. \A i \in DOMAIN launch.answer : PastBars[i] \in Bar
    BY <2>1 DEF PastBars, Candle, Bar
  <2>3. DOMAIN PastBars = 1..Len(launch.answer) /\ Len(launch.answer) \in Nat /\ DOMAIN launch.answer = 1..Len(launch.answer)
    BY <1>1 DEF PastBars
  <2>4. PastBars = [i \in 1..Len(launch.answer) |-> PastBars[i]]
    BY <2>3 DEF PastBars
  <2> QED
    BY <2>2, <2>3, <2>4
<1>3. stdin[launch.strategy] = <<>>
  BY DEF Fresh, warmupHistory
<1>4. stdin' = [stdin EXCEPT ![launch.strategy] = stdin[launch.strategy] \o PastBars]
  BY DEF warmupHistory, PastBars
<1>5. <<>> \o PastBars = PastBars
  BY <1>2
<1> QED
  BY <1>1, <1>2, <1>3, <1>4, <1>5

LEMMA SortsOfWarmup == ASSUME FeedSorts, Fresh, warmupHistory PROVE FeedSorts'
<1>1. stdin' \in [Listeners -> Seq(Bar)]
  BY Warmed DEF FeedSorts
<1> QED
  BY <1>1, NoLaunchIs DEF FeedSorts, warmupHistory, exchange

LEMMA SortsOfStop == ASSUME FeedSorts, NEW s \in Listeners, StopStrategy(s) PROVE FeedSorts'
<1>1. IsFiniteSet(subscribers')
  BY FS_RemoveElement DEF FeedSorts, StopStrategy
<1> QED
  BY <1>1 DEF FeedSorts, StopStrategy, exchange, history

LEMMA SortsStep == ASSUME FeedSorts, Fresh, [FeedNext]_feedVars PROVE FeedSorts'
<1>1. CASE StartsRouter \/ UNCHANGED feedVars
  BY <1>1, SortsStill DEF StartsRouter, feedVars, exchange, history
<1> QED
  BY <1>1, FeedStepKinds, SortsOfWindow, SortsOfTick, SortsOfRouter, SortsOfPump, SortsOfLaunch, SortsOfAnswer,
     SortsOfFailure, SortsOfWarmup, SortsOfStop

LEMMA FreshStep == ASSUME FeedSorts, Fresh, [FeedNext]_feedVars PROVE Fresh'
<1>1. CASE UNCHANGED <<launch, stdin>>
  BY <1>1 DEF Fresh
<1>2. CASE pumpMarketUpdates
  BY <1>2 DEF Fresh, pumpMarketUpdates
<1>3. ASSUME NEW s \in Listeners, launchStrategy(s) PROVE Fresh'
  <2>1. launch' = NoLaunch \/ (launch'.strategy = s /\ launch'.answer = <<>>)
    BY <1>3, NoLaunchIs DEF launchStrategy, NoLaunch
  <2>2. stdin'[s] = <<>>
    BY <1>3 DEF FeedSorts, launchStrategy
  <2> QED
    BY <2>1, <2>2, NoLaunchIs DEF Fresh
<1>4. CASE ListCandlesticks
  <2>1. launch'.pc = "answered"
    BY <1>4, SortsOfAnswer
  <2>2. launch'.strategy = launch.strategy /\ launch.pc # "none" /\ stdin' = stdin
    BY <1>4 DEF FeedSorts, ListCandlesticks
  <2> QED
    BY <2>1, <2>2 DEF Fresh
<1>5. CASE ListCandlesticksFails \/ warmupHistory
  BY <1>5, NoLaunchIs DEF Fresh, ListCandlesticksFails, warmupHistory
<1>6. (\E pushed \in BOOLEAN : WindowCloses(pushed)) \/ handleTicker \/ onCandlestick \/ onTicker \/ StartsRouter
      \/ (\E s \in Listeners : StopStrategy(s)) \/ UNCHANGED feedVars => UNCHANGED <<launch, stdin>>
  BY DEF WindowCloses, handleTicker, onCandlestick, onTicker, StartsRouter, StopStrategy, feedVars
<1> QED
  BY <1>1, <1>2, <1>3, <1>4, <1>5, <1>6, FeedStepKinds

\* The pump appends one pushed candle, or none.
LEMMA Pumped ==
  ASSUME FeedSorts, pumpMarketUpdates, NEW s \in Listeners
  PROVE  /\ Head(marketCh) \in Update
         /\ \/ stdin'[s] = stdin[s] /\ ~(Head(marketCh).to = s /\ s \in running /\ Head(marketCh).ts # Tick)
            \/ /\ Head(marketCh).to = s
               /\ stdin'[s] = Append(stdin[s], [ts |-> Head(marketCh).ts, final |-> TRUE, pushed |-> TRUE])
<1> DEFINE u == Head(marketCh)
           bar == [ts |-> u.ts, final |-> TRUE, pushed |-> TRUE]
<1>1. u \in Update
  BY SetOfTail DEF FeedSorts, pumpMarketUpdates
<1>2. stdin' = IF u.to \in running /\ u.ts # Tick THEN [stdin EXCEPT ![u.to] = Append(@, bar)] ELSE stdin
  BY DEF pumpMarketUpdates
<1>3. stdin \in [Listeners -> Seq(Bar)]
  BY DEF FeedSorts
<1> HIDE DEF u, bar
<1>4. CASE u.to \in running /\ u.ts # Tick
  <2>1. CASE u.to = s
    BY <1>2, <1>3, <1>4, <2>1, <1>1 DEF u, bar
  <2>2. CASE u.to # s
    BY <1>2, <1>3, <1>4, <2>2, <1>1 DEF u, bar
  <2> QED
    BY <2>1, <2>2
<1>5. CASE ~(u.to \in running /\ u.ts # Tick)
  BY <1>2, <1>5, <1>1 DEF u, bar
<1> QED
  BY <1>4, <1>5

LEMMA HistoryFirstStep ==
  ASSUME FeedSorts, Fresh, HistoryFirst, [FeedNext]_feedVars
  PROVE  HistoryFirst'
<1>1. CASE UNCHANGED stdin
  BY <1>1 DEF HistoryFirst
<1> SUFFICES ASSUME ~UNCHANGED stdin, NEW s \in Listeners, NEW i \in DOMAIN stdin'[s], NEW j \in DOMAIN stdin'[s],
                    stdin'[s][i].pushed, ~stdin'[s][j].pushed
             PROVE  j < i
  BY <1>1 DEF HistoryFirst
<1>2. stdin \in [Listeners -> Seq(Bar)]
  BY DEF FeedSorts
<1>3. CASE stdin'[s] = stdin[s]
  BY <1>3 DEF HistoryFirst
<1>4. CASE pumpMarketUpdates
  <2> DEFINE bar == [ts |-> Head(marketCh).ts, final |-> TRUE, pushed |-> TRUE]
             q == stdin[s]
  <2>1. CASE stdin'[s] = Append(q, bar)
    <3>1. q \in Seq(Bar) /\ Len(q) \in Nat /\ DOMAIN q = 1..Len(q) /\ bar.pushed = TRUE
      BY <1>2
    <3> HIDE DEF bar
    <3>2. /\ DOMAIN Append(q, bar) = 1..(Len(q) + 1) /\ Append(q, bar)[Len(q) + 1] = bar
          /\ \A k \in 1..Len(q) : Append(q, bar)[k] = q[k]
      BY <3>1
    <3>3. j # Len(q) + 1 /\ j \in 1..Len(q) /\ ~q[j].pushed
      BY <2>1, <3>1, <3>2
    <3>4. CASE i = Len(q) + 1
      BY <3>1, <3>3, <3>4
    <3>5. CASE i # Len(q) + 1
      <4>1. i \in 1..Len(q) /\ q[i].pushed
        BY <2>1, <3>2, <3>1, <3>5
      <4> QED
        BY <4>1, <3>3, <3>1 DEF HistoryFirst
    <3> QED
      BY <3>4, <3>5
  <2> QED
    BY <2>1, <1>3, <1>4, Pumped
<1>5. ASSUME NEW s0 \in Listeners, launchStrategy(s0) PROVE j < i
  <2>1. stdin' = [stdin EXCEPT ![s0] = <<>>]
    BY <1>5 DEF launchStrategy
  <2>2. CASE s0 = s
    <3>1. stdin'[s] = <<>>
      BY <2>1, <2>2, <1>2
    <3>2. DOMAIN stdin'[s] = {}
      BY <3>1
    <3> QED
      BY <3>2
  <2> QED
    BY <2>1, <2>2, <1>2, <1>3
<1>6. CASE warmupHistory
  <2>1. stdin' = [stdin EXCEPT ![launch.strategy] = PastBars]
    BY <1>6, Warmed
  <2>2. CASE launch.strategy = s
    <3>1. stdin'[s] = PastBars
      BY <2>1, <2>2, <1>2
    <3>2. PastBars[i].pushed = FALSE
      BY <3>1 DEF PastBars
    <3> QED
      BY <3>1, <3>2
  <2> QED
    BY <2>1, <2>2, <1>2, <1>3
<1>7. (\E pushed \in BOOLEAN : WindowCloses(pushed)) \/ handleTicker \/ onCandlestick \/ onTicker \/ StartsRouter \/ ListCandlesticks
      \/ ListCandlesticksFails \/ (\E s0 \in Listeners : StopStrategy(s0)) \/ UNCHANGED feedVars => UNCHANGED stdin
  BY DEF WindowCloses, handleTicker, onCandlestick, onTicker, StartsRouter, ListCandlesticks, ListCandlesticksFails,
         StopStrategy, feedVars
<1> QED
  BY <1>4, <1>5, <1>6, <1>7, FeedStepKinds

-----------------------------------------------------------------------------
(* No window is lost *)

LEMMA NoGapOfWindow == ASSUME FeedSorts, NoGap, NEW pushed \in BOOLEAN, WindowCloses(pushed) PROVE NoGap'
<1> SUFFICES ASSUME NEW s \in running, NEW t \in since[s]..now PROVE Covered(s, t)'
  <2>1. running' = running /\ since' = since /\ now' = now + 1 /\ now \in Nat
    BY DEF FeedSorts, WindowCloses, Windows, history
  <2>2. now' - 1 = now
    BY <2>1
  <2> QED
    BY <2>1, <2>2 DEF NoGap
<1>1. /\ now \in Nat /\ since[s] \in Nat /\ s \in subscribers /\ s \in Listeners
      /\ missed \in [Listeners -> SUBSET Windows] /\ pubCh \in Seq(Windows \cup {Tick}) /\ now \in Windows
  BY DEF FeedSorts, Windows
<1>2. UNCHANGED <<stdin, launch, marketCh>>
  BY DEF WindowCloses
<1>3. CASE pushed /\ Len(pubCh) < PubBuf
  <2>1. pubCh' = Append(pubCh, now) /\ missed' = missed /\ unpushed' = unpushed
    BY <1>1, <1>3 DEF WindowCloses
  <2>2. Pending' = Pending \cup {now}
    BY <2>1, <1>1, SetOfAppend DEF Pending
  <2>3. t = now \/ t \in since[s]..(now - 1)
    BY <1>1
  <2> QED
    BY <2>1, <2>2, <2>3, <1>2 DEF NoGap, Covered, Sent, Answered, OnItsWay
<1>4. CASE pushed /\ ~(Len(pubCh) < PubBuf)
  <2>1. pubCh' = pubCh /\ unpushed' = unpushed
        /\ missed' = [l \in Listeners |-> IF l \in subscribers THEN missed[l] \cup {now} ELSE missed[l]]
    BY <1>4 DEF WindowCloses
  <2>2. missed'[s] = missed[s] \cup {now}
    BY <2>1, <1>1
  <2>3. t = now \/ t \in since[s]..(now - 1)
    BY <1>1
  <2> QED
    BY <2>1, <2>2, <2>3, <1>2 DEF NoGap, Covered, Sent, Answered, OnItsWay, Pending
<1>5. CASE ~pushed
  <2>1. pubCh' = pubCh /\ unpushed' = unpushed \cup {now}
    BY <1>5 DEF WindowCloses
  <2>2. missed'[s] = missed[s]
    BY <1>1, <1>5 DEF WindowCloses
  <2>3. t = now \/ t \in since[s]..(now - 1)
    BY <1>1
  <2> QED
    BY <2>1, <2>2, <2>3, <1>2 DEF NoGap, Covered, Sent, Answered, OnItsWay, Pending
<1> QED
  BY <1>3, <1>4, <1>5

LEMMA PendingOfTick == ASSUME FeedSorts, handleTicker PROVE Pending \subseteq Pending'
<1>1. pubCh \in Seq(Windows \cup {Tick}) /\ Tick \in Windows \cup {Tick}
  BY DEF FeedSorts
<1>2. ToSet(Append(pubCh, Tick)) = ToSet(pubCh) \cup {Tick}
  BY <1>1, SetOfAppend
<1>3. pubCh' = Append(pubCh, Tick) \/ pubCh' = pubCh
  BY DEF handleTicker
<1> QED
  BY <1>2, <1>3 DEF Pending

LEMMA NoGapOfTick == ASSUME FeedSorts, NoGap, handleTicker PROVE NoGap'
<1>1. Pending \subseteq Pending'
  BY PendingOfTick
<1>2. UNCHANGED <<now, running, since, missed, unpushed, stdin, launch, marketCh>>
  BY DEF handleTicker, history
<1> QED
  BY <1>1, <1>2 DEF NoGap, Covered, Sent, Answered, OnItsWay

LEMMA NoGapOfRouter == ASSUME FeedSorts, NoGap, onCandlestick \/ onTicker PROVE NoGap'
<1>1. UNCHANGED <<now, running, since, stdin, launch, unpushed>>
  BY DEF onCandlestick, onTicker
<1> SUFFICES ASSUME NEW s \in running, NEW t \in since[s]..(now - 1) PROVE Covered(s, t)'
  BY <1>1 DEF NoGap
<1>2. /\ Head(pubCh) \in Windows \cup {Tick} /\ pubCh' = Tail(pubCh)
      /\ Pending = {Head(pubCh)} \cup Pending'
  BY SetOfTail DEF FeedSorts, onCandlestick, onTicker, Pending
<1>3. s \in subscribers /\ s \in Listeners /\ t # Tick
  <2>1. now \in Nat /\ since[s] \in Nat \ {0} /\ s \in subscribers /\ s \in Listeners
    BY FeedAssumption DEF FeedSorts, Windows
  <2> QED
    BY <2>1 DEF Tick
<1>4. PICK S \in SUBSET subscribers : /\ \E order \in SetToSeqs(S) : Emit(Head(pubCh), order)
                                      /\ Head(pubCh) # Tick => S = subscribers
  <2>1. (onTicker => Head(pubCh) = Tick) /\ subscribers \cap TickerSubs \in SUBSET subscribers
    BY DEF onTicker
  <2> QED
    BY <2>1 DEF onCandlestick, onTicker
<1>5. /\ ToSet(marketCh) \subseteq ToSet(marketCh') /\ missed[s] \subseteq missed'[s]
      /\ Head(pubCh) # Tick => [to |-> s, ts |-> Head(pubCh)] \in ToSet(marketCh') \/ Head(pubCh) \in missed'[s]
  BY <1>2, <1>3, <1>4, Emitted
<1>6. Covered(s, t)
  BY DEF NoGap
<1> QED
  BY <1>1, <1>2, <1>3, <1>5, <1>6 DEF Covered, Sent, Answered, OnItsWay

LEMMA NoGapOfPump == ASSUME FeedSorts, NoGap, pumpMarketUpdates PROVE NoGap'
<1>1. UNCHANGED <<now, running, since, missed, unpushed, launch, pubCh>>
  BY DEF pumpMarketUpdates, exchange, history
<1> SUFFICES ASSUME NEW s \in running, NEW t \in since[s]..(now - 1) PROVE Covered(s, t)'
  BY <1>1 DEF NoGap
<1>2. s \in Listeners /\ t # Tick /\ stdin[s] \in Seq(Bar)
  <2>1. now \in Nat /\ since[s] \in Nat \ {0} /\ s \in Listeners /\ stdin[s] \in Seq(Bar)
    BY FeedAssumption DEF FeedSorts, Windows
  <2> QED
    BY <2>1 DEF Tick
<1> DEFINE u == Head(marketCh)
           bar == [ts |-> u.ts, final |-> TRUE, pushed |-> TRUE]
<1>3. ToSet(marketCh) = {u} \cup ToSet(marketCh')
  BY SetOfTail DEF FeedSorts, pumpMarketUpdates
<1>4. u \in Update
  BY <1>2, Pumped
<1>5. Covered(s, t)
  BY DEF NoGap
<1>6. CASE stdin'[s] = stdin[s] /\ ~(u.to = s /\ s \in running /\ u.ts # Tick)
  <2>1. [to |-> s, ts |-> t] # u
    BY <1>2, <1>6
  <2> QED
    BY <2>1, <1>1, <1>3, <1>5, <1>6 DEF Covered, Sent, Answered, OnItsWay, Pending
<1>7. CASE u.to = s /\ stdin'[s] = Append(stdin[s], bar)
  <2> DEFINE q == stdin[s]
  <2>1. Len(q) \in Nat /\ DOMAIN q = 1..Len(q)
    BY <1>2
  <2>2. /\ DOMAIN stdin'[s] = 1..(Len(q) + 1) /\ stdin'[s][Len(q) + 1] = bar
        /\ \A k \in 1..Len(q) : stdin'[s][k] = q[k]
    <3> HIDE DEF bar
    <3> QED
      BY <1>2, <1>7, <2>1
  <2>3. Sent(s, t) => Sent(s, t)'
    <3> HAVE Sent(s, t)
    <3>1. PICK i \in DOMAIN q : q[i].ts = t /\ q[i].final
      BY DEF Sent
    <3>2. i \in DOMAIN stdin'[s] /\ stdin'[s][i] = q[i]
      BY <2>1, <2>2
    <3> QED
      BY <3>1, <3>2 DEF Sent
  <2>4. t = u.ts => Sent(s, t)'
    <3> HAVE t = u.ts
    <3>1. Len(q) + 1 \in DOMAIN stdin'[s] /\ bar.ts = t /\ bar.final
      BY <2>1, <2>2
    <3> QED
      BY <2>2, <3>1 DEF Sent
  <2>5. [to |-> s, ts |-> t] = u => t = u.ts
    BY <1>4
  <2> QED
    BY <1>1, <1>3, <1>5, <2>3, <2>4, <2>5 DEF Covered, Answered, OnItsWay, Pending
<1> QED
  BY <1>2, <1>6, <1>7, Pumped

LEMMA NoGapOfLaunch == ASSUME FeedSorts, NoGap, NEW s0 \in Listeners, launchStrategy(s0) PROVE NoGap'
<1>1. /\ UNCHANGED <<now, pubCh, marketCh, unpushed>> /\ launch.pc = "none" /\ running' = running \cup {s0}
      /\ stdin' = [stdin EXCEPT ![s0] = <<>>] /\ since' = [since EXCEPT ![s0] = now]
      /\ missed' = [missed EXCEPT ![s0] = {}]
  BY DEF launchStrategy, exchange
<1>2. now \in Nat /\ running \subseteq Listeners
  BY DEF FeedSorts, Windows
<1> SUFFICES ASSUME NEW s \in running', NEW t \in since'[s]..(now - 1) PROVE Covered(s, t)'
  BY <1>1 DEF NoGap
<1>3. CASE s = s0
  <2>1. since'[s] = now
    BY <1>1, <1>3 DEF FeedSorts
  <2> QED
    BY <2>1, <1>2
<1>4. CASE s # s0
  <2>1. s \in running /\ s \in Listeners
    BY <1>1, <1>2, <1>4
  <2>2. since'[s] = since[s] /\ stdin'[s] = stdin[s] /\ missed'[s] = missed[s]
    BY <1>1, <1>4, <2>1 DEF FeedSorts
  <2>3. Covered(s, t)
    BY <2>1, <2>2 DEF NoGap
  <2> QED
    BY <1>1, <2>2, <2>3 DEF Covered, Sent, Answered, OnItsWay, Pending
<1> QED
  BY <1>3, <1>4

LEMMA NoGapOfAsking ==
  ASSUME FeedSorts, Fresh, NoGap, ListCandlesticks \/ ListCandlesticksFails
  PROVE  NoGap'
<1>1. UNCHANGED <<now, pubCh, marketCh, running, since, stdin, missed, unpushed>> /\ launch.pc = "asking"
  BY DEF ListCandlesticks, ListCandlesticksFails, exchange, history
<1>2. ToSet(launch.answer) = {}
  BY <1>1 DEF Fresh, ToSet
<1> QED
  BY <1>1, <1>2 DEF NoGap, Covered, Sent, Answered, OnItsWay, Pending

LEMMA NoGapOfWarmup == ASSUME FeedSorts, Fresh, NoGap, warmupHistory PROVE NoGap'
<1>1. UNCHANGED <<now, pubCh, marketCh, running, since, missed, unpushed>>
  BY DEF warmupHistory, exchange
<1>2. stdin' = [stdin EXCEPT ![launch.strategy] = PastBars] /\ stdin \in [Listeners -> Seq(Bar)]
  BY Warmed DEF FeedSorts
<1> SUFFICES ASSUME NEW s \in running, NEW t \in since[s]..(now - 1) PROVE Covered(s, t)'
  BY <1>1 DEF NoGap
<1>3. s \in Listeners /\ Covered(s, t)
  BY DEF FeedSorts, NoGap
<1>4. CASE launch.strategy = s
  <2>1. stdin[s] = <<>> /\ stdin'[s] = PastBars
    BY <1>2, <1>3, <1>4 DEF Fresh, warmupHistory
  <2>2. ~Sent(s, t)
    BY <2>1 DEF Sent
  <2>3. Answered(s, t) => Sent(s, t)'
    <3> HAVE Answered(s, t)
    <3>1. PICK i \in DOMAIN launch.answer : launch.answer[i] = [ts |-> t, final |-> TRUE]
      BY DEF Answered, ToSet
    <3>2. i \in DOMAIN PastBars /\ PastBars[i].ts = t /\ PastBars[i].final
      BY <3>1 DEF PastBars
    <3> QED
      BY <2>1, <3>2 DEF Sent
  <2> QED
    BY <1>1, <1>3, <2>2, <2>3 DEF Covered, OnItsWay, Pending
<1>5. CASE launch.strategy # s
  <2>1. stdin'[s] = stdin[s] /\ ~Answered(s, t)
    BY <1>2, <1>3, <1>5 DEF Answered
  <2> QED
    BY <1>1, <1>3, <2>1 DEF Covered, Sent, OnItsWay, Pending
<1> QED
  BY <1>4, <1>5

LEMMA NoGapStep ==
  ASSUME FeedSorts, Fresh, NoGap, [FeedNext]_feedVars
  PROVE  NoGap'
<1>1. CASE (\E s \in Listeners : StopStrategy(s)) \/ StartsRouter \/ UNCHANGED feedVars
  <2>1. UNCHANGED <<now, pubCh, marketCh, since, stdin, missed, unpushed, launch>> /\ running' \subseteq running
    BY <1>1 DEF StopStrategy, StartsRouter, feedVars, exchange, history
  <2> QED
    BY <2>1 DEF NoGap, Covered, Sent, Answered, OnItsWay, Pending
<1> QED
  BY <1>1, FeedStepKinds, NoGapOfWindow, NoGapOfTick, NoGapOfRouter, NoGapOfPump, NoGapOfLaunch, NoGapOfAsking,
     NoGapOfWarmup

-----------------------------------------------------------------------------
(* Counting up, as the prover cannot take an induction rule over formulas *)

LEMMA UpTo ==
  ASSUME NEW n \in Nat, NEW S, 0 \in S, \A i \in 0..(n - 1) : i \in S => i + 1 \in S
  PROVE  0..n \subseteq S
<1> SUFFICES ASSUME NEW m \in 0..n, m \notin S
             PROVE  FALSE
  OBVIOUS
<1> DEFINE Left == (0..m) \ S
           f == [i \in Left |-> i - 1]
<1>1. IsFiniteSet(Left)
  <2>1. IsFiniteSet(0..m)
    BY FS_Interval
  <2> QED
    BY <2>1, FS_Subset
<1>2. \A i \in Left : i - 1 \in Left /\ i \in 0..m
  OBVIOUS
<1>3. f \in Injection(Left, Left)
  BY <1>2 DEF Injection, IsInjective
<1>4. f \in Surjection(Left, Left)
  BY <1>1, <1>3, FS_Injection
<1>5. m \in Left
  OBVIOUS
<1>6. PICK i \in Left : i - 1 = m
  BY <1>4, <1>5 DEF Surjection
<1> QED
  BY <1>2, <1>6

-----------------------------------------------------------------------------
(* The binary search *)

\* One turn of the search, which goes on with find.
Probe(list, ts, find, i, j) ==
  IF i >= j THEN i
  ELSE IF list[((i + j) \div 2) + 1].ts < ts THEN find[<<((i + j) \div 2) + 1, j>>] ELSE find[<<i, (i + j) \div 2>>]

LEMMA Halves ==
  ASSUME NEW i \in Nat, NEW j \in Nat, i < j
  PROVE  (i + j) \div 2 \in Nat /\ i <= (i + j) \div 2 /\ (i + j) \div 2 < j
OBVIOUS

\* A function does the search's turns, for any list: one that does them for short stretches is
\* taken further.
LEMMA SearchEnds ==
  ASSUME NEW list \in Seq(Candle), NEW ts \in Nat
  PROVE  \E find : find = [p \in (0..Len(list)) \X (0..Len(list)) |-> Probe(list, ts, find, p[1], p[2])]
<1> DEFINE n == Len(list)
           D == 0..n
           Does(g, d) == \A i, j \in D : j - i <= d => g[<<i, j>>] = Probe(list, ts, g, i, j)
           S == {d \in Nat : \E g \in [D \X D -> D] : Does(g, d)}
<1>1. n \in Nat
  OBVIOUS
<1>2. 0 \in S
  <2> DEFINE g == [p \in D \X D |-> p[1]]
  <2>1. g \in [D \X D -> D] /\ \A i, j \in D : g[<<i, j>>] = i
    OBVIOUS
  <2>2. Does(g, 0)
    <3> SUFFICES ASSUME NEW i \in D, NEW j \in D, j - i <= 0 PROVE g[<<i, j>>] = Probe(list, ts, g, i, j)
      OBVIOUS
    <3> HIDE DEF g
    <3> QED
      BY <1>1, <2>1 DEF Probe
  <2> HIDE DEF g, Does
  <2> QED
    BY <2>1, <2>2
<1>3. ASSUME NEW d \in Nat, d \in S PROVE d + 1 \in S
  <2>1. PICK g \in [D \X D -> D] : Does(g, d)
    BY <1>3
  <2> DEFINE f == [p \in D \X D |-> Probe(list, ts, g, p[1], p[2])]
  <2>2. \A i, j \in D : f[<<i, j>>] = Probe(list, ts, g, i, j)
    OBVIOUS
  <2>3. \A i, j \in D : i < j => (i + j) \div 2 \in D /\ ((i + j) \div 2) + 1 \in D /\ i <= (i + j) \div 2 /\ (i + j) \div 2 < j
    <3> SUFFICES ASSUME NEW i \in D, NEW j \in D, i < j
                 PROVE  (i + j) \div 2 \in D /\ ((i + j) \div 2) + 1 \in D /\ i <= (i + j) \div 2 /\ (i + j) \div 2 < j
      OBVIOUS
    <3>1. i \in Nat /\ j \in Nat /\ j <= n
      BY <1>1
    <3> DEFINE h == (i + j) \div 2
    <3>2. h \in Nat /\ i <= h /\ h < j
      BY <3>1, Halves
    <3> HIDE DEF h
    <3>3. h \in D /\ h + 1 \in D
      BY <1>1, <3>1, <3>2
    <3> QED
      BY <3>2, <3>3 DEF h
  <2>4. \A i, j \in D : Probe(list, ts, g, i, j) \in D
    <3> TAKE i \in D, j \in D
    <3>1. CASE i >= j
      BY <3>1 DEF Probe
    <3>2. CASE ~(i >= j)
      <4> DEFINE h == (i + j) \div 2
      <4>1. h \in D /\ h + 1 \in D
        BY <1>1, <2>3, <3>2
      <4>2. Probe(list, ts, g, i, j) \in {g[<<h + 1, j>>], g[<<i, h>>]}
        BY <3>2 DEF Probe
      <4> HIDE DEF h
      <4> QED
        BY <4>1, <4>2
    <3> QED
      BY <3>1, <3>2
  <2>5. f \in [D \X D -> D]
    BY <2>4
  <2>6. \A i, j \in D : j - i <= d => f[<<i, j>>] = g[<<i, j>>]
    BY <2>1, <2>2
  <2>7. Does(f, d + 1)
    <3> SUFFICES ASSUME NEW i \in D, NEW j \in D, j - i <= d + 1
                 PROVE  f[<<i, j>>] = Probe(list, ts, f, i, j)
      OBVIOUS
    <3> HIDE DEF f, Does
    <3>1. CASE i >= j
      BY <2>2, <3>1 DEF Probe
    <3>2. CASE ~(i >= j)
      <4> DEFINE h == (i + j) \div 2
      <4>1. i < j /\ i \in Int /\ j \in Int
        BY <1>1, <3>2
      <4>2. h \in D /\ h + 1 \in D /\ i <= h /\ h < j
        BY <4>1, <2>3
      <4> HIDE DEF h
      <4>3. h - i <= d /\ j - (h + 1) <= d
        BY <4>1, <4>2, <1>1
      <4>4. f[<<i, h>>] = g[<<i, h>>] /\ f[<<h + 1, j>>] = g[<<h + 1, j>>]
        BY <2>6, <4>2, <4>3
      <4> QED
        BY <2>2, <4>4, <3>2 DEF Probe, h
    <3> QED
      BY <3>1, <3>2
  <2> HIDE DEF f, Does
  <2> QED
    BY <2>5, <2>7
<1>4. n \in S
  <2> HIDE DEF S, n
  <2>1. 0..n \subseteq S
    BY <1>1, <1>2, <1>3, UpTo
  <2> QED
    BY <1>1, <2>1
<1>5. PICK g \in [D \X D -> D] : Does(g, n)
  BY <1>4
<1>6. \A i, j \in D : g[<<i, j>>] = Probe(list, ts, g, i, j)
  <2>1. \A i, j \in D : j - i <= n
    BY <1>1
  <2> QED
    BY <1>5, <2>1
<1>7. g = [p \in D \X D |-> Probe(list, ts, g, p[1], p[2])]
  BY <1>6
<1> QED
  BY <1>7

\* Where the search ends: in an ascending list, in front of the first candle that is not older.
LEMMA SearchFinds ==
  ASSUME NEW list \in Seq(Candle), NEW ts \in Nat
  PROVE  /\ Search(list, ts) \in 1..(Len(list) + 1)
         /\ Ascending(list) => \A k \in DOMAIN list : list[k].ts < ts <=> k < Search(list, ts)
<1> DEFINE n == Len(list)
           D == 0..n
           Is(find) == find = [p \in D \X D |-> Probe(list, ts, find, p[1], p[2])]
           find == CHOOSE find : Is(find)
<1>1. n \in Nat /\ DOMAIN list = 1..n /\ \A k \in 1..n : list[k].ts \in Nat
  <2>1. \A c \in Candle : c.ts \in Nat
    BY FeedAssumption DEF Candle, Windows
  <2> QED
    BY <2>1
<1>2. Is(find)
  <2>1. \E f : Is(f)
    BY SearchEnds
  <2> HIDE DEF Is
  <2> QED
    BY <2>1
<1>3. Search(list, ts) = find[<<0, n>>] + 1
  BY DEF Search, Probe
<1> HIDE DEF find
<1>4. \A i, j \in D : find[<<i, j>>] = Probe(list, ts, find, i, j)
  BY <1>2
<1> DEFINE Between(i, j) == (\A k \in 1..i : list[k].ts < ts) /\ \A k \in (j + 1)..n : ~(list[k].ts < ts)
           Ends(i, j) == /\ find[<<i, j>>] \in i..j
                         /\ Ascending(list) /\ Between(i, j) => Between(find[<<i, j>>], find[<<i, j>>])
           Good(d) == \A i, j \in D : i <= j /\ j - i <= d => Ends(i, j)
           S == {d \in Nat : Good(d)}
<1>5. \A i, j \in D : i = j => Ends(i, j)
  <2> SUFFICES ASSUME NEW i \in D PROVE Ends(i, i)
    OBVIOUS
  <2>1. find[<<i, i>>] = i /\ i \in i..i
    <3>1. i \in Nat
      BY <1>1
    <3>2. Probe(list, ts, find, i, i) = i
      BY <3>1 DEF Probe
    <3>3. find[<<i, i>>] = Probe(list, ts, find, i, i)
      BY <1>4
    <3> QED
      BY <3>1, <3>2, <3>3
  <2> QED
    BY <2>1
<1>6. 0 \in S
  <2> HIDE DEF Ends
  <2>1. \A i, j \in D : i <= j /\ j - i <= 0 => i = j
    BY <1>1
  <2> QED
    BY <1>5, <2>1
<1>7. ASSUME NEW d \in Nat, d \in S PROVE d + 1 \in S
  <2>1. Good(d)
    BY <1>7
  <2> SUFFICES ASSUME NEW i \in D, NEW j \in D, i <= j, j - i <= d + 1 PROVE Ends(i, j)
    <3> HIDE DEF Ends
    <3> QED
      BY <1>7
  <2>2. CASE i = j
    <3> HIDE DEF Ends
    <3> QED
      BY <1>5, <2>2
  <2>3. CASE i < j
    <3> DEFINE h == (i + j) \div 2
    <3>1. i \in Nat /\ j \in Nat /\ j <= n
      BY <1>1
    <3>2. h \in Nat /\ i <= h /\ h < j
      BY <2>3, <3>1, Halves
    <3>3. find[<<i, j>>] = IF list[h + 1].ts < ts THEN find[<<h + 1, j>>] ELSE find[<<i, h>>]
      BY <1>4, <2>3, <3>1 DEF Probe
    <3> HIDE DEF h
    <3>4. h + 1 \in 1..n /\ h \in D /\ h + 1 \in D
      BY <1>1, <3>1, <3>2
    <3>5. CASE list[h + 1].ts < ts
      <4>1. h + 1 <= j /\ j - (h + 1) <= d
        BY <3>1, <3>2
      <4>2. /\ find[<<h + 1, j>>] \in (h + 1)..j
            /\ Ascending(list) /\ Between(h + 1, j) => Between(find[<<h + 1, j>>], find[<<h + 1, j>>])
        BY <2>1, <3>4, <4>1
      <4>3. find[<<i, j>>] = find[<<h + 1, j>>]
        BY <3>3, <3>5
      <4>4. find[<<i, j>>] \in i..j
        BY <3>1, <3>2, <4>2, <4>3
      <4>5. ASSUME Ascending(list), Between(i, j) PROVE Between(h + 1, j)
        <5> SUFFICES ASSUME NEW k \in 1..(h + 1) PROVE list[k].ts < ts
          BY <4>5
        <5>1. CASE k = h + 1
          BY <5>1, <3>5
        <5>2. CASE k # h + 1
          <6>1. k \in DOMAIN list /\ h + 1 \in DOMAIN list /\ k < h + 1
            BY <5>2, <3>2, <3>4, <1>1
          <6>2. list[k].ts < list[h + 1].ts
            BY <6>1, <4>5 DEF Ascending
          <6> QED
            BY <6>1, <6>2, <3>5, <1>1
        <5> QED
          BY <5>1, <5>2
      <4> QED
        BY <4>2, <4>3, <4>4, <4>5
    <3>6. CASE ~(list[h + 1].ts < ts)
      <4>1. h - i <= d
        BY <3>1, <3>2
      <4>2. /\ find[<<i, h>>] \in i..h
            /\ Ascending(list) /\ Between(i, h) => Between(find[<<i, h>>], find[<<i, h>>])
        BY <2>1, <3>4, <3>2, <4>1
      <4>3. find[<<i, j>>] = find[<<i, h>>]
        BY <3>3, <3>6
      <4>4. find[<<i, j>>] \in i..j
        BY <3>1, <3>2, <4>2, <4>3
      <4>5. ASSUME Ascending(list), Between(i, j) PROVE Between(i, h)
        <5> SUFFICES ASSUME NEW k \in (h + 1)..n PROVE ~(list[k].ts < ts)
          BY <4>5
        <5>1. CASE k = h + 1
          BY <5>1, <3>6
        <5>2. CASE k # h + 1
          <6>1. k \in DOMAIN list /\ h + 1 \in DOMAIN list /\ h + 1 < k
            BY <5>2, <3>2, <3>4, <1>1
          <6>2. list[h + 1].ts < list[k].ts
            BY <6>1, <4>5 DEF Ascending
          <6> QED
            BY <6>1, <6>2, <3>6, <1>1
        <5> QED
          BY <5>1, <5>2
      <4> QED
        BY <4>2, <4>3, <4>4, <4>5
    <3> QED
      BY <3>5, <3>6
  <2> HIDE DEF Ends, n, D
  <2>4. i \in Nat /\ j \in Nat
    BY <1>1 DEF n, D
  <2> QED
    BY <2>2, <2>3, <2>4
<1>8. n \in S
  <2> HIDE DEF Good
  <2>1. \A d \in 0..(n - 1) : d \in S => d + 1 \in S
    BY <1>1, <1>7
  <2> HIDE DEF S, n
  <2>2. 0..n \subseteq S
    BY <1>1, <1>6, <2>1, UpTo
  <2> QED
    BY <1>1, <2>2
<1>9. Ends(0, n)
  <2> HIDE DEF Ends
  <2>1. Good(n) /\ 0 \in D /\ n \in D /\ n - 0 <= n /\ 0 <= n
    BY <1>1, <1>8
  <2> QED
    BY <2>1
<1> DEFINE r == find[<<0, n>>]
<1>10. /\ r \in 0..n
       /\ Ascending(list) /\ Between(0, n) => Between(r, r)
  BY <1>9
<1>11. Between(0, n)
  BY <1>1
<1> HIDE DEF r
<1>12. Search(list, ts) = r + 1
  BY <1>3 DEF r
<1>13. ASSUME Ascending(list), NEW k \in 1..n PROVE list[k].ts < ts <=> k < r + 1
  <2>1. Between(r, r)
    BY <1>10, <1>11, <1>13
  <2>2. k \in 1..r \/ k \in (r + 1)..n
    BY <1>1, <1>10
  <2> QED
    BY <2>1, <2>2, <1>1, <1>10
<1> QED
  BY <1>1, <1>10, <1>12, <1>13

-----------------------------------------------------------------------------
(* Merging one candle *)

LEMMA CandleTimes == \A c \in Candle : c.ts \in Windows /\ c.ts \in Nat
BY FeedAssumption DEF Candle, Windows

LEMMA Inserted ==
  ASSUME NEW list \in Seq(Candle), NEW k \in Candle, NEW i \in 1..(Len(list) + 1)
  PROVE  /\ InsertAt(list, i, k) \in Seq(Candle) /\ Len(InsertAt(list, i, k)) = Len(list) + 1
         /\ \A j \in 1..(Len(list) + 1) :
              InsertAt(list, i, k)[j] = IF j < i THEN list[j] ELSE IF j = i THEN k ELSE list[j - 1]
<1> DEFINE n == Len(list)
           a == SubSeq(list, 1, i - 1)
           b == SubSeq(list, i, n)
<1>1. n \in Nat /\ i \in Nat /\ 1 <= i /\ i <= n + 1
  OBVIOUS
<1>2. a \in Seq(Candle) /\ Len(a) = i - 1 /\ \A j \in 1..(i - 1) : a[j] = list[j]
  BY <1>1
<1>3. b \in Seq(Candle) /\ Len(b) = n - i + 1 /\ \A j \in 1..(n - i + 1) : b[j] = list[i + j - 1]
  BY <1>1
<1> HIDE DEF a, b
<1> DEFINE c == a \o <<k>>
<1>4. c \in Seq(Candle) /\ Len(c) = i /\ c[i] = k /\ \A j \in 1..(i - 1) : c[j] = list[j]
  BY <1>1, <1>2
<1> HIDE DEF c
<1>5. InsertAt(list, i, k) = c \o b
  BY DEF InsertAt, a, b, c
<1>6. c \o b \in Seq(Candle) /\ Len(c \o b) = n + 1
  BY <1>1, <1>3, <1>4
<1>7. ASSUME NEW j \in 1..(n + 1)
      PROVE  (c \o b)[j] = IF j < i THEN list[j] ELSE IF j = i THEN k ELSE list[j - 1]
  <2>1. CASE j <= i
    <3>1. (c \o b)[j] = c[j]
      BY <1>1, <1>3, <1>4, <2>1
    <3> QED
      BY <3>1, <1>1, <1>4, <2>1
  <2>2. CASE j > i
    <3>1. (c \o b)[j] = b[j - i]
      BY <1>1, <1>3, <1>4, <2>2
    <3>2. j - i \in 1..(n - i + 1) /\ i + (j - i) - 1 = j - 1
      BY <1>1, <2>2
    <3> QED
      BY <3>1, <3>2, <1>1, <1>3, <2>2
  <2>3. j <= i \/ j > i
    BY <1>1
  <2> QED
    BY <2>1, <2>2, <2>3, Zenon
<1> QED
  BY <1>5, <1>6, <1>7

\* A merge replaces the window's candle or puts it in its place.
LEMMA MergedOne ==
  ASSUME NEW list \in Seq(Candle), NEW k \in Candle
  PROVE  /\ mergeKline(list, k) \in Seq(Candle)
         /\ Ascending(list) =>
              /\ Ascending(mergeKline(list, k))
              /\ ToSet(mergeKline(list, k)) = {k} \cup {c \in ToSet(list) : c.ts # k.ts}
<1> DEFINE n == Len(list)
           i == Search(list, k.ts)
           m == mergeKline(list, k)
<1>1. /\ n \in Nat /\ DOMAIN list = 1..n /\ k.ts \in Nat /\ \A j \in 1..n : list[j] \in Candle /\ list[j].ts \in Nat
  BY CandleTimes
<1>2. /\ i \in 1..(n + 1)
      /\ Ascending(list) => \A j \in 1..n : list[j].ts < k.ts <=> j < i
  BY <1>1, SearchFinds
<1>3. m = IF i <= n /\ list[i].ts = k.ts THEN [list EXCEPT ![i] = k] ELSE InsertAt(list, i, k)
  BY DEF mergeKline
<1> HIDE DEF i, m
<1>4. CASE i <= n /\ list[i].ts = k.ts
  <2>1. m \in Seq(Candle) /\ DOMAIN m = 1..n /\ i \in 1..n /\ \A j \in 1..n : m[j] = IF j = i THEN k ELSE list[j]
    BY <1>1, <1>2, <1>3, <1>4
  <2>2. ASSUME Ascending(list) PROVE Ascending(m) /\ ToSet(m) = {k} \cup {c \in ToSet(list) : c.ts # k.ts}
    <3>1. \A j \in 1..n : m[j].ts = list[j].ts
      BY <1>4, <2>1
    <3>2. Ascending(m)
      BY <2>1, <2>2, <3>1, <1>1 DEF Ascending
    <3>3. \A j \in 1..n : j # i => list[j].ts # k.ts
      BY <2>1, <2>2, <1>1, <1>4 DEF Ascending
    <3>4. ToSet(m) \subseteq {k} \cup {c \in ToSet(list) : c.ts # k.ts}
      BY <2>1, <3>3, <1>1 DEF ToSet
    <3>5. {k} \cup {c \in ToSet(list) : c.ts # k.ts} \subseteq ToSet(m)
      BY <2>1, <1>1, <1>4 DEF ToSet
    <3> QED
      BY <3>2, <3>4, <3>5
  <2> QED
    BY <2>1, <2>2 DEF m
<1>5. CASE ~(i <= n /\ list[i].ts = k.ts)
  <2>1. /\ m \in Seq(Candle) /\ DOMAIN m = 1..(n + 1)
        /\ \A j \in 1..(n + 1) : m[j] = IF j < i THEN list[j] ELSE IF j = i THEN k ELSE list[j - 1]
    <3>1. m = InsertAt(list, i, k) /\ i \in 1..(n + 1)
      BY <1>2, <1>3, <1>5
    <3>2. /\ InsertAt(list, i, k) \in Seq(Candle) /\ Len(InsertAt(list, i, k)) = n + 1
          /\ \A j \in 1..(n + 1) :
               InsertAt(list, i, k)[j] = IF j < i THEN list[j] ELSE IF j = i THEN k ELSE list[j - 1]
      BY <3>1, Inserted, SMTT(30)
    <3>3. DOMAIN m = 1..(n + 1)
      BY <1>1, <3>1, <3>2
    <3> QED
      BY <3>1, <3>2, <3>3
  <2>2. ASSUME Ascending(list) PROVE Ascending(m) /\ ToSet(m) = {k} \cup {c \in ToSet(list) : c.ts # k.ts}
    <3>1. \A j \in 1..n : j < i => list[j].ts < k.ts
      BY <1>2, <2>2
    <3>2. \A j \in 1..n : j >= i => list[j].ts > k.ts
      <4> TAKE j \in 1..n
      <4> HAVE j >= i
      <4>1. i \in 1..n /\ list[i].ts # k.ts /\ ~(list[i].ts < k.ts)
        BY <1>1, <1>2, <1>5, <2>2
      <4>2. list[i].ts > k.ts
        BY <4>1, <1>1
      <4>3. j = i \/ list[i].ts < list[j].ts
        BY <4>1, <2>2, <1>1 DEF Ascending
      <4> QED
        BY <4>1, <4>2, <4>3, <1>1
    <3>3. Ascending(m)
      <4> SUFFICES ASSUME NEW p \in 1..(n + 1), NEW q \in 1..(n + 1), p < q PROVE m[p].ts < m[q].ts
        BY <2>1 DEF Ascending
      <4>1. p \in Nat /\ q \in Nat /\ i \in Nat
        BY <1>1, <1>2
      <4>2. CASE q < i
        <5>1. p \in 1..n /\ q \in 1..n /\ m[p] = list[p] /\ m[q] = list[q]
          BY <4>1, <4>2, <1>1, <1>2, <2>1
        <5> QED
          BY <5>1, <2>2, <1>1 DEF Ascending
      <4>3. CASE q = i
        <5>1. p \in 1..n /\ m[p] = list[p] /\ m[q] = k
          BY <4>1, <4>3, <1>1, <1>2, <2>1
        <5> QED
          BY <5>1, <3>1, <4>3
      <4>4. CASE q > i /\ p < i
        <5>1. p \in 1..n /\ q - 1 \in 1..n /\ m[p] = list[p] /\ m[q] = list[q - 1] /\ p < q - 1
          BY <4>1, <4>4, <1>1, <1>2, <2>1
        <5> QED
          BY <5>1, <2>2, <1>1 DEF Ascending
      <4>5. CASE q > i /\ p = i
        <5>1. q - 1 \in 1..n /\ m[p] = k /\ m[q] = list[q - 1] /\ q - 1 >= i
          BY <4>1, <4>5, <1>1, <1>2, <2>1
        <5>2. list[q - 1].ts > k.ts /\ list[q - 1].ts \in Nat
          BY <5>1, <3>2, <1>1
        <5> QED
          BY <5>1, <5>2, <1>1
      <4>6. CASE q > i /\ p > i
        <5>1. p - 1 \in 1..n /\ q - 1 \in 1..n /\ m[p] = list[p - 1] /\ m[q] = list[q - 1] /\ p - 1 < q - 1
          BY <4>1, <4>6, <1>1, <1>2, <2>1
        <5> QED
          BY <5>1, <2>2, <1>1 DEF Ascending
      <4> QED
        BY <4>1, <4>2, <4>3, <4>4, <4>5, <4>6
    <3>4. ASSUME NEW j \in 1..(n + 1) PROVE m[j] \in {k} \cup {c \in ToSet(list) : c.ts # k.ts}
      <4>1. CASE j < i
        <5>1. j \in 1..n /\ m[j] = list[j]
          BY <4>1, <1>1, <1>2, <2>1
        <5>2. m[j].ts # k.ts /\ m[j] \in ToSet(list)
          BY <5>1, <4>1, <3>1, <1>1 DEF ToSet
        <5> QED
          BY <5>2
      <4>2. CASE j = i
        BY <4>2, <2>1
      <4>3. CASE j > i
        <5>1. j - 1 \in 1..n /\ m[j] = list[j - 1] /\ j - 1 >= i
          BY <4>3, <1>1, <1>2, <2>1
        <5>2. m[j].ts # k.ts /\ m[j] \in ToSet(list)
          BY <5>1, <3>2, <1>1 DEF ToSet
        <5> QED
          BY <5>2
      <4> QED
        BY <4>1, <4>2, <4>3, <1>2
    <3>5. ASSUME NEW j \in 1..n PROVE list[j] \in ToSet(m)
      <4>1. CASE j < i
        <5>1. j \in DOMAIN m /\ m[j] = list[j]
          BY <4>1, <1>1, <1>2, <2>1
        <5> QED
          BY <5>1 DEF ToSet
      <4>2. CASE ~(j < i)
        <5>1. j + 1 \in DOMAIN m /\ m[j + 1] = list[(j + 1) - 1] /\ (j + 1) - 1 = j
          BY <4>2, <1>1, <1>2, <2>1
        <5>2. m[j + 1] = list[j]
          BY <5>1
        <5> QED
          BY <5>1, <5>2, Zenon DEF ToSet
      <4> QED
        BY <4>1, <4>2
    <3>6. k \in ToSet(m)
      <4>1. i \in DOMAIN m /\ m[i] = k
        BY <1>1, <1>2, <2>1
      <4> QED
        BY <4>1 DEF ToSet
    <3>7. ToSet(m) \subseteq {k} \cup {c \in ToSet(list) : c.ts # k.ts}
      BY <2>1, <3>4 DEF ToSet
    <3>8. \A c \in ToSet(list) : c \in ToSet(m)
      BY <3>5, <1>1 DEF ToSet
    <3> QED
      BY <3>3, <3>6, <3>7, <3>8
  <2> QED
    BY <2>1, <2>2 DEF m
<1> QED
  BY <1>4, <1>5

-----------------------------------------------------------------------------
(* Merging all candles of an answer *)

LEMMA LargestOf ==
  ASSUME NEW n \in Nat, NEW s \in SUBSET (1..n), s # {}
  PROVE  Max(s) \in s
<1> SUFFICES ASSUME \A x \in s : \E y \in s : ~(x >= y) PROVE FALSE
  BY DEF Max
<1> DEFINE S == {m \in Nat : \E y \in s : y >= m}
<1>1. 0 \in S
  <2>1. PICK y \in s : TRUE
    OBVIOUS
  <2>2. y >= 0
    OBVIOUS
  <2> QED
    BY <2>2
<1>2. ASSUME NEW m \in Nat, m \in S PROVE m + 1 \in S
  <2>1. PICK y \in s : y >= m
    BY <1>2
  <2>2. PICK z \in s : ~(y >= z)
    OBVIOUS
  <2>3. y \in Nat /\ z \in Nat
    OBVIOUS
  <2>4. z >= m + 1
    BY <2>1, <2>2, <2>3
  <2> QED
    BY <2>4
<1>3. n + 1 \in S
  <2> HIDE DEF S
  <2>1. 0..(n + 1) \subseteq S
    BY <1>1, <1>2, UpTo
  <2> QED
    BY <2>1
<1> QED
  BY <1>3

\* One turn of the fold, for the first candles of an answer.
MergeTurn(list, bars, merged, s) ==
  IF s = {} THEN list ELSE mergeKline(merged[s \ {Max(s)}], bars[Max(s)])

LEMMA FoldEnds ==
  ASSUME NEW list, NEW bars \in Seq(Candle)
  PROVE  \E merged : merged = [s \in SUBSET DOMAIN bars |-> MergeTurn(list, bars, merged, s)]
<1> DEFINE n == Len(bars)
           P == SUBSET DOMAIN bars
           Does(g, d) == \A s \in P : Cardinality(s) <= d => g[s] = MergeTurn(list, bars, g, s)
           S == {d \in Nat : \E g : g = [s \in P |-> g[s]] /\ Does(g, d)}
<1>1. n \in Nat /\ DOMAIN bars = 1..n
  OBVIOUS
<1>2. \A s \in P : IsFiniteSet(s) /\ Cardinality(s) \in 0..n
  <2> TAKE s \in P
  <2>1. IsFiniteSet(1..n) /\ Cardinality(1..n) = n
    <3> HIDE DEF n
    <3> QED
      BY <1>1, FS_Interval
  <2>2. IsFiniteSet(s) /\ Cardinality(s) <= n
    BY <1>1, <2>1, FS_Subset
  <2> QED
    BY <1>1, <2>2, FS_CardinalityType
<1>3. 0 \in S
  <2> DEFINE g == [s \in P |-> list]
  <2>1. g = [s \in P |-> g[s]]
    OBVIOUS
  <2>2. \A s \in P : Cardinality(s) <= 0 => s = {}
    BY <1>2, FS_EmptySet
  <2>3. Does(g, 0)
    BY <2>2 DEF MergeTurn
  <2> HIDE DEF g, Does
  <2> QED
    BY <2>1, <2>3
<1>4. ASSUME NEW d \in Nat, d \in S PROVE d + 1 \in S
  <2>1. PICK g : g = [s \in P |-> g[s]] /\ Does(g, d)
    BY <1>4
  <2> DEFINE f == [s \in P |-> MergeTurn(list, bars, g, s)]
  <2>2. f = [s \in P |-> f[s]] /\ \A s \in P : f[s] = MergeTurn(list, bars, g, s)
    OBVIOUS
  <2>3. \A s \in P : Cardinality(s) <= d => f[s] = g[s]
    BY <2>1, <2>2
  <2>4. ASSUME NEW s \in P, Cardinality(s) <= d + 1 PROVE f[s] = MergeTurn(list, bars, f, s)
    <3> HIDE DEF f, Does
    <3>1. CASE s = {}
      BY <2>2, <3>1 DEF MergeTurn
    <3>2. CASE s # {}
      <4> DEFINE x == Max(s)
      <4>1. x \in s
        BY <1>1, <3>2, LargestOf
      <4> HIDE DEF x
      <4>2. s \ {x} \in P /\ Cardinality(s \ {x}) = Cardinality(s) - 1
        BY <1>2, <4>1, FS_RemoveElement
      <4>3. Cardinality(s \ {x}) <= d
        BY <1>1, <1>2, <2>4, <4>2
      <4>4. f[s \ {x}] = g[s \ {x}]
        BY <2>3, <4>2, <4>3
      <4> QED
        BY <2>2, <3>2, <4>4 DEF MergeTurn, x
    <3> QED
      BY <3>1, <3>2
  <2>5. Does(f, d + 1)
    BY <2>4
  <2> HIDE DEF f, Does
  <2> QED
    BY <2>2, <2>5
<1>5. n \in S
  <2> HIDE DEF S, n
  <2>1. 0..n \subseteq S
    BY <1>1, <1>3, <1>4, UpTo
  <2> QED
    BY <1>1, <2>1
<1>6. PICK g : g = [s \in P |-> g[s]] /\ Does(g, n)
  BY <1>5
<1>7. \A s \in P : g[s] = MergeTurn(list, bars, g, s)
  <2>1. \A s \in P : Cardinality(s) <= n
    BY <1>1, <1>2
  <2> QED
    BY <1>6, <2>1
<1>8. g = [s \in P |-> MergeTurn(list, bars, g, s)]
  BY <1>6, <1>7
<1> QED
  BY <1>8

\* After the merges an ascending history has the answer's candles, and its own of other windows.
LEMMA MergedAll ==
  ASSUME NEW list \in Seq(Candle), NEW bars \in Seq(Candle)
  PROVE  /\ FoldLeft(mergeKline, list, bars) \in Seq(Candle)
         /\ Ascending(list) /\ Ascending(bars) =>
              /\ Ascending(FoldLeft(mergeKline, list, bars))
              /\ ToSet(FoldLeft(mergeKline, list, bars)) =
                   ToSet(bars) \cup {c \in ToSet(list) : \A k \in ToSet(bars) : c.ts # k.ts}
<1> DEFINE n == Len(bars)
           P == SUBSET DOMAIN bars
           Is(merged) == merged = [s \in P |-> MergeTurn(list, bars, merged, s)]
           merged == CHOOSE merged : Is(merged)
<1>1. n \in Nat /\ DOMAIN bars = 1..n /\ \A i \in 1..n : bars[i] \in Candle /\ bars[i].ts \in Nat
  BY CandleTimes
<1>2. Is(merged)
  <2>1. \E f : Is(f)
    BY FoldEnds
  <2> HIDE DEF Is
  <2> QED
    BY <2>1
<1>3. FoldLeft(mergeKline, list, bars) = merged[1..n]
  BY <1>1 DEF FoldLeft, MapThenFoldSet, MergeTurn
<1> HIDE DEF merged
<1>4. \A s \in P : merged[s] = MergeTurn(list, bars, merged, s)
  BY <1>2
<1> DEFINE Upon(m) == {bars[i] : i \in 1..m}
           Done(m) == /\ merged[1..m] \in Seq(Candle)
                      /\ Ascending(list) /\ Ascending(bars) =>
                           /\ Ascending(merged[1..m])
                           /\ ToSet(merged[1..m]) = Upon(m) \cup {c \in ToSet(list) : \A k \in Upon(m) : c.ts # k.ts}
           S == {m \in Nat : m <= n => Done(m)}
<1>5. 0 \in S
  <2>1. 1..0 = {} /\ Upon(0) = {}
    OBVIOUS
  <2>2. merged[1..0] = list
    BY <1>4, <2>1 DEF MergeTurn
  <2>3. Done(0)
    BY <2>1, <2>2
  <2> HIDE DEF Done
  <2> QED
    BY <2>3
<1>6. ASSUME NEW m \in Nat, m \in S PROVE m + 1 \in S
  <2> SUFFICES ASSUME m + 1 <= n PROVE Done(m + 1)
    <3> HIDE DEF Done
    <3> QED
      OBVIOUS
  <2>1. Done(m)
    <3> HIDE DEF Done
    <3> QED
      BY <1>1, <1>6
  <2> DEFINE before == merged[1..m]
             k == bars[m + 1]
  <2>2. merged[1..(m + 1)] = mergeKline(before, k)
    <3>1. Max(1..(m + 1)) = m + 1
      <4>1. m + 1 \in 1..(m + 1) /\ \A y \in 1..(m + 1) : m + 1 >= y
        OBVIOUS
      <4>2. \A x \in 1..(m + 1) : x >= m + 1 => x = m + 1
        OBVIOUS
      <4> QED
        BY <4>1, <4>2 DEF Max
    <3>2. 1..(m + 1) # {} /\ (1..(m + 1)) \ {m + 1} = 1..m
      <4>1. \A i \in (1..(m + 1)) \ {m + 1} : i \in 1..m
        OBVIOUS
      <4>2. \A i \in 1..m : i \in (1..(m + 1)) \ {m + 1}
        OBVIOUS
      <4>3. m + 1 \in 1..(m + 1)
        OBVIOUS
      <4> QED
        BY <4>1, <4>2, <4>3, Zenon
    <3>3. 1..(m + 1) \in P
      <4>1. 1..(m + 1) \subseteq 1..n
        BY <1>1
      <4> QED
        BY <1>1, <4>1
    <3> QED
      BY <1>4, <3>1, <3>2, <3>3 DEF MergeTurn
  <2>3. k \in Candle /\ before \in Seq(Candle)
    BY <1>1, <2>1
  <2>4. Upon(m + 1) = Upon(m) \cup {k}
    <3>1. \A i \in 1..(m + 1) : i \in 1..m \/ i = m + 1
      OBVIOUS
    <3>2. \A i \in 1..m : i \in 1..(m + 1)
      OBVIOUS
    <3>3. m + 1 \in 1..(m + 1)
      OBVIOUS
    <3> QED
      BY <3>1, <3>2, <3>3
  <2>5. /\ merged[1..(m + 1)] \in Seq(Candle)
        /\ Ascending(before) => /\ Ascending(merged[1..(m + 1)])
                                /\ ToSet(merged[1..(m + 1)]) = {k} \cup {c \in ToSet(before) : c.ts # k.ts}
    BY <2>2, <2>3, MergedOne
  <2>6. ASSUME Ascending(list), Ascending(bars)
        PROVE  /\ Ascending(merged[1..(m + 1)])
               /\ ToSet(merged[1..(m + 1)]) =
                    Upon(m + 1) \cup {c \in ToSet(list) : \A b \in Upon(m + 1) : c.ts # b.ts}
    <3>1. ToSet(before) = Upon(m) \cup {c \in ToSet(list) : \A b \in Upon(m) : c.ts # b.ts}
      BY <2>1, <2>6
    <3>2. \A b \in Upon(m) : b.ts # k.ts
      <4> SUFFICES ASSUME NEW i \in 1..m PROVE bars[i].ts # k.ts
        OBVIOUS
      <4>1. i \in 1..n /\ m + 1 \in 1..n /\ i < m + 1
        BY <1>1
      <4>2. bars[i].ts < bars[m + 1].ts
        BY <4>1, <1>1, <2>6 DEF Ascending
      <4> QED
        BY <4>1, <4>2, <1>1
    <3>3. ToSet(merged[1..(m + 1)]) = {k} \cup {c \in ToSet(before) : c.ts # k.ts}
      BY <2>1, <2>5, <2>6
    <3> HIDE DEF Upon, before, k
    <3>4. ToSet(merged[1..(m + 1)]) = Upon(m + 1) \cup {c \in ToSet(list) : \A b \in Upon(m + 1) : c.ts # b.ts}
      BY <3>1, <3>2, <3>3, <2>4
    <3> QED
      BY <3>4, <2>1, <2>5, <2>6 DEF before
  <2> QED
    BY <2>5, <2>6
<1>7. n \in S
  <2> HIDE DEF Done
  <2>1. \A m \in 0..(n - 1) : m \in S => m + 1 \in S
    BY <1>1, <1>6
  <2> HIDE DEF S, n
  <2>2. 0..n \subseteq S
    BY <1>1, <1>5, <2>1, UpTo
  <2> QED
    BY <1>1, <2>2
<1>8. Done(n)
  <2> HIDE DEF Done
  <2> QED
    BY <1>1, <1>7
<1>9. Upon(n) = ToSet(bars)
  BY <1>1 DEF ToSet
<1> QED
  BY <1>3, <1>8, <1>9

-----------------------------------------------------------------------------
(* Sorting and trimming *)

\* Each candle has one place, whichever of one window's candles come first.
LEMMA PlacesAreTaken ==
  ASSUME NEW list \in Seq(Candle), NEW final \in BOOLEAN
  PROVE  /\ \A i \in DOMAIN list : Place(list, final, i) \in DOMAIN list
         /\ \A n \in DOMAIN list : \E i \in DOMAIN list : Place(list, final, i) = n
<1> DEFINE n == Len(list)
           D == 1..n
           Before(i) == {j \in D : SortedBefore(list, final, j, i)}
<1>1. n \in Nat /\ DOMAIN list = D /\ \A i \in D : i \in Nat /\ list[i].ts \in Nat
  BY CandleTimes
<1>2. IsFiniteSet(D) /\ Cardinality(D) = n
  <2> HIDE DEF n
  <2> QED
    BY <1>1, FS_Interval
<1>3. \A i \in D : ~SortedBefore(list, final, i, i)
  BY <1>1 DEF SortedBefore
<1>4. \A i, j \in D : i # j => SortedBefore(list, final, i, j) \/ SortedBefore(list, final, j, i)
  <2> SUFFICES ASSUME NEW i \in D, NEW j \in D, i # j, ~SortedBefore(list, final, i, j)
               PROVE  SortedBefore(list, final, j, i)
    OBVIOUS
  <2>1. list[i] \in Candle /\ list[j] \in Candle /\ i \in Nat /\ j \in Nat
    BY <1>1
  <2>2. CASE list[i].ts # list[j].ts
    BY <2>2, <1>1 DEF SortedBefore
  <2>3. CASE list[i].ts = list[j].ts /\ list[i].final = list[j].final
    <3>1. list[i] = list[j]
      BY <2>1, <2>3 DEF Candle
    <3> QED
      BY <2>1, <3>1 DEF SortedBefore
  <2>4. CASE list[i].ts = list[j].ts /\ list[i].final # list[j].final
    <3>1. list[i].final \in BOOLEAN /\ list[j].final \in BOOLEAN
      BY <2>1 DEF Candle
    <3>2. (list[i].final = final /\ list[j].final # final) \/ (list[j].final = final /\ list[i].final # final)
      BY <3>1, <2>4
    <3> QED
      BY <2>4, <3>2 DEF SortedBefore
  <2> QED
    BY <2>2, <2>3, <2>4
<1>5. \A i, j, k \in D : SortedBefore(list, final, i, j) /\ SortedBefore(list, final, j, k)
                         => SortedBefore(list, final, i, k)
  <2> SUFFICES ASSUME NEW i \in D, NEW j \in D, NEW k \in D,
                      SortedBefore(list, final, i, j), SortedBefore(list, final, j, k)
               PROVE  SortedBefore(list, final, i, k)
    OBVIOUS
  <2>1. i \in Nat /\ j \in Nat /\ k \in Nat /\ list[i].ts \in Nat /\ list[j].ts \in Nat /\ list[k].ts \in Nat
    BY <1>1
  <2>2. CASE list[i].ts < list[j].ts \/ list[j].ts < list[k].ts
    <3>1. list[i].ts <= list[j].ts /\ list[j].ts <= list[k].ts
      BY <2>1 DEF SortedBefore
    <3>2. list[i].ts < list[k].ts
      BY <2>1, <2>2, <3>1
    <3> QED
      BY <3>2 DEF SortedBefore
  <2>3. CASE ~(list[i].ts < list[j].ts) /\ ~(list[j].ts < list[k].ts)
    BY <2>1, <2>3 DEF SortedBefore
  <2> QED
    BY <2>2, <2>3
<1>6. \A i \in D : Place(list, final, i) = Cardinality(Before(i)) + 1
  BY <1>1 DEF Place
<1>7. ASSUME NEW i \in D PROVE IsFiniteSet(Before(i)) /\ Cardinality(Before(i)) \in 0..(n - 1)
  <2>1. Before(i) \subseteq D \ {i}
    BY <1>3
  <2>2. IsFiniteSet(D \ {i}) /\ Cardinality(D \ {i}) = n - 1
    BY <1>2, FS_RemoveElement, ZenonT(40)
  <2> HIDE DEF Before
  <2>3. IsFiniteSet(Before(i)) /\ Cardinality(Before(i)) <= n - 1
    BY <2>1, <2>2, FS_Subset
  <2> QED
    BY <1>1, <2>3, FS_CardinalityType
<1>8. ASSUME NEW i \in D, NEW k \in D, SortedBefore(list, final, i, k)
      PROVE  Place(list, final, i) < Place(list, final, k)
  <2>1. Before(i) \cup {i} \subseteq Before(k) /\ i \notin Before(i)
    BY <1>3, <1>5, <1>8
  <2> HIDE DEF Before
  <2>2. Cardinality(Before(i) \cup {i}) = Cardinality(Before(i)) + 1
    BY <1>7, <2>1, FS_AddElement
  <2>3. Cardinality(Before(i) \cup {i}) <= Cardinality(Before(k))
    BY <1>7, <2>1, FS_Subset
  <2> QED
    BY <1>1, <1>6, <1>7, <2>2, <2>3
<1> HIDE DEF Before
<1>9. \A i \in D : Place(list, final, i) \in D
  BY <1>1, <1>6, <1>7
<1> DEFINE f == [i \in D |-> Place(list, final, i)]
<1>10. f \in Injection(D, D)
  <2>1. \A i, k \in D : Place(list, final, i) = Place(list, final, k) => i = k
    <3> SUFFICES ASSUME NEW i \in D, NEW k \in D, i # k PROVE Place(list, final, i) # Place(list, final, k)
      OBVIOUS
    <3>1. Place(list, final, i) \in Int /\ Place(list, final, k) \in Int
      BY <1>9
    <3> QED
      BY <1>4, <1>8, <3>1
  <2> QED
    BY <1>9, <2>1 DEF Injection, IsInjective
<1>11. f \in Surjection(D, D)
  BY <1>2, <1>10, FS_Injection
<1>12. \A m \in D : \E i \in D : Place(list, final, i) = m
  BY <1>11 DEF Surjection
<1> QED
  BY <1>1, <1>9, <1>12

\* Sorting loses no candle, and changes nothing where the order is right.
LEMMA SortedIs ==
  ASSUME NEW list \in Seq(Candle), NEW sorted \in Sorted(list)
  PROVE  sorted \in Seq(Candle) /\ (Ascending(list) => sorted = list)
<1> DEFINE n == Len(list)
<1>1. n \in Nat /\ DOMAIN list = 1..n /\ \A i \in 1..n : list[i] \in Candle /\ list[i].ts \in Nat
  BY CandleTimes
<1>2. PICK final \in BOOLEAN :
        sorted = [m \in DOMAIN list |-> list[CHOOSE i \in DOMAIN list : Place(list, final, i) = m]]
  BY DEF Sorted
<1> DEFINE nth(m) == CHOOSE i \in DOMAIN list : Place(list, final, i) = m
<1>3. \A m \in 1..n : nth(m) \in 1..n /\ Place(list, final, nth(m)) = m
  <2>1. \A m \in DOMAIN list : \E i \in DOMAIN list : Place(list, final, i) = m
    BY PlacesAreTaken
  <2>2. \A m \in DOMAIN list : nth(m) \in DOMAIN list /\ Place(list, final, nth(m)) = m
    BY <2>1
  <2> QED
    BY <1>1, <2>2
<1>4. sorted = [m \in 1..n |-> list[nth(m)]]
  BY <1>1, <1>2
<1> HIDE DEF nth
<1>5. sorted \in Seq(Candle)
  BY <1>1, <1>3, <1>4
<1>6. ASSUME Ascending(list) PROVE sorted = list
  <2>1. \A i, j \in 1..n : SortedBefore(list, final, j, i) <=> j < i
    <3> SUFFICES ASSUME NEW i \in 1..n, NEW j \in 1..n PROVE SortedBefore(list, final, j, i) <=> j < i
      OBVIOUS
    <3>1. (i < j => list[i].ts < list[j].ts) /\ (j < i => list[j].ts < list[i].ts)
      BY <1>1, <1>6 DEF Ascending
    <3> QED
      BY <1>1, <3>1 DEF SortedBefore
  <2>2. \A i \in 1..n : Place(list, final, i) = i
    <3> SUFFICES ASSUME NEW i \in 1..n PROVE Place(list, final, i) = i
      OBVIOUS
    <3>1. {j \in DOMAIN list : SortedBefore(list, final, j, i)} = 1..(i - 1)
      <4>1. {j \in DOMAIN list : SortedBefore(list, final, j, i)} = {j \in 1..n : j < i}
        BY <1>1, <2>1
      <4>2. {j \in 1..n : j < i} = 1..(i - 1)
        BY <1>1
      <4> QED
        BY <4>1, <4>2
    <3>2. i - 1 \in Int /\ 1 \in Int /\ i >= 1
      BY <1>1
    <3>3. Cardinality(1..(i - 1)) = i - 1
      BY <3>2, FS_Interval
    <3> QED
      <4>1. Place(list, final, i) = Cardinality(1..(i - 1)) + 1
        BY <3>1 DEF Place
      <4> QED
        BY <3>2, <3>3, <4>1
  <2>3. \A m \in 1..n : nth(m) = m
    BY <1>3, <2>2
  <2>4. DOMAIN sorted = DOMAIN list /\ \A m \in DOMAIN list : sorted[m] = list[m]
    BY <1>1, <1>4, <2>3
  <2> QED
    BY <1>1, <1>4, <2>4
<1> QED
  BY <1>5, <1>6

LEMMA LargerOfTwo ==
  ASSUME NEW a \in Int, NEW b \in Int
  PROVE  Max({a, b}) = IF a >= b THEN a ELSE b
BY DEF Max

LEMMA Trimmed ==
  ASSUME NEW list \in Seq(Candle)
  PROVE  /\ trimList(list) \in Seq(Candle) /\ Len(trimList(list)) <= KlineHistMax
         /\ ToSet(trimList(list)) \subseteq ToSet(list)
         /\ Ascending(list) => Ascending(trimList(list))
<1> USE FeedAssumption
<1> DEFINE n == Len(list)
           first == Max({1, n - KlineHistMax + 1})
           r == trimList(list)
<1>1. n \in Nat /\ DOMAIN list = 1..n /\ KlineHistMax \in Nat \ {0}
  OBVIOUS
<1>2. first \in Nat /\ first >= 1 /\ first >= n - KlineHistMax + 1 /\ (first <= n \/ n = 0)
  <2>1. first = IF 1 >= n - KlineHistMax + 1 THEN 1 ELSE n - KlineHistMax + 1
    BY <1>1, LargerOfTwo
  <2> HIDE DEF n
  <2> QED
    BY <1>1, <2>1
<1>3. r = SubSeq(list, first, n)
  BY DEF trimList
<1> HIDE DEF first, r
<1> DEFINE d == IF first <= n THEN n - first + 1 ELSE 0
<1>4. /\ r \in Seq(Candle) /\ Len(r) = d /\ DOMAIN r = 1..d
      /\ \A j \in 1..d : r[j] = list[first + j - 1]
  BY <1>1, <1>2, <1>3
<1>5. \A j \in 1..d : first + j - 1 \in 1..n
  BY <1>1, <1>2
<1>6. d <= KlineHistMax
  BY <1>1, <1>2
<1>7. ToSet(r) \subseteq ToSet(list)
  <2> HIDE DEF d
  <2> SUFFICES ASSUME NEW j \in 1..d PROVE r[j] \in ToSet(list)
    BY <1>4 DEF ToSet
  <2> QED
    BY <1>1, <1>4, <1>5 DEF ToSet
<1>8. ASSUME Ascending(list) PROVE Ascending(r)
  <2> SUFFICES ASSUME NEW i \in 1..d, NEW j \in 1..d, i < j PROVE r[i].ts < r[j].ts
    BY <1>4 DEF Ascending
  <2>1. first + i - 1 \in 1..n /\ first + j - 1 \in 1..n /\ first + i - 1 < first + j - 1
    BY <1>2, <1>5
  <2>2. list[first + i - 1].ts < list[first + j - 1].ts
    BY <1>1, <1>8, <2>1 DEF Ascending
  <2> QED
    BY <1>4, <2>2
<1> QED
  BY <1>4, <1>6, <1>7, <1>8 DEF r

\* A push at the end of the history: it replaces its window's candle there.
LEMMA Appended ==
  ASSUME NEW list \in Seq(Candle), NEW k \in Candle
  PROVE  /\ appendKline(list, k) \in Seq(Candle) /\ Len(appendKline(list, k)) <= KlineHistMax
         /\ Ascending(list) /\ (\A i \in DOMAIN list : ~(list[i].ts > k.ts)) =>
              /\ Ascending(appendKline(list, k))
              /\ ToSet(appendKline(list, k)) \subseteq {k} \cup {c \in ToSet(list) : c.ts # k.ts}
<1> DEFINE n == Len(list)
           same == list # <<>> /\ Last(list).ts = k.ts
           kept == IF same THEN Front(list) ELSE list
           m == Append(kept, k)
<1>1. /\ n \in Nat /\ DOMAIN list = 1..n /\ k.ts \in Nat /\ \A i \in 1..n : list[i] \in Candle /\ list[i].ts \in Nat
  BY CandleTimes
<1>2. appendKline(list, k) = trimList(m)
  BY DEF appendKline
<1>3. PICK d \in Nat : /\ d = IF same THEN n - 1 ELSE n
                       /\ kept \in Seq(Candle) /\ Len(kept) = d /\ DOMAIN kept = 1..d
                       /\ \A i \in 1..d : kept[i] = list[i]
  <2>1. CASE same
    <3>1. n # 0
      BY <1>1, <2>1
    <3>2. Front(list) = SubSeq(list, 1, n - 1)
      BY DEF Front
    <3>3. /\ Front(list) \in Seq(Candle) /\ Len(Front(list)) = n - 1 /\ DOMAIN Front(list) = 1..(n - 1)
          /\ \A i \in 1..(n - 1) : Front(list)[i] = list[i]
      BY <1>1, <3>1, <3>2
    <3>4. kept = Front(list) /\ n - 1 \in Nat
      BY <1>1, <2>1, <3>1
    <3> HIDE DEF same, kept
    <3> QED
      BY <2>1, <3>3, <3>4
  <2>2. CASE ~same
    <3>1. kept = list
      BY <2>2
    <3> HIDE DEF same, kept
    <3> QED
      BY <1>1, <2>2, <3>1
  <2> QED
    BY <2>1, <2>2
<1> HIDE DEF kept
<1>4. /\ m \in Seq(Candle) /\ DOMAIN m = 1..(d + 1) /\ m[d + 1] = k /\ \A i \in 1..d : m[i] = kept[i]
  BY <1>3
<1>5. trimList(m) \in Seq(Candle) /\ Len(trimList(m)) <= KlineHistMax
      /\ ToSet(trimList(m)) \subseteq ToSet(m) /\ (Ascending(m) => Ascending(trimList(m)))
  BY <1>4, Trimmed
<1>6. ASSUME Ascending(list), \A i \in DOMAIN list : ~(list[i].ts > k.ts)
      PROVE  Ascending(m) /\ ToSet(m) \subseteq {k} \cup {c \in ToSet(list) : c.ts # k.ts}
  <2>1. \A i \in 1..d : i \in 1..n /\ list[i].ts < k.ts
    <3> TAKE i \in 1..d
    <3>1. d <= n
      <4>1. (d = n - 1 \/ d = n) /\ n \in Nat
        BY <1>1, <1>3
      <4> QED
        BY <4>1
    <3>2. i \in 1..n /\ ~(list[i].ts > k.ts) /\ list[i].ts \in Nat
      BY <1>1, <1>6, <3>1
    <3>3. n \in 1..n /\ (i < n => list[i].ts < list[n].ts) /\ ~(list[n].ts > k.ts) /\ list[n].ts \in Nat
      BY <1>1, <1>6, <3>2 DEF Ascending
    <3>4. CASE same
      BY <1>1, <1>3, <3>2, <3>3, <3>4 DEF Last
    <3>5. CASE ~same
      <4>1. list # <<>>
        BY <1>1, <3>2
      <4>2. list[n].ts # k.ts
        BY <3>5, <4>1 DEF Last
      <4> QED
        BY <1>1, <3>2, <3>3, <4>2
    <3> QED
      BY <3>4, <3>5
  <2> HIDE DEF m, same
  <2>2. Ascending(m)
    <3> SUFFICES ASSUME NEW i \in 1..(d + 1), NEW j \in 1..(d + 1), i < j PROVE m[i].ts < m[j].ts
      BY <1>4 DEF Ascending
    <3>1. i \in 1..d /\ m[i] = list[i]
      BY <1>3, <1>4
    <3>2. CASE j = d + 1
      BY <1>4, <2>1, <3>1, <3>2
    <3>3. CASE j # d + 1
      <4>1. j \in 1..d /\ m[j] = list[j]
        BY <1>3, <1>4, <3>3
      <4> QED
        BY <1>1, <1>6, <2>1, <3>1, <4>1 DEF Ascending
    <3> QED
      BY <3>2, <3>3
  <2>3. ASSUME NEW i \in 1..(d + 1) PROVE m[i] \in {k} \cup {c \in ToSet(list) : c.ts # k.ts}
    <3>1. CASE i = d + 1
      BY <1>4, <3>1
    <3>2. CASE i # d + 1
      <4>1. i \in 1..d /\ m[i] = list[i] /\ i \in 1..n /\ list[i].ts < k.ts
        BY <1>3, <1>4, <2>1, <3>2
      <4>2. m[i].ts # k.ts /\ m[i] \in ToSet(list)
        BY <1>1, <4>1 DEF ToSet
      <4> QED
        BY <4>2
    <3> QED
      BY <3>1, <3>2
  <2>4. ToSet(m) \subseteq {k} \cup {c \in ToSet(list) : c.ts # k.ts}
    BY <1>4, <2>3 DEF ToSet
  <2> QED
    BY <2>2, <2>4
<1> QED
  BY <1>2, <1>5, <1>6

\* The whole of an ingest.
LEMMA Ingested ==
  ASSUME NEW list \in Seq(Candle), Len(list) <= KlineHistMax, NEW bars \in Seq(Candle),
         NEW after \in IngestHistoryKlines(list, bars)
  PROVE  /\ after \in Seq(Candle) /\ Len(after) <= KlineHistMax
         /\ Ascending(list) /\ Ascending(bars) =>
              /\ Ascending(after)
              /\ ToSet(after) \subseteq ToSet(bars) \cup {c \in ToSet(list) : \A k \in ToSet(bars) : c.ts # k.ts}
<1>1. CASE bars = <<>>
  <2>1. after = list /\ ToSet(bars) = {}
    BY <1>1 DEF IngestHistoryKlines, ToSet
  <2> QED
    BY <2>1
<1>2. CASE bars # <<>>
  <2> DEFINE merged == FoldLeft(mergeKline, list, bars)
  <2>1. PICK sorted \in Sorted(merged) : after = trimList(sorted)
    BY <1>2 DEF IngestHistoryKlines
  <2> HIDE DEF merged
  <2>2. /\ merged \in Seq(Candle)
        /\ Ascending(list) /\ Ascending(bars) =>
             /\ Ascending(merged)
             /\ ToSet(merged) = ToSet(bars) \cup {c \in ToSet(list) : \A k \in ToSet(bars) : c.ts # k.ts}
    BY MergedAll DEF merged
  <2>3. sorted \in Seq(Candle) /\ (Ascending(merged) => sorted = merged)
    BY <2>2, SortedIs
  <2>4. /\ trimList(sorted) \in Seq(Candle) /\ Len(trimList(sorted)) <= KlineHistMax
        /\ ToSet(trimList(sorted)) \subseteq ToSet(sorted)
        /\ Ascending(sorted) => Ascending(trimList(sorted))
    BY <2>3, Trimmed
  <2> QED
    BY <2>1, <2>2, <2>3, <2>4
<1> QED
  BY <1>1, <1>2

-----------------------------------------------------------------------------
(* The history in every step *)

LEMMA HistoryStill ==
  ASSUME Keeps, Sound, UNCHANGED <<klineHistory, torn, late, now>>, UNCHANGED launch.answer, Pending \subseteq Pending' \cup {Tick},
         ticks' \in 0..MaxTicks, launches' \in 0..MaxLaunches, routerUp' \in BOOLEAN
  PROVE  Keeps' /\ Sound'
<1>1. Keeps'
  BY DEF Keeps
<1>2. Sound'
  <2>1. \A k \in ToSet(klineHistory) : k.ts # Tick
    <3>1. \A c \in Candle : c.ts # Tick
      BY FeedAssumption DEF Candle, Windows, Tick
    <3> QED
      BY <3>1 DEF Keeps, ToSet
  <2> QED
    BY <2>1 DEF Sound
<1> QED
  BY <1>1, <1>2

LEMMA HistoryOfWindow == ASSUME FeedSorts, Keeps, Sound, NEW pushed \in BOOLEAN, WindowCloses(pushed) PROVE Keeps' /\ Sound'
<1>1. /\ now' = now + 1 /\ UNCHANGED <<klineHistory, late, launch, ticks, launches, routerUp>>
      /\ now \in Windows /\ now \in Nat
  BY FeedAssumption DEF WindowCloses, FeedSorts, Windows
<1>2. \/ Pending' = Pending \cup {now} /\ torn' = torn
      \/ Pending' = Pending /\ torn' = torn \cup {now}
  <2>1. CASE pushed /\ Len(pubCh) < PubBuf
    <3>1. pubCh' = Append(pubCh, now) /\ torn' = torn
      BY <2>1 DEF WindowCloses
    <3> QED
      <4>1. pubCh \in Seq(Windows \cup {Tick}) /\ now \in Windows \cup {Tick}
        BY <1>1 DEF FeedSorts
      <4>2. ToSet(Append(pubCh, now)) = ToSet(pubCh) \cup {now}
        BY <4>1, SetOfAppend
      <4> QED
        BY <3>1, <4>2 DEF Pending
  <2>2. CASE ~(pushed /\ Len(pubCh) < PubBuf)
    BY <2>2 DEF WindowCloses, Pending
  <2> QED
    BY <2>1, <2>2
<1>3. Keeps'
  BY <1>1, <1>2 DEF Keeps
<1>4. Sound'
  <2> SUFFICES ASSUME ~late, NEW k \in ToSet(klineHistory), k.ts < now', ~k.final
               PROVE  k.ts \in torn' \cup Pending'
    BY <1>1 DEF Sound
  <2>1. k.ts \in Nat
    BY CandleTimes DEF Keeps, ToSet
  <2>2. k.ts < now \/ k.ts = now
    BY <1>1, <2>1
  <2> QED
    BY <1>2, <2>2 DEF Sound
<1> QED
  BY <1>3, <1>4

LEMMA HistoryOfTick == ASSUME FeedSorts, Keeps, Sound, handleTicker PROVE Keeps' /\ Sound'
<1>1. Pending \subseteq Pending'
  BY PendingOfTick
<1>2. ticks' \in 0..MaxTicks
  BY FeedAssumption DEF Keeps, handleTicker
<1>3. UNCHANGED <<klineHistory, torn, late, now, launches, routerUp, launch>>
  BY DEF handleTicker, history
<1> QED
  BY <1>1, <1>2, <1>3, HistoryStill DEF Keeps

LEMMA HistoryOfPush == ASSUME FeedSorts, Keeps, Sound, onCandlestick PROVE Keeps' /\ Sound'
<1> DEFINE k == [ts |-> Head(pubCh), final |-> TRUE]
<1>1. /\ Head(pubCh) \in Windows \cup {Tick} /\ pubCh' = Tail(pubCh)
      /\ Pending = {Head(pubCh)} \cup Pending'
  BY SetOfTail DEF FeedSorts, onCandlestick, Pending
<1>2. k \in Candle /\ klineHistory \in Seq(Candle)
  BY <1>1 DEF onCandlestick, Candle, Keeps
<1>3. /\ klineHistory' = appendKline(klineHistory, k)
      /\ late' = (late \/ \E i \in DOMAIN klineHistory : klineHistory[i].ts > k.ts)
      /\ UNCHANGED <<now, ticks, routerUp, launch, launches, torn>>
  BY DEF onCandlestick
<1> HIDE DEF k
<1>4. /\ klineHistory' \in Seq(Candle) /\ Len(klineHistory') <= KlineHistMax
      /\ Ascending(klineHistory) /\ (\A i \in DOMAIN klineHistory : ~(klineHistory[i].ts > k.ts)) =>
           /\ Ascending(klineHistory')
           /\ ToSet(klineHistory') \subseteq {k} \cup {c \in ToSet(klineHistory) : c.ts # k.ts}
  BY <1>2, <1>3, Appended
<1>5. late' \in BOOLEAN
  BY <1>3
<1>6. Keeps'
  BY <1>3, <1>4, <1>5 DEF Keeps
<1>7. Sound'
  <2> SUFFICES ASSUME ~late'
               PROVE  /\ Ascending(klineHistory')
                      /\ \A c \in ToSet(klineHistory') : c.ts < now /\ ~c.final => c.ts \in torn \cup Pending'
    BY <1>3 DEF Sound
  <2>1. ~late /\ \A i \in DOMAIN klineHistory : ~(klineHistory[i].ts > k.ts)
    BY <1>3
  <2>2. Ascending(klineHistory)
    BY <2>1 DEF Sound
  <2>3. /\ Ascending(klineHistory')
        /\ ToSet(klineHistory') \subseteq {k} \cup {c \in ToSet(klineHistory) : c.ts # k.ts}
    BY <1>4, <2>1, <2>2
  <2>4. ASSUME NEW c \in ToSet(klineHistory'), c.ts < now, ~c.final PROVE c.ts \in torn \cup Pending'
    <3>1. k.final /\ k.ts = Head(pubCh)
      BY DEF k
    <3>2. c \in ToSet(klineHistory) /\ c.ts # Head(pubCh)
      BY <2>3, <2>4, <3>1
    <3> QED
      BY <1>1, <2>1, <2>4, <3>2 DEF Sound
  <2> QED
    BY <2>3, <2>4
<1> QED
  BY <1>6, <1>7

LEMMA HistoryOfOnTicker == ASSUME FeedSorts, Keeps, Sound, onTicker PROVE Keeps' /\ Sound'
<1>1. Pending = {Tick} \cup Pending'
  BY SetOfTail DEF FeedSorts, onTicker, Pending
<1>2. UNCHANGED <<klineHistory, torn, late, now, ticks, launches, routerUp, launch>>
  BY DEF onTicker
<1> QED
  BY <1>1, <1>2, HistoryStill DEF Keeps

LEMMA HistoryOfAnswer == ASSUME FeedSorts, Keeps, Sound, ListCandlesticks PROVE Keeps' /\ Sound'
<1> DEFINE first == Max({1, now - HistoryBars[launch.strategy] + 1})
           answer == [i \in 1..(now - first + 1) |-> [ts |-> first + i - 1, final |-> first + i - 1 < now]]
<1>1. launch' = [launch EXCEPT !.pc = "answered", !.answer = answer]
  BY DEF ListCandlesticks
<1>2. now \in Nat /\ first \in Int
  <2>1. now \in Nat /\ HistoryBars[launch.strategy] \in Nat
    BY FeedAssumption DEF FeedSorts, ListCandlesticks, Windows
  <2>2. first = 1 \/ first = now - HistoryBars[launch.strategy] + 1
    BY <2>1, LargerOfTwo
  <2> QED
    BY <2>1, <2>2
<1> HIDE DEF first
<1>3. Ascending(answer)
  <2> SUFFICES ASSUME NEW i \in 1..(now - first + 1), NEW j \in 1..(now - first + 1), i < j
               PROVE  answer[i].ts < answer[j].ts
    BY DEF Ascending
  <2>1. answer[i].ts = first + i - 1 /\ answer[j].ts = first + j - 1
    OBVIOUS
  <2> HIDE DEF answer
  <2> QED
    BY <1>2, <2>1
<1> HIDE DEF answer
<1>4. launch'.answer = answer
  BY <1>1 DEF FeedSorts
<1>5. UNCHANGED <<klineHistory, torn, late, now, ticks, launches, routerUp, pubCh>>
  BY DEF ListCandlesticks, exchange, history
<1> QED
  BY <1>3, <1>4, <1>5 DEF Keeps, Sound, Pending

LEMMA HistoryOfWarmup == ASSUME FeedSorts, Keeps, Sound, warmupHistory PROVE Keeps' /\ Sound'
<1> DEFINE bars == launch.answer
           overtaken == {t \in Windows : /\ [ts |-> t, final |-> FALSE] \in ToSet(bars)
                                         /\ t < now /\ t \notin Pending}
<1>1. /\ klineHistory' \in IngestHistoryKlines(klineHistory, bars)
      /\ torn' = {t \in torn : [ts |-> t, final |-> TRUE] \notin ToSet(bars)} \cup overtaken
      /\ launch' = NoLaunch /\ UNCHANGED <<now, ticks, pubCh, routerUp, launches, late>>
  BY DEF warmupHistory, exchange
<1>2. bars \in Seq(Candle) /\ Ascending(bars) /\ klineHistory \in Seq(Candle) /\ Len(klineHistory) <= KlineHistMax
  BY DEF FeedSorts, Keeps
<1> HIDE DEF bars
<1>3. /\ klineHistory' \in Seq(Candle) /\ Len(klineHistory') <= KlineHistMax
      /\ Ascending(klineHistory) /\ Ascending(bars) =>
           /\ Ascending(klineHistory')
           /\ ToSet(klineHistory') \subseteq
                ToSet(bars) \cup {c \in ToSet(klineHistory) : \A k \in ToSet(bars) : c.ts # k.ts}
  BY <1>1, <1>2, Ingested
<1>4. torn' \subseteq Windows /\ Ascending(launch'.answer)
  BY <1>1, NoLaunchIs DEF Keeps, Ascending
<1>5. Keeps'
  BY <1>1, <1>3, <1>4 DEF Keeps
<1>6. Sound'
  <2> SUFFICES ASSUME ~late
               PROVE  /\ Ascending(klineHistory')
                      /\ \A c \in ToSet(klineHistory') : c.ts < now /\ ~c.final => c.ts \in torn' \cup Pending
    BY <1>1 DEF Sound, Pending
  <2>1. /\ Ascending(klineHistory')
        /\ ToSet(klineHistory') \subseteq
             ToSet(bars) \cup {c \in ToSet(klineHistory) : \A k \in ToSet(bars) : c.ts # k.ts}
    BY <1>2, <1>3 DEF Sound
  <2>2. ASSUME NEW c \in ToSet(klineHistory'), c.ts < now, ~c.final, c.ts \notin Pending PROVE c.ts \in torn'
    <3>1. c \in Candle
      BY <1>3 DEF ToSet
    <3>2. CASE c \in ToSet(bars)
      <4>1. c = [ts |-> c.ts, final |-> FALSE] /\ c.ts \in Windows
        BY <2>2, <3>1 DEF Candle
      <4> QED
        BY <1>1, <2>2, <3>2, <4>1
    <3>3. CASE c \in ToSet(klineHistory) /\ \A k \in ToSet(bars) : c.ts # k.ts
      <4>1. c.ts \in torn
        BY <2>2, <3>3 DEF Sound
      <4>2. [ts |-> c.ts, final |-> TRUE] \notin ToSet(bars)
        BY <3>3
      <4> QED
        BY <1>1, <4>1, <4>2
    <3> QED
      BY <2>1, <2>2, <3>2, <3>3
  <2> QED
    BY <2>1, <2>2
<1> QED
  BY <1>5, <1>6

LEMMA HistoryOfRest ==
  ASSUME FeedSorts, Keeps, Sound,
         pumpMarketUpdates \/ ListCandlesticksFails \/ StartsRouter \/ UNCHANGED feedVars
         \/ (\E s \in Listeners : launchStrategy(s)) \/ (\E s \in Listeners : StopStrategy(s))
  PROVE  Keeps' /\ Sound'
<1>1. UNCHANGED <<klineHistory, torn, late, now, ticks, pubCh>>
  BY DEF pumpMarketUpdates, ListCandlesticksFails, StartsRouter, feedVars, launchStrategy, StopStrategy, exchange, history
<1>2. Ascending(launch'.answer)
  <2>1. Ascending(<<>>)
    BY DEF Ascending
  <2>2. launch' = launch \/ launch'.answer = <<>>
    BY NoLaunchIs DEF pumpMarketUpdates, ListCandlesticksFails, StartsRouter, feedVars, launchStrategy, StopStrategy, NoLaunch
  <2> QED
    BY <2>1, <2>2 DEF Keeps
<1>3. launches' \in 0..MaxLaunches
  <2>1. launches' = launches \/ (launches < MaxLaunches /\ launches' = launches + 1)
    BY DEF pumpMarketUpdates, ListCandlesticksFails, StartsRouter, feedVars, launchStrategy, StopStrategy
  <2> QED
    BY <2>1, FeedAssumption DEF Keeps
<1>4. routerUp' \in BOOLEAN
  BY DEF Keeps, pumpMarketUpdates, ListCandlesticksFails, StartsRouter, feedVars, launchStrategy, StopStrategy
<1> QED
  BY <1>1, <1>2, <1>3, <1>4 DEF Keeps, Sound, Pending

LEMMA HistoryStep ==
  ASSUME FeedSorts, Keeps, Sound, [FeedNext]_feedVars
  PROVE  Keeps' /\ Sound'
BY FeedStepKinds, HistoryOfWindow, HistoryOfTick, HistoryOfPush, HistoryOfOnTicker, HistoryOfAnswer, HistoryOfWarmup,
   HistoryOfRest

-----------------------------------------------------------------------------
(* The properties *)

LEMMA InitFeedIInv == FeedInit => FeedIInv
<1> SUFFICES ASSUME FeedInit PROVE FeedIInv
  OBVIOUS
<1> USE FeedAssumption DEF FeedInit
<1>1. FeedSorts
  <2>1. IsFiniteSet({}) /\ 1 \in Windows /\ 2 \in Windows
    BY FS_EmptySet DEF Windows
  <2>2. pubCh \in Seq(Windows \cup {Tick}) /\ Len(pubCh) = 0 /\ marketCh \in Seq(Update) /\ Len(marketCh) = 0
    OBVIOUS
  <2> QED
    BY <2>1, <2>2, NoLaunchIs DEF FeedSorts
<1>2. Fresh
  BY NoLaunchIs DEF Fresh
<1>3. HistoryFirst /\ NoGap
  BY DEF HistoryFirst, NoGap
<1>4. Keeps /\ Sound
  <2>1. Ascending(<<>>) /\ ToSet(<<>>) = {} /\ <<>> \in Seq(Candle) /\ Len(<<>>) = 0
    BY DEF Ascending, ToSet
  <2>2. launch.answer = <<>> /\ klineHistory = <<>>
    BY NoLaunchIs
  <2>3. ticks \in 0..MaxTicks /\ launches \in 0..MaxLaunches /\ 0 <= KlineHistMax
    <3>1. MaxTicks \in Nat /\ MaxLaunches \in Nat /\ KlineHistMax \in Nat
      OBVIOUS
    <3>2. ticks = 0 /\ launches = 0
      OBVIOUS
    <3> HIDE DEF FeedInit
    <3> QED
      BY <3>1, <3>2
  <2>4. routerUp \in BOOLEAN /\ late \in BOOLEAN /\ torn \subseteq Windows
    BY Zenon
  <2> QED
    BY <2>1, <2>2, <2>3, <2>4, Zenon DEF Keeps, Sound
<1> QED
  BY <1>1, <1>2, <1>3, <1>4 DEF FeedIInv

\* The inductive invariant holds in every state, over closing windows, full channels,
\* launches and stops in any order (launchStrategy, onCandlestick, emit, pumpMarketUpdates).
THEOREM FeedInvariance == FeedSpec => []FeedIInv
<1>1. FeedIInv /\ [FeedNext]_feedVars => FeedIInv'
  BY SortsStep, FreshStep, HistoryFirstStep, NoGapStep, HistoryStep DEF FeedIInv
<1> QED
  BY <1>1, InitFeedIInv, PTL DEF FeedSpec

\* A strategy's view has no gap: its history comes before any push, and each window that
\* closed since its launch was sent with its last data, is on its way or was dropped for a
\* full channel (launchStrategy, SendHistory, SendKline, emit).
THEOREM ViewsAreComplete == FeedSpec => []CompleteView
<1>1. FeedIInv => CompleteView
  BY DEF FeedIInv, HistoryFirst, NoGap, Covered, Sent, Answered, OnItsWay, CompleteView
<1> QED
  BY <1>1, FeedInvariance, PTL

\* As long as no push came after a newer candle, the history is ascending and no closed window
\* is left with the candle of a REST answer, but one whose last candle cannot come
\* (appendKlineLocked, mergeKlineLocked, IngestHistoryKlines).
THEOREM HistoryIsSound == FeedSpec => []HistorySound
<1>1. FeedIInv => HistorySound
  <2> SUFFICES ASSUME FeedIInv PROVE HistorySound
    OBVIOUS
  <2>1. FeedTypeOK
    BY DEF FeedIInv, FeedSorts, Keeps, FeedTypeOK, Update, Bar
  <2>2. ~late => \A k \in ToSet(klineHistory) :
                   k.ts < now => k.ts \in torn \cup Pending \/ [ts |-> k.ts, final |-> TRUE] \in ToSet(klineHistory)
    <3> SUFFICES ASSUME ~late, NEW k \in ToSet(klineHistory), k.ts < now, k.ts \notin torn \cup Pending
                 PROVE  [ts |-> k.ts, final |-> TRUE] = k
      OBVIOUS
    <3>1. k.final /\ k \in Candle
      BY DEF FeedIInv, Keeps, Sound, ToSet
    <3> QED
      BY <3>1 DEF Candle
  <2>3. ~late => Ascending(klineHistory)
    BY DEF FeedIInv, Sound
  <2> QED
    BY <2>1, <2>2, <2>3 DEF HistorySound
<1> QED
  BY <1>1, FeedInvariance, PTL

=============================================================================
