------------------------------- MODULE MCDaemon -------------------------------
(* Files that vary a part of a sample. *)
EXTENDS Daemon

NumbersMC == {-1, 0, 2, 5}

Sample ==
  [section \in DOMAIN setDefaults |->
     [key \in DOMAIN setDefaults[section] |-> IF key \in {"keys", "userID", "port"} THEN TRUE ELSE Unset]]

\* Any two of the keys changed.
Pairs(section, keys) ==
  {[Sample[section] EXCEPT ![a] = x, ![b] = y] : a \in keys, b \in keys, x \in Number, y \in Number}

Crashes ==
  {[Sample.restart EXCEPT !.enabled = e, !.maxCrashes = m, !.window = w] : e \in Flag, m \in Number, w \in Duration}
Pauses ==
  {[Sample.restart EXCEPT !.enabled = e, !.initial = i, !.max = m, !.multiplier = x] :
     e \in Flag, i \in Duration, m \in Duration, x \in Number}
Limits == Pairs("risk", {"maxOrderSize", "maxOpenOrders", "maxPositions", "maxLeverage"})

FilesMC ==
  UNION {{[Sample EXCEPT !.log = section] : section \in LogConfig},
         {[Sample EXCEPT !.restart = section] : section \in Crashes \cup Pauses},
         {[Sample EXCEPT !.exchange = section] : section \in ExchangeConfig},
         {[Sample EXCEPT !.buffers = section] : section \in BufferConfig},
         {[Sample EXCEPT !.risk = section] : section \in Limits},
         {[Sample EXCEPT !.persistence = section] : section \in PersistenceConfig},
         {[Sample EXCEPT !.channels = section] : section \in Pairs("channels", DOMAIN setDefaults.channels)},
         {[Sample EXCEPT !.decision = section] : section \in DecisionConfig},
         {[Sample EXCEPT !.markets = section] : section \in MarketsConfig},
         {[Sample EXCEPT !.grpc = section] : section \in GRPCConfig}}
=============================================================================
