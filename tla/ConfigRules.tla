----------------------------- MODULE ConfigRules -----------------------------
(***************************************************************************)
(* config.toml, from the file to the parameters the daemon is built with:  *)
(* defaults, parsing, validation, and the fallbacks of the constructors.   *)
(* A text that matters only by its form is a member of a small set; a      *)
(* duration is a number of seconds, or unparsable.                         *)
(***************************************************************************)
EXTENDS Integers, FiniteSets

CONSTANTS
  Unset,     \* the key is not in the file
  Blank,     \* the empty string
  Bad,       \* a string ParseDuration refuses
  Numbers,   \* the numbers and durations a file may hold
  Attempts   \* bound: restart attempts looked at

ASSUME ConfigAssumption ==
  /\ Numbers \subseteq Int /\ 0 \in Numbers /\ Attempts \in Nat
  /\ {Unset, Blank, Bad} \cap Int = {} /\ Cardinality({Unset, Blank, Bad}) = 3

Number == Numbers \cup {Unset}
Duration == Number \cup {Blank, Bad}
Flag == BOOLEAN \cup {Unset}

-----------------------------------------------------------------------------
(* The sections of the file *)

LogConfig == [level : {"info", "", "loud", Unset}, maxSize : Number]
RestartConfigRaw ==
  [enabled : Flag, maxCrashes : Number, window : Duration, initial : Duration, max : Duration, multiplier : Number]
ExchangeConfig ==
  [name : {"gateio", "", "other", Unset}, keys : BOOLEAN, userID : BOOLEAN, privateWS : Flag, maxRetries : Number]
BufferConfig == [publicBuf : Number, privateBuf : Number, maxOpenConns : Number]
RiskConfig ==
  [enable : Flag, maxOrderSize : Number, maxOpenOrders : Number, maxPositions : Number, maxLeverage : Number, lock : Flag]
PersistenceConfig == [logDays : Number, snapshotDays : Number, cleanup : Duration]
ChannelsConfig ==
  [signal : Number, order : Number, mainOrder : Number, market : Number, omsOrderUpdate : Number, omsCmd : Number]
DecisionConfig == [divisor : Number, refresh : Duration, dir : {"strategies", "", Unset}]
MarketsConfig == [enabled : SUBSET {"perp", "", "spot", "margin"} \cup {Unset}]
GRPCConfig == [enabled : Flag, host : {"127.0.0.1", "", "10.0.0.1", Unset}, port : BOOLEAN, insecure : Flag]

File ==
  [log : LogConfig, restart : RestartConfigRaw, exchange : ExchangeConfig, buffers : BufferConfig, risk : RiskConfig,
   persistence : PersistenceConfig, channels : ChannelsConfig, decision : DecisionConfig, markets : MarketsConfig,
   grpc : GRPCConfig]

setDefaults ==
  [log |-> [level |-> "info", maxSize |-> 100],
   restart |-> [enabled |-> TRUE, maxCrashes |-> 3, window |-> 300, initial |-> 3, max |-> 60, multiplier |-> 2],
   exchange |-> [name |-> "gateio", keys |-> FALSE, userID |-> FALSE, privateWS |-> TRUE, maxRetries |-> 3],
   buffers |-> [publicBuf |-> 512, privateBuf |-> 256, maxOpenConns |-> 1],
   risk |-> [enable |-> TRUE, maxOrderSize |-> 100000, maxOpenOrders |-> 50, maxPositions |-> 20, maxLeverage |-> 0,
             lock |-> FALSE],
   persistence |-> [logDays |-> 7, snapshotDays |-> 30, cleanup |-> 3600],
   channels |-> [signal |-> 100, order |-> 100, mainOrder |-> 100, market |-> 1000, omsOrderUpdate |-> 100,
                 omsCmd |-> 100],
   decision |-> [divisor |-> 10, refresh |-> 10, dir |-> "strategies"],
   markets |-> [enabled |-> {"perp"}],
   grpc |-> [enabled |-> FALSE, host |-> "127.0.0.1", port |-> TRUE, insecure |-> FALSE]]

\* What viper hands to Unmarshal.
Read(file) ==
  [section \in DOMAIN file |->
     [key \in DOMAIN file[section] |->
        IF file[section][key] = Unset THEN setDefaults[section][key] ELSE file[section][key]]]

-----------------------------------------------------------------------------
(* Parsing *)

Or(value, default) == IF value \in Int /\ value > 0 THEN value ELSE default

parseRestartSettings(raw) ==
  LET set(key) == IF raw[key] = Blank THEN setDefaults.restart[key] ELSE raw[key]
  IN [enabled |-> raw.enabled, maxCrashes |-> Or(raw.maxCrashes, 3), multiplier |-> Or(raw.multiplier, 2),
      window |-> set("window"), initial |-> set("initial"), max |-> set("max")]

\* Mutant: a cleanup interval is taken as it is parsed.
parsePersistenceSettingsAsIs(raw) ==
  [raw EXCEPT !.cleanup = IF raw.cleanup \in Int THEN raw.cleanup ELSE 3600]
parsePersistenceSettings(raw) == [raw EXCEPT !.cleanup = Or(raw.cleanup, 3600)]

RiskRules(raw) ==
  [enable |-> raw.enable, lock |-> raw.lock,
   maxOrderSize |-> Or(raw.maxOrderSize, 100000), maxOpenOrders |-> Or(raw.maxOpenOrders, 50),
   maxPositions |-> Or(raw.maxPositions, 20), maxLeverage |-> Or(raw.maxLeverage, 0)]

\* The parse errors of Load.
parses(raw) ==
  /\ raw.decision.dir # ""
  /\ raw.decision.refresh \in Int
  /\ \A key \in {"window", "initial", "max"} : raw.restart[key] # Bad
  /\ raw.persistence.logDays >= 0 /\ raw.persistence.snapshotDays >= 0

validate(raw) ==
  LET restart == parseRestartSettings(raw.restart)
  IN /\ raw.exchange.name \in {"gateio", ""} /\ raw.exchange.keys
     /\ raw.exchange.privateWS => raw.exchange.userID
     /\ raw.decision.divisor > 0
     /\ restart.maxCrashes > 0 /\ restart.window > 0
     /\ restart.enabled => restart.initial >= 0
     /\ restart.max > 0 => restart.max >= restart.initial

LoggerOptions(raw) == raw.log.level # "loud"

Accepted(file) == LET raw == Read(file) IN parses(raw) /\ validate(raw) /\ LoggerOptions(raw)

-----------------------------------------------------------------------------
(* What the daemon is built with *)

ProjectionRefreshInterval(raw) == Or(raw.decision.refresh, 10)

Channels(raw) == [key \in DOMAIN raw.channels |-> Or(raw.channels[key], setDefaults.channels[key])]

WithChannelBuffers(raw) ==
  [publicBuf |-> Or(raw.buffers.publicBuf, 512), privateBuf |-> Or(raw.buffers.privateBuf, 256)]

\* "" in a list counts for nothing, and an empty list is perp.
EnabledMarkets(raw) == IF raw.markets.enabled \subseteq {""} THEN {"perp"} ELSE raw.markets.enabled \ {""}
MarketsSupported(raw) == EnabledMarkets(raw) \subseteq {"perp"}

\* normalizeGRPC supplies the port of a host without one.
VerifyLoopbackListenAddr(raw) ==
  /\ raw.grpc.host = "" => raw.grpc.port
  /\ raw.grpc.insecure \/ raw.grpc.host = "127.0.0.1"

Params(file) ==
  LET raw == Read(file)
  IN [channels |-> Channels(raw), buffers |-> WithChannelBuffers(raw),
      maxOpenConns |-> Or(raw.buffers.maxOpenConns, 1), maxRetries |-> Or(raw.exchange.maxRetries, 3),
      divisor |-> Or(raw.decision.divisor, 10), refresh |-> ProjectionRefreshInterval(raw),
      restart |-> parseRestartSettings(raw.restart), persistence |-> parsePersistenceSettings(raw.persistence),
      rules |-> RiskRules(raw.risk)]

\* The pause before a restart; attempt counts the restarts since the strategy last ran well.
computeBackoff(restart, attempt) ==
  LET pause[i \in 0..Attempts] == IF i = 0 THEN restart.initial ELSE pause[i - 1] * restart.multiplier
      capped == IF restart.max > 0 /\ pause[attempt] > restart.max THEN restart.max ELSE pause[attempt]
  IN IF restart.initial <= 0 THEN 0 ELSE capped

-----------------------------------------------------------------------------
(* Properties of one file *)

Positive(settings) == \A key \in DOMAIN settings : settings[key] > 0

\* With the parameters of an accepted file no channel is unbuffered or of negative size, no
\* ticker has a period that panics, and the assumptions hold that the models of the engine
\* make on their constants (Load, NewEngine, NewPerpMarket, retentionLoop).
Buildable(file) ==
  Accepted(file) =>
    LET p == Params(file)
    IN /\ Positive(p.channels) /\ Positive(p.buffers) /\ p.maxOpenConns > 0
       /\ p.maxRetries > 0 /\ p.divisor > 0 /\ p.refresh > 0
       /\ p.restart.maxCrashes > 0 /\ p.restart.window > 0
       /\ p.persistence.cleanup > 0 /\ p.persistence.logDays >= 0 /\ p.persistence.snapshotDays >= 0

\* The pause before a restart never shrinks with the attempts, starts with the configured
\* one and never exceeds the configured cap (validate, computeBackoff).
PausesGrow(file) ==
  Accepted(file) =>
    LET restart == Params(file).restart
        pause(i) == computeBackoff(restart, i)
    IN /\ restart.initial >= 0 => pause(0) = restart.initial
       /\ \A i \in 1..Attempts : pause(i) >= pause(i - 1)
       /\ restart.max > 0 => \A i \in 0..Attempts : pause(i) <= restart.max

\* A positive number in the file is the one in use, each in its own place (Load, RiskRules,
\* NewEngine, NewPerpMarket).
WrittenIsUsed(file) ==
  LET used(section, key, value) == file[section][key] \in Int /\ file[section][key] > 0 => value = file[section][key]
      p == Params(file)
  IN Accepted(file) =>
       /\ \A key \in DOMAIN file.channels : used("channels", key, p.channels[key])
       /\ \A key \in DOMAIN p.buffers : used("buffers", key, p.buffers[key])
       /\ \A key \in DOMAIN file.persistence : used("persistence", key, p.persistence[key])
       /\ \A key \in DOMAIN file.restart \ {"enabled"} : used("restart", key, p.restart[key])
       /\ \A key \in DOMAIN file.risk \ {"enable", "lock"} : used("risk", key, p.rules[key])
       /\ used("exchange", "maxRetries", p.maxRetries) /\ used("buffers", "maxOpenConns", p.maxOpenConns)
       /\ used("decision", "divisor", p.divisor) /\ used("decision", "refresh", p.refresh)
=============================================================================
