---------------------------- MODULE StrategyCatalog ----------------------------
(***************************************************************************)
(* The strategies directory and the catalog: the loader reads one          *)
(* directory after the other while CreateStrategy makes new ones file by   *)
(* file and people edit them, the calls of the API that use the catalog,   *)
(* and the automatic restart, which keeps the entry of the crash.          *)
(* signalixd may end at any moment and be started again.                   *)
(*                                                                         *)
(* How processes live and die is in StrategyLifecycle; here one is its     *)
(* catalog entry.                                                          *)
(***************************************************************************)
EXTENDS Integers, Sequences, Functions

CONSTANTS
  Dirs,       \* the possible directories, in the order ReadDir lists them
  Callers,    \* clients of the API
  Initial,    \* what the strategies directory may hold at first
  Written,    \* configurations people write by hand
  Requests,   \* the options of CreateStrategy calls
  DefaultInterval,
  NoLimit,    \* a key of the risk section that is not there
  NoOption,   \* an option the request does not have
  Absent,     \* no config.yaml
  Garbled,    \* a config.yaml that does not parse, or is not yet written
  MaxEdits,   \* bound: edits by hand
  MaxFaults,  \* bound: failed file operations, and kills of signalixd
  MaxCrashes, \* bound: crashes of strategies
  MaxCalls    \* bound: calls of the API

VARIABLES
  disk,       \* the strategies directory
  up,         \* signalixd serves
  catalog,    \* Engine.strategies
  call,       \* the handlers at work
  process,    \* strategyProcess, by the entry it was started with
  exits,      \* handlers of a crash that have not decided about a restart
  restart,    \* scheduled restarts, with the entry they captured
  touched, undone, abandoned, made, synced,   \* history
  edits, faults, crashes, calls               \* bounds

catalogued == <<up, catalog, process, exits, restart, crashes>>
files == <<disk, touched, undone, abandoned, made>>
vars == <<files, catalogued, call, synced, edits, faults, calls>>

Names == Range(Dirs)
\* ReadDir lists in the order of the names.
Before(d, e) == \E i, j \in DOMAIN Dirs : i < j /\ Dirs[i] = d /\ Dirs[j] = e
First(dirs) == CHOOSE d \in dirs : \A e \in dirs \ {d} : Before(d, e)
Last(dirs) == CHOOSE d \in dirs : \A e \in dirs \ {d} : Before(e, d)

-----------------------------------------------------------------------------
(* config.yaml *)

StrategyConfig ==
  [name : Names \cup {""}, enabled : BOOLEAN, symbols : {"none", "blank", "some"},
   interval : {"", "1m", "5m", "2m"}, bars : Int, market : {"", "perp", "spot", "other"},
   limit : Int \cup {NoLimit}, drawdown : Int \cup {NoLimit}]

AllowedIntervals == {"1m", "5m"}
ValidateInterval(interval) == interval \in AllowedIntervals
ResolveInterval(config) == IF config.interval = "" THEN DefaultInterval ELSE config.interval

\* limit stands for all keys but max_drawdown, a percentage.
validateRiskConfig(config) ==
  /\ config.limit # NoLimit => config.limit >= 0
  /\ config.drawdown # NoLimit => config.drawdown \in 1..100

HistoryBars == 0..2000

validateConfig(config) ==
  /\ config.name # "" /\ config.symbols = "some"
  /\ config.interval # "" => ValidateInterval(config.interval)
  /\ config.bars \in HistoryBars
  /\ validateRiskConfig(config)
  /\ config.market \in {"", "perp"}

RiskOverridesFromRaw(config) ==
  IF {config.limit, config.drawdown} = {NoLimit} THEN NoLimit
  ELSE [limit |-> config.limit, drawdown |-> config.drawdown]

Entry(dir, config) == [dir |-> dir, config |-> config, overrides |-> RiskOverridesFromRaw(config)]

-----------------------------------------------------------------------------
(* The templates, and the requests of CreateStrategy *)

Option(set) == set \cup {NoOption}
CreateOptions ==
  [name : Names \cup {"", "Bad Name"}, template : {"", "trend", "blank", "other"}, symbols : {"none", "blank", "some"},
   interval : Option({"", "1m", "2m"}), bars : Option(Int), enabled : Option(BOOLEAN)]

Templates == {"trend", "blank"}
loadTemplateConfig(id) ==
  [name |-> "", enabled |-> FALSE, symbols |-> "some", interval |-> "5m",
   bars |-> IF id = "trend" THEN 100 ELSE 0, market |-> "", limit |-> NoLimit, drawdown |-> NoLimit]

Or(option, default) == IF option = NoOption THEN default ELSE option

mergeConfig(base, opts) ==
  [base EXCEPT !.name = opts.name,
               !.enabled = Or(opts.enabled, FALSE),
               !.symbols = IF opts.symbols = "none" THEN @ ELSE opts.symbols,
               !.interval = Or(opts.interval, @),
               !.bars = Or(opts.bars, @)]

ConfigFor(opts) == mergeConfig(loadTemplateConfig(opts.template), opts)

ValidateName(name) == name \in Names

\* The code of a request that is refused before anything is written.
mapScaffoldErr(opts) ==
  CASE opts.name = "" \/ opts.template = ""   -> "InvalidArgument"
    [] ~ValidateName(opts.name)               -> "InvalidArgument"
    [] opts.template \notin Templates         -> "NotFound"
    [] ~validateConfig(ConfigFor(opts))       -> "InvalidArgument"
    [] OTHER                                  -> "ok"

-----------------------------------------------------------------------------
(* State *)

ASSUME CatalogAssumption ==
  /\ Written \subseteq StrategyConfig /\ Requests \subseteq CreateOptions
  /\ Absent # Garbled /\ {Absent, Garbled} \cap StrategyConfig = {}
  /\ Dirs \in Seq(STRING) /\ IsInjective(Dirs) /\ {MaxEdits, MaxFaults, MaxCrashes, MaxCalls} \subseteq Nat
  /\ \A held \in Initial :
       DOMAIN held \subseteq Names /\ \A d \in DOMAIN held : held[d] \in [config : StrategyConfig, script : {"whole"}]

NoFiles == [config |-> Absent, script |-> "none"]
Idle == [op |-> "none", at |-> "idle", name |-> "", opts |-> NoOption, todo |-> {}, found |-> <<>>, calm |-> TRUE]

Without(f, key) == Restrict(f, DOMAIN f \ {key})
\* Names are keys once: the newer value counts.
With(f, key, value) == [k \in DOMAIN f \cup {key} |-> IF k = key THEN value ELSE f[k]]

Complete == {d \in DOMAIN disk : disk[d].script # "none" /\ disk[d].config # Absent}

\* An entry the catalog may hold under a name.
Catalogued(n, st) == st.config.name = n /\ validateConfig(st.config)

\* Types; a catalog or a restart holds valid entries under their own names.
TypeOK ==
  /\ DOMAIN disk \subseteq Names
  /\ \A d \in DOMAIN disk :
       disk[d].script \in {"none", "part", "whole"} /\ disk[d].config \in StrategyConfig \cup {Absent, Garbled}
  /\ \A f \in {catalog, process} : DOMAIN f \subseteq Names /\ \A n \in DOMAIN f : Catalogued(n, f[n])
  /\ \A x \in exits : x.name \in Names
  /\ \A r \in restart : r.name \in Names /\ Catalogued(r.name, r.entry) /\ r.entry.config.enabled /\ r.calm \in BOOLEAN
  /\ DOMAIN call = Callers
  /\ \A c \in Callers :
       /\ call[c].op \in {"none", "boot", "reload", "create", "start"} /\ call[c].calm \in BOOLEAN
       /\ call[c].at \in {"idle", "stat", "mkdir", "config", "write", "script", "fill", "undo", "rmdir", "list", "scan",
                          "read", "launch"}
  /\ {touched, undone, abandoned, DOMAIN made} \subseteq SUBSET Names /\ {synced, up} \subseteq BOOLEAN
  /\ edits \in 0..MaxEdits /\ faults \in 0..MaxFaults /\ crashes \in 0..MaxCrashes /\ calls \in 0..MaxCalls

Goto(c, at) == call' = [call EXCEPT ![c].at = at]
Return(c) == call' = [call EXCEPT ![c] = Idle]

\* What a scan has read so far may no longer be what is there.
Disturb(calling) ==
  [c \in Callers |-> IF calling[c].op = "start" THEN calling[c] ELSE [calling[c] EXCEPT !.calm = FALSE]]
\* What a start has read of the catalog may no longer be what is there.
Overtake(calling) ==
  [c \in Callers |-> IF calling[c].op = "start" THEN [calling[c] EXCEPT !.calm = FALSE] ELSE calling[c]]

\* Steps of Create between its first and its last change of the directory.
Making == {"config", "write", "script", "fill", "undo", "rmdir"}

Fails == faults < MaxFaults /\ faults' = faults + 1

-----------------------------------------------------------------------------
(* CreateStrategy *)

Begin(c, op, at) ==
  /\ up /\ call[c] = Idle /\ calls < MaxCalls
  /\ calls' = calls + 1
  /\ call' = [call EXCEPT ![c] = [Idle EXCEPT !.op = op, !.at = at]]

\* A refused request changes nothing.
CreateStrategy(c, opts) ==
  /\ up /\ call[c] = Idle /\ calls < MaxCalls
  /\ calls' = calls + 1
  /\ call' = IF mapScaffoldErr(opts) = "ok"
             THEN [call EXCEPT ![c] = [Idle EXCEPT !.op = "create", !.at = "stat", !.name = opts.name, !.opts = opts]]
             ELSE call
  /\ UNCHANGED <<files, catalogued, synced, edits, faults>>

\* AlreadyExists, or go on.
StatDir(c) ==
  /\ call[c].at = "stat"
  /\ IF call[c].name \in DOMAIN disk THEN Return(c) ELSE Goto(c, "mkdir")
  /\ UNCHANGED <<files, catalogued, synced, edits, faults, calls>>

\* A step of Create that writes: the directory as it is afterwards, or none.
Put(c, d, content, at) ==
  /\ disk' = With(disk, d, content)
  /\ call' = [Disturb(call) EXCEPT ![c].at = at]
  /\ synced' = FALSE

\* Mutant: the rollback is set up before the directory is made.
MkdirRollsBack(c) ==
  LET d == call[c].name
  IN /\ call[c].at = "mkdir"
     /\ \/ d \in DOMAIN disk /\ Goto(c, "undo") /\ UNCHANGED <<disk, synced, faults>>
        \/ d \notin DOMAIN disk /\ Put(c, d, NoFiles, "config") /\ UNCHANGED faults
        \/ Fails /\ Return(c) /\ UNCHANGED <<disk, synced>>
     /\ UNCHANGED <<touched, undone, abandoned, made, catalogued, edits, calls>>
Mkdir(c) ==
  LET d == call[c].name
  IN /\ call[c].at = "mkdir"
     /\ \/ d \in DOMAIN disk /\ Return(c) /\ UNCHANGED <<disk, synced, faults>>
        \/ d \notin DOMAIN disk /\ Put(c, d, NoFiles, "config") /\ UNCHANGED faults
        \/ Fails /\ Return(c) /\ UNCHANGED <<disk, synced>>
     /\ UNCHANGED <<touched, undone, abandoned, made, catalogued, edits, calls>>

\* os.WriteFile of config.yaml: the file is there before its content.
OpenConfig(c) ==
  LET d == call[c].name
  IN /\ call[c].at = "config"
     /\ \/ d \in DOMAIN disk /\ Put(c, d, [disk[d] EXCEPT !.config = Garbled], "write") /\ UNCHANGED faults
        \/ d \notin DOMAIN disk /\ Goto(c, "undo") /\ UNCHANGED <<disk, synced, faults>>
        \/ Fails /\ Goto(c, "undo") /\ UNCHANGED <<disk, synced>>
     /\ UNCHANGED <<touched, undone, abandoned, made, catalogued, edits, calls>>

WriteConfig(c) ==
  LET d == call[c].name
  IN /\ call[c].at = "write"
     /\ \/ /\ IF d \in DOMAIN disk
              THEN Put(c, d, [disk[d] EXCEPT !.config = ConfigFor(call[c].opts)], "script")
              ELSE Goto(c, "script") /\ UNCHANGED <<disk, synced>>
           /\ UNCHANGED faults
        \/ Fails /\ Goto(c, "undo") /\ UNCHANGED <<disk, synced>>
     /\ UNCHANGED <<touched, undone, abandoned, made, catalogued, edits, calls>>

\* os.WriteFile of strategy.py, which is there before its content too.
OpenScript(c) ==
  LET d == call[c].name
  IN /\ call[c].at = "script"
     /\ \/ d \in DOMAIN disk /\ Put(c, d, [disk[d] EXCEPT !.script = "part"], "fill") /\ UNCHANGED faults
        \/ d \notin DOMAIN disk /\ Goto(c, "undo") /\ UNCHANGED <<disk, synced, faults>>
        \/ Fails /\ Goto(c, "undo") /\ UNCHANGED <<disk, synced>>
     /\ UNCHANGED <<touched, undone, abandoned, made, catalogued, edits, calls>>

\* Then the handler reloads.
WriteScript(c) ==
  LET d == call[c].name
  IN /\ call[c].at = "fill"
     /\ \/ /\ IF d \in DOMAIN disk THEN Put(c, d, [disk[d] EXCEPT !.script = "whole"], "list")
              ELSE Goto(c, "list") /\ UNCHANGED <<disk, synced>>
           /\ made' = IF d \in DOMAIN disk \ touched THEN With(made, d, disk[d].config) ELSE made
           /\ UNCHANGED faults
        \/ Fails /\ Goto(c, "undo") /\ UNCHANGED <<disk, synced, made>>
     /\ UNCHANGED <<touched, undone, abandoned, catalogued, edits, calls>>

\* RemoveAll, whose error is ignored: the one file or the other, then the rest.  What of it
\* fails leaves a directory that nobody works on.
Abandon(c) == Fails /\ abandoned' = abandoned \cup {call[c].name}

Undo(c) ==
  LET d == call[c].name
  IN /\ call[c].at = "undo"
     /\ undone' = undone \cup {d}
     /\ \/ /\ d \in DOMAIN disk
           /\ \E less \in {[disk[d] EXCEPT !.config = Absent], [disk[d] EXCEPT !.script = "none"]} : Put(c, d, less, "rmdir")
           /\ UNCHANGED <<abandoned, faults>>
        \/ d \notin DOMAIN disk /\ Goto(c, "rmdir") /\ UNCHANGED <<disk, synced, abandoned, faults>>
        \/ d \in DOMAIN disk /\ Abandon(c) /\ Return(c) /\ UNCHANGED <<disk, synced>>
     /\ UNCHANGED <<touched, made, catalogued, edits, calls>>

Rmdir(c) ==
  LET d == call[c].name
  IN /\ call[c].at = "rmdir"
     /\ \/ disk' = Without(disk, d) /\ UNCHANGED <<abandoned, faults>>
        \/ /\ d \in DOMAIN disk /\ Abandon(c)
           /\ \E left \in {disk[d], NoFiles} : disk' = With(disk, d, left)
     /\ call' = [Disturb(call) EXCEPT ![c] = Idle]
     /\ synced' = FALSE
     /\ UNCHANGED <<touched, undone, made, catalogued, edits, calls>>

-----------------------------------------------------------------------------
(* LoadStrategies *)

ReloadStrategies(c) ==
  /\ Begin(c, "reload", "list")
  /\ UNCHANGED <<files, catalogued, synced, edits, faults>>

\* ReadDir; the directory may be unreadable.
DiscoverStrategies(c) ==
  /\ call[c].at = "list"
  /\ \/ /\ call' = [call EXCEPT ![c].at = "scan", ![c].todo = DOMAIN disk, ![c].calm = TRUE]
        /\ UNCHANGED faults
     \/ Fails /\ Return(c)
  /\ UNCHANGED <<files, catalogued, synced, edits, calls>>

\* A directory without script or configuration is left out.
ScanDir(c) ==
  /\ call[c].at = "scan" /\ call[c].todo # {}
  /\ IF First(call[c].todo) \in Complete THEN Goto(c, "read")
     ELSE call' = [call EXCEPT ![c].todo = @ \ {First(@)}]
  /\ UNCHANGED <<files, catalogued, synced, edits, faults, calls>>

Readable(d) == d \in DOMAIN disk /\ disk[d].config \in StrategyConfig /\ validateConfig(disk[d].config)

\* Mutant: the first directory with a name keeps it.
LoadStrategyConfigFirst(c) ==
  LET d == First(call[c].todo)
  IN /\ call[c].at = "read"
     /\ IF Readable(d)
        THEN call' = [call EXCEPT ![c].at = "scan", ![c].todo = @ \ {d},
                                  ![c].found = IF disk[d].config.name \in DOMAIN @ THEN @
                                              ELSE With(@, disk[d].config.name, Entry(d, disk[d].config))]
        ELSE Return(c)
     /\ UNCHANGED <<files, catalogued, synced, edits, faults, calls>>
\* One bad configuration ends the reload; of two with a name the later stays.
LoadStrategyConfig(c) ==
  LET d == First(call[c].todo)
  IN /\ call[c].at = "read"
     /\ IF Readable(d)
        THEN call' = [call EXCEPT ![c].at = "scan", ![c].todo = @ \ {d},
                                  ![c].found = With(@, disk[d].config.name, Entry(d, disk[d].config))]
        ELSE Return(c)
     /\ UNCHANGED <<files, catalogued, synced, edits, faults, calls>>

\* The whole catalog is replaced.
SetAll(c) ==
  /\ call[c].at = "scan" /\ call[c].todo = {}
  /\ catalog' = call[c].found
  /\ call' = [Overtake(call) EXCEPT ![c] = Idle]
  /\ synced' = call[c].calm
  /\ restart' = {[r EXCEPT !.calm = FALSE] : r \in restart}

SetAllStrategy(c) ==
  /\ SetAll(c) /\ call[c].op # "boot"
  /\ UNCHANGED <<files, up, process, exits, crashes, edits, faults, calls>>

-----------------------------------------------------------------------------
(* Start, stop, restart *)

\* Mutant: a disabled strategy may be started by hand.
StartStrategyDisabled(c, n) ==
  /\ n \in DOMAIN catalog
  /\ up /\ call[c] = Idle /\ calls < MaxCalls
  /\ calls' = calls + 1
  /\ call' = [call EXCEPT ![c] = [Idle EXCEPT !.op = "start", !.at = "launch", !.name = n]]
  /\ UNCHANGED <<files, catalogued, synced, edits, faults>>
\* The handler; NotFound and FailedPrecondition change nothing.
StartStrategy(c, n) ==
  /\ n \in DOMAIN catalog /\ catalog[n].config.enabled
  /\ up /\ call[c] = Idle /\ calls < MaxCalls
  /\ calls' = calls + 1
  /\ call' = [call EXCEPT ![c] = [Idle EXCEPT !.op = "start", !.at = "launch", !.name = n]]
  /\ UNCHANGED <<files, catalogued, synced, edits, faults>>

Startable(st) == st.config.enabled /\ ValidateInterval(ResolveInterval(st.config))

\* launchStrategy: nothing new when it runs, and a process may not come up.
launched(n, st) ==
  {process} \cup (IF n \notin DOMAIN process /\ ValidateInterval(ResolveInterval(st.config))
                  THEN {With(process, n, st)} ELSE {})

\* The entry is looked up again.
StartStrategyByName(c) ==
  LET n == call[c].name
  IN /\ call[c].at = "launch"
     /\ process' \in IF n \in DOMAIN catalog THEN launched(n, catalog[n]) ELSE {process}
     /\ Return(c)
     /\ UNCHANGED <<files, up, catalog, exits, restart, crashes, synced, edits, faults, calls>>

StopStrategy(n) ==
  /\ n \in DOMAIN process /\ calls < MaxCalls
  /\ process' = Without(process, n)
  /\ calls' = calls + 1
  /\ UNCHANGED <<files, up, catalog, exits, restart, crashes, call, synced, edits, faults>>

\* handleProcessExit: the process is unregistered, whatever restarts of its name still wait.
handleProcessExit(n) ==
  /\ n \in DOMAIN process /\ crashes < MaxCrashes
  /\ process' = Without(process, n)
  /\ exits' = exits \cup {[id |-> crashes, name |-> n]}
  /\ crashes' = crashes + 1
  /\ UNCHANGED <<files, up, catalog, restart, call, synced, edits, faults, calls>>

\* Its end; the settings, the circuit, the kill switch or the catalog may forbid the restart.
decideRestart(x) ==
  /\ x \in exits
  /\ exits' = exits \ {x}
  /\ \/ /\ x.name \in DOMAIN catalog /\ catalog[x.name].config.enabled
        /\ restart' = restart \cup {[id |-> x.id, name |-> x.name, entry |-> catalog[x.name], calm |-> TRUE]}
     \/ UNCHANGED restart
  /\ UNCHANGED <<files, up, catalog, process, crashes, call, synced, edits, faults, calls>>

\* The goroutine of scheduleRestart goes by the entry it captured.
scheduleRestart(r) ==
  /\ r \in restart
  /\ process' \in launched(r.name, r.entry)
  /\ restart' = restart \ {r}
  /\ UNCHANGED <<files, up, catalog, exits, crashes, call, synced, edits, faults, calls>>

-----------------------------------------------------------------------------
(* signalixd ends, and starts again *)

\* Kill, or an exit: the handlers end where they are, and no rollback runs.
Kill ==
  /\ up /\ Fails
  /\ up' = FALSE
  /\ catalog' = <<>> /\ process' = <<>> /\ exits' = {} /\ restart' = {}
  /\ abandoned' = abandoned \cup {call[c].name : c \in {b \in Callers : call[b].at \in Making}}
  /\ call' = [c \in Callers |-> Idle] /\ synced' = FALSE
  /\ UNCHANGED <<disk, touched, undone, made, crashes, edits, calls>>

\* LoadStrategies of Engine.Start, in the place of a client: none can call yet.
Boot(c) ==
  /\ ~up /\ \A b \in Callers : call[b] = Idle
  /\ call' = [call EXCEPT ![c] = [Idle EXCEPT !.op = "boot", !.at = "list"]]
  /\ UNCHANGED <<files, catalogued, synced, edits, faults, calls>>

\* The catalog is set and the enabled strategies that can be started are.
Start(c) ==
  /\ SetAll(c) /\ call[c].op = "boot"
  /\ up' = TRUE
  /\ \E names \in SUBSET {n \in DOMAIN call[c].found : Startable(call[c].found[n])} :
       process' = [n \in names |-> call[c].found[n]]
  /\ UNCHANGED <<files, exits, crashes, edits, faults, calls>>

-----------------------------------------------------------------------------
(* Edits by hand *)

Edit(d) ==
  /\ edits < MaxEdits /\ edits' = edits + 1
  /\ touched' = touched \cup {d}
  /\ made' = Without(made, d)
  /\ call' = Disturb(call) /\ synced' = FALSE
  /\ UNCHANGED <<undone, abandoned, catalogued, faults, calls>>

WriteByHand(d) ==
  /\ Edit(d)
  /\ \E content \in Written \cup {Garbled} : disk' = With(disk, d, [config |-> content, script |-> "whole"])

RemoveByHand(d) == Edit(d) /\ d \in DOMAIN disk /\ disk' = Without(disk, d)

-----------------------------------------------------------------------------

Init ==
  /\ disk \in Initial /\ up = FALSE
  /\ catalog = <<>> /\ process = <<>> /\ exits = {} /\ restart = {} /\ made = <<>>
  /\ call = [c \in Callers |-> Idle]
  /\ touched = DOMAIN disk /\ undone = {} /\ abandoned = {} /\ synced = FALSE
  /\ edits = 0 /\ faults = 0 /\ crashes = 0 /\ calls = 0

Handler(c) ==
  \/ \E opts \in Requests : CreateStrategy(c, opts)
  \/ StatDir(c) \/ Mkdir(c) \/ OpenConfig(c) \/ WriteConfig(c) \/ OpenScript(c) \/ WriteScript(c) \/ Undo(c) \/ Rmdir(c)
  \/ ReloadStrategies(c) \/ DiscoverStrategies(c) \/ ScanDir(c) \/ LoadStrategyConfig(c) \/ SetAllStrategy(c)
  \/ \E n \in Names : StartStrategy(c, n)
  \/ StartStrategyByName(c)
  \/ Boot(c) \/ Start(c)

Next ==
  \/ \E c \in Callers : Handler(c)
  \/ \E n \in Names : StopStrategy(n) \/ handleProcessExit(n) \/ WriteByHand(n) \/ RemoveByHand(n)
  \/ \E x \in exits : decideRestart(x)
  \/ \E r \in restart : scheduleRestart(r)
  \/ Kill

Spec == Init /\ [][Next]_vars

-----------------------------------------------------------------------------
(* Properties *)

\* Creating a strategy is whole to everybody else: what CreateStrategy made stays, whoever
\* asks for the same name at the same time and whenever signalixd ends; no directory is left
\* half made when no CreateStrategy is at work on it, unless removing it failed or signalixd
\* ended in the middle; and a scan that meets one at work or left behind is not upset by it,
\* because the script comes last (Create, rollback, DiscoverStrategies).
CreationIsWhole ==
  /\ TypeOK
  /\ \A d \in DOMAIN made : d \in DOMAIN disk /\ disk[d] = [config |-> made[d], script |-> "whole"]
  /\ \A d \in DOMAIN disk \ (touched \cup abandoned) :
       \/ disk[d].script = "whole" /\ disk[d].config \in StrategyConfig
       \/ \E c \in Callers : call[c].name = d /\ call[c].at \in Making
  /\ \A d \in DOMAIN disk \ touched :
       disk[d].script # "none" => disk[d].config \in StrategyConfig \/ (disk[d].config = Absent /\ d \in undone)

\* The directories as a catalog: for each name the last complete directory that has it.
Listing ==
  LET lastOf(n) == Last({d \in Complete : disk[d].config.name = n})
  IN [n \in {disk[d].config.name : d \in Complete} |-> Entry(lastOf(n), disk[lastOf(n)].config)]

\* After a reload during which no file changed the catalog is that of the files, until the
\* next change or until a reload that a change has disturbed ends later; and what it lists
\* can be started: its interval resolves, unless it has none of its own and the default, which
\* nothing checks, is none either (ReloadStrategiesCatalog, validateConfig, launchStrategy).
SyncedIsListing ==
  /\ synced => catalog = Listing
  /\ \A n \in DOMAIN catalog :
       LET interval == catalog[n].config.interval
       IN ValidateInterval(ResolveInterval(catalog[n].config)) \/ (interval = "" /\ ~ValidateInterval(DefaultInterval))

\* A process is started from the entry the catalog has, and only if that is enabled.  Two things
\* a reload overtook are excepted: a call that found the strategy enabled before the reload
\* starts what is there now, and a restart starts once more the enabled entry that was there
\* when its strategy crashed (StartStrategy, handleProcessExit, scheduleRestart).
DisabledStaysDown ==
  [][\A n \in DOMAIN process' \ DOMAIN process :
       \/ /\ n \in DOMAIN catalog' /\ process'[n] = catalog'[n]
          /\ \/ catalog'[n].config.enabled
             \/ \E c \in Callers : call[c].op = "start" /\ call[c].name = n /\ ~call[c].calm /\ call'[c] = Idle
       \/ \E r \in restart \ restart' : r.name = n /\ ~r.calm /\ process'[n] = r.entry]_vars

=============================================================================
