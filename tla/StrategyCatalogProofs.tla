------------------------- MODULE StrategyCatalogProofs -------------------------
(***************************************************************************)
(* Proofs about StrategyCatalog: creating a strategy is whole to everybody *)
(* else, the catalog is the listing of the directory until the next        *)
(* change, and what is disabled in it stays down, for every set of         *)
(* directories, clients, configurations and requests and every bound.      *)
(***************************************************************************)
EXTENDS StrategyCatalog, FiniteSetTheorems, TLAPS

\* Between Mkdir and the end of Create its directory is the caller's.
Working == {"config", "write", "script", "fill", "undo", "rmdir"}
Creating == {"stat", "mkdir"} \cup Working

\* Valid strategies under their own names.
Strategies(f) ==
  DOMAIN f \subseteq Names /\ \A n \in DOMAIN f : Catalogued(n, f[n])

\* A directory is its two files, each of them missing, begun or there.
Scripts == {"none", "part", "whole"}
Row == [config : StrategyConfig \cup {Absent, Garbled}, script : Scripts]
Rows == \A d \in DOMAIN disk : disk[d] \in Row

\* What a caller has read is valid, and what it creates was checked.
Sound(r) ==
  /\ DOMAIN r = DOMAIN Idle /\ r.op \in {"none", "boot", "reload", "create", "start"} /\ r.calm \in BOOLEAN
  /\ r.at \in {"idle", "list", "scan", "read", "launch"} \cup Creating
  /\ r.op = "start" <=> r.at = "launch"
  /\ r.todo \subseteq Names /\ Strategies(r.found)
  /\ r.at = "read" => r.todo # {}
  /\ r.at \notin {"scan", "read"} => r.found = <<>>
  /\ r.at \in Creating => r.opts \in Requests /\ r.name = r.opts.name /\ mapScaffoldErr(r.opts) = "ok"
Called == \A c \in Callers : Sound(call[c])

\* Nobody else works in a directory that people keep out of.
Alone ==
  \A c, e \in Callers :
    call[c].at \in Working /\ call[e].at \in Working /\ call[c].name = call[e].name /\ call[c].name \notin touched => c = e

\* What the directory holds at each stage of Create.
Stage(c) ==
  /\ call[c].name \in DOMAIN disk \ DOMAIN made
  /\ call[c].at = "config" => disk[call[c].name] = NoFiles
  /\ call[c].at = "write" => disk[call[c].name] = [config |-> Garbled, script |-> "none"]
  /\ call[c].at = "script" => disk[call[c].name] = [config |-> ConfigFor(call[c].opts), script |-> "none"]
  /\ call[c].at = "fill" => disk[call[c].name] = [config |-> ConfigFor(call[c].opts), script |-> "part"]
  /\ call[c].at = "rmdir" => call[c].name \in undone
Staged == \A c \in Callers : call[c].at \in Working /\ call[c].name \notin touched => Stage(c)

\* The three promises of CreationIsWhole.
Kept ==
  \A d \in DOMAIN made : d \in DOMAIN disk \ touched /\ disk[d] = [config |-> made[d], script |-> "whole"]
NoHalves ==
  \A d \in DOMAIN disk \ (touched \cup abandoned) :
    \/ disk[d].script = "whole" /\ disk[d].config \in StrategyConfig
    \/ \E c \in Callers : call[c].name = d /\ call[c].at \in Working
ScriptLast ==
  \A d \in DOMAIN disk \ touched :
    disk[d].script # "none" => disk[d].config \in StrategyConfig \/ (disk[d].config = Absent /\ d \in undone)

\* f is what a scan of the directories in dirs finds: for each name the last of them.
Found(f, dirs) ==
  /\ f = [n \in DOMAIN f |-> f[n]]
  /\ \A d \in dirs \cap Complete : Readable(d) /\ disk[d].config.name \in DOMAIN f
  /\ \A n \in DOMAIN f : \E d \in dirs \cap Complete :
       /\ disk[d].config.name = n /\ f[n] = Entry(d, disk[d].config)
       /\ \A e \in (dirs \cap Complete) \ {d} : disk[e].config.name = n => Before(e, d)

\* A scan that nothing has disturbed has read the first directories as they are.
Scanned ==
  \A c \in Callers : call[c].at \in {"scan", "read"} /\ call[c].calm =>
    /\ call[c].todo \subseteq DOMAIN disk
    /\ \A d \in DOMAIN disk \ call[c].todo, e \in call[c].todo : Before(d, e)
    /\ Found(call[c].found, DOMAIN disk \ call[c].todo)
    /\ call[c].at = "read" => First(call[c].todo) \in Complete

Synced == synced => Found(catalog, DOMAIN disk)

\* A start under way goes by an enabled entry and a restart that waits by the one the catalog
\* has, unless a reload overtook them.
Enabled(n) == n \in DOMAIN catalog /\ catalog[n].config.enabled
Started == \A c \in Callers : call[c].at = "launch" /\ call[c].calm => Enabled(call[c].name)
Restarting == \A r \in restart : r.calm => r.name \in DOMAIN catalog /\ catalog[r.name] = r.entry

IInv ==
  /\ TypeOK /\ Rows /\ Called /\ Alone /\ Staged /\ Kept /\ NoHalves /\ ScriptLast
  /\ Scanned /\ Synced /\ Started /\ Restarting

-----------------------------------------------------------------------------
(* The order of the directories *)

LEMMA Values ==
  /\ Written \subseteq StrategyConfig /\ Requests \subseteq CreateOptions
  /\ Absent # Garbled /\ Absent \notin StrategyConfig /\ Garbled \notin StrategyConfig
  /\ MaxEdits \in Nat /\ MaxFaults \in Nat /\ MaxCrashes \in Nat /\ MaxCalls \in Nat
BY CatalogAssumption

\* A directory has one place, and of two directories one comes first.
LEMMA BeforeOrders ==
  /\ \A d, e : Before(d, e) => d \in Names /\ e \in Names /\ d # e /\ ~Before(e, d)
  /\ \A d, e, f : Before(d, e) /\ Before(e, f) => Before(d, f)
  /\ \A d, e \in Names : d = e \/ Before(d, e) \/ Before(e, d)
<1>1. /\ DOMAIN Dirs = 1..Len(Dirs) /\ Len(Dirs) \in Nat
      /\ \A i, j \in DOMAIN Dirs : Dirs[i] = Dirs[j] => i = j
      /\ Names = {Dirs[i] : i \in DOMAIN Dirs}
  BY CatalogAssumption DEF IsInjective, Names, Range
<1>2. \A d, e : Before(d, e) => d \in Names /\ e \in Names /\ d # e /\ ~Before(e, d)
  BY <1>1 DEF Before
<1>3. \A d, e, f : Before(d, e) /\ Before(e, f) => Before(d, f)
  BY <1>1 DEF Before
<1>4. \A d, e \in Names : d = e \/ Before(d, e) \/ Before(e, d)
  BY <1>1 DEF Before
<1> QED
  BY <1>2, <1>3, <1>4

\* Induction on the numbers up to n, from what is known of finite sets.
LEMMA UpTo ==
  ASSUME NEW n \in Nat, NEW S, 0 \in S, \A i \in 0..(n - 1) : i \in S => i + 1 \in S
  PROVE  0..n \subseteq S
<1> SUFFICES ASSUME NEW m \in 0..n, m \notin S
             PROVE  FALSE
  OBVIOUS
<1> DEFINE Left == (0..m) \ S
           f == [i \in Left |-> i - 1]
<1>1. IsFiniteSet(Left)
  <2>1. IsFiniteSet(0..m)
    BY FS_Interval
  <2> QED
    BY <2>1, FS_Subset
<1>2. \A i \in Left : i - 1 \in Left /\ i \in 0..m
  OBVIOUS
<1>3. f \in Injection(Left, Left)
  BY <1>2 DEF Injection, IsInjective
<1>4. f \in Surjection(Left, Left)
  BY <1>1, <1>3, FS_Injection
<1>5. m \in Left
  OBVIOUS
<1>6. PICK i \in Left : i - 1 = m
  BY <1>4, <1>5 DEF Surjection
<1> QED
  BY <1>2, <1>6

\* A set of numbers has a least one, and one of numbers up to n a greatest one.
LEMMA Least ==
  ASSUME NEW S, S \subseteq Nat, S # {}
  PROVE  \E i \in S : \A j \in S : i <= j
<1> SUFFICES ASSUME \A i \in S : \E j \in S : j < i
             PROVE  FALSE
  <2>1. \A i, j \in S : i <= j \/ j < i
    OBVIOUS
  <2> QED
    BY <2>1
<1> PICK m \in S : TRUE
  OBVIOUS
<1> DEFINE Below == {k \in Nat : \A j \in S : k < j}
<1>1. 0 \in Below
  <2>1. ASSUME NEW j \in S, ~(0 < j)
        PROVE  FALSE
    <3>1. j = 0
      BY <2>1
    <3> QED
      BY <3>1
  <2> QED
    BY <2>1
<1>2. ASSUME NEW k \in 0..(m - 1), k \in Below
      PROVE  k + 1 \in Below
  <2>1. k + 1 \in Nat /\ \A j \in S : k < j
    BY <1>2
  <2>2. ASSUME NEW j \in S, ~(k + 1 < j)
        PROVE  FALSE
    <3>1. j = k + 1
      BY <2>1, <2>2
    <3>2. PICK l \in S : l < j
      OBVIOUS
    <3>3. k < l /\ l \in Nat /\ j \in Nat
      BY <2>1, <3>2
    <3> QED
      BY <3>1, <3>2, <3>3
  <2> QED
    BY <2>1, <2>2
<1>3. 0..m \subseteq Below
  <2>1. m \in Nat
    OBVIOUS
  <2> HIDE DEF Below
  <2> QED
    BY <1>1, <1>2, <2>1, UpTo
<1>4. m \in Below
  BY <1>3
<1> QED
  BY <1>4

LEMMA Greatest ==
  ASSUME NEW n \in Nat, NEW S, S \subseteq 1..n, S # {}
  PROVE  \E i \in S : \A j \in S : j <= i
<1> DEFINE T == {n - i : i \in S}
<1>1. \A i \in S : n - i \in Nat
  OBVIOUS
<1>2. T \subseteq Nat /\ T # {}
  BY <1>1
<1>3. PICK k \in T : \A j \in T : k <= j
  <2> HIDE DEF T
  <2> QED
    BY <1>2, Least
<1>4. PICK i \in S : k = n - i
  OBVIOUS
<1>5. ASSUME NEW j \in S
      PROVE  j <= i
  <2>1. n - i <= n - j
    BY <1>3, <1>4
  <2>2. i \in Int /\ j \in Int
    OBVIOUS
  <2> QED
    BY <2>1, <2>2
<1> QED
  BY <1>5

\* Any set of directories has a first and a last one.
LEMMA FirstLast ==
  ASSUME NEW dirs, dirs \subseteq Names, dirs # {}
  PROVE  /\ First(dirs) \in dirs /\ \A e \in dirs \ {First(dirs)} : Before(First(dirs), e)
         /\ Last(dirs) \in dirs /\ \A e \in dirs \ {Last(dirs)} : Before(e, Last(dirs))
<1> DEFINE S == {i \in DOMAIN Dirs : Dirs[i] \in dirs}
<1>1. /\ DOMAIN Dirs = 1..Len(Dirs) /\ Len(Dirs) \in Nat
      /\ Names = {Dirs[i] : i \in DOMAIN Dirs}
  BY CatalogAssumption DEF Names, Range
<1>2. S \subseteq 1..Len(Dirs) /\ S # {}
  BY <1>1
<1>3. \A e \in dirs : \E i \in S : Dirs[i] = e
  BY <1>1
<1>4. PICK i \in S : \A j \in S : i <= j
  <2>1. S \subseteq Nat
    BY <1>1
  <2> HIDE DEF S
  <2> QED
    BY <1>2, <2>1, Least
<1>5. PICK k \in S : \A j \in S : j <= k
  <2> HIDE DEF S
  <2> QED
    BY <1>1, <1>2, Greatest
<1>6. \A a, b \in S : a <= b => Dirs[a] = Dirs[b] \/ Before(Dirs[a], Dirs[b])
  BY <1>1 DEF Before
<1>7. Dirs[i] \in dirs /\ \A e \in dirs \ {Dirs[i]} : Before(Dirs[i], e)
  <2>1. Dirs[i] \in dirs
    OBVIOUS
  <2> HIDE DEF S
  <2> QED
    BY <1>3, <1>4, <1>6, <2>1
<1>8. Dirs[k] \in dirs /\ \A e \in dirs \ {Dirs[k]} : Before(e, Dirs[k])
  <2>1. Dirs[k] \in dirs
    OBVIOUS
  <2> HIDE DEF S
  <2> QED
    BY <1>3, <1>5, <1>6, <2>1
<1>9. First(dirs) \in dirs /\ \A e \in dirs \ {First(dirs)} : Before(First(dirs), e)
  BY <1>7, Zenon DEF First
<1>10. Last(dirs) \in dirs /\ \A e \in dirs \ {Last(dirs)} : Before(e, Last(dirs))
  BY <1>8, Zenon DEF Last
<1> QED
  BY <1>9, <1>10

-----------------------------------------------------------------------------
(* Maps and configurations *)

LEMMA StrategiesWith ==
  ASSUME NEW f, Strategies(f), NEW n \in Names, NEW st, Catalogued(n, st)
  PROVE  Strategies(With(f, n, st))
<1> DEFINE g == With(f, n, st)
<1>1. DOMAIN g = DOMAIN f \cup {n} /\ g[n] = st /\ \A k \in DOMAIN f \ {n} : g[k] = f[k]
  BY DEF With
<1> HIDE DEF g
<1>2. Strategies(g)
  BY <1>1 DEF Strategies
<1> QED
  BY <1>2 DEF g

LEMMA StrategiesWithout ==
  ASSUME NEW f, Strategies(f), NEW n
  PROVE  Strategies(Without(f, n))
<1> DEFINE g == Without(f, n)
<1>1. DOMAIN g = DOMAIN f \ {n} /\ \A k \in DOMAIN f \ {n} : g[k] = f[k]
  BY DEF Without, Restrict
<1> HIDE DEF g
<1>2. Strategies(g)
  BY <1>1 DEF Strategies
<1> QED
  BY <1>2 DEF g

\* A valid configuration can be catalogued, and started unless it has no interval and the
\* default is none.
LEMMA ValidConfig ==
  /\ \A config \in StrategyConfig : validateConfig(config) => config.name \in Names
  /\ \A config : validateConfig(config) =>
       ValidateInterval(ResolveInterval(config)) \/ (config.interval = "" /\ ~ValidateInterval(DefaultInterval))
<1>1. \A config \in StrategyConfig : validateConfig(config) => config.name \in Names
  <2> SUFFICES ASSUME NEW config \in StrategyConfig, validateConfig(config)
               PROVE  config.name \in Names
    OBVIOUS
  <2>1. config.name \in Names \cup {""}
    BY DEF StrategyConfig
  <2>2. config.name # ""
    BY Zenon DEF validateConfig
  <2> QED
    BY <2>1, <2>2
<1>2. ASSUME NEW config, validateConfig(config)
      PROVE  ValidateInterval(ResolveInterval(config)) \/ (config.interval = "" /\ ~ValidateInterval(DefaultInterval))
  <2>1. config.interval # "" => ValidateInterval(config.interval)
    BY <1>2, Zenon DEF validateConfig
  <2>2. ResolveInterval(config) = IF config.interval = "" THEN DefaultInterval ELSE config.interval
    BY Zenon DEF ResolveInterval
  <2> QED
    BY <2>1, <2>2, Zenon
<1> QED
  BY <1>1, <1>2

\* The template with the options of an accepted request is a configuration.
LEMMA RequestConfig ==
  ASSUME NEW opts \in Requests, mapScaffoldErr(opts) = "ok"
  PROVE  opts.name \in Names /\ ConfigFor(opts) \in StrategyConfig
<1>1. opts \in CreateOptions
  BY Values
<1>2. opts.name \in Names
  BY <1>1 DEF mapScaffoldErr, ValidateName
<1>3. /\ opts.symbols \in {"none", "blank", "some"} /\ opts.interval \in {"", "1m", "2m", NoOption}
      /\ opts.bars \in Int \cup {NoOption} /\ opts.enabled \in BOOLEAN \cup {NoOption}
  BY <1>1 DEF CreateOptions, Option
<1> DEFINE base == loadTemplateConfig(opts.template)
<1>4. base \in StrategyConfig
  <2>1. (IF opts.template = "trend" THEN 100 ELSE 0) \in Int
    OBVIOUS
  <2> QED
    BY <2>1, Zenon DEF loadTemplateConfig, StrategyConfig
<1>5. base.interval \in {"", "1m", "5m", "2m"} /\ base.bars \in Int /\ base.symbols \in {"none", "blank", "some"}
  BY <1>4 DEF StrategyConfig
<1>6. /\ Or(opts.enabled, FALSE) \in BOOLEAN /\ Or(opts.interval, base.interval) \in {"", "1m", "5m", "2m"}
      /\ Or(opts.bars, base.bars) \in Int
      /\ (IF opts.symbols = "none" THEN base.symbols ELSE opts.symbols) \in {"none", "blank", "some"}
  BY <1>3, <1>5 DEF Or
<1>7. ConfigFor(opts) = mergeConfig(base, opts)
  BY DEF ConfigFor
<1> HIDE DEF base
<1>8. ConfigFor(opts) \in StrategyConfig
  BY <1>2, <1>4, <1>6, <1>7 DEF mergeConfig, StrategyConfig
<1> QED
  BY <1>2, <1>8

-----------------------------------------------------------------------------
(* The steps *)

\* A call that a step of somebody else leaves where it is.
Waits(c) ==
  /\ DOMAIN call'[c] = DOMAIN call[c] /\ call'[c].op = call[c].op /\ call'[c].at = call[c].at
  /\ call'[c].name = call[c].name /\ call'[c].opts = call[c].opts
  /\ call'[c].todo = call[c].todo /\ call'[c].found = call[c].found
  /\ call'[c].calm \in {call[c].calm, FALSE}
  /\ call'[c].calm => IF call[c].op = "start" THEN catalog' = catalog ELSE disk' = disk
Others(c) == DOMAIN call' = Callers /\ \A e \in Callers \ {c} : Waits(e)

\* A call that goes on, with nothing read.
Goes(c, at) ==
  /\ Others(c) /\ call'[c].at = at
  /\ DOMAIN call'[c] = DOMAIN call[c] /\ call'[c].op = call[c].op
  /\ call'[c].name = call[c].name /\ call'[c].opts = call[c].opts
  /\ call'[c].todo = call[c].todo /\ call'[c].found = call[c].found
  /\ call'[c].calm \in {call[c].calm, FALSE} /\ (call'[c].calm => disk' = disk)
Returns(c) == Others(c) /\ call'[c] = Idle

LEMMA GotoGoes ==
  ASSUME TypeOK, Called, NEW c \in Callers, NEW at, Goto(c, at), disk' = disk, catalog' = catalog
  PROVE  Goes(c, at)
<1>1. DOMAIN call = Callers /\ \A e \in Callers : DOMAIN call[e] = DOMAIN Idle
  BY Zenon DEF TypeOK, Called, Sound
<1>2. DOMAIN Idle = {"op", "at", "name", "opts", "todo", "found", "calm"}
  BY DEF Idle
<1> QED
  BY <1>1, <1>2 DEF Goto, Goes, Others, Waits

LEMMA ReturnReturns ==
  ASSUME TypeOK, Called, NEW c \in Callers, Return(c), disk' = disk, catalog' = catalog
  PROVE  Returns(c)
<1>1. DOMAIN call = Callers /\ \A e \in Callers : DOMAIN call[e] = DOMAIN Idle
  BY Zenon DEF TypeOK, Called, Sound
<1> QED
  BY <1>1 DEF Return, Returns, Others, Waits

\* A step that writes a directory disturbs every scan.
LEMMA PutGoes ==
  ASSUME TypeOK, Called, NEW c \in Callers, NEW d, NEW content, NEW at, Put(c, d, content, at), catalog' = catalog,
         call[c].op # "start"
  PROVE  Goes(c, at) /\ disk' = With(disk, d, content) /\ synced' = FALSE
<1>1. DOMAIN call = Callers /\ \A e \in Callers : DOMAIN call[e] = DOMAIN Idle
  BY Zenon DEF TypeOK, Called, Sound
<1>2. DOMAIN Idle = {"op", "at", "name", "opts", "todo", "found", "calm"}
  BY DEF Idle
<1>3. call' = [Disturb(call) EXCEPT ![c].at = at]
  BY DEF Put
<1>4. DOMAIN Disturb(call) = Callers
  BY DEF Disturb
<1>5. \A e \in Callers : Disturb(call)[e] = IF call[e].op = "start" THEN call[e] ELSE [call[e] EXCEPT !.calm = FALSE]
  BY DEF Disturb
<1>6. Goes(c, at)
  BY <1>1, <1>2, <1>3, <1>4, <1>5, ZenonT(40) DEF Goes, Others, Waits
<1> QED
  BY <1>6 DEF Put

\* Parts that a step leaves alone.
FilesKept == disk' = disk /\ touched' = touched /\ undone' = undone /\ abandoned' = abandoned /\ made' = made
CatalogKept == up' = up /\ catalog' = catalog /\ exits' = exits /\ restart' = restart
Apart == CatalogKept /\ process' = process /\ synced' = synced

\* Calls that come and go.
Comes(c) ==
  /\ FilesKept /\ Apart /\ Others(c) /\ call[c] = Idle
  /\ \/ Waits(c)
     \/ \E opts \in Requests :
          /\ mapScaffoldErr(opts) = "ok"
          /\ call'[c] = [Idle EXCEPT !.op = "create", !.at = "stat", !.name = opts.name, !.opts = opts]
     \/ \E op \in {"reload", "boot"} : call'[c] = [Idle EXCEPT !.op = op, !.at = "list"]
     \/ \E n \in Names : Enabled(n) /\ call'[c] = [Idle EXCEPT !.op = "start", !.at = "launch", !.name = n]
Leaves(c) == FilesKept /\ Apart /\ call[c].at \in {"stat", "mkdir", "list", "read"} /\ Returns(c)

\* A step of Create that writes nothing.
Decides(c) ==
  /\ FilesKept /\ Apart
  /\ \/ call[c].at = "stat" /\ Goes(c, "mkdir")
     \/ call[c].at \in {"config", "write", "script", "fill"} /\ Goes(c, "undo")
     \/ call[c].at = "write" /\ call[c].name \notin DOMAIN disk /\ Goes(c, "script")
     \/ call[c].at = "fill" /\ call[c].name \notin DOMAIN disk /\ Goes(c, "list")

\* One that writes its directory.
Fills(c, from, content, to) ==
  call[c].at = from /\ Goes(c, to) /\ disk' = With(disk, call[c].name, content)
Makes(c) ==
  LET d == call[c].name
  IN /\ touched' = touched /\ undone' = undone /\ abandoned' = abandoned
     /\ CatalogKept /\ process' = process /\ synced' = FALSE
     /\ \/ /\ made' = made
           /\ \/ d \notin DOMAIN disk /\ Fills(c, "mkdir", NoFiles, "config")
              \/ d \in DOMAIN disk /\ Fills(c, "config", [disk[d] EXCEPT !.config = Garbled], "write")
              \/ /\ d \in DOMAIN disk
                 /\ Fills(c, "write", [disk[d] EXCEPT !.config = ConfigFor(call[c].opts)], "script")
              \/ d \in DOMAIN disk /\ Fills(c, "script", [disk[d] EXCEPT !.script = "part"], "fill")
        \/ /\ d \in DOMAIN disk /\ Fills(c, "fill", [disk[d] EXCEPT !.script = "whole"], "list")
           /\ made' = IF d \in touched THEN made ELSE With(made, d, disk[d].config)
\* One that takes it back, or fails to.
Undoes(c) ==
  LET d == call[c].name
  IN /\ touched' = touched /\ made' = made /\ CatalogKept /\ process' = process
     /\ \/ /\ undone' = undone \cup {d} /\ abandoned' = abandoned
           /\ \/ /\ d \in DOMAIN disk /\ synced' = FALSE
                 /\ \E less \in {[disk[d] EXCEPT !.config = Absent], [disk[d] EXCEPT !.script = "none"]} :
                      Fills(c, "undo", less, "rmdir")
              \/ call[c].at = "undo" /\ d \notin DOMAIN disk /\ Goes(c, "rmdir") /\ disk' = disk /\ synced' = synced
        \/ /\ call[c].at = "undo" /\ undone' = undone \cup {d} /\ abandoned' = abandoned \cup {d}
           /\ disk' = disk /\ Returns(c) /\ synced' = synced
        \/ /\ call[c].at = "rmdir" /\ undone' = undone /\ Returns(c) /\ synced' = FALSE
           /\ \/ disk' = Without(disk, d) /\ abandoned' = abandoned
              \/ /\ d \in DOMAIN disk /\ abandoned' = abandoned \cup {d}
                 /\ \E left \in {disk[d], NoFiles} : disk' = With(disk, d, left)

\* The reader of the directory.
Reads(c) ==
  LET d == First(call[c].todo)
  IN /\ FilesKept /\ Apart /\ Others(c)
     /\ DOMAIN call'[c] = DOMAIN call[c] /\ call'[c].op = call[c].op
     /\ \/ call[c].at = "list" /\ call'[c].at = "scan" /\ call'[c].calm = TRUE
           /\ call'[c].todo = DOMAIN disk /\ call'[c].found = call[c].found
        \/ /\ call[c].at = "scan" /\ call[c].todo # {} /\ call'[c].calm = call[c].calm
           /\ call'[c].found = call[c].found
           /\ \/ d \in Complete /\ call'[c].at = "read" /\ call'[c].todo = call[c].todo
              \/ d \notin Complete /\ call'[c].at = "scan" /\ call'[c].todo = call[c].todo \ {d}
        \/ /\ call[c].at = "read" /\ Readable(d) /\ call'[c].calm = call[c].calm
           /\ call'[c].at = "scan" /\ call'[c].todo = call[c].todo \ {d}
           /\ call'[c].found = With(call[c].found, disk[d].config.name, Entry(d, disk[d].config))
Sets(c) ==
  /\ call[c].at = "scan" /\ call[c].todo = {}
  /\ FilesKept /\ catalog' = call[c].found /\ synced' = call[c].calm
  /\ exits' = exits /\ restart' = {[r EXCEPT !.calm = FALSE] : r \in restart}
  /\ \/ up' = up /\ process' = process
     \/ /\ up' = TRUE
        /\ \E names \in SUBSET {n \in DOMAIN catalog' : catalog'[n].config.enabled} :
             process' = [n \in names |-> catalog'[n]]
  /\ Returns(c)

\* Processes that start and end.
Launches(c) ==
  LET n == call[c].name
  IN /\ call[c].at = "launch" /\ FilesKept /\ CatalogKept /\ synced' = synced /\ Returns(c)
     /\ \/ process' = process
        \/ n \in DOMAIN catalog /\ process' = With(process, n, catalog[n])
Crashes ==
  /\ FilesKept /\ up' = up /\ catalog' = catalog /\ synced' = synced /\ call' = call
  /\ \/ /\ restart' = restart
        /\ \E n \in Names : /\ process' = Without(process, n)
                           /\ \/ exits' = exits
                              \/ \E id : exits' = exits \cup {[id |-> id, name |-> n]}
     \/ /\ process' = process
        /\ \E x \in exits :
             /\ exits' = exits \ {x}
             /\ \/ restart' = restart
                \/ /\ Enabled(x.name)
                   /\ restart' = restart \cup {[id |-> x.id, name |-> x.name, entry |-> catalog[x.name], calm |-> TRUE]}
     \/ \E r \in restart :
          /\ exits' = exits /\ restart' = restart \ {r}
          /\ (process' = process \/ process' = With(process, r.name, r.entry))

\* The end of signalixd.
Kills ==
  /\ up' = FALSE /\ catalog' = <<>> /\ process' = <<>> /\ exits' = {} /\ restart' = {} /\ synced' = FALSE
  /\ disk' = disk /\ touched' = touched /\ undone' = undone /\ made' = made
  /\ abandoned' = abandoned \cup {call[c].name : c \in {b \in Callers : call[b].at \in Working}}
  /\ DOMAIN call' = Callers /\ \A c \in Callers : call'[c] = Idle

\* People who write or remove a directory.
Edits(d) ==
  /\ touched' = touched \cup {d} /\ made' = Without(made, d) /\ undone' = undone /\ abandoned' = abandoned
  /\ CatalogKept /\ process' = process /\ synced' = FALSE
  /\ DOMAIN call' = Callers /\ \A c \in Callers : Waits(c)
  /\ \/ disk' = Without(disk, d)
     \/ \E content \in Written \cup {Garbled} : disk' = With(disk, d, [config |-> content, script |-> "whole"])

Stays == FilesKept /\ Apart /\ call' = call

\* A disturbed scan stays where it is.
LEMMA DisturbedWaits ==
  ASSUME TypeOK, Called, NEW c \in Callers, call'[c] = Disturb(call)[c], catalog' = catalog
  PROVE  Waits(c)
<1>1. DOMAIN call[c] = {"op", "at", "name", "opts", "todo", "found", "calm"}
  BY DEF Called, Sound, Idle
<1>2. call'[c] = IF call[c].op = "start" THEN call[c] ELSE [call[c] EXCEPT !.calm = FALSE]
  BY DEF Disturb
<1> QED
  BY <1>1, <1>2 DEF Waits

LEMMA CreateKinds ==
  ASSUME TypeOK, Called, NEW c \in Callers
  PROVE  /\ StatDir(c) => Leaves(c) \/ Decides(c)
         /\ Mkdir(c) => Leaves(c) \/ Makes(c)
         /\ OpenConfig(c) \/ WriteConfig(c) \/ OpenScript(c) \/ WriteScript(c) => Decides(c) \/ Makes(c)
         /\ Undo(c) \/ Rmdir(c) => Undoes(c)
<1>1. call[c].at \in Creating => call[c].op # "start"
  BY Zenon DEF Called, Sound, Creating, Working
<1>2. UNCHANGED catalogued => CatalogKept /\ process' = process
  BY Zenon DEF catalogued, CatalogKept
<1>3. StatDir(c) => Leaves(c) \/ Decides(c)
  <2> SUFFICES ASSUME StatDir(c)
               PROVE  Leaves(c) \/ Decides(c)
    OBVIOUS
  <2>1. FilesKept /\ Apart /\ call[c].at = "stat"
    BY <1>2, Zenon DEF StatDir, FilesKept, files, Apart
  <2>2. Return(c) \/ Goto(c, "mkdir")
    BY Zenon DEF StatDir
  <2>3. Return(c) => Returns(c)
    BY <2>1, ReturnReturns, Zenon DEF FilesKept, Apart, CatalogKept
  <2>4. Goto(c, "mkdir") => Goes(c, "mkdir")
    BY <2>1, GotoGoes, Zenon DEF FilesKept, Apart, CatalogKept
  <2> QED
    BY <2>1, <2>2, <2>3, <2>4 DEF Leaves, Decides
<1>4. Mkdir(c) => Leaves(c) \/ Makes(c)
  <2> SUFFICES ASSUME Mkdir(c)
               PROVE  Leaves(c) \/ Makes(c)
    OBVIOUS
  <2>1. /\ call[c].at = "mkdir" /\ touched' = touched /\ undone' = undone /\ abandoned' = abandoned /\ made' = made
        /\ CatalogKept /\ process' = process
    BY <1>2, Zenon DEF Mkdir
  <2>2. \/ Return(c) /\ disk' = disk /\ synced' = synced
        \/ call[c].name \notin DOMAIN disk /\ Put(c, call[c].name, NoFiles, "config")
    BY Zenon DEF Mkdir
  <2>3. ASSUME Return(c), disk' = disk, synced' = synced
        PROVE  Leaves(c)
    BY <2>1, <2>3, ReturnReturns DEF Leaves, FilesKept, Apart, CatalogKept
  <2>4. ASSUME call[c].name \notin DOMAIN disk, Put(c, call[c].name, NoFiles, "config")
        PROVE  Makes(c)
    <3>1. call[c].op # "start"
      BY <1>1, <2>1 DEF Creating
    <3>2. Goes(c, "config") /\ disk' = With(disk, call[c].name, NoFiles) /\ synced' = FALSE
      BY <2>1, <2>4, <3>1, PutGoes DEF CatalogKept
    <3> QED
      BY <2>1, <2>4, <3>2, Zenon DEF Makes, Fills
  <2> QED
    BY <2>2, <2>3, <2>4
<1>5. OpenConfig(c) => Decides(c) \/ Makes(c)
  <2> SUFFICES ASSUME OpenConfig(c)
               PROVE  Decides(c) \/ Makes(c)
    OBVIOUS
  <2> DEFINE content == [disk[call[c].name] EXCEPT !.config = Garbled]
  <2>1. /\ call[c].at = "config" /\ touched' = touched /\ undone' = undone /\ abandoned' = abandoned /\ made' = made
        /\ CatalogKept /\ process' = process
    BY <1>2, Zenon DEF OpenConfig
  <2>2. \/ call[c].name \in DOMAIN disk /\ Put(c, call[c].name, content, "write")
        \/ Goto(c, "undo") /\ disk' = disk /\ synced' = synced
    BY Zenon DEF OpenConfig
  <2>3. ASSUME Goto(c, "undo"), disk' = disk, synced' = synced
        PROVE  Decides(c)
    BY <2>1, <2>3, GotoGoes DEF Decides, FilesKept, Apart, CatalogKept
  <2>4. ASSUME call[c].name \in DOMAIN disk, Put(c, call[c].name, content, "write")
        PROVE  Makes(c)
    <3>1. call[c].op # "start"
      BY <1>1, <2>1 DEF Creating, Working
    <3>2. Goes(c, "write") /\ disk' = With(disk, call[c].name, content) /\ synced' = FALSE
      BY <2>1, <2>4, <3>1, PutGoes DEF CatalogKept
    <3> QED
      BY <2>1, <2>4, <3>2, Zenon DEF Makes, Fills
  <2> QED
    BY <2>2, <2>3, <2>4
<1>6. WriteConfig(c) => Decides(c) \/ Makes(c)
  <2> SUFFICES ASSUME WriteConfig(c)
               PROVE  Decides(c) \/ Makes(c)
    OBVIOUS
  <2> DEFINE content == [disk[call[c].name] EXCEPT !.config = ConfigFor(call[c].opts)]
  <2>1. /\ call[c].at = "write" /\ touched' = touched /\ undone' = undone /\ abandoned' = abandoned /\ made' = made
        /\ CatalogKept /\ process' = process
    BY <1>2, Zenon DEF WriteConfig
  <2>2. \/ call[c].name \in DOMAIN disk /\ Put(c, call[c].name, content, "script")
        \/ call[c].name \notin DOMAIN disk /\ Goto(c, "script") /\ disk' = disk /\ synced' = synced
        \/ Goto(c, "undo") /\ disk' = disk /\ synced' = synced
    BY Zenon DEF WriteConfig
  <2>3. ASSUME Goto(c, "undo"), disk' = disk, synced' = synced
        PROVE  Decides(c)
    BY <2>1, <2>3, GotoGoes DEF Decides, FilesKept, Apart, CatalogKept
  <2>4. ASSUME call[c].name \notin DOMAIN disk, Goto(c, "script"), disk' = disk, synced' = synced
        PROVE  Decides(c)
    BY <2>1, <2>4, GotoGoes DEF Decides, FilesKept, Apart, CatalogKept
  <2>5. ASSUME call[c].name \in DOMAIN disk, Put(c, call[c].name, content, "script")
        PROVE  Makes(c)
    <3>1. call[c].op # "start"
      BY <1>1, <2>1 DEF Creating, Working
    <3>2. Goes(c, "script") /\ disk' = With(disk, call[c].name, content) /\ synced' = FALSE
      BY <2>1, <2>5, <3>1, PutGoes DEF CatalogKept
    <3> QED
      BY <2>1, <2>5, <3>2, Zenon DEF Makes, Fills
  <2> QED
    BY <2>2, <2>3, <2>4, <2>5
<1>7. OpenScript(c) => Decides(c) \/ Makes(c)
  <2> SUFFICES ASSUME OpenScript(c)
               PROVE  Decides(c) \/ Makes(c)
    OBVIOUS
  <2> DEFINE content == [disk[call[c].name] EXCEPT !.script = "part"]
  <2>1. /\ call[c].at = "script" /\ touched' = touched /\ undone' = undone /\ abandoned' = abandoned /\ made' = made
        /\ CatalogKept /\ process' = process
    BY <1>2, Zenon DEF OpenScript
  <2>2. \/ call[c].name \in DOMAIN disk /\ Put(c, call[c].name, content, "fill")
        \/ Goto(c, "undo") /\ disk' = disk /\ synced' = synced
    BY Zenon DEF OpenScript
  <2>3. ASSUME Goto(c, "undo"), disk' = disk, synced' = synced
        PROVE  Decides(c)
    BY <2>1, <2>3, GotoGoes DEF Decides, FilesKept, Apart, CatalogKept
  <2>4. ASSUME call[c].name \in DOMAIN disk, Put(c, call[c].name, content, "fill")
        PROVE  Makes(c)
    <3>1. call[c].op # "start"
      BY <1>1, <2>1 DEF Creating, Working
    <3>2. Goes(c, "fill") /\ disk' = With(disk, call[c].name, content) /\ synced' = FALSE
      BY <2>1, <2>4, <3>1, PutGoes DEF CatalogKept
    <3> QED
      BY <2>1, <2>4, <3>2, Zenon DEF Makes, Fills
  <2> QED
    BY <2>2, <2>3, <2>4
<1>8. WriteScript(c) => Decides(c) \/ Makes(c)
  <2> SUFFICES ASSUME WriteScript(c)
               PROVE  Decides(c) \/ Makes(c)
    OBVIOUS
  <2> DEFINE d == call[c].name
             content == [disk[call[c].name] EXCEPT !.script = "whole"]
  <2>1. /\ call[c].at = "fill" /\ touched' = touched /\ undone' = undone /\ abandoned' = abandoned
        /\ CatalogKept /\ process' = process
    BY <1>2, Zenon DEF WriteScript
  <2>2. \/ /\ d \in DOMAIN disk /\ Put(c, d, content, "list")
           /\ made' = IF d \in touched THEN made ELSE With(made, d, disk[d].config)
        \/ d \notin DOMAIN disk /\ Goto(c, "list") /\ disk' = disk /\ synced' = synced /\ made' = made
        \/ Goto(c, "undo") /\ disk' = disk /\ synced' = synced /\ made' = made
    <3>1. /\ d \in DOMAIN disk /\ d \in touched => d \notin DOMAIN disk \ touched
          /\ d \in DOMAIN disk /\ d \notin touched => d \in DOMAIN disk \ touched
          /\ d \notin DOMAIN disk => d \notin DOMAIN disk \ touched
      OBVIOUS
    <3>2. \/ /\ d \in DOMAIN disk /\ Put(c, d, content, "list")
             /\ made' = IF d \in DOMAIN disk \ touched THEN With(made, d, disk[d].config) ELSE made
          \/ /\ d \notin DOMAIN disk /\ Goto(c, "list") /\ disk' = disk /\ synced' = synced
             /\ made' = IF d \in DOMAIN disk \ touched THEN With(made, d, disk[d].config) ELSE made
          \/ Goto(c, "undo") /\ disk' = disk /\ synced' = synced /\ made' = made
      BY Zenon DEF WriteScript
    <3> HIDE DEF d, content
    <3> QED
      BY <3>1, <3>2, Zenon
  <2>3. ASSUME Goto(c, "undo"), disk' = disk, synced' = synced, made' = made
        PROVE  Decides(c)
    BY <2>1, <2>3, GotoGoes DEF Decides, FilesKept, Apart, CatalogKept
  <2>4. ASSUME d \notin DOMAIN disk, Goto(c, "list"), disk' = disk, synced' = synced, made' = made
        PROVE  Decides(c)
    BY <2>1, <2>4, GotoGoes DEF Decides, FilesKept, Apart, CatalogKept
  <2>5. ASSUME d \in DOMAIN disk, Put(c, d, content, "list"),
               made' = IF d \in touched THEN made ELSE With(made, d, disk[d].config)
        PROVE  Makes(c)
    <3>1. call[c].op # "start"
      BY <1>1, <2>1 DEF Creating, Working
    <3>2. Goes(c, "list") /\ disk' = With(disk, d, content) /\ synced' = FALSE
      BY <2>1, <2>5, <3>1, PutGoes DEF CatalogKept
    <3> QED
      BY <2>1, <2>5, <3>2, Zenon DEF Makes, Fills
  <2> QED
    BY <2>2, <2>3, <2>4, <2>5
<1>9. Undo(c) => Undoes(c)
  <2> SUFFICES ASSUME Undo(c)
               PROVE  Undoes(c)
    OBVIOUS
  <2> DEFINE Lesser == {[disk[call[c].name] EXCEPT !.config = Absent], [disk[call[c].name] EXCEPT !.script = "none"]}
  <2>1. /\ call[c].at = "undo" /\ touched' = touched /\ made' = made /\ undone' = undone \cup {call[c].name}
        /\ CatalogKept /\ process' = process
    BY <1>2, Zenon DEF Undo
  <2>2. \/ /\ call[c].name \in DOMAIN disk /\ abandoned' = abandoned
           /\ \E less \in Lesser : Put(c, call[c].name, less, "rmdir")
        \/ /\ call[c].name \notin DOMAIN disk /\ abandoned' = abandoned
           /\ Goto(c, "rmdir") /\ disk' = disk /\ synced' = synced
        \/ abandoned' = abandoned \cup {call[c].name} /\ Return(c) /\ disk' = disk /\ synced' = synced
    BY Zenon DEF Undo, Abandon
  <2>3. ASSUME call[c].name \notin DOMAIN disk, abandoned' = abandoned, Goto(c, "rmdir"), disk' = disk, synced' = synced
        PROVE  Undoes(c)
    <3>1. Goes(c, "rmdir")
      BY <2>1, <2>3, GotoGoes DEF CatalogKept
    <3> QED
      BY <2>1, <2>3, <3>1, Zenon DEF Undoes
  <2>4. ASSUME call[c].name \in DOMAIN disk, abandoned' = abandoned, NEW less \in Lesser,
               Put(c, call[c].name, less, "rmdir")
        PROVE  Undoes(c)
    <3>1. call[c].op # "start"
      BY <1>1, <2>1 DEF Creating, Working
    <3>2. Goes(c, "rmdir") /\ disk' = With(disk, call[c].name, less) /\ synced' = FALSE
      <4> HIDE DEF Lesser
      <4> QED
        BY <2>1, <2>4, <3>1, PutGoes DEF CatalogKept
    <3> QED
      BY <2>1, <2>4, <3>2, Zenon DEF Undoes, Fills
  <2>5. ASSUME abandoned' = abandoned \cup {call[c].name}, Return(c), disk' = disk, synced' = synced
        PROVE  Undoes(c)
    <3>1. Returns(c)
      BY <2>1, <2>5, ReturnReturns, Zenon DEF CatalogKept
    <3> QED
      BY <2>1, <2>5, <3>1, Zenon DEF Undoes
  <2> HIDE DEF Lesser
  <2> QED
    BY <2>2, <2>3, <2>4, <2>5, Zenon
<1>10. Rmdir(c) => Undoes(c)
  <2> SUFFICES ASSUME Rmdir(c)
               PROVE  Undoes(c)
    OBVIOUS
  <2>1. /\ call[c].at = "rmdir" /\ call' = [Disturb(call) EXCEPT ![c] = Idle]
        /\ synced' = FALSE /\ touched' = touched /\ made' = made /\ undone' = undone /\ CatalogKept /\ process' = process
    BY <1>2, Zenon DEF Rmdir
  <2>2. DOMAIN call = Callers
    BY Zenon DEF TypeOK
  <2>3. DOMAIN Disturb(call) = Callers
    BY DEF Disturb
  <2>4. DOMAIN call' = Callers /\ call'[c] = Idle /\ \A e \in Callers \ {c} : call'[e] = Disturb(call)[e]
    BY <2>1, <2>3
  <2>5. catalog' = catalog
    BY <2>1, Zenon DEF CatalogKept
  <2>6. Returns(c)
    BY <2>4, <2>5, DisturbedWaits, Zenon DEF Returns, Others
  <2>7. \/ disk' = Without(disk, call[c].name) /\ abandoned' = abandoned
        \/ /\ call[c].name \in DOMAIN disk /\ abandoned' = abandoned \cup {call[c].name}
           /\ \E left \in {disk[call[c].name], NoFiles} : disk' = With(disk, call[c].name, left)
    BY Zenon DEF Rmdir, Abandon
  <2> QED
    BY <2>1, <2>6, <2>7, Zenon DEF Undoes
<1> QED
  BY <1>3, <1>4, <1>5, <1>6, <1>7, <1>8, <1>9, <1>10, Zenon

LEMMA CallKinds ==
  ASSUME TypeOK, Called, NEW c \in Callers
  PROVE  /\ \A opts \in Requests : CreateStrategy(c, opts) => Comes(c)
         /\ ReloadStrategies(c) => Comes(c)
         /\ \A n \in Names : StartStrategy(c, n) => Comes(c)
         /\ DiscoverStrategies(c) \/ ScanDir(c) \/ LoadStrategyConfig(c) => Leaves(c) \/ Reads(c)
         /\ Boot(c) => Comes(c)
         /\ SetAllStrategy(c) \/ Start(c) => Sets(c)
         /\ StartStrategyByName(c) => Launches(c)
<1>1. /\ UNCHANGED catalogued => CatalogKept /\ process' = process
      /\ UNCHANGED files => FilesKept
  BY Zenon DEF catalogued, CatalogKept, files, FilesKept
<1>2. DOMAIN call = Callers /\ \A e \in Callers : DOMAIN call[e] = DOMAIN Idle
  BY Zenon DEF TypeOK, Called, Sound
<1>3. DOMAIN Idle = {"op", "at", "name", "opts", "todo", "found", "calm"}
  BY DEF Idle
<1>4. ASSUME NEW new, call' = [call EXCEPT ![c] = new], disk' = disk, catalog' = catalog
      PROVE  Others(c) /\ call'[c] = new
  BY <1>2, <1>4 DEF Others, Waits
<1>5. ASSUME NEW opts \in Requests, CreateStrategy(c, opts)
      PROVE  Comes(c)
  <2>1. FilesKept /\ Apart /\ call[c] = Idle
    BY <1>1, <1>5, Zenon DEF CreateStrategy, Apart
  <2>2. CASE mapScaffoldErr(opts) = "ok"
    <3>1. call' = [call EXCEPT ![c] = [Idle EXCEPT !.op = "create", !.at = "stat", !.name = opts.name, !.opts = opts]]
      BY <1>5, <2>2, Zenon DEF CreateStrategy
    <3>2. /\ Others(c)
          /\ call'[c] = [Idle EXCEPT !.op = "create", !.at = "stat", !.name = opts.name, !.opts = opts]
      BY <1>4, <2>1, <3>1, Zenon DEF FilesKept, Apart, CatalogKept
    <3> QED
      BY <2>1, <2>2, <3>2, Zenon DEF Comes
  <2>3. CASE mapScaffoldErr(opts) # "ok"
    <3>1. call' = call
      BY <1>5, <2>3, Zenon DEF CreateStrategy
    <3>2. Others(c) /\ Waits(c)
      BY <1>2, <2>1, <3>1, Zenon DEF Others, Waits, FilesKept, Apart, CatalogKept
    <3> QED
      BY <2>1, <3>2, Zenon DEF Comes
  <2> QED
    BY <2>2, <2>3
<1>6. ASSUME NEW op \in {"reload", "boot"}, (ReloadStrategies(c) /\ op = "reload") \/ (Boot(c) /\ op = "boot")
      PROVE  Comes(c)
  <2>1. /\ FilesKept /\ Apart /\ call[c] = Idle
        /\ call' = [call EXCEPT ![c] = [Idle EXCEPT !.op = op, !.at = "list"]]
    BY <1>1, <1>6, Zenon DEF ReloadStrategies, Begin, Boot, Apart
  <2>2. Others(c) /\ call'[c] = [Idle EXCEPT !.op = op, !.at = "list"]
    BY <1>4, <2>1, Zenon DEF FilesKept, Apart, CatalogKept
  <2> QED
    BY <2>1, <2>2, Zenon DEF Comes
<1>7. ASSUME NEW n \in Names, StartStrategy(c, n)
      PROVE  Comes(c)
  <2>1. /\ FilesKept /\ Apart /\ call[c] = Idle /\ Enabled(n)
        /\ call' = [call EXCEPT ![c] = [Idle EXCEPT !.op = "start", !.at = "launch", !.name = n]]
    BY <1>1, <1>7, Zenon DEF StartStrategy, Apart, Enabled
  <2>2. Others(c) /\ call'[c] = [Idle EXCEPT !.op = "start", !.at = "launch", !.name = n]
    BY <1>4, <2>1, Zenon DEF FilesKept, Apart, CatalogKept
  <2> QED
    BY <2>1, <2>2, Zenon DEF Comes
<1>8. ASSUME DiscoverStrategies(c)
      PROVE  Leaves(c) \/ Reads(c)
  <2>1. FilesKept /\ Apart /\ call[c].at = "list"
    BY <1>1, <1>8, Zenon DEF DiscoverStrategies, Apart
  <2>2. Return(c) => Returns(c)
    BY <2>1, ReturnReturns, Zenon DEF FilesKept, Apart, CatalogKept
  <2>3. ASSUME call' = [call EXCEPT ![c].at = "scan", ![c].todo = DOMAIN disk, ![c].calm = TRUE]
        PROVE  Reads(c)
    <3>1. /\ DOMAIN call'[c] = DOMAIN call[c] /\ call'[c].op = call[c].op /\ call'[c].at = "scan"
          /\ call'[c].todo = DOMAIN disk /\ call'[c].found = call[c].found /\ call'[c].calm = TRUE
      BY <1>2, <1>3, <2>3
    <3>2. Others(c)
      BY <1>2, <2>1, <2>3 DEF Others, Waits, FilesKept, Apart, CatalogKept
    <3> QED
      BY <2>1, <3>1, <3>2, Zenon DEF Reads
  <2>4. Return(c) \/ call' = [call EXCEPT ![c].at = "scan", ![c].todo = DOMAIN disk, ![c].calm = TRUE]
    BY <1>8, Zenon DEF DiscoverStrategies
  <2> QED
    BY <2>1, <2>2, <2>3, <2>4 DEF Leaves
<1>9. ASSUME ScanDir(c)
      PROVE  Reads(c)
  <2> DEFINE d == First(call[c].todo)
  <2>1. FilesKept /\ Apart /\ call[c].at = "scan" /\ call[c].todo # {}
    BY <1>1, <1>9, Zenon DEF ScanDir, Apart
  <2>2. \/ d \in Complete /\ call' = [call EXCEPT ![c].at = "read"]
        \/ d \notin Complete /\ call' = [call EXCEPT ![c].todo = @ \ {First(@)}]
    BY <1>9, Zenon DEF ScanDir, Goto
  <2> HIDE DEF d
  <2>3. ASSUME d \in Complete, call' = [call EXCEPT ![c].at = "read"]
        PROVE  Reads(c)
    <3>1. /\ DOMAIN call'[c] = DOMAIN call[c] /\ call'[c].op = call[c].op /\ call'[c].at = "read"
          /\ call'[c].todo = call[c].todo /\ call'[c].found = call[c].found /\ call'[c].calm = call[c].calm
      BY <1>2, <1>3, <2>3
    <3>2. Others(c)
      BY <1>2, <2>1, <2>3 DEF Others, Waits, FilesKept, Apart, CatalogKept
    <3> QED
      BY <2>1, <2>3, <3>1, <3>2, Zenon DEF Reads, d
  <2>4. ASSUME d \notin Complete, call' = [call EXCEPT ![c].todo = @ \ {First(@)}]
        PROVE  Reads(c)
    <3>1. /\ DOMAIN call'[c] = DOMAIN call[c] /\ call'[c].op = call[c].op /\ call'[c].at = "scan"
          /\ call'[c].todo = call[c].todo \ {d} /\ call'[c].found = call[c].found /\ call'[c].calm = call[c].calm
      BY <1>2, <1>3, <2>1, <2>4 DEF d
    <3>2. Others(c)
      BY <1>2, <2>1, <2>4 DEF Others, Waits, FilesKept, Apart, CatalogKept
    <3> QED
      BY <2>1, <2>4, <3>1, <3>2, Zenon DEF Reads, d
  <2> QED
    BY <2>2, <2>3, <2>4
<1>10. ASSUME LoadStrategyConfig(c)
       PROVE  Leaves(c) \/ Reads(c)
  <2> DEFINE d == First(call[c].todo)
             found == With(call[c].found, disk[d].config.name, Entry(d, disk[d].config))
  <2>1. FilesKept /\ Apart /\ call[c].at = "read"
    BY <1>1, <1>10, Zenon DEF LoadStrategyConfig, Apart
  <2>2. \/ /\ Readable(d)
           /\ call' = [call EXCEPT ![c].at = "scan", ![c].todo = @ \ {d},
                                   ![c].found = With(@, disk[d].config.name, Entry(d, disk[d].config))]
        \/ Return(c)
    BY <1>10, Zenon DEF LoadStrategyConfig
  <2> HIDE DEF d, found
  <2>3. Return(c) => Returns(c)
    BY <2>1, ReturnReturns, Zenon DEF FilesKept, Apart, CatalogKept
  <2>4. ASSUME Readable(d),
               call' = [call EXCEPT ![c].at = "scan", ![c].todo = @ \ {d},
                                    ![c].found = With(@, disk[d].config.name, Entry(d, disk[d].config))]
        PROVE  Reads(c)
    <3>1. /\ DOMAIN call'[c] = DOMAIN call[c] /\ call'[c].op = call[c].op /\ call'[c].at = "scan"
          /\ call'[c].todo = call[c].todo \ {d} /\ call'[c].found = found /\ call'[c].calm = call[c].calm
      BY <1>2, <1>3, <2>4 DEF found
    <3>2. Others(c)
      BY <1>2, <2>1, <2>4 DEF Others, Waits, FilesKept, Apart, CatalogKept
    <3> QED
      BY <2>1, <2>4, <3>1, <3>2, Zenon DEF Reads, d, found
  <2> QED
    BY <2>1, <2>2, <2>3, <2>4 DEF Leaves
<1>11. ASSUME SetAllStrategy(c) \/ Start(c)
       PROVE  Sets(c)
  <2>1. /\ call[c].at = "scan" /\ call[c].todo = {} /\ catalog' = call[c].found /\ synced' = call[c].calm
        /\ restart' = {[r EXCEPT !.calm = FALSE] : r \in restart} /\ FilesKept /\ exits' = exits
        /\ call' = [Overtake(call) EXCEPT ![c] = Idle]
    BY <1>1, <1>11, Zenon DEF SetAllStrategy, Start, SetAll
  <2>2. DOMAIN Overtake(call) = Callers
    BY DEF Overtake
  <2>3. \A e \in Callers : Overtake(call)[e] = IF call[e].op = "start" THEN [call[e] EXCEPT !.calm = FALSE] ELSE call[e]
    BY DEF Overtake
  <2>4. Returns(c)
    BY <1>2, <1>3, <2>1, <2>2, <2>3 DEF Returns, Others, Waits, FilesKept
  <2>5. SetAllStrategy(c) => up' = up /\ process' = process
    BY Zenon DEF SetAllStrategy
  <2>6. ASSUME Start(c)
        PROVE  /\ up' = TRUE
               /\ \E names \in SUBSET {n \in DOMAIN catalog' : catalog'[n].config.enabled} :
                    process' = [n \in names |-> catalog'[n]]
    <3>1. PICK names \in SUBSET {n \in DOMAIN call[c].found : Startable(call[c].found[n])} :
            process' = [n \in names |-> call[c].found[n]]
      BY <2>6, Zenon DEF Start
    <3>2. names \in SUBSET {n \in DOMAIN catalog' : catalog'[n].config.enabled}
      BY <2>1, <3>1 DEF Startable
    <3>3. up' = TRUE
      BY <2>6, Zenon DEF Start
    <3> QED
      BY <2>1, <3>1, <3>2, <3>3, Zenon
  <2> QED
    BY <1>11, <2>1, <2>4, <2>5, <2>6, Zenon DEF Sets
<1>12. ASSUME StartStrategyByName(c)
       PROVE  Launches(c)
  <2>1. /\ call[c].at = "launch" /\ FilesKept /\ CatalogKept /\ synced' = synced /\ Return(c)
        /\ process' \in IF call[c].name \in DOMAIN catalog THEN launched(call[c].name, catalog[call[c].name])
                        ELSE {process}
    BY <1>1, <1>12, Zenon DEF StartStrategyByName, CatalogKept
  <2>2. Returns(c)
    BY <2>1, ReturnReturns, Zenon DEF FilesKept, CatalogKept
  <2>3. \/ process' = process
        \/ call[c].name \in DOMAIN catalog /\ process' = With(process, call[c].name, catalog[call[c].name])
    BY <2>1 DEF launched
  <2> QED
    BY <2>1, <2>2, <2>3, Zenon DEF Launches
<1> QED
  BY <1>5, <1>6, <1>7, <1>8, <1>9, <1>10, <1>11, <1>12, Zenon

LEMMA OtherKinds ==
  ASSUME TypeOK, Called, NEW n \in Names
  PROVE  /\ StopStrategy(n) \/ handleProcessExit(n) => Crashes
         /\ \A x \in exits : decideRestart(x) => Crashes
         /\ \A r \in restart : scheduleRestart(r) => Crashes
         /\ WriteByHand(n) \/ RemoveByHand(n) => Edits(n)
<1>1. UNCHANGED files => FilesKept
  BY Zenon DEF files, FilesKept
<1>2. StopStrategy(n) => Crashes
  BY <1>1, Zenon DEF StopStrategy, Crashes
<1>3. handleProcessExit(n) => Crashes
  BY <1>1, Zenon DEF handleProcessExit, Crashes
<1>4. ASSUME NEW x \in exits, decideRestart(x)
      PROVE  Crashes
  BY <1>1, <1>4, Zenon DEF decideRestart, Crashes, Enabled
<1>8. ASSUME NEW r \in restart, scheduleRestart(r)
      PROVE  Crashes
  <2>1. /\ restart' = restart \ {r} /\ process' \in launched(r.name, r.entry)
        /\ FilesKept /\ up' = up /\ catalog' = catalog /\ exits' = exits /\ call' = call /\ synced' = synced
    BY <1>1, <1>8, Zenon DEF scheduleRestart
  <2>2. process' = process \/ process' = With(process, r.name, r.entry)
    BY <2>1 DEF launched
  <2> QED
    BY <2>1, <2>2, Zenon DEF Crashes
<1>5. ASSUME Edit(n)
      PROVE  /\ touched' = touched \cup {n} /\ made' = Without(made, n) /\ undone' = undone /\ abandoned' = abandoned
             /\ CatalogKept /\ process' = process /\ synced' = FALSE
             /\ DOMAIN call' = Callers /\ \A c \in Callers : Waits(c)
  <2>1. /\ touched' = touched \cup {n} /\ made' = Without(made, n) /\ undone' = undone /\ abandoned' = abandoned
        /\ CatalogKept /\ process' = process /\ synced' = FALSE /\ call' = Disturb(call)
    BY <1>5, Zenon DEF Edit, catalogued, CatalogKept
  <2>2. DOMAIN call' = Callers
    BY <2>1 DEF Disturb
  <2>3. \A c \in Callers : Waits(c)
    BY <2>1, DisturbedWaits, Zenon DEF CatalogKept
  <2> QED
    BY <2>1, <2>2, <2>3
<1>6. WriteByHand(n) => Edits(n)
  BY <1>5, Zenon DEF WriteByHand, Edits
<1>7. RemoveByHand(n) => Edits(n)
  BY <1>5, Zenon DEF RemoveByHand, Edits
<1> QED
  BY <1>2, <1>3, <1>4, <1>8, <1>6, <1>7, Zenon

LEMMA KillKind == Kill /\ TypeOK => Kills
<1> SUFFICES ASSUME Kill, TypeOK
             PROVE  Kills
  OBVIOUS
<1>1. DOMAIN call' = Callers /\ \A c \in Callers : call'[c] = Idle
  BY DEF Kill
<1>2. Making = Working
  BY DEF Making, Working
<1> QED
  BY <1>1, <1>2, Zenon DEF Kill, Kills

LEMMA StepKinds ==
  ASSUME TypeOK, Called, [Next]_vars
  PROVE  \/ \E c \in Callers : \/ Comes(c) \/ Leaves(c) \/ Decides(c) \/ Makes(c) \/ Undoes(c) \/ Reads(c)
                               \/ Sets(c) \/ Launches(c)
         \/ \E n \in Names : Edits(n)
         \/ Crashes \/ Kills \/ Stays
<1>1. ASSUME NEW c \in Callers, Handler(c)
      PROVE  \/ Comes(c) \/ Leaves(c) \/ Decides(c) \/ Makes(c) \/ Undoes(c) \/ Reads(c) \/ Sets(c) \/ Launches(c)
  BY <1>1, CreateKinds, CallKinds, Zenon DEF Handler
<1>2. ASSUME NEW n \in Names, StopStrategy(n) \/ handleProcessExit(n) \/ WriteByHand(n) \/ RemoveByHand(n)
      PROVE  Crashes \/ Edits(n)
  BY <1>2, OtherKinds, Zenon
<1>3. ASSUME NEW x \in exits, decideRestart(x)
      PROVE  Crashes
  <2>1. x.name \in Names
    BY Zenon DEF TypeOK
  <2> QED
    BY <1>3, <2>1, OtherKinds, Zenon
<1>4. ASSUME NEW r \in restart, scheduleRestart(r)
      PROVE  Crashes
  <2>1. r.name \in Names
    BY Zenon DEF TypeOK
  <2> QED
    BY <1>4, <2>1, OtherKinds, Zenon
<1>5. UNCHANGED vars => Stays
  BY Zenon DEF vars, files, catalogued, Stays, FilesKept, Apart, CatalogKept
<1> QED
  BY <1>1, <1>2, <1>3, <1>4, <1>5, KillKind, Zenon DEF Next

-----------------------------------------------------------------------------
(* The calls *)

LEMMA WaitsSound ==
  ASSUME NEW c \in Callers, Sound(call[c]), Waits(c)
  PROVE  Sound(call'[c])
BY Zenon DEF Sound, Waits

LEMMA IdleSound == Sound(Idle)
<1>1. Strategies(<<>>)
  BY DEF Strategies
<1> QED
  BY <1>1 DEF Sound, Idle, Creating, Working

\* A step of Create goes on in Create, or to the reload.
LEMMA GoesSound ==
  ASSUME NEW c \in Callers, Sound(call[c]), call[c].at \in Creating, NEW at, at \in Creating \cup {"list"}, Goes(c, at)
  PROVE  Sound(call'[c])
<1>1. at \notin {"launch", "read", "scan"} /\ call[c].at \notin {"launch", "read", "scan"}
  BY DEF Creating, Working
<1>2. at \in {"idle", "list", "scan", "read", "launch"} \cup Creating
  OBVIOUS
<1>3. call'[c].calm \in BOOLEAN
  BY DEF Sound, Goes
<1> QED
  BY <1>1, <1>2, <1>3, Zenon DEF Sound, Goes

LEMMA CalledStep ==
  ASSUME TypeOK, Rows, Called, [Next]_vars
  PROVE  Called'
<1> SUFFICES Called'
  OBVIOUS
<1>1. \A c \in Callers : Sound(call[c])
  BY Zenon DEF Called
<1>2. ASSUME NEW c \in Callers, Others(c), Sound(call'[c])
      PROVE  Called'
  BY <1>1, <1>2, WaitsSound, Zenon DEF Called, Others
<1>3. ASSUME NEW c \in Callers, Comes(c)
      PROVE  Called'
  <2>1. CASE Waits(c)
    BY <1>1, <1>2, <1>3, <2>1, WaitsSound, Zenon DEF Comes
  <2>2. Strategies(<<>>)
    BY DEF Strategies
  <2>3. ASSUME NEW opts \in Requests, mapScaffoldErr(opts) = "ok",
               call'[c] = [Idle EXCEPT !.op = "create", !.at = "stat", !.name = opts.name, !.opts = opts]
        PROVE  Called'
    <3>1. Sound(call'[c])
      BY <2>2, <2>3 DEF Sound, Idle, Creating, Working
    <3> QED
      BY <1>2, <1>3, <3>1, Zenon DEF Comes
  <2>4. ASSUME NEW op \in {"reload", "boot"}, call'[c] = [Idle EXCEPT !.op = op, !.at = "list"]
        PROVE  Called'
    <3>1. Sound(call'[c])
      BY <2>2, <2>4 DEF Sound, Idle, Creating, Working
    <3> QED
      BY <1>2, <1>3, <3>1, Zenon DEF Comes
  <2>5. ASSUME NEW n, call'[c] = [Idle EXCEPT !.op = "start", !.at = "launch", !.name = n]
        PROVE  Called'
    <3>1. Sound(call'[c])
      BY <2>2, <2>5 DEF Sound, Idle, Creating, Working
    <3> QED
      BY <1>2, <1>3, <3>1, Zenon DEF Comes
  <2> QED
    BY <1>3, <2>1, <2>3, <2>4, <2>5, Zenon DEF Comes
<1>4. ASSUME NEW c \in Callers, Leaves(c) \/ Sets(c) \/ Launches(c)
      PROVE  Called'
  BY <1>2, <1>4, IdleSound, Zenon DEF Leaves, Sets, Launches, Returns
<1>5. ASSUME NEW c \in Callers, NEW at, Goes(c, at), call[c].at \in Creating, at \in Creating \cup {"list"}
      PROVE  Called'
  BY <1>1, <1>2, <1>5, GoesSound, Zenon DEF Goes
<1>6. ASSUME NEW c \in Callers, Decides(c)
      PROVE  Called'
  <2>1. /\ call[c].at \in Creating
        /\ Goes(c, "mkdir") \/ Goes(c, "undo") \/ Goes(c, "script") \/ Goes(c, "list")
    BY <1>6 DEF Decides, Creating, Working
  <2>2. {"mkdir", "undo", "script", "list"} \subseteq Creating \cup {"list"}
    BY DEF Creating, Working
  <2> QED
    BY <1>5, <2>1, <2>2
<1>7. ASSUME NEW c \in Callers, Makes(c)
      PROVE  Called'
  <2>1. PICK at : Goes(c, at) /\ call[c].at \in {"mkdir", "config", "write", "script", "fill"}
                  /\ at \in {"config", "write", "script", "fill", "list"}
    BY <1>7 DEF Makes, Fills
  <2>2. call[c].at \in Creating /\ at \in Creating \cup {"list"}
    BY <2>1 DEF Creating, Working
  <2> QED
    BY <1>5, <2>1, <2>2
<1>8. ASSUME NEW c \in Callers, Undoes(c)
      PROVE  Called'
  <2>1. \/ call[c].at = "undo" /\ Goes(c, "rmdir")
        \/ Returns(c)
    BY <1>8, Zenon DEF Undoes, Fills
  <2>2. "undo" \in Creating /\ "rmdir" \in Creating
    BY DEF Creating, Working
  <2>3. Returns(c) => Called'
    BY <1>2, IdleSound, Zenon DEF Returns
  <2> QED
    BY <1>5, <2>1, <2>2, <2>3
<1>9. ASSUME NEW c \in Callers, Reads(c)
      PROVE  Called'
  <2> DEFINE d == First(call[c].todo)
             found == With(call[c].found, disk[d].config.name, Entry(d, disk[d].config))
  <2>1. /\ Others(c) /\ DOMAIN call'[c] = DOMAIN call[c] /\ call'[c].op = call[c].op
        /\ call[c].at \in {"list", "scan", "read"} /\ call'[c].at \in {"scan", "read"}
        /\ call'[c].calm \in {TRUE, call[c].calm}
    BY <1>9 DEF Reads
  <2>2. call'[c].todo \subseteq Names /\ (call'[c].at = "read" => call'[c].todo # {})
    <3>1. DOMAIN disk \subseteq Names /\ call[c].todo \subseteq Names
      BY <1>1, Zenon DEF TypeOK, Sound
    <3> QED
      BY <1>9, <3>1 DEF Reads
  <2>3. Strategies(call'[c].found)
    <3>1. Strategies(call[c].found)
      BY <1>1, Zenon DEF Sound
    <3>2. call'[c].found = call[c].found \/ (Readable(d) /\ call'[c].found = found)
      BY <1>9, Zenon DEF Reads
    <3> HIDE DEF d
    <3>3. ASSUME Readable(d)
          PROVE  Strategies(found)
      <4>1. disk[d].config.name \in Names /\ validateConfig(disk[d].config)
        BY <3>3, ValidConfig, Zenon DEF Readable
      <4>2. Catalogued(disk[d].config.name, Entry(d, disk[d].config))
        BY <4>1 DEF Entry, Catalogued
      <4> QED
        BY <3>1, <4>1, <4>2, StrategiesWith
    <3> QED
      BY <3>1, <3>2, <3>3
  <2> HIDE DEF d, found
  <2>4. Sound(call[c])
    BY <1>1
  <2>5. Sound(call'[c])
    BY <2>1, <2>2, <2>3, <2>4 DEF Sound, Creating, Working
  <2> QED
    BY <1>2, <2>1, <2>5
<1>10. Crashes => Called'
  BY <1>1, Zenon DEF Crashes, Called
<1>13. Kills => Called'
  BY IdleSound, Zenon DEF Kills, Called
<1>11. ASSUME NEW n \in Names, Edits(n)
       PROVE  Called'
  BY <1>1, <1>11, WaitsSound, Zenon DEF Edits, Called
<1>12. ASSUME Stays
       PROVE  Called'
  BY <1>1, <1>12, Zenon DEF Stays, Called
<1> QED
  BY <1>3, <1>4, <1>6, <1>7, <1>8, <1>9, <1>10, <1>11, <1>12, <1>13, StepKinds, Zenon

-----------------------------------------------------------------------------
(* The types *)

\* What Create works on was asked for, by a name that is one.
LEMMA Asked ==
  ASSUME Called, NEW c \in Callers, call[c].at \in Creating
  PROVE  /\ call[c].name \in Names /\ call[c].opts \in Requests /\ mapScaffoldErr(call[c].opts) = "ok"
         /\ call[c].name = call[c].opts.name
         /\ ConfigFor(call[c].opts) \in StrategyConfig
<1>1. call[c].opts \in Requests /\ mapScaffoldErr(call[c].opts) = "ok" /\ call[c].name = call[c].opts.name
  BY Zenon DEF Called, Sound
<1> QED
  BY <1>1, RequestConfig

\* A directory is written whole or removed.
LEMMA DiskStep ==
  ASSUME TypeOK, Rows, Called, [Next]_vars
  PROVE  \/ disk' = disk
         \/ \E d \in Names : disk' = Without(disk, d) \/ \E content \in Row : disk' = With(disk, d, content)
<1> DEFINE Fine == \E d \in Names : disk' = Without(disk, d) \/ \E content \in Row : disk' = With(disk, d, content)
<1>1. ASSUME NEW c \in Callers, Makes(c)
      PROVE  Fine
  <2> DEFINE d == call[c].name
  <2>1. call[c].at \in Creating
    BY <1>1, Zenon DEF Makes, Fills, Creating, Working
  <2>2. d \in Names /\ ConfigFor(call[c].opts) \in StrategyConfig
    BY <2>1, Asked
  <2>3. NoFiles \in Row
    BY DEF NoFiles, Row, Scripts
  <2>4. ASSUME d \in DOMAIN disk
        PROVE  /\ [disk[d] EXCEPT !.config = Garbled] \in Row
               /\ [disk[d] EXCEPT !.config = ConfigFor(call[c].opts)] \in Row
               /\ [disk[d] EXCEPT !.script = "part"] \in Row /\ [disk[d] EXCEPT !.script = "whole"] \in Row
    BY <2>2, <2>4 DEF Rows, Row, Scripts
  <2> HIDE DEF d
  <2>5. \E content \in Row : disk' = With(disk, d, content)
    BY <1>1, <2>3, <2>4, Zenon DEF Makes, Fills, d
  <2> QED
    BY <2>2, <2>5
<1>2. ASSUME NEW c \in Callers, Undoes(c)
      PROVE  disk' = disk \/ Fine
  <2> DEFINE d == call[c].name
  <2>1. call[c].at \in Creating
    BY <1>2, Zenon DEF Undoes, Fills, Creating, Working
  <2>2. d \in Names
    BY <2>1, Asked
  <2>3. ASSUME d \in DOMAIN disk
        PROVE  /\ [disk[d] EXCEPT !.config = Absent] \in Row /\ [disk[d] EXCEPT !.script = "none"] \in Row
               /\ disk[d] \in Row /\ NoFiles \in Row
    BY <2>3 DEF Rows, Row, NoFiles, Scripts
  <2> HIDE DEF d
  <2>4. disk' = disk \/ disk' = Without(disk, d) \/ \E content \in Row : disk' = With(disk, d, content)
    BY <1>2, <2>3, Zenon DEF Undoes, Fills, d
  <2> QED
    BY <2>2, <2>4
<1>3. ASSUME NEW n \in Names, Edits(n)
      PROVE  Fine
  <2>1. \A content \in Written \cup {Garbled} : [config |-> content, script |-> "whole"] \in Row
    BY Values DEF Row, Scripts
  <2> QED
    BY <1>3, <2>1, Zenon DEF Edits
<1> HIDE DEF Fine
<1>4. disk' = disk \/ Fine
  BY <1>1, <1>2, <1>3, StepKinds, Zenon
     DEF FilesKept, Comes, Leaves, Decides, Reads, Sets, Launches, Crashes, Kills, Stays
<1> QED
  BY <1>4 DEF Fine

LEMMA RowsStep ==
  ASSUME TypeOK, Rows, Called, [Next]_vars
  PROVE  Rows' /\ DOMAIN disk' \subseteq Names
<1>1. DOMAIN disk \subseteq Names
  BY Zenon DEF TypeOK
<1>2. ASSUME NEW d \in Names, disk' = Without(disk, d)
      PROVE  Rows' /\ DOMAIN disk' \subseteq Names
  BY <1>1, <1>2 DEF Rows, Without, Restrict
<1>3. ASSUME NEW d \in Names, NEW content \in Row, disk' = With(disk, d, content)
      PROVE  Rows' /\ DOMAIN disk' \subseteq Names
  BY <1>1, <1>3 DEF Rows, With
<1>4. CASE disk' = disk
  BY <1>1, <1>4, Zenon DEF Rows
<1> QED
  BY <1>2, <1>3, <1>4, DiskStep, Zenon

\* The catalog, the processes and the entries that restarts and crashes have.
Captured == \A r \in restart : r.name \in Names /\ Catalogued(r.name, r.entry) /\ r.entry.config.enabled /\ r.calm \in BOOLEAN
Exited == \A x \in exits : x.name \in Names

LEMMA CatalogStep ==
  ASSUME TypeOK, Called, [Next]_vars
  PROVE  Strategies(catalog') /\ Strategies(process') /\ Captured' /\ Exited' /\ up' \in BOOLEAN
<1>1. Strategies(catalog) /\ Strategies(process) /\ Captured /\ Exited /\ up \in BOOLEAN
  <2>1. up \in BOOLEAN
    BY DEF TypeOK
  <2> QED
    BY <2>1, Zenon DEF TypeOK, Strategies, Captured, Exited
<1> DEFINE Fine == Strategies(catalog') /\ Strategies(process') /\ Captured' /\ Exited' /\ up' \in BOOLEAN
<1>2. ASSUME NEW n, NEW st, n \in Names, Catalogued(n, st)
      PROVE  Strategies(With(process, n, st))
  BY <1>1, <1>2, StrategiesWith
<1>3. ASSUME NEW n
      PROVE  Strategies(Without(process, n))
  BY <1>1, StrategiesWithout
<1>4. ASSUME NEW c \in Callers, Sets(c)
      PROVE  Fine
  <2>1. Strategies(catalog')
    BY <1>4, Zenon DEF Sets, Called, Sound
  <2>2. Captured'
    <3> DEFINE Good(r) == /\ r.name \in Names /\ Catalogued(r.name, r.entry) /\ r.entry.config.enabled
                          /\ r.calm \in BOOLEAN
    <3>1. restart' = {[r EXCEPT !.calm = FALSE] : r \in restart}
      BY <1>4, Zenon DEF Sets
    <3>2. ASSUME NEW r \in restart
          PROVE  Good([r EXCEPT !.calm = FALSE])
      <4>1. /\ [r EXCEPT !.calm = FALSE].name = r.name /\ [r EXCEPT !.calm = FALSE].entry = r.entry
            /\ [r EXCEPT !.calm = FALSE].calm \in BOOLEAN
        BY <1>1, SMT DEF Captured
      <4> QED
        BY <1>1, <4>1, Zenon DEF Captured
    <3> HIDE DEF Good
    <3>3. \A r \in restart' : Good(r)
      BY <3>1, <3>2
    <3> QED
      BY <3>3, Zenon DEF Good, Captured
  <2>3. ASSUME NEW names \in SUBSET {n \in DOMAIN catalog' : catalog'[n].config.enabled},
               process' = [n \in names |-> catalog'[n]]
        PROVE  Strategies(process')
    <3>1. DOMAIN process' = names /\ names \subseteq DOMAIN catalog' /\ \A n \in names : process'[n] = catalog'[n]
      BY <2>3
    <3> QED
      BY <2>1, <3>1 DEF Strategies
  <2>4. Strategies(process') /\ up' \in BOOLEAN
    BY <1>1, <1>4, <2>3, Zenon DEF Sets
  <2>5. Exited'
    BY <1>1, <1>4, Zenon DEF Sets, Exited
  <2> QED
    BY <2>1, <2>2, <2>4, <2>5
<1>5. ASSUME NEW c \in Callers, Launches(c)
      PROVE  Fine
  <2>1. CatalogKept
    BY <1>5, Zenon DEF Launches
  <2>2. Strategies(process')
    <3>1. \/ process' = process
          \/ call[c].name \in DOMAIN catalog /\ process' = With(process, call[c].name, catalog[call[c].name])
      BY <1>5, Zenon DEF Launches
    <3>2. call[c].name \in DOMAIN catalog => call[c].name \in Names /\ Catalogued(call[c].name, catalog[call[c].name])
      BY <1>1 DEF Strategies
    <3> QED
      BY <1>1, <1>2, <3>1, <3>2
  <2> QED
    BY <1>1, <2>1, <2>2, Zenon DEF CatalogKept, Captured, Exited
<1>6. ASSUME Crashes
      PROVE  Fine
  <2>1. catalog' = catalog /\ up' = up
    BY <1>6, Zenon DEF Crashes
  <2>2. Strategies(process')
    <3>1. \/ process' = process
          \/ \E n \in Names : process' = Without(process, n)
          \/ \E r \in restart : process' = With(process, r.name, r.entry)
      BY <1>6, Zenon DEF Crashes
    <3> QED
      BY <1>1, <1>2, <1>3, <3>1, Zenon DEF Captured
  <2>3. Exited'
    <3>1. exits' \subseteq exits \/ \E n \in Names : \E id : exits' = exits \cup {[id |-> id, name |-> n]}
      <4>1. \A x : exits \ {x} \subseteq exits
        OBVIOUS
      <4>2. exits \subseteq exits
        OBVIOUS
      <4> QED
        BY <1>6, <4>1, <4>2, Zenon DEF Crashes
    <3> QED
      BY <1>1, <3>1 DEF Exited
  <2>4. Captured'
    <3>1. \/ restart' \subseteq restart
          \/ \E x \in exits : /\ Enabled(x.name)
                              /\ restart' = restart \cup
                                     {[id |-> x.id, name |-> x.name, entry |-> catalog[x.name], calm |-> TRUE]}
      <4>1. \A r : restart \ {r} \subseteq restart
        OBVIOUS
      <4>2. restart \subseteq restart
        OBVIOUS
      <4> QED
        BY <1>6, <4>1, <4>2, Zenon DEF Crashes
    <3>2. ASSUME NEW x \in exits, Enabled(x.name)
          PROVE  x.name \in Names /\ Catalogued(x.name, catalog[x.name]) /\ catalog[x.name].config.enabled
      BY <1>1, <3>2, Zenon DEF Exited, Enabled, Strategies
    <3>3. CASE restart' \subseteq restart
      BY <1>1, <3>3 DEF Captured
    <3>4. ASSUME NEW x \in exits, Enabled(x.name), NEW new,
                 new = [id |-> x.id, name |-> x.name, entry |-> catalog[x.name], calm |-> TRUE],
                 restart' = restart \cup {new}
          PROVE  Captured'
      <4>1. new.name = x.name /\ new.entry = catalog[x.name] /\ new.calm = TRUE
        BY <3>4
      <4>2. new.name \in Names /\ Catalogued(new.name, new.entry) /\ new.entry.config.enabled /\ new.calm \in BOOLEAN
        BY <3>2, <3>4, <4>1
      <4>3. \A r \in restart' : r \in restart \/ r = new
        BY <3>4
      <4> QED
        BY <1>1, <4>2, <4>3, Zenon DEF Captured
    <3> QED
      BY <3>1, <3>3, <3>4, Zenon
  <2> QED
    BY <1>1, <2>1, <2>2, <2>3, <2>4
<1>7. ASSUME Kills
      PROVE  Fine
  <2>1. Strategies(<<>>)
    BY DEF Strategies
  <2> QED
    BY <1>7, <2>1 DEF Kills, Captured, Exited
<1>8. ASSUME CatalogKept, process' = process
      PROVE  Fine
  BY <1>1, <1>8, Zenon DEF CatalogKept, Captured, Exited
<1> HIDE DEF Fine
<1>9. Fine
  BY <1>4, <1>5, <1>6, <1>7, <1>8, StepKinds, Zenon
     DEF Comes, Leaves, Decides, Makes, Undoes, Reads, Edits, Stays, Apart
<1> QED
  BY <1>9, Zenon DEF Fine

\* The histories are of directories.
LEMMA HistoryStep ==
  ASSUME TypeOK, Called, [Next]_vars
  PROVE  /\ touched' \subseteq Names /\ undone' \subseteq Names /\ abandoned' \subseteq Names
         /\ DOMAIN made' \subseteq Names /\ synced' \in BOOLEAN
<1>1. /\ touched \subseteq Names /\ undone \subseteq Names /\ abandoned \subseteq Names
      /\ DOMAIN made \subseteq Names /\ synced \in BOOLEAN
  BY DEF TypeOK
<1> DEFINE Fine == /\ touched' \subseteq Names /\ undone' \subseteq Names /\ abandoned' \subseteq Names
                   /\ DOMAIN made' \subseteq Names /\ synced' \in BOOLEAN
<1>2. ASSUME FilesKept, Apart
      PROVE  Fine
  BY <1>1, <1>2, Zenon DEF FilesKept, Apart
<1>3. ASSUME NEW c \in Callers, Makes(c)
      PROVE  Fine
  <2>1. call[c].name \in Names
    <3>1. call[c].at \in Creating
      BY <1>3, Zenon DEF Makes, Fills, Creating, Working
    <3> QED
      BY <3>1, Asked
  <2>2. /\ touched' = touched /\ undone' = undone /\ abandoned' = abandoned /\ synced' = FALSE
        /\ made' = made \/ made' = With(made, call[c].name, disk[call[c].name].config)
    BY <1>3, Zenon DEF Makes
  <2>3. DOMAIN made' \subseteq Names
    BY <1>1, <2>1, <2>2 DEF With
  <2> QED
    BY <1>1, <2>2, <2>3
<1>4. ASSUME NEW c \in Callers, Undoes(c)
      PROVE  Fine
  <2>1. call[c].name \in Names
    <3>1. call[c].at \in Creating
      BY <1>4, Zenon DEF Undoes, Fills, Creating, Working
    <3> QED
      BY <3>1, Asked
  <2>2. /\ touched' = touched /\ made' = made
        /\ undone' = undone \cup {call[c].name} \/ undone' = undone
        /\ abandoned' = abandoned \cup {call[c].name} \/ abandoned' = abandoned
        /\ synced' = FALSE \/ synced' = synced
    BY <1>4, Zenon DEF Undoes
  <2> QED
    BY <1>1, <2>1, <2>2
<1>5. ASSUME NEW c \in Callers, Sets(c)
      PROVE  Fine
  <2>1. FilesKept /\ synced' = call[c].calm /\ call[c].calm \in BOOLEAN
    BY <1>5, Zenon DEF Sets, Called, Sound
  <2> QED
    BY <1>1, <2>1 DEF FilesKept
<1>6. ASSUME FilesKept, synced' = synced
      PROVE  Fine
  BY <1>1, <1>6, Zenon DEF FilesKept
<1>7. ASSUME Kills
      PROVE  Fine
  <2>1. \A c \in {b \in Callers : call[b].at \in Working} : call[c].name \in Names
    BY Asked DEF Creating
  <2>2. {call[c].name : c \in {b \in Callers : call[b].at \in Working}} \subseteq Names
    BY <2>1
  <2>3. /\ touched' = touched /\ undone' = undone /\ made' = made /\ synced' = FALSE
        /\ abandoned' = abandoned \cup {call[c].name : c \in {b \in Callers : call[b].at \in Working}}
    BY <1>7, Zenon DEF Kills
  <2> QED
    BY <1>1, <2>2, <2>3
<1>8. ASSUME NEW n \in Names, Edits(n)
      PROVE  Fine
  <2>1. /\ touched' = touched \cup {n} /\ undone' = undone /\ abandoned' = abandoned /\ made' = Without(made, n)
        /\ synced' = FALSE
    BY <1>8, Zenon DEF Edits
  <2>2. DOMAIN made' \subseteq Names
    BY <1>1, <2>1 DEF Without, Restrict
  <2> QED
    BY <1>1, <2>1, <2>2
<1> HIDE DEF Fine
<1>9. Fine
  BY <1>2, <1>3, <1>4, <1>5, <1>6, <1>7, <1>8, StepKinds, Zenon
     DEF Comes, Leaves, Decides, Reads, Launches, Crashes, Stays
<1> QED
  BY <1>9, Zenon DEF Fine

\* The bounds are kept.
LEMMA CountStep ==
  ASSUME TypeOK, [Next]_vars
  PROVE  edits' \in 0..MaxEdits /\ faults' \in 0..MaxFaults /\ crashes' \in 0..MaxCrashes /\ calls' \in 0..MaxCalls
<1>1. edits' = edits \/ (edits < MaxEdits /\ edits' = edits + 1)
  <2>1. ASSUME NEW c \in Callers, Handler(c)
        PROVE  edits' = edits \/ (edits < MaxEdits /\ edits' = edits + 1)
    BY <2>1, ZenonT(40) DEF Handler, CreateStrategy, StatDir, Mkdir, OpenConfig, WriteConfig,
               OpenScript, WriteScript, Undo, Rmdir,
               ReloadStrategies, DiscoverStrategies, ScanDir, LoadStrategyConfig, SetAllStrategy, StartStrategy,
               StartStrategyByName, Boot, Start
  <2> QED
    BY <2>1, ZenonT(40) DEF Next, StopStrategy, handleProcessExit, decideRestart, scheduleRestart, Kill,
       Edit, WriteByHand, RemoveByHand, vars
<1>2. faults' = faults \/ (faults < MaxFaults /\ faults' = faults + 1)
  <2>1. ASSUME NEW c \in Callers, Handler(c)
        PROVE  faults' = faults \/ (faults < MaxFaults /\ faults' = faults + 1)
    BY <2>1, ZenonT(40) DEF Handler, CreateStrategy, StatDir, Mkdir, OpenConfig, WriteConfig,
               OpenScript, WriteScript, Undo, Rmdir,
               ReloadStrategies, DiscoverStrategies, ScanDir, LoadStrategyConfig, SetAllStrategy, StartStrategy,
               StartStrategyByName, Boot, Start, Fails, Abandon
  <2> QED
    BY <2>1, ZenonT(40) DEF Next, StopStrategy, handleProcessExit, decideRestart, scheduleRestart, Kill,
       Edit, WriteByHand, RemoveByHand, Fails, vars
<1>3. crashes' = crashes \/ (crashes < MaxCrashes /\ crashes' = crashes + 1)
  <2>1. ASSUME NEW c \in Callers, Handler(c)
        PROVE  crashes' = crashes \/ (crashes < MaxCrashes /\ crashes' = crashes + 1)
    BY <2>1, ZenonT(40) DEF Handler, CreateStrategy, StatDir, Mkdir, OpenConfig, WriteConfig,
               OpenScript, WriteScript, Undo, Rmdir,
               ReloadStrategies, DiscoverStrategies, ScanDir, LoadStrategyConfig, SetAllStrategy, StartStrategy,
               StartStrategyByName, Boot, Start, catalogued
  <2> QED
    BY <2>1, ZenonT(40) DEF Next, StopStrategy, handleProcessExit, decideRestart, scheduleRestart, Kill,
       Edit, WriteByHand, RemoveByHand, catalogued, vars
<1>4. calls' = calls \/ (calls < MaxCalls /\ calls' = calls + 1)
  <2>1. ASSUME NEW c \in Callers, Handler(c)
        PROVE  calls' = calls \/ (calls < MaxCalls /\ calls' = calls + 1)
    BY <2>1, ZenonT(40) DEF Handler, CreateStrategy, StatDir, Mkdir, OpenConfig, WriteConfig,
               OpenScript, WriteScript, Undo, Rmdir,
               ReloadStrategies, DiscoverStrategies, ScanDir, LoadStrategyConfig, SetAllStrategy, StartStrategy,
               StartStrategyByName, Boot, Start, Begin
  <2> QED
    BY <2>1, ZenonT(40) DEF Next, StopStrategy, handleProcessExit, decideRestart, scheduleRestart, Kill,
       Edit, WriteByHand, RemoveByHand, vars
<1>5. edits \in 0..MaxEdits /\ faults \in 0..MaxFaults /\ crashes \in 0..MaxCrashes /\ calls \in 0..MaxCalls
  BY Zenon DEF TypeOK
<1> QED
  BY <1>1, <1>2, <1>3, <1>4, <1>5, Values

LEMMA CallersStep ==
  ASSUME TypeOK, Called, [Next]_vars
  PROVE  DOMAIN call' = Callers
<1>1. DOMAIN call = Callers
  BY Zenon DEF TypeOK
<1> QED
  BY <1>1, StepKinds, ZenonT(40) DEF Comes, Leaves, Decides, Makes, Undoes, Reads, Sets, Launches, Crashes, Kills, Edits,
     Stays, Fills, Goes, Returns, Others

LEMMA TypeStep ==
  ASSUME TypeOK, Rows, Called, [Next]_vars
  PROVE  TypeOK'
<1>1. Rows' /\ DOMAIN disk' \subseteq Names /\ Called' /\ DOMAIN call' = Callers
  BY RowsStep, CalledStep, CallersStep
<1>2. \A d \in DOMAIN disk' : disk'[d].script \in Scripts /\ disk'[d].config \in StrategyConfig \cup {Absent, Garbled}
  BY <1>1 DEF Rows, Row
<1>3. (\A f \in {catalog', process'} : Strategies(f)) /\ Captured' /\ Exited' /\ up' \in BOOLEAN
  BY CatalogStep
<1>4. \A c \in Callers : call'[c].op \in {"none", "boot", "reload", "create", "start"} /\ call'[c].calm \in BOOLEAN
  BY <1>1, Zenon DEF Called, Sound
<1>5. \A c \in Callers :
        call'[c].at \in {"idle", "stat", "mkdir", "config", "write", "script", "fill", "undo", "rmdir", "list", "scan",
                         "read", "launch"}
  BY <1>1 DEF Called, Sound, Creating, Working
<1>6. {touched', undone', abandoned', DOMAIN made'} \subseteq SUBSET Names /\ {synced', up'} \subseteq BOOLEAN
  BY <1>3, HistoryStep
<1> QED
  BY <1>1, <1>2, <1>3, <1>4, <1>5, <1>6, CountStep, Zenon DEF TypeOK, Strategies, Captured, Exited, Scripts

-----------------------------------------------------------------------------
(* Creating *)

\* A directory that a step leaves as it is.
Same(d) ==
  /\ d \in DOMAIN disk' <=> d \in DOMAIN disk
  /\ d \in DOMAIN disk => disk'[d] = disk[d]
  /\ d \in DOMAIN made' <=> d \in DOMAIN made
  /\ d \in DOMAIN made => made'[d] = made[d]
  /\ d \in undone => d \in undone'
  /\ d \in abandoned => d \in abandoned'

LEMMA TouchedGrows ==
  ASSUME TypeOK, Called, [Next]_vars
  PROVE  touched \subseteq touched'
<1>1. touched' = touched \/ \E n \in Names : touched' = touched \cup {n}
  BY StepKinds, Zenon DEF FilesKept, Comes, Leaves, Decides, Makes, Undoes, Reads, Sets, Launches, Crashes, Kills, Edits,
                       Stays
<1> QED
  BY <1>1

\* Who writes a directory that people keep out of.
LEMMA DirStep ==
  ASSUME TypeOK, Called, [Next]_vars, NEW d, d \notin touched'
  PROVE  Same(d) \/ \E c \in Callers : call[c].name = d /\ (Makes(c) \/ Undoes(c))
<1>1. FilesKept => Same(d)
  BY Zenon DEF FilesKept, Same
<1>5. Kills => Same(d)
  BY DEF Kills, Same
<1>2. ASSUME NEW c \in Callers, Makes(c), call[c].name # d
      PROVE  Same(d)
  <2>1. /\ undone' = undone /\ abandoned' = abandoned
        /\ \E content : disk' = With(disk, call[c].name, content)
        /\ made' = made \/ \E content : made' = With(made, call[c].name, content)
    BY <1>2, Zenon DEF Makes, Fills
  <2> QED
    BY <1>2, <2>1 DEF With, Same
<1>3. ASSUME NEW c \in Callers, Undoes(c), call[c].name # d
      PROVE  Same(d)
  <2>1. /\ undone' = undone \cup {call[c].name} \/ undone' = undone
        /\ abandoned' = abandoned \cup {call[c].name} \/ abandoned' = abandoned
        /\ made' = made
        /\ \/ disk' = disk
           \/ disk' = Without(disk, call[c].name)
           \/ \E content : disk' = With(disk, call[c].name, content)
    BY <1>3, Zenon DEF Undoes, Fills
  <2> QED
    BY <1>3, <2>1 DEF With, Without, Restrict, Same
<1>4. ASSUME NEW n \in Names, Edits(n)
      PROVE  Same(d)
  <2>1. /\ n # d /\ undone' = undone /\ abandoned' = abandoned /\ made' = Without(made, n)
        /\ disk' = Without(disk, n) \/ \E content : disk' = With(disk, n, content)
    <3>1. touched' = touched \cup {n}
      BY <1>4, Zenon DEF Edits
    <3> QED
      BY <1>4, <3>1 DEF Edits
  <2> QED
    BY <2>1 DEF With, Without, Restrict, Same
<1> QED
  BY <1>1, <1>2, <1>3, <1>4, <1>5, StepKinds, Zenon DEF Comes, Leaves, Decides, Reads, Sets, Launches, Crashes, Stays

\* Each step is one of the call's own, or leaves it where it is.
LEMMA Turn ==
  ASSUME TypeOK, Called, [Next]_vars, NEW c \in Callers
  PROVE  \/ Comes(c) \/ Leaves(c) \/ Decides(c) \/ Makes(c) \/ Undoes(c) \/ Reads(c) \/ Sets(c) \/ Launches(c)
         \/ Waits(c) \/ (Kills /\ call'[c] = Idle)
<1>1. ASSUME NEW e \in Callers, e # c,
             \/ Comes(e) \/ Leaves(e) \/ Decides(e) \/ Makes(e) \/ Undoes(e) \/ Reads(e) \/ Sets(e) \/ Launches(e)
      PROVE  Waits(c)
  <2>1. Others(e)
    BY <1>1, Zenon DEF Comes, Leaves, Decides, Makes, Undoes, Reads, Sets, Launches, Fills, Goes, Returns
  <2> QED
    BY <1>1, <2>1, Zenon DEF Others
<1>2. ASSUME call' = call, disk' = disk, catalog' = catalog
      PROVE  Waits(c)
  <2>1. call[c].calm \in BOOLEAN
    BY Zenon DEF Called, Sound
  <2> QED
    BY <1>2, <2>1, Zenon DEF Waits
<1>3. ASSUME NEW n \in Names, Crashes \/ Edits(n)
      PROVE  Waits(c)
  BY <1>2, <1>3, Zenon DEF Crashes, Edits, FilesKept
<1>5. Crashes => Waits(c)
  BY <1>2, Zenon DEF Crashes, FilesKept
<1>6. Kills => call'[c] = Idle
  BY Zenon DEF Kills
<1>4. Stays => Waits(c)
  BY <1>2, Zenon DEF Stays, FilesKept, Apart, CatalogKept
<1> QED
  BY <1>1, <1>3, <1>4, <1>5, <1>6, StepKinds, Zenon

\* What a caller at work does next, and how one comes to work.
LEMMA WorkStep ==
  ASSUME TypeOK, Called, [Next]_vars, NEW c \in Callers
  PROVE  /\ call[c].at \in Working => Waits(c) \/ Decides(c) \/ Makes(c) \/ Undoes(c) \/ Kills
         /\ call'[c].at \in Working => \/ call[c].at \in Working /\ Waits(c)
                                       \/ Decides(c) /\ call[c].at \in {"config", "write", "script", "fill"}
                                       \/ Makes(c) \/ Undoes(c)
<1>1. Waits(c) => call'[c].at = call[c].at
  BY Zenon DEF Waits
<1>2. Idle.at = "idle"
  BY DEF Idle
<1>3. ASSUME Comes(c)
      PROVE  call[c].at \notin Working /\ call'[c].at \notin Working
  <2>1. call[c].at = "idle"
    BY <1>2, <1>3 DEF Comes
  <2>2. call'[c].at \in {"idle", "stat", "list", "launch"}
    BY <1>1, <1>3, <2>1 DEF Comes, Idle
  <2> QED
    BY <2>1, <2>2 DEF Working
<1>4. ASSUME Leaves(c) \/ Sets(c) \/ Launches(c)
      PROVE  call[c].at \notin Working /\ call'[c].at \notin Working
  <2>1. call[c].at \in {"stat", "mkdir", "list", "read", "scan", "launch"} /\ call'[c] = Idle
    BY <1>4 DEF Leaves, Sets, Launches, Returns
  <2> QED
    BY <1>2, <2>1 DEF Working
<1>5. ASSUME Reads(c)
      PROVE  call[c].at \notin Working /\ call'[c].at \notin Working
  <2>1. call[c].at \in {"list", "read", "scan"} /\ call'[c].at \in {"scan", "read"}
    BY <1>5 DEF Reads
  <2> QED
    BY <2>1 DEF Working
<1>7. call'[c] = Idle => call'[c].at \notin Working
  BY <1>2 DEF Working
<1>6. ASSUME Decides(c), call[c].at \notin {"config", "write", "script", "fill"}
      PROVE  call'[c].at \notin Working
  <2>1. call'[c].at = "mkdir"
    BY <1>6 DEF Decides, Goes
  <2> QED
    BY <2>1 DEF Working
<1> QED
  BY <1>1, <1>3, <1>4, <1>5, <1>6, <1>7, Turn, Zenon

\* Who is at work was at work, or has made the directory.
LEMMA WorkFrom ==
  ASSUME TypeOK, Called, [Next]_vars, NEW c \in Callers, call'[c].at \in Working
  PROVE  /\ call'[c].name = call[c].name /\ call'[c].opts = call[c].opts
         /\ \/ call[c].at \in Working
            \/ call[c].at = "mkdir" /\ call'[c].at = "config" /\ call[c].name \notin DOMAIN disk /\ Others(c)
<1>1. CASE Waits(c) /\ call[c].at \in Working
  BY <1>1, Zenon DEF Waits
<1>2. CASE Decides(c) /\ call[c].at \in {"config", "write", "script", "fill"}
  BY <1>2 DEF Decides, Goes, Working
<1>3. CASE Makes(c)
  BY <1>3 DEF Makes, Fills, Goes, Working
<1>4. CASE Undoes(c)
  <2>1. call[c].at \in {"undo", "rmdir"}
    BY <1>4, Zenon DEF Undoes, Fills
  <2>2. \/ Goes(c, "rmdir")
        \/ call'[c] = Idle
    BY <1>4, Zenon DEF Undoes, Fills, Returns
  <2>3. Idle.at \notin Working
    BY DEF Idle, Working
  <2>4. Goes(c, "rmdir")
    BY <2>2, <2>3
  <2> QED
    BY <2>1, <2>4 DEF Goes, Working
<1> QED
  BY <1>1, <1>2, <1>3, <1>4, WorkStep

LEMMA AloneStep ==
  ASSUME TypeOK, Called, Alone, Staged, [Next]_vars
  PROVE  Alone'
<1>1. ASSUME NEW c \in Callers, NEW e \in Callers, call'[c].at \in Working, call'[e].at \in Working,
             call'[c].name = call'[e].name, call'[c].name \notin touched'
      PROVE  c = e
  <2>1. call[c].name = call[e].name /\ call[c].name \notin touched
    BY <1>1, WorkFrom, TouchedGrows
  <2>2. CASE call[c].at \in Working /\ call[e].at \in Working
    BY <2>1, <2>2, Zenon DEF Alone
  <2>3. ASSUME NEW a \in Callers, NEW b \in Callers, call[a].at \in Working, call[a].name \notin touched,
               call[b].name = call[a].name, call[b].name \notin DOMAIN disk
        PROVE  FALSE
    BY <2>3, Zenon DEF Staged, Stage
  <2>4. ASSUME c # e, call[c].at = "mkdir", call'[e].at = "config", Others(e), call[e].at = "mkdir", call'[c].at = "config"
        PROVE  FALSE
    BY <2>4 DEF Others, Waits
  <2> QED
    BY WorkFrom, <1>1, <2>1, <2>2, <2>3, <2>4
<1> QED
  BY <1>1, Zenon DEF Alone

\* A directory is what its two files are.
LEMMA RowIs ==
  ASSUME NEW row \in Row
  PROVE  row = [config |-> row.config, script |-> row.script]
BY DEF Row

LEMMA RowWith ==
  ASSUME NEW row \in Row, NEW content \in StrategyConfig \cup {Absent, Garbled}
  PROVE  /\ [row EXCEPT !.config = content] = [config |-> content, script |-> row.script]
         /\ \A left \in Scripts : [row EXCEPT !.script = left] = [config |-> row.config, script |-> left]
<1>1. /\ [row EXCEPT !.config = content] \in Row
      /\ [row EXCEPT !.config = content].config = content /\ [row EXCEPT !.config = content].script = row.script
  BY DEF Row
<1>2. ASSUME NEW left \in Scripts
      PROVE  /\ [row EXCEPT !.script = left] \in Row
             /\ [row EXCEPT !.script = left].config = row.config /\ [row EXCEPT !.script = left].script = left
  BY DEF Row
<1>3. [row EXCEPT !.config = content] = [config |-> content, script |-> row.script]
  BY <1>1, RowIs
<1>4. ASSUME NEW left \in Scripts
      PROVE  [row EXCEPT !.script = left] = [config |-> row.config, script |-> left]
  BY <1>2, RowIs
<1> QED
  BY <1>3, <1>4

\* Nobody writes the directory of a caller at work that people keep out of, but itself.
LEMMA Undisturbed ==
  ASSUME TypeOK, Called, Alone, Staged, [Next]_vars, NEW e \in Callers,
         call[e].at \in Working, call[e].name \notin touched'
  PROVE  Same(call[e].name) \/ Makes(e) \/ Undoes(e)
<1> DEFINE d == call[e].name
<1>1. d \notin touched
  BY TouchedGrows
<1>2. d \in DOMAIN disk
  BY <1>1, Zenon DEF Staged, Stage
<1>3. ASSUME NEW c \in Callers, call[c].name = d, Makes(c) \/ Undoes(c)
      PROVE  c = e
  <2>1. call[c].at \in Working \/ (call[c].at = "mkdir" /\ d \notin DOMAIN disk)
    BY <1>3, Zenon DEF Makes, Undoes, Fills, Working
  <2> QED
    BY <1>1, <1>2, <1>3, <2>1, Zenon DEF Alone
<1> QED
  BY <1>3, DirStep, Zenon

\* What a step of Create leaves in a directory that people keep out of.
LEMMA Made ==
  ASSUME TypeOK, Rows, Called, Staged, Kept, NEW e \in Callers, Makes(e), call[e].name \notin touched
  PROVE  LET d == call[e].name
             config == ConfigFor(call[e].opts)
         IN /\ d \notin DOMAIN made /\ d \in DOMAIN disk' /\ call'[e].name = d /\ call'[e].opts = call[e].opts
            /\ config \in StrategyConfig
            /\ \/ /\ made' = made
                  /\ \/ call'[e].at = "config" /\ disk'[d] = NoFiles
                     \/ call'[e].at = "write" /\ disk'[d] = [config |-> Garbled, script |-> "none"]
                     \/ call'[e].at = "script" /\ disk'[d] = [config |-> config, script |-> "none"]
                     \/ call'[e].at = "fill" /\ disk'[d] = [config |-> config, script |-> "part"]
               \/ /\ call'[e].at = "list" /\ disk'[d] = [config |-> config, script |-> "whole"]
                  /\ made' = With(made, d, config)
<1> DEFINE d == call[e].name
           config == ConfigFor(call[e].opts)
<1>1. call[e].at \in Creating /\ (call[e].at \in Working \/ (call[e].at = "mkdir" /\ d \notin DOMAIN disk))
  BY Zenon DEF Makes, Fills, Creating, Working
<1>2. d \notin DOMAIN made
  BY <1>1 DEF Kept, Staged, Stage
<1>3. config \in StrategyConfig
  BY <1>1, Asked
<1>4. /\ call[e].at = "config" => disk[d] = NoFiles
      /\ call[e].at = "write" => disk[d] = [config |-> Garbled, script |-> "none"]
      /\ call[e].at = "script" => disk[d] = [config |-> config, script |-> "none"]
      /\ call[e].at = "fill" => disk[d] = [config |-> config, script |-> "part"]
  BY DEF Staged, Stage, Working
<1>14. d \notin touched
  OBVIOUS
<1> HIDE DEF config, d
<1>5. /\ [NoFiles EXCEPT !.config = Garbled] = [config |-> Garbled, script |-> "none"]
      /\ [[config |-> Garbled, script |-> "none"] EXCEPT !.config = config] = [config |-> config, script |-> "none"]
      /\ [[config |-> config, script |-> "none"] EXCEPT !.script = "part"] = [config |-> config, script |-> "part"]
      /\ [[config |-> config, script |-> "part"] EXCEPT !.script = "whole"] = [config |-> config, script |-> "whole"]
  <2> DEFINE old == [config |-> Garbled, script |-> "none"]
             new == [config |-> config, script |-> "none"]
             opened == [config |-> config, script |-> "part"]
  <2>1. /\ NoFiles \in Row /\ NoFiles.script = "none" /\ old \in Row /\ old.script = "none"
        /\ new \in Row /\ new.config = config /\ opened \in Row /\ opened.config = config
    BY <1>3 DEF NoFiles, Row, Scripts
  <2> HIDE DEF old, new, opened
  <2>2. [NoFiles EXCEPT !.config = Garbled] = [config |-> Garbled, script |-> "none"]
    BY <2>1, RowWith
  <2>3. [old EXCEPT !.config = config] = [config |-> config, script |-> "none"]
    BY <1>3, <2>1, RowWith
  <2>4. /\ [new EXCEPT !.script = "part"] = [config |-> config, script |-> "part"]
        /\ [opened EXCEPT !.script = "whole"] = [config |-> config, script |-> "whole"]
    BY <1>3, <2>1, RowWith DEF Scripts
  <2> QED
    BY <2>2, <2>3, <2>4 DEF old, new, opened
<1>6. \A content : disk' = With(disk, d, content) => d \in DOMAIN disk' /\ disk'[d] = content
  BY DEF With
<1>7. d \in DOMAIN disk' /\ call'[e].name = d /\ call'[e].opts = call[e].opts
  <2>1. \E content : disk' = With(disk, d, content)
    BY Zenon DEF Makes, Fills, d
  <2>2. call'[e].name = d /\ call'[e].opts = call[e].opts
    BY Zenon DEF Makes, Fills, Goes, d
  <2> QED
    BY <1>6, <2>1, <2>2
<1>8. \/ made' = made /\ call'[e].at = "config" /\ disk' = With(disk, d, NoFiles)
      \/ /\ made' = made /\ call[e].at = "config" /\ call'[e].at = "write"
         /\ disk' = With(disk, d, [disk[d] EXCEPT !.config = Garbled])
      \/ /\ made' = made /\ call[e].at = "write" /\ call'[e].at = "script"
         /\ disk' = With(disk, d, [disk[d] EXCEPT !.config = config])
      \/ /\ made' = made /\ call[e].at = "script" /\ call'[e].at = "fill"
         /\ disk' = With(disk, d, [disk[d] EXCEPT !.script = "part"])
      \/ /\ call[e].at = "fill" /\ call'[e].at = "list" /\ disk' = With(disk, d, [disk[d] EXCEPT !.script = "whole"])
         /\ made' = IF d \in touched THEN made ELSE With(made, d, disk[d].config)
  BY Zenon DEF Makes, Fills, Goes, d, config
<1>9. CASE made' = made /\ call'[e].at = "config" /\ disk' = With(disk, d, NoFiles)
  BY <1>2, <1>3, <1>6, <1>7, <1>9 DEF d, config
<1>10. CASE /\ made' = made /\ call[e].at = "config" /\ call'[e].at = "write"
            /\ disk' = With(disk, d, [disk[d] EXCEPT !.config = Garbled])
  <2>1. disk'[d] = [config |-> Garbled, script |-> "none"]
    BY <1>4, <1>5, <1>6, <1>10
  <2> QED
    BY <1>2, <1>3, <1>7, <1>10, <2>1 DEF d, config
<1>11. CASE /\ made' = made /\ call[e].at = "write" /\ call'[e].at = "script"
            /\ disk' = With(disk, d, [disk[d] EXCEPT !.config = config])
  <2>1. disk'[d] = [config |-> config, script |-> "none"]
    BY <1>4, <1>5, <1>6, <1>11
  <2> QED
    BY <1>2, <1>3, <1>7, <1>11, <2>1 DEF d, config
<1>12. CASE /\ made' = made /\ call[e].at = "script" /\ call'[e].at = "fill"
            /\ disk' = With(disk, d, [disk[d] EXCEPT !.script = "part"])
  <2>1. disk'[d] = [config |-> config, script |-> "part"]
    BY <1>4, <1>5, <1>6, <1>12
  <2> QED
    BY <1>2, <1>3, <1>7, <1>12, <2>1 DEF d, config
<1>13. CASE /\ call[e].at = "fill" /\ call'[e].at = "list" /\ disk' = With(disk, d, [disk[d] EXCEPT !.script = "whole"])
            /\ made' = IF d \in touched THEN made ELSE With(made, d, disk[d].config)
  <2>1. disk'[d] = [config |-> config, script |-> "whole"]
    BY <1>4, <1>5, <1>6, <1>13
  <2>2. disk[d].config = config
    BY <1>4, <1>13
  <2>3. made' = With(made, d, config)
    BY <1>13, <1>14, <2>2
  <2> QED
    BY <1>2, <1>3, <1>7, <1>13, <2>1, <2>3 DEF d, config
<1> QED
  BY <1>8, <1>9, <1>10, <1>11, <1>12, <1>13

\* The same, file by file.
LEMMA MadeFiles ==
  ASSUME TypeOK, Rows, Called, Staged, Kept, NEW e \in Callers, Makes(e), call[e].name \notin touched
  PROVE  LET d == call[e].name
         IN /\ \/ call'[e].name = d /\ call'[e].at \in Working
               \/ disk'[d].script = "whole" /\ disk'[d].config \in StrategyConfig
            /\ disk'[d].script # "none" => disk'[d].config \in StrategyConfig
<1> DEFINE d == call[e].name
           config == ConfigFor(call[e].opts)
<1>1. /\ call'[e].name = d /\ config \in StrategyConfig
      /\ \/ call'[e].at = "config" /\ disk'[d] = NoFiles
         \/ call'[e].at = "write" /\ disk'[d] = [config |-> Garbled, script |-> "none"]
         \/ call'[e].at = "script" /\ disk'[d] = [config |-> config, script |-> "none"]
         \/ call'[e].at = "fill" /\ disk'[d] = [config |-> config, script |-> "part"]
         \/ call'[e].at = "list" /\ disk'[d] = [config |-> config, script |-> "whole"]
  BY Made, Zenon
<1> HIDE DEF config, d
<1>2. \/ call'[e].at \in Working
      \/ disk'[d].script = "whole" /\ disk'[d].config = config
  BY <1>1 DEF Working
<1>3. disk'[d].script # "none" => disk'[d].config = config
  BY <1>1 DEF NoFiles
<1> QED
  BY <1>1, <1>2, <1>3 DEF d

LEMMA StagedStep ==
  ASSUME TypeOK, Rows, Called, Alone, Staged, Kept, [Next]_vars
  PROVE  Staged'
<1> SUFFICES ASSUME NEW e \in Callers, call'[e].at \in Working, call'[e].name \notin touched'
             PROVE  Stage(e)'
  BY Zenon DEF Staged
<1> DEFINE d == call[e].name
<1>1. call'[e].name = d /\ call'[e].opts = call[e].opts /\ d \notin touched' /\ d \notin touched
  BY WorkFrom, TouchedGrows
<1>2. call[e].at \in Working => d \in DOMAIN disk /\ d \notin DOMAIN made
  BY <1>1 DEF Staged, Stage
<1>3. CASE Decides(e) /\ call[e].at \in {"config", "write", "script", "fill"}
  <2>1. call[e].at \in Working /\ disk' = disk /\ made' = made
    BY <1>3 DEF Working, Decides, FilesKept
  <2>2. call'[e].at = "undo"
    BY <1>2, <1>3, <2>1 DEF Decides, Goes, Working
  <2> QED
    BY <1>1, <1>2, <2>1, <2>2 DEF Stage
<1>4. CASE Undoes(e)
  <2>1. call[e].at \in Working
    BY <1>4, Zenon DEF Undoes, Fills, Working
  <2>2. Idle.at \notin Working
    BY DEF Idle, Working
  <2>3. call'[e].at = "rmdir" /\ made' = made /\ d \in undone' /\ \E content : disk' = With(disk, d, content)
    BY <1>2, <1>4, <2>1, <2>2 DEF Undoes, Fills, Goes, Returns
  <2>4. d \in DOMAIN disk'
    BY <2>3 DEF With
  <2> QED
    BY <1>1, <1>2, <2>1, <2>3, <2>4 DEF Stage
<1>5. CASE Makes(e)
  <2>1. "list" \notin Working
    BY DEF Working
  <2> QED
    BY <1>1, <1>5, <2>1, Made DEF Stage
<1>6. CASE Waits(e) /\ call[e].at \in Working /\ Same(d)
  <2>1. call'[e].at = call[e].at
    BY <1>6, Zenon DEF Waits
  <2>2. Stage(e)
    BY <1>1, <1>6, Zenon DEF Staged
  <2> QED
    BY <1>1, <1>6, <2>1, <2>2 DEF Stage, Same
<1> QED
  BY <1>1, <1>3, <1>4, <1>5, <1>6, WorkStep, Undisturbed

\* Nobody touches what was made without losing it from the history.
LEMMA KeptStep ==
  ASSUME TypeOK, Rows, Called, Staged, Kept, [Next]_vars
  PROVE  Kept'
<1> SUFFICES ASSUME NEW d, d \in DOMAIN made'
             PROVE  d \in DOMAIN disk' \ touched' /\ disk'[d] = [config |-> made'[d], script |-> "whole"]
  BY Zenon DEF Kept
<1>1. d \notin touched'
  <2>1. ASSUME NEW c \in Callers, Makes(c)
        PROVE  d \notin touched'
    <3>1. touched' = touched /\ (made' = made \/ (call[c].name \notin touched /\ \E x : made' = With(made, call[c].name, x)))
      BY <2>1, Zenon DEF Makes
    <3> QED
      BY <3>1, ZenonT(40) DEF Kept, With
  <2>2. ASSUME NEW n \in Names, Edits(n)
        PROVE  d \notin touched'
    <3>1. touched' = touched \cup {n} /\ made' = Without(made, n)
      BY <2>2, Zenon DEF Edits
    <3> QED
      BY <3>1 DEF Kept, Without, Restrict
  <2>3. CASE touched' = touched /\ made' = made
    BY <2>3 DEF Kept
  <2> QED
    BY <2>1, <2>2, <2>3, StepKinds, Zenon
       DEF FilesKept, Comes, Leaves, Decides, Undoes, Reads, Sets, Launches, Crashes, Kills, Stays
<1>2. CASE Same(d)
  BY <1>1, <1>2 DEF Kept, Same
<1>3. ASSUME NEW c \in Callers, call[c].name = d, Makes(c)
      PROVE  d \in DOMAIN disk' /\ disk'[d] = [config |-> made'[d], script |-> "whole"]
  <2>1. d \notin touched
    BY <1>1, TouchedGrows
  <2> DEFINE config == ConfigFor(call[c].opts)
  <2>2. d \in DOMAIN disk' /\ disk'[d] = [config |-> config, script |-> "whole"] /\ made' = With(made, d, config)
    BY <1>3, <2>1, Made
  <2>3. made'[d] = config
    BY <2>2 DEF With
  <2> QED
    BY <2>2, <2>3
<1>4. ASSUME NEW c \in Callers, call[c].name = d, Undoes(c)
      PROVE  FALSE
  <2>1. call[c].at \in Working /\ made' = made
    BY <1>4, Zenon DEF Undoes, Fills, Working
  <2>2. d \notin touched
    BY <1>1, TouchedGrows
  <2> QED
    BY <1>4, <2>1, <2>2 DEF Staged, Stage
<1> QED
  BY <1>1, <1>2, <1>3, <1>4, DirStep

\* What a rollback leaves of a directory, with or without somebody at work in it.
LEMMA Undone ==
  ASSUME TypeOK, Rows, Called, Staged, ScriptLast, NEW c \in Callers, Undoes(c), call[c].name \in DOMAIN disk',
         call[c].name \notin touched
  PROVE  LET d == call[c].name
         IN /\ d \in abandoned' \/ (call'[c].name = d /\ call'[c].at \in Working)
            /\ d \in undone'
            /\ disk'[d].script # "none" => disk'[d].config \in StrategyConfig \/ disk'[d].config = Absent
<1> DEFINE d == call[c].name
<1>1. disk' # Without(disk, d)
  BY DEF Without, Restrict
<1>2. call[c].at \in Working
  BY Zenon DEF Undoes, Fills, Working
<1>3. d \in DOMAIN disk /\ (call[c].at = "rmdir" => d \in undone)
  BY <1>2 DEF Staged, Stage
<1>4. disk[d].script # "none" => disk[d].config \in StrategyConfig \/ disk[d].config = Absent
  BY <1>3 DEF ScriptLast
<1>5. disk[d] \in Row
  BY <1>3 DEF Rows
<1> HIDE DEF d
<1>6. /\ [disk[d] EXCEPT !.config = Absent].config = Absent
      /\ [disk[d] EXCEPT !.script = "none"].script = "none" /\ NoFiles.script = "none"
  BY <1>5 DEF Row, NoFiles
<1>7. \A content : disk' = With(disk, d, content) => disk'[d] = content
  BY DEF With
<1>8. CASE call[c].at = "undo" /\ \E less \in {[disk[d] EXCEPT !.config = Absent], [disk[d] EXCEPT !.script = "none"]} :
                                    Fills(c, "undo", less, "rmdir")
  <2>1. PICK less \in {[disk[d] EXCEPT !.config = Absent], [disk[d] EXCEPT !.script = "none"]} : Fills(c, "undo", less, "rmdir")
    BY <1>8
  <2>2. disk'[d] = less /\ call'[c].name = d /\ call'[c].at = "rmdir"
    BY <1>7, <2>1 DEF Fills, Goes, d
  <2>3. d \in undone'
    BY <1>8, Zenon DEF Undoes, d
  <2>4. disk'[d].script # "none" => disk'[d].config = Absent
    BY <1>6, <2>1, <2>2
  <2> QED
    BY <2>2, <2>3, <2>4 DEF Working, d
<1>9. CASE call[c].at = "undo" /\ disk' = disk /\ undone' = undone \cup {d} /\ abandoned' = abandoned \cup {d}
  BY <1>4, <1>9 DEF d
<1>10. CASE /\ call[c].at = "rmdir" /\ undone' = undone /\ abandoned' = abandoned \cup {d}
            /\ \E left \in {disk[d], NoFiles} : disk' = With(disk, d, left)
  <2>1. disk'[d] = disk[d] \/ disk'[d] = NoFiles
    BY <1>7, <1>10
  <2> QED
    BY <1>3, <1>4, <1>6, <1>10, <2>1 DEF d
<1> QED
  BY <1>1, <1>3, <1>8, <1>9, <1>10, Zenon DEF Undoes, Fills, d

LEMMA NoHalvesStep ==
  ASSUME TypeOK, Rows, Called, Staged, Kept, NoHalves, ScriptLast, [Next]_vars
  PROVE  NoHalves'
<1> SUFFICES ASSUME NEW d, d \in DOMAIN disk', d \notin touched', d \notin abandoned'
             PROVE  \/ disk'[d].script = "whole" /\ disk'[d].config \in StrategyConfig
                    \/ \E c \in Callers : call'[c].name = d /\ call'[c].at \in Working
  BY Zenon DEF NoHalves
<1>1. d \notin touched
  BY TouchedGrows
<1>2. ASSUME NEW c \in Callers, call[c].name = d, Makes(c)
      PROVE  \/ disk'[d].script = "whole" /\ disk'[d].config \in StrategyConfig
             \/ call'[c].name = d /\ call'[c].at \in Working
  BY <1>1, <1>2, MadeFiles, Zenon
<1>3. ASSUME NEW c \in Callers, call[c].name = d, Undoes(c)
      PROVE  call'[c].name = d /\ call'[c].at \in Working
  BY <1>1, <1>3, Undone
<1>4. ASSUME Same(d), NEW c \in Callers, call[c].name = d, call[c].at \in Working, Waits(c) \/ Decides(c)
      PROVE  call'[c].name = d /\ call'[c].at \in Working
  BY <1>4 DEF Waits, Decides, Goes, Working, Same
<1>6. ASSUME Kills, NEW c \in Callers, call[c].name = d, call[c].at \in Working
      PROVE  FALSE
  BY <1>6 DEF Kills
<1>5. CASE Same(d)
  <2>1. \/ disk[d].script = "whole" /\ disk[d].config \in StrategyConfig
        \/ \E c \in Callers : call[c].name = d /\ call[c].at \in Working
    BY <1>1, <1>5, Zenon DEF NoHalves, Same
  <2>2. disk'[d] = disk[d]
    BY <1>5, Zenon DEF Same
  <2> QED
    BY <1>2, <1>3, <1>4, <1>5, <1>6, <2>1, <2>2, WorkStep
<1> QED
  BY <1>2, <1>3, <1>5, DirStep

LEMMA ScriptLastStep ==
  ASSUME TypeOK, Rows, Called, Staged, Kept, ScriptLast, [Next]_vars
  PROVE  ScriptLast'
<1> SUFFICES ASSUME NEW d, d \in DOMAIN disk', d \notin touched', disk'[d].script # "none"
             PROVE  disk'[d].config \in StrategyConfig \/ (disk'[d].config = Absent /\ d \in undone')
  BY Zenon DEF ScriptLast
<1>1. d \notin touched
  BY TouchedGrows
<1>2. CASE Same(d)
  BY <1>1, <1>2 DEF ScriptLast, Same
<1>3. ASSUME NEW c \in Callers, call[c].name = d, Makes(c)
      PROVE  disk'[d].config \in StrategyConfig
  BY <1>1, <1>3, MadeFiles, Zenon
<1>4. ASSUME NEW c \in Callers, call[c].name = d, Undoes(c)
      PROVE  disk'[d].config \in StrategyConfig \/ (disk'[d].config = Absent /\ d \in undone')
  BY <1>1, <1>4, Undone
<1> QED
  BY <1>2, <1>3, <1>4, DirStep

-----------------------------------------------------------------------------
(* Reading *)

\* Who scans has scanned, undisturbed, or reads on.
LEMMA ScanFrom ==
  ASSUME TypeOK, Called, [Next]_vars, NEW c \in Callers, call'[c].at \in {"scan", "read"}, call'[c].calm
  PROVE  \/ Waits(c) /\ call[c].at \in {"scan", "read"} /\ call[c].calm /\ disk' = disk
         \/ Reads(c)
<1>1. CASE Waits(c)
  <2>1. Sound(call[c])
    BY Zenon DEF Called
  <2>2. call[c].at = call'[c].at /\ call[c].op # "start"
    BY <1>1, <2>1 DEF Waits, Sound
  <2> QED
    BY <1>1, <2>2 DEF Waits
<1>2. CASE Comes(c)
  <2>1. Idle.at = "idle"
    BY DEF Idle
  <2>2. call[c].at = "idle"
    BY <1>2, <2>1 DEF Comes
  <2>3. call'[c].at \in {"idle", "stat", "list", "launch"}
    BY <1>2, <2>2 DEF Comes, Waits, Idle
  <2> QED
    BY <2>3
<1>3. Idle.at \notin {"scan", "read"}
  BY DEF Idle
<1>4. CASE Leaves(c) \/ Sets(c) \/ Launches(c) \/ call'[c] = Idle
  BY <1>3, <1>4, Zenon DEF Leaves, Sets, Launches, Returns
<1>5. CASE Decides(c)
  BY <1>5 DEF Decides, Goes
<1>6. CASE Makes(c)
  BY <1>6 DEF Makes, Fills, Goes
<1>7. CASE Undoes(c)
  BY <1>3, <1>7 DEF Undoes, Fills, Goes, Returns
<1> QED
  BY <1>1, <1>2, <1>4, <1>5, <1>6, <1>7, Turn

\* A directory left out changes nothing that is found.
LEMMA FoundPast ==
  ASSUME NEW f, NEW dirs, Found(f, dirs), NEW d, d \notin Complete
  PROVE  Found(f, dirs \cup {d})
<1>1. (dirs \cup {d}) \cap Complete = dirs \cap Complete
  OBVIOUS
<1> QED
  BY <1>1 DEF Found

\* A directory read after all others takes its name.
LEMMA FoundNext ==
  ASSUME NEW f, NEW dirs, Found(f, dirs), NEW d, d \in Complete, Readable(d), \A e \in dirs : Before(e, d)
  PROVE  Found(With(f, disk[d].config.name, Entry(d, disk[d].config)), dirs \cup {d})
<1> DEFINE name(x) == disk[x].config.name
           new(x) == Entry(x, disk[x].config)
           g == With(f, name(d), new(d))
<1>1. /\ g = [n \in DOMAIN f \cup {name(d)} |-> IF n = name(d) THEN new(d) ELSE f[n]]
      /\ DOMAIN g = DOMAIN f \cup {name(d)}
  BY DEF With
<1>2. g[name(d)] = new(d) /\ \A n \in DOMAIN f \ {name(d)} : g[n] = f[n]
  BY DEF With
<1>3. /\ \A x \in dirs \cap Complete : Readable(x) /\ name(x) \in DOMAIN f
      /\ \A n \in DOMAIN f : \E x \in dirs \cap Complete :
           /\ name(x) = n /\ f[n] = new(x)
           /\ \A e \in (dirs \cap Complete) \ {x} : name(e) = n => Before(e, x)
  BY Zenon DEF Found
<1>4. g = [n \in DOMAIN g |-> g[n]]
  BY <1>1
<1> HIDE DEF name, new, g
<1>5. \A x \in (dirs \cup {d}) \cap Complete : Readable(x) /\ name(x) \in DOMAIN g
  BY <1>1, <1>3
<1>6. ASSUME NEW n \in DOMAIN g
      PROVE  \E x \in (dirs \cup {d}) \cap Complete :
               /\ name(x) = n /\ g[n] = new(x)
               /\ \A e \in ((dirs \cup {d}) \cap Complete) \ {x} : name(e) = n => Before(e, x)
  <2>1. CASE n = name(d)
    <3>1. d \in (dirs \cup {d}) \cap Complete /\ \A e \in ((dirs \cup {d}) \cap Complete) \ {d} : Before(e, d)
      OBVIOUS
    <3> QED
      BY <1>2, <2>1, <3>1, Zenon
  <2>2. CASE n # name(d)
    <3>1. n \in DOMAIN f /\ g[n] = f[n]
      BY <1>1, <1>2, <1>6, <2>2
    <3>2. PICK x \in dirs \cap Complete :
            /\ name(x) = n /\ f[n] = new(x)
            /\ \A e \in (dirs \cap Complete) \ {x} : name(e) = n => Before(e, x)
      BY <1>3, <3>1, Zenon
    <3>3. \A e \in ((dirs \cup {d}) \cap Complete) \ {x} : name(e) = n => Before(e, x)
      BY <2>2, <3>2
    <3>4. x \in (dirs \cup {d}) \cap Complete
      OBVIOUS
    <3> QED
      BY <3>1, <3>2, <3>3, <3>4, Zenon
  <2> QED
    BY <2>1, <2>2
<1>7. Found(g, dirs \cup {d})
  BY <1>4, <1>5, <1>6, Zenon DEF Found, name, new
<1> QED
  BY <1>7 DEF g, name, new

\* One caller's part of Scanned.
Read(r) ==
  /\ r.todo \subseteq DOMAIN disk
  /\ \A d \in DOMAIN disk \ r.todo, e \in r.todo : Before(d, e)
  /\ Found(r.found, DOMAIN disk \ r.todo)
  /\ r.at = "read" => First(r.todo) \in Complete

LEMMA ReadStep ==
  ASSUME TypeOK, Called, Scanned, NEW c \in Callers, Reads(c), call'[c].calm
  PROVE  Read(call'[c])
<1> DEFINE d == First(call[c].todo)
<1>1. DOMAIN disk \subseteq Names
  BY Zenon DEF TypeOK
<1>2. CASE call[c].at = "list"
  <2>1. call[c].found = <<>>
    BY <1>2 DEF Called, Sound
  <2>2. call'[c].at = "scan" /\ call'[c].todo = DOMAIN disk /\ call'[c].found = <<>>
    BY <1>2, <2>1 DEF Reads
  <2>3. Found(<<>>, {})
    BY DEF Found
  <2>4. DOMAIN disk \ call'[c].todo = {}
    BY <2>2
  <2> QED
    BY <2>2, <2>3, <2>4 DEF Read
<1>3. ASSUME call[c].at \in {"scan", "read"}
      PROVE  Read(call[c]) /\ call[c].todo # {}
  <2>1. call[c].calm /\ call[c].todo # {}
    BY <1>3 DEF Reads, Called, Sound
  <2> QED
    BY <1>3, <2>1, Zenon DEF Scanned, Read
<1>4. ASSUME call[c].at \in {"scan", "read"}
      PROVE  /\ d \in call[c].todo /\ call[c].todo \subseteq DOMAIN disk
             /\ \A e \in call[c].todo \ {d} : Before(d, e)
             /\ \A e \in DOMAIN disk \ call[c].todo : Before(e, d)
             /\ DOMAIN disk \ (call[c].todo \ {d}) = (DOMAIN disk \ call[c].todo) \cup {d}
  <2>1. call[c].todo \subseteq Names /\ call[c].todo # {} /\ call[c].todo \subseteq DOMAIN disk
    BY <1>1, <1>3, <1>4 DEF Read
  <2>2. d \in call[c].todo /\ \A e \in call[c].todo \ {d} : Before(d, e)
    BY <2>1, FirstLast
  <2>3. \A e \in DOMAIN disk \ call[c].todo : Before(e, d)
    BY <1>3, <1>4, <2>2 DEF Read
  <2> HIDE DEF d
  <2> QED
    BY <2>1, <2>2, <2>3
<1> HIDE DEF d
<1>5. ASSUME call[c].at \in {"scan", "read"}, call'[c].todo = call[c].todo \ {d}, call'[c].at = "scan",
             Found(call'[c].found, (DOMAIN disk \ call[c].todo) \cup {d})
      PROVE  Read(call'[c])
  <2>1. \A x \in DOMAIN disk \ call'[c].todo, e \in call'[c].todo : Before(x, e)
    <3>1. \A x \in DOMAIN disk \ call[c].todo, e \in call[c].todo : Before(x, e)
      BY <1>3, <1>5, Zenon DEF Read
    <3> QED
      BY <1>4, <1>5, <3>1
  <2> QED
    BY <1>4, <1>5, <2>1 DEF Read
<1>6. CASE call[c].at = "scan"
  <2>1. /\ call'[c].found = call[c].found
        /\ \/ d \in Complete /\ call'[c].at = "read" /\ call'[c].todo = call[c].todo
           \/ d \notin Complete /\ call'[c].at = "scan" /\ call'[c].todo = call[c].todo \ {d}
    BY <1>6 DEF Reads, d
  <2>2. Found(call[c].found, DOMAIN disk \ call[c].todo)
    BY <1>3, <1>6 DEF Read
  <2>3. CASE d \in Complete /\ call'[c].at = "read" /\ call'[c].todo = call[c].todo
    BY <1>3, <1>6, <2>1, <2>3, Zenon DEF Read, d
  <2>4. CASE d \notin Complete /\ call'[c].at = "scan" /\ call'[c].todo = call[c].todo \ {d}
    BY <1>5, <1>6, <2>1, <2>2, <2>4, FoundPast
  <2> QED
    BY <2>1, <2>3, <2>4
<1>7. CASE call[c].at = "read"
  <2>1. /\ Readable(d) /\ call'[c].at = "scan" /\ call'[c].todo = call[c].todo \ {d}
        /\ call'[c].found = With(call[c].found, disk[d].config.name, Entry(d, disk[d].config))
    BY <1>7 DEF Reads, d
  <2>2. Found(call[c].found, DOMAIN disk \ call[c].todo) /\ d \in Complete
    BY <1>3, <1>7 DEF Read, d
  <2>3. Found(call'[c].found, (DOMAIN disk \ call[c].todo) \cup {d})
    BY <1>4, <1>7, <2>1, <2>2, FoundNext
  <2> QED
    BY <1>5, <1>7, <2>1, <2>3
<1> QED
  BY <1>2, <1>6, <1>7 DEF Reads

LEMMA ScannedStep ==
  ASSUME TypeOK, Called, Scanned, [Next]_vars
  PROVE  Scanned'
<1> SUFFICES ASSUME NEW c \in Callers, call'[c].at \in {"scan", "read"}, call'[c].calm
             PROVE  Read(call[c])'
  BY Zenon DEF Scanned, Read
<1>1. disk' = disk /\ Read(call'[c])
  <2>1. CASE Waits(c) /\ call[c].at \in {"scan", "read"} /\ call[c].calm /\ disk' = disk
    <3>1. Read(call[c])
      BY <2>1, Zenon DEF Scanned, Read
    <3> QED
      BY <2>1, <3>1, Zenon DEF Waits, Read
  <2>2. CASE Reads(c)
    BY <2>2, ReadStep, Zenon DEF Reads, FilesKept
  <2> QED
    BY <2>1, <2>2, ScanFrom
<1>2. Complete' = Complete /\ \A d : Readable(d)' <=> Readable(d)
  BY <1>1, Zenon DEF Complete, Readable
<1>3. Found(call[c].found, DOMAIN disk \ call[c].todo)'
  <2>1. Found(call'[c].found, DOMAIN disk \ call'[c].todo)
    BY <1>1, Zenon DEF Read
  <2> QED
    BY <1>1, <1>2, <2>1, Zenon DEF Found
<1> QED
  BY <1>1, <1>2, <1>3, Zenon DEF Read

LEMMA SyncedStep ==
  ASSUME TypeOK, Called, Scanned, Synced, [Next]_vars
  PROVE  Synced'
<1>1. ASSUME synced', disk' = disk, Found(catalog', DOMAIN disk)
      PROVE  Synced'
  BY <1>1, Zenon DEF Synced, Found, Complete, Readable
<1>2. ASSUME disk' = disk, catalog' = catalog, synced' = synced
      PROVE  Synced'
  <2>1. CASE synced
    BY <1>1, <1>2, <2>1, Zenon DEF Synced
  <2>2. CASE ~synced
    BY <1>2, <2>2, Zenon DEF Synced
  <2> QED
    BY <2>1, <2>2
<1>3. synced' = FALSE => Synced'
  BY Zenon DEF Synced
<1>4. ASSUME NEW c \in Callers, Sets(c)
      PROVE  Synced'
  <2>1. call[c].at = "scan" /\ call[c].todo = {} /\ disk' = disk /\ catalog' = call[c].found /\ synced' = call[c].calm
    BY <1>4, Zenon DEF Sets, FilesKept
  <2>2. CASE call[c].calm
    <3>1. Found(call[c].found, DOMAIN disk \ call[c].todo)
      BY <2>1, <2>2 DEF Scanned
    <3>2. DOMAIN disk \ call[c].todo = DOMAIN disk
      BY <2>1
    <3>3. Found(catalog', DOMAIN disk)
      BY <2>1, <3>1, <3>2, Zenon
    <3> QED
      BY <1>1, <2>1, <2>2, <3>3
  <2>3. CASE ~call[c].calm
    BY <2>1, <2>3, Zenon DEF Synced
  <2> QED
    BY <2>2, <2>3
<1>5. ASSUME NEW c \in Callers, Makes(c) \/ Undoes(c)
      PROVE  Synced'
  BY <1>2, <1>3, <1>5, Zenon DEF Makes, Undoes, CatalogKept
<1>6. ASSUME NEW n \in Names, Edits(n)
      PROVE  Synced'
  BY <1>3, <1>6, Zenon DEF Edits
<1>9. Crashes \/ Kills => Synced'
  BY <1>2, <1>3, Zenon DEF Crashes, Kills, FilesKept
<1>7. ASSUME NEW c \in Callers, Launches(c)
      PROVE  Synced'
  BY <1>2, <1>7, Zenon DEF Launches, FilesKept, CatalogKept
<1>8. ASSUME FilesKept, Apart
      PROVE  Synced'
  BY <1>2, <1>8, Zenon DEF FilesKept, Apart, CatalogKept
<1> QED
  BY <1>4, <1>5, <1>6, <1>7, <1>8, <1>9, StepKinds, Zenon DEF Comes, Leaves, Decides, Reads, Stays

-----------------------------------------------------------------------------
(* Starting *)

LEMMA StartedStep ==
  ASSUME TypeOK, Called, Started, [Next]_vars
  PROVE  Started'
<1> SUFFICES ASSUME NEW c \in Callers, call'[c].at = "launch", call'[c].calm
             PROVE  call'[c].name \in DOMAIN catalog' /\ catalog'[call'[c].name].config.enabled
  BY Zenon DEF Started, Enabled
<1>1. CASE Waits(c)
  <2>1. Sound(call[c])
    BY Zenon DEF Called
  <2>2. call[c].at = "launch" /\ call[c].op = "start" /\ call'[c].name = call[c].name
    BY <1>1, <2>1, Zenon DEF Waits, Sound
  <2>3. call[c].calm /\ catalog' = catalog
    BY <1>1, <2>2 DEF Waits
  <2> QED
    BY <2>2, <2>3, Zenon DEF Started, Enabled
<1>2. CASE Comes(c) /\ ~Waits(c)
  <2>1. catalog' = catalog
    BY <1>2, Zenon DEF Comes, Apart, CatalogKept
  <2>2. PICK n \in Names : Enabled(n) /\ call'[c] = [Idle EXCEPT !.op = "start", !.at = "launch", !.name = n]
    <3>1. /\ \A opts : [Idle EXCEPT !.op = "create", !.at = "stat", !.name = opts.name, !.opts = opts].at = "stat"
          /\ \A op : [Idle EXCEPT !.op = op, !.at = "list"].at = "list"
      BY DEF Idle
    <3>2. \A opts : call'[c] # [Idle EXCEPT !.op = "create", !.at = "stat", !.name = opts.name, !.opts = opts]
      BY <3>1
    <3>3. \A op : call'[c] # [Idle EXCEPT !.op = op, !.at = "list"]
      BY <3>1
    <3> QED
      BY <1>2, <3>2, <3>3, Zenon DEF Comes
  <2>3. call'[c].name = n
    BY <2>2 DEF Idle
  <2> QED
    BY <2>1, <2>2, <2>3, Zenon DEF Enabled
<1>3. Idle.at # "launch"
  BY DEF Idle
<1>4. CASE Leaves(c) \/ Sets(c) \/ Launches(c) \/ call'[c] = Idle
  BY <1>3, <1>4, Zenon DEF Leaves, Sets, Launches, Returns
<1>5. CASE Decides(c)
  BY <1>5 DEF Decides, Goes
<1>6. CASE Makes(c)
  BY <1>6 DEF Makes, Fills, Goes
<1>7. CASE Undoes(c)
  BY <1>3, <1>7 DEF Undoes, Fills, Goes, Returns
<1>8. CASE Reads(c)
  BY <1>8 DEF Reads
<1> QED
  BY <1>1, <1>2, <1>4, <1>5, <1>6, <1>7, <1>8, Turn

LEMMA RestartingStep ==
  ASSUME TypeOK, Called, Restarting, [Next]_vars
  PROVE  Restarting'
<1>1. CatalogKept => Restarting'
  BY Zenon DEF CatalogKept, Restarting
<1>2. ASSUME NEW c \in Callers, Sets(c)
      PROVE  Restarting'
  <2>1. restart' = {[r EXCEPT !.calm = FALSE] : r \in restart}
    BY <1>2, Zenon DEF Sets
  <2>2. \A r : [r EXCEPT !.calm = FALSE].calm => FALSE
    OBVIOUS
  <2>3. \A r \in restart' : r.calm => FALSE
    BY <2>1, <2>2
  <2> QED
    BY <2>3, Zenon DEF Restarting
<1>3. ASSUME Crashes
      PROVE  Restarting'
  <2>1. catalog' = catalog
    BY <1>3, Zenon DEF Crashes
  <2>2. CASE restart' \subseteq restart
    BY <2>1, <2>2 DEF Restarting
  <2>3. ASSUME NEW x \in exits, Enabled(x.name),
               restart' = restart \cup {[id |-> x.id, name |-> x.name, entry |-> catalog[x.name], calm |-> TRUE]}
        PROVE  Restarting'
    BY <2>1, <2>3 DEF Restarting, Enabled
  <2>4. restart \subseteq restart /\ \A r : restart \ {r} \subseteq restart
    OBVIOUS
  <2> QED
    BY <1>3, <2>2, <2>3, <2>4, Zenon DEF Crashes
<1>4. Kills => Restarting'
  BY DEF Kills, Restarting
<1> QED
  BY <1>1, <1>2, <1>3, <1>4, StepKinds, Zenon
     DEF Comes, Leaves, Decides, Makes, Undoes, Reads, Launches, Edits, Stays, Apart

-----------------------------------------------------------------------------
(* The theorems *)

LEMMA Initially == Init => IInv
<1> SUFFICES ASSUME Init
             PROVE  IInv
  OBVIOUS
<1>1. /\ up = FALSE /\ catalog = <<>> /\ process = <<>> /\ exits = {} /\ restart = {} /\ made = <<>>
      /\ DOMAIN call = Callers /\ \A c \in Callers : call[c] = Idle
      /\ touched = DOMAIN disk /\ undone = {} /\ abandoned = {} /\ synced = FALSE
      /\ edits = 0 /\ faults = 0 /\ crashes = 0 /\ calls = 0
  BY DEF Init
<1>2. DOMAIN <<>> = {}
  OBVIOUS
<1>3. Idle.at = "idle" /\ Idle.op = "none" /\ Idle.calm = TRUE
  BY DEF Idle
<1>8. DOMAIN disk \subseteq Names /\ \A d \in DOMAIN disk : disk[d] \in [config : StrategyConfig, script : {"whole"}]
  BY CatalogAssumption DEF Init
<1>9. Rows
  BY <1>8 DEF Rows, Row, Scripts
<1>4. TypeOK
  <2>1. 0 \in 0..MaxEdits /\ 0 \in 0..MaxFaults /\ 0 \in 0..MaxCrashes /\ 0 \in 0..MaxCalls
    BY Values
  <2>2. \A d \in DOMAIN disk : disk[d].script \in {"none", "part", "whole"} /\ disk[d].config \in StrategyConfig \cup {Absent, Garbled}
    BY <1>8
  <2> QED
    BY <1>1, <1>2, <1>3, <1>8, <2>1, <2>2 DEF TypeOK
<1>5. Kept /\ NoHalves /\ ScriptLast /\ Restarting
  BY <1>1, <1>2 DEF Kept, NoHalves, ScriptLast, Restarting
<1>6. Called
  BY <1>1, IdleSound DEF Called
<1>7. Alone /\ Staged /\ Scanned /\ Synced /\ Started
  BY <1>1, <1>3 DEF Alone, Staged, Scanned, Synced, Started, Working
<1> QED
  BY <1>4, <1>5, <1>6, <1>7, <1>9 DEF IInv

LEMMA Inductive == IInv /\ [Next]_vars => IInv'
<1> SUFFICES ASSUME IInv, [Next]_vars
             PROVE  IInv'
  OBVIOUS
<1>1. /\ TypeOK /\ Rows /\ Called /\ Alone /\ Staged /\ Kept /\ NoHalves /\ ScriptLast
      /\ Scanned /\ Synced /\ Started /\ Restarting
  BY Zenon DEF IInv
<1>2. TypeOK' /\ Rows' /\ Called'
  BY <1>1, TypeStep, RowsStep, CalledStep
<1>3. Alone' /\ Staged' /\ Kept' /\ NoHalves' /\ ScriptLast'
  BY <1>1, AloneStep, StagedStep, KeptStep, NoHalvesStep, ScriptLastStep
<1>4. Scanned' /\ Synced' /\ Started' /\ Restarting'
  BY <1>1, ScannedStep, SyncedStep, StartedStep, RestartingStep
<1> QED
  BY <1>2, <1>3, <1>4, Zenon DEF IInv

\* What the loader, CreateStrategy and the starts keep true of the directory, the catalog
\* and each other at every step, whatever people write by hand meanwhile.
THEOREM Invariance == Spec => []IInv
<1>1. IInv /\ UNCHANGED vars => IInv'
  BY Inductive
<1> QED
  BY Initially, Inductive, PTL DEF Spec

\* CreateStrategy is whole to everybody else: two requests for one name, a rollback, a
\* failed write, a reload in between and a kill of signalixd lose none of what was made and
\* leave no directory half made, but where removing it failed or signalixd ended in the
\* middle of Create; and those upset no scan (Create, rollback, DiscoverStrategies).
THEOREM Whole == Spec => []CreationIsWhole
<1>1. IInv => CreationIsWhole
  <2> SUFFICES ASSUME IInv
               PROVE  CreationIsWhole
    OBVIOUS
  <2>1. TypeOK /\ Kept /\ NoHalves /\ ScriptLast
    BY Zenon DEF IInv
  <2>2. \A d \in DOMAIN made : d \in DOMAIN disk /\ disk[d] = [config |-> made[d], script |-> "whole"]
    BY <2>1 DEF Kept
  <2>3. Making = Working
    BY DEF Making, Working
  <2> QED
    BY <2>1, <2>2, <2>3, Zenon DEF CreationIsWhole, NoHalves, ScriptLast
<1> QED
  BY <1>1, Invariance, PTL

\* What a scan of all directories finds is the catalog that the files say.
LEMMA FoundListing ==
  ASSUME DOMAIN disk \subseteq Names, NEW f, Found(f, DOMAIN disk)
  PROVE  f = Listing
<1> DEFINE name(d) == disk[d].config.name
           new(d) == Entry(d, disk[d].config)
           having(n) == {d \in Complete : name(d) = n}
<1>1. Complete \subseteq Names /\ DOMAIN disk \cap Complete = Complete
  BY DEF Complete
<1>2. /\ f = [n \in DOMAIN f |-> f[n]]
      /\ \A d \in Complete : name(d) \in DOMAIN f
      /\ \A n \in DOMAIN f : \E d \in Complete :
           name(d) = n /\ f[n] = new(d) /\ \A e \in Complete \ {d} : name(e) = n => Before(e, d)
  BY <1>1 DEF Found
<1> HIDE DEF name, new
<1>3. ASSUME NEW n \in DOMAIN f
      PROVE  f[n] = new(Last(having(n)))
  <2>1. PICK d \in Complete : name(d) = n /\ f[n] = new(d) /\ \A e \in Complete \ {d} : name(e) = n => Before(e, d)
    BY <1>2
  <2>2. having(n) \subseteq Names /\ d \in having(n) /\ \A e \in having(n) \ {d} : Before(e, d)
    BY <1>1, <2>1
  <2> HIDE DEF having
  <2>3. Last(having(n)) \in having(n) /\ \A e \in having(n) \ {Last(having(n))} : Before(e, Last(having(n)))
    BY <2>2, FirstLast
  <2>4. Last(having(n)) = d
    BY <2>2, <2>3, BeforeOrders
  <2> QED
    BY <2>1, <2>4
<1>4. DOMAIN f = {name(d) : d \in Complete}
  BY <1>2
<1>5. f = [n \in {name(d) : d \in Complete} |-> new(Last(having(n)))]
  <2> HIDE DEF having
  <2> QED
    BY <1>2, <1>3, <1>4
<1> QED
  BY <1>5, Zenon DEF Listing, name, new, having

\* After a reload that no change disturbed the catalog is the listing of the directory, the
\* last one of each name, until the next change or the end of a reload that one disturbed;
\* and what it lists resolves to an interval, unless it has none and the default is none
\* either (ReloadStrategiesCatalog, validateConfig, launchStrategy).
THEOREM ListingIsTrue == Spec => []SyncedIsListing
<1>1. IInv => SyncedIsListing
  <2> SUFFICES ASSUME IInv
               PROVE  SyncedIsListing
    OBVIOUS
  <2>1. TypeOK /\ Synced
    BY Zenon DEF IInv
  <2>2. synced => catalog = Listing
    <3>1. DOMAIN disk \subseteq Names
      BY <2>1, Zenon DEF TypeOK
    <3> QED
      BY <2>1, <3>1, FoundListing DEF Synced
  <2>3. \A n \in DOMAIN catalog :
          \/ ValidateInterval(ResolveInterval(catalog[n].config))
          \/ catalog[n].config.interval = "" /\ ~ValidateInterval(DefaultInterval)
    <3>1. \A n \in DOMAIN catalog : validateConfig(catalog[n].config)
      BY <2>1, Zenon DEF TypeOK, Catalogued
    <3> QED
      BY <3>1, ValidConfig, Zenon
  <2> QED
    BY <2>2, <2>3, Zenon DEF SyncedIsListing
<1> QED
  BY <1>1, Invariance, PTL

\* No call, no restart and no start of signalixd brings up a strategy but from an enabled
\* entry of the catalog, unless a reload came between the look at the catalog and the launch:
\* then a call starts what is there now, and a restart the entry that was there when its
\* strategy crashed (StartStrategy, StartStrategyByName, handleProcessExit, scheduleRestart).
THEOREM DisabledStays == Spec => DisabledStaysDown
<1> DEFINE Fair(n) ==
             \/ /\ n \in DOMAIN catalog' /\ process'[n] = catalog'[n]
                /\ \/ catalog'[n].config.enabled
                   \/ \E c \in Callers : call[c].op = "start" /\ call[c].name = n /\ ~call[c].calm /\ call'[c] = Idle
             \/ \E r \in restart \ restart' : r.name = n /\ ~r.calm /\ process'[n] = r.entry
           Justified == \A n \in DOMAIN process' \ DOMAIN process : Fair(n)
<1>1. IInv /\ [Next]_vars => Justified
  <2> SUFFICES ASSUME IInv, [Next]_vars, NEW n \in DOMAIN process' \ DOMAIN process
               PROVE  Fair(n)
    BY Zenon
  <2>1. TypeOK /\ Called /\ Started /\ Restarting
    BY Zenon DEF IInv
  <2>2. ASSUME NEW m, NEW st, process' = With(process, m, st)
        PROVE  n = m /\ process'[n] = st
    BY <2>2 DEF With
  <2>3. \A m : process' # Without(process, m)
    BY DEF Without, Restrict
  <2>4. process' # process
    OBVIOUS
  <2>5. ASSUME NEW c \in Callers, Launches(c)
        PROVE  Fair(n)
    <3>1. /\ call[c].at = "launch" /\ call[c].name \in DOMAIN catalog /\ catalog' = catalog /\ call'[c] = Idle
          /\ process' = With(process, call[c].name, catalog[call[c].name])
      BY <2>4, <2>5, Zenon DEF Launches, CatalogKept, Returns
    <3>2. call[c].name = n /\ process'[n] = catalog[n]
      BY <2>2, <3>1
    <3>3. call[c].op = "start" /\ call[c].calm \in BOOLEAN
      BY <2>1, <3>1, Zenon DEF Called, Sound
    <3>4. call[c].calm => catalog[n].config.enabled
      BY <2>1, <3>1, <3>2, Zenon DEF Started, Enabled
    <3> QED
      BY <3>1, <3>2, <3>3, <3>4, Zenon
  <2>6. ASSUME NEW c \in Callers, Sets(c)
        PROVE  Fair(n)
    <3>1. PICK names \in SUBSET {k \in DOMAIN catalog' : catalog'[k].config.enabled} :
            process' = [k \in names |-> catalog'[k]]
      BY <2>4, <2>6, Zenon DEF Sets
    <3>2. n \in DOMAIN catalog' /\ catalog'[n].config.enabled /\ process'[n] = catalog'[n]
      BY <3>1
    <3> QED
      BY <3>2, Zenon
  <2>7. ASSUME Crashes
        PROVE  Fair(n)
    <3>1. catalog' = catalog
      BY <2>7, Zenon DEF Crashes
    <3>2. PICK r \in restart : restart' = restart \ {r} /\ process' = With(process, r.name, r.entry)
      BY <2>3, <2>4, <2>7, Zenon DEF Crashes
    <3>3. r.name = n /\ process'[n] = r.entry
      BY <2>2, <3>2
    <3>4. r \in restart \ restart'
      BY <3>2
    <3>5. r.entry.config.enabled /\ r.calm \in BOOLEAN
      BY <2>1, Zenon DEF TypeOK
    <3>6. CASE r.calm
      <4>1. n \in DOMAIN catalog' /\ catalog'[n] = r.entry
        BY <2>1, <3>1, <3>3, <3>6, Zenon DEF Restarting
      <4> QED
        BY <3>3, <3>5, <4>1, Zenon
    <3>7. CASE ~r.calm
      BY <3>3, <3>4, <3>7, Zenon
    <3> QED
      BY <3>5, <3>6, <3>7
  <2>8. ~Kills
    <3>1. n \notin DOMAIN <<>>
      OBVIOUS
    <3> QED
      BY <3>1, Zenon DEF Kills
  <2> HIDE DEF Fair
  <2> QED
    BY <2>1, <2>4, <2>5, <2>6, <2>7, <2>8, StepKinds, Zenon
       DEF Comes, Leaves, Decides, Makes, Undoes, Reads, Edits, Stays, Apart
<1>2. Justified => [Justified]_vars
  OBVIOUS
<1> HIDE DEF Justified
<1>3. Spec => [][Justified]_vars
  BY <1>1, <1>2, Invariance, PTL DEF Spec
<1> QED
  BY <1>3, Zenon DEF DisabledStaysDown, Justified
=============================================================================
