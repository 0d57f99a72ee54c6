----------------------------- MODULE StoreRows -----------------------------
(***************************************************************************)
(* Rows the SQLite store keeps in the order of time: strategy logs and     *)
(* account snapshots (internal/adapters/store/sqlite/persistence.go and    *)
(* persistence_query.go).  A time is written as RFC3339Nano text and every *)
(* comparison of the queries is one of texts, so the order of the texts,   *)
(* not of the times, decides what is listed, found latest and purged.      *)
(*                                                                         *)
(* An instant is a number; InstantsPerSecond of them make a second, at the *)
(* fractions .0, .5 and .55 (a whole second has no fraction in the text,   *)
(* and the zeros at the end of a fraction are left out).                   *)
(***************************************************************************)
EXTENDS Naturals, Sequences, SequencesExt, FiniteSetsExt, Functions

CONSTANTS
    NoTime,         \* a time that is not given
    AllStrategies   \* a strategy that is not given

InstantsPerSecond == 3
Second(t) == t \div InstantsPerSecond
Fraction(t) == (t % InstantsPerSecond) + 1

\* The characters after the second, by their places in the character table:
\* a dot is before every digit and the zone letter after them.
Dot == 1
Five == 2
Zone == 3

\* What follows the second in the text of each fraction.
Endings == << <<Zone>>, <<Dot, Five, Zone>>, <<Dot, Five, Five, Zone>> >>

\* Text s is before text u.
TextBefore(s, u) ==
    \E i \in 1 .. Len(s) : /\ i <= Len(u)
                           /\ \A j \in 1 .. i - 1 : s[j] = u[j]
                           /\ s[i] < u[i]

EndingBefore ==
    {e \in (1 .. Len(Endings)) \X (1 .. Len(Endings)) : TextBefore(Endings[e[1]], Endings[e[2]])}

\* formatTimeUTC writes up to the second with a fixed width: texts of one second differ in
\* what follows it only.
Before(a, b) ==
    \/ Second(a) < Second(b)
    \/ Second(a) = Second(b) /\ <<Fraction(a), Fraction(b)>> \in EndingBefore

\* ORDER BY created_at ASC, id ASC: row p comes before row q.
Precedes(p, q) == Before(p.at, q.at) \/ (p.at = q.at /\ p.id < q.id)

\* LIMIT n on the rows in that order, and in the opposite one; it cuts off nothing of n rows
\* or fewer.
FirstRows(rows, n) ==
    IF Cardinality(rows) <= n THEN rows
    ELSE {r \in rows : Cardinality({q \in rows : Precedes(q, r)}) < n}
LastRows(rows, n) == {r \in rows : Cardinality({q \in rows : Precedes(r, q)}) < n}

\* A time range of a query; an end that is not given is NoTime.
InRange(rows, start, end) ==
    {r \in rows : /\ start = NoTime \/ ~ Before(r.at, start)
                  /\ end = NoTime \/ ~ Before(end, r.at)}

OfStrategy(rows, name) == {r \in rows : name = AllStrategies \/ r.strategy = name}

ListStrategyLogs(rows, name, start, end, limit) ==
    FirstRows(InRange(OfStrategy(rows, name), start, end), limit)

ListRecentStrategyLogs(rows, name, limit) == LastRows(OfStrategy(rows, name), limit)

ListAccountSnapshots(rows, start, end, limit) == FirstRows(InRange(rows, start, end), limit)

\* The handlers of both lists refuse a range that ends before it starts.
InvalidRange(start, end) == start # NoTime /\ end # NoTime /\ end < start

\* Mutant: the row saved last is taken for the latest one.
GetLatestAccountSnapshotById(rows) ==
    {r \in rows : \A q \in rows : q.id <= r.id}

\* The latest snapshot, as a set of at most one row.
GetLatestAccountSnapshot(rows) == LastRows(rows, 1)

\* What is left after the rows before the cutoff are deleted.
PurgeBefore(rows, cutoff) == {r \in rows : ~ Before(r.at, cutoff)}
=============================================================================
