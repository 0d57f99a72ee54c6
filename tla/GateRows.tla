------------------------------ MODULE GateRows ------------------------------
(***************************************************************************)
(* What the conversions of the two Gate.io clients share.  Amounts are     *)
(* integers; a text that holds a number is that number, an empty text is   *)
(* Blank.  Times are thousandths of a second.                              *)
(***************************************************************************)
EXTENDS Integers, Sequences, FiniteSets

CONSTANTS
  Blank,       \* the empty text
  FloatBelow   \* the times whose float64, in seconds, is below them

ASSUME BlankAssumption == Blank \notin Int

\* A float64 holds every eighth of a second.
ASSUME FloatAssumption == \A t \in FloatBelow : t \in Nat /\ t % 125 # 0

Abs(n) == IF n < 0 THEN -n ELSE n

parseFloat(s) == IF s = Blank THEN 0 ELSE s

\* A JSON number, a text, or a field that is missing.
Number(n) == [json |-> "number", n |-> n]
Text(n) == [json |-> "text", n |-> n]
Field(numbers, n) == IF numbers THEN Number(n) ELSE Text(n)
Missing == [json |-> "missing", n |-> Blank]

str(v) == IF v.json \in {"text", "number"} THEN v.n ELSE Blank

\* How a pushed row is written: amounts as numbers or as texts, and so the leverage, with
\* or without the id as text, times in milliseconds or in seconds.
Encodings == [numbers : BOOLEAN, levers : BOOLEAN, idText : BOOLEAN, millis : BOOLEAN]

\* Milliseconds are told from seconds by their size.  Both are numbers of thousandths
\* here: a second and its fraction, or a thousand times the milliseconds.
MilliFrom == 1000 * 1000

\* The time a float64 of seconds and its fraction gives: the nanoseconds are cut off, not
\* rounded, so that it may be a thousandth early.
fromSeconds(ts) == IF ts \in FloatBelow THEN ts - 1 ELSE ts

mapTIF(tif) ==
  CASE tif = "IOC" -> "ioc" [] tif = "FOK" -> "fok" [] tif = "POC" -> "poc" [] OTHER -> "gtc"

\* Mutant: a row that cannot be decoded ends the loop over the rows.
DecodedStop(frame) ==
  SubSeq(frame, 1, Cardinality({i \in DOMAIN frame : \A j \in 1 .. i : frame[j].ok}))

\* Every handler of a result leaves out a row it cannot decode and goes on with the next.
Decoded(frame) ==
  LET after[i \in 0 .. Len(frame)] ==
        IF i = 0 THEN <<>> ELSE IF frame[i].ok THEN Append(after[i - 1], frame[i]) ELSE after[i - 1]
  IN  after[Len(frame)]

-----------------------------------------------------------------------------
(* Client order ids and their tags *)

\* A client order id: its body, whether "t-" stands before it, whether the body is
\* longer than 28 characters, and whether it looks like a hash: 28 hex digits.
\* Long bodies are told apart by head, which fits in a tag, and tail, which does not.
ClientIds ==
  {id \in [head : STRING \ {""}, tail : STRING, prefixed : BOOLEAN, hex : BOOLEAN] : id.tail # "" => ~id.hex}

Long(id) == id.tail # ""

NoTag == [head |-> "", tail |-> "", hashed |-> FALSE, hex |-> FALSE]

\* A long body is replaced by the first 28 digits of its SHA-256, which no two ids
\* of a session share.
normalizeGateOrderText(id) ==
  [head |-> id.head, tail |-> id.tail, hashed |-> Long(id), hex |-> Long(id) \/ id.hex]

\* The local id a tag names: nothing for a hash, or for what looks like one.
localIDFromGateText(tag) == IF tag = NoTag \/ tag.hex THEN "none" ELSE tag.head

=============================================================================
