--------------------------- MODULE AccountProjection ---------------------------
(***************************************************************************)
(* The projection of the account and the equity tracker.  The account is   *)
(* external: trades and funding change it, and every change is pushed on   *)
(* the user stream.  A refresh asks for the balance, then for the          *)
(* positions, and then replaces the whole projection; a push changes one   *)
(* entry of it, once there was a refresh.                                  *)
(*                                                                         *)
(* An entry of the account is its total (Cash) or the size of a position,  *)
(* negative for a short one, 0 for none.                                   *)
(***************************************************************************)
EXTENDS Integers, Sequences, Functions

CONSTANTS
  Contracts,
  Cash,        \* the entry of the account's total
  UserBuf,     \* capacity of userCh
  StartTotal,  \* the account's total at the start
  Held,        \* the positions at the start
  MaxMoves,    \* bound: changes of the total that no order of ours makes
  MaxDays      \* bound: changes of the UTC date

Entries == Contracts \cup {Cash}

ASSUME ProjectionAssumption ==
  /\ Cash \notin Contracts
  /\ UserBuf \in Nat \ {0} /\ StartTotal \in Nat /\ {MaxMoves, MaxDays} \subseteq Nat
  /\ Held \in [Contracts -> Int]

VARIABLES
  account,     \* at the exchange
  moves, days,
  userCh,      \* updates pushed and not applied yet
  entries,     \* balance.Total and positions of the projection
  available,   \* balance.Available: changed by a refresh only
  ready,
  refreshing,  \* the refresh in progress and what it has read
  tracker,     \* EquityTracker
  behind,      \* entries that need a refresh: a push was lost or overwritten
  raced        \* the same for the refresh in progress (no variables of the code, these two)

world == <<account, moves, days>>
projection == <<entries, available, ready>>
proj == <<world, userCh, projection, refreshing, tracker, behind, raced>>

Idle == [pc |-> "idle", total |-> 0, positions |-> Held]

\* Types; the tracker has the day of its last update and never a peak below it.
ProjectionTypeOK ==
  /\ account \in [Entries -> Int] /\ moves \in 0..MaxMoves /\ days \in 0..MaxDays
  /\ userCh \in Seq([entry : Entries, value : Int]) /\ Len(userCh) <= UserBuf
  /\ entries \in [Entries -> Int] /\ available \in Int /\ ready \in BOOLEAN
  /\ refreshing \in [pc : {"idle", "asking", "balance", "positions", "never"},
                     total : Int, positions : [Contracts -> Int]]
  /\ tracker \in [day : -1..MaxDays, dayStart : Int, peak : Nat, last : Int]
  /\ tracker.last <= tracker.peak
  /\ behind \subseteq Entries /\ raced \subseteq Entries

-----------------------------------------------------------------------------
(* The account changes and the exchange pushes the new value *)

\* handlePositions, handleBalances: a full userCh loses the update.
Changes(e, value) ==
  /\ account' = [account EXCEPT ![e] = value]
  /\ raced' = IF refreshing.pc = "idle" THEN raced ELSE raced \cup {e}
  /\ IF Len(userCh) < UserBuf
     THEN userCh' = Append(userCh, [entry |-> e, value |-> value]) /\ behind' = behind \ {e}
     ELSE userCh' = userCh /\ behind' = behind \cup {e}
  /\ UNCHANGED <<projection, refreshing, tracker>>

\* Funding, fees and the result of closed positions.
MoveCash(d) ==
  /\ moves < MaxMoves
  /\ account[Cash] + d >= 0
  /\ moves' = moves + 1
  /\ Changes(Cash, account[Cash] + d)
  /\ UNCHANGED days

NextDay ==
  /\ days < MaxDays
  /\ days' = days + 1
  /\ UNCHANGED <<account, moves, userCh, projection, refreshing, tracker, behind, raced>>

-----------------------------------------------------------------------------
(* EquityTracker *)

OnEquityUpdate(t, equity) ==
  [day |-> days,
   dayStart |-> IF t.day # days THEN equity ELSE t.dayStart,
   peak |-> IF equity > t.peak THEN equity ELSE t.peak,
   last |-> equity]

DailyLoss ==
  IF tracker.dayStart <= 0 \/ tracker.last > tracker.dayStart THEN 0
  ELSE tracker.dayStart - tracker.last

\* In per cent of the peak.
DrawdownRatio ==
  IF tracker.peak <= 0 THEN 0 ELSE ((tracker.peak - tracker.last) * 100) \div tracker.peak

-----------------------------------------------------------------------------
(* Pushed updates *)

\* Nothing before the first refresh.
OnUserEvent ==
  /\ userCh # <<>>
  /\ userCh' = Tail(userCh)
  /\ LET e == Head(userCh)
     IN /\ entries' = IF ready THEN [entries EXCEPT ![e.entry] = e.value] ELSE entries
        /\ tracker' = IF ready /\ e.entry = Cash THEN OnEquityUpdate(tracker, e.value) ELSE tracker
  /\ UNCHANGED <<world, available, ready, refreshing, behind, raced>>

-----------------------------------------------------------------------------
(* refresh *)

\* Mutant: only Start refreshes.
startRefreshOnce ==
  /\ refreshing.pc = "idle" /\ ~ready
  /\ refreshing' = [Idle EXCEPT !.pc = "asking"]
  /\ UNCHANGED <<world, userCh, projection, tracker, behind, raced>>

\* By Start, then by the ticker.
startRefresh ==
  /\ refreshing.pc = "idle"
  /\ refreshing' = [Idle EXCEPT !.pc = "asking"]
  /\ UNCHANGED <<world, userCh, projection, tracker, behind, raced>>

Pending == {userCh[i].entry : i \in DOMAIN userCh}

\* A change up to here is in the answer, unless an older push still comes after it.
readBalance ==
  /\ refreshing.pc = "asking"
  /\ refreshing' = [refreshing EXCEPT !.pc = "balance", !.total = account[Cash]]
  /\ raced' = behind \cap Pending \cap {Cash}
  /\ UNCHANGED <<world, userCh, projection, tracker, behind>>

readPositions ==
  /\ refreshing.pc = "balance"
  /\ refreshing' = [refreshing EXCEPT !.pc = "positions", !.positions = Restrict(account, Contracts)]
  /\ raced' = (raced \cap {Cash}) \cup (behind \cap Pending \cap Contracts)
  /\ UNCHANGED <<world, userCh, projection, tracker, behind>>

\* Without the first refresh Start returns an error, and nothing refreshes ever after.
refreshFails ==
  /\ refreshing.pc \in {"asking", "balance"}
  /\ refreshing' = [Idle EXCEPT !.pc = IF ready THEN "idle" ELSE "never"]
  /\ raced' = {}
  /\ UNCHANGED <<world, userCh, projection, tracker, behind>>

\* Mutant: the position of a contract that is known already is kept.
assignRefreshMerged ==
  /\ refreshing.pc = "positions"
  /\ entries' = [e \in Entries |-> IF e = Cash THEN refreshing.total
                                   ELSE IF ready /\ entries[e] # 0 THEN entries[e]
                                   ELSE refreshing.positions[e]]
  /\ available' = refreshing.total
  /\ ready' = TRUE
  /\ tracker' = OnEquityUpdate(tracker, refreshing.total)
  /\ behind' = raced
  /\ refreshing' = Idle /\ raced' = {}
  /\ UNCHANGED <<world, userCh>>

assignRefresh ==
  /\ refreshing.pc = "positions"
  /\ entries' = [e \in Entries |-> IF e = Cash THEN refreshing.total ELSE refreshing.positions[e]]
  /\ available' = refreshing.total
  /\ ready' = TRUE
  /\ tracker' = OnEquityUpdate(tracker, refreshing.total)
  /\ behind' = raced
  /\ refreshing' = Idle /\ raced' = {}
  /\ UNCHANGED <<world, userCh>>

Refresh == startRefresh \/ readBalance \/ readPositions \/ assignRefresh

-----------------------------------------------------------------------------
ProjectionInit ==
  /\ account = [e \in Entries |-> IF e = Cash THEN StartTotal ELSE Held[e]]
  /\ moves = 0 /\ days = 0
  /\ userCh = <<>>
  /\ entries = [e \in Entries |-> 0] /\ available = 0 /\ ready = FALSE
  /\ refreshing = Idle
  /\ tracker = [day |-> -1, dayStart |-> 0, peak |-> 0, last |-> 0]
  /\ behind = {} /\ raced = {}

ProjectionStep ==
  \/ NextDay \/ OnUserEvent \/ Refresh \/ refreshFails
  \/ \E d \in {-1, 1} : MoveCash(d)

-----------------------------------------------------------------------------
(* Properties *)

\* An entry is the account's when no push of it is under way, unless a push of it was lost
\* or overwritten by an older answer and no refresh has read the entry since; one refresh
\* repairs it.  Losses are judged by the total the projection shows, whichever of pushes and
\* refreshes brought it (OnUserEvent, refresh, notifyEquityLocked, OnEquityUpdate).
FreshUnlessBehind ==
  ready =>
    /\ \A e \in Entries \ (behind \cup Pending) : entries[e] = account[e]
    /\ tracker.last = entries[Cash]

=============================================================================
