--------------------------- MODULE TradingLoopProofs ---------------------------
(***************************************************************************)
(* Proofs about the account projection and the turn of dispatchSignal that *)
(* trades on it: the projection shows the account but for what a lost or   *)
(* overwritten push left behind, and the size and loss limits of both      *)
(* tiers hold whatever raced them.                                         *)
(***************************************************************************)
EXTENDS TradingLoop, TLAPS

-----------------------------------------------------------------------------
(* The inductive invariant: the account and its projection *)

\* The last push of an entry under way is the account's.
Told ==
  \A i \in DOMAIN userCh :
    (\A j \in DOMAIN userCh : j > i => userCh[j].entry # userCh[i].entry)
      => \/ userCh[i].entry \in behind
         \/ userCh[i].value = account[userCh[i].entry]

\* What no push under way is about shows the account.
Shown == ready => \A e \in Entries \ (behind \cup Pending) : entries[e] = account[e]

\* What the refresh in progress has read.
Answered ==
  IF refreshing.pc = "positions" THEN Entries ELSE IF refreshing.pc = "balance" THEN {Cash} ELSE {}
Answer(e) == IF e = Cash THEN refreshing.total ELSE refreshing.positions[e]

\* It is the account's, and no older push comes after it, unless it raced a change.
Asked == \A e \in Answered \ raced : Answer(e) = account[e] /\ ~(e \in behind /\ e \in Pending)

Judged == ready => tracker.last = entries[Cash]

AccountInv == ProjectionTypeOK /\ Told /\ Shown /\ Asked /\ Judged

-----------------------------------------------------------------------------
(* The inductive invariant: the job of dispatchSignal and its orders *)

Allowed(r, size) == r.enable /\ r.maxOrderSize > 0 => size <= r.maxOrderSize

JobTyped ==
  /\ DOMAIN job = DOMAIN NoJob
  /\ job.pc \in {"idle", "decided", "counted", "ready"} /\ job.tier \in {"strategy", "global"}
  /\ DOMAIN job.in = DOMAIN NoInput
  /\ job.pc # "idle" =>
       /\ job.strategy \in Strategies /\ job.signal \in Signals /\ job.sign \in {-1, 1}
       /\ job.in.size \in Nat \ {0} /\ job.in.opens \in BOOLEAN
  /\ job.pc = "ready" => job.in.held \in Nat /\ job.in.perUnit \in Nat \ {0}

LoopTyped ==
  /\ priced \subseteq Contracts
  /\ orderCh \in Seq(Orders) /\ Len(orderCh) <= OrderBuf /\ live \in Seq(Orders)
  /\ decided \in 0..MaxOrders /\ slipped \in Nat

\* The strategy's tier has answered before the global one, and every order passed both.
JobSized ==
  job.pc # "idle" /\ job.tier = "global" /\ DOMAIN Overrides[job.strategy] # {} =>
    Allowed(MergeRules(Rules, Overrides[job.strategy]), job.in.size)
Sized(o) ==
  /\ o.size # 0
  /\ \A r \in {Rules, MergeRules(Rules, Overrides[o.strategy])} : Allowed(r, Abs(o.size))
OrdersSized ==
  /\ \A i \in DOMAIN orderCh : Sized(orderCh[i])
  /\ \A i \in DOMAIN live : Sized(live[i])

\* After the one order that slipped, no risk context is without the loss.
OneSlip ==
  /\ slipped <= 1
  /\ slipped > 0 => LossAtLimit /\ (job.pc \in {"counted", "ready"} => job.in.loss >= Rules.maxDailyLoss)
  /\ slipped > 0 \/ job.pc # "idle" => decided > 0

LoopInv == JobTyped /\ LoopTyped /\ JobSized /\ OrdersSized /\ OneSlip

IInv == AccountInv /\ LoopInv

-----------------------------------------------------------------------------
(* The account changes, pushes arrive, a refresh reads and assigns *)

Push == [entry : Entries, value : Int]

LEMMA Pushes == \A p \in Push : p.entry \in Entries /\ p.value \in Int
  BY DEF Push

LEMMA Appended ==
  ASSUME NEW T, NEW s \in Seq(T), NEW x \in T
  PROVE  /\ Append(s, x) \in Seq(T) /\ Len(Append(s, x)) = Len(s) + 1
         /\ DOMAIN Append(s, x) = 1..(Len(s) + 1) /\ DOMAIN s = 1..Len(s) /\ Len(s) \in Nat
         /\ Append(s, x)[Len(s) + 1] = x
         /\ \A i \in 1..Len(s) : Append(s, x)[i] = s[i]
  OBVIOUS

LEMMA Popped ==
  ASSUME NEW T, NEW s \in Seq(T), s # <<>>
  PROVE  /\ Tail(s) \in Seq(T) /\ Len(Tail(s)) = Len(s) - 1 /\ Len(s) \in Nat \ {0}
         /\ DOMAIN s = 1..Len(s) /\ DOMAIN Tail(s) = 1..(Len(s) - 1)
         /\ Head(s) = s[1] /\ Head(s) \in T
         /\ \A i \in 1..Len(s) : s[i] \in T
         /\ \A i \in 1..(Len(s) - 1) : Tail(s)[i] = s[i + 1]
  OBVIOUS

LEMMA Joined ==
  ASSUME NEW T, NEW s \in Seq(T), NEW t \in Seq(T)
  PROVE  /\ s \o t \in Seq(T) /\ Len(s) \in Nat /\ Len(t) \in Nat
         /\ DOMAIN (s \o t) = 1..(Len(s) + Len(t))
         /\ \A j \in 1..(Len(s) + Len(t)) : (s \o t)[j] = IF j <= Len(s) THEN s[j] ELSE t[j - Len(s)]
  OBVIOUS

LEMMA Bounds == UserBuf \in Nat \ {0} /\ MaxMoves \in Nat /\ MaxDays \in Nat /\ StartTotal \in Nat
  BY ProjectionAssumption

\* An account update is queued or lost, and a refresh in progress may have missed it.
LEMMA ChangesKeep ==
  ASSUME AccountInv, NEW e \in Entries, NEW v \in Int, Changes(e, v),
         moves' \in 0..MaxMoves, days' = days
  PROVE  AccountInv'
<1>1. /\ account' = [account EXCEPT ![e] = v]
      /\ raced' = IF refreshing.pc = "idle" THEN raced ELSE raced \cup {e}
      /\ UNCHANGED <<entries, available, ready, refreshing, tracker>>
  BY DEF Changes, projection
<1>2. \/ userCh' = Append(userCh, [entry |-> e, value |-> v]) /\ behind' = behind \ {e} /\ Len(userCh) < UserBuf
      \/ userCh' = userCh /\ behind' = behind \cup {e}
  BY DEF Changes
<1>3. account \in [Entries -> Int] /\ userCh \in Seq(Push)
      /\ Len(userCh) <= UserBuf /\ behind \subseteq Entries /\ raced \subseteq Entries
  BY DEF AccountInv, ProjectionTypeOK, Push
<1>4. UserBuf \in Nat /\ Len(userCh) \in Nat
  BY <1>3, Bounds
<1>5. account' \in [Entries -> Int] /\ account'[e] = v /\ \A f \in Entries : f # e => account'[f] = account[f]
  BY <1>1, <1>3
<1>6. [entry |-> e, value |-> v] \in Push
  BY DEF Push
<1>7. ProjectionTypeOK'
  <2>1. userCh' \in Seq(Push) /\ Len(userCh') <= UserBuf
    BY <1>2, <1>3, <1>4, <1>6, Appended
  <2>2. behind' \subseteq Entries /\ raced' \subseteq Entries
    BY <1>1, <1>2, <1>3
  <2> QED
    BY <1>1, <1>5, <2>1, <2>2 DEF AccountInv, ProjectionTypeOK, Push
<1>8. CASE userCh' = userCh /\ behind' = behind \cup {e}
  <2>1. Told'
    <3>1. \A i \in DOMAIN userCh : userCh[i].entry \in Entries
      <4>1. \A i \in DOMAIN userCh : userCh[i] \in Push
        BY <1>3
      <4> QED
        BY <4>1, Pushes
    <3> QED
      BY <1>5, <1>8, <3>1 DEF AccountInv, Told
  <2>2. Shown'
    BY <1>1, <1>5, <1>8 DEF AccountInv, Shown, Pending
  <2>3. Asked'
    <3> SUFFICES ASSUME NEW f \in Answered' \ raced'
                 PROVE  Answer(f)' = account'[f] /\ ~(f \in behind' /\ f \in Pending')
      BY DEF Asked
    <3>1. f \in Answered \ raced /\ f # e /\ f \in Entries
      BY <1>1 DEF Answered, Entries
    <3>2. Answer(f)' = Answer(f) /\ (f \in behind' => f \in behind) /\ (f \in Pending' => f \in Pending)
      BY <1>1, <1>8, <3>1 DEF Answer, Pending
    <3> QED
      BY <1>5, <3>1, <3>2 DEF AccountInv, Asked
  <2> QED
    BY <1>1, <1>7, <2>1, <2>2, <2>3 DEF AccountInv, Judged
<1>9. CASE userCh' = Append(userCh, [entry |-> e, value |-> v]) /\ behind' = behind \ {e}
  <2> DEFINE n == Len(userCh) + 1
  <2>1. /\ DOMAIN userCh' = 1..n /\ DOMAIN userCh = 1..(n - 1)
        /\ userCh'[n].entry = e /\ userCh'[n].value = v
        /\ \A i \in 1..(n - 1) : userCh'[i] = userCh[i] /\ userCh[i].entry \in Entries
    <3>1. \A i \in 1..Len(userCh) : userCh[i] \in Push
      BY <1>3
    <3>2. \A p \in Push : p.entry \in Entries
      BY DEF Push
    <3>3. Len(userCh) + 1 - 1 = Len(userCh)
      BY <1>4
    <3>4. /\ DOMAIN userCh' = 1..n /\ DOMAIN userCh = 1..Len(userCh)
          /\ userCh'[n] = [entry |-> e, value |-> v]
          /\ \A i \in 1..Len(userCh) : userCh'[i] = userCh[i]
      BY <1>3, <1>9, <1>6, Appended
    <3> QED
      BY <3>1, <3>2, <3>3, <3>4
  <2>2. n \in Nat \ {0}
    BY <1>4
  <2> HIDE DEF n
  <2>3. Pending' = Pending \cup {e}
    <3>1. Pending = {userCh[i].entry : i \in 1..(n - 1)} /\ Pending' = {userCh'[i].entry : i \in 1..n}
      BY <2>1 DEF Pending
    <3> QED
      BY <2>1, <2>2, <3>1
  <2>4. Told'
    <3> SUFFICES ASSUME NEW i \in 1..n, \A j \in 1..n : j > i => userCh'[j].entry # userCh'[i].entry,
                        userCh'[i].entry \notin behind'
                 PROVE  userCh'[i].value = account'[userCh'[i].entry]
      BY <2>1 DEF Told
    <3>1. CASE i = n
      BY <1>5, <2>1, <3>1
    <3>2. CASE i # n
      <4>1. i \in 1..(n - 1) /\ n \in 1..n /\ n > i
        BY <2>2, <3>2
      <4>2. userCh[i].entry # e
        BY <2>1, <4>1
      <4>3. \A j \in 1..(n - 1) : j > i => userCh[j].entry # userCh[i].entry
        BY <2>1, <2>2, <4>1
      <4>4. userCh[i].value = account[userCh[i].entry]
        BY <1>9, <2>1, <4>1, <4>2, <4>3 DEF AccountInv, Told
      <4> QED
        BY <1>5, <2>1, <4>1, <4>2, <4>4
    <3> QED
      BY <3>1, <3>2
  <2>5. Shown'
    BY <1>1, <1>5, <1>9, <2>3 DEF AccountInv, Shown
  <2>6. Asked'
    <3> SUFFICES ASSUME NEW f \in Answered' \ raced'
                 PROVE  Answer(f)' = account'[f] /\ ~(f \in behind' /\ f \in Pending')
      BY DEF Asked
    <3>1. f \in Answered \ raced /\ f # e /\ f \in Entries
      BY <1>1 DEF Answered, Entries
    <3>2. Answer(f)' = Answer(f) /\ (f \in behind' => f \in behind) /\ (f \in Pending' => f \in Pending)
      BY <1>1, <1>9, <2>3, <3>1 DEF Answer
    <3> QED
      BY <1>5, <3>1, <3>2 DEF AccountInv, Asked
  <2> QED
    BY <1>1, <1>7, <2>4, <2>5, <2>6 DEF AccountInv, Judged
<1> QED
  BY <1>2, <1>8, <1>9

\* The tracker follows a total: the peak stays above it.
LEMMA TrackerFollows ==
  ASSUME ProjectionTypeOK, NEW total \in Int
  PROVE  /\ OnEquityUpdate(tracker, total) \in [day : -1..MaxDays, dayStart : Int, peak : Nat, last : Int]
         /\ OnEquityUpdate(tracker, total).last = total
         /\ total <= OnEquityUpdate(tracker, total).peak
<1>1. MaxDays \in Nat /\ days \in -1..MaxDays
  BY Bounds DEF ProjectionTypeOK
<1>2. tracker \in [day : -1..MaxDays, dayStart : Int, peak : Nat, last : Int]
  BY DEF ProjectionTypeOK
<1> QED
  BY <1>1, <1>2 DEF OnEquityUpdate

\* The oldest push is applied once there was a refresh.
LEMMA EventKeeps ==
  ASSUME AccountInv, OnUserEvent
  PROVE  AccountInv'
<1> DEFINE e == Head(userCh)
<1>1. /\ userCh # <<>> /\ userCh' = Tail(userCh)
      /\ entries' = (IF ready THEN [entries EXCEPT ![e.entry] = e.value] ELSE entries)
      /\ tracker' = (IF ready /\ e.entry = Cash THEN OnEquityUpdate(tracker, e.value) ELSE tracker)
      /\ UNCHANGED <<account, moves, days, available, ready, refreshing, behind, raced>>
  BY DEF OnUserEvent, world
<1>2. /\ userCh \in Seq(Push) /\ Len(userCh) <= UserBuf
      /\ entries \in [Entries -> Int] /\ UserBuf \in Nat
  BY Bounds DEF AccountInv, ProjectionTypeOK, Push
<1> DEFINE n == Len(userCh)
<1>3. /\ n \in Nat \ {0} /\ DOMAIN userCh = 1..n /\ DOMAIN userCh' = 1..(n - 1)
      /\ \A i \in 1..(n - 1) : userCh'[i] = userCh[i + 1]
      /\ e = userCh[1] /\ e \in Push
      /\ \A i \in 1..n : userCh[i] \in Push
      /\ userCh' \in Seq(Push) /\ Len(userCh') = n - 1
  BY <1>1, <1>2, Popped
<1>4. n <= UserBuf
  BY <1>2
<1> HIDE DEF n, e
<1>5. /\ e.entry \in Entries /\ e.value \in Int
      /\ \A i \in 1..n : userCh[i].entry \in Entries
  BY <1>3, Pushes
<1>6. ProjectionTypeOK'
  <2>1. entries' \in [Entries -> Int]
    BY <1>1, <1>2, <1>5
  <2>2. /\ tracker' \in [day : -1..MaxDays, dayStart : Int, peak : Nat, last : Int]
        /\ tracker'.last <= tracker'.peak
    BY <1>1, <1>5, TrackerFollows DEF AccountInv, ProjectionTypeOK
  <2>3. Len(userCh') <= UserBuf
    BY <1>2, <1>3, <1>4
  <2> QED
    BY <1>1, <1>3, <2>1, <2>2, <2>3 DEF AccountInv, ProjectionTypeOK, Push
<1>7. Pending' \subseteq Pending /\ \A f \in Pending \ Pending' : f = e.entry
  <2>1. Pending = {userCh[i].entry : i \in 1..n} /\ Pending' = {userCh'[i].entry : i \in 1..(n - 1)}
    BY <1>3 DEF Pending
  <2>2. ASSUME NEW k \in 1..(n - 1) PROVE userCh'[k].entry \in Pending
    <3>1. k + 1 \in 1..n /\ userCh'[k] = userCh[k + 1]
      BY <1>3
    <3> QED
      BY <2>1, <3>1
  <2>3. ASSUME NEW k \in 1..n, k # 1 PROVE userCh[k].entry \in Pending'
    <3>1. k - 1 \in 1..(n - 1) /\ userCh'[k - 1] = userCh[(k - 1) + 1] /\ (k - 1) + 1 = k
      BY <1>3, <2>3
    <3> QED
      BY <2>1, <3>1
  <2> QED
    BY <1>3, <2>1, <2>2, <2>3
<1>8. Told'
  <2> SUFFICES ASSUME NEW i \in 1..(n - 1),
                      \A j \in 1..(n - 1) : j > i => userCh'[j].entry # userCh'[i].entry,
                      userCh'[i].entry \notin behind
               PROVE  userCh'[i].value = account[userCh'[i].entry]
    BY <1>1, <1>3 DEF Told
  <2>1. i + 1 \in 1..n /\ userCh'[i] = userCh[i + 1]
    BY <1>3
  <2>2. ASSUME NEW j \in 1..n, j > i + 1 PROVE userCh[j].entry # userCh[i + 1].entry
    <3>1. j - 1 \in 1..(n - 1) /\ j - 1 > i /\ userCh'[j - 1] = userCh[j]
      BY <1>3, <2>2
    <3> QED
      BY <2>1, <3>1
  <2> QED
    BY <1>3, <1>5, <2>1, <2>2 DEF AccountInv, Told
<1>9. Shown'
  <2> SUFFICES ASSUME ready, NEW f \in Entries, f \notin behind, f \notin Pending'
               PROVE  entries'[f] = account[f]
    BY <1>1 DEF Shown
  <2>1. entries' = [entries EXCEPT ![e.entry] = e.value]
    BY <1>1
  <2>2. CASE f = e.entry
    <3>1. ASSUME NEW j \in 1..n, j > 1 PROVE userCh[j].entry # userCh[1].entry
      <4>1. j - 1 \in 1..(n - 1) /\ userCh'[j - 1] = userCh[j]
        BY <1>3, <3>1
      <4>2. userCh'[j - 1].entry \in Pending'
        BY <1>3, <4>1 DEF Pending
      <4> QED
        BY <1>3, <2>2, <4>1, <4>2
    <3>2. 1 \in 1..n
      BY <1>3
    <3>3. userCh[1].value = account[userCh[1].entry]
      BY <1>3, <2>2, <3>1, <3>2 DEF AccountInv, Told
    <3> QED
      BY <1>2, <1>3, <2>1, <2>2, <3>3
  <2>3. CASE f # e.entry
    BY <1>2, <1>7, <2>1, <2>3 DEF AccountInv, Shown
  <2> QED
    BY <2>2, <2>3
<1>10. Asked'
  <2>1. Answered' = Answered /\ \A f : Answer(f)' = Answer(f)
    BY <1>1 DEF Answered, Answer
  <2> QED
    BY <1>1, <1>7, <2>1 DEF AccountInv, Asked
<1>11. Judged'
  <2> SUFFICES ASSUME ready PROVE tracker'.last = entries'[Cash]
    BY <1>1 DEF Judged
  <2>1. Cash \in Entries
    BY DEF Entries
  <2> QED
    BY <1>1, <1>2, <1>5, <2>1, TrackerFollows DEF AccountInv, Judged
<1> QED
  BY <1>6, <1>8, <1>9, <1>10, <1>11 DEF AccountInv

\* A refresh that starts or fails has read nothing.
LEMMA RefreshStartsOrFails ==
  ASSUME AccountInv, startRefresh \/ refreshFails
  PROVE  AccountInv'
<1>1. /\ \E pc \in {"idle", "asking", "never"} : refreshing' = [Idle EXCEPT !.pc = pc]
      /\ raced' \subseteq raced
      /\ UNCHANGED <<account, moves, days, userCh, entries, available, ready, tracker, behind>>
  BY DEF startRefresh, refreshFails, world, projection
<1>2. /\ refreshing'.pc \in {"idle", "asking", "never"}
      /\ refreshing' \in [pc : {"idle", "asking", "balance", "positions", "never"},
                          total : Int, positions : [Contracts -> Int]]
  BY <1>1, ProjectionAssumption DEF Idle
<1>3. Answered' = {}
  BY <1>2 DEF Answered
<1>4. raced \subseteq Entries /\ raced' \subseteq Entries
  BY <1>1 DEF AccountInv, ProjectionTypeOK
<1>5. ProjectionTypeOK'
  BY <1>1, <1>2, <1>4 DEF AccountInv, ProjectionTypeOK
<1>6. Asked'
  BY <1>3 DEF Asked
<1> QED
  BY <1>1, <1>5, <1>6 DEF AccountInv, Told, Shown, Pending, Judged

\* The answer to the balance request is the account's total.
LEMMA BalanceKeeps ==
  ASSUME AccountInv, readBalance
  PROVE  AccountInv'
<1>1. /\ refreshing' = [refreshing EXCEPT !.pc = "balance", !.total = account[Cash]]
      /\ raced' = behind \cap Pending \cap {Cash}
      /\ UNCHANGED <<account, moves, days, userCh, entries, available, ready, tracker, behind>>
  BY DEF readBalance, world, projection
<1>2. account[Cash] \in Int /\ Cash \in Entries
  BY DEF AccountInv, ProjectionTypeOK, Entries
<1>3. refreshing \in [pc : {"idle", "asking", "balance", "positions", "never"},
                      total : Int, positions : [Contracts -> Int]]
  BY DEF AccountInv, ProjectionTypeOK
<1>4. /\ refreshing' \in [pc : {"idle", "asking", "balance", "positions", "never"},
                          total : Int, positions : [Contracts -> Int]]
      /\ refreshing'.pc = "balance" /\ refreshing'.total = account[Cash]
  BY <1>1, <1>2, <1>3
<1>5. Answered' = {Cash} /\ Answer(Cash)' = account[Cash] /\ Pending' = Pending
  BY <1>1, <1>4 DEF Answered, Answer, Pending
<1>6. Asked'
  BY <1>1, <1>5 DEF Asked
<1> QED
  BY <1>1, <1>2, <1>4, <1>6 DEF AccountInv, ProjectionTypeOK, Told, Shown, Pending, Judged

\* The answer to the positions request is the account's positions.
LEMMA PositionsKeep ==
  ASSUME AccountInv, readPositions
  PROVE  AccountInv'
<1>1. /\ refreshing.pc = "balance"
      /\ refreshing' = [refreshing EXCEPT !.pc = "positions", !.positions = Restrict(account, Contracts)]
      /\ raced' = (raced \cap {Cash}) \cup (behind \cap Pending \cap Contracts)
      /\ UNCHANGED <<account, moves, days, userCh, entries, available, ready, tracker, behind>>
  BY DEF readPositions, world, projection
<1>2. account \in [Entries -> Int] /\ Contracts \subseteq Entries /\ Cash \in Entries /\ Cash \notin Contracts
  BY ProjectionAssumption DEF AccountInv, ProjectionTypeOK, Entries
<1>3. refreshing \in [pc : {"idle", "asking", "balance", "positions", "never"},
                      total : Int, positions : [Contracts -> Int]]
  BY DEF AccountInv, ProjectionTypeOK
<1>4. /\ Restrict(account, Contracts) \in [Contracts -> Int]
      /\ \A c \in Contracts : Restrict(account, Contracts)[c] = account[c]
  BY <1>2 DEF Restrict
<1>5. /\ refreshing' \in [pc : {"idle", "asking", "balance", "positions", "never"},
                          total : Int, positions : [Contracts -> Int]]
      /\ refreshing'.pc = "positions" /\ refreshing'.total = refreshing.total
      /\ refreshing'.positions = Restrict(account, Contracts)
  BY <1>1, <1>3, <1>4
<1>6. Asked'
  <2> SUFFICES ASSUME NEW f \in Entries, f \notin raced'
               PROVE  Answer(f)' = account[f] /\ ~(f \in behind /\ f \in Pending)
    BY <1>1, <1>5 DEF Asked, Answered, Pending
  <2>1. CASE f = Cash
    <3>1. Cash \in Answered /\ Answer(Cash) = refreshing.total /\ Answer(Cash)' = refreshing'.total
      BY <1>1 DEF Answered, Answer
    <3> QED
      BY <1>1, <1>5, <2>1, <3>1 DEF AccountInv, Asked
  <2>2. CASE f # Cash
    <3>1. f \in Contracts /\ Answer(f)' = refreshing'.positions[f]
      BY <2>2 DEF Entries, Answer
    <3> QED
      BY <1>1, <1>4, <1>5, <3>1
  <2> QED
    BY <2>1, <2>2
<1>7. raced' \subseteq Entries
  BY <1>1, <1>2
<1> QED
  BY <1>1, <1>5, <1>6, <1>7 DEF AccountInv, ProjectionTypeOK, Told, Shown, Pending, Judged

\* What was read replaces the whole projection; what raced it is behind from now on.
LEMMA AssignKeeps ==
  ASSUME AccountInv, assignRefresh
  PROVE  AccountInv'
<1>1. /\ refreshing.pc = "positions"
      /\ entries' = [e \in Entries |-> IF e = Cash THEN refreshing.total ELSE refreshing.positions[e]]
      /\ available' = refreshing.total /\ ready' = TRUE
      /\ tracker' = OnEquityUpdate(tracker, refreshing.total)
      /\ behind' = raced /\ refreshing' = Idle /\ raced' = {}
      /\ UNCHANGED <<account, moves, days, userCh>>
  BY DEF assignRefresh, world
<1>2. refreshing.total \in Int /\ refreshing.positions \in [Contracts -> Int]
  BY DEF AccountInv, ProjectionTypeOK
<1>3. /\ entries' \in [Entries -> Int]
      /\ \A e \in Entries : entries'[e] = Answer(e)
      /\ entries'[Cash] = refreshing.total
  BY <1>1, <1>2, ProjectionAssumption DEF Answer, Entries
<1>4. /\ tracker' \in [day : -1..MaxDays, dayStart : Int, peak : Nat, last : Int]
      /\ tracker'.last = refreshing.total /\ tracker'.last <= tracker'.peak
  BY <1>1, <1>2, TrackerFollows DEF AccountInv
<1>5. /\ Idle \in [pc : {"idle", "asking", "balance", "positions", "never"},
                   total : Int, positions : [Contracts -> Int]]
      /\ Idle.pc = "idle"
  BY ProjectionAssumption DEF Idle
<1>6. ProjectionTypeOK'
  BY <1>1, <1>2, <1>3, <1>4, <1>5 DEF AccountInv, ProjectionTypeOK
<1>7. \A e \in Entries \ behind' : entries'[e] = account[e] /\ ~(e \in behind /\ e \in Pending)
  BY <1>1, <1>3 DEF AccountInv, Asked, Answered
<1>8. Told'
  <2>1. \A i \in DOMAIN userCh : userCh[i].entry \in Entries /\ userCh[i].entry \in Pending
    <3>1. userCh \in Seq(Push)
      BY DEF AccountInv, ProjectionTypeOK, Push
    <3>2. \A i \in DOMAIN userCh : userCh[i] \in Push
      BY <3>1
    <3> QED
      BY <3>2, Pushes DEF Pending
  <2> QED
    BY <1>1, <1>7, <2>1 DEF AccountInv, Told
<1>9. Shown'
  BY <1>1, <1>7 DEF Shown, Pending
<1>10. Asked' /\ Judged'
  BY <1>1, <1>3, <1>4, <1>5 DEF Asked, Answered, Judged
<1> QED
  BY <1>6, <1>8, <1>9, <1>10 DEF AccountInv

LEMMA ProjectionKeeps ==
  ASSUME AccountInv, ProjectionStep
  PROVE  AccountInv'
<1>1. CASE NextDay
  <2>1. days' \in 0..MaxDays
    BY <1>1, Bounds DEF NextDay, AccountInv, ProjectionTypeOK
  <2> QED
    BY <1>1, <2>1 DEF NextDay, projection, AccountInv, ProjectionTypeOK, Told, Shown, Pending, Asked,
       Answered, Answer, Judged
<1>2. CASE OnUserEvent
  BY <1>2, EventKeeps
<1>3. CASE Refresh \/ refreshFails
  BY <1>3, RefreshStartsOrFails, BalanceKeeps, PositionsKeep, AssignKeeps DEF Refresh
<1>4. ASSUME NEW d \in {-1, 1}, MoveCash(d) PROVE AccountInv'
  <2>1. Changes(Cash, account[Cash] + d) /\ moves' = moves + 1 /\ moves < MaxMoves /\ days' = days
    BY <1>4 DEF MoveCash
  <2>2. Cash \in Entries /\ account \in [Entries -> Int] /\ moves \in 0..MaxMoves
    BY DEF AccountInv, ProjectionTypeOK, Entries
  <2>3. account[Cash] + d \in Int
    BY <2>2
  <2>4. moves' \in 0..MaxMoves
    BY <2>1, <2>2, Bounds
  <2> QED
    BY <2>1, <2>2, <2>3, <2>4, ChangesKeep
<1> QED
  BY <1>1, <1>2, <1>3, <1>4 DEF ProjectionStep

LEMMA AccountStutters ==
  ASSUME AccountInv, UNCHANGED proj
  PROVE  AccountInv'
<1>1. UNCHANGED <<account, moves, days, userCh, entries, available, ready, refreshing, tracker, behind, raced>>
  BY DEF proj, world, projection
<1> QED
  BY <1>1 DEF AccountInv, ProjectionTypeOK, Told, Shown, Pending, Asked, Answered, Answer, Judged

LEMMA AccountStarts == ProjectionInit => AccountInv
<1> SUFFICES ASSUME ProjectionInit PROVE AccountInv
  OBVIOUS
<1>1. account \in [Entries -> Int]
  BY Bounds, ProjectionAssumption DEF ProjectionInit, Entries
<1>2. userCh \in Seq([entry : Entries, value : Int]) /\ Len(userCh) <= UserBuf
  BY Bounds DEF ProjectionInit
<1>3. /\ refreshing \in [pc : {"idle", "asking", "balance", "positions", "never"},
                         total : Int, positions : [Contracts -> Int]]
      /\ refreshing.pc = "idle"
  BY ProjectionAssumption DEF ProjectionInit, Idle
<1>4. tracker \in [day : -1..MaxDays, dayStart : Int, peak : Nat, last : Int] /\ tracker.last <= tracker.peak
  BY Bounds DEF ProjectionInit
<1>5. ProjectionTypeOK
  <2>1. moves \in 0..MaxMoves /\ days \in 0..MaxDays
    BY Bounds DEF ProjectionInit
  <2>2. entries \in [Entries -> Int]
    BY DEF ProjectionInit
  <2>3. available \in Int
    BY DEF ProjectionInit
  <2>4. ready \in BOOLEAN
    BY Zenon DEF ProjectionInit
  <2>5. behind \subseteq Entries /\ raced \subseteq Entries
    BY DEF ProjectionInit
  <2> QED
    BY <1>1, <1>2, <1>3, <1>4, <2>1, <2>2, <2>5, <2>3, <2>4 DEF ProjectionTypeOK
<1>6. Told /\ Shown /\ Asked /\ Judged
  BY <1>3 DEF ProjectionInit, Told, Shown, Asked, Answered, Judged
<1> QED
  BY <1>5, <1>6 DEF AccountInv

-----------------------------------------------------------------------------
(* The rule chain *)

\* The room left under the position limit is less than the order that exceeds it.
LEMMA RoomIsLess ==
  ASSUME NEW held \in Nat, NEW size \in Nat \ {0}, NEW unit \in Nat \ {0}, NEW limit \in Nat,
         held + size * unit > limit
  PROVE  (limit - held) \div unit \in Int /\ (limit - held) \div unit <= size
<1> DEFINE room == (limit - held) \div unit
<1>1. room \in Int /\ unit * room <= limit - held
  OBVIOUS
<1>2. unit * room < size * unit
  <2>1. size * unit \in Int /\ unit * room \in Int
    BY <1>1
  <2> QED
    BY <1>1, <2>1
<1> HIDE DEF room
<1>3. ASSUME room > size PROVE FALSE
  <2>1. unit * room >= unit * size
    BY <1>1, <1>3
  <2>2. unit * size = size * unit /\ unit * size \in Int /\ unit * room \in Int
    BY <1>1
  <2> QED
    BY <1>2, <2>1, <2>2
<1>4. room <= size
  BY <1>1, <1>3
<1> QED
  BY <1>1, <1>4 DEF room

\* An order that passes is within the size limit, one that is reduced gets smaller and is
\* within it too, and none opens exposure when the loss is at its limit.
LEMMA EvaluateKeepsLimits ==
  ASSUME NEW r \in RuleSet, NEW in, in.size \in Nat \ {0}, in.held \in Nat, in.perUnit \in Nat \ {0}
  PROVE  /\ Evaluate(r, in).kind \in {"allow", "reject", "reduce"}
         /\ Evaluate(r, in).kind = "allow" => Allowed(r, in.size)
         /\ Evaluate(r, in).kind = "reduce" =>
              /\ Evaluate(r, in).size \in Nat \ {0}
              /\ Evaluate(r, in).size <= in.size
              /\ Allowed(r, Evaluate(r, in).size)
         /\ r.enable /\ r.maxDailyLoss > 0 /\ in.opens /\ in.loss >= r.maxDailyLoss =>
              Evaluate(r, in).kind = "reject"
<1>1. /\ r.enable \in BOOLEAN /\ r.maxOrderSize \in Nat /\ r.maxPositionSize \in Nat
      /\ r.maxDailyLoss \in Nat
  BY DEF RuleSet
<1>2. Allow.kind = "allow" /\ Reject.kind = "reject"
      /\ \A n : ReduceTo(n).kind = "reduce" /\ ReduceTo(n).size = n
  BY DEF Allow, Reject, ReduceTo
<1>3. CASE ~r.enable
  BY <1>2, <1>3 DEF Evaluate, Allowed
<1>4. CASE r.enable /\ (in.size <= 0 \/ (in.opens /\ RejectsOpening(r, in)))
  BY <1>2, <1>4 DEF Evaluate
<1>5. CASE /\ r.enable /\ ~(in.size <= 0 \/ (in.opens /\ RejectsOpening(r, in)))
           /\ RejectsCounts(r, in) \/ RejectsLeverage(r, in)
  <2>1. Evaluate(r, in) = Reject
    BY <1>5, Zenon DEF Evaluate
  <2> QED
    BY <1>2, <2>1
<1>6. CASE /\ r.enable /\ ~(in.size <= 0 \/ (in.opens /\ RejectsOpening(r, in)))
           /\ ~(RejectsCounts(r, in) \/ RejectsLeverage(r, in))
  <2>1. ~(r.maxDailyLoss > 0 /\ in.opens /\ in.loss >= r.maxDailyLoss)
    BY <1>6 DEF RejectsOpening
  <2>2. CASE r.maxOrderSize > 0 /\ in.size > r.maxOrderSize
    <3>1. Evaluate(r, in) = ReduceTo(r.maxOrderSize)
      BY <1>6, <2>2, Zenon DEF Evaluate
    <3> QED
      BY <1>1, <1>2, <2>1, <2>2, <3>1 DEF Allowed
  <2>3. CASE ~(r.maxOrderSize > 0 /\ in.size > r.maxOrderSize)
    <3>1. Allowed(r, in.size)
      BY <1>1, <2>3 DEF Allowed
    <3>2. Evaluate(r, in) \in {Allow, PositionVerdict(r, in)}
      BY <1>6, <2>3, Zenon DEF Evaluate
    <3> DEFINE room == (r.maxPositionSize - in.held) \div in.perUnit
    <3>3. PositionVerdict(r, in) \in {Allow, Reject}
            \/ (/\ PositionVerdict(r, in) = ReduceTo(room) /\ ~(room <= 0)
                /\ ~(in.held + in.size * in.perUnit <= r.maxPositionSize))
      BY Zenon DEF PositionVerdict
    <3>4. CASE PositionVerdict(r, in) \in {Allow, Reject}
      BY <1>2, <2>1, <3>1, <3>2, <3>4
    <3>5. CASE /\ PositionVerdict(r, in) = ReduceTo(room) /\ ~(room <= 0)
               /\ ~(in.held + in.size * in.perUnit <= r.maxPositionSize)
      <4>1. in.size * in.perUnit \in Nat
        OBVIOUS
      <4>2. in.held + in.size * in.perUnit > r.maxPositionSize
        BY <1>1, <3>5, <4>1
      <4>3. room \in Int /\ room <= in.size
        BY <1>1, <4>2, RoomIsLess
      <4> HIDE DEF room
      <4>4. room \in Nat \ {0}
        BY <3>5, <4>3
      <4>5. Allowed(r, room)
        BY <1>1, <3>1, <4>3, <4>4 DEF Allowed
      <4> QED
        BY <1>2, <2>1, <3>1, <3>2, <3>5, <4>3, <4>4, <4>5
    <3> QED
      BY <3>3, <3>4, <3>5
  <2> QED
    BY <2>2, <2>3
<1> QED
  BY <1>1, <1>3, <1>4, <1>5, <1>6

-----------------------------------------------------------------------------
(* The job of dispatchSignal *)

JobFields == {"pc", "tier", "strategy", "signal", "sign", "in"}
InputFields == {"size", "opens", "increasing", "openOrders", "positions", "ready", "priced", "perUnit",
                "held", "exposure", "equity", "loss", "drawdown"}

LEMMA Fields == DOMAIN NoJob = JobFields /\ DOMAIN NoInput = InputFields
  BY DEF NoJob, NoInput, JobFields, InputFields

\* The rules a strategy's tier asks are the global ones where it sets nothing.
LEMMA TierRules ==
  /\ Rules \in RuleSet
  /\ \A s \in Strategies : /\ MergeRules(Rules, Overrides[s]) \in RuleSet
                           /\ DOMAIN Overrides[s] = {} => MergeRules(Rules, Overrides[s]) = Rules
<1>1. Rules \in RuleSet /\ \A s \in Strategies : MergeRules(Rules, Overrides[s]) \in RuleSet
  BY LoopAssumption
<1>2. ASSUME NEW s \in Strategies, DOMAIN Overrides[s] = {} PROVE MergeRules(Rules, Overrides[s]) = Rules
  <2>1. Rules = [f \in DOMAIN Rules |-> Rules[f]]
    BY <1>1 DEF RuleSet
  <2> QED
    BY <1>2, <2>1 DEF MergeRules
<1> QED
  BY <1>1, <1>2

LEMMA IdleKeeps ==
  ASSUME LoopInv, job' = NoJob, UNCHANGED decided
  PROVE  JobTyped' /\ JobSized' /\ job'.pc = "idle"
<1>1. job'.pc = "idle" /\ job'.tier = "strategy" /\ job'.in = NoInput
  BY DEF NoJob
<1> QED
  BY <1>1 DEF JobTyped, JobSized

\* A signal gets an order of a size, or none.
LEMMA SizesArePositive ==
  ASSUME NEW sig \in Signals, NEW held \in Int, NEW avail \in Int, NEW known,
         NEW n \in OrderSizes(sig, held, avail, known)
  PROVE  n \in Nat \ {0}
<1>1. /\ sig.contract \in Contracts /\ DOMAIN PerUnit = Contracts
      /\ sig.mode = "custom" => sig.value \in Nat \ {0}
      /\ sig.mode \in {"percent", "fixed"} => sig.value \in Nat
      /\ sig.mode \in {"default", "percent", "fixed", "custom"}
  BY LoopAssumption
<1>2. /\ PerUnit[sig.contract] \in Nat \ {0} /\ MinSize \in Nat \ {0} /\ MaxSize \in Nat
      /\ MinSize <= MaxSize /\ Divisor \in Nat \ {0}
  BY <1>1, RulesAssumption
<1>3. CASE n \in {Abs(held)} \ {0}
  BY <1>3 DEF Abs
<1>4. CASE sig.mode = "custom" /\ n = sig.value
  BY <1>1, <1>4
<1>5. CASE sig.mode # "custom" /\ \E k \in Notionals(sig, avail) : k > 0 /\ n = ContractsFor(sig.contract, k)
  <2>1. PICK k \in Notionals(sig, avail) : k > 0 /\ n = ContractsFor(sig.contract, k)
    BY <1>5
  <2>2. k \in Int
    <3>1. CASE sig.mode = "default"
      BY <1>2, <2>1, <3>1 DEF Notionals
    <3>2. CASE sig.mode = "percent"
      <4>1. avail * sig.value \in Int
        BY <1>1, <3>2
      <4> QED
        BY <2>1, <3>2, <4>1 DEF Notionals
    <3>3. CASE sig.mode = "fixed"
      BY <1>1, <2>1, <3>3 DEF Notionals
    <3>4. CASE sig.mode = "custom"
      BY <1>1, <1>5, <3>4
    <3> QED
      BY <1>1, <3>1, <3>2, <3>3, <3>4
  <2>3. k \div PerUnit[sig.contract] \in Int
    BY <1>2, <2>2
  <2> QED
    BY <1>2, <2>1, <2>3 DEF ContractsFor, AtMost
<1> QED
  BY <1>3, <1>4, <1>5 DEF OrderSizes

\* Decide starts a job of a size.
LEMMA DecideKeeps ==
  ASSUME IInv, NEW s \in Strategies, NEW sig \in Signals, Decide(s, sig)
  PROVE  LoopInv'
<1>1. /\ job.pc = "idle" /\ decided < MaxOrders /\ decided' = decided + 1
      /\ UNCHANGED <<proj, priced, orderCh, live, slipped>>
  BY Zenon DEF Decide
<1>2. PICK n \in OrderSizes(sig, entries[sig.contract], available, sig.contract \in priced) :
        job' = [NoJob EXCEPT !.pc = "decided", !.strategy = s, !.signal = sig,
                             !.sign = OrderSign(sig, entries[sig.contract]),
                             !.in = [NoInput EXCEPT !.size = n, !.opens = OpensExposure(sig)]]
  BY DEF Decide
<1>3. entries[sig.contract] \in Int /\ available \in Int
  BY LoopAssumption DEF IInv, AccountInv, ProjectionTypeOK, Entries
<1>4. n \in Nat \ {0}
  BY <1>3, SizesArePositive
<1>5. OrderSign(sig, entries[sig.contract]) \in {-1, 1}
  BY <1>3, LoopAssumption DEF OrderSign, Sign
<1>6. OpensExposure(sig) \in BOOLEAN
  BY DEF OpensExposure
<1>7. /\ job'.pc = "decided" /\ job'.tier = "strategy" /\ job'.strategy = s /\ job'.signal = sig
      /\ job'.sign = OrderSign(sig, entries[sig.contract])
      /\ job'.in = [NoInput EXCEPT !.size = n, !.opens = OpensExposure(sig)]
      /\ DOMAIN job' = JobFields
  BY <1>2 DEF NoJob, JobFields
<1>8. job'.in.size = n /\ job'.in.opens = OpensExposure(sig) /\ DOMAIN job'.in = InputFields
  BY <1>7 DEF NoInput, InputFields
<1>9. JobTyped'
  BY <1>4, <1>5, <1>6, <1>7, <1>8, Fields DEF JobTyped
<1>10. JobSized'
  BY <1>7 DEF JobSized
<1>11. decided' \in 0..MaxOrders /\ decided' > 0
  BY <1>1, LoopAssumption DEF IInv, LoopInv, LoopTyped
<1>12. LoopTyped' /\ OrdersSized'
  BY <1>1, <1>11 DEF IInv, LoopInv, LoopTyped, OrdersSized, Sized
<1>13. OneSlip'
  BY <1>1, <1>7, <1>11 DEF IInv, LoopInv, OneSlip, LossAtLimit, DailyLoss, proj
<1> QED
  BY <1>9, <1>10, <1>12, <1>13 DEF LoopInv

\* Reading the counts reads the loss of the day.
LEMMA CountsKeep ==
  ASSUME IInv, readCounts
  PROVE  LoopInv'
<1>1. /\ job.pc = "decided"
      /\ job' = [job EXCEPT
           !.pc = "counted",
           !.in = [@ EXCEPT !.openOrders = Len(live), !.ready = ready,
                            !.positions = Cardinality(Positions(Contracts)),
                            !.equity = entries[Cash], !.loss = DailyLoss, !.drawdown = DrawdownRatio]]
      /\ UNCHANGED <<proj, priced, orderCh, live, decided, slipped>>
  BY DEF readCounts
<1>2. DOMAIN job = JobFields /\ DOMAIN job.in = InputFields
  BY Fields DEF IInv, LoopInv, JobTyped
<1>3. /\ job'.pc = "counted" /\ job'.tier = job.tier /\ job'.strategy = job.strategy
      /\ job'.signal = job.signal /\ job'.sign = job.sign /\ DOMAIN job' = JobFields
      /\ job'.in = [job.in EXCEPT !.openOrders = Len(live), !.ready = ready,
                        !.positions = Cardinality(Positions(Contracts)),
                        !.equity = entries[Cash], !.loss = DailyLoss, !.drawdown = DrawdownRatio]
  BY <1>1, <1>2 DEF JobFields
<1>4. /\ job'.in.size = job.in.size /\ job'.in.opens = job.in.opens
      /\ job'.in.loss = DailyLoss /\ DOMAIN job'.in = InputFields
  BY <1>2, <1>3 DEF InputFields
<1>5. JobTyped'
  BY <1>1, <1>3, <1>4, Fields DEF IInv, LoopInv, JobTyped
<1>6. JobSized'
  BY <1>1, <1>3, <1>4 DEF IInv, LoopInv, JobSized
<1>7. LoopTyped' /\ OrdersSized'
  BY <1>1 DEF IInv, LoopInv, LoopTyped, OrdersSized, Sized
<1>8. OneSlip'
  <2>1. LossAtLimit' <=> LossAtLimit
    BY <1>1 DEF proj, LossAtLimit, DailyLoss
  <2>2. LossAtLimit => DailyLoss >= Rules.maxDailyLoss
    BY DEF LossAtLimit
  <2> QED
    BY <1>1, <1>4, <2>1, <2>2 DEF IInv, LoopInv, OneSlip
<1> QED
  BY <1>5, <1>6, <1>7, <1>8 DEF LoopInv

\* Reading the exposure leaves the counts.
LEMMA ExposureKeeps ==
  ASSUME IInv, readExposure
  PROVE  LoopInv'
<1> DEFINE c == job.signal.contract
<1>1. job.pc = "counted" /\ UNCHANGED <<proj, priced, orderCh, live, decided, slipped>>
  BY DEF readExposure
<1>2. PICK inc, known :
        job' = [job EXCEPT
          !.pc = "ready",
          !.in = [@ EXCEPT !.increasing = inc, !.priced = known, !.perUnit = PerUnit[c],
                           !.held = Notional(c), !.exposure = TotalExposure]]
  BY DEF readExposure
<1>3. DOMAIN job = JobFields /\ DOMAIN job.in = InputFields
  BY Fields DEF IInv, LoopInv, JobTyped
<1>4. /\ job'.pc = "ready" /\ job'.tier = job.tier /\ job'.strategy = job.strategy
      /\ job'.signal = job.signal /\ job'.sign = job.sign /\ DOMAIN job' = JobFields
      /\ job'.in = [job.in EXCEPT !.increasing = inc, !.priced = known, !.perUnit = PerUnit[c],
                                  !.held = Notional(c), !.exposure = TotalExposure]
  BY <1>2, <1>3 DEF JobFields
<1>5. /\ job'.in.size = job.in.size /\ job'.in.opens = job.in.opens /\ job'.in.loss = job.in.loss
      /\ job'.in.perUnit = PerUnit[c] /\ job'.in.held = Notional(c) /\ DOMAIN job'.in = InputFields
  BY <1>3, <1>4 DEF InputFields
<1>6. c \in Contracts
  BY <1>1, LoopAssumption DEF IInv, LoopInv, JobTyped
<1>7. PerUnit[c] \in Nat \ {0}
  BY <1>6, LoopAssumption, RulesAssumption
<1>8. Notional(c) \in Nat
  <2>1. entries[c] \in Int
    BY <1>6 DEF IInv, AccountInv, ProjectionTypeOK, Entries
  <2>2. Abs(entries[c]) \in Nat
    BY <2>1 DEF Abs
  <2> QED
    BY <1>7, <2>2 DEF Notional
<1>9. JobTyped'
  BY <1>1, <1>4, <1>5, <1>7, <1>8, Fields DEF IInv, LoopInv, JobTyped
<1>10. JobSized'
  BY <1>1, <1>4, <1>5 DEF IInv, LoopInv, JobSized
<1>11. LoopTyped' /\ OrdersSized'
  BY <1>1 DEF IInv, LoopInv, LoopTyped, OrdersSized, Sized
<1>12. OneSlip'
  BY <1>1, <1>4, <1>5 DEF IInv, LoopInv, OneSlip, LossAtLimit, DailyLoss, proj
<1> QED
  BY <1>9, <1>10, <1>11, <1>12 DEF LoopInv

\* The strategy's tier rejects, passes or reduces; what leaves it is within its limits.
LEMMA StrategyTierKeeps ==
  ASSUME IInv, evaluateStrategyRisk
  PROVE  LoopInv'
<1> DEFINE rules == MergeRules(Rules, Overrides[job.strategy])
<1> DEFINE verdict == StrategyVerdict
<1>1. /\ job.pc = "ready" /\ job.tier = "strategy"
      /\ verdict.kind = "reject" => job' = NoJob
      /\ verdict.kind = "allow" => job' = [job EXCEPT !.tier = "global"]
      /\ verdict.kind = "reduce" =>
           job' = [job EXCEPT !.pc = "decided", !.tier = "global", !.in.size = verdict.size]
      /\ UNCHANGED <<proj, priced, orderCh, live, decided, slipped>>
  BY DEF evaluateStrategyRisk
<1>2. /\ DOMAIN job = JobFields /\ DOMAIN job.in = InputFields
      /\ job.strategy \in Strategies /\ job.in.size \in Nat \ {0}
      /\ job.in.held \in Nat /\ job.in.perUnit \in Nat \ {0}
      /\ job.signal \in Signals /\ job.sign \in {-1, 1} /\ job.in.opens \in BOOLEAN
  BY <1>1, Fields DEF IInv, LoopInv, JobTyped
<1>3. LoopTyped' /\ OrdersSized'
  BY <1>1 DEF IInv, LoopInv, LoopTyped, OrdersSized, Sized
<1>4. (LossAtLimit' <=> LossAtLimit) /\ UNCHANGED slipped /\ UNCHANGED decided
  BY <1>1 DEF proj, LossAtLimit, DailyLoss
<1>5. DOMAIN Overrides[job.strategy] # {} =>
        /\ verdict.kind \in {"allow", "reject", "reduce"}
        /\ verdict.kind = "allow" => Allowed(rules, job.in.size)
        /\ verdict.kind = "reduce" => verdict.size \in Nat \ {0} /\ Allowed(rules, verdict.size)
  <2>1. rules \in RuleSet
    BY <1>2, TierRules
  <2>2. /\ Scoped.size = job.in.size /\ Scoped.held = job.in.held /\ Scoped.perUnit = job.in.perUnit
    BY <1>2 DEF Scoped, InputFields
  <2>3. DOMAIN Overrides[job.strategy] # {} => verdict = Evaluate(rules, Scoped)
    BY Zenon DEF StrategyVerdict
  <2> HIDE DEF rules, verdict
  <2> QED
    BY <1>2, <2>1, <2>2, <2>3, EvaluateKeepsLimits
<1>6. DOMAIN Overrides[job.strategy] = {} => verdict.kind = "allow"
  BY DEF StrategyVerdict, Allow
<1> HIDE DEF verdict
<1>7. CASE verdict.kind = "reject"
  <2>1. JobTyped' /\ JobSized' /\ job'.pc = "idle"
    BY <1>1, <1>4, <1>7, IdleKeeps DEF IInv
  <2>2. OneSlip'
    BY <1>4, <2>1 DEF IInv, LoopInv, OneSlip
  <2> QED
    BY <1>3, <2>1, <2>2 DEF LoopInv
<1>8. CASE verdict.kind = "allow"
  <2>1. /\ job'.tier = "global" /\ job'.pc = job.pc /\ job'.strategy = job.strategy /\ job'.signal = job.signal
        /\ job'.sign = job.sign /\ job'.in = job.in /\ DOMAIN job' = JobFields
    BY <1>1, <1>2, <1>8 DEF JobFields
  <2>2. JobTyped'
    BY <1>1, <1>2, <2>1, Fields DEF JobTyped
  <2>3. JobSized'
    BY <1>5, <1>8, <2>1 DEF JobSized
  <2>4. OneSlip'
    BY <1>1, <1>4, <2>1 DEF IInv, LoopInv, OneSlip
  <2> QED
    BY <1>3, <2>2, <2>3, <2>4 DEF LoopInv
<1>9. CASE verdict.kind = "reduce"
  <2>1. job' = [job EXCEPT !.pc = "decided", !.tier = "global", !.in.size = verdict.size]
    BY <1>1, <1>9
  <2>2. /\ job'.tier = "global" /\ job'.pc = "decided" /\ job'.strategy = job.strategy
        /\ job'.signal = job.signal /\ job'.sign = job.sign /\ DOMAIN job' = JobFields
        /\ job'.in = [job.in EXCEPT !.size = verdict.size]
    BY <1>2, <2>1 DEF JobFields
  <2>3. job'.in.size = verdict.size /\ job'.in.opens = job.in.opens /\ DOMAIN job'.in = InputFields
    BY <1>2, <2>2 DEF InputFields
  <2>4. verdict.size \in Nat \ {0} /\ Allowed(rules, verdict.size)
    BY <1>5, <1>6, <1>9
  <2>5. JobTyped'
    BY <1>2, <2>2, <2>3, <2>4, Fields DEF JobTyped
  <2>6. JobSized'
    BY <2>2, <2>3, <2>4 DEF JobSized
  <2>7. OneSlip'
    BY <1>1, <1>4, <2>2 DEF IInv, LoopInv, OneSlip
  <2> QED
    BY <1>3, <2>5, <2>6, <2>7 DEF LoopInv
<1> QED
  BY <1>5, <1>6, <1>7, <1>8, <1>9

\* The order of a job is of the job's size.
LEMMA OrderIsSized ==
  ASSUME NEW j, j.in.size \in Nat \ {0}, j.sign \in {-1, 1}, j.in.opens \in BOOLEAN,
         j.signal \in Signals, j.strategy \in Strategies,
         \A r \in {Rules, MergeRules(Rules, Overrides[j.strategy])} : Allowed(r, j.in.size)
  PROVE  Order(j) \in Orders /\ Sized(Order(j))
<1>1. /\ Order(j).size = j.sign * j.in.size /\ Order(j).strategy = j.strategy
      /\ Order(j).contract = j.signal.contract /\ Order(j).opens = j.in.opens
  BY DEF Order
<1>2. j.sign * j.in.size \in Int /\ Abs(j.sign * j.in.size) = j.in.size /\ j.sign * j.in.size # 0
  <2>1. CASE j.sign = 1
    <3>1. j.sign * j.in.size = j.in.size
      BY <2>1
    <3> QED
      BY <3>1 DEF Abs
  <2>2. CASE j.sign = -1
    <3>1. j.sign * j.in.size = -(j.in.size)
      BY <2>2
    <3> QED
      BY <3>1 DEF Abs
  <2> QED
    BY <2>1, <2>2
<1>3. j.signal.contract \in Contracts
  BY LoopAssumption
<1>4. Order(j) \in Orders
  BY <1>2, <1>3 DEF Order, Orders
<1> QED
  BY <1>1, <1>2, <1>4 DEF Sized

\* The global tier rejects, or queues an order within the limits of both tiers.
LEMMA GlobalTierKeeps ==
  ASSUME IInv, evaluateGlobal
  PROVE  LoopInv'
<1> DEFINE v == Evaluate(Rules, job.in)
<1>1. /\ job.pc = "ready" /\ job.tier = "global" /\ job' = NoJob
      /\ v.kind = "reject" => UNCHANGED <<orderCh, slipped>>
      /\ v.kind # "reject" =>
           /\ Len(orderCh) < OrderBuf
           /\ orderCh' = Append(orderCh, Order(IF v.kind = "reduce" THEN [job EXCEPT !.in.size = v.size] ELSE job))
           /\ slipped' = IF LossAtLimit /\ job.in.opens THEN slipped + 1 ELSE slipped
      /\ UNCHANGED <<proj, priced, live, decided>>
  BY DEF evaluateGlobal
<1>2. /\ DOMAIN job = JobFields /\ DOMAIN job.in = InputFields
      /\ job.strategy \in Strategies /\ job.in.size \in Nat \ {0}
      /\ job.in.held \in Nat /\ job.in.perUnit \in Nat \ {0}
      /\ job.signal \in Signals /\ job.sign \in {-1, 1} /\ job.in.opens \in BOOLEAN
  BY <1>1, Fields DEF IInv, LoopInv, JobTyped
<1>3. /\ v.kind \in {"allow", "reject", "reduce"}
      /\ v.kind = "allow" => Allowed(Rules, job.in.size)
      /\ v.kind = "reduce" => v.size \in Nat \ {0} /\ v.size <= job.in.size /\ Allowed(Rules, v.size)
      /\ Rules.enable /\ Rules.maxDailyLoss > 0 /\ job.in.opens /\ job.in.loss >= Rules.maxDailyLoss =>
           v.kind = "reject"
  BY <1>2, TierRules, EvaluateKeepsLimits
<1> HIDE DEF v
<1>4. JobTyped' /\ JobSized' /\ job'.pc = "idle"
  BY <1>1, IdleKeeps DEF IInv
<1>5. (LossAtLimit' <=> LossAtLimit) /\ UNCHANGED <<decided, live, priced>>
  BY <1>1 DEF proj, LossAtLimit, DailyLoss
<1>6. CASE v.kind = "reject"
  <2>1. LoopTyped' /\ OrdersSized'
    BY <1>1, <1>6 DEF IInv, LoopInv, LoopTyped, OrdersSized, Sized
  <2>2. OneSlip'
    BY <1>1, <1>4, <1>5, <1>6 DEF IInv, LoopInv, OneSlip
  <2> QED
    BY <1>4, <2>1, <2>2 DEF LoopInv
<1>7. CASE v.kind # "reject"
  <2> DEFINE size == IF v.kind = "reduce" THEN v.size ELSE job.in.size
  <2>1. PICK j : /\ orderCh' = Append(orderCh, Order(j)) /\ j.in.size = size /\ j.sign = job.sign
                 /\ j.in.opens = job.in.opens /\ j.signal = job.signal /\ j.strategy = job.strategy
    <3>1. CASE v.kind = "reduce"
      <4> DEFINE j == [job EXCEPT !.in.size = v.size]
      <4>1. /\ j.in = [job.in EXCEPT !.size = v.size] /\ j.sign = job.sign
            /\ j.signal = job.signal /\ j.strategy = job.strategy
        BY <1>2 DEF JobFields
      <4>2. j.in.size = v.size /\ j.in.opens = job.in.opens
        BY <1>2, <4>1 DEF InputFields
      <4>3. orderCh' = Append(orderCh, Order(j))
        BY <1>1, <3>1
      <4> HIDE DEF j
      <4> QED
        BY <3>1, <4>1, <4>2, <4>3
    <3>2. CASE v.kind # "reduce"
      BY <1>1, <1>7, <3>2
    <3> QED
      BY <3>1, <3>2
  <2>2. size \in Nat \ {0} /\ size <= job.in.size /\ Allowed(Rules, size)
    BY <1>2, <1>3, <1>7
  <2> HIDE DEF size
  <2>3. Allowed(MergeRules(Rules, Overrides[job.strategy]), size)
    <3>1. CASE DOMAIN Overrides[job.strategy] = {}
      BY <1>2, <2>2, <3>1, TierRules
    <3>2. CASE DOMAIN Overrides[job.strategy] # {}
      <4>1. Allowed(MergeRules(Rules, Overrides[job.strategy]), job.in.size)
        BY <1>1, <3>2 DEF IInv, LoopInv, JobSized
      <4>2. MergeRules(Rules, Overrides[job.strategy]).maxOrderSize \in Nat
        BY <1>2, TierRules DEF RuleSet
      <4> QED
        BY <1>2, <2>2, <4>1, <4>2 DEF Allowed
    <3> QED
      BY <3>1, <3>2
  <2>4. Order(j) \in Orders /\ Sized(Order(j))
    BY <1>2, <2>1, <2>2, <2>3, OrderIsSized
  <2>5. orderCh \in Seq(Orders) /\ Len(orderCh) < OrderBuf /\ OrderBuf \in Nat
    BY <1>1, <1>7, LoopAssumption DEF IInv, LoopInv, LoopTyped
  <2>6. /\ orderCh' \in Seq(Orders) /\ Len(orderCh') <= OrderBuf
        /\ DOMAIN orderCh' = 1..(Len(orderCh) + 1) /\ DOMAIN orderCh = 1..Len(orderCh)
        /\ orderCh'[Len(orderCh) + 1] = Order(j) /\ \A i \in 1..Len(orderCh) : orderCh'[i] = orderCh[i]
        /\ Len(orderCh) \in Nat
    BY <2>1, <2>4, <2>5, Appended
  <2>7. \A i \in DOMAIN orderCh' : i \in DOMAIN orderCh \/ i = Len(orderCh) + 1
    BY <2>6
  <2>8. OrdersSized'
    <3>1. \A i \in DOMAIN orderCh' : Sized(orderCh'[i])
      BY <2>4, <2>6, <2>7 DEF IInv, LoopInv, OrdersSized
    <3> QED
      BY <1>5, <3>1 DEF IInv, LoopInv, OrdersSized, Sized
  <2>9. slipped' \in Nat /\ slipped' <= 1 /\ (slipped' > 0 => LossAtLimit)
    <3>1. CASE LossAtLimit /\ job.in.opens
      <4>1. ~(slipped > 0)
        BY <1>1, <1>3, <1>7, <3>1 DEF IInv, LoopInv, OneSlip, LossAtLimit
      <4>2. slipped = 0
        BY <4>1 DEF IInv, LoopInv, LoopTyped
      <4> QED
        BY <1>1, <1>7, <3>1, <4>2
    <3>2. CASE ~(LossAtLimit /\ job.in.opens)
      BY <1>1, <1>7, <3>2 DEF IInv, LoopInv, LoopTyped, OneSlip
    <3> QED
      BY <3>1, <3>2
  <2>10. decided > 0
    BY <1>1 DEF IInv, LoopInv, OneSlip
  <2>11. LoopTyped'
    BY <1>5, <2>6, <2>9 DEF IInv, LoopInv, LoopTyped
  <2>12. OneSlip'
    BY <1>4, <1>5, <2>9, <2>10 DEF OneSlip
  <2> QED
    BY <1>4, <2>8, <2>11, <2>12 DEF LoopInv
<1> QED
  BY <1>6, <1>7

-----------------------------------------------------------------------------
(* The queue, the exchange and the projection *)

\* Only the queues of orders change.
LEMMA OrdersKeep ==
  ASSUME IInv, UNCHANGED <<job, decided, slipped>>,
         UNCHANGED <<entries, tracker, ready>>,
         priced' \subseteq Contracts,
         orderCh' \in Seq(Orders), Len(orderCh') <= OrderBuf, live' \in Seq(Orders),
         \A i \in DOMAIN orderCh' : Sized(orderCh'[i]),
         \A i \in DOMAIN live' : Sized(live'[i])
  PROVE  LoopInv'
<1>1. JobTyped' /\ JobSized'
  BY DEF IInv, LoopInv, JobTyped, JobSized
<1>2. LoopTyped' /\ OrdersSized'
  BY DEF IInv, LoopInv, LoopTyped, OrdersSized, Sized
<1>3. OneSlip'
  BY DEF IInv, LoopInv, OneSlip, LossAtLimit, DailyLoss
<1> QED
  BY <1>1, <1>2, <1>3 DEF LoopInv

LEMMA SubmitKeeps ==
  ASSUME IInv, NEW placed \in BOOLEAN, SubmitOrder(placed)
  PROVE  LoopInv'
<1>1. /\ orderCh # <<>> /\ orderCh' = Tail(orderCh)
      /\ live' = live \/ live' = Append(live, Head(orderCh))
      /\ UNCHANGED <<proj, job, priced, decided, slipped>>
  BY DEF SubmitOrder
<1>2. /\ orderCh \in Seq(Orders) /\ Len(orderCh) <= OrderBuf /\ live \in Seq(Orders)
      /\ priced \subseteq Contracts /\ OrderBuf \in Nat
      /\ \A i \in DOMAIN orderCh : Sized(orderCh[i])
      /\ \A i \in DOMAIN live : Sized(live[i])
  BY LoopAssumption DEF IInv, LoopInv, LoopTyped, OrdersSized
<1>3. /\ orderCh' \in Seq(Orders) /\ Len(orderCh') = Len(orderCh) - 1 /\ Len(orderCh) \in Nat \ {0}
      /\ DOMAIN orderCh = 1..Len(orderCh) /\ DOMAIN orderCh' = 1..(Len(orderCh) - 1)
      /\ Head(orderCh) = orderCh[1] /\ Head(orderCh) \in Orders
      /\ \A i \in 1..(Len(orderCh) - 1) : orderCh'[i] = orderCh[i + 1]
  BY <1>1, <1>2, Popped
<1>4. Sized(Head(orderCh)) /\ Len(orderCh') <= OrderBuf
  BY <1>2, <1>3
<1>5. \A i \in DOMAIN orderCh' : Sized(orderCh'[i])
  <2> SUFFICES ASSUME NEW i \in 1..(Len(orderCh) - 1) PROVE Sized(orderCh'[i])
    BY <1>3
  <2>1. i + 1 \in 1..Len(orderCh)
    BY <1>3
  <2> QED
    BY <1>2, <1>3, <2>1
<1>6. live' \in Seq(Orders) /\ \A i \in DOMAIN live' : Sized(live'[i])
  <2>1. CASE live' = Append(live, Head(orderCh))
    <3>1. /\ live' \in Seq(Orders) /\ DOMAIN live' = 1..(Len(live) + 1) /\ DOMAIN live = 1..Len(live)
          /\ live'[Len(live) + 1] = Head(orderCh) /\ Len(live) \in Nat
          /\ \A i \in 1..Len(live) : live'[i] = live[i]
      BY <1>2, <1>3, <2>1, Appended
    <3>2. \A i \in DOMAIN live' : i \in DOMAIN live \/ i = Len(live) + 1
      BY <3>1
    <3> QED
      BY <1>2, <1>4, <3>1, <3>2
  <2> QED
    BY <1>1, <1>2, <2>1
<1>7. UNCHANGED <<job, decided, slipped>> /\ UNCHANGED <<entries, tracker, ready>> /\ priced' \subseteq Contracts
  BY <1>1, <1>2 DEF proj, projection
<1> QED
  BY <1>3, <1>4, <1>5, <1>6, <1>7, OrdersKeep

\* An order leaves the exchange.
LEMMA RemovedKeeps ==
  ASSUME NEW T, NEW s \in Seq(T), NEW i \in DOMAIN s
  PROVE  /\ RemoveAt(s, i) \in Seq(T)
         /\ \A j \in DOMAIN RemoveAt(s, i) : \E k \in DOMAIN s : RemoveAt(s, i)[j] = s[k]
<1>1. Len(s) \in Nat /\ i \in 1..Len(s) /\ DOMAIN s = 1..Len(s)
  OBVIOUS
<1> DEFINE a == SubSeq(s, 1, i - 1)
<1> DEFINE b == SubSeq(s, i + 1, Len(s))
<1>2. a \in Seq(T) /\ Len(a) = i - 1 /\ \A j \in 1..(i - 1) : a[j] = s[j]
  BY <1>1
<1>3. b \in Seq(T) /\ Len(b) = Len(s) - i /\ \A j \in 1..(Len(s) - i) : b[j] = s[i + j]
  BY <1>1
<1> HIDE DEF a, b
<1>4. /\ a \o b \in Seq(T) /\ DOMAIN (a \o b) = 1..(Len(s) - 1)
      /\ \A j \in 1..(Len(s) - 1) : (a \o b)[j] = IF j <= i - 1 THEN a[j] ELSE b[j - (i - 1)]
  <2>1. Len(a) + Len(b) = Len(s) - 1
    BY <1>1, <1>2, <1>3
  <2>2. /\ a \o b \in Seq(T) /\ DOMAIN (a \o b) = 1..(Len(a) + Len(b))
        /\ \A j \in 1..(Len(a) + Len(b)) : (a \o b)[j] = IF j <= Len(a) THEN a[j] ELSE b[j - Len(a)]
    BY <1>2, <1>3, Joined
  <2> QED
    BY <1>2, <2>1, <2>2
<1>5. ASSUME NEW j \in 1..(Len(s) - 1) PROVE \E k \in 1..Len(s) : (a \o b)[j] = s[k]
  <2>1. CASE j <= i - 1
    <3>1. j \in 1..(i - 1) /\ j \in 1..Len(s)
      BY <1>1, <2>1
    <3> QED
      BY <1>2, <1>4, <2>1, <3>1
  <2>2. CASE ~(j <= i - 1)
    <3>1. j - (i - 1) \in 1..(Len(s) - i) /\ i + (j - (i - 1)) \in 1..Len(s)
      BY <1>1, <2>2
    <3> QED
      BY <1>3, <1>4, <2>2, <3>1
  <2> QED
    BY <2>1, <2>2
<1>6. RemoveAt(s, i) = a \o b
  BY DEF RemoveAt, a, b
<1> QED
  BY <1>1, <1>4, <1>5, <1>6

LEMMA LeavingKeeps ==
  ASSUME IInv, NEW i \in DOMAIN live, Fills(i) \/ Cancelled(i)
  PROVE  IInv'
<1>1. /\ live' = RemoveAt(live, i)
      /\ UNCHANGED <<job, decided, slipped, entries, tracker, ready, priced, orderCh>>
  BY DEF Fills, Cancelled, proj, projection, Changes
<1>2. /\ orderCh \in Seq(Orders) /\ Len(orderCh) <= OrderBuf /\ live \in Seq(Orders)
      /\ priced \subseteq Contracts
      /\ \A k \in DOMAIN orderCh : Sized(orderCh[k])
      /\ \A k \in DOMAIN live : Sized(live[k])
  BY DEF IInv, LoopInv, LoopTyped, OrdersSized
<1>3. live' \in Seq(Orders) /\ \A j \in DOMAIN live' : \E k \in DOMAIN live : live'[j] = live[k]
  BY <1>1, <1>2, RemovedKeeps
<1>4. \A j \in DOMAIN live' : Sized(live'[j])
  BY <1>2, <1>3
<1>5. LoopInv'
  BY <1>1, <1>2, <1>3, <1>4, OrdersKeep
<1>6. CASE Cancelled(i)
  BY <1>5, <1>6, AccountStutters DEF IInv, Cancelled
<1>7. CASE Fills(i)
  <2>1. Changes(live[i].contract, account[live[i].contract] + live[i].size) /\ UNCHANGED <<moves, days>>
    BY <1>7 DEF Fills
  <2>2. live[i] \in Orders
    BY <1>2
  <2>3. live[i].contract \in Entries /\ live[i].size \in Int
    BY <2>2 DEF Orders, Entries
  <2>4. account \in [Entries -> Int] /\ moves \in 0..MaxMoves
    BY DEF IInv, AccountInv, ProjectionTypeOK
  <2>5. account[live[i].contract] + live[i].size \in Int
    BY <2>3, <2>4
  <2>6. moves' \in 0..MaxMoves /\ days' = days
    BY <2>1, <2>4
  <2> QED
    BY <1>5, <2>1, <2>3, <2>5, <2>6, ChangesKeep DEF IInv
<1> QED
  BY <1>6, <1>7

\* The projection changes: the count of slipped orders starts again when the loss is below its limit.
LEMMA ProjectsKeep ==
  ASSUME IInv, Projects
  PROVE  IInv'
<1>1. /\ ProjectionStep /\ slipped' = IF LossAtLimit' THEN slipped ELSE 0
      /\ UNCHANGED <<job, priced, orderCh, live, decided>>
  BY DEF Projects, Carries
<1>2. AccountInv'
  BY <1>1, ProjectionKeeps DEF IInv
<1>3. JobTyped' /\ JobSized'
  BY <1>1 DEF IInv, LoopInv, JobTyped, JobSized
<1>4. slipped' \in Nat /\ slipped' <= 1 /\ (slipped' > 0 => LossAtLimit' /\ slipped > 0)
  <2>1. slipped \in Nat /\ slipped <= 1 /\ (slipped > 0 => LossAtLimit)
    BY DEF IInv, LoopInv, LoopTyped, OneSlip
  <2>2. (slipped' = slipped /\ LossAtLimit') \/ slipped' = 0
    BY <1>1, Zenon
  <2> QED
    BY <2>1, <2>2
<1>5. LoopTyped' /\ OrdersSized'
  BY <1>1, <1>4 DEF IInv, LoopInv, LoopTyped, OrdersSized, Sized
<1>6. OneSlip'
  BY <1>1, <1>4 DEF IInv, LoopInv, OneSlip
<1> QED
  BY <1>2, <1>3, <1>5, <1>6 DEF IInv, LoopInv

LEMMA InvariantKept == IInv /\ [Next]_vars => IInv'
<1> SUFFICES ASSUME IInv, [Next]_vars PROVE IInv'
  OBVIOUS
<1>1. CASE Projects
  BY <1>1, ProjectsKeep
<1>2. ASSUME NEW i \in DOMAIN live, Fills(i) \/ Cancelled(i) PROVE IInv'
  BY <1>2, LeavingKeeps
<1>3. CASE Dispatches
  <2>1. UNCHANGED proj
    BY <1>3, Zenon DEF Dispatches, readCounts, readExposure, evaluateStrategyRisk, evaluateGlobal
  <2>2. LoopInv'
    BY <1>3, CountsKeep, ExposureKeeps, StrategyTierKeeps, GlobalTierKeeps DEF Dispatches
  <2> QED
    BY <2>1, <2>2, AccountStutters DEF IInv
<1>4. CASE Submits
  <2>1. UNCHANGED proj
    BY <1>4, Zenon DEF Submits, SubmitOrder
  <2> QED
    BY <1>4, <2>1, AccountStutters, SubmitKeeps DEF IInv, Submits
<1>5. ASSUME NEW s \in Strategies, NEW sig \in Signals, Decide(s, sig) PROVE IInv'
  <2>1. UNCHANGED proj
    BY <1>5, Zenon DEF Decide
  <2> QED
    BY <1>5, <2>1, AccountStutters, DecideKeeps DEF IInv
<1>6. CASE (\E c \in Contracts : GetsPrice(c)) \/ UNCHANGED vars
  <2>1. /\ priced \subseteq Contracts /\ orderCh \in Seq(Orders) /\ Len(orderCh) <= OrderBuf
        /\ live \in Seq(Orders) /\ \A i \in DOMAIN orderCh : Sized(orderCh[i])
        /\ \A i \in DOMAIN live : Sized(live[i])
    BY DEF IInv, LoopInv, LoopTyped, OrdersSized
  <2>2. /\ UNCHANGED <<proj, job, decided, slipped, orderCh, live>>
        /\ priced' = priced \/ \E c \in Contracts : priced' = priced \cup {c}
    BY <1>6, Zenon DEF GetsPrice, vars, loop
  <2>3. UNCHANGED <<entries, tracker, ready>>
    BY <2>2 DEF proj, projection
  <2>4. LoopInv'
    BY <2>1, <2>2, <2>3, OrdersKeep
  <2> QED
    BY <2>2, <2>4, AccountStutters DEF IInv
<1> QED
  BY <1>1, <1>2, <1>3, <1>4, <1>5, <1>6, Zenon DEF Next

LEMMA InvariantStarts == Init => IInv
<1> SUFFICES ASSUME Init PROVE IInv
  OBVIOUS
<1>1. AccountInv
  BY AccountStarts DEF Init
<1>2. job.pc = "idle" /\ job.tier = "strategy" /\ job.in = NoInput /\ job = NoJob
  BY DEF Init, NoJob
<1>3. JobTyped /\ JobSized
  BY <1>2 DEF JobTyped, JobSized
<1>4. orderCh \in Seq(Orders) /\ Len(orderCh) = 0 /\ live \in Seq(Orders)
  BY DEF Init
<1>5. decided \in 0..MaxOrders /\ slipped \in Nat /\ OrderBuf \in Nat /\ slipped = 0 /\ priced = {}
  BY LoopAssumption DEF Init
<1>6. LoopTyped
  BY <1>4, <1>5 DEF LoopTyped
<1>7. OrdersSized
  BY DEF Init, OrdersSized
<1>8. OneSlip
  BY <1>2, <1>5 DEF OneSlip
<1> QED
  BY <1>1, <1>3, <1>6, <1>7, <1>8 DEF IInv, LoopInv

\* The inductive invariant holds in every state, over pushes, refreshes, days and decisions
\* in any order (OnUserEvent, refresh, OnEquityUpdate, dispatchSignal, evaluateStrategyRisk).
THEOREM Invariance == Spec => []IInv
<1> QED
  BY InvariantStarts, InvariantKept, PTL DEF Spec

-----------------------------------------------------------------------------
(* What the runs check, for every value of the constants *)

\* What the projection shows of an entry is the account's when no push of it is under way,
\* unless one was lost or overwritten and no refresh has read it since; the tracker judges
\* by the total the projection shows (OnUserEvent, refresh, OnEquityUpdate).
THEOREM ProjectionIsFresh == Spec => []FreshUnlessBehind
<1>1. IInv => FreshUnlessBehind
  BY DEF IInv, AccountInv, Shown, Judged, FreshUnlessBehind
<1> QED
  BY <1>1, Invariance, PTL

\* Every order is within the size limits of both tiers, and at most one that opens exposure
\* is let through while the day's loss stays at its limit (evaluateStrategyRisk, Evaluate,
\* BuildRiskContext).
THEOREM LimitsAreKept == Spec => []LimitsKept
<1>1. IInv => LimitsKept
  <2> SUFFICES ASSUME IInv PROVE LimitsKept
    OBVIOUS
  <2>1. orderCh \in Seq(Orders) /\ live \in Seq(Orders)
    BY DEF IInv, LoopInv, LoopTyped
  <2>2. ASSUME NEW o \in Range(orderCh \o live) PROVE Sized(o)
    <3>1. PICK i \in DOMAIN (orderCh \o live) : (orderCh \o live)[i] = o
      BY DEF Range
    <3>2. /\ Len(orderCh) \in Nat /\ Len(live) \in Nat /\ DOMAIN orderCh = 1..Len(orderCh)
          /\ DOMAIN live = 1..Len(live) /\ i \in 1..(Len(orderCh) + Len(live))
          /\ o = IF i <= Len(orderCh) THEN orderCh[i] ELSE live[i - Len(orderCh)]
      BY <2>1, <3>1
    <3>3. CASE i <= Len(orderCh)
      BY <3>2, <3>3 DEF IInv, LoopInv, OrdersSized
    <3>4. CASE ~(i <= Len(orderCh))
      <4>1. i - Len(orderCh) \in 1..Len(live)
        BY <3>2, <3>4
      <4> QED
        BY <3>2, <3>4, <4>1 DEF IInv, LoopInv, OrdersSized
    <3> QED
      BY <3>3, <3>4
  <2>3. slipped \in 0..MaxOrders /\ slipped <= 1
    BY LoopAssumption DEF IInv, LoopInv, LoopTyped, OneSlip
  <2>4. TypeOK
    BY <2>2, <2>3 DEF IInv, LoopInv, LoopTyped, JobTyped, TypeOK, Sized
  <2>5. \A o \in Range(orderCh \o live) : \A r \in {Rules, MergeRules(Rules, Overrides[o.strategy])} :
          r.enable /\ r.maxOrderSize > 0 => Abs(o.size) <= r.maxOrderSize
    BY <2>2 DEF Sized, Allowed
  <2> QED
    BY <2>3, <2>4, <2>5 DEF IInv, AccountInv, LimitsKept
<1> QED
  BY <1>1, Invariance, PTL
=============================================================================
