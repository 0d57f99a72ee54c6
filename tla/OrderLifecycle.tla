--------------------------- MODULE OrderLifecycle ---------------------------
(***************************************************************************)
(* What the order path promises of an order, without queues, events,       *)
(* retries or tags: what the engine tells of it, what it has saved, and    *)
(* what is real at the exchange.  OrderManager implements it.              *)
(***************************************************************************)
EXTENDS Naturals

CONSTANTS
  Orders,    \* local order ids
  NoOrder,   \* "nobody's": an exchange id not used yet
  ExIds      \* exchange order ids

VARIABLES
  told,      \* the status the engine gives for an id, of memory or else of disk
  saved,     \* the status on disk
  owner,     \* the id each exchange order was placed for
  real,      \* the status of each exchange order
  doubted    \* ids with a placement whose answer was lost

vars == <<told, saved, owner, real, doubted>>

Open == {"Submitted", "PartialFilled"}
Ended == {"Filled", "Cancelled"}

Init ==
  /\ told = [o \in Orders |-> "None"]
  /\ saved = [o \in Orders |-> "None"]
  /\ owner = [x \in ExIds |-> NoOrder]
  /\ real = [x \in ExIds |-> "None"]
  /\ doubted = {}

Unplaced(o) == \A x \in ExIds : owner[x] # o

\* The engine's status of o becomes s, saved at once unless the save fails.
Tell(o, s) ==
  /\ told' = [told EXCEPT ![o] = s]
  /\ saved' \in {saved, [saved EXCEPT ![o] = s]}

\* An unknown id is taken in or turned down.
Ask(o) ==
  /\ told[o] = "None"
  /\ \E s \in {"Pending", "Rejected"} : Tell(o, s)
  /\ UNCHANGED <<owner, real, doubted>>

\* Only an order on its way is placed, and only once, unless an answer was lost.
Accept(o, x) ==
  /\ told[o] = "Pending"
  /\ Unplaced(o) \/ o \in doubted
  /\ real[x] = "None"
  /\ owner' = [owner EXCEPT ![x] = o]
  /\ real' = [real EXCEPT ![x] = "Submitted"]
  /\ doubted' \in {doubted, doubted \cup {o}}
  /\ UNCHANGED <<told, saved>>

\* An order is given up only when nothing was placed, unless an answer was lost.
Refuse(o) ==
  /\ told[o] = "Pending"
  /\ Unplaced(o) \/ o \in doubted
  /\ Tell(o, "Rejected")
  /\ UNCHANGED <<owner, real, doubted>>

\* The engine learns of its exchange order: an end that is real, or that it is
\* open, which may be old news.  Nothing is learnt of a rejected order.
Learn(o, x) ==
  /\ owner[x] = o
  /\ told[o] \notin {"None", "Rejected"}
  /\ \E s \in Open \cup {real[x]} : Tell(o, s)
  /\ UNCHANGED <<owner, real, doubted>>

\* The exchange fills or ends an order: nobody need have been told.
Move(x) ==
  /\ real[x] \in Open
  /\ \E s \in {"PartialFilled"} \cup Ended : real' = [real EXCEPT ![x] = s]
  /\ UNCHANGED <<told, saved, owner, doubted>>

\* A confirmed cancel: the end is real and told in one step.
CancelReal(o, x) ==
  /\ owner[x] = o
  /\ real[x] \in Open
  /\ real' = [real EXCEPT ![x] = "Cancelled"]
  /\ Tell(o, "Cancelled")
  /\ UNCHANGED <<owner, doubted>>

\* What is told of some orders is saved.
Flush ==
  /\ \E S \in SUBSET Orders :
       saved' = [o \in Orders |-> IF o \in S THEN told[o] ELSE saved[o]]
  /\ UNCHANGED <<told, owner, real, doubted>>

\* The process ends: the engine is left with what it saved.
FallBack == told' = saved /\ UNCHANGED <<saved, owner, real, doubted>>

Next ==
  \/ \E o \in Orders : Ask(o) \/ Refuse(o)
  \/ \E o \in Orders, x \in ExIds : Accept(o, x) \/ Learn(o, x) \/ CancelReal(o, x)
  \/ \E x \in ExIds : Move(x)
  \/ Flush
  \/ FallBack

Spec == Init /\ [][Next]_vars
=============================================================================
