-------------------------------- MODULE WsHub --------------------------------
(***************************************************************************)
(* The websocket hub of the Gate.io perp client: one connection, the table *)
(* of active subscriptions, the read loop and its reconnection.  The       *)
(* exchange is external: it may cut the connection, refuse a dial, and     *)
(* pushes the streams that were subscribed on the current connection.      *)
(*                                                                         *)
(* Writing a subscription and recording it in activeSubs is one step: the  *)
(* read loop cannot reconnect in between, its back-off is a second or more.*)
(***************************************************************************)
EXTENDS Naturals

CONSTANTS
  Streams,   \* channel and payload of a subscription
  MaxCuts    \* bound: connections cut by the exchange

ASSUME MaxCutsAssumption == MaxCuts \in Nat

VARIABLES
  conn,      \* h.conn # nil
  wire,      \* the connection behind h.conn works
  activeSubs,
  server,    \* the streams the exchange pushes on the current connection
  reader,    \* what readLoop is doing
  snapshot,  \* subscriptions the reconnection has not sent yet
  cuts

hub == <<conn, wire, activeSubs, server, reader, snapshot, cuts>>

\* reading: in ReadJSON, or asleep without a connection.  dialled: connected again,
\* the snapshot of activeSubs not taken yet.  resubscribing: sending the snapshot.
Reader == {"reading", "backoff", "dialled", "resubscribing"}

\* Types; a stream is pushed only on a working connection, and nobody holds one while
\* the read loop backs off: connect (68-71) would return without dialling.
HubTypeOK ==
  /\ conn \in BOOLEAN
  /\ wire \in BOOLEAN
  /\ activeSubs \subseteq Streams
  /\ server \subseteq Streams
  /\ reader \in Reader
  /\ snapshot \subseteq Streams
  /\ cuts \in 0..MaxCuts
  /\ server # {} => wire
  /\ reader = "backoff" => ~conn

-----------------------------------------------------------------------------
(* Callers: setSubscriptions *)

\* The streams a call may write before it fails: all on a working connection,
\* any on a broken one whose end nobody noticed, none without a connection.
Written(streams) ==
  IF ~conn THEN {{}} ELSE IF wire THEN {streams} ELSE SUBSET streams

\* track = true; sent is what was written and therefore recorded.
subscribe(streams, sent) ==
  /\ sent \in Written(streams)
  /\ activeSubs' = activeSubs \cup sent
  /\ server' = IF wire THEN server \cup sent ELSE server
  /\ UNCHANGED <<conn, wire, reader, snapshot, cuts>>

unsubscribe(streams, sent) ==
  /\ sent \in Written(streams)
  /\ activeSubs' = activeSubs \ sent
  /\ server' = server \ sent
  /\ UNCHANGED <<conn, wire, reader, snapshot, cuts>>

-----------------------------------------------------------------------------
(* The exchange cuts the connection *)

Cut ==
  /\ wire
  /\ cuts < MaxCuts
  /\ cuts' = cuts + 1
  /\ wire' = FALSE
  /\ server' = {}
  /\ UNCHANGED <<conn, activeSubs, reader, snapshot>>

-----------------------------------------------------------------------------
(* The read loop *)

\* ReadJSON fails: reconnectAfterError drops the connection and backs off.
readError ==
  /\ reader = "reading"
  /\ conn /\ ~wire
  /\ conn' = FALSE
  /\ reader' = "backoff"
  /\ UNCHANGED <<wire, activeSubs, server, snapshot, cuts>>

redial ==
  /\ reader = "backoff"
  /\ conn' = TRUE
  /\ wire' = TRUE
  /\ server' = {}
  /\ reader' = "dialled"
  /\ UNCHANGED <<activeSubs, snapshot, cuts>>

\* The back-off grows and readLoop goes on, without a connection.
redialFailed ==
  /\ reader = "backoff"
  /\ reader' = "reading"
  /\ UNCHANGED <<conn, wire, activeSubs, server, snapshot, cuts>>

\* Mutant: the snapshot is the one of the previous reconnection.
takeSnapshotStale ==
  /\ reader = "dialled"
  /\ reader' = "resubscribing"
  /\ UNCHANGED <<conn, wire, activeSubs, server, snapshot, cuts>>

takeSnapshot ==
  /\ reader = "dialled"
  /\ snapshot' = activeSubs
  /\ reader' = "resubscribing"
  /\ UNCHANGED <<conn, wire, activeSubs, server, cuts>>

\* A failed write is ignored.
resubscribe(s) ==
  /\ reader = "resubscribing"
  /\ s \in snapshot
  /\ snapshot' = snapshot \ {s}
  /\ server' = IF wire THEN server \cup {s} ELSE server
  /\ UNCHANGED <<conn, wire, activeSubs, reader, cuts>>

resubscribed ==
  /\ reader = "resubscribing"
  /\ snapshot = {}
  /\ reader' = "reading"
  /\ UNCHANGED <<conn, wire, activeSubs, server, snapshot, cuts>>

-----------------------------------------------------------------------------
\* Connect has dialled, nothing is subscribed yet.
HubInit ==
  /\ conn = TRUE /\ wire = TRUE
  /\ activeSubs = {} /\ server = {} /\ snapshot = {}
  /\ reader = "reading"
  /\ cuts = 0

readLoop ==
  \/ readError \/ redial \/ redialFailed \/ takeSnapshot \/ resubscribed
  \/ \E s \in Streams : resubscribe(s)

HubStep == Cut \/ readLoop

-----------------------------------------------------------------------------
(* Properties *)

\* Once the read loop is reading from a working connection again, every recorded
\* subscription is live on it, whatever was subscribed or cut while it was
\* reconnecting (setSubscriptions, reconnectAfterError).
ActiveSubsAreLive == reader = "reading" /\ conn /\ wire => activeSubs \subseteq server
=============================================================================
