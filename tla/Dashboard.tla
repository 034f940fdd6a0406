----------------------------- MODULE Dashboard ------------------------------
(***************************************************************************)
(* The whole path of a snapshot: published by the backend, broadcast to    *)
(* the sessions registered then (as FanOut promises), carried in order by  *)
(* a connection, delivered as a 'message' event and shown by the panels.   *)
(* It composes MetricsService with a backend that can stop and be started  *)
(* again, with connections that can break, with the history that the chart *)
(* panels draw and with the process table, which the user clicks at.       *)
(*                                                                         *)
(* Snapshots are numbered by the second they were taken in, and 0 is the   *)
(* filler the panels start with.                                           *)
(***************************************************************************)
EXTENDS MetricsService, ProcessTable, Sequences

CONSTANTS
  HistoryLength,   \* HISTORY_LENGTH of the panels (60)
  MaxSeq           \* bound on the seconds that pass

ASSUME HistoryAssumption == HistoryLength \in Nat \ {0}
ASSUME MaxSeqAssumption == MaxSeq \in Nat

VARIABLES
  serverUp,   \* the backend is running
  clock,      \* seconds passed, and the newest snapshot published
  link,       \* link[k]: "none", "up" (the backend has a registered session
              \* for k) or "cut" (that session is gone)
  wire,       \* wire[k]: snapshots sent to k and not yet delivered
  history     \* the panel's history array, oldest first

netVars == <<serverUp, clock, link, wire>>
pageVars == <<history, tableVars>>
allVars == <<vars, netVars, pageVars>>

DInit ==
  /\ Init
  /\ serverUp = TRUE
  /\ clock = 0
  /\ link = [k \in Sockets |-> "none"]
  /\ wire = [k \in Sockets |-> <<>>]
  /\ history = [i \in 1..HistoryLength |-> 0]
  /\ TableInit

-----------------------------------------------------------------------------
(***************************************************************************)
(* The backend and the network.                                            *)
(***************************************************************************)

\* A second passes.  A running backend publishes a snapshot to every
\* registered session, unless collecting it fails.
Publish ==
  /\ clock < MaxSeq
  /\ clock' = clock + 1
  /\ \/ /\ serverUp
        /\ wire' = [k \in Sockets |-> IF link[k] = "up"
                                      THEN Append(wire[k], clock + 1)
                                      ELSE wire[k]]
     \/ UNCHANGED wire
  /\ UNCHANGED <<vars, serverUp, link, pageVars>>

\* The backend accepts the upgrade and registers the session.
Register(k) ==
  /\ serverUp /\ ready[k] = "connecting" /\ link[k] = "none"
  /\ link' = [link EXCEPT ![k] = "up"]
  /\ UNCHANGED <<vars, serverUp, clock, wire, pageVars>>

\* A connection breaks; what has been received already is still delivered.
Cut(k) ==
  /\ link[k] = "up"
  /\ link' = [link EXCEPT ![k] = "cut"]
  /\ UNCHANGED <<vars, serverUp, clock, wire, pageVars>>

ServerStops ==
  /\ serverUp
  /\ serverUp' = FALSE
  /\ link' = [k \in Sockets |-> IF link[k] = "up" THEN "cut" ELSE link[k]]
  /\ UNCHANGED <<vars, clock, wire, pageVars>>

ServerStarts ==
  /\ ~serverUp
  /\ serverUp' = TRUE
  /\ UNCHANGED <<vars, clock, link, wire, pageVars>>

-----------------------------------------------------------------------------
(***************************************************************************)
(* The browser.                                                            *)
(***************************************************************************)

\* update() of a chart panel: push the value, drop the oldest beyond
\* HISTORY_LENGTH.
\* Mutant: one element too many before the first shift().
PushedLong(h, v) ==
  LET longer == Append(h, v) IN
  IF Len(longer) > HistoryLength + 1 THEN Tail(longer) ELSE longer
Pushed(h, v) ==
  LET longer == Append(h, v) IN
  IF Len(longer) > HistoryLength THEN Tail(longer) ELSE longer

\* 'message': the snapshot handler of main.ts updates every panel.  (The try
\* around the handlers is left out: the backend's numbers make none throw.)
\* Mutant: a message delivered again after a reconnection.
OnMessageAgain(k) ==
  /\ ready[k] = "open" /\ wire[k] # <<>>
  /\ wire' = wire
  /\ history' = Pushed(history, Head(wire[k]))
  /\ Update
  /\ UNCHANGED <<vars, serverUp, clock, link>>
OnMessage(k) ==
  /\ ready[k] = "open" /\ wire[k] # <<>>
  /\ wire' = [wire EXCEPT ![k] = Tail(@)]
  /\ history' = Pushed(history, Head(wire[k]))
  /\ Update
  /\ UNCHANGED <<vars, serverUp, clock, link>>

\* A handshake the backend has answered is completed.
DOnOpen(k) ==
  /\ link[k] # "none"
  /\ OnOpen(k)
  /\ UNCHANGED <<netVars, pageVars>>

\* The connection of k is over: refused, failed, cut, or closed by close().
\* What was under way is lost.
DOnClose(k, withError) ==
  /\ link[k] # "up" \/ ready[k] = "closing"
  /\ OnClose(k, withError)
  /\ link' = [link EXCEPT ![k] = "none"]
  /\ wire' = [wire EXCEPT ![k] = <<>>]
  /\ UNCHANGED <<serverUp, clock, pageVars>>

\* main() registers its handlers and calls connect() in one task, before any
\* event can be dispatched.
DConnect == Connect /\ UNCHANGED <<netVars, pageVars>>
DDisconnect == Disconnect /\ UNCHANGED <<netVars, pageVars>>
DReconnect(t) == Reconnect(t) /\ UNCHANGED <<netVars, pageVars>>

\* The user's click and the page's other tasks come in any order.
DClick(key) == Click(key) /\ UNCHANGED <<vars, netVars, history>>

-----------------------------------------------------------------------------
Closes(k) == \E withError \in BOOLEAN : DOnClose(k, withError)

DNext ==
  \/ Publish \/ ServerStops \/ ServerStarts
  \/ DConnect \/ DDisconnect
  \/ \E t \in Timers : DReconnect(t)
  \/ \E key \in Keys : DClick(key)
  \/ \E k \in Sockets :
       \/ Register(k) \/ Cut(k)
       \/ DOnOpen(k) \/ OnMessage(k) \/ Closes(k)

DSpec == DInit /\ [][DNext]_allVars

(***************************************************************************)
(* Fairness.  The browser's timers fire and its events are dispatched, and *)
(* main() calls connect(); a backend that keeps running accepts a          *)
(* connection that keeps being tried (strong fairness, as an attempt may   *)
(* still fail).                                                            *)
(***************************************************************************)
DFairness ==
  /\ WF_allVars(DConnect)
  /\ WF_allVars(\E t \in Timers : DReconnect(t))
  /\ \A k \in Sockets : WF_allVars(OnMessage(k)) /\ WF_allVars(Closes(k))
  /\ SF_allVars(\E k \in Sockets : Register(k))
  /\ SF_allVars(\E k \in Sockets : DOnOpen(k))

DFairSpec == DSpec /\ DFairness

-----------------------------------------------------------------------------
\* The values the variables take.
DTypeOK ==
  /\ TypeOK /\ TableTypeOK
  /\ serverUp \in BOOLEAN
  /\ clock \in 0..MaxSeq
  /\ link \in [Sockets -> {"none", "up", "cut"}]
  /\ wire \in [Sockets -> Seq(1..MaxSeq)]
  /\ history \in [1..HistoryLength -> 0..MaxSeq]

\* The chart keeps exactly HISTORY_LENGTH points; what it shows is in the
\* order of time and no second is drawn twice, across any number of lost
\* connections, reconnections and restarts of the backend.  (It fails when
\* connect(), "Safe to call multiple times", MetricsService.ts:26, is called
\* again on a service that is connected.)
ChartInOrder ==
  /\ Len(history) = HistoryLength
  /\ \A i, j \in 1..HistoryLength :
       i < j /\ history[i] # 0 => history[i] < history[j]

\* After any sequence of clicks and snapshots, each snapshot puts the rows in
\* the order of the arrow shown when it arrives, whatever was clicked since the
\* last one.
SnapshotsFollowArrows == [][history' # history => RowsFollowArrows']_allVars

\* "The dashboard auto-reconnects when the WebSocket connection drops"
\* (README.md): with a backend that stays up in the end, the page gets
\* connected again and again until it is told to disconnect.
Reconnects ==
  <>[]serverUp => [](~destroyed => <>(destroyed \/ badge))
=============================================================================
