--------------------------- MODULE MetricsService ---------------------------
(***************************************************************************)
(* The browser's end of the WebSocket: class MetricsService, and the       *)
(* connection badge main.ts hangs on it.  JavaScript runs one task at a    *)
(* time, so an event handler or timer callback is one step; the state that *)
(* survives between tasks (this.socket, this.reconnectTimer, destroyed) is *)
(* what later tasks may find changed under them.                           *)
(*                                                                         *)
(* Sockets and timers are identities of a small pool: a closed socket and  *)
(* a fired or cleared timer are never referred to again, so their          *)
(* identities are reused.  The browser's part (readyState, which events    *)
(* follow which) is external.  A 'message' event changes no state of the   *)
(* service: it calls the snapshot handlers, which module Dashboard adds    *)
(* together with the server and the network.                               *)
(***************************************************************************)
EXTENDS Naturals, FiniteSets

CONSTANTS
  Sockets,    \* pool of WebSocket identities (bounds the live sockets)
  Timers,     \* pool of setTimeout identities (bounds the pending timers)
  None,       \* null
  MaxCalls    \* bound on the application's calls of connect()

ASSUME NoneAssumption == None \notin Sockets /\ None \notin Timers
ASSUME MaxCallsAssumption == MaxCalls \in Nat

VARIABLES
  socket,          \* this.socket
  reconnectTimer,  \* this.reconnectTimer
  destroyed,       \* this.destroyed
  badge,           \* the header shows "Connected" (main.ts)
  calls,           \* connect() calls the application has made
  ready,           \* ready[k]: readyState of socket k (browser)
  timers           \* timers the browser will still fire

vars == <<socket, reconnectTimer, destroyed, badge, calls, ready, timers>>

\* Sockets whose event listeners can still be called.
Live == {k \in Sockets : ready[k] # "closed"}

Init ==
  /\ socket = None
  /\ reconnectTimer = None
  /\ destroyed = FALSE
  /\ badge = FALSE
  /\ calls = 0
  /\ ready = [k \in Sockets |-> "closed"]
  /\ timers = {}

-----------------------------------------------------------------------------
\* WebSocket.close(): no effect on a socket that is closing or closed, nor
\* on null.
CloseSocket(rs, k) ==
  IF k # None /\ rs[k] \in {"connecting", "open"}
  THEN [rs EXCEPT ![k] = "closing"] ELSE rs

\* The timers left once this.reconnectTimer is cleared.
\* Mutant: clearTimeout is forgotten.
TimersKept == timers
TimersCleared == timers \ {reconnectTimer}

\* The body of connect() once it knows it is not destroyed, with pending the
\* timers then set and k a new socket.
Open(pending, k) ==
  /\ k \notin Live
  /\ timers' = pending
  /\ reconnectTimer' = None
  /\ socket' = k
  /\ ready' = [ready EXCEPT ![k] = "connecting"]

\* scheduleReconnect() sets a timer and overwrites this.reconnectTimer.
\* Mutant: it is called by the 'error' handler as well as by 'close'.
ScheduleTwice(withError) ==
  \E t \in Timers \ timers : \E u \in Timers \ timers :
    /\ withError <=> t # u
    /\ timers' = timers \cup {t, u}
    /\ reconnectTimer' = t
ScheduleReconnect(withError) ==
  \E t \in Timers \ timers :
    /\ timers' = timers \cup {t}
    /\ reconnectTimer' = t

-----------------------------------------------------------------------------
(***************************************************************************)
(* The application.                                                        *)
(***************************************************************************)

\* connect(), called by main() and by whoever else holds the service.
Connect ==
  /\ ~destroyed /\ calls < MaxCalls
  /\ calls' = calls + 1
  /\ \E k \in Sockets : Open(TimersCleared, k)
  /\ UNCHANGED <<destroyed, badge>>

\* disconnect().
Disconnect ==
  /\ ~destroyed
  /\ destroyed' = TRUE
  /\ timers' = TimersCleared
  /\ reconnectTimer' = None
  /\ ready' = CloseSocket(ready, socket)
  /\ socket' = None
  /\ UNCHANGED <<badge, calls>>

-----------------------------------------------------------------------------
(***************************************************************************)
(* Tasks of the browser.                                                   *)
(***************************************************************************)

\* The reconnect timer fires: the callback nulls this.reconnectTimer (even if
\* it now names another timer) and calls connect().
\* Mutant: the connection is opened without the callback nulling the handle,
\* and connect() returns early while a handle is set.
ReconnectStuck(t) ==
  /\ t \in timers
  /\ timers' = timers \ {t}
  /\ UNCHANGED <<socket, reconnectTimer, destroyed, badge, calls, ready>>
Reconnect(t) ==
  /\ t \in timers
  /\ IF destroyed
     THEN /\ timers' = timers \ {t}
          /\ reconnectTimer' = None
          /\ UNCHANGED <<socket, ready>>
     ELSE \E k \in Sockets : Open(timers \ {t}, k)
  /\ UNCHANGED <<destroyed, badge, calls>>

\* 'open': the handshake is done.
OnOpen(k) ==
  /\ ready[k] = "connecting"
  /\ ready' = [ready EXCEPT ![k] = "open"]
  /\ badge' = TRUE
  /\ UNCHANGED <<socket, reconnectTimer, destroyed, calls, timers>>

\* The connection ends.  The browser closes socket k and, unless the end was
\* clean (a handshake cannot end cleanly), fires 'error', whose handler closes
\* this.socket, whichever socket that is by now; then it fires 'close', in
\* the same task.
\* Mutant: the badge is not told.
OnCloseUntold(k, withError) ==
  LET closed == [ready EXCEPT ![k] = "closed"] IN
  /\ k \in Live /\ (ready[k] = "connecting" => withError)
  /\ ready' = IF withError THEN CloseSocket(closed, socket) ELSE closed
  /\ IF destroyed THEN UNCHANGED <<timers, reconnectTimer>>
                  ELSE ScheduleReconnect(withError)
  /\ UNCHANGED <<socket, destroyed, badge, calls>>
OnClose(k, withError) ==
  LET closed == [ready EXCEPT ![k] = "closed"] IN
  /\ k \in Live /\ (ready[k] = "connecting" => withError)
  /\ ready' = IF withError THEN CloseSocket(closed, socket) ELSE closed
  /\ badge' = FALSE
  /\ IF destroyed THEN UNCHANGED <<timers, reconnectTimer>>
                  ELSE ScheduleReconnect(withError)
  /\ UNCHANGED <<socket, destroyed, calls>>

-----------------------------------------------------------------------------
Next ==
  \/ Connect \/ Disconnect
  \/ \E t \in Timers : Reconnect(t)
  \/ \E k \in Sockets : OnOpen(k)
  \/ \E k \in Sockets : \E withError \in BOOLEAN : OnClose(k, withError)

Spec == Init /\ [][Next]_vars

-----------------------------------------------------------------------------
\* The values the variables take.
TypeOK ==
  /\ socket \in Sockets \cup {None}
  /\ reconnectTimer \in Timers \cup {None}
  /\ destroyed \in BOOLEAN /\ badge \in BOOLEAN
  /\ calls \in 0..MaxCalls
  /\ ready \in [Sockets -> {"connecting", "open", "closing", "closed"}]
  /\ timers \subseteq Timers

\* The service is either connecting or connected, or waiting to reconnect,
\* and only one of them: it never gives up (no socket and no timer) and never
\* doubles its connections (two of either), until disconnect() ends it.
OneWayBack ==
  calls > 0 /\ ~destroyed => Cardinality(Live) + Cardinality(timers) = 1

\* Every pending timer is the one this.reconnectTimer names, so that
\* connect() and disconnect() can cancel it.
NoOrphanTimer ==
  timers = IF reconnectTimer = None THEN {} ELSE {reconnectTimer}

\* disconnect() is permanent (MetricsService.ts:75): no timer outlives it,
\* no connection is open or being made.
DisconnectIsFinal ==
  destroyed => timers = {} /\ \A k \in Live : ready[k] = "closing"

\* The header's badge shows whether snapshots can arrive; it may say
\* "Connected" for the moment disconnect() takes to close the socket.
BadgeIsTrue ==
  /\ badge => \E k \in Sockets : ready[k] \in {"open", "closing"}
  /\ (\E k \in Sockets : ready[k] = "open") => badge
=============================================================================
