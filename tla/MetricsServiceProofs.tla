----------------------- MODULE MetricsServiceProofs ------------------------
(***************************************************************************)
(* Proofs about MetricsService, for any pools of sockets and timers.  They *)
(* are about a service whose connect() was called at most once from        *)
(* outside, as main.ts does: calls > 1 is finding 2.                       *)
(***************************************************************************)
EXTENDS MetricsService, FiniteSetTheorems, TLAPS

\* No socket is alive but k.
Only(k) == \A j \in Sockets : j # k => ready[j] = "closed"
NoSocket == \A j \in Sockets : ready[j] = "closed"

\* The three situations of a service that was not told to disconnect: not yet
\* started, with its one connection, or waiting for its one timer.
Fresh     == calls = 0 /\ NoSocket /\ timers = {} /\ socket = None
Connected ==
  /\ calls = 1 /\ timers = {}
  /\ socket \in Sockets /\ Only(socket)
  /\ ready[socket] \in {"connecting", "open"}
Retrying  == calls = 1 /\ NoSocket /\ timers # {}

\* And of one that was: at most one socket is left, and it is closing.
Ended ==
  /\ timers = {} /\ socket = None
  /\ \A k \in Sockets : ready[k] \in {"closing", "closed"}
  /\ NoSocket \/ \E k \in Sockets : Only(k)

OneCall ==
  /\ NoOrphanTimer /\ BadgeIsTrue
  /\ IF destroyed THEN Ended ELSE Fresh \/ Connected \/ Retrying

SInv == TypeOK /\ (calls <= 1 => OneCall)

-----------------------------------------------------------------------------
LEMMA InitSInv == Init => SInv
<1> SUFFICES ASSUME Init
             PROVE  SInv
  OBVIOUS
<1>1. TypeOK
  <2>1. ready \in [Sockets -> {"connecting", "open", "closing", "closed"}]
    BY DEF Init
  <2>2. calls \in 0..MaxCalls
    BY MaxCallsAssumption DEF Init
  <2>3. QED
    BY <2>1, <2>2 DEF Init, TypeOK
<1>2. Fresh
  BY DEF Init, Fresh, NoSocket
<1>3. NoOrphanTimer /\ BadgeIsTrue
  BY DEF Init, NoOrphanTimer, BadgeIsTrue
<1>4. QED
  BY <1>1, <1>2, <1>3 DEF Init, SInv, OneCall

LEMMA TypeStep ==
  ASSUME TypeOK, Next
  PROVE  TypeOK'
<1> USE NoneAssumption, MaxCallsAssumption DEF TypeOK
<1>1. CASE Connect
  BY <1>1 DEF Connect, Open, TimersCleared
<1>2. CASE Disconnect
  BY <1>2 DEF Disconnect, CloseSocket, TimersCleared
<1>3. ASSUME NEW t \in Timers, Reconnect(t)
      PROVE  TypeOK'
  BY <1>3 DEF Reconnect, Open
<1>4. ASSUME NEW k \in Sockets, OnOpen(k)
      PROVE  TypeOK'
  BY <1>4 DEF OnOpen
<1>5. ASSUME NEW k \in Sockets, NEW withError \in BOOLEAN, OnClose(k, withError)
      PROVE  TypeOK'
  <2>1. ready' \in [Sockets -> {"connecting", "open", "closing", "closed"}]
    BY <1>5 DEF OnClose, CloseSocket
  <2>2. timers' \subseteq Timers /\ reconnectTimer' \in Timers \cup {None}
    BY <1>5 DEF OnClose, ScheduleReconnect
  <2>3. QED
    BY <1>5, <2>1, <2>2 DEF OnClose
<1>6. QED
  BY <1>1, <1>2, <1>3, <1>4, <1>5 DEF Next

\* Starting, by connect() or by the timer: the only connection.
LEMMA OpenStep ==
  ASSUME TypeOK, TypeOK', NEW k \in Sockets, NoSocket, BadgeIsTrue, ~destroyed,
         Open({}, k), calls' = 1, badge' = badge, destroyed' = destroyed
  PROVE  OneCall'
<1>1. /\ socket' = k /\ ready'[k] = "connecting" /\ timers' = {}
      /\ reconnectTimer' = None /\ Only(k)'
  BY DEF Open, Only, NoSocket, TypeOK
<1>2. badge = FALSE
  BY DEF BadgeIsTrue, NoSocket, TypeOK
<1>3. Connected'
  BY <1>1 DEF Connected
<1>4. NoOrphanTimer' /\ BadgeIsTrue'
  BY <1>1, <1>2 DEF NoOrphanTimer, BadgeIsTrue, Only, TypeOK
<1>5. QED
  BY <1>3, <1>4 DEF OneCall

LEMMA OneCallStep ==
  ASSUME SInv, TypeOK', Next, calls' <= 1
  PROVE  OneCall'
<1> USE NoneAssumption
<1>1. calls <= 1 /\ OneCall
  <2>1. calls' \in {calls, calls + 1}
    BY DEF Next, Connect, Disconnect, Reconnect, OnOpen, OnClose
  <2>2. QED
    BY <2>1, MaxCallsAssumption DEF SInv, TypeOK
<1>2. CASE Connect
  <2>1. calls = 0 /\ calls' = 1
    BY <1>2, MaxCallsAssumption DEF Connect, SInv, TypeOK
  <2>2. Fresh /\ TimersCleared = {}
    BY <1>1, <1>2, <2>1
       DEF Connect, OneCall, Connected, Retrying, Fresh, TimersCleared
  <2>3. PICK k \in Sockets : Open({}, k)
    BY <1>2, <2>2 DEF Connect
  <2>4. QED
    BY <1>1, <1>2, <2>1, <2>2, <2>3, OpenStep
       DEF Connect, Fresh, OneCall, SInv
<1>3. CASE Disconnect
  <2>1. timers' = {} /\ reconnectTimer' = None /\ socket' = None /\ destroyed'
    BY <1>1, <1>3 DEF Disconnect, TimersCleared, OneCall, NoOrphanTimer
  <2>2. /\ \A k \in Sockets : ready'[k] \in {"closing", "closed"}
        /\ \A k \in Sockets : ready'[k] = "closed" <=> ready[k] = "closed"
    BY <1>1, <1>3
       DEF Disconnect, CloseSocket, OneCall, Fresh, Connected, Retrying, Only,
           NoSocket, SInv, TypeOK
  <2>3. NoSocket' \/ \E k \in Sockets : Only(k)'
    BY <1>1, <1>3, <2>2
       DEF Disconnect, OneCall, Fresh, Connected, Retrying, Only, NoSocket
  <2>4. BadgeIsTrue'
    <3>1. badge => \E k \in Sockets : ready[k] \in {"open", "closing"}
      BY <1>1 DEF OneCall, BadgeIsTrue
    <3>2. badge' = badge
      BY <1>3 DEF Disconnect
    <3>3. badge' => \E k \in Sockets : ready'[k] \in {"open", "closing"}
      BY <2>2, <3>1, <3>2
    <3>4. QED
      BY <2>2, <3>3 DEF BadgeIsTrue
  <2>5. QED
    BY <2>1, <2>2, <2>3, <2>4 DEF OneCall, Ended, NoOrphanTimer
<1>4. ASSUME NEW t \in Timers, Reconnect(t)
      PROVE  OneCall'
  <2>1. Retrying /\ ~destroyed /\ timers \ {t} = {}
    BY <1>1, <1>4
       DEF Reconnect, OneCall, Ended, Fresh, Connected, NoOrphanTimer
  <2>2. PICK k \in Sockets : Open({}, k)
    BY <1>4, <2>1 DEF Reconnect
  <2>3. QED
    BY <1>1, <1>4, <2>1, <2>2, OpenStep
       DEF Reconnect, Retrying, OneCall, SInv
<1>5. ASSUME NEW k \in Sockets, OnOpen(k)
      PROVE  OneCall'
  <2>1. Connected /\ ~destroyed /\ k = socket
    BY <1>1, <1>5
       DEF OnOpen, OneCall, Ended, Fresh, Connected, Retrying, NoSocket, Only
  <2>2. Connected' /\ destroyed' = destroyed /\ badge' = TRUE
    BY <1>5, <2>1 DEF OnOpen, Connected, Only, SInv, TypeOK
  <2>3. ready'[k] = "open"
    BY <1>5 DEF OnOpen, SInv, TypeOK
  <2>4. QED
    BY <1>1, <1>5, <2>1, <2>2, <2>3 DEF OnOpen, OneCall, NoOrphanTimer, BadgeIsTrue
<1>6. ASSUME NEW k \in Sockets, NEW withError \in BOOLEAN, OnClose(k, withError)
      PROVE  OneCall'
  <2>1. ready[k] # "closed"
    BY <1>6 DEF OnClose, Live
  <2>2. Only(k) /\ (socket = None \/ socket = k)
    BY <1>1, <2>1
       DEF OneCall, Ended, Fresh, Connected, Retrying, NoSocket, Only
  <2>3. NoSocket'
    BY <1>6, <2>2 DEF OnClose, CloseSocket, NoSocket, Only, SInv, TypeOK
  <2>4. BadgeIsTrue'
    BY <1>6, <2>3 DEF OnClose, BadgeIsTrue, NoSocket
  <2>5. CASE destroyed
    BY <1>1, <1>6, <2>3, <2>4, <2>5
       DEF OnClose, OneCall, Ended, NoOrphanTimer, NoSocket
  <2>6. CASE ~destroyed
    <3>1. Connected
      BY <1>1, <2>1, <2>6 DEF OneCall, Fresh, Retrying, NoSocket
    <3>2. PICK t \in Timers : timers' = {t} /\ reconnectTimer' = t
      BY <1>6, <2>6, <3>1 DEF OnClose, ScheduleReconnect, Connected
    <3>3. Retrying' /\ NoOrphanTimer'
      BY <1>6, <2>3, <3>1, <3>2
         DEF OnClose, Retrying, Connected, NoOrphanTimer
    <3>4. QED
      BY <1>6, <2>4, <2>6, <3>3 DEF OnClose, OneCall
  <2>7. QED
    BY <2>5, <2>6
<1>7. QED
  BY <1>2, <1>3, <1>4, <1>5, <1>6 DEF Next

LEMMA StepSInv ==
  ASSUME SInv, [Next]_vars
  PROVE  SInv'
<1>1. CASE Next
  BY <1>1, TypeStep, OneCallStep DEF SInv
<1>2. CASE UNCHANGED vars
  <2>1. TypeOK'
    BY <1>2 DEF SInv, TypeOK, vars
  <2>2. OneCall' <=> OneCall
    BY <1>2 DEF OneCall, NoOrphanTimer, BadgeIsTrue, Ended, Fresh, Connected,
                Retrying, NoSocket, Only, vars
  <2>3. QED
    BY <1>2, <2>1, <2>2 DEF SInv, vars
<1>3. QED
  BY <1>1, <1>2

LEMMA ServiceInvariant == Spec => []SInv
BY InitSInv, StepSInv, PTL DEF Spec

-----------------------------------------------------------------------------
LEMMA SInvGivesOneWay ==
  ASSUME SInv, calls <= 1
  PROVE  OneWayBack
<1> SUFFICES ASSUME calls > 0, ~destroyed
             PROVE  Cardinality(Live) + Cardinality(timers) = 1
  BY DEF OneWayBack
<1>1. \/ \E k \in Sockets : Live = {k} /\ timers = {}
      \/ Live = {} /\ timers = {reconnectTimer}
  <2>1. CASE Connected
    BY <2>1 DEF Connected, Only, Live
  <2>2. CASE Retrying
    BY <2>2 DEF Retrying, NoSocket, Live, SInv, OneCall, NoOrphanTimer
  <2>3. QED
    BY <2>1, <2>2 DEF SInv, OneCall, Fresh, TypeOK
<1>2. Cardinality({}) = 0
  BY FS_EmptySet
<1>3. \A x : Cardinality({x}) = 1
  BY FS_Singleton
<1>4. CASE \E k \in Sockets : Live = {k} /\ timers = {}
  <2>1. Cardinality(Live) = 1 /\ Cardinality(timers) = 0
    BY <1>2, <1>3, <1>4
  <2>2. QED
    BY <2>1
<1>5. CASE Live = {} /\ timers = {reconnectTimer}
  <2>1. Cardinality(Live) = 0 /\ Cardinality(timers) = 1
    BY <1>2, <1>3, <1>5
  <2>2. QED
    BY <2>1
<1>6. QED
  BY <1>1, <1>4, <1>5

\* The page keeps exactly one way back to the backend: one connection or one
\* timer, never none and never two, through any failures and retries.
THEOREM AlwaysOneWayBack == Spec => [](calls <= 1 => OneWayBack)
<1>1. SInv => (calls <= 1 => OneWayBack)
  BY SInvGivesOneWay
<1>2. QED
  BY <1>1, ServiceInvariant, PTL

\* this.reconnectTimer always names the timer that is pending, so that it can
\* be cancelled.
THEOREM TimerIsNamed == Spec => [](calls <= 1 => NoOrphanTimer)
<1>1. SInv => (calls <= 1 => NoOrphanTimer)
  BY DEF SInv, OneCall
<1>2. QED
  BY <1>1, ServiceInvariant, PTL

\* Nothing brings a service back that was told to disconnect.
THEOREM DisconnectIsPermanent == Spec => [](calls <= 1 => DisconnectIsFinal)
<1>1. SInv => (calls <= 1 => DisconnectIsFinal)
  BY DEF SInv, OneCall, Ended, DisconnectIsFinal, Live
<1>2. QED
  BY <1>1, ServiceInvariant, PTL

\* The badge says Connected while, and only while, there is a connection.
THEOREM BadgeTellsTheTruth == Spec => [](calls <= 1 => BadgeIsTrue)
<1>1. SInv => (calls <= 1 => BadgeIsTrue)
  BY DEF SInv, OneCall
<1>2. QED
  BY <1>1, ServiceInvariant, PTL
=============================================================================
