-------------------------- MODULE DashboardProofs ---------------------------
(***************************************************************************)
(* Proofs about Dashboard, for any pools of sockets and timers, any length *)
(* of the charts and any number of seconds.  Seen from MetricsService a    *)
(* step of the dashboard is one of the service's or none at all, so that   *)
(* the service has one connection here too; what the chart shows and what  *)
(* is under way on that connection then form one ascending sequence.       *)
(***************************************************************************)
EXTENDS Dashboard, MetricsServiceProofs, SequenceTheorems

\* A closed socket has no session, and a socket without one nothing under way.
Wired ==
  \A k \in Sockets :
    /\ ready[k] = "closed" => link[k] = "none"
    /\ link[k] = "none" => wire[k] = <<>>

\* What is under way to k is in the order of time, later than what is shown.
WireInOrder(k) ==
  /\ \A i \in 1..Len(wire[k]) :
       history[HistoryLength] < wire[k][i] /\ wire[k][i] <= clock
  /\ \A i, j \in 1..Len(wire[k]) : i < j => wire[k][i] < wire[k][j]

Timeline ==
  /\ ChartInOrder
  /\ \A i \in 1..HistoryLength : history[i] <= clock
  /\ \A k \in Sockets : WireInOrder(k)

\* The arrow is that of the column and direction chosen last.
ArrowsShown == arrows = Arrows(sortKey, sortAsc)

DInv ==
  /\ SInv /\ DTypeOK /\ Wired /\ ArrowsShown
  /\ calls <= 1 => Timeline

-----------------------------------------------------------------------------
\* Every step is one of the service's, or leaves it alone.
LEMMA ServiceSteps == DNext => [Next]_vars
BY DEF DNext, Publish, ServerStops, ServerStarts, DConnect, DDisconnect,
       DReconnect, DClick, Register, Cut, DOnOpen, OnMessage, Closes, DOnClose,
       Next

\* A service that was started once has one live socket at most.
LEMMA OneSocket ==
  ASSUME SInv, calls <= 1, NEW k \in Sockets, ready[k] # "closed",
         NEW j \in Sockets, j # k
  PROVE  ready[j] = "closed"
BY DEF SInv, OneCall, Ended, Fresh, Connected, Retrying, NoSocket, Only

\* Sequences of numbers of seconds, put in the form the provers use.
LEMMA Sequel ==
  ASSUME NEW S
  PROVE  \A q \in Seq(S) :
           /\ Len(q) \in Nat /\ DOMAIN q = 1..Len(q)
           /\ \A i \in 1..Len(q) : q[i] \in S
           /\ \A v \in S :
                /\ Append(q, v) \in Seq(S)
                /\ Len(Append(q, v)) = Len(q) + 1
                /\ \A i \in 1..Len(q) : Append(q, v)[i] = q[i]
                /\ Append(q, v)[Len(q) + 1] = v
           /\ q # <<>> =>
                /\ Len(q) # 0 /\ Head(q) = q[1]
                /\ Tail(q) \in Seq(S) /\ Len(Tail(q)) = Len(q) - 1
                /\ \A i \in 1..(Len(q) - 1) : Tail(q)[i] = q[i + 1]
<1> SUFFICES ASSUME NEW q \in Seq(S)
             PROVE  /\ Len(q) \in Nat /\ DOMAIN q = 1..Len(q)
                    /\ \A i \in 1..Len(q) : q[i] \in S
                    /\ \A v \in S :
                         /\ Append(q, v) \in Seq(S)
                         /\ Len(Append(q, v)) = Len(q) + 1
                         /\ \A i \in 1..Len(q) : Append(q, v)[i] = q[i]
                         /\ Append(q, v)[Len(q) + 1] = v
                    /\ q # <<>> =>
                         /\ Len(q) # 0 /\ Head(q) = q[1]
                         /\ Tail(q) \in Seq(S) /\ Len(Tail(q)) = Len(q) - 1
                         /\ \A i \in 1..(Len(q) - 1) : Tail(q)[i] = q[i + 1]
  OBVIOUS
<1>1. /\ Len(q) \in Nat /\ DOMAIN q = 1..Len(q)
      /\ \A i \in 1..Len(q) : q[i] \in S
  BY LenProperties, ElementOfSeq
<1>2. ASSUME NEW v \in S
      PROVE  /\ Append(q, v) \in Seq(S)
             /\ Len(Append(q, v)) = Len(q) + 1
             /\ \A i \in 1..Len(q) : Append(q, v)[i] = q[i]
             /\ Append(q, v)[Len(q) + 1] = v
  BY AppendProperties
<1>3. ASSUME q # <<>>
      PROVE  /\ Len(q) # 0 /\ Head(q) = q[1]
             /\ Tail(q) \in Seq(S) /\ Len(Tail(q)) = Len(q) - 1
             /\ \A i \in 1..(Len(q) - 1) : Tail(q)[i] = q[i + 1]
  <2>1. Len(q) # 0
    BY <1>3, EmptySeq
  <2>2. /\ Tail(q) \in Seq(S) /\ Len(Tail(q)) = Len(q) - 1
        /\ \A i \in 1..Len(Tail(q)) : Tail(q)[i] = q[i + 1]
    BY <1>3, HeadTailProperties
  <2>3. QED
    BY <2>1, <2>2
<1>4. QED
  BY <1>1, <1>2, <1>3

\* What update() makes of a full history.
LEMMA PushedIsShift ==
  ASSUME NEW h \in [1..HistoryLength -> 0..MaxSeq], NEW v \in 0..MaxSeq
  PROVE  /\ Pushed(h, v) \in [1..HistoryLength -> 0..MaxSeq]
         /\ Len(Pushed(h, v)) = HistoryLength
         /\ \A i \in 1..HistoryLength :
              Pushed(h, v)[i] = IF i = HistoryLength THEN v ELSE h[i + 1]
<1> USE HistoryAssumption
<1> DEFINE S == 0..MaxSeq
           longer == Append(h, v)
<1>1. h \in Seq(S)
  BY SeqDef
<1> HIDE DEF S
<1>2. Len(h) = HistoryLength
  <2>1. DOMAIN h = 1..Len(h) /\ Len(h) \in Nat
    BY <1>1, Sequel
  <2>2. DOMAIN h = 1..HistoryLength
    OBVIOUS
  <2>3. QED
    BY <2>1, <2>2
<1>3. v \in S
  BY DEF S
<1>4. /\ longer \in Seq(S) /\ Len(longer) = HistoryLength + 1
      /\ \A i \in 1..HistoryLength : longer[i] = h[i]
      /\ longer[HistoryLength + 1] = v
  BY <1>1, <1>2, <1>3, Sequel
<1>5. Pushed(h, v) = Tail(longer)
  BY <1>4 DEF Pushed
<1> HIDE DEF longer
<1>6. longer # <<>>
  BY <1>4, EmptySeq
<1>7. /\ Tail(longer) \in Seq(S) /\ Len(Tail(longer)) = HistoryLength
      /\ \A i \in 1..HistoryLength : Tail(longer)[i] = longer[i + 1]
  BY <1>4, <1>6, Sequel
<1>8. Tail(longer) \in [1..HistoryLength -> 0..MaxSeq]
  BY <1>7, LenProperties DEF S
<1>9. ASSUME NEW i \in 1..HistoryLength
      PROVE  longer[i + 1] = IF i = HistoryLength THEN v ELSE h[i + 1]
  <2>1. CASE i = HistoryLength
    BY <1>4, <2>1
  <2>2. CASE i # HistoryLength
    <3>1. i + 1 \in 1..HistoryLength
      BY <2>2
    <3>2. QED
      BY <1>4, <2>2, <3>1
  <2>3. QED
    BY <2>1, <2>2
<1>10. QED
  BY <1>5, <1>7, <1>8, <1>9

-----------------------------------------------------------------------------
LEMMA InitDInv == DInit => DInv
<1> SUFFICES ASSUME DInit
             PROVE  DInv
  OBVIOUS
<1> USE HistoryAssumption, MaxSeqAssumption, KeysAssumption
<1>1. SInv
  BY InitSInv DEF DInit
<1>2. TableTypeOK /\ ArrowsShown
  BY DEF DInit, TableInit, TableTypeOK, ArrowsShown, Arrows, Arrow
<1>3. /\ wire \in [Sockets -> Seq(1..MaxSeq)]
      /\ link \in [Sockets -> {"none", "up", "cut"}]
      /\ history \in [1..HistoryLength -> 0..MaxSeq]
  BY DEF DInit
<1>4. DTypeOK
  BY <1>1, <1>2, <1>3 DEF DTypeOK, SInv, DInit
<1>5. Wired
  BY DEF DInit, Wired
<1>6. Timeline
  BY DEF DInit, Timeline, WireInOrder, ChartInOrder
<1>7. QED
  BY <1>1, <1>2, <1>4, <1>5, <1>6 DEF DInv

-----------------------------------------------------------------------------
LEMMA TypeDStep ==
  ASSUME DInv, DNext
  PROVE  DTypeOK'
<1> USE MaxSeqAssumption, KeysAssumption
<1>1. SInv'
  BY ServiceSteps, StepSInv DEF DInv
<1>2. TableTypeOK'
  <2>1. TableTypeOK
    BY DEF DInv, DTypeOK
  <2>2. ASSUME NEW key \in Keys, Click(key)
        PROVE  TableTypeOK'
    BY <2>1, <2>2 DEF TableTypeOK, Click, Arrows, Arrow
  <2>3. CASE Update
    <3>1. <<sortKey, Arrow(sortAsc)>> \in Keys \X {"sort-asc", "sort-desc"}
      BY <2>1 DEF TableTypeOK, Arrow
    <3>2. QED
      BY <2>1, <2>3, <3>1 DEF TableTypeOK, Update
  <2>4. CASE UNCHANGED tableVars
    BY <2>1, <2>4 DEF TableTypeOK, tableVars
  <2>5. QED
    BY <2>2, <2>3, <2>4
       DEF DNext, Publish, ServerStops, ServerStarts, DConnect, DDisconnect,
           DReconnect, DClick, Register, Cut, DOnOpen, OnMessage, Closes,
           DOnClose, pageVars
<1>3. serverUp' \in BOOLEAN /\ clock' \in 0..MaxSeq
  <2>1. serverUp' = serverUp \/ serverUp' = FALSE \/ serverUp' = TRUE
    BY DEF DNext, Publish, ServerStops, ServerStarts, DConnect, DDisconnect,
           DReconnect, DClick, Register, Cut, DOnOpen, OnMessage, Closes,
           DOnClose, netVars
  <2>2. serverUp' \in BOOLEAN
    BY <2>1 DEF DInv, DTypeOK
  <2>3. Publish => clock' \in 0..MaxSeq
    BY DEF Publish, DInv, DTypeOK
  <2>4. clock' = clock => clock' \in 0..MaxSeq
    BY DEF DInv, DTypeOK
  <2>5. clock' = clock \/ Publish
    BY DEF DNext, ServerStops, ServerStarts, DConnect, DDisconnect, DReconnect,
           DClick, Register, Cut, DOnOpen, OnMessage, Closes, DOnClose, netVars
  <2>6. clock' \in 0..MaxSeq
    BY <2>3, <2>4, <2>5 DEF DInv, DTypeOK
  <2>7. QED
    BY <2>2, <2>6
<1>4. link' \in [Sockets -> {"none", "up", "cut"}]
  <2>1. link \in [Sockets -> {"none", "up", "cut"}]
    BY DEF DInv, DTypeOK
  <2>2. \/ link' = link
        \/ \E k \in Sockets : \E l \in {"none", "up", "cut"} :
             link' = [link EXCEPT ![k] = l]
        \/ ServerStops
    BY DEF DNext, Publish, ServerStarts, DConnect, DDisconnect, DReconnect,
           DClick, Register, Cut, DOnOpen, OnMessage, Closes, DOnClose, netVars
  <2>3. QED
    BY <2>1, <2>2 DEF ServerStops
<1>5. wire' \in [Sockets -> Seq(1..MaxSeq)]
  <2>1. wire \in [Sockets -> Seq(1..MaxSeq)] /\ clock \in 0..MaxSeq
    BY DEF DInv, DTypeOK
  <2>2. CASE Publish
    <3>1. clock + 1 \in 1..MaxSeq
      BY <2>1, <2>2 DEF Publish
    <3>2. \A q \in Seq(1..MaxSeq) : Append(q, clock + 1) \in Seq(1..MaxSeq)
      BY <3>1
    <3>3. QED
      BY <2>1, <2>2, <3>2 DEF Publish
  <2>3. ASSUME NEW k \in Sockets, OnMessage(k)
        PROVE  wire' \in [Sockets -> Seq(1..MaxSeq)]
    <3>1. Tail(wire[k]) \in Seq(1..MaxSeq)
      BY <2>1, <2>3 DEF OnMessage
    <3>2. QED
      BY <2>1, <2>3, <3>1 DEF OnMessage
  <2>4. ASSUME NEW k \in Sockets, Closes(k)
        PROVE  wire' \in [Sockets -> Seq(1..MaxSeq)]
    BY <2>1, <2>4 DEF Closes, DOnClose
  <2>5. QED
    BY <2>1, <2>2, <2>3, <2>4
       DEF DNext, ServerStops, ServerStarts, DConnect, DDisconnect, DReconnect,
           DClick, Register, Cut, DOnOpen, netVars
<1>6. history' \in [1..HistoryLength -> 0..MaxSeq]
  <2>1. ASSUME NEW k \in Sockets, OnMessage(k)
        PROVE  history' \in [1..HistoryLength -> 0..MaxSeq]
    <3>1. Head(wire[k]) \in 0..MaxSeq
      BY <2>1 DEF OnMessage, DInv, DTypeOK
    <3>2. QED
      BY <2>1, <3>1, PushedIsShift DEF OnMessage, DInv, DTypeOK
  <2>2. QED
    BY <2>1
       DEF DInv, DTypeOK, DNext, Publish, ServerStops, ServerStarts, DConnect,
           DDisconnect, DReconnect, DClick, Register, Cut, DOnOpen, Closes,
           DOnClose, netVars, pageVars
<1>7. QED
  BY <1>1, <1>2, <1>3, <1>4, <1>5, <1>6 DEF DTypeOK, SInv

LEMMA WiredStep ==
  ASSUME DInv, DNext
  PROVE  Wired'
<1> USE DEF DInv, DTypeOK, TypeOK, Wired
<1>1. CASE Publish
  BY <1>1 DEF Publish, vars
<1>2. CASE ServerStops \/ ServerStarts
  BY <1>2 DEF ServerStops, ServerStarts, vars
<1>3. CASE DConnect
  BY <1>3 DEF DConnect, Connect, Open, netVars
<1>4. CASE DDisconnect
  BY <1>4 DEF DDisconnect, Disconnect, CloseSocket, netVars
<1>5. ASSUME NEW t \in Timers, DReconnect(t)
      PROVE  Wired'
  BY <1>5 DEF DReconnect, Reconnect, Open, netVars
<1>6. ASSUME NEW key \in Keys, DClick(key)
      PROVE  Wired'
  BY <1>6 DEF DClick, vars, netVars
<1>7. ASSUME NEW k \in Sockets, Register(k) \/ Cut(k)
      PROVE  Wired'
  BY <1>7 DEF Register, Cut, vars
<1>8. ASSUME NEW k \in Sockets, DOnOpen(k)
      PROVE  Wired'
  BY <1>8 DEF DOnOpen, OnOpen, netVars
<1>9. ASSUME NEW k \in Sockets, OnMessage(k)
      PROVE  Wired'
  BY <1>9 DEF OnMessage, vars
<1>10. ASSUME NEW k \in Sockets, NEW withError \in BOOLEAN, DOnClose(k, withError)
       PROVE  Wired'
  BY <1>10 DEF DOnClose, OnClose, CloseSocket
<1>11. QED
  BY <1>1, <1>2, <1>3, <1>4, <1>5, <1>6, <1>7, <1>8, <1>9, <1>10
     DEF DNext, Closes

\* A snapshot is published: it is later than all that is under way.
LEMMA PublishStep ==
  ASSUME DInv, Timeline, Publish
  PROVE  Timeline'
<1>1. /\ clock \in Nat /\ clock' = clock + 1 /\ history' = history
      /\ history \in [1..HistoryLength -> 0..MaxSeq]
      /\ wire \in [Sockets -> Seq(1..MaxSeq)]
  BY MaxSeqAssumption
     DEF Publish, pageVars, DInv, DTypeOK
<1>2. ChartInOrder' /\ \A i \in 1..HistoryLength : history'[i] <= clock'
  BY <1>1, MaxSeqAssumption DEF Timeline, ChartInOrder
<1>3. ASSUME NEW k \in Sockets
      PROVE  WireInOrder(k)'
  <2>1. WireInOrder(k) /\ history[HistoryLength] <= clock
        /\ history[HistoryLength] \in Nat
    BY <1>1, HistoryAssumption, MaxSeqAssumption DEF Timeline
  <2>2. CASE wire'[k] = wire[k]
    BY <1>1, <2>1, <2>2, MaxSeqAssumption DEF WireInOrder
  <2>3. CASE wire'[k] = Append(wire[k], clock + 1)
    <3> DEFINE n == Len(wire[k])
    <3>1. wire[k] \in Seq(1..MaxSeq) /\ clock + 1 \in 1..MaxSeq
      BY <1>1, MaxSeqAssumption DEF Publish
    <3>2. /\ n \in Nat /\ Len(wire'[k]) = n + 1
          /\ \A i \in 1..n : wire[k][i] \in Nat /\ wire'[k][i] = wire[k][i]
          /\ wire'[k][n + 1] = clock + 1
      <4>1. \A i \in 1..n : wire[k][i] \in 1..MaxSeq
        BY <3>1, Sequel
      <4>2. /\ n \in Nat /\ Len(Append(wire[k], clock + 1)) = n + 1
            /\ \A i \in 1..n : Append(wire[k], clock + 1)[i] = wire[k][i]
            /\ Append(wire[k], clock + 1)[n + 1] = clock + 1
        BY <3>1, Sequel
      <4>3. QED
        BY <2>3, <4>1, <4>2
    <3>3. \A i \in 1..(n + 1) : i \in 1..n \/ i = n + 1
      BY <3>2
    <3>4. \A i \in 1..n : history[HistoryLength] < wire[k][i] /\ wire[k][i] <= clock
      BY <2>1 DEF WireInOrder
    <3>5. \A i, j \in 1..n : i < j => wire[k][i] < wire[k][j]
      BY <2>1 DEF WireInOrder
    <3> HIDE DEF n
    <3>6. \A i \in 1..(n + 1) :
            history[HistoryLength] < wire'[k][i] /\ wire'[k][i] <= clock + 1
      BY <1>1, <2>1, <3>2, <3>3, <3>4
    <3>7. \A i, j \in 1..(n + 1) : i < j => wire'[k][i] < wire'[k][j]
      <4> SUFFICES ASSUME NEW i \in 1..(n + 1), NEW j \in 1..(n + 1), i < j
                   PROVE  wire'[k][i] < wire'[k][j]
        OBVIOUS
      <4>1. i \in 1..n
        BY <3>2
      <4>2. CASE j \in 1..n
        BY <3>2, <3>5, <4>1, <4>2
      <4>3. CASE j = n + 1
        BY <1>1, <3>2, <3>4, <4>1, <4>3
      <4>4. QED
        BY <3>3, <4>2, <4>3
    <3>8. QED
      BY <1>1, <3>2, <3>6, <3>7 DEF WireInOrder
  <2>4. QED
    BY <1>1, <2>2, <2>3 DEF Publish
<1>4. QED
  BY <1>2, <1>3 DEF Timeline

\* A message: the first that is under way becomes the last that is shown.
LEMMA MessageStep ==
  ASSUME DInv, Timeline, calls <= 1, NEW k \in Sockets, OnMessage(k)
  PROVE  Timeline'
<1>1. /\ clock \in Nat /\ clock' = clock
      /\ history \in [1..HistoryLength -> 0..MaxSeq]
      /\ wire \in [Sockets -> Seq(1..MaxSeq)]
  BY MaxSeqAssumption DEF OnMessage, DInv, DTypeOK
<1>2. /\ wire[k] \in Seq(1..MaxSeq) /\ wire[k] # <<>>
      /\ wire'[k] = Tail(wire[k]) /\ history' = Pushed(history, wire[k][1])
  BY <1>1, Sequel DEF OnMessage
<1>3. /\ Len(wire[k]) \in Nat \ {0} /\ wire[k][1] \in 1..MaxSeq
      /\ \A i \in 1..Len(wire[k]) : wire[k][i] \in Nat
  <2>1. /\ Len(wire[k]) \in Nat /\ Len(wire[k]) # 0
        /\ \A i \in 1..Len(wire[k]) : wire[k][i] \in 1..MaxSeq
    BY <1>2, Sequel
  <2>2. QED
    BY <2>1
<1>4. /\ Len(wire'[k]) = Len(wire[k]) - 1
      /\ \A i \in 1..(Len(wire[k]) - 1) : wire'[k][i] = wire[k][i + 1]
  BY <1>2, Sequel
<1>5. /\ Len(history') = HistoryLength
      /\ \A i \in 1..HistoryLength :
           history'[i] = IF i = HistoryLength THEN wire[k][1] ELSE history[i + 1]
  BY <1>1, <1>2, <1>3, PushedIsShift, MaxSeqAssumption
<1>6. /\ history[HistoryLength] < wire[k][1] /\ wire[k][1] <= clock
      /\ \A i \in 1..HistoryLength : history[i] \in Nat /\ history[i] <= clock
      /\ \A i, j \in 1..HistoryLength :
           i < j /\ history[i] # 0 => history[i] < history[j]
  BY <1>1, <1>3, MaxSeqAssumption DEF Timeline, ChartInOrder, WireInOrder
<1>7. \A i \in 1..HistoryLength : history'[i] \in Nat /\ history'[i] <= clock'
  BY <1>1, <1>3, <1>5, <1>6
<1>8. \A i, j \in 1..HistoryLength :
        i < j /\ history'[i] # 0 => history'[i] < history'[j]
  <2> SUFFICES ASSUME NEW i \in 1..HistoryLength, NEW j \in 1..HistoryLength,
                      i < j, history'[i] # 0
               PROVE  history'[i] < history'[j]
    OBVIOUS
  <2>1. i + 1 \in 1..HistoryLength /\ history'[i] = history[i + 1]
    BY <1>5, HistoryAssumption
  <2>2. CASE j = HistoryLength
    <3>1. history'[j] = wire[k][1]
      BY <1>5, <2>2
    <3>2. history[i + 1] <= history[HistoryLength]
      BY <1>6, <2>1, HistoryAssumption
    <3>3. QED
      BY <1>3, <1>6, <2>1, <3>1, <3>2, HistoryAssumption
  <2>3. CASE j # HistoryLength
    <3>1. j + 1 \in 1..HistoryLength /\ history'[j] = history[j + 1]
      BY <1>5, <2>3, HistoryAssumption
    <3>2. QED
      BY <1>6, <2>1, <3>1
  <2>4. QED
    BY <2>2, <2>3
<1>9. WireInOrder(k)'
  <2>1. history'[HistoryLength] = wire[k][1]
    BY <1>5, HistoryAssumption
  <2>2. \A i, j \in 1..Len(wire[k]) : i < j => wire[k][i] < wire[k][j]
    BY DEF Timeline, WireInOrder
  <2>3. \A i \in 1..Len(wire[k]) : wire[k][i] <= clock
    BY DEF Timeline, WireInOrder
  <2>4. \A i \in 1..(Len(wire[k]) - 1) : i + 1 \in 1..Len(wire[k]) /\ 1 < i + 1
    BY <1>3
  <2>5. \A i \in 1..Len(wire'[k]) :
          history'[HistoryLength] < wire'[k][i] /\ wire'[k][i] <= clock'
    <3> SUFFICES ASSUME NEW i \in 1..Len(wire'[k])
                 PROVE  history'[HistoryLength] < wire'[k][i] /\ wire'[k][i] <= clock'
      OBVIOUS
    <3>1. /\ wire'[k][i] = wire[k][i + 1]
          /\ 1 \in 1..Len(wire[k]) /\ i + 1 \in 1..Len(wire[k]) /\ 1 < i + 1
      BY <1>3, <1>4, <2>4
    <3>2. wire[k][1] < wire[k][i + 1] /\ wire[k][i + 1] <= clock
      BY <2>2, <2>3, <3>1
    <3>3. QED
      BY <1>1, <2>1, <3>1, <3>2
  <2>6. \A i, j \in 1..Len(wire'[k]) : i < j => wire'[k][i] < wire'[k][j]
    BY <1>3, <1>4, <2>2, <2>4
  <2>7. QED
    BY <2>5, <2>6 DEF WireInOrder
<1>10. ASSUME NEW j \in Sockets, j # k
       PROVE  WireInOrder(j)'
  <2>1. ready[j] = "closed"
    BY <1>10, OneSocket DEF OnMessage, DInv
  <2>2. wire'[j] = <<>>
    BY <1>1, <1>10, <2>1 DEF OnMessage, DInv, Wired
  <2>3. QED
    BY <2>2 DEF WireInOrder
<1>11. QED
  BY <1>5, <1>7, <1>8, <1>9, <1>10 DEF Timeline, ChartInOrder

LEMMA TimelineStep ==
  ASSUME DInv, Timeline, calls <= 1, DNext
  PROVE  Timeline'
<1>1. CASE Publish
  BY <1>1, PublishStep
<1>2. ASSUME NEW k \in Sockets, OnMessage(k)
      PROVE  Timeline'
  BY <1>2, MessageStep
<1>3. ASSUME NEW k \in Sockets, Closes(k)
      PROVE  Timeline'
  <2>1. history' = history /\ clock' = clock
    BY <1>3 DEF Closes, DOnClose, pageVars
  <2>2. \A j \in Sockets : wire'[j] = wire[j] \/ wire'[j] = <<>>
    BY <1>3 DEF Closes, DOnClose, DInv, DTypeOK
  <2>3. QED
    BY <2>1, <2>2 DEF Timeline, ChartInOrder, WireInOrder
<1>4. CASE history' = history /\ clock' = clock /\ wire' = wire
  BY <1>4 DEF Timeline, ChartInOrder, WireInOrder
<1>5. QED
  BY <1>1, <1>2, <1>3, <1>4
     DEF DNext, ServerStops, ServerStarts, DConnect, DDisconnect, DReconnect,
         DClick, Register, Cut, DOnOpen, netVars, pageVars

LEMMA StepDInv ==
  ASSUME DInv, DNext
  PROVE  DInv'
<1>1. SInv'
  BY ServiceSteps, StepSInv DEF DInv
<1>2. ArrowsShown'
  BY DEF DInv, DNext, Publish, ServerStops, ServerStarts, DConnect,
         DDisconnect, DReconnect, DClick, Register, Cut, DOnOpen, OnMessage,
         Closes, DOnClose, netVars, pageVars, tableVars, ArrowsShown, Click,
         Update, Arrows, Arrow
<1>3. calls' <= 1 => calls <= 1
  <2>1. calls' \in {calls, calls + 1}
    BY ServiceSteps
       DEF Next, Connect, Disconnect, Reconnect, OnOpen, OnClose, vars
  <2>2. QED
    BY <2>1, MaxCallsAssumption DEF DInv, SInv, TypeOK
<1>4. QED
  BY <1>1, <1>2, <1>3, TypeDStep, WiredStep, TimelineStep DEF DInv

LEMMA DashboardInvariant == DSpec => []DInv
<1>1. DInv /\ UNCHANGED allVars => DInv'
  <2> SUFFICES ASSUME DInv, UNCHANGED allVars
               PROVE  DInv'
    OBVIOUS
  <2>1. SInv'
    BY StepSInv DEF DInv, allVars
  <2>2. DTypeOK' /\ Wired' /\ ArrowsShown'
    BY DEF DInv, DTypeOK, TypeOK, TableTypeOK, Wired, ArrowsShown, Arrows, Arrow,
           allVars, vars, netVars, pageVars, tableVars
  <2>3. Timeline => Timeline'
    BY DEF Timeline, ChartInOrder, WireInOrder, allVars, netVars, pageVars
  <2>4. calls' = calls
    BY DEF allVars, vars
  <2>5. QED
    BY <2>1, <2>2, <2>3, <2>4 DEF DInv
<1>2. DInv /\ [DNext]_allVars => DInv'
  BY <1>1, StepDInv
<1>3. QED
  BY <1>2, InitDInv, PTL DEF DSpec

-----------------------------------------------------------------------------
\* The page's variables keep their types.
THEOREM DashboardTypeCorrect == DSpec => []DTypeOK
<1>1. DInv => DTypeOK
  BY DEF DInv
<1>2. QED
  BY <1>1, DashboardInvariant, PTL

\* On the page the service behaves as MetricsService says, whatever the
\* backend, the network and the user do.
THEOREM DashboardUsesService == DSpec => Spec
<1>1. DInit => Init
  BY DEF DInit
<1>2. [DNext]_allVars => [Next]_vars
  BY ServiceSteps DEF allVars
<1>3. QED
  BY <1>1, <1>2, PTL DEF DSpec, Spec

\* No second is drawn twice or out of order, across any outages.
THEOREM ChartStaysInOrder == DSpec => [](calls <= 1 => ChartInOrder)
<1>1. DInv => (calls <= 1 => ChartInOrder)
  BY DEF DInv, Timeline
<1>2. QED
  BY <1>1, DashboardInvariant, PTL

\* Every snapshot puts the rows in the order the arrow announces.
THEOREM SnapshotsAreSorted == DSpec => SnapshotsFollowArrows
<1>1. ASSUME DInv, [DNext]_allVars
      PROVE  [history' # history => RowsFollowArrows']_allVars
  <2> SUFFICES ASSUME history' # history, DNext
               PROVE  RowsFollowArrows'
    BY <1>1
  <2>1. PICK k \in Sockets : OnMessage(k)
    BY DEF DNext, Publish, ServerStops, ServerStarts, DConnect, DDisconnect,
           DReconnect, DClick, Register, Cut, DOnOpen, Closes, DOnClose,
           netVars, pageVars
  <2>2. /\ drawn' = {<<sortKey, Arrow(sortAsc)>>}
        /\ arrows' = Arrows(sortKey, sortAsc)
    BY <1>1, <2>1 DEF OnMessage, Update, DInv, ArrowsShown
  <2>3. QED
    BY <2>2 DEF RowsFollowArrows, Arrows
<1>2. QED
  BY <1>1, DashboardInvariant, PTL DEF DSpec, SnapshotsFollowArrows
=============================================================================
