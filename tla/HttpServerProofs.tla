--------------------------- MODULE HttpServerProofs --------------------------
(***************************************************************************)
(* Proofs about HttpServer, for any set of clients and any number of       *)
(* descriptors: the type invariant, with it that a session waits under a   *)
(* timer, and that what serve_file answers was true of the file.           *)
(***************************************************************************)
EXTENDS HttpServer, TLAPS, FiniteSetTheorems

Replies == {"forbidden", "notFound", "empty", "text"}

\* All of TypeOK but the backlog.
Sessions ==
  /\ phase \in [Clients -> Waiting \cup {"away", "backlog", "answered", "ws"}]
  /\ deadline \in [Clients -> BOOLEAN]
  /\ \A c \in Clients : deadline[c] <=> phase[c] \in Waiting
  /\ \A c \in Clients : reply[c] # "none" <=> phase[c] = "writing"
  /\ reply \in [Clients -> Replies \cup {"none"}]
  /\ keep \in [Clients -> BOOLEAN]
  /\ accepting \in BOOLEAN /\ ioFailed \in BOOLEAN /\ file \in FileStates

\* The backlog holds the clients that wait in it, each at one place.
Queue ==
  /\ backlog \in Seq(Clients)
  /\ \A i, j \in 1..Len(backlog) : backlog[i] = backlog[j] => i = j
  /\ \A c \in Clients :
       phase[c] = "backlog" <=> \E i \in 1..Len(backlog) : backlog[i] = c

IInv == Sessions /\ Queue

-----------------------------------------------------------------------------
LEMMA InitIInv == Init => IInv
<1> SUFFICES ASSUME Init
             PROVE  IInv
  OBVIOUS
<1>1. Sessions
  BY DEF Init, Sessions, Waiting
<1>2. backlog \in Seq(Clients) /\ Len(backlog) = 0 /\ 1..0 = {}
  BY DEF Init
<1>3. Queue
  BY <1>2 DEF Init, Queue
<1>4. QED
  BY <1>1, <1>3 DEF IInv

\* The head of the backlog leaves it.
LEMMA AcceptStep ==
  ASSUME IInv, Accept
  PROVE  IInv'
<1> USE DEF IInv, Sessions, Queue
<1> DEFINE h == Head(backlog)
<1>1. /\ h \in Clients /\ Len(backlog) \in Nat \ {0} /\ h = backlog[1]
      /\ backlog' \in Seq(Clients) /\ Len(backlog') = Len(backlog) - 1
      /\ \A i \in 1..Len(backlog') : backlog'[i] = backlog[i + 1]
  BY DEF Accept
<1>2. /\ phase' = [phase EXCEPT ![h] = "http"]
      /\ deadline' = [deadline EXCEPT ![h] = TRUE]
      /\ UNCHANGED <<accepting, reply, keep, ioFailed, file>>
  BY DEF Accept, WaitFor
<1>3. phase[h] = "backlog"
  BY <1>1
<1>4. Sessions'
  BY <1>1, <1>2, <1>3 DEF Waiting
<1>5. \A i, j \in 1..Len(backlog') : backlog'[i] = backlog'[j] => i = j
  BY <1>1
<1>6. ASSUME NEW c \in Clients
      PROVE  phase'[c] = "backlog" <=> \E i \in 1..Len(backlog') : backlog'[i] = c
  <2>1. CASE c = h
    <3>1. \A i \in 1..Len(backlog') : i + 1 # 1 /\ i + 1 \in 1..Len(backlog)
      BY <1>1
    <3>2. \A i \in 1..Len(backlog') : backlog'[i] # h
      BY <1>1, <3>1
    <3>3. QED
      BY <1>1, <1>2, <2>1, <3>2
  <2>2. CASE c # h
    <3>1. ASSUME NEW i \in 1..Len(backlog), backlog[i] = c
          PROVE  i - 1 \in 1..Len(backlog') /\ backlog'[i - 1] = c
      BY <1>1, <2>2, <3>1
    <3>2. \A i \in 1..Len(backlog') : i + 1 \in 1..Len(backlog)
      BY <1>1
    <3>3. QED
      BY <1>1, <1>2, <2>2, <3>1, <3>2
  <2>3. QED
    BY <2>1, <2>2
<1>7. QED
  BY <1>1, <1>4, <1>5, <1>6

\* A client that is in no backlog is added to its end.
LEMMA ConnectsStep ==
  ASSUME IInv, NEW c \in Clients, Connects(c)
  PROVE  IInv'
<1> USE DEF IInv, Sessions, Queue
<1>1. /\ phase' = [phase EXCEPT ![c] = "backlog"]
      /\ keep' = [keep EXCEPT ![c] = FALSE]
      /\ phase[c] \in {"away", "answered"}
      /\ UNCHANGED <<accepting, deadline, reply, ioFailed, file>>
  BY DEF Connects
<1>2. /\ backlog' \in Seq(Clients) /\ Len(backlog') = Len(backlog) + 1
      /\ Len(backlog) \in Nat /\ backlog'[Len(backlog')] = c
      /\ \A i \in 1..Len(backlog) : backlog'[i] = backlog[i]
  BY DEF Connects
<1>3. \A i \in 1..Len(backlog) : backlog[i] # c
  BY <1>1
<1>4. Sessions'
  BY <1>1 DEF Waiting
<1>5. \A i \in 1..Len(backlog') : i \in 1..Len(backlog) \/ i = Len(backlog')
  BY <1>2
<1>6. \A i, j \in 1..Len(backlog') : backlog'[i] = backlog'[j] => i = j
  BY <1>2, <1>3, <1>5
<1>7. ASSUME NEW d \in Clients
      PROVE  phase'[d] = "backlog" <=> \E i \in 1..Len(backlog') : backlog'[i] = d
  <2>1. Len(backlog') \in 1..Len(backlog') /\ 1..Len(backlog) \subseteq 1..Len(backlog')
    BY <1>2
  <2>2. CASE d = c
    BY <1>1, <1>2, <2>1, <2>2
  <2>3. CASE d # c
    <3>1. phase'[d] = phase[d]
      BY <1>1, <2>3
    <3>2. \A i \in 1..Len(backlog') : backlog'[i] = d => i \in 1..Len(backlog)
      BY <1>2, <1>5, <2>3
    <3>3. (\E i \in 1..Len(backlog') : backlog'[i] = d)
            <=> \E i \in 1..Len(backlog) : backlog[i] = d
      <4> HIDE DEF IInv
      <4>1. ASSUME NEW i \in 1..Len(backlog'), backlog'[i] = d
            PROVE  i \in 1..Len(backlog) /\ backlog[i] = d
        BY <1>2, <3>2, <4>1
      <4>2. ASSUME NEW i \in 1..Len(backlog), backlog[i] = d
            PROVE  i \in 1..Len(backlog') /\ backlog'[i] = d
        BY <1>2, <2>1, <4>2
      <4>3. QED
        BY <4>1, <4>2
    <3>4. QED
      BY <3>1, <3>3
  <2>4. QED
    BY <2>2, <2>3
<1>8. QED
  BY <1>2, <1>4, <1>6, <1>7

\* Every other step moves a session from one phase to another, neither of
\* which is the backlog, or none.
LEMMA QueueKept ==
  ASSUME IInv, NEW c \in Clients, NEW to \in Waiting \cup {"away", "answered", "ws"},
         backlog' = backlog, phase' = [phase EXCEPT ![c] = to],
         phase[c] # "backlog"
  PROVE  Queue'
BY DEF IInv, Sessions, Queue, Waiting

LEMMA SessionStep ==
  ASSUME IInv, NEW c \in Clients,
         \/ ReadForbidden(c) \/ ReadText(c) \/ ReadThrows(c) \/ ReadNothing(c)
         \/ ReadUpgrade(c) \/ AcceptWs(c) \/ WriteDone(c)
         \/ Hangup(c) \/ Expires(c)
  PROVE  IInv'
<1> USE DEF IInv, Sessions, Waiting
<1>1. ASSUME NEW answer \in Replies, Respond(c, answer), phase[c] = "http",
             backlog' = backlog, file' \in FileStates,
             UNCHANGED <<accepting, ioFailed>>
      PROVE  IInv'
  <2>1. Sessions'
    BY <1>1 DEF Respond, WaitFor, Replies
  <2>2. QED
    BY <1>1, <2>1, QueueKept DEF Respond, WaitFor
<1>2. CASE ReadForbidden(c) \/ ReadText(c) \/ ReadNothing(c)
  BY <1>1, <1>2 DEF ReadForbidden, ReadText, ReadNothing, At, Replies
<1>3. CASE ReadThrows(c) \/ ReadUpgrade(c)
  <2>1. Sessions'
    BY <1>3 DEF ReadThrows, ReadUpgrade, At, WaitFor
  <2>2. QED
    BY <1>3, <2>1, QueueKept DEF ReadThrows, ReadUpgrade, At, WaitFor
<1>4. CASE AcceptWs(c)
  <2>1. Sessions'
    BY <1>4 DEF AcceptWs, At, WaitFor
  <2>2. QED
    BY <1>4, <2>1, QueueKept DEF AcceptWs, At, WaitFor
<1>5. CASE WriteDone(c)
  <2>1. Sessions'
    BY <1>5 DEF WriteDone, At, WaitFor
  <2>2. QED
    BY <1>5, <2>1, QueueKept DEF WriteDone, At, WaitFor
<1>6. CASE Hangup(c) \/ Expires(c)
  <2>1. Fails(c) /\ phase[c] \in Waiting \cup {"ws"}
    BY <1>6 DEF Hangup, Expires
  <2>2. Sessions'
    BY <2>1 DEF Fails, WaitFor
  <2>3. QED
    BY <2>1, <2>2, QueueKept DEF Fails, WaitFor
<1>7. QED
  BY <1>2, <1>3, <1>4, <1>5, <1>6

LEMMA InductiveInvariant == Spec => []IInv
<1>1. ASSUME IInv, AcceptFails \/ FileChanges
      PROVE  IInv'
  <2>1. /\ UNCHANGED <<backlog, phase, deadline, reply, keep, ioFailed>>
        /\ accepting' \in BOOLEAN /\ file' \in FileStates
    BY <1>1 DEF IInv, Sessions, AcceptFails, FileChanges, sessionVars
  <2>2. Sessions'
    BY <1>1, <2>1 DEF IInv, Sessions
  <2>3. Queue'
    BY <1>1, <2>1 DEF IInv, Queue
  <2>4. QED
    BY <2>2, <2>3 DEF IInv
<1>2. IInv /\ UNCHANGED vars => IInv'
  BY DEF IInv, Sessions, Queue, vars, sessionVars
<1>3. IInv /\ [Next]_vars => IInv'
  BY <1>1, <1>2, AcceptStep, ConnectsStep, SessionStep DEF Next
<1>4. QED
  BY <1>3, InitIInv, PTL DEF Spec

-----------------------------------------------------------------------------
\* The variables keep their types; a connection waits in the backlog once, and
\* no session waits for its client without a timer but an open WebSocket.
THEOREM TypeCorrect == Spec => []TypeOK
<1>1. ASSUME IInv, NEW c \in Clients
      PROVE  Cardinality({i \in DOMAIN backlog : backlog[i] = c})
               = IF phase[c] = "backlog" THEN 1 ELSE 0
  <2>1. DOMAIN backlog = 1..Len(backlog)
    BY <1>1 DEF IInv, Queue
  <2>2. CASE phase[c] = "backlog"
    <3>1. PICK i \in 1..Len(backlog) : backlog[i] = c
      BY <1>1, <2>2 DEF IInv, Queue
    <3>2. {j \in DOMAIN backlog : backlog[j] = c} = {i}
      BY <1>1, <2>1, <3>1 DEF IInv, Queue
    <3>3. QED
      BY <2>2, <3>2, FS_Singleton
  <2>3. CASE phase[c] # "backlog"
    <3>1. {j \in DOMAIN backlog : backlog[j] = c} = {}
      BY <1>1, <2>1, <2>3 DEF IInv, Queue
    <3>2. QED
      BY <2>3, <3>1, FS_EmptySet
  <2>4. QED
    BY <2>2, <2>3
<1>2. IInv => TypeOK
  BY <1>1 DEF IInv, Sessions, TypeOK, Replies
<1>3. QED
  BY <1>2, InductiveInvariant, PTL

\* What serve_file answers was true of the file at one of its two looks,
\* however the file changes in between.
THEOREM AnswersAreTrue == Spec => AnswerIsTrue
<1> DEFINE True(c) ==
      reply'[c] # reply[c] =>
        /\ reply'[c] = "notFound" => "absent" \in {file, file'}
        /\ reply'[c] = "empty" =>
             ~Spare \/ {file, file'} \cap {"absent", "empty", "locked"} # {}
<1>1. ASSUME IInv, Next, NEW c \in Clients
      PROVE  True(c)
  <2>1. ASSUME NEW d \in Clients, ReadNothing(d)
        PROVE  True(c)
    <3>1. /\ reply' = [reply EXCEPT ![d] =
                         IF file' = "absent" THEN "notFound" ELSE "empty"]
          /\ Spare => file \in {"absent", "empty", "locked"}
      BY <2>1 DEF ReadNothing, Respond
    <3>2. QED
      BY <1>1, <3>1 DEF IInv, Sessions
  <2>2. ASSUME NEW d \in Clients,
               \/ ReadForbidden(d) \/ ReadText(d) \/ WriteDone(d)
               \/ Hangup(d) \/ Expires(d)
        PROVE  True(c)
    <3>1. \E answer \in {"forbidden", "text", "none"} :
            reply' = [reply EXCEPT ![d] = answer]
      BY <2>2 DEF ReadForbidden, ReadText, WriteDone, Hangup, Expires, Fails, Respond
    <3>2. QED
      BY <1>1, <3>1 DEF IInv, Sessions
  <2>3. ASSUME UNCHANGED reply
        PROVE  True(c)
    BY <2>3
  <2>4. ASSUME NEW d \in Clients,
               ReadThrows(d) \/ ReadUpgrade(d) \/ AcceptWs(d) \/ Connects(d)
        PROVE  UNCHANGED reply
    BY <2>4 DEF ReadThrows, ReadUpgrade, AcceptWs, Connects
  <2>5. ASSUME Accept \/ AcceptFails \/ FileChanges
        PROVE  UNCHANGED reply
    BY <2>5 DEF Accept, AcceptFails, FileChanges, sessionVars
  <2>6. QED
    BY <1>1, <2>1, <2>2, <2>3, <2>4, <2>5 DEF Next
<1>2. IInv /\ [Next]_vars => [\A c \in Clients : True(c)]_vars
  BY <1>1
<1>3. QED
  BY <1>2, InductiveInvariant, PTL DEF Spec, AnswerIsTrue
=============================================================================
