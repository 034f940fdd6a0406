----------------------- MODULE WebSocketServerProofs ------------------------
(***************************************************************************)
(* Proofs about WebSocketServer, for every set of sessions and every bound *)
(* on the number of broadcasts: its invariants, and that its two threads,  *)
(* its mutex and its queues implement the ordered fan-out of FanOut.       *)
(***************************************************************************)
EXTENDS WebSocketServer, SequenceTheorems, TLAPS

-----------------------------------------------------------------------------
(***************************************************************************)
(* The inductive invariant, in named parts.                                *)
(***************************************************************************)

\* What the main thread's place in its loop says of its variables.
MainInv ==
  /\ mainPc = "collected" => seq < MaxSeq
  /\ ~MutexFree => seq > 0
  /\ MutexFree => todo = {}
  /\ mainPc = "sent" <=> sp # None
  /\ sp # None => sp \in registry
  /\ todo \subseteq registry

\* A handler blocked on the registry mutex is one session's.
IoInv ==
  /\ ioPc \in {"add", "remove"} <=> ioSession # None
  /\ ioPc = "add" => phase[ioSession] = "accepted"

\* A registered session waits for its next message, or is on its way out.
LifeInv ==
  \A s \in registry :
    phase[s] = "reading" \/ (ioPc = "remove" /\ ioSession = s)

Control == MainInv /\ IoInv /\ LifeInv

\* A session that never registered has seen no snapshot; one still on its
\* way to the registry has never registered.
FreshInv ==
  \A s \in Sessions :
    /\ phase[s] \notin {"reading", "done"} => first[s] = 0
    /\ first[s] = 0 =>
         /\ s \notin registry
         /\ got[s] = <<>> /\ queue[s] = <<>>
         /\ posted[s] = <<>> /\ inflight[s] = <<>>

-----------------------------------------------------------------------------
(***************************************************************************)
(* Type correctness and control.                                           *)
(***************************************************************************)

LEMMA InitTypeOK == Init => TypeOK
<1>1. <<>> \in Seq(Snapshots)
  BY EmptySeq
<1> SUFFICES ASSUME Init
             PROVE  TypeOK
  OBVIOUS
<1>2. 0 \in 0..MaxSeq /\ 0 \in 0..MaxSeq + 1
  BY MaxSeqAssumption
<1>3. /\ posted \in [Sessions -> Seq(Snapshots)]
      /\ queue \in [Sessions -> Seq(Snapshots)]
      /\ inflight \in [Sessions -> Seq(Snapshots)]
      /\ got \in [Sessions -> Seq(Snapshots)]
  BY <1>1 DEF Init
<1>4. first \in [Sessions -> 0..MaxSeq + 1] /\ seq \in 0..MaxSeq
  BY <1>2 DEF Init
<1>5. /\ phase \in [Sessions -> Pending \cup {"new", "accepted", "done"}]
      /\ up \in [Sessions -> BOOLEAN]
  BY DEF Init
<1>6. QED
  BY <1>3, <1>4, <1>5 DEF Init, TypeOK

LEMMA InitControl == Init => Control
BY NoneAssumption
   DEF Init, Control, MainInv, IoInv, LifeInv, MutexFree

LEMMA InitFresh == Init => FreshInv /\ OneWriteInFlight /\ NoStalledQueue
BY DEF Init, FreshInv, OneWriteInFlight, NoStalledQueue

\* Every step keeps the control part: no sequence matters to it, but that
\* broadcast() finds only live sessions in the registry.
LEMMA ControlStep ==
  ASSUME TypeOK, Control, [Next]_vars
  PROVE  Control'
<1> USE NoneAssumption
    DEF TypeOK, Control, MainInv, IoInv, LifeInv, MutexFree,
        mainVars, ioVars, sessVars
<1>1. CASE UNCHANGED vars
  BY <1>1 DEF vars
<1>2. CASE Collect \/ CollectFails \/ BroadcastLock \/ BroadcastRelease
           \/ BroadcastUnlock \/ Wake \/ Stop \/ Join \/ SignalHandler
  BY <1>2, MaxSeqAssumption
     DEF Collect, CollectFails, BroadcastLock, BroadcastRelease,
         BroadcastUnlock, Wake, Stop, Join, SignalHandler
<1>3. ASSUME NEW s \in Sessions, BroadcastSend(s)
      PROVE  Control'
  <2>1. Alive(s)
    BY <1>3 DEF BroadcastSend, Alive, IoHolds, Pending
  <2>2. QED
    BY <1>3, <2>1 DEF BroadcastSend
<1>4. ASSUME NEW s \in Sessions,
             DoAccept(s) \/ OnReadHttpError(s) \/ OnReadHttpUpgrade(s)
             \/ OnReadHttpFile(s) \/ OnReadHttpThrows(s) \/ OnWriteHttp(s)
             \/ OnAcceptWsError(s) \/ OnAcceptWs(s)
      PROVE  Control'
  BY <1>4
     DEF DoAccept, OnReadHttpError, OnReadHttpUpgrade, OnReadHttpFile,
         OnReadHttpThrows, OnWriteHttp, OnAcceptWsError, OnAcceptWs,
         Moves, IoReady
<1>5. ASSUME NEW s \in Sessions, RegistryAdd(s)
      PROVE  Control'
  BY <1>5 DEF RegistryAdd
<1>6. ASSUME NEW s \in Sessions,
             RunSend(s) \/ OnWsWrite(s) \/ ConnectionEnds(s)
      PROVE  Control'
  BY <1>6 DEF RunSend, OnWsWrite, ConnectionEnds
<1>7. ASSUME NEW s \in Sessions, OnWsWriteError(s) \/ OnWsReadError(s)
      PROVE  Control'
  BY <1>7 DEF OnWsWriteError, OnWsReadError, Moves, IoReady
<1>8. ASSUME NEW s \in Sessions, RegistryRemove(s)
      PROVE  Control'
  BY <1>8 DEF RegistryRemove
<1>9. CASE IoReturn
  BY <1>9 DEF IoReturn
<1>10. QED
  BY <1>1, <1>2, <1>3, <1>4, <1>5, <1>6, <1>7, <1>8, <1>9
     DEF Next, MainThread, IoThread, Handler, Environment, Exited

-----------------------------------------------------------------------------
(***************************************************************************)
(* The queue and the write under way.                                      *)
(***************************************************************************)

\* Popping the only write under way leaves none.
LEMMA TailOfSingleton ==
  ASSUME NEW S, NEW q \in Seq(S), Len(q) = 1
  PROVE  q # <<>> /\ Tail(q) = <<>>
<1>1. q # <<>>
  BY EmptySeq
<1>2. Tail(q) \in Seq(S) /\ Len(Tail(q)) = 0
  BY <1>1, HeadTailProperties
<1>3. QED
  BY <1>1, <1>2, EmptySeq

\* A write started when none is under way is under way.
LEMMA StartWrite ==
  ASSUME NEW S, NEW e \in S
  PROVE  <<>> \o <<e>> = <<e>> /\ <<>> \o <<e>> # <<>>
<1>1. <<e>> \in Seq(S) /\ <<e>> # <<>>
  OBVIOUS
<1>2. QED
  BY <1>1, ConcatEmptySeq

\* What the queue operations of send() and on_ws_write do to sequences.
LEMMA QueueOps ==
  ASSUME NEW S, NEW q \in Seq(S), NEW e \in S
  PROVE  /\ Append(q, e) \in Seq(S) /\ Append(q, e) # <<>>
         /\ q = <<>> => Append(q, e)[1] = e
         /\ q # <<>> => Append(q, e)[1] = q[1]
         /\ q # <<>> => Head(q) = q[1] /\ Head(q) \in S /\ Tail(q) \in Seq(S)
         /\ <<e>> \in Seq(S) /\ <<e>> # <<>> /\ Len(<<e>>) = 1 /\ <<e>>[1] = e
<1>1. /\ Append(q, e) \in Seq(S) /\ Append(q, e) # <<>>
      /\ q = <<>> => Append(q, e)[1] = e
      /\ q # <<>> => Append(q, e)[1] = q[1]
  BY AppendProperties, LenProperties, EmptySeq
<1>2. q # <<>> => Head(q) = q[1] /\ Head(q) \in S /\ Tail(q) \in Seq(S)
  BY HeadTailProperties
<1>3. <<e>> \in Seq(S) /\ <<e>> # <<>> /\ Len(<<e>>) = 1 /\ <<e>>[1] = e
  OBVIOUS
<1>4. QED
  BY <1>1, <1>2, <1>3

\* One write at a time, of the queue's front, whatever send() closures and
\* write completions come in whatever order.
LEMMA WriteStep ==
  ASSUME TypeOK, OneWriteInFlight, [Next]_vars
  PROVE  OneWriteInFlight'
<1> USE DEF OneWriteInFlight
<1>1. CASE UNCHANGED <<queue, inflight>>
  BY <1>1
<1>2. ASSUME NEW s \in Sessions, RunSend(s)
      PROVE  OneWriteInFlight'
  <2> DEFINE msg == Head(posted[s])
  <2>1. msg \in Snapshots
    BY <1>2, QueueOps DEF RunSend, TypeOK
  <2>2. CASE queue[s] = <<>>
    <3>1. inflight[s] = <<>>
      BY <2>2
    <3>2. inflight'[s] = <<msg>>
      BY <1>2, <2>2, <3>1 DEF RunSend, WriteIfEmpty, TypeOK
    <3>3. queue'[s] # <<>> /\ queue'[s][1] = msg
      BY <1>2, <2>1, <2>2, QueueOps DEF RunSend, TypeOK
    <3>4. Len(<<msg>>) = 1 /\ <<msg>>[1] = msg
      BY <2>1, QueueOps
    <3>5. \A t \in Sessions \ {s} :
            inflight'[t] = inflight[t] /\ queue'[t] = queue[t]
      BY <1>2 DEF RunSend, TypeOK
    <3>6. QED
      BY <3>2, <3>3, <3>4, <3>5
  <2>3. CASE queue[s] # <<>>
    <3>1. inflight' = inflight
      <4>1. inflight'[s] = inflight[s] \o <<>>
        BY <1>2, <2>3 DEF RunSend, WriteIfEmpty, TypeOK
      <4>2. inflight[s] \o <<>> = inflight[s]
        BY ConcatEmptySeq DEF TypeOK
      <4>3. QED
        BY <1>2, <4>1, <4>2 DEF RunSend, TypeOK
    <3>2. queue'[s] # <<>> /\ queue'[s][1] = queue[s][1]
      BY <1>2, <2>1, <2>3, QueueOps DEF RunSend, TypeOK
    <3>3. \A t \in Sessions \ {s} : queue'[t] = queue[t]
      BY <1>2 DEF RunSend, TypeOK
    <3>4. QED
      BY <3>1, <3>2, <3>3
  <2>4. QED
    BY <2>2, <2>3
<1>3. ASSUME NEW s \in Sessions, OnWsWrite(s)
      PROVE  OneWriteInFlight'
  <2> DEFINE rest == Tail(queue[s])
  <2>1. queue[s] # <<>> /\ Len(inflight[s]) = 1 /\ inflight[s] # <<>>
    BY <1>3 DEF OnWsWrite
  <2>2. rest \in Seq(Snapshots) /\ Tail(inflight[s]) = <<>>
    BY <2>1, HeadTailProperties, TailOfSingleton DEF TypeOK
  <2>3. queue'[s] = rest
    BY <1>3 DEF OnWsWrite, TypeOK
  <2>4. inflight'[s] = WriteFront(rest)
    <3>1. inflight'[s] = Tail(inflight[s]) \o WriteFront(rest)
      BY <1>3 DEF OnWsWrite, TypeOK
    <3>2. WriteFront(rest) \in Seq(Snapshots)
      BY <2>2, QueueOps DEF WriteFront
    <3>3. QED
      BY <2>2, <3>1, <3>2, ConcatEmptySeq
  <2>5. inflight'[s] # <<>> =>
          Len(inflight'[s]) = 1 /\ rest # <<>> /\ inflight'[s][1] = rest[1]
    BY <2>2, <2>4, QueueOps DEF WriteFront
  <2>6. \A t \in Sessions \ {s} :
          inflight'[t] = inflight[t] /\ queue'[t] = queue[t]
    BY <1>3 DEF OnWsWrite, TypeOK
  <2>7. QED
    BY <2>3, <2>5, <2>6
<1>4. ASSUME NEW s \in Sessions, OnWsWriteError(s)
      PROVE  OneWriteInFlight'
  <2>1. inflight'[s] = <<>>
    <3>1. Len(inflight[s]) = 1
      BY <1>4 DEF OnWsWriteError
    <3>2. inflight'[s] = Tail(inflight[s])
      BY <1>4 DEF OnWsWriteError, TypeOK
    <3>3. QED
      BY <3>1, <3>2, TailOfSingleton DEF TypeOK
  <2>2. QED
    BY <1>4, <2>1 DEF OnWsWriteError, TypeOK
<1>5. QED
  BY <1>1, <1>2, <1>3, <1>4
     DEF Next, MainThread, IoThread, Handler, Environment, Exited,
         Collect, CollectFails, BroadcastLock, BroadcastSend,
         BroadcastRelease, BroadcastUnlock, Wake, Stop, Join, SignalHandler,
         DoAccept, OnReadHttpError, OnReadHttpUpgrade, OnReadHttpFile,
         OnReadHttpThrows, OnWriteHttp, OnAcceptWsError, OnAcceptWs, Moves,
         RegistryAdd, OnWsReadError, RegistryRemove, IoReturn,
         ConnectionEnds, vars, sessVars

\* A queue is left without a write only by the error that ends its connection.
LEMMA QueueStep ==
  ASSUME TypeOK, OneWriteInFlight, NoStalledQueue, [Next]_vars
  PROVE  NoStalledQueue'
<1> USE DEF NoStalledQueue
<1>1. CASE UNCHANGED <<queue, inflight, up>>
  BY <1>1
<1>2. ASSUME NEW s \in Sessions, RunSend(s)
      PROVE  NoStalledQueue'
  <2> DEFINE msg == Head(posted[s])
  <2>1. inflight'[s] = inflight[s] \o WriteIfEmpty(queue[s], msg)
    BY <1>2 DEF RunSend, TypeOK
  <2>2. /\ \A t \in Sessions \ {s} :
             inflight'[t] = inflight[t] /\ queue'[t] = queue[t]
        /\ up' = up
    BY <1>2 DEF RunSend, TypeOK
  <2>3. CASE queue[s] = <<>>
    <3>1. msg \in Snapshots
      BY <1>2, HeadTailProperties DEF RunSend, TypeOK
    <3>2. inflight'[s] = <<>> \o <<msg>>
      BY <2>1, <2>3 DEF WriteIfEmpty, OneWriteInFlight
    <3>3. inflight'[s] # <<>>
      BY <3>1, <3>2, StartWrite
    <3>4. QED
      BY <2>2, <3>3
  <2>4. CASE queue[s] # <<>>
    <3>1. inflight'[s] = inflight[s]
      BY <2>1, <2>4, ConcatEmptySeq DEF WriteIfEmpty, TypeOK
    <3>2. QED
      BY <2>2, <2>4, <3>1
  <2>5. QED
    BY <2>3, <2>4
<1>3. ASSUME NEW s \in Sessions, OnWsWrite(s)
      PROVE  NoStalledQueue'
  <2> DEFINE rest == Tail(queue[s])
  <2>1. /\ queue'[s] = rest
        /\ inflight'[s] = Tail(inflight[s]) \o WriteFront(rest)
        /\ \A t \in Sessions \ {s} :
             inflight'[t] = inflight[t] /\ queue'[t] = queue[t]
        /\ up' = up
    BY <1>3 DEF OnWsWrite, TypeOK
  <2>2. Tail(inflight[s]) = <<>>
    BY <1>3, TailOfSingleton DEF OnWsWrite, OneWriteInFlight, TypeOK
  <2>3. ASSUME rest # <<>>
        PROVE  inflight'[s] # <<>>
    <3>1. Head(rest) \in Snapshots
      <4>1. queue[s] # <<>>
        BY <1>3 DEF OnWsWrite, OneWriteInFlight
      <4>2. QED
        BY <2>3, <4>1, HeadTailProperties DEF TypeOK
    <3>2. inflight'[s] = <<>> \o <<Head(rest)>>
      BY <2>1, <2>2, <2>3 DEF WriteFront
    <3>3. QED
      BY <3>1, <3>2, StartWrite
  <2>4. queue'[s] # <<>> => inflight'[s] # <<>>
    BY <2>1, <2>3
  <2>5. QED
    BY <2>1, <2>4
<1>4. ASSUME NEW s \in Sessions, OnWsWriteError(s) \/ ConnectionEnds(s)
      PROVE  NoStalledQueue'
  BY <1>4 DEF OnWsWriteError, ConnectionEnds, TypeOK
<1>5. QED
  BY <1>1, <1>2, <1>3, <1>4
     DEF Next, MainThread, IoThread, Handler, Environment, Exited,
         Collect, CollectFails, BroadcastLock, BroadcastSend,
         BroadcastRelease, BroadcastUnlock, Wake, Stop, Join, SignalHandler,
         DoAccept, OnReadHttpError, OnReadHttpUpgrade, OnReadHttpFile,
         OnReadHttpThrows, OnWriteHttp, OnAcceptWsError, OnAcceptWs, Moves,
         RegistryAdd, OnWsReadError, RegistryRemove, IoReturn,
         vars, sessVars

-----------------------------------------------------------------------------
(***************************************************************************)
(* Types.                                                                  *)
(***************************************************************************)

\* The variables stay in their types; that the queue has a front when a
\* write ends is what OneWriteInFlight is needed for.
LEMMA TypeStep ==
  ASSUME TypeOK, Control, OneWriteInFlight, [Next]_vars
  PROVE  TypeOK'
<1> USE DEF TypeOK, mainVars, ioVars, sessVars
<1>1. CASE UNCHANGED vars
  BY <1>1 DEF vars
<1>2. CASE Collect \/ CollectFails \/ BroadcastRelease \/ BroadcastUnlock
           \/ Wake \/ Stop \/ Join \/ SignalHandler \/ IoReturn
  BY <1>2
     DEF Collect, CollectFails, BroadcastRelease, BroadcastUnlock, Wake,
         Stop, Join, SignalHandler, IoReturn
<1>3. CASE BroadcastLock
  <2>1. seq' \in 0..MaxSeq
    BY <1>3, MaxSeqAssumption DEF BroadcastLock, Control, MainInv
  <2>2. QED
    BY <1>3, <2>1 DEF BroadcastLock
<1>4. ASSUME NEW s \in Sessions, BroadcastSend(s)
      PROVE  TypeOK'
  <2>1. seq \in Snapshots
    BY <1>4, MaxSeqAssumption
       DEF BroadcastSend, Control, MainInv, MutexFree, Snapshots
  <2>2. Append(posted[s], seq) \in Seq(Snapshots)
    BY <2>1, AppendProperties
  <2>3. posted' \in [Sessions -> Seq(Snapshots)]
    BY <1>4, <2>2 DEF BroadcastSend
  <2>4. QED
    BY <1>4, <2>3 DEF BroadcastSend
<1>5. ASSUME NEW s \in Sessions,
             DoAccept(s) \/ OnReadHttpError(s) \/ OnReadHttpUpgrade(s)
             \/ OnReadHttpFile(s) \/ OnReadHttpThrows(s) \/ OnWriteHttp(s)
             \/ OnAcceptWsError(s) \/ OnAcceptWs(s) \/ OnWsReadError(s)
             \/ RegistryRemove(s) \/ ConnectionEnds(s)
      PROVE  TypeOK'
  <2>1. CASE DoAccept(s) \/ OnReadHttpError(s) \/ OnReadHttpUpgrade(s)
    BY <2>1 DEF DoAccept, OnReadHttpError, OnReadHttpUpgrade, Moves, Pending
  <2>2. CASE OnReadHttpFile(s) \/ OnReadHttpThrows(s) \/ OnWriteHttp(s)
    BY <2>2 DEF OnReadHttpFile, OnReadHttpThrows, OnWriteHttp, Moves, Pending
  <2>3. CASE OnAcceptWsError(s) \/ OnAcceptWs(s) \/ OnWsReadError(s)
    BY <2>3 DEF OnAcceptWsError, OnAcceptWs, OnWsReadError, Moves, Pending
  <2>4. CASE RegistryRemove(s) \/ ConnectionEnds(s)
    BY <2>4 DEF RegistryRemove, ConnectionEnds, Moves, Pending
  <2>5. QED
    BY <1>5, <2>1, <2>2, <2>3, <2>4
<1>6. ASSUME NEW s \in Sessions, RegistryAdd(s)
      PROVE  TypeOK'
  <2>1. seq + 1 \in 0..MaxSeq + 1
    BY MaxSeqAssumption
  <2>2. QED
    BY <1>6, <2>1 DEF RegistryAdd, Pending
<1>7. ASSUME NEW s \in Sessions, RunSend(s)
      PROVE  TypeOK'
  <2> DEFINE msg == Head(posted[s])
  <2>1. msg \in Snapshots /\ Tail(posted[s]) \in Seq(Snapshots)
    BY <1>7, HeadTailProperties DEF RunSend
  <2>2. Append(queue[s], msg) \in Seq(Snapshots)
    BY <2>1, AppendProperties
  <2>3. WriteIfEmpty(queue[s], msg) \in Seq(Snapshots)
    BY <2>1 DEF WriteIfEmpty
  <2>4. inflight[s] \o WriteIfEmpty(queue[s], msg) \in Seq(Snapshots)
    BY <2>3, ConcatProperties
  <2>5. QED
    BY <1>7, <2>1, <2>2, <2>4 DEF RunSend
<1>8. ASSUME NEW s \in Sessions, OnWsWrite(s)
      PROVE  TypeOK'
  <2> DEFINE rest == Tail(queue[s])
  <2>1. /\ Head(inflight[s]) \in Snapshots
        /\ Tail(inflight[s]) \in Seq(Snapshots)
        /\ rest \in Seq(Snapshots)
    <3>1. /\ inflight[s] \in Seq(Snapshots) /\ inflight[s] # <<>>
          /\ queue[s] \in Seq(Snapshots) /\ queue[s] # <<>>
      BY <1>8 DEF OnWsWrite, OneWriteInFlight
    <3>2. Head(inflight[s]) \in Snapshots /\ Tail(inflight[s]) \in Seq(Snapshots)
      BY <3>1, HeadTailProperties
    <3>3. Tail(queue[s]) \in Seq(Snapshots)
      BY <3>1, HeadTailProperties
    <3>4. QED
      BY <3>2, <3>3
  <2>2. WriteFront(rest) \in Seq(Snapshots)
    BY <2>1, HeadTailProperties DEF WriteFront
  <2>3. Tail(inflight[s]) \o WriteFront(rest) \in Seq(Snapshots)
    BY <2>1, <2>2, ConcatProperties
  <2>4. Append(got[s], Head(inflight[s])) \in Seq(Snapshots)
    BY <2>1, AppendProperties
  <2>5. QED
    BY <1>8, <2>1, <2>3, <2>4 DEF OnWsWrite
<1>9. ASSUME NEW s \in Sessions, OnWsWriteError(s)
      PROVE  TypeOK'
  <2>1. Tail(inflight[s]) \in Seq(Snapshots)
    BY <1>9, HeadTailProperties DEF OnWsWriteError
  <2>2. QED
    BY <1>9, <2>1 DEF OnWsWriteError
<1>10. QED
  BY <1>1, <1>2, <1>3, <1>4, <1>5, <1>6, <1>7, <1>8, <1>9
     DEF Next, MainThread, IoThread, Handler, Environment, Exited

-----------------------------------------------------------------------------
(***************************************************************************)
(* The path of a snapshot.  Taken together, what a client has got, its     *)
(* queue and its posted closures form one sequence that only broadcast()   *)
(* changes: send()'s closure and on_ws_write merely move its boundaries.   *)
(***************************************************************************)

LEMMA StreamType ==
  ASSUME TypeOK, NEW s \in Sessions
  PROVE  Stream(s) \in Seq(Snapshots) /\ got[s] \o queue[s] \in Seq(Snapshots)
<1>1. got[s] \o queue[s] \in Seq(Snapshots)
  BY ConcatProperties DEF TypeOK
<1>2. QED
  BY <1>1, ConcatProperties DEF TypeOK, Stream

\* Moving the front of one sequence to the end of the one before it.
LEMMA MoveFront ==
  ASSUME NEW S, NEW q \in Seq(S), NEW r \in Seq(S), r # <<>>
  PROVE  Append(q, Head(r)) \o Tail(r) = q \o r
<1>1. Head(r) \in S /\ Tail(r) \in Seq(S) /\ Len(Tail(r)) = Len(r) - 1
      /\ \A i \in 1..Len(Tail(r)) : Tail(r)[i] = r[i + 1]
  BY HeadTailProperties
<1>2. Head(r) = r[1] /\ Len(r) \in Nat \ {0} /\ Len(q) \in Nat
  BY EmptySeq, LenProperties
<1>3. /\ Append(q, Head(r)) \in Seq(S)
      /\ Len(Append(q, Head(r))) = Len(q) + 1
      /\ \A i \in 1..Len(q) : Append(q, Head(r))[i] = q[i]
      /\ Append(q, Head(r))[Len(q) + 1] = r[1]
  BY <1>1, <1>2, AppendProperties
<1> DEFINE lhs == Append(q, Head(r)) \o Tail(r)
           rhs == q \o r
<1>4. /\ lhs \in Seq(S) /\ Len(lhs) = Len(q) + Len(r)
      /\ \A i \in 1..Len(q) + Len(r) :
           lhs[i] = IF i <= Len(q) + 1 THEN Append(q, Head(r))[i]
                    ELSE Tail(r)[i - (Len(q) + 1)]
  BY <1>1, <1>2, <1>3, ConcatProperties
<1>5. /\ rhs \in Seq(S) /\ Len(rhs) = Len(q) + Len(r)
      /\ \A i \in 1..Len(q) + Len(r) :
           rhs[i] = IF i <= Len(q) THEN q[i] ELSE r[i - Len(q)]
  BY ConcatProperties
<1>6. ASSUME NEW i \in 1..Len(q) + Len(r)
      PROVE  lhs[i] = rhs[i]
  <2>1. CASE i <= Len(q)
    BY <1>2, <1>3, <1>4, <1>5, <2>1
  <2>2. CASE i = Len(q) + 1
    BY <1>2, <1>3, <1>4, <1>5, <2>2
  <2>3. CASE i > Len(q) + 1
    <3>1. i - (Len(q) + 1) \in 1..Len(Tail(r))
      BY <1>1, <1>2, <2>3
    <3>2. lhs[i] = r[i - (Len(q) + 1) + 1]
      BY <1>1, <1>2, <1>4, <2>3, <3>1
    <3>3. i - (Len(q) + 1) + 1 = i - Len(q)
      BY <1>2
    <3>4. QED
      BY <1>2, <1>5, <2>3, <3>2, <3>3
  <2>4. QED
    BY <1>2, <2>1, <2>2, <2>3
<1>7. QED
  <2> HIDE DEF lhs, rhs
  <2>1. lhs = rhs
    BY <1>4, <1>5, <1>6, SeqEqual
  <2>2. QED
    BY <2>1 DEF lhs, rhs

\* Appending to the last of two sequences appends to their concatenation.
LEMMA AppendToConcat ==
  \A q, r \in Seq(Snapshots), e \in Snapshots :
    q \o Append(r, e) = Append(q \o r, e)
<1> TAKE q, r \in Seq(Snapshots), e \in Snapshots
<1>1. q \o r \in Seq(Snapshots) /\ <<e>> \in Seq(Snapshots)
  BY ConcatProperties
<1>2. Append(r, e) = r \o <<e>> /\ Append(q \o r, e) = (q \o r) \o <<e>>
  BY <1>1, AppendIsConcat
<1>3. QED
  BY <1>1, <1>2, ConcatAssociative

LEMMA RunSendKeepsStream ==
  ASSUME TypeOK, NEW s \in Sessions, RunSend(s)
  PROVE  \A t \in Sessions : Stream(t)' = Stream(t)
<1> DEFINE msg == Head(posted[s])
<1>1. posted[s] # <<>> /\ posted[s] \in Seq(Snapshots)
  BY DEF RunSend, TypeOK
<1>2. msg \in Snapshots
  BY <1>1, HeadTailProperties
<1>3. Stream(s)' = (got[s] \o Append(queue[s], msg)) \o Tail(posted[s])
  BY DEF Stream, RunSend, TypeOK
<1>4. got[s] \o Append(queue[s], msg) = Append(got[s] \o queue[s], msg)
  <2>1. got[s] \in Seq(Snapshots) /\ queue[s] \in Seq(Snapshots)
    BY DEF TypeOK
  <2>2. QED
    BY <1>2, <2>1, AppendToConcat
<1>5. Append(got[s] \o queue[s], msg) \o Tail(posted[s])
        = (got[s] \o queue[s]) \o posted[s]
  BY <1>1, MoveFront, StreamType
<1>6. Stream(s)' = Stream(s)
  BY <1>3, <1>4, <1>5 DEF Stream
<1>7. \A t \in Sessions \ {s} : Stream(t)' = Stream(t)
  BY DEF Stream, RunSend, TypeOK
<1>8. QED
  BY <1>6, <1>7

LEMMA OnWsWriteKeepsStream ==
  ASSUME TypeOK, OneWriteInFlight, NEW s \in Sessions, OnWsWrite(s)
  PROVE  \A t \in Sessions : Stream(t)' = Stream(t)
<1>1. queue[s] # <<>> /\ Head(inflight[s]) = Head(queue[s])
  BY DEF OnWsWrite, OneWriteInFlight, TypeOK
<1>2. Stream(s)' = (Append(got[s], Head(queue[s])) \o Tail(queue[s])) \o posted[s]
  BY <1>1 DEF Stream, OnWsWrite, TypeOK
<1>3. Append(got[s], Head(queue[s])) \o Tail(queue[s]) = got[s] \o queue[s]
  <2>1. got[s] \in Seq(Snapshots) /\ queue[s] \in Seq(Snapshots)
    BY DEF TypeOK
  <2>2. QED
    BY <1>1, <2>1, MoveFront
<1>4. Stream(s)' = Stream(s)
  BY <1>2, <1>3 DEF Stream
<1>5. \A t \in Sessions \ {s} : Stream(t)' = Stream(t)
  BY DEF Stream, OnWsWrite, TypeOK
<1>6. QED
  BY <1>4, <1>5

\* send() puts the running broadcast()'s snapshot at the end.
LEMMA BroadcastSendAppends ==
  ASSUME TypeOK, Control, NEW s \in Sessions, BroadcastSend(s)
  PROVE  /\ Alive(s) /\ registry' = registry /\ seq \in Snapshots
         /\ Stream(s)' = Append(Stream(s), seq)
         /\ \A t \in Sessions \ {s} : Stream(t)' = Stream(t)
<1>1. Alive(s)
  BY DEF BroadcastSend, Alive, IoHolds, Pending, Control, MainInv, LifeInv, TypeOK
<1>2. seq \in Snapshots
  BY MaxSeqAssumption
     DEF BroadcastSend, Control, MainInv, MutexFree, Snapshots, TypeOK
<1>3. Stream(s)' = (got[s] \o queue[s]) \o Append(posted[s], seq)
  BY <1>1 DEF Stream, BroadcastSend, TypeOK
<1>4. (got[s] \o queue[s]) \o Append(posted[s], seq) = Append(Stream(s), seq)
  <2>1. got[s] \o queue[s] \in Seq(Snapshots) /\ posted[s] \in Seq(Snapshots)
    BY StreamType DEF TypeOK
  <2>2. QED
    BY <1>2, <2>1, AppendToConcat DEF Stream
<1>5. \A t \in Sessions \ {s} : Stream(t)' = Stream(t)
  BY <1>1 DEF Stream, BroadcastSend, TypeOK
<1>6. QED
  BY <1>1, <1>2, <1>3, <1>4, <1>5 DEF BroadcastSend

\* What each kind of step does to the sessions' streams.
LEMMA StreamStep ==
  ASSUME TypeOK, Control, OneWriteInFlight, [Next]_vars
  PROVE  \/ \A t \in Sessions : Stream(t)' = Stream(t)
         \/ \E s \in Sessions :
              /\ BroadcastSend(s)
              /\ Stream(s)' = Append(Stream(s), seq)
              /\ \A t \in Sessions \ {s} : Stream(t)' = Stream(t)
<1>1. CASE UNCHANGED <<got, queue, posted>>
  BY <1>1 DEF Stream
<1>2. CASE \E s \in Sessions : RunSend(s) \/ OnWsWrite(s)
  BY <1>2, RunSendKeepsStream, OnWsWriteKeepsStream
<1>3. CASE \E s \in Sessions : BroadcastSend(s)
  BY <1>3, BroadcastSendAppends
<1>4. QED
  BY <1>1, <1>2, <1>3
     DEF Next, MainThread, IoThread, Handler, Environment, Exited,
         Collect, CollectFails, BroadcastLock,
         BroadcastRelease, BroadcastUnlock, Wake, Stop, Join, SignalHandler,
         DoAccept, OnReadHttpError, OnReadHttpUpgrade, OnReadHttpFile,
         OnReadHttpThrows, OnWriteHttp, OnAcceptWsError, OnAcceptWs, Moves,
         RegistryAdd, OnWsWriteError, OnWsReadError, RegistryRemove, IoReturn,
         ConnectionEnds, vars, sessVars

\* A session's history begins when it registers.
LEMMA FreshStep ==
  ASSUME TypeOK, Control, FreshInv, OneWriteInFlight, [Next]_vars
  PROVE  FreshInv'
<1> USE DEF FreshInv, TypeOK, mainVars, ioVars, sessVars
<1>1. CASE UNCHANGED <<registry, phase, posted, queue, inflight, got, first>>
  BY <1>1
<1>2. ASSUME NEW s \in Sessions, BroadcastSend(s)
      PROVE  FreshInv'
  <2>1. first[s] # 0
    BY <1>2 DEF BroadcastSend, Control, MainInv
  <2>2. QED
    BY <1>2, <2>1 DEF BroadcastSend
<1>3. ASSUME NEW s \in Sessions,
             DoAccept(s) \/ OnReadHttpError(s) \/ OnReadHttpUpgrade(s)
             \/ OnReadHttpFile(s) \/ OnReadHttpThrows(s) \/ OnWriteHttp(s)
             \/ OnAcceptWsError(s) \/ OnAcceptWs(s) \/ OnWsReadError(s)
             \/ RegistryRemove(s)
      PROVE  FreshInv'
  BY <1>3
     DEF DoAccept, OnReadHttpError, OnReadHttpUpgrade, OnReadHttpFile,
         OnReadHttpThrows, OnWriteHttp, OnAcceptWsError, OnAcceptWs,
         OnWsReadError, RegistryRemove, Moves
<1>4. ASSUME NEW s \in Sessions, RegistryAdd(s)
      PROVE  FreshInv'
  <2>1. seq + 1 # 0
    BY MaxSeqAssumption
  <2>2. QED
    BY <1>4, <2>1 DEF RegistryAdd
<1>5. ASSUME NEW s \in Sessions,
             RunSend(s) \/ OnWsWrite(s) \/ OnWsWriteError(s)
      PROVE  FreshInv'
  <2>1. first[s] # 0
    BY <1>5 DEF RunSend, OnWsWrite, OnWsWriteError
  <2>2. QED
    BY <1>5, <2>1 DEF RunSend, OnWsWrite, OnWsWriteError
<1>6. QED
  BY <1>1, <1>2, <1>3, <1>4, <1>5
     DEF Next, MainThread, IoThread, Handler, Environment, Exited,
         Collect, CollectFails, BroadcastLock,
         BroadcastRelease, BroadcastUnlock, Wake, Stop, Join, SignalHandler,
         IoReturn, ConnectionEnds, vars

-----------------------------------------------------------------------------
(***************************************************************************)
(* Order and completeness of the streams.                                  *)
(***************************************************************************)

\* A session that is not registered has an empty stream, which is in order
\* from wherever it will begin.
LEMMA FreshStream ==
  ASSUME FreshInv, NEW s \in Sessions, first[s] = 0
  PROVE  Stream(s) = <<>>
<1>1. Stream(s) = (<<>> \o <<>>) \o <<>>
  BY DEF FreshInv, Stream
<1>2. <<>> \in Seq(Snapshots)
  BY EmptySeq
<1>3. QED
  BY <1>1, <1>2, ConcatEmptySeq

\* The registry mutex keeps add() out of a running broadcast(), so a session
\* is either in the copy the loop visits or begins with the next snapshot.
LEMMA NoneMissedStep ==
  ASSUME TypeOK, Control, FreshInv, OneWriteInFlight, NoneMissed, [Next]_vars
  PROVE  NoneMissed'
<1>0. \A s \in Sessions : Len(Stream(s)) \in Nat /\ first[s] \in Nat
  BY StreamType, LenProperties, MaxSeqAssumption DEF TypeOK
<1>1. ASSUME NEW s \in Sessions, BroadcastSend(s)
      PROVE  NoneMissed'
  <2>1. /\ registry' = registry /\ Len(Stream(s)') = Len(Stream(s)) + 1
        /\ \A t \in Sessions \ {s} : Stream(t)' = Stream(t)
    BY <1>1, BroadcastSendAppends, StreamType, AppendProperties
  <2>2. /\ seq' = seq /\ first' = first /\ todo' = todo \ {s}
        /\ s \in todo /\ s \in registry
    BY <1>1 DEF BroadcastSend, Control, MainInv
  <2>3. first'[s] + Len(Stream(s)') = seq' + 1
    <3>1. first[s] + Len(Stream(s)) = seq
      BY <2>2 DEF NoneMissed
    <3>2. QED
      BY <1>0, <2>1, <2>2, <3>1
  <2>4. \A t \in registry \ {s} :
          first'[t] + Len(Stream(t)') = IF t \in todo' THEN seq' ELSE seq' + 1
    BY <2>1, <2>2 DEF NoneMissed, TypeOK
  <2>5. QED
    BY <2>1, <2>2, <2>3, <2>4 DEF NoneMissed
<1>2. ASSUME \A t \in Sessions : Stream(t)' = Stream(t),
             UNCHANGED <<seq, todo, first>>, registry' \subseteq registry
      PROVE  NoneMissed'
  BY <1>2 DEF NoneMissed, TypeOK
<1>3. ASSUME BroadcastLock, \A t \in Sessions : Stream(t)' = Stream(t)
      PROVE  NoneMissed'
  <2>1. todo = {} /\ registry' = registry /\ todo' = registry
        /\ seq' = seq + 1 /\ first' = first
    BY <1>3 DEF BroadcastLock, Control, MainInv, MutexFree, sessVars
  <2>2. QED
    BY <1>3, <2>1 DEF NoneMissed, TypeOK
<1>4. ASSUME NEW s \in Sessions, RegistryAdd(s),
             \A t \in Sessions : Stream(t)' = Stream(t)
      PROVE  NoneMissed'
  <2>1. /\ todo = {} /\ todo' = {} /\ seq' = seq
        /\ registry' = registry \cup {s}
        /\ first' = [first EXCEPT ![s] = seq + 1]
    BY <1>4 DEF RegistryAdd, Control, MainInv, mainVars
  <2>2. Stream(s) = <<>>
    BY <1>4, FreshStream DEF RegistryAdd, Control, IoInv, FreshInv
  <2>3. Len(Stream(s)') = 0
    BY <1>4, <2>2
  <2>4. QED
    BY <1>0, <1>4, <2>1, <2>3, MaxSeqAssumption DEF NoneMissed, TypeOK
<1>5. QED
  <2>1. \/ \E s \in Sessions : BroadcastSend(s)
        \/ \A t \in Sessions : Stream(t)' = Stream(t)
    BY StreamStep
  <2>2. \/ \E s \in Sessions : BroadcastSend(s) \/ RegistryAdd(s)
        \/ BroadcastLock
        \/ UNCHANGED <<seq, todo, first>> /\ registry' \subseteq registry
    BY ZenonT(40) DEF Next, MainThread, IoThread, Handler, Environment, Exited,
         Collect, CollectFails,
         BroadcastRelease, BroadcastUnlock, Wake, Stop, Join, SignalHandler,
         DoAccept, OnReadHttpError, OnReadHttpUpgrade, OnReadHttpFile,
         OnReadHttpThrows, OnWriteHttp, OnAcceptWsError, OnAcceptWs, Moves,
         RunSend, OnWsWrite, OnWsWriteError, OnWsReadError, RegistryRemove,
         IoReturn, ConnectionEnds, vars, mainVars, sessVars
  <2>3. QED
    BY <1>1, <1>2, <1>3, <1>4, <2>1, <2>2

\* Nothing changes the order of a stream, and broadcast() extends it by the
\* very next snapshot.
LEMMA InOrderStep ==
  ASSUME TypeOK, Control, FreshInv, OneWriteInFlight, NoneMissed, InOrder,
         [Next]_vars
  PROVE  InOrder'
<1>1. ASSUME NEW s \in Sessions, BroadcastSend(s)
      PROVE  InOrder'
  <2>1. /\ Stream(s)' = Append(Stream(s), seq) /\ seq \in Snapshots
        /\ \A t \in Sessions \ {s} : Stream(t)' = Stream(t)
    BY <1>1, BroadcastSendAppends
  <2>2. first' = first /\ first[s] + Len(Stream(s)) = seq
    BY <1>1 DEF BroadcastSend, NoneMissed, Control, MainInv
  <2>3. /\ Stream(s) \in Seq(Snapshots) /\ Len(Stream(s)) \in Nat
        /\ DOMAIN Stream(s) = 1..Len(Stream(s)) /\ first[s] \in Nat
    BY StreamType, LenProperties, MaxSeqAssumption DEF TypeOK
  <2>4. /\ DOMAIN Stream(s)' = 1..Len(Stream(s)) + 1
        /\ \A i \in 1..Len(Stream(s)) : Stream(s)'[i] = Stream(s)[i]
        /\ Stream(s)'[Len(Stream(s)) + 1] = seq
    BY <2>1, <2>3, AppendProperties, LenProperties
  <2>5. \A i \in DOMAIN Stream(s)' : Stream(s)'[i] = first'[s] + i - 1
    <3>1. \A i \in 1..Len(Stream(s)) : Stream(s)'[i] = first[s] + i - 1
      BY <2>3, <2>4 DEF InOrder
    <3>2. first[s] + (Len(Stream(s)) + 1) - 1 = seq
      BY <2>2, <2>3
    <3>3. \A i \in 1..Len(Stream(s)) + 1 :
            i \in 1..Len(Stream(s)) \/ i = Len(Stream(s)) + 1
      BY <2>3
    <3>4. QED
      BY <2>2, <2>4, <3>1, <3>2, <3>3
  <2>6. \A t \in Sessions \ {s} :
          \A i \in DOMAIN Stream(t)' : Stream(t)'[i] = first'[t] + i - 1
    BY <2>1, <2>2 DEF InOrder
  <2>7. QED
    BY <2>5, <2>6 DEF InOrder
<1>2. ASSUME \A t \in Sessions : Stream(t)' = Stream(t), UNCHANGED first
      PROVE  InOrder'
  BY <1>2 DEF InOrder
<1>3. ASSUME NEW s \in Sessions, RegistryAdd(s),
             \A t \in Sessions : Stream(t)' = Stream(t)
      PROVE  InOrder'
  <2>1. Stream(s)' = <<>>
    BY <1>3, FreshStream DEF RegistryAdd, Control, IoInv, FreshInv
  <2>2. \A t \in Sessions \ {s} : first'[t] = first[t]
    BY <1>3 DEF RegistryAdd, TypeOK
  <2>3. QED
    BY <1>3, <2>1, <2>2 DEF InOrder
<1>4. QED
  <2>1. \/ \E s \in Sessions : BroadcastSend(s)
        \/ \A t \in Sessions : Stream(t)' = Stream(t)
    BY StreamStep
  <2>2. (\E s \in Sessions : RegistryAdd(s)) \/ UNCHANGED first
    BY DEF Next, MainThread, IoThread, Handler, Environment, Exited,
         Collect, CollectFails, BroadcastLock, BroadcastSend,
         BroadcastRelease, BroadcastUnlock, Wake, Stop, Join, SignalHandler,
         DoAccept, OnReadHttpError, OnReadHttpUpgrade, OnReadHttpFile,
         OnReadHttpThrows, OnWriteHttp, OnAcceptWsError, OnAcceptWs, Moves,
         RunSend, OnWsWrite, OnWsWriteError, OnWsReadError, RegistryRemove,
         IoReturn, ConnectionEnds, vars, sessVars
  <2>3. QED
    BY <1>1, <1>2, <1>3, <2>1, <2>2

-----------------------------------------------------------------------------
(***************************************************************************)
(* The theorems.                                                           *)
(***************************************************************************)

\* Everything the steps above need of one another.
IInv ==
  /\ TypeOK /\ Control /\ FreshInv
  /\ OneWriteInFlight /\ NoStalledQueue
  /\ NoneMissed /\ InOrder

LEMMA InductiveInvariant == Spec => []IInv
<1>1. Init => IInv
  <2> SUFFICES ASSUME Init
               PROVE  IInv
    OBVIOUS
  <2>1. TypeOK /\ Control /\ FreshInv /\ OneWriteInFlight /\ NoStalledQueue
    BY InitTypeOK, InitControl, InitFresh
  <2>2. NoneMissed
    BY DEF Init, NoneMissed
  <2>3. InOrder
    <3>1. \A s \in Sessions : Stream(s) = <<>>
      BY <2>1, FreshStream DEF Init
    <3>2. QED
      BY <3>1 DEF InOrder
  <2>4. QED
    BY <2>1, <2>2, <2>3 DEF IInv
<1>2. IInv /\ [Next]_vars => IInv'
  BY TypeStep, ControlStep, FreshStep, WriteStep, QueueStep,
     NoneMissedStep, InOrderStep DEF IInv
<1>3. QED
  BY <1>1, <1>2, PTL DEF Spec

\* The variables keep their types, for any number of sessions; every step of
\* the server has the queue fronts and the mutex it relies on.
THEOREM TypeCorrect == Spec => []TypeOK
<1>1. IInv => TypeOK
  BY DEF IInv
<1>2. QED
  BY <1>1, InductiveInvariant, PTL

\* Clients see consecutive snapshots in the order they were broadcast, from
\* the first after their registration: the posted closures, queue_ and the
\* chain of on_ws_write calls neither reorder, repeat nor lose one.
THEOREM StreamsInOrder == Spec => []InOrder
<1>1. IInv => InOrder
  BY DEF IInv
<1>2. QED
  BY <1>1, InductiveInvariant, PTL

\* add() and broadcast() never miss each other: a registered session has been
\* posted every snapshot since it registered.
THEOREM NoSnapshotMissed == Spec => []NoneMissed
<1>1. IInv => NoneMissed
  BY DEF IInv
<1>2. QED
  BY <1>1, InductiveInvariant, PTL

\* Beast's rule of one outstanding write per stream is kept, the buffer of
\* the write being the queue's front.
THEOREM SingleWrite == Spec => []OneWriteInFlight
<1>1. IInv => OneWriteInFlight
  BY DEF IInv
<1>2. QED
  BY <1>1, InductiveInvariant, PTL

\* The queue of a working connection never waits with no write under way.
THEOREM NoLostWakeup == Spec => []NoStalledQueue
<1>1. IInv => NoStalledQueue
  BY DEF IInv
<1>2. QED
  BY <1>1, InductiveInvariant, PTL

\* broadcast() never meets an expired weak_ptr: a registered session is kept
\* alive by its read, or by the handler that is about to remove it.
THEOREM RegistryIsLive == Spec => []NoExpiredEntry
<1>1. IInv => NoExpiredEntry
  BY DEF IInv, Control, LifeInv, NoExpiredEntry, Alive, IoHolds, Pending
<1>2. QED
  BY <1>1, InductiveInvariant, PTL

\* The shared_ptr broadcast() takes is never the last one, so no session is
\* destroyed by the main thread inside the registry's critical section.
THEOREM SessionsDieOnIoThread == Spec => []MainNeverLastOwner
<1>1. IInv => MainNeverLastOwner
  BY DEF IInv, Control, MainInv, LifeInv, MainNeverLastOwner, IoHolds, Pending
<1>2. QED
  BY <1>1, InductiveInvariant, PTL

-----------------------------------------------------------------------------
(***************************************************************************)
(* The refinement of FanOut.                                               *)
(***************************************************************************)

\* A step that changes none of the mapped variables.
LEMMA Stutter ==
  ASSUME UNCHANGED <<seq, registry, first, got>>,
         \A s \in Sessions \ registry : first[s] = 0 \/ Stream(s)' = Stream(s)
  PROVE  UNCHANGED FO!vars
BY DEF FO!vars, Status, Last

\* broadcast() taking the mutex publishes.
LEMMA LockPublishes ==
  ASSUME BroadcastLock, \A s \in Sessions : Stream(s)' = Stream(s)
  PROVE  FO!Publish
BY DEF BroadcastLock, FO!Publish, sessVars, Status, Last

\* SessionRegistry::add joins.
LEMMA AddJoins ==
  ASSUME IInv, NEW s \in Sessions, RegistryAdd(s),
         \A t \in Sessions : Stream(t)' = Stream(t)
  PROVE  FO!Join(s)
<1>1. first[s] = 0 /\ s \notin registry
  BY DEF RegistryAdd, IInv, Control, IoInv, FreshInv
<1>2. /\ registry' = registry \cup {s} /\ got' = got /\ seq' = seq
      /\ first' = [first EXCEPT ![s] = seq + 1]
  BY DEF RegistryAdd, mainVars
<1>3. \A t \in Sessions \ {s} :
        first'[t] = first[t] /\ (t \in registry' <=> t \in registry)
  BY <1>2 DEF IInv, TypeOK
<1>4. Status' = [Status EXCEPT ![s] = "in"]
  BY <1>2, <1>3 DEF Status
<1>5. Last' = Last
  BY <1>1, <1>2, <1>3 DEF Last
<1>6. Status[s] = "out"
  BY <1>1 DEF Status
<1>7. QED
  BY <1>2, <1>4, <1>5, <1>6 DEF FO!Join, Status, Last

\* SessionRegistry::remove leaves, unless the other chain of handlers has
\* removed the session before.
LEMMA RemoveLeaves ==
  ASSUME IInv, NEW s \in Sessions, RegistryRemove(s), s \in registry,
         \A t \in Sessions : Stream(t)' = Stream(t)
  PROVE  FO!Leave(s)
<1>1. first[s] # 0 /\ first[s] + Len(Stream(s)) = seq + 1
  BY DEF RegistryRemove, IInv, Control, MainInv, FreshInv, NoneMissed
<1>2. /\ registry' = registry \ {s} /\ got' = got /\ seq' = seq
      /\ first' = first
  BY DEF RegistryRemove, mainVars, sessVars
<1>3. Status' = [Status EXCEPT ![s] = "left"]
  BY <1>1, <1>2 DEF Status
<1>4. Last' = [Last EXCEPT ![s] = seq]
  <2>1. first[s] + Len(Stream(s)) - 1 = seq
    BY <1>1, StreamType, LenProperties, MaxSeqAssumption DEF IInv, TypeOK
  <2>2. QED
    BY <1>1, <1>2, <2>1 DEF Last
<1>5. Status[s] = "in"
  BY DEF Status
<1>6. QED
  BY <1>2, <1>3, <1>4, <1>5 DEF FO!Leave, Status, Last

\* Where the front of the middle one of three sequences is found.
LEMMA MiddleFront ==
  ASSUME NEW S, NEW q \in Seq(S), NEW r \in Seq(S), NEW t \in Seq(S), r # <<>>
  PROVE  /\ Len(q) \in Nat /\ Len(r) \in Nat \ {0} /\ Len(t) \in Nat
         /\ Len((q \o r) \o t) = Len(q) + Len(r) + Len(t)
         /\ Len(q) + 1 \in DOMAIN ((q \o r) \o t)
         /\ ((q \o r) \o t)[Len(q) + 1] = r[1]
<1> DEFINE qr == q \o r
           qrt == qr \o t
<1>0. \A a, b \in Seq(S) :
        /\ a \o b \in Seq(S) /\ Len(a \o b) = Len(a) + Len(b)
        /\ \A i \in 1..Len(a) + Len(b) :
             (a \o b)[i] = IF i <= Len(a) THEN a[i] ELSE b[i - Len(a)]
  BY ConcatProperties
<1>1. Len(q) \in Nat /\ Len(r) \in Nat \ {0} /\ Len(t) \in Nat
  BY EmptySeq, LenProperties
<1>2. /\ qr \in Seq(S) /\ Len(qr) = Len(q) + Len(r)
      /\ \A i \in 1..Len(q) + Len(r) :
           qr[i] = IF i <= Len(q) THEN q[i] ELSE r[i - Len(q)]
  BY <1>0
<1>3. qr[Len(q) + 1] = r[1]
  <2>1. Len(q) + 1 \in 1..Len(q) + Len(r) /\ ~(Len(q) + 1 <= Len(q))
        /\ Len(q) + 1 - Len(q) = 1
    BY <1>1
  <2>2. QED
    BY <1>2, <2>1
<1> HIDE DEF qr
<1>4. /\ qrt \in Seq(S) /\ Len(qrt) = Len(qr) + Len(t)
      /\ \A i \in 1..Len(qr) + Len(t) :
           qrt[i] = IF i <= Len(qr) THEN qr[i] ELSE t[i - Len(qr)]
  BY <1>0, <1>2
<1>5. DOMAIN qrt = 1..Len(qrt)
  BY <1>4, LenProperties
<1> HIDE DEF qrt
<1>6. Len(q) + 1 \in 1..Len(qr) + Len(t) /\ Len(q) + 1 <= Len(qr)
  BY <1>1, <1>2
<1>7. qrt[Len(q) + 1] = r[1] /\ Len(q) + 1 \in DOMAIN qrt
  BY <1>3, <1>4, <1>5, <1>6
<1>8. Len(qrt) = Len(q) + Len(r) + Len(t)
  BY <1>2, <1>4
<1>9. QED
  BY <1>1, <1>7, <1>8 DEF qr, qrt

\* The end of a write delivers the next snapshot its client is owed.
LEMMA WriteDelivers ==
  ASSUME IInv, NEW s \in Sessions, OnWsWrite(s),
         \A t \in Sessions : Stream(t)' = Stream(t)
  PROVE  FO!Deliver(s)
<1>1. /\ queue[s] # <<>> /\ Head(inflight[s]) = queue[s][1]
      /\ first[s] # 0
  BY DEF OnWsWrite, IInv, OneWriteInFlight, FreshInv, TypeOK
<1>2. /\ got[s] \in Seq(Snapshots) /\ queue[s] \in Seq(Snapshots)
      /\ posted[s] \in Seq(Snapshots) /\ first[s] \in Nat /\ seq \in Nat
  BY MaxSeqAssumption DEF IInv, TypeOK
<1>3. /\ Len(got[s]) \in Nat /\ Len(queue[s]) \in Nat \ {0}
      /\ Len(posted[s]) \in Nat
      /\ Len(Stream(s)) = Len(got[s]) + Len(queue[s]) + Len(posted[s])
      /\ Len(got[s]) + 1 \in DOMAIN Stream(s)
      /\ Stream(s)[Len(got[s]) + 1] = queue[s][1]
  <2> DEFINE q == got[s]
             r == queue[s]
             t == posted[s]
  <2>1. /\ q \in Seq(Snapshots) /\ r \in Seq(Snapshots) /\ t \in Seq(Snapshots)
        /\ r # <<>>
    BY <1>1, <1>2
  <2>2. Stream(s) = (q \o r) \o t
    BY DEF Stream
  <2> HIDE DEF q, r, t
  <2>3. /\ Len(q) \in Nat /\ Len(r) \in Nat \ {0} /\ Len(t) \in Nat
        /\ Len((q \o r) \o t) = Len(q) + Len(r) + Len(t)
        /\ Len(q) + 1 \in DOMAIN ((q \o r) \o t)
        /\ ((q \o r) \o t)[Len(q) + 1] = r[1]
    BY <2>1, MiddleFront
  <2>4. QED
    BY <2>2, <2>3 DEF q, r, t
<1> DEFINE next == first[s] + Len(got[s])
           end == first[s] + Len(Stream(s))
<1>4. next \in Nat /\ end \in Nat /\ next + 1 <= end
  <2>1. \A f, g, p \in Nat, q \in Nat \ {0} :
          f + g \in Nat /\ f + (g + q + p) \in Nat
          /\ f + g + 1 <= f + (g + q + p)
    OBVIOUS
  <2>2. QED
    BY <1>2, <1>3, <2>1
<1>5. Head(inflight[s]) = next
  <2>1. Stream(s)[Len(got[s]) + 1] = first[s] + (Len(got[s]) + 1) - 1
    BY <1>3 DEF IInv, InOrder
  <2>2. QED
    BY <1>1, <1>2, <1>3, <2>1
<1>6. s \in registry => end = seq \/ end = seq + 1
  BY DEF IInv, NoneMissed
<1>7. s \notin registry => Last[s] = end - 1
  <2>1. Len(Stream(s)) \in Nat
    BY StreamType, LenProperties DEF IInv
  <2>2. s \notin registry => Last[s] = first[s] + (Len(Stream(s)) - 1)
    BY <1>1 DEF Last
  <2>3. first[s] + (Len(Stream(s)) - 1) = end - 1
    <3>1. \A a, b \in Nat : a + (b - 1) = (a + b) - 1
      OBVIOUS
    <3>2. QED
      BY <1>2, <2>1, <3>1
  <2>4. QED
    BY <2>2, <2>3
<1>8. /\ got' = [got EXCEPT ![s] = Append(@, Head(inflight[s]))]
      /\ UNCHANGED <<seq, registry, first>>
  BY DEF OnWsWrite, mainVars
<1>9. Status' = Status /\ Last' = Last
  BY <1>8 DEF Status, Last
<1>10. \/ Status[s] = "in" /\ next <= seq
       \/ Status[s] = "left" /\ next <= Last[s]
  <2> HIDE DEF next, end
  <2>1. s \in registry => next <= seq
    BY <1>2, <1>4, <1>6
  <2>2. s \notin registry => next <= Last[s]
    BY <1>4, <1>7
  <2>3. QED
    BY <1>1, <2>1, <2>2 DEF Status
<1>11. QED
  BY <1>5, <1>8, <1>9, <1>10 DEF FO!Deliver, FO!NextFor, Status, Last

\* The server promises what FanOut says: a client is handed, in order and
\* without gap or repetition, snapshots published between its joining and its
\* leaving, whatever the interleaving of the two threads.
THEOREM ServerImplementsFanOut == Spec => FanOutSpec
<1>1. Init => FO!Init
  <2> SUFFICES ASSUME Init
               PROVE  FO!Init
    OBVIOUS
  <2>1. QED
    BY DEF Init, FO!Init, Status, Last
<1>2. IInv /\ [Next]_vars => [FO!Next]_(FO!vars)
  <2> SUFFICES ASSUME IInv, [Next]_vars
               PROVE  [FO!Next]_(FO!vars)
    OBVIOUS
  <2>1. ASSUME NEW s \in Sessions, BroadcastSend(s)
        PROVE  UNCHANGED FO!vars
    <3>1. /\ registry' = registry /\ s \in registry
          /\ \A t \in Sessions \ {s} : Stream(t)' = Stream(t)
      BY <2>1, BroadcastSendAppends DEF IInv, Control, MainInv, BroadcastSend
    <3>2. UNCHANGED <<seq, first, got>>
      BY <2>1 DEF BroadcastSend
    <3>3. QED
      BY <3>1, <3>2, Stutter
  <2>2. CASE \A t \in Sessions : Stream(t)' = Stream(t)
    <3>1. CASE BroadcastLock
      BY <2>2, <3>1, LockPublishes DEF FO!Next
    <3>2. ASSUME NEW s \in Sessions, RegistryAdd(s)
          PROVE  FO!Next
      BY <2>2, <3>2, AddJoins DEF FO!Next
    <3>3. ASSUME NEW s \in Sessions, RegistryRemove(s), s \in registry
          PROVE  FO!Next
      BY <2>2, <3>3, RemoveLeaves DEF FO!Next
    <3>4. ASSUME NEW s \in Sessions, OnWsWrite(s)
          PROVE  FO!Next
      BY <2>2, <3>4, WriteDelivers DEF FO!Next
    <3>5. CASE UNCHANGED <<seq, registry, first, got>>
      BY <2>2, <3>5, Stutter
    <3>6. QED
      BY <2>1, <3>1, <3>2, <3>3, <3>4, <3>5
         DEF Next, MainThread, IoThread, Handler, Environment, Exited,
             Collect, CollectFails,
             BroadcastRelease, BroadcastUnlock, Wake, Stop, Join,
             SignalHandler, DoAccept, OnReadHttpError, OnReadHttpUpgrade,
             OnReadHttpFile, OnReadHttpThrows, OnWriteHttp, OnAcceptWsError,
             OnAcceptWs, Moves, RunSend, OnWsWriteError, OnWsReadError,
             RegistryRemove, IoReturn, ConnectionEnds,
             vars, mainVars, sessVars
  <2>3. QED
    BY <2>1, <2>2, StreamStep DEF IInv
<1>3. QED
  BY <1>1, <1>2, InductiveInvariant, PTL DEF Spec, FanOutSpec, FO!Spec

-----------------------------------------------------------------------------
(***************************************************************************)
(* What FanOut promises.                                                   *)
(***************************************************************************)

\* What is handed out never runs ahead of what has been published or, once
\* the client has left, of what it is owed.
PromiseInv ==
  /\ seq \in Nat /\ Status \in [Sessions -> {"out", "in", "left"}]
  /\ first \in [Sessions -> Nat] /\ Last \in [Sessions -> Nat]
  /\ got \in [Sessions -> Seq(Nat)]
  /\ \A s \in Sessions :
       /\ \A i \in DOMAIN got[s] : got[s][i] = first[s] + i - 1
       /\ Status[s] = "out" => got[s] = <<>>
       /\ Status[s] = "in" => first[s] + Len(got[s]) <= seq + 1
       /\ Status[s] = "left" => first[s] + Len(got[s]) <= Last[s] + 1 /\ Last[s] <= seq

LEMMA PromiseInit == FO!Init => PromiseInv
BY DEF FO!Init, PromiseInv

LEMMA PromiseStep ==
  ASSUME PromiseInv, [FO!Next]_(FO!vars)
  PROVE  PromiseInv'
<1>1. CASE FO!Publish
  BY <1>1 DEF FO!Publish, PromiseInv
<1>2. ASSUME NEW s \in Sessions, FO!Join(s)
      PROVE  PromiseInv'
  <2>1. Len(got[s]) = 0 /\ got[s] = <<>> /\ seq \in Nat
    BY <1>2 DEF FO!Join, PromiseInv
  <2>2. /\ UNCHANGED <<seq, Last, got>>
        /\ Status' = [Status EXCEPT ![s] = "in"] /\ first' = [first EXCEPT ![s] = seq + 1]
    BY <1>2 DEF FO!Join
  <2>3. /\ Status' \in [Sessions -> {"out", "in", "left"}]
        /\ first' \in [Sessions -> Nat]
        /\ Status'[s] = "in" /\ first'[s] = seq + 1
        /\ \A t \in Sessions \ {s} : Status'[t] = Status[t] /\ first'[t] = first[t]
    BY <2>1, <2>2 DEF PromiseInv
  <2>4. ASSUME NEW t \in Sessions
        PROVE  /\ \A i \in DOMAIN got[t] : got[t][i] = first'[t] + i - 1
               /\ Status'[t] = "out" => got[t] = <<>>
               /\ Status'[t] = "in" => first'[t] + Len(got[t]) <= seq + 1
               /\ Status'[t] = "left" =>
                    first'[t] + Len(got[t]) <= Last[t] + 1 /\ Last[t] <= seq
    <3>1. CASE t = s
      BY <2>1, <2>3, <3>1
    <3>2. CASE t # s
      BY <2>3, <3>2 DEF PromiseInv
    <3>3. QED
      BY <3>1, <3>2
  <2>5. QED
    BY <2>2, <2>3, <2>4 DEF PromiseInv
<1>3. ASSUME NEW s \in Sessions, FO!Leave(s)
      PROVE  PromiseInv'
  <2>1. /\ UNCHANGED <<seq, first, got>> /\ Status[s] = "in"
        /\ Status' = [Status EXCEPT ![s] = "left"] /\ Last' = [Last EXCEPT ![s] = seq]
    BY <1>3 DEF FO!Leave
  <2>2. /\ Status' \in [Sessions -> {"out", "in", "left"}]
        /\ Last' \in [Sessions -> Nat]
        /\ Status'[s] = "left" /\ Last'[s] = seq
        /\ \A t \in Sessions \ {s} : Status'[t] = Status[t] /\ Last'[t] = Last[t]
    BY <2>1 DEF PromiseInv
  <2>3. QED
    BY <2>1, <2>2 DEF PromiseInv
<1>4. ASSUME NEW s \in Sessions, FO!Deliver(s)
      PROVE  PromiseInv'
  <2>1. /\ got[s] \in Seq(Nat) /\ first[s] \in Nat /\ Len(got[s]) \in Nat
        /\ got' = [got EXCEPT ![s] = Append(@, first[s] + Len(got[s]))]
        /\ UNCHANGED <<seq, Status, first, Last>>
    BY <1>4 DEF FO!Deliver, FO!NextFor, PromiseInv
  <2>2. /\ got'[s] = Append(got[s], first[s] + Len(got[s]))
        /\ \A t \in Sessions \ {s} : got'[t] = got[t]
        /\ got' \in [Sessions -> Seq(Nat)]
    BY <2>1 DEF PromiseInv
  <2>3. /\ Len(got'[s]) = Len(got[s]) + 1
        /\ \A i \in DOMAIN got'[s] : got'[s][i] = first[s] + i - 1
    BY <2>1, <2>2 DEF PromiseInv
  <2>4. Status[s] # "out"
    BY <1>4 DEF FO!Deliver
  <2>5. /\ Status[s] = "in" => first[s] + Len(got[s]) + 1 <= seq + 1
        /\ Status[s] = "left" => first[s] + Len(got[s]) + 1 <= Last[s] + 1
    BY <1>4, <2>1 DEF FO!Deliver, FO!NextFor, PromiseInv
  <2>6. ASSUME NEW t \in Sessions
        PROVE  /\ \A i \in DOMAIN got'[t] : got'[t][i] = first[t] + i - 1
               /\ Status[t] = "out" => got'[t] = <<>>
               /\ Status[t] = "in" => first[t] + Len(got'[t]) <= seq + 1
               /\ Status[t] = "left" =>
                    first[t] + Len(got'[t]) <= Last[t] + 1 /\ Last[t] <= seq
    <3>1. CASE t = s
      BY <2>1, <2>3, <2>4, <2>5, <3>1 DEF PromiseInv
    <3>2. CASE t # s
      BY <2>2, <3>2 DEF PromiseInv
    <3>3. QED
      BY <3>1, <3>2
  <2>7. QED
    BY <2>1, <2>2, <2>6 DEF PromiseInv
<1>5. CASE UNCHANGED FO!vars
  BY <1>5 DEF FO!vars, PromiseInv
<1>6. QED
  BY <1>1, <1>2, <1>3, <1>4, <1>5 DEF FO!Next

\* What the abstract specification allows is what its clients are promised.
THEOREM FanOutKeepsPromise == FanOutSpec => []FO!Promise
<1>1. ASSUME PromiseInv
      PROVE  FO!Promise
  <2>1. ASSUME NEW s \in Sessions
        PROVE  /\ \A i \in DOMAIN got[s] : got[s][i] = first[s] + i - 1
               /\ Len(got[s]) > 0 =>
                    /\ Status[s] # "out"
                    /\ FO!NextFor(s) - 1 <= IF Status[s] = "left" THEN Last[s] ELSE seq
               /\ Status[s] = "left" => Last[s] <= seq
    <3>1. /\ Len(got[s]) \in Nat /\ first[s] \in Nat /\ Last[s] \in Nat
          /\ seq \in Nat /\ Status[s] \in {"out", "in", "left"}
          /\ got[s] = <<>> => Len(got[s]) = 0
      BY <1>1 DEF PromiseInv
    <3>2. QED
      BY <1>1, <3>1 DEF PromiseInv, FO!NextFor
  <2>2. QED
    BY <2>1 DEF FO!Promise
<1>2. QED
  BY <1>1, PromiseInit, PromiseStep, PTL DEF FanOutSpec, FO!Spec

\* The clients of the threaded server are kept the promise: consecutive
\* snapshots from the first broadcast after registration, and none that was
\* broadcast after the session was removed from the registry.
THEOREM ClientsArePromised == Spec => []FO!Promise
BY ServerImplementsFanOut, FanOutKeepsPromise, PTL
=============================================================================
