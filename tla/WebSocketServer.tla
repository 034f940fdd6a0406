-------------------------- MODULE WebSocketServer ---------------------------
(***************************************************************************)
(* The KvadraTop backend process: the main thread of main.cpp (collect,    *)
(* broadcast, sleep, shut down), the io thread running the single          *)
(* io_context, and the sessions and registry of WebSocketServer.cpp.       *)
(*                                                                         *)
(* Two threads share the registry (under SessionRegistry::mutex_), the     *)
(* io_context and g_running.  Everything else belongs to the io thread, so *)
(* a completion handler is one step, split only where it takes the         *)
(* registry mutex: ioPc "add"/"remove" is the io thread blocked there,     *)
(* unable to run anything else.  The main thread is split wherever the io  *)
(* thread could tell: at the lock, at each send(), at each release of the  *)
(* shared_ptr that weak_ptr::lock() returned, and at the unlock.           *)
(*                                                                         *)
(* Snapshots are numbered by broadcast() call; their contents do not       *)
(* matter here.  Outcomes of asynchronous operations are chosen by the     *)
(* environment.  A WebSocket read that delivers a client message only      *)
(* starts the next read, which is no change of state, and is left out.     *)
(***************************************************************************)
EXTENDS Naturals, Sequences

CONSTANTS
  Sessions,   \* WsSession objects, one for each TCP connection accepted
  Readers,    \* those whose clients read what they are sent (for fairness)
  None,       \* no session
  MaxSeq      \* bound on the number of broadcasts

ASSUME NoneAssumption == None \notin Sessions
ASSUME ReadersAssumption == Readers \subseteq Sessions
ASSUME MaxSeqAssumption == MaxSeq \in Nat

VARIABLES
  running,    \* g_running
  mainPc,     \* where the main thread is
  seq,        \* number of broadcast() calls that took the registry mutex
  todo,       \* the sessions the running broadcast() has not visited
  sp,         \* the shared_ptr broadcast() holds, or None
  stopped,    \* ioc.stop() has been called
  ioPc,       \* where the io thread is
  ioSession,  \* the session whose handler is blocked on the registry mutex
  registry,   \* SessionRegistry::sessions_ (weak references)
  phase,      \* phase[s]: the operation s's main chain of handlers waits for
  posted,     \* posted[s]: snapshots in send() closures not yet run
  queue,      \* queue[s]: WsSession::queue_
  inflight,   \* inflight[s]: snapshots handed to an unfinished async_write
  up,         \* up[s]: the connection works (environment)
  got,        \* got[s]: snapshots written to the client, oldest first
  first       \* first[s]: the first broadcast after s registered, or 0
              \* (history: no step depends on it)

mainVars == <<running, mainPc, seq, todo, sp>>
ioVars   == <<stopped, ioPc, ioSession>>
sessVars == <<phase, posted, queue, inflight, up, got, first>>
vars     == <<mainVars, ioVars, registry, sessVars>>

-----------------------------------------------------------------------------
\* Phases in which a pending operation's handler holds a shared_ptr to the
\* session ("http": async_read of the request, "serving": async_write of the
\* file response, "upgrading": async_accept, "reading": WebSocket async_read).
Pending == {"http", "serving", "upgrading", "reading"}

\* References to s held by handlers: pending, posted, or running.
IoHolds(s) ==
  \/ phase[s] \in Pending
  \/ posted[s] # <<>>
  \/ inflight[s] # <<>>
  \/ ioSession = s

\* The WsSession object exists, so that weak_ptr::lock() succeeds.
Alive(s) == IoHolds(s) \/ sp = s

\* The main thread does not hold SessionRegistry::mutex_.  The io thread's
\* critical sections are single steps, so only the main thread can be seen
\* holding it.
\* Mutant: add() and remove() do not take the mutex.
NoMutex == TRUE
MutexFree == mainPc \notin {"iterating", "sent"}

\* The io thread is inside ioc.run(), between two handlers.
IoReady == ioPc = "idle" /\ ~stopped

Init ==
  /\ running = TRUE
  /\ mainPc = "head"
  /\ seq = 0
  /\ todo = {}
  /\ sp = None
  /\ stopped = FALSE
  /\ ioPc = "idle"
  /\ ioSession = None
  /\ registry = {}
  /\ phase = [s \in Sessions |-> "new"]
  /\ posted = [s \in Sessions |-> <<>>]
  /\ queue = [s \in Sessions |-> <<>>]
  /\ inflight = [s \in Sessions |-> <<>>]
  /\ up = [s \in Sessions |-> TRUE]
  /\ got = [s \in Sessions |-> <<>>]
  /\ first = [s \in Sessions |-> 0]

-----------------------------------------------------------------------------
(***************************************************************************)
(* The main thread.                                                        *)
(***************************************************************************)

\* while (g_running): collect() and serialize_snapshot() return.
Collect ==
  /\ mainPc = "head" /\ running
  /\ seq < MaxSeq
  /\ mainPc' = "collected"
  /\ UNCHANGED <<running, seq, todo, sp, ioVars, registry, sessVars>>

\* while (g_running): collect() or serialize_snapshot() throws; the error is
\* logged and this second's snapshot is given up.
CollectFails ==
  /\ mainPc = "head" /\ running
  /\ mainPc' = "sleeping"
  /\ UNCHANGED <<running, seq, todo, sp, ioVars, registry, sessVars>>

\* SessionRegistry::broadcast takes the mutex and begins its loop.
\* Mutant: clients still busy with the previous snapshot are passed over.
BroadcastLockSkipsBusy ==
  /\ mainPc = "collected"
  /\ mainPc' = "iterating"
  /\ seq' = seq + 1
  /\ todo' = {s \in registry : queue[s] = <<>>}
  /\ UNCHANGED <<running, sp, ioVars, registry, sessVars>>
BroadcastLock ==
  /\ mainPc = "collected"
  /\ mainPc' = "iterating"
  /\ seq' = seq + 1
  /\ todo' = registry
  /\ UNCHANGED <<running, sp, ioVars, registry, sessVars>>

\* One turn of the loop: a live session gets a closure posted by send(), an
\* expired entry is erased.  The set's order (by control block address) is
\* arbitrary.
BroadcastSend(s) ==
  /\ mainPc = "iterating" /\ s \in todo
  /\ todo' = todo \ {s}
  /\ IF Alive(s)
     THEN /\ mainPc' = "sent"
          /\ sp' = s
          /\ posted' = [posted EXCEPT ![s] = Append(@, seq)]
          /\ UNCHANGED registry
     ELSE /\ registry' = registry \ {s}
          /\ UNCHANGED <<mainPc, sp, posted>>
  /\ UNCHANGED <<running, seq, ioVars, phase, queue, inflight, up, got, first>>

\* The shared_ptr goes out of scope at the end of the turn.
BroadcastRelease ==
  /\ mainPc = "sent"
  /\ mainPc' = "iterating"
  /\ sp' = None
  /\ UNCHANGED <<running, seq, todo, ioVars, registry, sessVars>>

BroadcastUnlock ==
  /\ mainPc = "iterating" /\ todo = {}
  /\ mainPc' = "sleeping"
  /\ UNCHANGED <<running, seq, todo, sp, ioVars, registry, sessVars>>

\* The sleep ends: after ten naps of 100 ms, or at the first that finds
\* g_running false.
Wake ==
  /\ mainPc = "sleeping"
  /\ mainPc' = "head"
  /\ UNCHANGED <<running, seq, todo, sp, ioVars, registry, sessVars>>

\* The loop ends: ioc.stop().
\* Mutant: joining without stopping the io_context.
StopForgotten ==
  /\ mainPc = "head" /\ ~running
  /\ mainPc' = "joining"
  /\ UNCHANGED <<running, seq, todo, sp, ioVars, registry, sessVars>>
Stop ==
  /\ mainPc = "head" /\ ~running
  /\ mainPc' = "joining"
  /\ stopped' = TRUE
  /\ UNCHANGED <<running, seq, todo, sp, ioPc, ioSession, registry, sessVars>>

\* io_thread.join() returns and so does main.
Join ==
  /\ mainPc = "joining" /\ ioPc \in {"returned", "failed"}
  /\ mainPc' = "exited"
  /\ UNCHANGED <<running, seq, todo, sp, ioVars, registry, sessVars>>

\* SIGINT or SIGTERM, at any time.
SignalHandler ==
  /\ running /\ mainPc # "exited"
  /\ running' = FALSE
  /\ UNCHANGED <<mainPc, seq, todo, sp, ioVars, registry, sessVars>>

-----------------------------------------------------------------------------
(***************************************************************************)
(* The io thread: accepting a connection and its HTTP phase.               *)
(***************************************************************************)

\* s's chain of handlers moves from one pending operation to the next.
Moves(s, from, to) ==
  /\ IoReady /\ phase[s] = from
  /\ phase' = [phase EXCEPT ![s] = to]
  /\ UNCHANGED <<posted, queue, inflight, up, got, first>>

\* do_accept's handler: make a WsSession, run() it (start reading the HTTP
\* request), accept again.  A failed accept only accepts again.
DoAccept(s) ==
  /\ Moves(s, "new", "http")
  /\ UNCHANGED <<mainVars, ioVars, registry>>

\* on_read_http fails: 30 s timeout, malformed request, connection lost.
OnReadHttpError(s) ==
  /\ Moves(s, "http", "done")
  /\ UNCHANGED <<mainVars, ioVars, registry>>

\* on_read_http: an upgrade request goes to do_accept_ws.
OnReadHttpUpgrade(s) ==
  /\ Moves(s, "http", "upgrading")
  /\ UNCHANGED <<mainVars, ioVars, registry>>

\* on_read_http: any other request is answered with serve_file's response.
OnReadHttpFile(s) ==
  /\ Moves(s, "http", "serving")
  /\ UNCHANGED <<mainVars, ioVars, registry>>

\* on_read_http: serve_file throws (read_file on a directory throws
\* ios_base::failure; filesystem::exists throws filesystem_error).  No handler
\* catches, ioc.run() throws, main's io_thread lambda logs it and the thread
\* ends.
OnReadHttpThrows(s) ==
  /\ Moves(s, "http", "done")
  /\ ioPc' = "failed"
  /\ UNCHANGED <<mainVars, stopped, ioSession, registry>>

\* The file response is written, or cannot be: its handler closes the socket.
OnWriteHttp(s) ==
  /\ Moves(s, "serving", "done")
  /\ UNCHANGED <<mainVars, ioVars, registry>>

\* on_accept_ws with an error: nothing refers to the session any more.
OnAcceptWsError(s) ==
  /\ Moves(s, "upgrading", "done")
  /\ UNCHANGED <<mainVars, ioVars, registry>>

\* on_accept_ws without error, up to the registry mutex.
OnAcceptWs(s) ==
  /\ Moves(s, "upgrading", "accepted")
  /\ ioPc' = "add"
  /\ ioSession' = s
  /\ UNCHANGED <<mainVars, stopped, registry>>

\* on_accept_ws from there on: SessionRegistry::add, then do_ws_read.
RegistryAdd(s) ==
  /\ ioPc = "add" /\ ioSession = s
  /\ MutexFree
  /\ registry' = registry \cup {s}
  /\ phase' = [phase EXCEPT ![s] = "reading"]
  /\ first' = [first EXCEPT ![s] = seq + 1]
  /\ ioPc' = "idle"
  /\ ioSession' = None
  /\ UNCHANGED <<mainVars, stopped, posted, queue, inflight, up, got>>

-----------------------------------------------------------------------------
(***************************************************************************)
(* The io thread: an open WebSocket session.                               *)
(***************************************************************************)

\* The async_write calls send()'s closure makes for the snapshot msg it has
\* just queued: one if the queue was empty (msg is then its front).
\* Mutant: was_empty taken as true.
WriteAlways(q, msg) == <<msg>>
WriteIfEmpty(q, msg) == IF q = <<>> THEN <<msg>> ELSE <<>>

\* The async_write calls of on_ws_write, given the queue it has just popped.
\* Mutants: the chain of writes is not continued; queue_.front() is written
\* without asking whether the queue is empty, where there is no snapshot (0).
WriteNothing(q) == <<>>
WriteFrontUnasked(q) == IF q = <<>> THEN <<0>> ELSE <<Head(q)>>
WriteFront(q) == IF q = <<>> THEN <<>> ELSE <<Head(q)>>

\* The closure posted by send(): queue the snapshot, perhaps start a write.
\* Mutant: push_front for push_back.
RunSendPushFront(s) ==
  LET msg == Head(posted[s]) IN
  /\ IoReady /\ posted[s] # <<>>
  /\ posted' = [posted EXCEPT ![s] = Tail(@)]
  /\ queue' = [queue EXCEPT ![s] = <<msg>> \o @]
  /\ inflight' = [inflight EXCEPT ![s] = @ \o WriteIfEmpty(queue[s], msg)]
  /\ UNCHANGED <<mainVars, ioVars, registry, phase, up, got, first>>
RunSend(s) ==
  LET msg == Head(posted[s]) IN
  /\ IoReady /\ posted[s] # <<>>
  /\ posted' = [posted EXCEPT ![s] = Tail(@)]
  /\ queue' = [queue EXCEPT ![s] = Append(@, msg)]
  /\ inflight' = [inflight EXCEPT ![s] = @ \o WriteIfEmpty(queue[s], msg)]
  /\ UNCHANGED <<mainVars, ioVars, registry, phase, up, got, first>>

\* on_ws_write without error: pop the front, write the next if there is one.
\* Mutant: pop_front is forgotten.
OnWsWriteKeepsFront(s) ==
  /\ IoReady /\ inflight[s] # <<>>
  /\ got' = [got EXCEPT ![s] = Append(@, Head(inflight[s]))]
  /\ inflight' = [inflight EXCEPT ![s] = Tail(@) \o WriteFront(queue[s])]
  /\ UNCHANGED <<mainVars, ioVars, registry, phase, posted, queue, up, first>>
OnWsWrite(s) ==
  LET rest == Tail(queue[s]) IN
  /\ IoReady /\ inflight[s] # <<>>
  /\ got' = [got EXCEPT ![s] = Append(@, Head(inflight[s]))]
  /\ queue' = [queue EXCEPT ![s] = rest]
  /\ inflight' = [inflight EXCEPT ![s] = Tail(@) \o WriteFront(rest)]
  /\ UNCHANGED <<mainVars, ioVars, registry, phase, posted, up, first>>

\* on_ws_write with an error, up to the registry mutex: the queue keeps its
\* front, so no later send() starts a write.
OnWsWriteError(s) ==
  /\ IoReady /\ inflight[s] # <<>> /\ ~up[s]
  /\ inflight' = [inflight EXCEPT ![s] = Tail(@)]
  /\ ioPc' = "remove"
  /\ ioSession' = s
  /\ UNCHANGED <<mainVars, stopped, registry,
                 phase, posted, queue, up, got, first>>

\* on_ws_read with an error, up to the registry mutex: no read follows.
\* Mutants: the session is not removed; the read is started again.
OnWsReadErrorKeepsEntry(s) ==
  /\ Moves(s, "reading", "done") /\ ~up[s]
  /\ UNCHANGED <<mainVars, ioVars, registry>>
OnWsReadErrorReadsAgain(s) ==
  /\ IoReady /\ phase[s] = "reading" /\ ~up[s]
  /\ ioPc' = "remove"
  /\ ioSession' = s
  /\ UNCHANGED <<mainVars, stopped, registry, sessVars>>
OnWsReadError(s) ==
  /\ Moves(s, "reading", "done") /\ ~up[s]
  /\ ioPc' = "remove"
  /\ ioSession' = s
  /\ UNCHANGED <<mainVars, stopped, registry>>

\* SessionRegistry::remove, and the end of the handler that called it.
RegistryRemove(s) ==
  /\ ioPc = "remove" /\ ioSession = s
  /\ MutexFree
  /\ registry' = registry \ {s}
  /\ ioPc' = "idle"
  /\ ioSession' = None
  /\ UNCHANGED <<mainVars, stopped, sessVars>>

\* ioc.run() returns after ioc.stop(), once no handler is running.
IoReturn ==
  /\ ioPc = "idle" /\ stopped
  /\ ioPc' = "returned"
  /\ UNCHANGED <<mainVars, stopped, ioSession, registry, sessVars>>

\* The client closes, or the connection is lost, or Beast's idle timeout
\* (stream_base::timeout::suggested) gives the client up.
ConnectionEnds(s) ==
  /\ up[s] /\ phase[s] # "new" /\ mainPc # "exited"
  /\ up' = [up EXCEPT ![s] = FALSE]
  /\ UNCHANGED <<mainVars, ioVars, registry,
                 phase, posted, queue, inflight, got, first>>

\* main has returned: the process is gone.
Exited == mainPc = "exited" /\ UNCHANGED vars

-----------------------------------------------------------------------------
MainThread ==
  \/ Collect \/ CollectFails
  \/ BroadcastLock
  \/ \E s \in Sessions : BroadcastSend(s)
  \/ BroadcastRelease \/ BroadcastUnlock
  \/ Wake \/ Stop \/ Join

Handler(s) ==
  \/ DoAccept(s)
  \/ OnReadHttpError(s) \/ OnReadHttpUpgrade(s)
  \/ OnReadHttpFile(s) \/ OnReadHttpThrows(s) \/ OnWriteHttp(s)
  \/ OnAcceptWsError(s) \/ OnAcceptWs(s) \/ RegistryAdd(s)
  \/ RunSend(s)
  \/ OnWsWrite(s) \/ OnWsWriteError(s)
  \/ OnWsReadError(s) \/ RegistryRemove(s)

IoThread == IoReturn \/ \E s \in Sessions : Handler(s)

Environment == SignalHandler \/ \E s \in Sessions : ConnectionEnds(s)

Next == MainThread \/ IoThread \/ Environment \/ Exited

Spec == Init /\ [][Next]_vars

(***************************************************************************)
(* Fairness.  The main thread keeps running.  The io thread runs handlers  *)
(* in the order they become ready, so one that stays ready is run; blocked *)
(* on the registry mutex it gets it, since the main thread holds it for an *)
(* instant each second.  A write on a broken connection fails; one on a    *)
(* working connection ends if the client is one that reads.  Nothing is    *)
(* assumed of the other clients, of the HTTP phase, of connections ending, *)
(* of signals or of exceptions.  Weak fairness is enough: a session blocks *)
(* the io thread three times at most.                                      *)
(***************************************************************************)
IoFairness(s) ==
  /\ WF_vars(RegistryAdd(s) \/ RegistryRemove(s))
  /\ WF_vars(RunSend(s))
  /\ WF_vars(OnWsWriteError(s))
  /\ s \in Readers => WF_vars(OnWsWrite(s))
  /\ WF_vars(OnWsReadError(s))

Fairness ==
  /\ WF_vars(MainThread) /\ WF_vars(IoReturn)
  /\ \A s \in Sessions : IoFairness(s)

FairSpec == Spec /\ Fairness

-----------------------------------------------------------------------------
(***************************************************************************)
(* Properties.                                                             *)
(***************************************************************************)
Snapshots == 1..MaxSeq

\* The values the variables take; in particular only snapshots are written to a
\* client, never what the front of an empty queue_ happens to be.
TypeOK ==
  /\ running \in BOOLEAN /\ stopped \in BOOLEAN
  /\ mainPc \in {"head", "collected", "iterating", "sent", "sleeping",
                 "joining", "exited"}
  /\ seq \in 0..MaxSeq
  /\ todo \subseteq Sessions /\ registry \subseteq Sessions
  /\ sp \in Sessions \cup {None} /\ ioSession \in Sessions \cup {None}
  /\ ioPc \in {"idle", "add", "remove", "returned", "failed"}
  /\ phase \in [Sessions -> Pending \cup {"new", "accepted", "done"}]
  /\ posted \in [Sessions -> Seq(Snapshots)]
  /\ queue \in [Sessions -> Seq(Snapshots)]
  /\ inflight \in [Sessions -> Seq(Snapshots)]
  /\ got \in [Sessions -> Seq(Snapshots)]
  /\ up \in [Sessions -> BOOLEAN]
  /\ first \in [Sessions -> 0..MaxSeq + 1]

\* What a client has been sent, what waits in its session's queue and what
\* waits in the io_context for that session, oldest first.
Stream(s) == got[s] \o queue[s] \o posted[s]

\* A client sees consecutive snapshots in the order broadcast() published
\* them, beginning with the first after it registered: none is repeated,
\* overtaken or left out on its way through send(), queue_ and on_ws_write.
InOrder ==
  \A s \in Sessions : \A i \in DOMAIN Stream(s) :
    Stream(s)[i] = first[s] + i - 1

\* A registered client has been posted every snapshot since it registered,
\* but for the one a running broadcast() has still to give it: the registry
\* mutex leaves no instant at which add() and broadcast() miss each other.
NoneMissed ==
  \A s \in registry :
    first[s] + Len(Stream(s)) = IF s \in todo THEN seq ELSE seq + 1

\* A stream never has two writes outstanding (WebSocketServer.hpp:49-51), and
\* the string being written is kept alive by the front of queue_.
OneWriteInFlight ==
  \A s \in Sessions :
    inflight[s] # <<>> =>
      Len(inflight[s]) = 1 /\ queue[s] # <<>> /\ inflight[s][1] = queue[s][1]

\* No lost wakeup: while the connection works a non-empty queue has a write
\* under way, so it is emptied without waiting for another broadcast.
NoStalledQueue ==
  \A s \in Sessions : up[s] /\ queue[s] # <<>> => inflight[s] # <<>>

\* The registry holds no expired weak_ptr: a session leaves it before its
\* last handler ends, so broadcast() never finds an entry to erase.
NoExpiredEntry == \A s \in registry : Alive(s)

\* While broadcast() holds a session and the mutex, some handler holds the
\* session too: the main thread never destroys a WsSession (and its socket)
\* inside the critical section, concurrently with the io thread.
MainNeverLastOwner == sp # None => IoHolds(sp)

\* A session's membership, and the last snapshot it is owed once it has left.
Status ==
  [s \in Sessions |->
     IF s \in registry THEN "in" ELSE IF first[s] = 0 THEN "out" ELSE "left"]
Last ==
  [s \in Sessions |->
     IF s \in registry \/ first[s] = 0 THEN 0
     ELSE first[s] + Len(Stream(s)) - 1]

\* The promise of FanOut, kept by threads, mutex, queues and handlers.
FO == INSTANCE FanOut WITH
        published <- seq, status <- Status, first <- first, last <- Last,
        received <- got
FanOutSpec == FO!Spec

\* A client that reads gets all that is published while it is registered,
\* however slow the other clients are (their queues grow without limit, in
\* the io thread that serves all), unless its connection fails, the program is
\* told to stop, or the io thread has died.
PublishedIsDelivered ==
  \A s \in Readers : \A m \in Snapshots :
    (s \in registry /\ first[s] <= m /\ m <= seq)
      ~> \/ \E i \in DOMAIN got[s] : got[s][i] = m
         \/ ~up[s] \/ ~running \/ ioPc = "failed"

\* "A new JSON snapshot is broadcast to every connected WebSocket client"
\* (main.cpp:15-16), whatever other clients request.
EveryClientIsServed ==
  \A s \in Readers : \A m \in Snapshots :
    (s \in registry /\ first[s] <= m /\ m <= seq)
      ~> \/ \E i \in DOMAIN got[s] : got[s][i] = m
         \/ ~up[s] \/ ~running

\* A registered session whose connection has failed leaves the registry and
\* is destroyed, whatever it still had to write, unless the io thread stops.
DeadSessionIsReclaimed ==
  \A s \in Sessions :
    (s \in registry /\ ~up[s])
      ~> (s \notin registry /\ ~Alive(s)) \/ stopped \/ ioPc = "failed"

\* SIGINT or SIGTERM ends the process, even if broadcast() or a handler
\* blocked on the registry mutex is in the way.
ShutdownCompletes == ~running ~> mainPc = "exited"
=============================================================================
