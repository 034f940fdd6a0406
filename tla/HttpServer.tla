----------------------------- MODULE HttpServer ------------------------------
(***************************************************************************)
(* The HTTP side of the backend: do_accept, the HTTP phase of a WsSession  *)
(* and serve_file, against clients that may say nothing, a file system     *)
(* that a rebuild of the frontend changes, and a process that runs out of  *)
(* descriptors.  WebSocketServer has the same handlers, with the other     *)
(* thread and without files, timers and descriptors.                       *)
(*                                                                         *)
(* All requests are for one path below static_root, or for one outside it. *)
(* A handler is one step; serve_file looks at the path twice, and the file *)
(* system may change in between.                                           *)
(***************************************************************************)
EXTENDS Naturals, Sequences, FiniteSets

CONSTANTS
  Clients,    \* connections of clients, one at a time each
  MaxFds      \* descriptors the process may have open for connections and,
              \* while it reads one, a file

ASSUME MaxFdsAssumption == MaxFds \in Nat

VARIABLES
  backlog,    \* connections the kernel holds for accept(), oldest first
  accepting,  \* an async_accept is outstanding
  phase,      \* phase[c]: what c's session waits for
  deadline,   \* deadline[c]: a timer will end that wait
  reply,      \* reply[c]: the response being written to c
  keep,       \* keep[c]: by that response the connection may be used again
              \* (its keep_alive, copied from the request, or the default)
  ioFailed,   \* an exception has left ioc.run()
  file        \* what is found at the path

sessionVars == <<phase, deadline, reply, keep>>
vars        == <<backlog, accepting, sessionVars, ioFailed, file>>

FileStates == {"absent", "empty", "text", "locked", "directory"}

Waiting == {"http", "writing", "upgrading"}

\* A descriptor is left.
Spare == Cardinality({c \in Clients : phase[c] \in Waiting \cup {"ws"}}) < MaxFds

Init ==
  /\ backlog = <<>> /\ accepting = TRUE
  /\ phase = [c \in Clients |-> "away"]
  /\ deadline = [c \in Clients |-> FALSE]
  /\ reply = [c \in Clients |-> "none"]
  /\ keep = [c \in Clients |-> FALSE]
  /\ ioFailed = FALSE
  /\ file \in FileStates

-----------------------------------------------------------------------------
\* c's session goes on waiting for to, with or without a timer.
WaitFor(c, to, timed) ==
  /\ phase' = [phase EXCEPT ![c] = to]
  /\ deadline' = [deadline EXCEPT ![c] = timed]

\* The io thread runs the handler of what c's session waits for.
At(c, p) == ~ioFailed /\ phase[c] = p

\* do_accept's handler: run() the session, accept again.
\* Mutant: run() sets no timer.
AcceptUntimed ==
  /\ ~ioFailed /\ accepting /\ backlog # <<>> /\ Spare
  /\ WaitFor(Head(backlog), "http", FALSE)
  /\ backlog' = Tail(backlog)
  /\ UNCHANGED <<accepting, reply, keep, ioFailed, file>>
Accept ==
  /\ ~ioFailed /\ accepting /\ backlog # <<>> /\ Spare
  /\ WaitFor(Head(backlog), "http", TRUE)
  /\ backlog' = Tail(backlog)
  /\ UNCHANGED <<accepting, reply, keep, ioFailed, file>>

\* do_accept's handler with an error, such as no descriptor: accept again.
\* Mutant: it returns instead.
AcceptGivesUp ==
  /\ ~ioFailed /\ accepting /\ backlog # <<>> /\ ~Spare
  /\ accepting' = FALSE
  /\ UNCHANGED <<backlog, sessionVars, ioFailed, file>>
AcceptFails ==
  /\ ~ioFailed /\ accepting /\ backlog # <<>> /\ ~Spare
  /\ accepting' = TRUE
  /\ UNCHANGED <<backlog, sessionVars, ioFailed, file>>

\* The response answer is about to be written to c.
Respond(c, answer) ==
  /\ WaitFor(c, "writing", TRUE)
  /\ reply' = [reply EXCEPT ![c] = answer]
  /\ \E k \in BOOLEAN : keep' = [keep EXCEPT ![c] = k]

\* on_read_http: a request for a path outside static_root.
ReadForbidden(c) ==
  /\ At(c, "http")
  /\ Respond(c, "forbidden")
  /\ UNCHANGED <<backlog, accepting, ioFailed, file>>

\* on_read_http: serve_file reads the file's text.
ReadText(c) ==
  /\ At(c, "http")
  /\ Spare /\ file = "text"
  /\ Respond(c, "text")
  /\ UNCHANGED <<backlog, accepting, ioFailed, file>>

\* Reading a directory throws, and no handler catches the exception.  (So does
\* exists(), of a path the system refuses to look up, which is left out.)
ReadThrows(c) ==
  /\ At(c, "http")
  /\ Spare /\ file = "directory"
  /\ ioFailed' = TRUE
  /\ WaitFor(c, "away", FALSE)
  /\ UNCHANGED <<backlog, accepting, reply, keep, file>>

\* read_file returns nothing: the file is not there, is empty or cannot be
\* opened.  serve_file looks again, whether the path is there.
\* Mutant: an empty body is taken for a missing file.
ReadNothingMissing(c) ==
  /\ At(c, "http")
  /\ Spare => file \in {"absent", "empty", "locked"}
  /\ file' \in FileStates
  /\ Respond(c, "notFound")
  /\ UNCHANGED <<backlog, accepting, ioFailed>>
ReadNothing(c) ==
  /\ At(c, "http")
  /\ Spare => file \in {"absent", "empty", "locked"}
  /\ file' \in FileStates
  /\ Respond(c, IF file' = "absent" THEN "notFound" ELSE "empty")
  /\ UNCHANGED <<backlog, accepting, ioFailed>>

\* The response is written: the handler closes the socket.
WriteDone(c) ==
  /\ At(c, "writing")
  /\ WaitFor(c, "answered", FALSE)
  /\ reply' = [reply EXCEPT ![c] = "none"]
  /\ UNCHANGED <<backlog, accepting, keep, ioFailed, file>>

\* on_read_http: an upgrade request.  The stream's own timer is turned off,
\* timeout::suggested sets one for the handshake.
\* Mutant: without timeout::suggested.
ReadUpgradeUntimed(c) ==
  /\ At(c, "http")
  /\ WaitFor(c, "upgrading", FALSE)
  /\ UNCHANGED <<backlog, accepting, reply, keep, ioFailed, file>>
ReadUpgrade(c) ==
  /\ At(c, "http")
  /\ WaitFor(c, "upgrading", TRUE)
  /\ UNCHANGED <<backlog, accepting, reply, keep, ioFailed, file>>

\* on_accept_ws: an idle connection is kept as long as it answers pings.
AcceptWs(c) ==
  /\ At(c, "upgrading")
  /\ WaitFor(c, "ws", FALSE)
  /\ UNCHANGED <<backlog, accepting, reply, keep, ioFailed, file>>

\* c's operation ends with an error, and nothing holds the session any more.
Fails(c) ==
  /\ ~ioFailed
  /\ WaitFor(c, "away", FALSE)
  /\ reply' = [reply EXCEPT ![c] = "none"]
  /\ keep' = [keep EXCEPT ![c] = FALSE]
  /\ UNCHANGED <<backlog, accepting, ioFailed, file>>

\* The client or the network ends the connection; or the timer does.
Hangup(c) == phase[c] \in Waiting \cup {"ws"} /\ Fails(c)
Expires(c) == phase[c] \in Waiting /\ deadline[c] /\ Fails(c)

-----------------------------------------------------------------------------
\* A client connects; one that was answered before sees the old connection
\* closed.
Connects(c) ==
  /\ phase[c] \in {"away", "answered"}
  /\ phase' = [phase EXCEPT ![c] = "backlog"]
  /\ backlog' = Append(backlog, c)
  /\ keep' = [keep EXCEPT ![c] = FALSE]
  /\ UNCHANGED <<accepting, deadline, reply, ioFailed, file>>

\* A rebuild of the frontend, or its owner, changes what is at the path.
FileChanges ==
  /\ file' \in FileStates \ {file}
  /\ UNCHANGED <<backlog, accepting, sessionVars, ioFailed>>

-----------------------------------------------------------------------------
Next ==
  \/ Accept \/ AcceptFails \/ FileChanges
  \/ \E c \in Clients :
       \/ ReadForbidden(c) \/ ReadText(c) \/ ReadThrows(c) \/ ReadNothing(c)
       \/ ReadUpgrade(c) \/ AcceptWs(c) \/ WriteDone(c)
       \/ Hangup(c) \/ Expires(c) \/ Connects(c)

(***************************************************************************)
(* Fairness.  A handler that is ready is run, and timers expire.  Nothing  *)
(* is assumed of the clients: they may never send, read or close.          *)
(***************************************************************************)
Spec ==
  /\ Init /\ [][Next]_vars
  /\ WF_vars(Accept)
  /\ \A c \in Clients : WF_vars(Expires(c))

-----------------------------------------------------------------------------
\* The values the variables take: a client is in the backlog once, while it is
\* to be accepted; all waits but that of an open WebSocket are timed.
TypeOK ==
  /\ phase \in [Clients -> Waiting \cup {"away", "backlog", "answered", "ws"}]
  /\ \A c \in Clients :
       /\ Cardinality({i \in DOMAIN backlog : backlog[i] = c})
            = IF phase[c] = "backlog" THEN 1 ELSE 0
       /\ deadline[c] <=> phase[c] \in Waiting
       /\ reply[c] # "none" <=> phase[c] = "writing"
  /\ reply \in [Clients -> {"none", "forbidden", "notFound", "empty", "text"}]
  /\ accepting \in BOOLEAN
  /\ keep \in [Clients -> BOOLEAN]
  /\ ioFailed \in BOOLEAN /\ file \in FileStates

\* A file that is there all the time is never answered with 404, and one that
\* has a text, may be read and does not appear just then never with an empty
\* page, unless the process is out of descriptors.
AnswerIsTrue ==
  [][\A c \in Clients : reply'[c] # reply[c] =>
       /\ reply'[c] = "notFound" => "absent" \in {file, file'}
       /\ reply'[c] = "empty" =>
            ~Spare \/ {file, file'} \cap {"absent", "empty", "locked"} # {}]_vars

\* A client that says nothing, reads nothing or never completes its handshake
\* does not keep its session and descriptor for ever.
IdleSessionsEnd ==
  \A c \in Clients :
    phase[c] \in Waiting ~> phase[c] \notin Waiting \/ ioFailed

\* Running out of descriptors is got over: a client in the backlog is accepted
\* in the end, unless open WebSockets have taken them all.
AcceptRecovers ==
  \A c \in Clients :
    phase[c] = "backlog" ~>
      \/ phase[c] # "backlog" \/ ioFailed
      \/ Cardinality({d \in Clients : phase[d] = "ws"}) = MaxFds

\* "Close after response unless keep-alive was negotiated"
\* (WebSocketServer.cpp:90): a client that was answered with keep-alive still
\* has its connection.
KeepAliveIsKept == \A c \in Clients : phase[c] = "answered" => ~keep[c]
=============================================================================
