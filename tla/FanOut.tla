------------------------------- MODULE FanOut -------------------------------
(***************************************************************************)
(* What the KvadraTop backend promises its WebSocket clients, without the  *)
(* threads, locks, queues and sockets that deliver it: the publisher       *)
(* numbers its snapshots 1, 2, 3, ...; a client that joins is owed every   *)
(* snapshot published from then on until it leaves, and is handed them one *)
(* by one in that order, none repeated and none skipped.  Nothing says     *)
(* when a snapshot arrives, so a slow client only delays itself.           *)
(*                                                                         *)
(* WebSocketServer implements this module (see its FanOutSpec).            *)
(***************************************************************************)
EXTENDS Integers, Sequences

CONSTANT Sessions   \* client connections; each joins at most once

VARIABLES
  published,   \* number of snapshots published so far
  status,      \* status[s]: "out" (not yet a member), "in" or "left"
  first,       \* first[s]: the first snapshot s is owed; 0 before it joins
  last,        \* last[s]: the last snapshot s is owed; 0 before it leaves
  received     \* received[s]: the snapshots handed to s, oldest first

vars == <<published, status, first, last, received>>

Init ==
  /\ published = 0
  /\ status = [s \in Sessions |-> "out"]
  /\ first = [s \in Sessions |-> 0]
  /\ last = [s \in Sessions |-> 0]
  /\ received = [s \in Sessions |-> <<>>]

\* The snapshot every present member is now owed.
Publish ==
  /\ published' = published + 1
  /\ UNCHANGED <<status, first, last, received>>

Join(s) ==
  /\ status[s] = "out"
  /\ status' = [status EXCEPT ![s] = "in"]
  /\ first' = [first EXCEPT ![s] = published + 1]
  /\ UNCHANGED <<published, last, received>>

Leave(s) ==
  /\ status[s] = "in"
  /\ status' = [status EXCEPT ![s] = "left"]
  /\ last' = [last EXCEPT ![s] = published]
  /\ UNCHANGED <<published, first, received>>

\* The next snapshot s has not had yet.
NextFor(s) == first[s] + Len(received[s])

\* Snapshots already under way when a client leaves may still reach it.
Deliver(s) ==
  /\ \/ status[s] = "in" /\ NextFor(s) <= published
     \/ status[s] = "left" /\ NextFor(s) <= last[s]
  /\ received' = [received EXCEPT ![s] = Append(@, NextFor(s))]
  /\ UNCHANGED <<published, status, first, last>>

Next ==
  \/ Publish
  \/ \E s \in Sessions : Join(s) \/ Leave(s) \/ Deliver(s)

Spec == Init /\ [][Next]_vars

-----------------------------------------------------------------------------
\* What this comes to for a client: it has been handed consecutive snapshots,
\* the first being the first one published after it joined, and none that was
\* published after it left.
Promise ==
  \A s \in Sessions :
    /\ \A i \in DOMAIN received[s] : received[s][i] = first[s] + i - 1
    /\ Len(received[s]) > 0 =>
         /\ status[s] # "out"
         /\ NextFor(s) - 1 <= IF status[s] = "left" THEN last[s] ELSE published
    /\ status[s] = "left" => last[s] <= published
=============================================================================
