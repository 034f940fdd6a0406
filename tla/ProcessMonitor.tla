--------------------------- MODULE ProcessMonitor ---------------------------
(***************************************************************************)
(* ProcessMonitor::sample(): the processes of the machine ranked by their  *)
(* share of the CPU ticks since the last sample.  The kernel does not wait *)
(* for it: processes run, exit and start, perhaps under the pid of one     *)
(* that has gone, between the reading of /proc/stat, the opening of /proc  *)
(* and the reading of each /proc/<pid>/stat.                               *)
(*                                                                         *)
(* A percentage is kept as its two parts, the ticks of the process and the *)
(* ticks of the machine.  Names, users, memory and uptime of a process     *)
(* are read afresh each time and left out.                                 *)
(***************************************************************************)
EXTENDS Integers, FiniteSets, Functions

CONSTANTS
  MaxPid,      \* pids are 1..MaxPid, in the order readdir() lists them
  Rows,        \* the length of the list returned (20)
  MaxTicks     \* bound on the ticks that pass

ASSUME MaxPidAssumption == MaxPid \in Nat
ASSUME RowsAssumption == Rows \in Nat \ {0}
ASSUME MaxTicksAssumption == MaxTicks \in Nat

VARIABLES
  total,       \* ticks of the machine, /proc/stat
  ticks,       \* ticks[p]: utime + stime of p, for the processes p that exist
  pc,          \* "idle", "opening" or "scanning"
  cursor,      \* the pid readdir() comes to next
  currTotal,   \* curr_total_ticks
  prevTotal,   \* prev_total_ticks_
  prev,        \* prev_: ticks at their last reading of the pids known
  entries,     \* entries: ticks since then of the processes read so far
  top,         \* the processes sample() returned
  statFailed,  \* /proc/stat could not be read for this sample (history)
  readAt,      \* total when this sample came to read /proc/stat (history)
  sampledAt,   \* the same for the last complete sample or, before the first,
               \* the constructor (history)
  prevFailed,  \* that reading failed (history)
  used,        \* used[p]: ticks of all processes that had pid p (history)
  counted,     \* counted[p]: sum of the ticks reported for pid p (history)
  steady       \* steady[p]: ticks and counted ticks at the first reading of the
               \* process that is p now, if no scan since missed it (history)

kernelVars == <<total, ticks, used>>
whenVars   == <<statFailed, readAt, sampledAt, prevFailed>>
scanVars   == <<pc, cursor, currTotal, prevTotal, prev, entries, top,
                whenVars, counted>>
vars       == <<kernelVars, scanVars, steady>>

Pids == 1..MaxPid
Alive == DOMAIN ticks
Without(f, p) == Restrict(f, DOMAIN f \ {p})
With(f, p, v) == [q \in DOMAIN f \cup {p} |-> IF q = p THEN v ELSE f[q]]

\* The constructor reads /proc/stat, if it can, but no process.
Init ==
  /\ total \in 0..MaxTicks
  /\ ticks \in UNION {[alive -> {0}] : alive \in SUBSET Pids}
  /\ pc = "idle" /\ cursor = 1
  /\ currTotal = 0
  /\ prevTotal \in {0, total} /\ prevFailed = (prevTotal # total)
  /\ readAt = total /\ sampledAt = total
  /\ prev = [p \in {} |-> 0] /\ entries = [p \in {} |-> 0] /\ top = {}
  /\ statFailed = FALSE
  /\ used = [p \in Pids |-> 0]
  /\ counted = [p \in Pids |-> 0]
  /\ steady = [p \in {} |-> 0]

-----------------------------------------------------------------------------
(***************************************************************************)
(* The kernel.                                                             *)
(***************************************************************************)

\* A tick passes, idle or in a process.
Tick ==
  /\ total < MaxTicks
  /\ total' = total + 1
  /\ \/ UNCHANGED <<ticks, used>>
     \/ \E p \in Alive :
          /\ ticks' = [ticks EXCEPT ![p] = @ + 1]
          /\ used' = [used EXCEPT ![p] = @ + 1]
  /\ UNCHANGED <<scanVars, steady>>

\* A process starts under a free pid.
Spawn(p) ==
  /\ p \notin Alive
  /\ ticks' = With(ticks, p, 0)
  /\ UNCHANGED <<total, used, scanVars, steady>>

Exit(p) ==
  /\ p \in Alive
  /\ ticks' = Without(ticks, p)
  /\ steady' = Without(steady, p)
  /\ UNCHANGED <<total, used, scanVars>>

-----------------------------------------------------------------------------
(***************************************************************************)
(* sample().                                                               *)
(***************************************************************************)

\* total_delta: 1 if the ticks have not advanced.
TotalDelta == IF currTotal > prevTotal THEN currTotal - prevTotal ELSE 1

\* proc_delta of a process with t ticks whose pid had p before.
\* Mutants: a pid known from before takes all its ticks as new; no guard
\* against a counter that went backwards.
ProcDeltaAll(t, p) == t
ProcDeltaSigned(t, p) == t - p
ProcDelta(t, p) == IF t >= p THEN t - p ELSE 0

\* The cache once the scan is over.
\* Mutant: pids that no longer exist are not erased.
PrunedNot == prev
Pruned == Restrict(prev, DOMAIN prev \cap DOMAIN entries)

\* read_total_cpu_ticks(), which returns 0 if /proc/stat cannot be read.
ReadTotal ==
  /\ pc = "idle"
  /\ pc' = "opening"
  /\ \E ok \in BOOLEAN :
       /\ currTotal' = IF ok THEN total ELSE 0
       /\ statFailed' = ~ok
  /\ readAt' = total
  /\ UNCHANGED <<kernelVars, cursor, prevTotal, prev, entries, top, sampledAt,
                 prevFailed, counted, steady>>

\* opendir() succeeds.
Open ==
  /\ pc = "opening"
  /\ pc' = "scanning"
  /\ cursor' = 1
  /\ entries' = [p \in {} |-> 0]
  /\ UNCHANGED <<kernelVars, currTotal, prevTotal, prev, top, whenVars,
                 counted, steady>>

\* opendir() fails: an empty list is returned.
\* Mutant: prev_total_ticks_ is advanced nevertheless.
OpenFailsLate ==
  /\ pc = "opening"
  /\ pc' = "idle"
  /\ entries' = [p \in {} |-> 0] /\ top' = {}
  /\ prevTotal' = currTotal
  /\ UNCHANGED <<kernelVars, cursor, currTotal, prev, whenVars, counted, steady>>
OpenFails ==
  /\ pc = "opening"
  /\ pc' = "idle"
  /\ entries' = [p \in {} |-> 0] /\ top' = {}
  /\ UNCHANGED <<kernelVars, cursor, currTotal, prevTotal, prev, whenVars,
                 counted, steady>>

\* One turn of the loop over /proc: the process is read.  One that was not
\* known starts with no ticks.
\* Mutant: prev_ keeps the first reading of a pid.
NewPrevOnce(p) == IF p \in DOMAIN prev THEN prev ELSE With(prev, p, ticks[p])
NewPrev(p) == With(prev, p, ticks[p])

ReadProc(p) ==
  LET delta == IF p \in DOMAIN prev THEN ProcDelta(ticks[p], prev[p]) ELSE 0 IN
  /\ pc = "scanning" /\ cursor = p /\ p \in Alive
  /\ cursor' = p + 1
  /\ entries' = With(entries, p, delta)
  /\ prev' = NewPrev(p)
  /\ counted' = [counted EXCEPT ![p] = @ + delta]
  /\ steady' = IF p \in DOMAIN steady THEN steady
               ELSE With(steady, p, [from |-> ticks[p],
                                     counted |-> counted[p] + delta])
  /\ UNCHANGED <<kernelVars, pc, currTotal, prevTotal, top, whenVars>>

\* One turn of the loop over /proc: there is no such process, it is gone when
\* its file is opened, or the file cannot be opened.
SkipProc(p) ==
  /\ pc = "scanning" /\ cursor = p /\ p \in Pids
  /\ cursor' = p + 1
  /\ steady' = Without(steady, p)
  /\ UNCHANGED <<kernelVars, pc, currTotal, prevTotal, prev, entries, top,
                 whenVars, counted>>

\* The busiest rows of the scan; std::sort leaves the order of equals open.
\* Mutant: sorted in ascending order.
LaziestRows(rows) == \A p \in rows, q \in DOMAIN entries \ rows :
                       entries[p] <= entries[q]
BusiestRows(rows) == \A p \in rows, q \in DOMAIN entries \ rows :
                       entries[p] >= entries[q]

\* The scan is over: forget the pids that are gone, sort, keep the top rows.
Finish ==
  /\ pc = "scanning" /\ cursor > MaxPid
  /\ pc' = "idle"
  /\ prev' = Pruned
  /\ prevTotal' = currTotal
  /\ sampledAt' = readAt /\ prevFailed' = statFailed
  /\ \E rows \in SUBSET DOMAIN entries :
       /\ \/ rows = DOMAIN entries /\ Cardinality(rows) <= Rows
          \/ Cardinality(rows) = Rows /\ BusiestRows(rows)
       /\ top' = rows
  /\ UNCHANGED <<kernelVars, cursor, currTotal, entries, statFailed, readAt,
                 counted, steady>>

-----------------------------------------------------------------------------
Kernel == Tick \/ \E p \in Pids : Spawn(p) \/ Exit(p)

Sample ==
  \/ ReadTotal \/ Open \/ OpenFails \/ Finish
  \/ \E p \in Pids : ReadProc(p) \/ SkipProc(p)

Next == Kernel \/ Sample

Spec == Init /\ [][Next]_vars

-----------------------------------------------------------------------------
(***************************************************************************)
(* Properties.                                                             *)
(***************************************************************************)

\* The values the variables take; no growth of a process is negative.
TypeOK ==
  /\ total \in 0..MaxTicks /\ currTotal \in 0..MaxTicks /\ prevTotal \in 0..MaxTicks
  /\ pc \in {"idle", "opening", "scanning"} /\ cursor \in 1..MaxPid + 1
  /\ Alive \subseteq Pids /\ ticks \in [Alive -> Nat]
  /\ DOMAIN prev \subseteq Pids /\ prev \in [DOMAIN prev -> Nat]
  /\ DOMAIN entries \subseteq Pids /\ entries \in [DOMAIN entries -> Nat]
  /\ top \subseteq Pids
  /\ statFailed \in BOOLEAN /\ prevFailed \in BOOLEAN
  /\ readAt \in 0..MaxTicks /\ sampledAt \in 0..MaxTicks
  /\ used \in [Pids -> Nat] /\ counted \in [Pids -> Nat]
  /\ DOMAIN steady \subseteq Alive
  /\ steady \in [DOMAIN steady -> [from : Nat, counted : Nat]]

\* Ticks since this sample read /proc/stat, and from the last complete sample
\* to this one.
Overlap == total - readAt
SinceLast == IF readAt > sampledAt THEN readAt - sampledAt ELSE 1

\* Shares are those of one interval: the machine's ticks are the ones since
\* the last complete sample, even if listing /proc failed in between, and what
\* the processes used adds up to no more, but for the ticks that passed during
\* the scan.  A reading of /proc/stat that fails spoils two samples, its own
\* and the next complete one (see SharesSinceLastSample), and no third.
ShareOfWhole ==
  pc = "scanning" /\ ~statFailed /\ ~prevFailed =>
    TotalDelta = SinceLast /\ SumFunction(entries) <= TotalDelta + Overlap

\* "aggregate CPU jiffies at last sample" (ProcessMonitor.hpp:25): a sample
\* that could read /proc/stat shows shares of the ticks since the last one.
\* Samples in which no process has a share yet are excepted.
SharesSinceLastSample ==
  pc = "scanning" /\ ~statFailed /\ (\E p \in DOMAIN entries : entries[p] > 0) =>
    TotalDelta = SinceLast

\* No scan finds, for a process, ticks that nobody used under its pid, whoever
\* had the pid before.
NoPhantomTicks == \A p \in Pids : counted[p] <= used[p]

\* Each tick of a process read by every scan of its life is found by one scan
\* and no other.
TicksShownOnce ==
  \A p \in DOMAIN steady :
    /\ p \in DOMAIN prev
    /\ counted[p] - steady[p].counted = prev[p] - steady[p].from

\* "Remove PIDs that no longer exist to prevent unbounded map growth"
\* (ProcessMonitor.cpp:112): between samples prev_ knows no more pids than
\* the last scan read, whatever exited or was skipped.
PrevIsBounded ==
  pc = "idle" /\ cursor > MaxPid /\ entries # [p \in {} |-> 0] =>
    DOMAIN prev = DOMAIN entries

\* A process that used more of the CPU than a fair share among one process
\* more than the list has rows is on the list.
HogIsListed ==
  pc = "idle" =>
    \A p \in DOMAIN entries \ top :
      (Rows + 1) * entries[p] <= SumFunction(entries)
=============================================================================
