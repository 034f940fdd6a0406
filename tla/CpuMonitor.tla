----------------------------- MODULE CpuMonitor ------------------------------
(***************************************************************************)
(* CpuMonitor: the ticks of /proc/stat turned into percentages by          *)
(* comparing two readings.  The file has one line for the machine and one  *)
(* for each CPU that is online, and the monitor knows a CPU only by the    *)
(* position of its line, while CPUs go offline and come back.              *)
(*                                                                         *)
(* The eight fields of a line are added up as the code does, into active   *)
(* and total; percentages are rounded down.  The load averages are read    *)
(* afresh each time and left out, and so is a sample() that throws, since  *)
(* it does so before it has changed anything.                              *)
(***************************************************************************)
EXTENDS Integers, Sequences, FiniteSets, Functions

CONSTANTS
  Cpus,       \* numbers of the CPUs the machine can have
  Width,      \* bits of the integers the code computes with (64)
  MaxTicks    \* bound on the ticks in the counters

ASSUME CpusAssumption == Cpus \subseteq Nat /\ Cpus # {} /\ IsFiniteSet(Cpus)
\* 2^Width \in Nat follows from Width \in Nat, but not for the provers.
ASSUME WidthAssumption ==
  /\ Width \in Nat /\ MaxTicks \in Nat
  /\ 2^Width \in Nat /\ MaxTicks < 2^Width

VARIABLES
  online,     \* CPUs online
  stat,       \* stat[c]: active and idle ticks of c, kept while it is offline
  prev,       \* prev_stats_
  usage,      \* total_usage_percent of the last sample
  cores,      \* cores of the last sample: usage_percent, where index is i - 1
  older,      \* what the monitor read last but one: CPUs online and their
  newer       \* ticks; and what it read last (history)

kernelVars  == <<online, stat>>
monitorVars == <<prev, usage, cores, older, newer>>
vars        == <<kernelVars, monitorVars>>

-----------------------------------------------------------------------------
Row(active, idle) == [active |-> active, total |-> active + idle]

\* The CPUs listed before c and c itself.
UpTo(listed, c) == {b \in listed : b <= c}

\* The CPUs in the order of their lines, which is that of their numbers.
Order(listed) ==
  [i \in 1..Cardinality(listed) |->
     CHOOSE c \in listed : Cardinality(UpTo(listed, c)) = i]

\* The ticks of a kind that the CPUs in set have when they have ticks.
Sum(ticks, field, set) == SumFunctionOnSet([c \in set |-> ticks[c][field]], set)

\* The text of /proc/stat: the machine's line counts CPUs offline as well.
File(listed, ticks) ==
  <<Row(Sum(ticks, "active", Cpus), Sum(ticks, "idle", Cpus))>>
    \o [i \in 1..Cardinality(listed) |->
          LET c == Order(listed)[i] IN Row(ticks[c].active, ticks[c].idle)]

Reading == [online |-> online, stat |-> stat]
NoReading == [online |-> {}, stat |-> stat]

\* The constructor has read the file.
Init ==
  /\ online \in (SUBSET Cpus) \ {{}}
  /\ stat = [c \in Cpus |-> [active |-> 0, idle |-> 0]]
  /\ prev = File(online, stat)
  /\ usage = 0 /\ cores = <<>>
  /\ older = NoReading /\ newer = Reading

-----------------------------------------------------------------------------
(***************************************************************************)
(* The kernel.                                                             *)
(***************************************************************************)
AllTicks == Sum(stat, "active", Cpus) + Sum(stat, "idle", Cpus)

\* A tick of an online CPU, in one of the fields of its line.
Tick(c, field) ==
  /\ c \in online /\ AllTicks < MaxTicks
  /\ stat' = [stat EXCEPT ![c][field] = @ + 1]
  /\ UNCHANGED <<online, monitorVars>>

\* iowait, an idle time, may be corrected downwards.
IowaitDrops(c) ==
  /\ c \in online /\ stat[c].idle > 0
  /\ stat' = [stat EXCEPT ![c].idle = @ - 1]
  /\ UNCHANGED <<online, monitorVars>>

\* A CPU goes offline, but never the last, or comes back.
Hotplug(c) ==
  /\ online' = IF c \in online THEN online \ {c} ELSE online \cup {c}
  /\ online' # {}
  /\ UNCHANGED <<stat, monitorVars>>

-----------------------------------------------------------------------------
(***************************************************************************)
(* sample().                                                               *)
(***************************************************************************)

\* Subtraction of unsigned integers.
Minus(a, b) == (a + 2^Width - b) % 2^Width

\* The clamp of a percentage.
\* Mutant: no clamp.
ClampNot(percent) == percent
Clamp(percent) == IF percent > 100 THEN 100 ELSE percent

ComputeUsage(p, curr) ==
  LET totalDelta  == Minus(curr.total, p.total)
      activeDelta == Minus(curr.active, p.active)
  IN IF totalDelta = 0 THEN 0 ELSE Clamp((100 * activeDelta) \div totalDelta)

\* The usage of the cores; one that has no counterpart shows none.
\* Mutant: compared with the line above.
CoresShifted(curr) ==
  [i \in 1..Len(curr) - 1 |->
     IF i <= Len(prev) THEN ComputeUsage(prev[i], curr[i + 1]) ELSE 0]
Cores(curr) ==
  [i \in 1..Len(curr) - 1 |->
     IF i + 1 <= Len(prev) THEN ComputeUsage(prev[i + 1], curr[i + 1]) ELSE 0]

\* What prev_stats_ becomes.
\* Mutant: it is kept when the number of lines has changed.
NewPrevSameSize(curr) == IF Len(curr) = Len(prev) THEN curr ELSE prev
NewPrev(curr) == curr

\* The file is read, or nothing is got out of it though it could be opened.
Sample(curr, reading) ==
  /\ IF prev # <<>> /\ curr # <<>>
     THEN usage' = ComputeUsage(prev[1], curr[1]) /\ cores' = Cores(curr)
     ELSE usage' = 0 /\ cores' = <<>>
  /\ prev' = NewPrev(curr)
  /\ older' = newer /\ newer' = reading
  /\ UNCHANGED kernelVars

SampleFile  == Sample(File(online, stat), Reading)
SampleEmpty == Sample(<<>>, NoReading)

-----------------------------------------------------------------------------
Kernel ==
  \E c \in Cpus :
    \/ \E field \in {"active", "idle"} : Tick(c, field)
    \/ IowaitDrops(c) \/ Hotplug(c)

Next == Kernel \/ SampleFile \/ SampleEmpty

Spec == Init /\ [][Next]_vars

-----------------------------------------------------------------------------
(***************************************************************************)
(* Properties.                                                             *)
(***************************************************************************)

\* The values the variables take.  Percentages are 0 to 100, also when
\* counters of different CPUs, or one that went backwards, are subtracted.
TypeOK ==
  LET Rows == [active : 0..MaxTicks, total : 0..MaxTicks]
      Ticks == [Cpus -> [active : 0..MaxTicks, idle : 0..MaxTicks]]
      Readings == [online : SUBSET Cpus, stat : Ticks]
  IN
  /\ online \in (SUBSET Cpus) \ {{}} /\ stat \in Ticks
  /\ prev \in Seq(Rows) /\ Len(prev) <= Cardinality(Cpus) + 1
  /\ usage \in 0..100 /\ cores \in Seq(0..100)
  /\ older \in Readings /\ newer \in Readings

\* The ticks of the CPUs in some set between the last two readings, and the
\* share of them that was active.
Grown(field, set) == Sum(newer.stat, field, set) - Sum(older.stat, field, set)
TrueUsage(set) ==
  LET all == Grown("active", set) + Grown("idle", set)
  IN IF all = 0 THEN 0 ELSE (100 * Grown("active", set)) \div all

\* No CPU in the set had its idle time corrected to less than it was.
Forward(set) == \A c \in set : newer.stat[c].idle >= older.stat[c].idle

\* A CPU is shown its own usage if the CPUs before it are the same as at the
\* sample before, whatever happens to those after it: what a CPU that goes
\* offline or comes back does to the bars is confined to the CPUs after it
\* and over with the next sample.
OwnUsage ==
  \A i \in DOMAIN cores :
    LET c == Order(newer.online)[i] IN
    (UpTo(newer.online, c) = UpTo(older.online, c) /\ Forward({c})) =>
      cores[i] = TrueUsage({c})

\* The machine's usage is right whatever CPUs come and go.
TotalUsage ==
  (older.online # {} /\ newer.online # {} /\ Forward(Cpus)) =>
    usage = TrueUsage(Cpus)
=============================================================================
