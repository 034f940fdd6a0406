------------------------- MODULE CpuMonitorProofs --------------------------
(***************************************************************************)
(* Proofs about CpuMonitor, for any finite set of CPUs, any width of the   *)
(* integers and as many ticks as they can count.                           *)
(***************************************************************************)
EXTENDS CpuMonitor, SumTheorems, TLAPS

\* The kernel's counters.
Ticks == [Cpus -> [active : Nat, idle : Nat]]

\* Ticks of the CPUs that the integers can count.
Counted(ticks) ==
  /\ ticks \in Ticks
  /\ Sum(ticks, "active", Cpus) + Sum(ticks, "idle", Cpus) <= MaxTicks

\* No active tick is taken back.
NotBefore(old, new) == \A c \in Cpus : old[c].active <= new[c].active

\* The lines that the monitor got at a reading.
Lines(reading) ==
  IF reading.online = {} THEN <<>> ELSE File(reading.online, reading.stat)

\* Usages are those of the last two readings, and the lines of the last are
\* what the next will be compared with.
Computed ==
  LET old == Lines(older)
      new == Lines(newer)
  IN
  /\ prev = new
  /\ IF old # <<>> /\ new # <<>>
     THEN /\ usage = ComputeUsage(old[1], new[1])
          /\ cores = [i \in 1..Len(new) - 1 |->
               IF i + 1 <= Len(old) THEN ComputeUsage(old[i + 1], new[i + 1]) ELSE 0]
     ELSE usage = 0 /\ cores = <<>>

Readings == [online : SUBSET Cpus, stat : Ticks]

IInv ==
  /\ online \in (SUBSET Cpus) \ {{}} /\ older \in Readings /\ newer \in Readings
  /\ Counted(stat) /\ Counted(newer.stat) /\ Counted(older.stat)
  /\ NotBefore(older.stat, newer.stat) /\ NotBefore(newer.stat, stat)
  /\ Computed

-----------------------------------------------------------------------------
(***************************************************************************)
(* The order of the CPUs.                                                  *)
(***************************************************************************)
LEMMA UpToFinite ==
  ASSUME NEW S \in SUBSET Cpus
  PROVE  /\ IsFiniteSet(S) /\ Cardinality(S) \in Nat
         /\ \A c \in S : /\ IsFiniteSet(UpTo(S, c))
                         /\ Cardinality(UpTo(S, c)) \in 1..Cardinality(S)
<1>1. IsFiniteSet(S) /\ Cardinality(S) \in Nat
  BY CpusAssumption, FS_Subset, FS_CardinalityType
<1>2. ASSUME NEW c \in S
      PROVE  /\ IsFiniteSet(UpTo(S, c))
             /\ Cardinality(UpTo(S, c)) \in 1..Cardinality(S)
  <2>1. c \in UpTo(S, c) /\ UpTo(S, c) \subseteq S
    BY CpusAssumption DEF UpTo
  <2>2. IsFiniteSet(UpTo(S, c)) /\ Cardinality(UpTo(S, c)) <= Cardinality(S)
    BY <1>1, <2>1, FS_Subset
  <2>3. Cardinality(UpTo(S, c)) \in Nat /\ Cardinality(UpTo(S, c)) # 0
    BY <2>1, <2>2, FS_CardinalityType, FS_EmptySet
  <2>4. QED
    BY <1>1, <2>2, <2>3
<1>3. QED
  BY <1>1, <1>2

\* No two CPUs have as many before them.
LEMMA PlacesDiffer ==
  ASSUME NEW S \in SUBSET Cpus, NEW c \in S, NEW d \in S,
         Cardinality(UpTo(S, c)) = Cardinality(UpTo(S, d))
  PROVE  c = d
<1>1. ASSUME NEW a \in S, NEW b \in S, a < b
      PROVE  Cardinality(UpTo(S, a)) < Cardinality(UpTo(S, b))
  <2>1. \A e \in S : e \in Nat
    BY CpusAssumption
  <2>2. /\ UpTo(S, a) \subseteq UpTo(S, b)
        /\ b \in UpTo(S, b) /\ b \notin UpTo(S, a)
    BY <1>1, <2>1 DEF UpTo
  <2>3. /\ IsFiniteSet(UpTo(S, b))
        /\ Cardinality(UpTo(S, a)) \in Nat /\ Cardinality(UpTo(S, b)) \in Nat
    BY UpToFinite
  <2>4. /\ Cardinality(UpTo(S, a)) <= Cardinality(UpTo(S, b))
        /\ Cardinality(UpTo(S, a)) # Cardinality(UpTo(S, b))
    BY <2>2, <2>3, FS_Subset
  <2>5. QED
    BY <2>3, <2>4
<1>2. ~ (c < d) /\ ~ (d < c)
  BY <1>1, UpToFinite
<1>3. QED
  BY <1>2, CpusAssumption

\* Each place in the order is that of one CPU.
LEMMA PlacesTaken ==
  ASSUME NEW S \in SUBSET Cpus, NEW i \in 1..Cardinality(S)
  PROVE  \E c \in S : Cardinality(UpTo(S, c)) = i
<1> DEFINE place == [c \in S |-> Cardinality(UpTo(S, c))]
           places == 1..Cardinality(S)
<1>1. place \in Injection(S, places)
  <2>1. place \in [S -> places]
    BY UpToFinite
  <2>2. \A c, d \in S : place[c] = place[d] => c = d
    BY PlacesDiffer
  <2>3. QED
    BY <2>1, <2>2 DEF Injection, IsInjective
<1>2. IsFiniteSet(places) /\ Cardinality(places) = Cardinality(S)
  <2>1. Cardinality(S) \in Nat
    BY UpToFinite
  <2>2. QED
    BY <2>1, FS_Interval
<1>3. place \in Surjection(S, places)
  BY <1>1, <1>2, FS_Injection
<1>4. QED
  BY <1>3 DEF Surjection

LEMMA OrderIsByPlace ==
  ASSUME NEW S \in SUBSET Cpus, NEW i \in 1..Cardinality(S)
  PROVE  Order(S)[i] \in S /\ Cardinality(UpTo(S, Order(S)[i])) = i
BY PlacesTaken DEF Order

\* A CPU has the same line in two readings if the CPUs before it are the same.
LEMMA SameLine ==
  ASSUME NEW S \in SUBSET Cpus, NEW T \in SUBSET Cpus, NEW i \in 1..Cardinality(S),
         UpTo(S, Order(S)[i]) = UpTo(T, Order(S)[i])
  PROVE  i \in 1..Cardinality(T) /\ Order(T)[i] = Order(S)[i]
<1> DEFINE c == Order(S)[i]
<1>1. c \in S /\ Cardinality(UpTo(S, c)) = i
  BY OrderIsByPlace
<1>2. c \in T
  <2>1. c \in Nat
    BY <1>1, CpusAssumption
  <2>2. c \in UpTo(S, c)
    BY <1>1, <2>1 DEF UpTo
  <2>3. QED
    BY <2>2 DEF UpTo
<1>3. Cardinality(UpTo(T, c)) = i /\ i \in 1..Cardinality(T)
  BY <1>1, <1>2, UpToFinite
<1>4. QED
  BY <1>1, <1>2, <1>3, OrderIsByPlace, PlacesDiffer

-----------------------------------------------------------------------------
(***************************************************************************)
(* The sums of the ticks.                                                  *)
(***************************************************************************)
Field == {"active", "idle"}

\* The summands, so that the lemmas on sums can be cited.
Part(ticks, field, set) == [c \in set |-> ticks[c][field]]

LEMMA SumOfPart ==
  ASSUME NEW ticks \in Ticks, NEW field \in Field, NEW set \in SUBSET Cpus
  PROVE  /\ IsFiniteSet(set) /\ Part(ticks, field, set) \in [set -> Nat]
         /\ Sum(ticks, field, set) = SumFunctionOnSet(Part(ticks, field, set), set)
         /\ Sum(ticks, field, set) \in Nat
<1>1. IsFiniteSet(set)
  BY CpusAssumption, FS_Subset
<1>2. Part(ticks, field, set) \in [set -> Nat]
  BY DEF Part, Ticks, Field
<1>3. Sum(ticks, field, set) = SumFunctionOnSet(Part(ticks, field, set), set)
  BY DEF Sum, Part
<1>4. QED
  BY <1>1, <1>2, <1>3, SumType

\* The ticks of one CPU, which are part of those of the machine.
LEMMA SumOfOne ==
  ASSUME NEW ticks \in Ticks, NEW field \in Field, NEW c \in Cpus
  PROVE  /\ Sum(ticks, field, {c}) = ticks[c][field]
         /\ ticks[c][field] <= Sum(ticks, field, Cpus)
<1>1. {c} \in SUBSET Cpus /\ Cpus \in SUBSET Cpus /\ ticks[c][field] \in Nat
  BY DEF Ticks, Field
<1>2. Sum(ticks, field, {c}) = ticks[c][field]
  <2> DEFINE f == Part(ticks, field, {c})
  <2>1. IsFiniteSet({c}) /\ \A x \in {c} : f[x] \in Nat
    BY <1>1, SumOfPart
  <2>2. SumFunctionOnSet(f, {c}) = f[c] + SumFunctionOnSet(f, {c} \ {c})
    BY <2>1, SumRemove
  <2>3. SumFunctionOnSet(f, {c} \ {c}) = 0
    <3>1. {c} \ {c} = {}
      OBVIOUS
    <3>2. QED
      BY <3>1, SumEmpty
  <2>4. f[c] = ticks[c][field]
    BY DEF Part
  <2>5. QED
    BY <1>1, <2>2, <2>3, <2>4, SumOfPart
<1>3. ticks[c][field] <= Sum(ticks, field, Cpus)
  <2> DEFINE f == Part(ticks, field, Cpus)
  <2>1. IsFiniteSet(Cpus) /\ f \in [Cpus -> Nat] /\ f[c] = ticks[c][field]
    BY <1>1, SumOfPart DEF Part
  <2> HIDE DEF f
  <2>2. SumFunctionOnSet(f, Cpus) = f[c] + SumFunctionOnSet(f, Cpus \ {c})
    BY <2>1, SumRemove
  <2>3. SumFunctionOnSet(f, Cpus \ {c}) \in Nat
    BY <2>1, FS_Subset, SumType
  <2>4. Sum(ticks, field, Cpus) = SumFunctionOnSet(f, Cpus)
    BY <1>1, SumOfPart DEF f
  <2>5. QED
    BY <1>1, <2>1, <2>2, <2>3, <2>4
<1>4. QED
  BY <1>2, <1>3

LEMMA SumGrown ==
  ASSUME NEW old \in Ticks, NEW new \in Ticks, NEW field \in Field,
         NEW set \in SUBSET Cpus, \A c \in set : old[c][field] <= new[c][field]
  PROVE  Sum(old, field, set) <= Sum(new, field, set)
<1>1. \A c \in set : Part(old, field, set)[c] <= Part(new, field, set)[c]
  BY DEF Part
<1>2. QED
  BY <1>1, SumOfPart, SumMonotone

LEMMA CountedOne ==
  ASSUME NEW ticks, Counted(ticks), NEW c \in Cpus
  PROVE  /\ ticks[c].active \in Nat /\ ticks[c].idle \in Nat
         /\ ticks[c].active + ticks[c].idle <= MaxTicks
         /\ Sum(ticks, "active", Cpus) \in Nat /\ Sum(ticks, "idle", Cpus) \in Nat
<1>1. ticks \in Ticks /\ "active" \in Field /\ "idle" \in Field
  BY DEF Counted, Ticks, Field
<1>2. ticks[c].active \in Nat /\ ticks[c].idle \in Nat
  BY <1>1 DEF Ticks
<1>3. /\ ticks[c].active <= Sum(ticks, "active", Cpus)
      /\ ticks[c].idle <= Sum(ticks, "idle", Cpus)
  BY <1>1, SumOfOne
<1>4. Sum(ticks, "active", Cpus) \in Nat /\ Sum(ticks, "idle", Cpus) \in Nat
  BY <1>1, SumOfPart
<1>5. QED
  BY <1>2, <1>3, <1>4, WidthAssumption DEF Counted

-----------------------------------------------------------------------------
(***************************************************************************)
(* The arithmetic.                                                         *)
(***************************************************************************)
LEMMA MinusType == ASSUME NEW a \in 0..MaxTicks, NEW b \in 0..MaxTicks
                   PROVE  Minus(a, b) \in Nat
<1>1. a + 2^Width - b \in Nat /\ 2^Width \in Nat \ {0}
  BY WidthAssumption
<1>2. QED
  BY <1>1 DEF Minus

\* A counter that did not go backwards is subtracted exactly.
LEMMA MinusExact ==
  ASSUME NEW a \in 0..MaxTicks, NEW b \in 0..MaxTicks, b <= a
  PROVE  Minus(a, b) = a - b
<1>1. a - b \in 0..2^Width - 1 /\ 2^Width \in Nat \ {0}
  BY WidthAssumption
<1>2. ((a - b) + 2^Width) % 2^Width = a - b
  BY <1>1
<1>3. (a - b) + 2^Width = a + 2^Width - b
  BY <1>1
<1>4. QED
  BY <1>2, <1>3 DEF Minus

RowType == [active : 0..MaxTicks, total : 0..MaxTicks]

LEMMA UsageInRange ==
  ASSUME NEW p \in RowType, NEW q \in RowType
  PROVE  ComputeUsage(p, q) \in 0..100
<1> DEFINE t == Minus(q.total, p.total)
           a == Minus(q.active, p.active)
<1>1. t \in Nat /\ a \in Nat
  BY MinusType DEF RowType
<1> HIDE DEF t, a
<1>2. ASSUME t # 0
      PROVE  Clamp((100 * a) \div t) \in 0..100
  <2>1. (100 * a) \div t \in Nat
    BY <1>1, <1>2
  <2>2. QED
    BY <2>1 DEF Clamp
<1>3. QED
  BY <1>1, <1>2 DEF ComputeUsage, t, a

\* The share of active ticks among those that a line has gained.
LEMMA UsageExact ==
  ASSUME NEW oa \in Nat, NEW oi \in Nat, NEW na \in Nat, NEW ni \in Nat,
         oa <= na, oi <= ni, na + ni <= MaxTicks
  PROVE  ComputeUsage(Row(oa, oi), Row(na, ni))
           = IF (na - oa) + (ni - oi) = 0 THEN 0
             ELSE (100 * (na - oa)) \div ((na - oa) + (ni - oi))
<1> DEFINE a == na - oa
           i == ni - oi
<1>1. a \in Nat /\ i \in Nat
  OBVIOUS
<1>2. /\ Minus(na + ni, oa + oi) = (na + ni) - (oa + oi)
      /\ Minus(na, oa) = a
  <2>1. /\ na + ni \in 0..MaxTicks /\ oa + oi \in 0..MaxTicks
        /\ oa + oi <= na + ni /\ na \in 0..MaxTicks /\ oa \in 0..MaxTicks
    BY WidthAssumption
  <2>2. QED
    BY <2>1, MinusExact
<1>3. (na + ni) - (oa + oi) = a + i
  OBVIOUS
<1> HIDE DEF a, i
<1>4. ASSUME a + i # 0
      PROVE  Clamp((100 * a) \div (a + i)) = (100 * a) \div (a + i)
  <2>1. (100 * a) \div (a + i) <= 100 /\ (100 * a) \div (a + i) \in Nat
    BY <1>1, <1>4
  <2>2. QED
    BY <2>1 DEF Clamp
<1>5. ComputeUsage(Row(oa, oi), Row(na, ni))
        = IF a + i = 0 THEN 0 ELSE (100 * a) \div (a + i)
  BY <1>2, <1>3, <1>4 DEF ComputeUsage, Row
<1>6. QED
  BY <1>5 DEF a, i

-----------------------------------------------------------------------------
(***************************************************************************)
(* The invariant.                                                          *)
(***************************************************************************)
LEMMA InitIInv == Init => IInv
<1> SUFFICES ASSUME Init
             PROVE  IInv
  OBVIOUS
<1>1. stat \in Ticks /\ \A c \in Cpus : stat[c].active = 0 /\ stat[c].idle = 0
  BY DEF Init, Ticks
<1>2. ASSUME NEW field \in Field
      PROVE  Sum(stat, field, Cpus) = 0
  <2> DEFINE f == Part(stat, field, Cpus)
  <2>1. \A c \in Cpus : f[c] = 0
    BY <1>1 DEF Part, Field
  <2>2. {} \in SUBSET Cpus /\ \A c \in Cpus : f[c] \in Nat
    BY <2>1
  <2>3. SumFunctionOnSet(f, Cpus) = 0
    BY <2>1, <2>2, CpusAssumption, SumPart, SumEmpty
  <2>4. QED
    BY <1>1, <2>3, SumOfPart
<1>3. Counted(stat)
  BY <1>1, <1>2, WidthAssumption DEF Counted, Ticks, Field
<1>4. /\ online \in (SUBSET Cpus) \ {{}} /\ older = NoReading /\ newer = Reading
      /\ prev = File(online, stat) /\ usage = 0 /\ cores = <<>>
  BY DEF Init
<1>5. older \in Readings /\ newer \in Readings
  BY <1>1, <1>4 DEF NoReading, Reading, Readings, Ticks
<1>6. NotBefore(older.stat, newer.stat) /\ NotBefore(newer.stat, stat)
  BY <1>1, <1>4 DEF NoReading, Reading, NotBefore
<1>7. Counted(newer.stat) /\ Counted(older.stat)
  BY <1>3, <1>4 DEF NoReading, Reading
<1>8. Lines(older) = <<>> /\ Lines(newer) = prev
  BY <1>4 DEF Lines, NoReading, Reading
<1>9. QED
  BY <1>3, <1>4, <1>5, <1>6, <1>7, <1>8 DEF IInv, Computed

-----------------------------------------------------------------------------
LEMMA TickStep ==
  ASSUME IInv, NEW c \in Cpus, NEW field \in Field, Tick(c, field)
  PROVE  Counted(stat') /\ NotBefore(newer.stat, stat')
<1>1. /\ stat \in Ticks /\ AllTicks < MaxTicks
      /\ stat' = [stat EXCEPT ![c][field] = @ + 1]
  BY DEF Tick, IInv, Counted, Ticks
<1>2. stat' \in Ticks
  BY <1>1 DEF Ticks, Field
<1>3. \A d \in Cpus, g \in Field :
        stat'[d][g] = IF d = c /\ g = field THEN stat[d][g] + 1 ELSE stat[d][g]
  BY <1>1 DEF Ticks, Field
<1>4. ASSUME NEW g \in Field
      PROVE  Sum(stat', g, Cpus) <= IF g = field THEN Sum(stat, g, Cpus) + 1
                                    ELSE Sum(stat, g, Cpus)
  <2>1. CASE g = field
    <3>1. \A d \in Cpus : Part(stat', g, Cpus)[d] <=
            IF d = c THEN Part(stat, g, Cpus)[d] + 1 ELSE Part(stat, g, Cpus)[d]
      BY <1>1, <1>3, <2>1 DEF Part, Ticks, Field
    <3>2. /\ Cpus \in SUBSET Cpus /\ IsFiniteSet(Cpus)
          /\ Part(stat, g, Cpus) \in [Cpus -> Nat]
          /\ Part(stat', g, Cpus) \in [Cpus -> Nat]
          /\ Sum(stat, g, Cpus) = SumFunctionOnSet(Part(stat, g, Cpus), Cpus)
          /\ Sum(stat', g, Cpus) = SumFunctionOnSet(Part(stat', g, Cpus), Cpus)
      <4>1. Cpus \in SUBSET Cpus
        OBVIOUS
      <4>2. /\ IsFiniteSet(Cpus) /\ Part(stat, g, Cpus) \in [Cpus -> Nat]
            /\ Sum(stat, g, Cpus) = SumFunctionOnSet(Part(stat, g, Cpus), Cpus)
        BY <1>1, <4>1, SumOfPart
      <4>3. /\ Part(stat', g, Cpus) \in [Cpus -> Nat]
            /\ Sum(stat', g, Cpus) = SumFunctionOnSet(Part(stat', g, Cpus), Cpus)
        BY <1>2, <4>1, SumOfPart
      <4>4. QED
        BY <4>1, <4>2, <4>3
    <3>3. SumFunctionOnSet(Part(stat', g, Cpus), Cpus)
            <= SumFunctionOnSet(Part(stat, g, Cpus), Cpus) + 1
      BY <3>1, <3>2, SumGrows
    <3>4. QED
      BY <2>1, <3>2, <3>3
  <2>2. CASE g # field
    <3>1. \A d \in Cpus : stat'[d][g] <= stat[d][g]
      BY <1>1, <1>3, <2>2 DEF Ticks, Field
    <3>2. QED
      BY <1>1, <1>2, <2>2, <3>1, SumGrown
  <2>3. QED
    BY <2>1, <2>2
<1>5. /\ Sum(stat, "active", Cpus) \in Nat /\ Sum(stat, "idle", Cpus) \in Nat
      /\ Sum(stat', "active", Cpus) \in Nat /\ Sum(stat', "idle", Cpus) \in Nat
      /\ Sum(stat, "active", Cpus) + Sum(stat, "idle", Cpus) < MaxTicks
  BY <1>1, <1>2, SumOfPart DEF Field, AllTicks
<1>6. Counted(stat')
  <2>1. CASE field = "active"
    BY <1>2, <1>4, <1>5, <2>1, WidthAssumption DEF Counted, Ticks, Field
  <2>2. CASE field = "idle"
    BY <1>2, <1>4, <1>5, <2>2, WidthAssumption DEF Counted, Ticks, Field
  <2>3. QED
    BY <2>1, <2>2 DEF Field
<1>7. NotBefore(newer.stat, stat')
  BY <1>1, <1>3 DEF IInv, Readings, NotBefore, Ticks, Field
<1>8. QED
  BY <1>6, <1>7

LEMMA IowaitStep ==
  ASSUME IInv, NEW c \in Cpus, IowaitDrops(c)
  PROVE  Counted(stat') /\ NotBefore(newer.stat, stat')
<1>1. /\ stat \in Ticks /\ stat[c].idle > 0
      /\ stat' = [stat EXCEPT ![c].idle = @ - 1]
  BY DEF IowaitDrops, IInv, Counted, Ticks
<1>2. /\ stat' \in Ticks
      /\ \A d \in Cpus : /\ stat'[d].active = stat[d].active
                         /\ stat'[d].idle <= stat[d].idle
  BY <1>1 DEF Ticks
<1>3. /\ Sum(stat', "active", Cpus) <= Sum(stat, "active", Cpus)
      /\ Sum(stat', "idle", Cpus) <= Sum(stat, "idle", Cpus)
  <2>1. \A d \in Cpus, g \in Field : stat'[d][g] <= stat[d][g]
    BY <1>1, <1>2 DEF Field, Ticks
  <2>2. QED
    BY <1>1, <1>2, <2>1, SumGrown DEF Field
<1>4. /\ Sum(stat, "active", Cpus) \in Nat /\ Sum(stat, "idle", Cpus) \in Nat
      /\ Sum(stat', "active", Cpus) \in Nat /\ Sum(stat', "idle", Cpus) \in Nat
  BY <1>1, <1>2, SumOfPart DEF Field
<1>5. Counted(stat')
  BY <1>2, <1>3, <1>4, WidthAssumption DEF IInv, Counted, Ticks
<1>6. NotBefore(newer.stat, stat')
  BY <1>2 DEF IInv, NotBefore
<1>7. QED
  BY <1>5, <1>6

LEMMA KernelStep ==
  ASSUME IInv, Kernel
  PROVE  IInv'
<1>1. UNCHANGED monitorVars
  BY DEF Kernel, Tick, IowaitDrops, Hotplug
<1>2. Counted(stat') /\ NotBefore(newer.stat, stat')
  BY TickStep, IowaitStep DEF Kernel, Field, Hotplug, IInv
<1>3. online' \in (SUBSET Cpus) \ {{}}
  BY DEF Kernel, Tick, IowaitDrops, Hotplug, IInv
<1>4. Computed'
  BY <1>1 DEF IInv, Computed, monitorVars
<1>5. QED
  BY <1>1, <1>2, <1>3, <1>4 DEF IInv, monitorVars

\* A sample compares the lines of the two readings it keeps.
LEMMA SampleStep ==
  ASSUME IInv, NEW reading \in {Reading, NoReading}, Sample(Lines(reading), reading)
  PROVE  IInv'
<1>1. /\ prev' = Lines(reading) /\ prev = Lines(newer)
      /\ older' = newer /\ newer' = reading /\ online' = online /\ stat' = stat
  BY DEF Sample, NewPrev, kernelVars, IInv, Computed
<1>2. /\ reading \in Readings /\ reading.stat = stat
  BY DEF Reading, NoReading, Readings, IInv, Counted
<1>3. Computed'
  <2>1. Lines(older)' = prev /\ Lines(newer)' = Lines(reading)
    BY <1>1 DEF Lines
  <2>2. QED
    BY <1>1, <2>1 DEF Sample, Computed, Cores
<1>4. NotBefore(newer.stat, reading.stat) /\ NotBefore(reading.stat, stat)
  BY <1>2 DEF IInv, NotBefore, Counted, Ticks
<1>5. QED
  BY <1>1, <1>2, <1>3, <1>4 DEF IInv

LEMMA InductiveInvariant == Spec => []IInv
<1>1. IInv /\ UNCHANGED vars => IInv'
  BY DEF vars, kernelVars, monitorVars, IInv, Computed, Lines
<1>2. IInv /\ Next => IInv'
  <2> SUFFICES ASSUME IInv, Next
               PROVE  IInv'
    OBVIOUS
  <2>1. CASE SampleFile
    <3>1. Lines(Reading) = File(online, stat)
      BY DEF Lines, Reading, IInv
    <3>2. QED
      BY <2>1, <3>1, SampleStep DEF SampleFile
  <2>2. CASE SampleEmpty
    <3>1. Lines(NoReading) = <<>>
      BY DEF Lines, NoReading
    <3>2. QED
      BY <2>2, <3>1, SampleStep DEF SampleEmpty
  <2>3. QED
    BY <2>1, <2>2, KernelStep DEF Next
<1>3. QED
  BY <1>1, <1>2, InitIInv, PTL DEF Spec

-----------------------------------------------------------------------------
(***************************************************************************)
(* What is shown.                                                          *)
(***************************************************************************)

\* The lines of a reading: the machine's, then those of its CPUs.
LEMMA FileLines ==
  ASSUME NEW reading \in Readings, reading.online # {}
  PROVE  /\ Lines(reading) # <<>>
         /\ Len(Lines(reading)) = Cardinality(reading.online) + 1
         /\ Cardinality(reading.online) \in Nat
         /\ Lines(reading)[1] = Row(Sum(reading.stat, "active", Cpus),
                                    Sum(reading.stat, "idle", Cpus))
         /\ \A i \in 1..Cardinality(reading.online) :
              LET c == Order(reading.online)[i]
              IN Lines(reading)[i + 1] = Row(reading.stat[c].active, reading.stat[c].idle)
<1> DEFINE n == Cardinality(reading.online)
           machine == Row(Sum(reading.stat, "active", Cpus), Sum(reading.stat, "idle", Cpus))
           line(i) == Row(reading.stat[Order(reading.online)[i]].active,
                          reading.stat[Order(reading.online)[i]].idle)
           rest == [i \in 1..n |-> line(i)]
<1>1. n \in Nat
  BY UpToFinite DEF Readings
<1>2. Lines(reading) = <<machine>> \o rest
  BY DEF Lines, File
<1> HIDE DEF machine, line, n
<1>3. /\ rest \in Seq({line(i) : i \in 1..n}) /\ Len(rest) = n
      /\ \A i \in 1..n : rest[i] = line(i)
  BY <1>1
<1> HIDE DEF rest
<1>4. /\ Len(<<machine>> \o rest) = n + 1 /\ (<<machine>> \o rest)[1] = machine
      /\ \A i \in 1..n : (<<machine>> \o rest)[i + 1] = rest[i]
  BY <1>1, <1>3
<1>5. Lines(reading) # <<>>
  BY <1>1, <1>2, <1>4
<1>6. QED
  BY <1>1, <1>2, <1>3, <1>4, <1>5 DEF machine, line, n

\* The lines are rows of counters that the integers can count.
LEMMA LinesType ==
  ASSUME NEW reading \in Readings, Counted(reading.stat)
  PROVE  /\ Lines(reading) \in Seq(RowType)
         /\ Len(Lines(reading)) <= Cardinality(Cpus) + 1
<1>1. Cardinality(Cpus) \in Nat /\ MaxTicks \in Nat
  BY CpusAssumption, WidthAssumption, FS_CardinalityType
<1>2. CASE reading.online = {}
  <2>1. Lines(reading) = <<>>
    BY <1>2 DEF Lines
  <2>2. QED
    BY <1>1, <2>1
<1>3. CASE reading.online # {}
  <2> DEFINE n == Cardinality(reading.online)
             line(i) == Row(reading.stat[Order(reading.online)[i]].active,
                            reading.stat[Order(reading.online)[i]].idle)
             machine == Row(Sum(reading.stat, "active", Cpus),
                            Sum(reading.stat, "idle", Cpus))
             rest == [i \in 1..n |-> line(i)]
  <2>1. n \in Nat /\ n <= Cardinality(Cpus)
    BY CpusAssumption, UpToFinite, FS_Subset DEF Readings
  <2>2. machine \in RowType
    <3>1. /\ Sum(reading.stat, "active", Cpus) \in Nat
          /\ Sum(reading.stat, "idle", Cpus) \in Nat
      BY CountedOne, CpusAssumption
    <3>2. Sum(reading.stat, "active", Cpus) + Sum(reading.stat, "idle", Cpus) <= MaxTicks
      BY DEF Counted
    <3>3. QED
      BY <1>1, <3>1, <3>2 DEF Row, RowType
  <2>3. ASSUME NEW i \in 1..n
        PROVE  line(i) \in RowType
    <3>1. Order(reading.online)[i] \in Cpus
      BY OrderIsByPlace DEF Readings
    <3>2. QED
      BY <1>1, <3>1, CountedOne DEF Row, RowType
  <2>4. Lines(reading) = <<machine>> \o rest
    BY <1>3 DEF Lines, File
  <2> HIDE DEF n, line, machine
  <2>5. rest \in Seq(RowType)
    BY <2>1, <2>3
  <2>6. Lines(reading) \in Seq(RowType)
    BY <2>2, <2>4, <2>5
  <2>7. Len(Lines(reading)) = n + 1
    BY <1>3, FileLines DEF n
  <2>8. QED
    BY <1>1, <2>1, <2>6, <2>7
<1>4. QED
  BY <1>2, <1>3

\* Every variable keeps its type for any CPUs and any width; in particular
\* every percentage is one, whatever is subtracted from what.
THEOREM TypeCorrect == Spec => []TypeOK
<1>1. ASSUME IInv
      PROVE  TypeOK
  <2>1. ASSUME NEW ticks, Counted(ticks)
        PROVE  ticks \in [Cpus -> [active : 0..MaxTicks, idle : 0..MaxTicks]]
    <3>1. \A c \in Cpus : ticks[c].active \in 0..MaxTicks /\ ticks[c].idle \in 0..MaxTicks
      BY <2>1, CountedOne, WidthAssumption
    <3>2. QED
      BY <2>1, <3>1 DEF Counted, Ticks
  <2>2. /\ Lines(older) \in Seq(RowType) /\ Lines(newer) \in Seq(RowType)
        /\ Len(Lines(newer)) <= Cardinality(Cpus) + 1
    BY <1>1, LinesType DEF IInv
  <2>3. prev \in Seq(RowType) /\ Len(prev) <= Cardinality(Cpus) + 1
    BY <1>1, <2>2 DEF IInv, Computed
  <2>4. usage \in 0..100 /\ cores \in Seq(0..100)
    <3>1. CASE Lines(older) = <<>> \/ Lines(newer) = <<>>
      <4>1. usage = 0 /\ cores = <<>>
        BY <1>1, <3>1 DEF IInv, Computed
      <4>2. QED
        BY <4>1
    <3>2. CASE Lines(older) # <<>> /\ Lines(newer) # <<>>
      <4> DEFINE old == Lines(older)
                 new == Lines(newer)
                 core(i) == IF i + 1 <= Len(old)
                            THEN ComputeUsage(old[i + 1], new[i + 1]) ELSE 0
      <4>1. /\ usage = ComputeUsage(old[1], new[1])
            /\ cores = [i \in 1..Len(new) - 1 |-> core(i)]
        BY <1>1, <3>2 DEF IInv, Computed
      <4> HIDE DEF old, new
      <4>2. old \in Seq(RowType) /\ new \in Seq(RowType) /\ old # <<>> /\ new # <<>>
        BY <2>2, <3>2 DEF old, new
      <4>3. old[1] \in RowType /\ new[1] \in RowType
        BY <4>2
      <4>4. ASSUME NEW i \in 1..Len(new) - 1
            PROVE  core(i) \in 0..100
        <5>1. new[i + 1] \in RowType /\ (i + 1 <= Len(old) => old[i + 1] \in RowType)
          BY <4>2
        <5>2. CASE i + 1 <= Len(old)
          <6>1. ComputeUsage(old[i + 1], new[i + 1]) \in 0..100
            BY <5>1, <5>2, UsageInRange
          <6>2. QED
            BY <5>2, <6>1 DEF core
        <5>3. CASE ~ (i + 1 <= Len(old))
          <6>1. core(i) = 0
            BY <5>3 DEF core
          <6>2. QED
            BY <6>1
        <5>4. QED
          BY <5>2, <5>3
      <4>5. usage \in 0..100
        BY <4>1, <4>3, UsageInRange
      <4> HIDE DEF core
      <4>6. Len(new) - 1 \in Nat
        BY <4>2
      <4>7. cores \in Seq(0..100)
        BY <4>1, <4>4, <4>6
      <4>8. QED
        BY <4>5, <4>7
    <3>3. QED
      BY <3>1, <3>2
  <2>5. \A r \in Readings : Counted(r.stat) =>
          r \in [online : SUBSET Cpus,
                 stat : [Cpus -> [active : 0..MaxTicks, idle : 0..MaxTicks]]]
    BY <2>1 DEF Readings
  <2>6. QED
    BY <1>1, <2>1, <2>3, <2>4, <2>5 DEF TypeOK, IInv, RowType
<1>2. QED
  BY <1>1, InductiveInvariant, PTL

\* A CPU is shown its own usage if the CPUs before it are the same as at the
\* sample before.
THEOREM UsageIsItsOwn == Spec => []OwnUsage
<1>1. ASSUME IInv
      PROVE  OwnUsage
  <2> SUFFICES ASSUME NEW i \in DOMAIN cores, NEW c, c = Order(newer.online)[i],
                      UpTo(newer.online, c) = UpTo(older.online, c), Forward({c})
               PROVE  cores[i] = TrueUsage({c})
    BY DEF OwnUsage
  <2>1. /\ older \in Readings /\ newer \in Readings
        /\ older.stat \in Ticks /\ newer.stat \in Ticks
        /\ Counted(older.stat) /\ Counted(newer.stat)
        /\ NotBefore(older.stat, newer.stat)
    BY <1>1 DEF IInv, Readings, Ticks
  <2>2. Lines(older) # <<>> /\ Lines(newer) # <<>>
    <3>1. cores # <<>>
      OBVIOUS
    <3>2. QED
      BY <1>1, <3>1 DEF IInv, Computed
  <2>3. older.online # {} /\ newer.online # {}
    BY <2>2 DEF Lines
  <2>4. /\ i \in 1..Cardinality(newer.online)
        /\ i + 1 <= Len(Lines(older)) =>
             cores[i] = ComputeUsage(Lines(older)[i + 1], Lines(newer)[i + 1])
    <3>1. cores = [j \in 1..Len(Lines(newer)) - 1 |->
                     IF j + 1 <= Len(Lines(older))
                     THEN ComputeUsage(Lines(older)[j + 1], Lines(newer)[j + 1]) ELSE 0]
      BY <1>1, <2>2 DEF IInv, Computed
    <3>2. /\ Len(Lines(newer)) = Cardinality(newer.online) + 1
          /\ Cardinality(newer.online) \in Nat
      BY <2>1, <2>3, FileLines
    <3>3. QED
      BY <3>1, <3>2
  <2>5. c \in Cpus
    BY <2>1, <2>4, OrderIsByPlace DEF Readings
  <2>6. i \in 1..Cardinality(older.online) /\ Order(older.online)[i] = c
    <3>1. newer.online \in SUBSET Cpus /\ older.online \in SUBSET Cpus
      BY <2>1 DEF Readings
    <3>2. QED
      BY <2>4, <3>1, SameLine
  <2> DEFINE o == older.stat[c]
             n == newer.stat[c]
  <2>7. /\ Lines(older)[i + 1] = Row(o.active, o.idle)
        /\ Lines(newer)[i + 1] = Row(n.active, n.idle)
        /\ i + 1 <= Len(Lines(older))
    BY <2>1, <2>3, <2>4, <2>6, FileLines
  <2>8. /\ o.active \in Nat /\ o.idle \in Nat /\ n.active \in Nat /\ n.idle \in Nat
        /\ o.active <= n.active /\ o.idle <= n.idle /\ n.active + n.idle <= MaxTicks
    BY <2>1, <2>5, CountedOne DEF NotBefore, Forward
  <2>9. /\ Grown("active", {c}) = n.active - o.active
        /\ Grown("idle", {c}) = n.idle - o.idle
    BY <2>1, <2>5, SumOfOne DEF Grown, Field
  <2> HIDE DEF o, n
  <2>10. cores[i] = ComputeUsage(Row(o.active, o.idle), Row(n.active, n.idle))
    BY <2>4, <2>7
  <2>11. ComputeUsage(Row(o.active, o.idle), Row(n.active, n.idle))
           = LET all == (n.active - o.active) + (n.idle - o.idle)
             IN IF all = 0 THEN 0 ELSE (100 * (n.active - o.active)) \div all
    BY <2>8, UsageExact, SMTT(20)
  <2>12. QED
    BY <2>9, <2>10, <2>11 DEF TrueUsage
<1>2. QED
  BY <1>1, InductiveInvariant, PTL

\* The machine's usage is right whatever CPUs come and go.
THEOREM TotalIsRight == Spec => []TotalUsage
<1>1. ASSUME IInv
      PROVE  TotalUsage
  <2> SUFFICES ASSUME older.online # {}, newer.online # {}, Forward(Cpus)
               PROVE  usage = TrueUsage(Cpus)
    BY DEF TotalUsage
  <2>1. /\ older \in Readings /\ newer \in Readings
        /\ older.stat \in Ticks /\ newer.stat \in Ticks
        /\ Counted(older.stat) /\ Counted(newer.stat)
        /\ NotBefore(older.stat, newer.stat)
    BY <1>1 DEF IInv, Readings, Ticks
  <2> DEFINE oa == Sum(older.stat, "active", Cpus)
             oi == Sum(older.stat, "idle", Cpus)
             na == Sum(newer.stat, "active", Cpus)
             ni == Sum(newer.stat, "idle", Cpus)
  <2>2. usage = ComputeUsage(Row(oa, oi), Row(na, ni))
    <3>1. /\ Lines(older) # <<>> /\ Lines(newer) # <<>>
          /\ Lines(older)[1] = Row(oa, oi) /\ Lines(newer)[1] = Row(na, ni)
      BY <2>1, FileLines
    <3>2. usage = ComputeUsage(Lines(older)[1], Lines(newer)[1])
      BY <1>1, <3>1 DEF IInv, Computed
    <3>3. QED
      BY <3>1, <3>2
  <2>3. oa \in Nat /\ oi \in Nat /\ na \in Nat /\ ni \in Nat
    BY <2>1, SumOfPart DEF Field
  <2>4. oa <= na /\ oi <= ni
    <3>1. \A c \in Cpus, f \in Field : older.stat[c][f] <= newer.stat[c][f]
      BY <2>1 DEF NotBefore, Forward, Field, Ticks
    <3>2. QED
      BY <2>1, <3>1, SumGrown DEF Field
  <2>5. na + ni <= MaxTicks
    BY <2>1 DEF Counted
  <2>6. Grown("active", Cpus) = na - oa /\ Grown("idle", Cpus) = ni - oi
    BY DEF Grown
  <2> HIDE DEF oa, oi, na, ni
  <2>7. ComputeUsage(Row(oa, oi), Row(na, ni))
          = LET all == (na - oa) + (ni - oi)
            IN IF all = 0 THEN 0 ELSE (100 * (na - oa)) \div all
    BY <2>3, <2>4, <2>5, UsageExact
  <2>8. QED
    BY <2>2, <2>6, <2>7 DEF TrueUsage
<1>2. QED
  BY <1>1, InductiveInvariant, PTL
=============================================================================
