----------------------- MODULE ProcessMonitorProofs ------------------------
(***************************************************************************)
(* Proofs about ProcessMonitor, for any number of pids, rows and ticks:    *)
(* the ticks it shows are ticks that were used, and each is shown once,    *)
(* whatever starts, exits or cannot be read during the scan.               *)
(***************************************************************************)
EXTENDS ProcessMonitor, SumTheorems, TLAPS

\* What the next scan would show for pid p.
Due(p) ==
  IF p \in DOMAIN prev \cap Alive THEN ProcDelta(ticks[p], prev[p]) ELSE 0

\* Not even with that are more ticks shown than were used.
NoPhantomDue == \A p \in Pids : counted[p] + Due(p) <= used[p]

\* The ticks of a process that no scan missed only grow.
SteadyGrows ==
  \A p \in DOMAIN steady : p \in DOMAIN prev /\ prev[p] <= ticks[p]

\* While a scan is under way, it has read every such process it has come past,
\* and the cache knows all that it has read.
ScanInv ==
  pc = "scanning" =>
    /\ DOMAIN entries \subseteq DOMAIN prev
    /\ \A p \in DOMAIN steady : p < cursor => p \in DOMAIN entries

\* Between two scans the cache is what the last one read; one that has been
\* given up has read nothing.
PrevInv ==
  pc # "scanning" =>
    entries = [p \in {} |-> 0] \/ DOMAIN prev = DOMAIN entries

\* No sample has read a total that is not reached yet.  The totals read are
\* those of the time of reading, unless that failed; the last sample's is one
\* sample old.
Clock ==
  /\ prevTotal <= total /\ sampledAt <= total /\ readAt <= total
  /\ ~prevFailed => prevTotal = sampledAt
  /\ pc # "idle" => currTotal <= readAt
  /\ pc # "idle" /\ ~statFailed => currTotal = readAt

\* What has been read lies behind the cursor.
Behind == pc = "scanning" => \A p \in DOMAIN entries : p < cursor

\* What each pid is due, and of that what has become due since this scan read
\* the pid.
Dues == [p \in Pids |-> Due(p)]
FreshDues == [p \in Pids |-> IF p \in DOMAIN entries THEN Due(p) ELSE 0]

\* What the scan under way has found.
Found == IF pc = "scanning" THEN SumFunction(entries) ELSE 0

\* What the scan has found and what is still due is no more than the ticks
\* since the last complete sample read its total; what has become due behind
\* the scan, no more than those since this one read its own.
ShareInv ==
  /\ prevTotal + Found + SumFunctionOnSet(Dues, Pids) <= total
  /\ pc = "scanning" => SumFunctionOnSet(FreshDues, Pids) <= Overlap

\* The list has all that was read, or as many as there are rows and none
\* behind one that is not on it.
TopInv ==
  pc = "idle" =>
    \/ top = DOMAIN entries
    \/ top \subseteq DOMAIN entries /\ Cardinality(top) = Rows /\ BusiestRows(top)

SumInv == Clock /\ Behind /\ ShareInv /\ TopInv

IInv ==
  /\ TypeOK /\ NoPhantomDue /\ SteadyGrows /\ TicksShownOnce
  /\ ScanInv /\ PrevInv

-----------------------------------------------------------------------------
LEMMA InitIInv == Init => IInv
<1> SUFFICES ASSUME Init
             PROVE  IInv
  OBVIOUS
<1> USE MaxPidAssumption, MaxTicksAssumption DEF Init
<1>1. PICK alive \in SUBSET Pids : ticks \in [alive -> {0}]
  OBVIOUS
<1>2. Alive \subseteq Pids /\ ticks \in [Alive -> Nat]
  BY <1>1 DEF Alive
<1>3. /\ total \in 0..MaxTicks /\ currTotal \in 0..MaxTicks
      /\ prevTotal \in 0..MaxTicks /\ cursor \in 1..MaxPid + 1
  OBVIOUS
<1>4. TypeOK
  BY <1>2, <1>3 DEF TypeOK
<1>5. NoPhantomDue /\ SteadyGrows /\ TicksShownOnce /\ ScanInv /\ PrevInv
  BY DEF NoPhantomDue, Due, SteadyGrows, TicksShownOnce, ScanInv, PrevInv
<1>6. QED
  BY <1>4, <1>5 DEF IInv

-----------------------------------------------------------------------------
\* The kernel's steps move ticks and used together, or start at nothing.
LEMMA KernelStep ==
  ASSUME IInv, Kernel
  PROVE  IInv'
<1> USE MaxPidAssumption, MaxTicksAssumption DEF IInv, TypeOK, Alive, scanVars, whenVars
<1>1. ASSUME Tick, UNCHANGED <<ticks, used>>
      PROVE  IInv'
  <2>1. TypeOK'
    BY <1>1 DEF Tick
  <2>2. NoPhantomDue' /\ SteadyGrows'
    BY <1>1 DEF Tick, NoPhantomDue, Due, SteadyGrows
  <2>3. TicksShownOnce' /\ ScanInv' /\ PrevInv'
    BY <1>1 DEF Tick, TicksShownOnce, ScanInv, PrevInv
  <2>4. QED
    BY <2>1, <2>2, <2>3
<1>2. ASSUME Tick, NEW p \in Alive, ticks' = [ticks EXCEPT ![p] = @ + 1],
             used' = [used EXCEPT ![p] = @ + 1]
      PROVE  IInv'
  <2>1. TypeOK'
    BY <1>2 DEF Tick
  <2>2. NoPhantomDue'
    BY <1>2 DEF Tick, NoPhantomDue, Due, ProcDelta
  <2>3. SteadyGrows'
    BY <1>2 DEF Tick, SteadyGrows
  <2>4. TicksShownOnce' /\ ScanInv' /\ PrevInv'
    BY <1>2 DEF Tick, TicksShownOnce, ScanInv, PrevInv
  <2>5. QED
    BY <2>1, <2>2, <2>3, <2>4
<1>3. ASSUME NEW p \in Pids, Spawn(p)
      PROVE  IInv'
  <2>1. /\ DOMAIN ticks' = DOMAIN ticks \cup {p} /\ ticks'[p] = 0
        /\ \A q \in DOMAIN ticks : ticks'[q] = ticks[q]
        /\ ticks' \in [DOMAIN ticks \cup {p} -> Nat]
    BY <1>3 DEF Spawn, With
  <2>2. TypeOK'
    BY <1>3, <2>1 DEF Spawn
  <2>3. NoPhantomDue'
    BY <1>3, <2>1 DEF Spawn, NoPhantomDue, Due, ProcDelta
  <2>4. SteadyGrows'
    BY <1>3, <2>1 DEF Spawn, SteadyGrows
  <2>5. TicksShownOnce' /\ ScanInv' /\ PrevInv'
    BY <1>3 DEF Spawn, TicksShownOnce, ScanInv, PrevInv
  <2>6. QED
    BY <2>2, <2>3, <2>4, <2>5
<1>4. ASSUME NEW p \in Pids, Exit(p)
      PROVE  IInv'
  <2>1. /\ ticks' = [q \in DOMAIN ticks \ {p} |-> ticks[q]]
        /\ steady' = [q \in DOMAIN steady \ {p} |-> steady[q]]
    BY <1>4 DEF Exit, Without, Restrict
  <2>2. TypeOK'
    BY <1>4, <2>1 DEF Exit
  <2>3. NoPhantomDue'
    BY <1>4, <2>1 DEF Exit, NoPhantomDue, Due, ProcDelta
  <2>4. SteadyGrows' /\ TicksShownOnce'
    BY <1>4, <2>1 DEF Exit, SteadyGrows, TicksShownOnce
  <2>5. ScanInv' /\ PrevInv'
    BY <1>4, <2>1 DEF Exit, ScanInv, PrevInv
  <2>6. QED
    BY <2>2, <2>3, <2>4, <2>5
<1>5. QED
  BY <1>1, <1>2, <1>3, <1>4 DEF Kernel, Tick

-----------------------------------------------------------------------------
LEMMA ReadProcStep ==
  ASSUME IInv, NEW p \in Pids, ReadProc(p)
  PROVE  IInv'
<1> USE MaxPidAssumption, MaxTicksAssumption DEF IInv, TypeOK, Alive
<1> DEFINE delta == IF p \in DOMAIN prev THEN ProcDelta(ticks[p], prev[p]) ELSE 0
<1>1. /\ p \in DOMAIN ticks /\ ticks[p] \in Nat
      /\ delta \in Nat /\ delta = Due(p)
  BY DEF ReadProc, ProcDelta, Due
<1>2. /\ DOMAIN prev' = DOMAIN prev \cup {p} /\ prev'[p] = ticks[p]
      /\ \A q \in DOMAIN prev \ {p} : prev'[q] = prev[q]
      /\ prev' \in [DOMAIN prev' -> Nat]
  BY <1>1 DEF ReadProc, NewPrev, With
<1>3. /\ DOMAIN entries' = DOMAIN entries \cup {p}
      /\ entries' \in [DOMAIN entries' -> Nat]
  BY <1>1 DEF ReadProc, With
<1>4. /\ counted' = [counted EXCEPT ![p] = @ + delta]
      /\ counted' \in [Pids -> Nat]
  BY <1>1 DEF ReadProc
<1>5. /\ pc = "scanning" /\ pc' = pc /\ cursor = p /\ cursor' = p + 1
      /\ ticks' = ticks /\ used' = used
  BY DEF ReadProc, kernelVars
<1> HIDE DEF delta
<1>6. /\ DOMAIN steady' = DOMAIN steady \cup {p}
      /\ \A q \in DOMAIN steady : steady'[q] = steady[q]
      /\ p \notin DOMAIN steady =>
           steady'[p] = [from |-> ticks[p], counted |-> counted[p] + delta]
      /\ steady' \in [DOMAIN steady' -> [from : Nat, counted : Nat]]
  <2>1. CASE p \in DOMAIN steady
    BY <2>1 DEF ReadProc
  <2>2. CASE p \notin DOMAIN steady
    <3>1. steady' = With(steady, p, [from |-> ticks[p],
                                     counted |-> counted[p] + delta])
      BY <2>2 DEF ReadProc, delta
    <3>2. [from |-> ticks[p], counted |-> counted[p] + delta]
            \in [from : Nat, counted : Nat]
      BY <1>1
    <3>3. QED
      BY <2>2, <3>1, <3>2 DEF With
  <2>3. QED
    BY <2>1, <2>2
<1>7. TypeOK'
  <2>1. cursor' \in 1..MaxPid + 1 /\ pc' \in {"idle", "opening", "scanning"}
    BY <1>5 DEF Pids
  <2>2. /\ UNCHANGED <<total, currTotal, prevTotal, top, whenVars>>
        /\ UNCHANGED <<ticks, used>>
    BY DEF ReadProc, kernelVars
  <2>3. /\ DOMAIN prev' \subseteq Pids /\ DOMAIN entries' \subseteq Pids
        /\ DOMAIN steady' \subseteq DOMAIN ticks'
    BY <1>1, <1>2, <1>3, <1>5, <1>6
  <2>4. QED
    BY <2>1, <2>2, <2>3, <1>2, <1>3, <1>4, <1>6 DEF whenVars
<1>8. NoPhantomDue'
  BY <1>1, <1>2, <1>4, <1>5 DEF NoPhantomDue, Due, ProcDelta
<1>9. SteadyGrows'
  BY <1>1, <1>2, <1>5, <1>6 DEF SteadyGrows
<1>10. TicksShownOnce'
  <2> SUFFICES ASSUME NEW q \in DOMAIN steady'
               PROVE  /\ q \in DOMAIN prev'
                      /\ counted'[q] - steady'[q].counted
                           = prev'[q] - steady'[q].from
    BY DEF TicksShownOnce
  <2>1. CASE q # p
    BY <1>2, <1>4, <1>6, <2>1 DEF TicksShownOnce
  <2>2. CASE q = p /\ p \in DOMAIN steady
    <3>1. /\ p \in DOMAIN prev /\ prev[p] <= ticks[p]
          /\ counted[p] - steady[p].counted = prev[p] - steady[p].from
      BY <2>2 DEF SteadyGrows, TicksShownOnce
    <3>2. delta = ticks[p] - prev[p]
      BY <1>1, <3>1 DEF delta, ProcDelta
    <3>3. /\ counted[p] \in Nat /\ prev[p] \in Nat
          /\ steady[p].counted \in Nat /\ steady[p].from \in Nat
      BY <2>2, <3>1
    <3>4. /\ counted'[p] = counted[p] + delta /\ prev'[p] = ticks[p]
          /\ steady'[p] = steady[p] /\ p \in DOMAIN prev'
      BY <1>2, <1>4, <1>6, <2>2
    <3>5. counted'[p] - steady'[p].counted = prev'[p] - steady'[p].from
      <4> HIDE DEF IInv
      <4>1. QED
        BY <1>1, <3>1, <3>2, <3>3, <3>4
    <3>6. QED
      BY <2>2, <3>4, <3>5
  <2>3. CASE q = p /\ p \notin DOMAIN steady
    BY <1>1, <1>2, <1>4, <1>6, <2>3
  <2>4. QED
    BY <2>1, <2>2, <2>3
<1>11. ScanInv' /\ PrevInv'
  <2>1. \A q \in Pids : q < p + 1 => q < p \/ q = p
    BY DEF Pids
  <2>2. DOMAIN entries' \subseteq DOMAIN prev'
    BY <1>2, <1>3, <1>5 DEF ScanInv
  <2>3. ASSUME NEW q \in DOMAIN steady', q < p + 1
        PROVE  q \in DOMAIN entries'
    <3>1. q \in Pids
      BY <1>6
    <3>2. q < p \/ q = p
      BY <2>1, <2>3, <3>1
    <3>3. QED
      BY <1>3, <1>5, <1>6, <3>2 DEF ScanInv
  <2>4. QED
    BY <1>5, <2>2, <2>3 DEF ScanInv, PrevInv
<1>12. QED
  BY <1>7, <1>8, <1>9, <1>10, <1>11

LEMMA SkipProcStep ==
  ASSUME IInv, NEW p \in Pids, SkipProc(p)
  PROVE  IInv'
<1> USE MaxPidAssumption DEF IInv, TypeOK, Alive
<1>1. /\ steady' = [q \in DOMAIN steady \ {p} |-> steady[q]]
      /\ cursor = p /\ cursor' = p + 1 /\ pc = "scanning" /\ pc' = pc
      /\ ticks' = ticks /\ used' = used /\ prev' = prev /\ entries' = entries
      /\ counted' = counted
  BY DEF SkipProc, Without, Restrict, kernelVars
<1>2. TypeOK'
  <2>1. cursor' \in 1..MaxPid + 1
    BY <1>1 DEF Pids
  <2>2. /\ DOMAIN steady' \subseteq DOMAIN ticks'
        /\ steady' \in [DOMAIN steady' -> [from : Nat, counted : Nat]]
    BY <1>1
  <2>3. UNCHANGED <<total, currTotal, prevTotal, top, whenVars>>
    BY DEF SkipProc, kernelVars
  <2>4. QED
    BY <1>1, <2>1, <2>2, <2>3 DEF whenVars
<1>3. NoPhantomDue' /\ SteadyGrows' /\ TicksShownOnce'
  BY <1>1 DEF NoPhantomDue, Due, ProcDelta, SteadyGrows, TicksShownOnce
<1>4. ScanInv' /\ PrevInv'
  <2>1. \A q \in Pids : q < p + 1 /\ q # p => q < p
    BY DEF Pids
  <2>2. DOMAIN steady \subseteq Pids /\ DOMAIN steady' = DOMAIN steady \ {p}
    BY <1>1
  <2>3. QED
    BY <1>1, <2>1, <2>2 DEF ScanInv, PrevInv
<1>5. QED
  BY <1>2, <1>3, <1>4

\* The scan has met every process that lived through it and could be read.
LEMMA FinishStep ==
  ASSUME IInv, Finish
  PROVE  IInv'
<1> USE MaxPidAssumption DEF IInv, TypeOK, Alive
<1>1. /\ pc = "scanning" /\ pc' = "idle" /\ cursor > MaxPid /\ cursor' = cursor
      /\ ticks' = ticks /\ used' = used /\ entries' = entries
      /\ counted' = counted /\ steady' = steady /\ prevTotal' = currTotal
      /\ top' \subseteq DOMAIN entries
  BY DEF Finish, kernelVars
<1>2. prev' = [q \in DOMAIN entries |-> prev[q]]
  BY <1>1 DEF Finish, Pruned, Restrict, ScanInv
<1>3. DOMAIN steady \subseteq DOMAIN entries /\ DOMAIN entries \subseteq DOMAIN prev
  BY <1>1 DEF ScanInv, Pids
<1>4. TypeOK'
  BY <1>1, <1>2, <1>3 DEF Finish, kernelVars
<1>5. NoPhantomDue'
  BY <1>1, <1>2, <1>3 DEF NoPhantomDue, Due, ProcDelta
<1>6. SteadyGrows' /\ TicksShownOnce'
  BY <1>1, <1>2, <1>3 DEF SteadyGrows, TicksShownOnce
<1>7. ScanInv' /\ PrevInv'
  BY <1>1, <1>2 DEF ScanInv, PrevInv
<1>8. QED
  BY <1>4, <1>5, <1>6, <1>7

LEMMA SampleStep ==
  ASSUME IInv, Sample
  PROVE  IInv'
<1> USE MaxPidAssumption, MaxTicksAssumption DEF IInv, TypeOK, Alive, kernelVars, whenVars
<1>1. CASE ReadTotal
  <2>1. TypeOK'
    BY <1>1 DEF ReadTotal
  <2>2. QED
    BY <1>1, <2>1
       DEF ReadTotal, NoPhantomDue, Due, SteadyGrows, TicksShownOnce, ScanInv,
           PrevInv
<1>2. CASE Open
  <2>1. TypeOK'
    BY <1>2 DEF Open
  <2>2. \A p \in Pids : ~(p < 1)
    BY DEF Pids
  <2>3. ScanInv' /\ PrevInv'
    BY <1>2, <2>2 DEF Open, ScanInv, PrevInv
  <2>4. NoPhantomDue' /\ SteadyGrows' /\ TicksShownOnce'
    BY <1>2 DEF Open, NoPhantomDue, Due, SteadyGrows, TicksShownOnce
  <2>5. QED
    BY <2>1, <2>3, <2>4
<1>3. CASE OpenFails
  BY <1>3
     DEF OpenFails, NoPhantomDue, Due, SteadyGrows, TicksShownOnce, ScanInv,
         PrevInv
<1>4. QED
  BY <1>1, <1>2, <1>3, FinishStep, ReadProcStep, SkipProcStep DEF Sample

LEMMA InductiveInvariant == Spec => []IInv
<1>1. IInv /\ UNCHANGED vars => IInv'
  BY DEF IInv, TypeOK, Alive, NoPhantomDue, Due, SteadyGrows, TicksShownOnce,
         ScanInv, PrevInv, vars, kernelVars, scanVars, whenVars
<1>2. IInv /\ [Next]_vars => IInv'
  BY <1>1, KernelStep, SampleStep DEF Next
<1>3. QED
  BY <1>2, InitIInv, PTL DEF Spec

-----------------------------------------------------------------------------
(***************************************************************************)
(* The sums.                                                               *)
(***************************************************************************)
LEMMA PidsFinite == IsFiniteSet(Pids)
BY MaxPidAssumption, FS_Interval DEF Pids

\* The types of the sums, in a state and (the second lemma) in its successor.
DuesTyped ==
  /\ Dues \in [Pids -> Nat] /\ FreshDues \in [Pids -> Nat]
  /\ SumFunctionOnSet(Dues, Pids) \in Nat
  /\ SumFunctionOnSet(FreshDues, Pids) \in Nat
  /\ IsFiniteSet(DOMAIN entries) /\ SumFunction(entries) \in Nat /\ Found \in Nat

LEMMA DueTypes == IInv => DuesTyped
<1> SUFFICES ASSUME IInv
             PROVE  DuesTyped
  OBVIOUS
<1>1. \A p \in Pids : Due(p) \in Nat
  BY DEF IInv, TypeOK, Due, ProcDelta
<1>2. Dues \in [Pids -> Nat] /\ FreshDues \in [Pids -> Nat]
  BY <1>1 DEF Dues, FreshDues
<1>3. SumFunctionOnSet(Dues, Pids) \in Nat /\ SumFunctionOnSet(FreshDues, Pids) \in Nat
  BY <1>2, PidsFinite, SumType
<1>4. DOMAIN entries \in SUBSET Pids /\ \A p \in DOMAIN entries : entries[p] \in Nat
  BY DEF IInv, TypeOK
<1>5. IsFiniteSet(DOMAIN entries)
  BY <1>4, PidsFinite, FS_Subset
<1>6. SumFunction(entries) \in Nat
  BY <1>4, <1>5, SumType DEF SumFunction
<1>7. QED
  BY <1>2, <1>3, <1>5, <1>6 DEF DuesTyped, Found

LEMMA NextDueTypes == IInv' => DuesTyped'
BY DueTypes, PTL

LEMMA InitSumInv == Init => SumInv
<1> SUFFICES ASSUME Init
             PROVE  SumInv
  OBVIOUS
<1>1. IInv
  BY InitIInv
<1>2. \A p \in Pids : Dues[p] = 0
  BY DEF Init, Dues, Due
<1>3. SumFunctionOnSet(Dues, Pids) = 0
  <2>1. \A p \in Pids : Dues[p] \in Nat
    BY <1>2
  <2>2. {} \in SUBSET Pids /\ \A p \in Pids \ {} : Dues[p] = 0
    BY <1>2
  <2>3. QED
    BY <2>1, <2>2, PidsFinite, SumPart, SumEmpty
<1>4. /\ total \in Nat /\ prevTotal \in {0, total}
      /\ readAt = total /\ sampledAt = total /\ pc = "idle"
  BY MaxTicksAssumption DEF Init
<1>5. Clock
  <2>1. ~prevFailed => prevTotal = sampledAt
    BY Zenon DEF Init
  <2>2. QED
    BY <1>4, <2>1 DEF Clock
<1>6. ShareInv
  BY <1>3, <1>4 DEF ShareInv, Found
<1>7. Behind /\ TopInv
  BY DEF Init, Behind, TopInv
<1>8. QED
  BY <1>5, <1>6, <1>7 DEF SumInv

\* The kernel makes due one tick at most, and only if it counts it.
LEMMA KernelDues ==
  ASSUME IInv, Kernel
  PROVE  \/ total' = total /\ \A p \in Pids : Due(p)' <= Due(p)
         \/ total' = total + 1 /\ \A p \in Pids : Due(p)' <= Due(p)
         \/ /\ total' = total + 1
            /\ \E q \in Pids : \A p \in Pids :
                 Due(p)' <= IF p = q THEN Due(p) + 1 ELSE Due(p)
<1> USE DEF IInv, TypeOK, Alive, Due, ProcDelta, scanVars, whenVars
<1>1. ASSUME Tick, UNCHANGED <<ticks, used>>
      PROVE  total' = total + 1 /\ \A p \in Pids : Due(p)' <= Due(p)
  BY <1>1 DEF Tick
<1>2. ASSUME Tick, NEW q \in Alive, ticks' = [ticks EXCEPT ![q] = @ + 1]
      PROVE  /\ total' = total + 1 /\ q \in Pids
             /\ \A p \in Pids : Due(p)' <= IF p = q THEN Due(p) + 1 ELSE Due(p)
  BY <1>2 DEF Tick
<1>3. ASSUME NEW q \in Pids, Spawn(q)
      PROVE  total' = total /\ \A p \in Pids : Due(p)' <= Due(p)
  <2>1. /\ DOMAIN ticks' = DOMAIN ticks \cup {q} /\ ticks'[q] = 0
        /\ \A p \in DOMAIN ticks : ticks'[p] = ticks[p]
    BY <1>3 DEF Spawn, With
  <2>2. QED
    BY <1>3, <2>1 DEF Spawn
<1>4. ASSUME NEW q \in Pids, Exit(q)
      PROVE  total' = total /\ \A p \in Pids : Due(p)' <= Due(p)
  <2>1. ticks' = [p \in DOMAIN ticks \ {q} |-> ticks[p]]
    BY <1>4 DEF Exit, Without, Restrict
  <2>2. QED
    BY <1>4, <2>1 DEF Exit
<1> HIDE DEF IInv, TypeOK, Due
<1>5. QED
  BY <1>1, <1>2, <1>3, <1>4 DEF Kernel, Tick

LEMMA KernelSums ==
  ASSUME IInv, IInv', Kernel
  PROVE  /\ SumFunctionOnSet(Dues, Pids)' - total'
              <= SumFunctionOnSet(Dues, Pids) - total
         /\ SumFunctionOnSet(FreshDues, Pids)' - total'
              <= SumFunctionOnSet(FreshDues, Pids) - total
<1>1. /\ Dues \in [Pids -> Nat] /\ FreshDues \in [Pids -> Nat]
      /\ Dues' \in [Pids -> Nat] /\ FreshDues' \in [Pids -> Nat]
      /\ SumFunctionOnSet(Dues, Pids) \in Nat /\ SumFunctionOnSet(Dues, Pids)' \in Nat
      /\ SumFunctionOnSet(FreshDues, Pids) \in Nat
      /\ SumFunctionOnSet(FreshDues, Pids)' \in Nat
  BY DueTypes, NextDueTypes DEF DuesTyped, Pids
<1>2. total \in Nat /\ entries' = entries
  BY MaxTicksAssumption DEF IInv, TypeOK, Kernel, Tick, Spawn, Exit, scanVars, whenVars
<1>3. \A p \in Pids : /\ Dues[p] = Due(p) /\ Dues'[p] = Due(p)'
                      /\ FreshDues[p] = IF p \in DOMAIN entries THEN Due(p) ELSE 0
                      /\ FreshDues'[p] = IF p \in DOMAIN entries THEN Due(p)' ELSE 0
  BY <1>2 DEF Dues, FreshDues, Pids
<1>4. ASSUME \A p \in Pids : Due(p)' <= Due(p)
      PROVE  /\ SumFunctionOnSet(Dues, Pids)' <= SumFunctionOnSet(Dues, Pids)
             /\ SumFunctionOnSet(FreshDues, Pids)' <= SumFunctionOnSet(FreshDues, Pids)
  <2>1. \A p \in Pids : Dues'[p] <= Dues[p] /\ FreshDues'[p] <= FreshDues[p]
    BY <1>3, <1>4
  <2>2. SumFunctionOnSet(Dues', Pids) <= SumFunctionOnSet(Dues, Pids)
    BY <1>1, <2>1, PidsFinite, SumMonotone
  <2>3. SumFunctionOnSet(FreshDues', Pids) <= SumFunctionOnSet(FreshDues, Pids)
    BY <1>1, <2>1, PidsFinite, SumMonotone
  <2>4. QED
    BY <2>2, <2>3 DEF Pids
<1>5. ASSUME NEW q \in Pids,
             \A p \in Pids : Due(p)' <= IF p = q THEN Due(p) + 1 ELSE Due(p)
      PROVE  /\ SumFunctionOnSet(Dues, Pids)' <= SumFunctionOnSet(Dues, Pids) + 1
             /\ SumFunctionOnSet(FreshDues, Pids)'
                  <= SumFunctionOnSet(FreshDues, Pids) + 1
  <2>1. \A p \in Pids :
          /\ Dues'[p] <= IF p = q THEN Dues[p] + 1 ELSE Dues[p]
          /\ FreshDues'[p] <= IF p = q THEN FreshDues[p] + 1 ELSE FreshDues[p]
    BY <1>1, <1>3, <1>5
  <2>2. SumFunctionOnSet(Dues', Pids) <= SumFunctionOnSet(Dues, Pids) + 1
    BY <1>1, <2>1, PidsFinite, SumGrows
  <2>3. SumFunctionOnSet(FreshDues', Pids) <= SumFunctionOnSet(FreshDues, Pids) + 1
    BY <1>1, <2>1, PidsFinite, SumGrows
  <2>4. QED
    BY <2>2, <2>3 DEF Pids
<1>6. QED
  BY <1>1, <1>2, <1>4, <1>5, KernelDues

LEMMA KernelSumStep ==
  ASSUME IInv, IInv', SumInv, Kernel
  PROVE  SumInv'
<1>1. /\ UNCHANGED scanVars /\ Found' = Found
      /\ total' = total \/ total' = total + 1
  BY DEF Kernel, Tick, Spawn, Exit, scanVars, whenVars, Found, SumFunction
<1>2. /\ total \in Nat /\ prevTotal \in Nat /\ currTotal \in Nat
      /\ readAt \in Nat /\ sampledAt \in Nat /\ Found \in Nat
      /\ SumFunctionOnSet(Dues, Pids) \in Nat /\ SumFunctionOnSet(Dues, Pids)' \in Nat
      /\ SumFunctionOnSet(FreshDues, Pids) \in Nat
      /\ SumFunctionOnSet(FreshDues, Pids)' \in Nat
  <2>1. /\ total \in Nat /\ prevTotal \in Nat /\ currTotal \in Nat
        /\ readAt \in Nat /\ sampledAt \in Nat
    BY MaxTicksAssumption DEF IInv, TypeOK
  <2>2. QED
    BY <2>1, DueTypes, NextDueTypes DEF DuesTyped, Pids
<1>3. Clock'
  <2>1. UNCHANGED <<pc, prevTotal, currTotal, statFailed, prevFailed, readAt, sampledAt>>
    BY <1>1 DEF scanVars, whenVars
  <2>2. QED
    BY <1>1, <1>2, <2>1 DEF SumInv, Clock
<1>4. Behind' /\ TopInv'
  BY <1>1 DEF SumInv, Behind, TopInv, BusiestRows, scanVars, whenVars
<1>5. ShareInv'
  <2>1. UNCHANGED <<pc, prevTotal, readAt>>
    BY <1>1 DEF scanVars, whenVars
  <2>2. QED
    BY <1>1, <1>2, <2>1, KernelSums DEF SumInv, ShareInv, Overlap
<1>6. QED
  BY <1>3, <1>4, <1>5 DEF SumInv

\* Reading a process moves what it is due from one sum to the other.
LEMMA ReadProcSumStep ==
  ASSUME IInv, IInv', SumInv, NEW p \in Pids, ReadProc(p)
  PROVE  SumInv'
<1>1. /\ p \in DOMAIN ticks /\ ticks[p] \in Nat /\ pc = "scanning" /\ cursor = p
      /\ cursor' = p + 1 /\ entries' = With(entries, p, Due(p))
      /\ prev' = With(prev, p, ticks[p]) /\ ticks' = ticks /\ pc' = pc
      /\ UNCHANGED <<total, currTotal, prevTotal, whenVars>>
  BY DEF ReadProc, NewPrev, Due, Alive, IInv, TypeOK, kernelVars
<1>2. p \notin DOMAIN entries
  BY <1>1 DEF SumInv, Behind, Pids
<1>3. /\ DOMAIN entries' = DOMAIN entries \cup {p} /\ entries'[p] = Due(p)
      /\ \A q \in DOMAIN entries : entries'[q] = entries[q]
  BY <1>1, <1>2 DEF With
<1>4. Due(p)' = 0 /\ \A q \in Pids \ {p} : Due(q)' = Due(q)
  <2>1. DOMAIN prev' = DOMAIN prev \cup {p} /\ prev'[p] = ticks[p]
        /\ \A q \in DOMAIN prev \ {p} : prev'[q] = prev[q]
    BY <1>1 DEF With
  <2>2. QED
    BY <1>1, <2>1 DEF Due, ProcDelta, Alive
<1>5. /\ Dues \in [Pids -> Nat] /\ Dues' \in [Pids -> Nat]
      /\ SumFunctionOnSet(Dues, Pids) \in Nat /\ SumFunctionOnSet(Dues, Pids)' \in Nat
      /\ SumFunctionOnSet(FreshDues, Pids) \in Nat
  BY DueTypes, NextDueTypes DEF DuesTyped, Pids
<1>6. SumFunctionOnSet(Dues, Pids)' + Due(p) = SumFunctionOnSet(Dues, Pids)
  <2>1. Dues[p] = Due(p) /\ Dues'[p] = 0 /\ \A q \in Pids : q # p => Dues'[q] = Dues[q]
    BY <1>4 DEF Dues, Pids
  <2>2. SumFunctionOnSet(Dues', Pids) + Dues[p] = SumFunctionOnSet(Dues, Pids) + Dues'[p]
    BY <1>5, <2>1, PidsFinite, SumChange
  <2>3. QED
    BY <1>5, <2>1, <2>2 DEF Pids
<1>7. SumFunction(entries)' = SumFunction(entries) + Due(p)
  <2>1. IsFiniteSet(DOMAIN entries) /\ IsFiniteSet(DOMAIN entries')
    BY DueTypes, NextDueTypes DEF DuesTyped
  <2>2. \A q \in DOMAIN entries' : entries'[q] \in Nat
    BY DEF IInv, TypeOK
  <2>3. SumFunctionOnSet(entries', DOMAIN entries')
          = entries'[p] + SumFunctionOnSet(entries', DOMAIN entries' \ {p})
    BY <1>3, <2>1, <2>2, SumRemove
  <2>4. DOMAIN entries' \ {p} = DOMAIN entries
    BY <1>2, <1>3
  <2>5. SumFunctionOnSet(entries', DOMAIN entries) = SumFunctionOnSet(entries, DOMAIN entries)
    BY <1>3, <2>1, SumAgree
  <2>6. SumFunction(entries) \in Nat /\ Due(p) \in Nat
    BY <1>3, <2>2, DueTypes DEF DuesTyped
  <2>7. QED
    BY <1>3, <2>3, <2>4, <2>5, <2>6 DEF SumFunction
<1>8. FreshDues' = FreshDues
  BY <1>2, <1>3, <1>4 DEF FreshDues, Pids
<1>9. /\ SumFunction(entries) \in Nat /\ Due(p) \in Nat /\ prevTotal \in Nat
      /\ total \in Nat
  BY <1>5, DueTypes, MaxTicksAssumption DEF DuesTyped, Dues, IInv, TypeOK
<1>10. ShareInv'
  <2>1. prevTotal + SumFunction(entries) + SumFunctionOnSet(Dues, Pids) <= total
    BY <1>1 DEF SumInv, ShareInv, Found
  <2>2. prevTotal + SumFunction(entries)' + SumFunctionOnSet(Dues, Pids)' <= total
    BY <1>5, <1>6, <1>7, <1>9, <2>1
  <2>3. SumFunctionOnSet(FreshDues', Pids) <= Overlap
    BY <1>1, <1>8 DEF SumInv, ShareInv
  <2>4. QED
    BY <1>1, <2>2, <2>3 DEF ShareInv, Found, Pids, Overlap, whenVars
<1>11. Clock' /\ TopInv'
  BY <1>1 DEF SumInv, Clock, TopInv, whenVars
<1>12. Behind'
  BY <1>1, <1>3 DEF SumInv, Behind, Pids, IInv, TypeOK
<1>13. QED
  BY <1>10, <1>11, <1>12 DEF SumInv

\* Once the scan is over, only what has become due behind it is due: it has
\* forgotten the pids it has not met.
LEMMA FinishSumStep ==
  ASSUME IInv, IInv', SumInv, Finish
  PROVE  SumInv'
<1>1. /\ pc = "scanning" /\ pc' = "idle" /\ ticks' = ticks /\ total' = total
      /\ entries' = entries /\ prevTotal' = currTotal
      /\ sampledAt' = readAt /\ readAt' = readAt /\ prevFailed' = statFailed
      /\ DOMAIN entries \subseteq DOMAIN prev
      /\ prev' = [q \in DOMAIN entries |-> prev[q]]
  BY DEF Finish, Pruned, Restrict, kernelVars, IInv, ScanInv
<1>2. Dues' = FreshDues
  BY <1>1 DEF Dues, FreshDues, Due, Alive, Pids
<1>3. /\ SumFunctionOnSet(FreshDues, Pids) \in Nat /\ total \in Nat
      /\ currTotal \in Nat /\ readAt \in Nat
  BY DueTypes, MaxTicksAssumption DEF DuesTyped, IInv, TypeOK
<1>4. ShareInv'
  <2>1. SumFunctionOnSet(FreshDues, Pids) <= Overlap /\ currTotal <= readAt
    BY <1>1 DEF SumInv, ShareInv, Clock
  <2>2. currTotal + 0 + SumFunctionOnSet(Dues', Pids) <= total
    BY <1>2, <1>3, <2>1 DEF Overlap
  <2>3. QED
    BY <1>1, <2>2 DEF ShareInv, Found, Pids
<1>5. Clock' /\ Behind'
  BY <1>1, <1>3 DEF SumInv, Clock, Behind
<1>6. TopInv'
  <2>1. PICK rows \in SUBSET DOMAIN entries :
          /\ \/ rows = DOMAIN entries
             \/ Cardinality(rows) = Rows /\ BusiestRows(rows)
          /\ top' = rows
    BY DEF Finish
  <2>2. QED
    BY <1>1, <2>1 DEF TopInv, BusiestRows
<1>7. QED
  BY <1>4, <1>5, <1>6 DEF SumInv

LEMMA SampleSumStep ==
  ASSUME IInv, IInv', SumInv, Sample
  PROVE  SumInv'
<1>1. CASE ReadTotal \/ OpenFails
  <2>1. /\ UNCHANGED <<total, prevTotal, prev, ticks>>
        /\ pc # "scanning" /\ pc' # "scanning"
    BY <1>1 DEF ReadTotal, OpenFails, kernelVars
  <2>2. Dues' = Dues /\ Found' = Found
    BY <2>1 DEF Dues, Due, Alive, Pids, Found
  <2>3. ShareInv' /\ Behind'
    BY <2>1, <2>2 DEF SumInv, ShareInv, Behind, Pids
  <2>4. Clock'
    BY <1>1, MaxTicksAssumption
       DEF ReadTotal, OpenFails, kernelVars, whenVars, SumInv, Clock, IInv, TypeOK
  <2>5. TopInv'
    BY <1>1 DEF ReadTotal, OpenFails, TopInv
  <2>6. QED
    BY <2>3, <2>4, <2>5 DEF SumInv
<1>2. CASE Open
  <2>1. /\ UNCHANGED <<total, prevTotal, currTotal, whenVars, prev, ticks>>
        /\ pc = "opening" /\ pc' = "scanning" /\ DOMAIN entries' = {}
    BY <1>2 DEF Open, kernelVars
  <2>2. Dues' = Dues /\ Found = 0
    BY <2>1 DEF Dues, Due, Alive, Pids, Found
  <2>3. Found' = 0
    BY <2>1, SumEmpty DEF Found, SumFunction
  <2>4. SumFunctionOnSet(FreshDues', Pids) = 0
    <3>1. \A p \in Pids : FreshDues'[p] = 0
      BY <2>1 DEF FreshDues, Pids
    <3>2. {} \in SUBSET Pids /\ \A p \in Pids : FreshDues'[p] \in Nat
      BY <3>1
    <3>3. QED
      BY <3>1, <3>2, PidsFinite, SumPart, SumEmpty
  <2>5. ShareInv'
    <3>1. /\ total \in Nat /\ readAt \in Nat /\ readAt <= total
          /\ UNCHANGED <<total, readAt, prevTotal>>
      BY <2>1, MaxTicksAssumption DEF whenVars, SumInv, Clock, IInv, TypeOK
    <3>2. QED
      BY <2>1, <2>2, <2>3, <2>4, <3>1 DEF SumInv, ShareInv, Overlap, Pids
  <2>6. Clock' /\ Behind' /\ TopInv'
    BY <2>1 DEF SumInv, Clock, Behind, TopInv, whenVars
  <2>7. QED
    BY <2>5, <2>6 DEF SumInv
<1>3. ASSUME NEW p \in Pids, SkipProc(p)
      PROVE  SumInv'
  <2>1. /\ pc' = pc /\ cursor = p /\ cursor' = p + 1 /\ pc = "scanning"
        /\ UNCHANGED <<total, prevTotal, currTotal, whenVars, prev, ticks,
                       entries, top>>
    BY <1>3 DEF SkipProc, kernelVars
  <2>2. Dues' = Dues /\ FreshDues' = FreshDues /\ Found' = Found
    BY <2>1 DEF Dues, FreshDues, Due, Alive, Pids, Found, SumFunction
  <2>3. ShareInv'
    BY <2>1, <2>2 DEF SumInv, ShareInv, Overlap, Pids, whenVars
  <2>4. Clock' /\ Behind' /\ TopInv'
    BY <2>1 DEF SumInv, Clock, Behind, TopInv, Pids, IInv, TypeOK, whenVars
  <2>5. QED
    BY <2>3, <2>4 DEF SumInv
<1>4. QED
  BY <1>1, <1>2, <1>3, FinishSumStep, ReadProcSumStep DEF Sample

LEMMA SumInvariant == Spec => []SumInv
<1>1. IInv /\ SumInv /\ UNCHANGED vars => SumInv'
  BY DEF SumInv, Clock, Behind, ShareInv, Found, SumFunction, Dues, FreshDues, Due,
         Alive, Pids, TopInv, BusiestRows, Overlap, vars, kernelVars, scanVars, whenVars
<1>2. IInv /\ IInv' /\ SumInv /\ [Next]_vars => SumInv'
  BY <1>1, KernelSumStep, SampleSumStep DEF Next
<1>3. QED
  BY <1>2, InitSumInv, InductiveInvariant, PTL DEF Spec

-----------------------------------------------------------------------------
\* The variables keep their types; no growth of a process is negative.
THEOREM TypeCorrect == Spec => []TypeOK
<1>1. IInv => TypeOK
  BY DEF IInv
<1>2. QED
  BY <1>1, InductiveInvariant, PTL

\* No pid is shown ticks that nobody used under it, though the cache is keyed
\* by the pid alone and pids are used again.
THEOREM NoTicksMadeUp == Spec => []NoPhantomTicks
<1>1. IInv => NoPhantomTicks
  BY DEF IInv, TypeOK, Alive, NoPhantomDue, NoPhantomTicks, Due, ProcDelta
<1>2. QED
  BY <1>1, InductiveInvariant, PTL

\* Every tick of a process that can always be read is shown, once.
THEOREM EachTickShownOnce == Spec => []TicksShownOnce
<1>1. IInv => TicksShownOnce
  BY DEF IInv
<1>2. QED
  BY <1>1, InductiveInvariant, PTL

\* The cache does not grow with the pids of processes that are gone.
THEOREM CacheIsBounded == Spec => []PrevIsBounded
<1>1. IInv => PrevIsBounded
  BY DEF IInv, PrevInv, PrevIsBounded
<1>2. QED
  BY <1>1, InductiveInvariant, PTL

\* Shares are those of the interval since the last complete sample, and add up
\* to no more than the machine, but for the ticks that passed during the scan.
THEOREM SharesAddUp == Spec => []ShareOfWhole
<1>1. ASSUME IInv, SumInv
      PROVE  ShareOfWhole
  <2>1. SUFFICES ASSUME pc = "scanning", ~statFailed, ~prevFailed
                 PROVE  /\ TotalDelta = SinceLast
                        /\ SumFunction(entries) <= TotalDelta + Overlap
    BY DEF ShareOfWhole
  <2>2. /\ prevTotal + SumFunction(entries) + SumFunctionOnSet(Dues, Pids) <= total
        /\ currTotal = readAt /\ prevTotal = sampledAt
    BY <1>1, <2>1 DEF SumInv, ShareInv, Clock, Found
  <2>3. /\ SumFunction(entries) \in Nat /\ SumFunctionOnSet(Dues, Pids) \in Nat
        /\ prevTotal \in Nat /\ readAt \in Nat /\ total \in Nat
    BY <1>1, DueTypes, MaxTicksAssumption DEF DuesTyped, IInv, TypeOK
  <2>4. QED
    BY <2>2, <2>3 DEF TotalDelta, SinceLast, Overlap
<1>2. QED
  BY <1>1, InductiveInvariant, SumInvariant, PTL

\* A process with more than its fair share among as many as the list has rows
\* and one more is on the list: the rows alone would add up to too much.
THEOREM HogsAreListed == Spec => []HogIsListed
<1>1. ASSUME IInv, SumInv
      PROVE  HogIsListed
  <2>1. SUFFICES ASSUME pc = "idle", NEW p \in DOMAIN entries \ top
                 PROVE  (Rows + 1) * entries[p] <= SumFunction(entries)
    BY DEF HogIsListed
  <2>2. /\ top \subseteq DOMAIN entries /\ Cardinality(top) = Rows
        /\ \A q \in top : entries[q] >= entries[p]
    BY <1>1, <2>1 DEF SumInv, TopInv, BusiestRows
  <2> DEFINE rows == top \cup {p}
  <2>3. /\ IsFiniteSet(DOMAIN entries) /\ rows \in SUBSET DOMAIN entries
        /\ \A q \in DOMAIN entries : entries[q] \in Nat
    BY <1>1, <2>1, <2>2, DueTypes DEF DuesTyped, IInv, TypeOK
  <2>4. IsFiniteSet(top) /\ IsFiniteSet(rows) /\ Cardinality(rows) = Rows + 1
    BY <2>1, <2>2, <2>3, FS_Subset, FS_AddElement
  <2>5. \A q \in rows : entries[q] \in Nat /\ entries[p] <= entries[q]
    BY <2>2, <2>3
  <2> HIDE DEF rows
  <2>6. (Rows + 1) * entries[p] <= SumFunctionOnSet(entries, rows)
    BY <2>1, <2>3, <2>4, <2>5, SumAtLeast
  <2>7. SumFunctionOnSet(entries, rows) <= SumFunctionOnSet(entries, DOMAIN entries)
    BY <2>3, SumPart
  <2>8. /\ SumFunctionOnSet(entries, rows) \in Nat
        /\ SumFunctionOnSet(entries, DOMAIN entries) \in Nat
        /\ (Rows + 1) * entries[p] \in Nat
    BY <2>1, <2>3, <2>4, <2>5, SumType, RowsAssumption
  <2>9. QED
    BY <2>6, <2>7, <2>8 DEF SumFunction
<1>2. QED
  BY <1>1, InductiveInvariant, SumInvariant, PTL
=============================================================================
