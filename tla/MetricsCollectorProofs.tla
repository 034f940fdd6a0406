----------------------- MODULE MetricsCollectorProofs -----------------------
(***************************************************************************)
(* Proofs about RateMonitor and about MetricsCollector, for every set of   *)
(* devices and of counters and any amount of traffic.  A step of the       *)
(* collector is a step of network_ or leaves it alone, so that the         *)
(* invariant of RateMonitor, proved first, holds of the composition; the   *)
(* rest is the ledger of what has been broadcast.                          *)
(***************************************************************************)
EXTENDS MetricsCollector, TLAPS

-----------------------------------------------------------------------------
(***************************************************************************)
(* RateMonitor.                                                            *)
(***************************************************************************)

\* What the next sample would report of d's counter f if it were read now.
Due(d, f) ==
  IF d \in Listed /\ d \in DOMAIN prev THEN Growth(raw[d][f], prev[d][f]) ELSE 0

\* Between now() and the read of the file a sample is later than the last.
Timing == pc = "reading" => prevTime < now

\* NoPhantomTraffic, made inductive: not even with what is due next is more
\* reported than was counted.
NoPhantomDue ==
  \A d \in Devices \ renamed : \A f \in Fields :
    counted[d][f] + Due(d, f) <= moved[d][f]

\* CountedOnce, with the counters of a steady device in their order.
SteadyGrows ==
  \A d \in steady : \A f \in Fields : d \in DOMAIN prev /\ prev[d][f] <= raw[d][f]

IInv ==
  /\ TypeOK /\ Timing /\ IntervalsTile
  /\ SteadyGrows /\ CountedOnce /\ NoPhantomDue

LEMMA InitIInv == Init => IInv
<1> SUFFICES ASSUME Init
             PROVE  IInv
  OBVIOUS
<1> USE DEF Init
<1>1. PICK listed \in SUBSET Devices :
        raw = [d \in listed |-> Zero] /\ steady = listed
  OBVIOUS
<1>2. Zero \in [Fields -> Nat] /\ \A f \in Fields : Zero[f] = 0
  BY DEF Zero
<1>3. Listed = listed /\ \A d \in listed : raw[d] = Zero
  BY <1>1 DEF Listed
<1>4. TypeOK
  <2>1. raw \in [Listed -> [Fields -> Nat]]
    BY <1>1, <1>2, <1>3
  <2>2. DOMAIN prev = listed /\ prev \in [DOMAIN prev -> [Fields -> Nat]]
    BY <1>1, <1>2
  <2>3. DOMAIN report = {} /\ report \in [DOMAIN report -> [Fields -> Nat]]
    OBVIOUS
  <2>4. /\ moved \in [Devices -> [Fields -> Nat]]
        /\ counted \in [Devices -> [Fields -> Nat]]
    BY <1>2
  <2>5. clock \in 0..MaxTime /\ now \in 0..clock /\ prevTime \in 0..now
    BY MaxTimeAssumption
  <2>6. QED
    BY <1>1, <1>3, <2>1, <2>2, <2>3, <2>4, <2>5 DEF TypeOK
<1>5. Timing /\ IntervalsTile
  BY DEF Timing, IntervalsTile
<1>6. SteadyGrows /\ CountedOnce
  BY <1>1, <1>2, <1>3 DEF SteadyGrows, CountedOnce, Listed
<1>7. NoPhantomDue
  BY <1>1, <1>2, <1>3 DEF NoPhantomDue, Due, Growth, Listed
<1>8. QED
  BY <1>4, <1>5, <1>6, <1>7 DEF IInv

\* The kernel changes a counter only by counting, or by starting again from
\* zero under a device that is then no longer steady.
LEMMA KernelStep ==
  ASSUME IInv, Kernel
  PROVE  IInv'
<1> USE DEF IInv, TypeOK, Timing, IntervalsTile, SteadyGrows, CountedOnce,
            NoPhantomDue, Due, Growth, Listed, kernelVars, monitorVars
<1>1. CASE TimePasses
  BY <1>1, MaxTimeAssumption DEF TimePasses
<1>2. ASSUME NEW d \in Devices, NEW f \in Fields, Traffic(d, f)
      PROVE  IInv'
  BY <1>2 DEF Traffic
<1>3. ASSUME NEW d \in Devices, Appear(d)
      PROVE  IInv'
  BY <1>3 DEF Appear, Zero
<1>4. ASSUME NEW d \in Devices, Vanish(d)
      PROVE  IInv'
  BY <1>4 DEF Vanish
<1>5. ASSUME NEW d \in Devices, Reset(d)
      PROVE  IInv'
  BY <1>5 DEF Reset, Zero
<1>6. ASSUME NEW d \in Devices, NEW e \in Devices, Rename(d, e)
      PROVE  IInv'
  BY <1>6 DEF Rename
<1>7. QED
  BY <1>1, <1>2, <1>3, <1>4, <1>5, <1>6 DEF Kernel

\* A completed sample settles what was due; one that fails leaves it due.
LEMMA SampleStep ==
  ASSUME IInv, Sample
  PROVE  IInv'
<1> USE DEF IInv, TypeOK, Timing, IntervalsTile, Listed, kernelVars
<1>1. CASE SampleStart
  BY <1>1 DEF SampleStart, SteadyGrows, CountedOnce, NoPhantomDue, Due, Growth
<1>2. CASE SampleThrows
  BY <1>2 DEF SampleThrows, SteadyGrows, CountedOnce, NoPhantomDue, Due, Growth
<1>3. CASE SampleRead
  <2>1. /\ DOMAIN Report(raw) = Listed
        /\ \A d \in Listed : \A f \in Fields : Report(raw)[d][f] = Due(d, f)
    BY <1>3 DEF Report, Due, SampleRead
  <2>2. \A d \in Devices : \A f \in Fields : Due(d, f) \in Nat
    BY DEF Due, Growth
  <2>3. Report(raw) \in [Listed -> [Fields -> Nat]]
    BY <1>3, <2>1, <2>2 DEF Report, SampleRead
  <2>4. \A d \in Devices : \A f \in Fields :
          counted'[d][f] = counted[d][f] + Due(d, f)
    BY <1>3, <2>1 DEF SampleRead, Due
  <2>5. counted' \in [Devices -> [Fields -> Nat]]
    BY <1>3, <2>1, <2>2 DEF SampleRead
  <2>6. /\ prev' = raw /\ raw' = raw /\ moved' = moved
        /\ steady' = steady /\ renamed' = renamed
    BY <1>3 DEF SampleRead, NewPrev
  <2>7. TypeOK' /\ Timing' /\ IntervalsTile'
    BY <1>3, <2>3, <2>5, <2>6 DEF SampleRead
  <2>8. SteadyGrows' /\ CountedOnce'
    <3>1. \A d \in steady : \A f \in Fields :
            Due(d, f) = raw[d][f] - prev[d][f]
      BY DEF Due, Growth, SteadyGrows
    <3>2. QED
      BY <2>4, <2>6, <3>1 DEF SteadyGrows, CountedOnce
  <2>9. NoPhantomDue'
    <3>1. \A d \in Devices : \A f \in Fields : Due(d, f)' = 0
      BY <2>6 DEF Due, Growth
    <3>2. QED
      BY <2>4, <2>5, <2>6, <3>1 DEF NoPhantomDue
  <2>10. QED
    BY <2>7, <2>8, <2>9
<1>4. QED
  BY <1>1, <1>2, <1>3 DEF Sample

LEMMA InductiveInvariant == Spec => []IInv
<1>1. IInv /\ UNCHANGED vars => IInv'
  BY DEF IInv, TypeOK, Timing, IntervalsTile, SteadyGrows, CountedOnce,
         NoPhantomDue, Due, Growth, Listed, vars, kernelVars, monitorVars
<1>2. IInv /\ [Next]_vars => IInv'
  BY <1>1, KernelStep, SampleStep DEF Next
<1>3. QED
  BY <1>2, InitIInv, PTL DEF Spec

-----------------------------------------------------------------------------
\* The monitor's variables keep their types; no growth is ever negative.
THEOREM TypeCorrect == Spec => []TypeOK
<1>1. IInv => TypeOK
  BY DEF IInv
<1>2. QED
  BY <1>1, InductiveInvariant, PTL

\* All traffic of a device that stays is reported, once: failed samples lose
\* nothing, since prev_ and prev_time_ change together or not at all.
THEOREM TrafficCountedOnce == Spec => []CountedOnce
<1>1. IInv => CountedOnce
  BY DEF IInv
<1>2. QED
  BY <1>1, InductiveInvariant, PTL

\* Devices that are reset, removed and plugged in again are never credited
\* with traffic they did not have.
THEOREM NoTrafficMadeUp == Spec => []NoPhantomTraffic
<1>1. IInv => NoPhantomTraffic
  BY DEF IInv, TypeOK, NoPhantomDue, NoPhantomTraffic, Due, Growth, Listed
<1>2. QED
  BY <1>1, InductiveInvariant, PTL

\* The intervals rates are averaged over cover all time, each second once.
THEOREM IntervalsCoverTime == Spec => []IntervalsTile
<1>1. IInv => IntervalsTile
  BY DEF IInv
<1>2. QED
  BY <1>1, InductiveInvariant, PTL

-----------------------------------------------------------------------------
(***************************************************************************)
(* MetricsCollector.                                                       *)
(***************************************************************************)

\* What the pass under way has measured and not yet broadcast.
Pending(d, f) == IF stage \in {"late", "serialize"} THEN Reported(d, f) ELSE 0

\* What was broadcast and what is about to be is no more than what network_
\* has reported, and all of it as long as no pass failed behind network_.
Ledger ==
  \A d \in Devices : \A f \in Fields :
    /\ shown[d][f] + Pending(d, f) <= counted[d][f]
    /\ ~spoilt => shown[d][f] + Pending(d, f) = counted[d][f]

CInv == IInv /\ CTypeOK /\ Ledger

-----------------------------------------------------------------------------
LEMMA InitCInv == CInit => CInv
<1> SUFFICES ASSUME CInit
             PROVE  CInv
  OBVIOUS
<1>1. IInv
  BY InitIInv DEF CInit
<1>2. shown \in [Devices -> [Fields -> Nat]]
  BY DEF CInit, Zero
<1>3. CTypeOK
  BY <1>1, <1>2 DEF CTypeOK, IInv, CInit, Init
<1>4. Ledger
  BY DEF Ledger, Pending, CInit, Init, Zero
<1>5. QED
  BY <1>1, <1>3, <1>4 DEF CInv

\* The collector lets the kernel and network_ take their own steps only.
LEMMA NetworkSteps == CNext => [Next]_vars
BY DEF CNext, Construct, ConstructThrows, Wake, Sampled, Throws,
       NetworkStarts, NetworkThrows, NetworkSampled, SerializeThrows,
       Broadcast, Next, Sample

\* Reported() of two states with the same report.
LEMMA SameReport ==
  ASSUME report' = report, NEW d, NEW f
  PROVE  Reported(d, f)' = Reported(d, f)
BY DEF Reported

LEMMA ReportedIsNat ==
  ASSUME TypeOK, NEW d \in Devices, NEW f \in Fields
  PROVE  Reported(d, f) \in Nat
BY DEF Reported, TypeOK

-----------------------------------------------------------------------------
\* A step in which network_ reports nothing and nothing is broadcast, and
\* which either stays on its side of network_ or gives the pass up.
LEMMA QuietStep ==
  ASSUME CInv, TypeOK',
         report' = report, counted' = counted, shown' = shown,
         stage' \in {"starting", "terminated", "sleeping",
                     "early", "network", "late", "serialize"},
         pc' = "reading" => stage' = "network",
         badName' \in BOOLEAN,
         outcome' \in {"none", "monitor", "serializer", "broadcast"},
         \/ /\ stage' \in {"late", "serialize"} <=> stage \in {"late", "serialize"}
            /\ spoilt' = spoilt
         \/ /\ stage' = "sleeping"
            /\ spoilt' = (spoilt \/ stage \in {"late", "serialize"})
  PROVE  CTypeOK' /\ Ledger'
<1>1. spoilt' \in BOOLEAN /\ (spoilt => spoilt')
  BY DEF CInv, CTypeOK
<1>2. CTypeOK'
  BY <1>1 DEF CInv, CTypeOK
<1>3. ASSUME NEW d \in Devices, NEW f \in Fields
      PROVE  /\ shown'[d][f] + Pending(d, f)' <= counted'[d][f]
             /\ ~spoilt' => shown'[d][f] + Pending(d, f)' = counted'[d][f]
  <2>1. /\ shown[d][f] + Pending(d, f) <= counted[d][f]
        /\ ~spoilt => shown[d][f] + Pending(d, f) = counted[d][f]
    BY DEF CInv, Ledger
  <2>2. /\ Reported(d, f) \in Nat /\ Reported(d, f)' = Reported(d, f)
        /\ shown[d][f] \in Nat /\ counted[d][f] \in Nat
    BY ReportedIsNat, SameReport DEF CInv, CTypeOK, TypeOK
  <2>3. CASE spoilt' = spoilt
             /\ (stage' \in {"late", "serialize"} <=> stage \in {"late", "serialize"})
    BY <2>1, <2>2, <2>3 DEF Pending
  <2>4. CASE stage' = "sleeping"
             /\ spoilt' = (spoilt \/ stage \in {"late", "serialize"})
    <3>1. Pending(d, f)' = 0
      BY <2>4 DEF Pending
    <3>2. Pending(d, f) \in Nat
      BY <2>2 DEF Pending
    <3>3. ~spoilt' => ~spoilt /\ Pending(d, f) = 0
      BY <2>4 DEF Pending
    <3>4. QED
      BY <2>1, <2>2, <3>1, <3>2, <3>3
  <2>5. QED
    BY <2>3, <2>4
<1>4. QED
  BY <1>2, <1>3 DEF Ledger

\* network_'s report is what it adds to counted, and is now to be broadcast.
LEMMA SampledStep ==
  ASSUME CInv, TypeOK', NetworkSampled
  PROVE  CTypeOK' /\ Ledger'
<1>1. /\ stage = "network" /\ stage' = "late" /\ pc' = "idle"
      /\ shown' = shown /\ spoilt' = spoilt /\ badName' = badName
      /\ outcome' = outcome
  BY DEF NetworkSampled, SampleRead, After
<1>2. CTypeOK'
  BY <1>1 DEF CInv, CTypeOK
<1>3. \A d \in Devices : \A f \in Fields :
        counted'[d][f] = counted[d][f] + Reported(d, f)'
  <2>1. report' = Report(raw) /\ DOMAIN Report(raw) = Listed
    BY DEF NetworkSampled, SampleRead, Report, Listed
  <2>2. \A d \in Devices : \A f \in Fields : counted[d][f] \in Nat
    BY DEF CInv, CTypeOK, TypeOK
  <2>3. QED
    BY <2>1, <2>2 DEF NetworkSampled, SampleRead, Reported
<1>4. \A d \in Devices : \A f \in Fields :
        shown[d][f] \in Nat /\ counted[d][f] \in Nat /\ Reported(d, f)' \in Nat
  BY DEF CInv, CTypeOK, TypeOK, Reported
<1>5. Ledger'
  BY <1>1, <1>3, <1>4 DEF CInv, Ledger, Pending
<1>6. QED
  BY <1>2, <1>5

\* What is broadcast is what was pending.
LEMMA BroadcastStep ==
  ASSUME CInv, TypeOK', Broadcast
  PROVE  CTypeOK' /\ Ledger'
<1>1. /\ stage = "serialize" /\ stage' = "sleeping" /\ outcome' = "broadcast"
      /\ pc' = pc /\ spoilt' = spoilt /\ badName' = badName
      /\ counted' = counted
  BY DEF Broadcast, vars, monitorVars
<1>2. \A d \in Devices : \A f \in Fields :
        /\ Reported(d, f) \in Nat /\ shown[d][f] \in Nat /\ counted[d][f] \in Nat
        /\ shown'[d][f] = shown[d][f] + Reported(d, f)
  BY ReportedIsNat DEF Broadcast, CInv, CTypeOK, TypeOK
<1>3. shown' \in [Devices -> [Fields -> Nat]]
  BY <1>2 DEF Broadcast
<1>4. CTypeOK'
  BY <1>1, <1>3 DEF CInv, CTypeOK
<1>5. Ledger'
  BY <1>1, <1>2 DEF CInv, Ledger, Pending
<1>6. QED
  BY <1>4, <1>5

LEMMA StepCInv ==
  ASSUME CInv, CNext
  PROVE  CInv'
<1> USE DEF CInv
<1>1. IInv'
  <2>1. CASE Kernel
    BY <2>1, KernelStep
  <2>2. CASE Sample
    BY <2>2, SampleStep
  <2>3. CASE UNCHANGED vars
    BY <2>3 DEF IInv, TypeOK, Timing, IntervalsTile, SteadyGrows, CountedOnce,
                NoPhantomDue, Due, Growth, Listed, vars, kernelVars, monitorVars
  <2>4. QED
    BY <2>1, <2>2, <2>3, NetworkSteps DEF Next
<1>2. TypeOK'
  BY <1>1 DEF IInv
<1>3. CASE Kernel /\ UNCHANGED passVars
  <2>1. report' = report /\ counted' = counted /\ pc' = pc
    BY <1>3 DEF Kernel, TimePasses, Traffic, Appear, Vanish, Reset, Rename,
                monitorVars
  <2>2. QED
    BY <1>1, <1>2, <1>3, <2>1, QuietStep DEF passVars, CTypeOK
<1>4. CASE Construct \/ ConstructThrows \/ Wake \/ Sampled
  <2>1. /\ report' = report /\ counted' = counted /\ pc' = pc
        /\ shown' = shown /\ spoilt' = spoilt
    BY <1>4 DEF Construct, ConstructThrows, Wake, Sampled, vars, monitorVars
  <2>2. pc # "reading"
    BY <1>4 DEF Construct, ConstructThrows, Wake, Sampled, CTypeOK
  <2>3. /\ badName' \in BOOLEAN
        /\ outcome' \in {"none", "monitor", "serializer", "broadcast"}
    BY <1>4 DEF Construct, ConstructThrows, Wake, Sampled, CTypeOK
  <2>4. /\ stage' \in {"starting", "terminated", "sleeping",
                       "early", "network", "late", "serialize"}
        /\ stage' \in {"late", "serialize"} <=> stage \in {"late", "serialize"}
    <3>1. CASE stage = "early" /\ stage' = After["early"]
      BY <3>1 DEF After
    <3>2. CASE stage = "late" /\ stage' = After["late"]
      BY <3>2 DEF After
    <3>3. CASE Construct \/ ConstructThrows \/ Wake
      BY <3>3 DEF Construct, ConstructThrows, Wake, After
    <3>4. QED
      BY <1>4, <3>1, <3>2, <3>3 DEF Sampled
  <2>5. QED
    BY <1>1, <1>2, <2>1, <2>2, <2>3, <2>4, QuietStep
<1>5. CASE Throws \/ SerializeThrows
  BY <1>1, <1>2, <1>5, QuietStep
     DEF Throws, SerializeThrows, GiveUp, vars, monitorVars, CTypeOK
<1>6. CASE NetworkStarts
  BY <1>1, <1>2, <1>6, QuietStep DEF NetworkStarts, SampleStart, passVars, CTypeOK
<1>7. CASE NetworkThrows
  BY <1>1, <1>2, <1>7, QuietStep DEF NetworkThrows, SampleThrows, GiveUp, CTypeOK
<1>8. QED
  BY <1>1, <1>2, <1>3, <1>4, <1>5, <1>6, <1>7, SampledStep, BroadcastStep
     DEF CNext

LEMMA CollectorInvariant == CSpec => []CInv
<1>1. CInv /\ UNCHANGED cvars => CInv'
  BY DEF CInv, IInv, TypeOK, Timing, IntervalsTile, SteadyGrows, CountedOnce,
         NoPhantomDue, Due, Growth, Listed, CTypeOK, Ledger, Pending, Reported,
         cvars, passVars, vars, kernelVars, monitorVars
<1>2. CInv /\ [CNext]_cvars => CInv'
  BY <1>1, StepCInv
<1>3. QED
  BY <1>2, InitCInv, PTL DEF CSpec

-----------------------------------------------------------------------------
\* The collector's and network_'s variables keep their types.
THEOREM CollectorTypeCorrect == CSpec => []CTypeOK
<1>1. CInv => CTypeOK
  BY DEF CInv
<1>2. QED
  BY <1>1, CollectorInvariant, PTL

\* Inside the collector network_ behaves as RateMonitor says: collect() calls
\* nothing else of it, whatever the other monitors throw.
THEOREM CollectorUsesNetwork == CSpec => Spec
<1>1. CInit => Init
  BY DEF CInit
<1>2. [CNext]_cvars => [Next]_vars
  BY NetworkSteps DEF cvars
<1>3. QED
  BY <1>1, <1>2, PTL DEF CSpec, Spec

\* All traffic of a device that stays reaches the clients, once, unless a pass
\* failed behind network_.
THEOREM TrafficCaughtUp == CSpec => []CaughtUp
<1>1. CInv => CaughtUp
  <2> SUFFICES ASSUME CInv, stage = "sleeping", ~spoilt,
                      NEW d \in steady, NEW f \in Fields
               PROVE  shown[d][f] + (raw[d][f] - prev[d][f]) = moved[d][f]
    BY DEF CaughtUp
  <2>1. d \in Devices
    BY DEF CInv, IInv, TypeOK
  <2>2. counted[d][f] + (raw[d][f] - prev[d][f]) = moved[d][f]
    BY DEF CInv, IInv, CountedOnce
  <2>3. shown[d][f] \in Nat /\ shown[d][f] = counted[d][f]
    BY <2>1 DEF CInv, CTypeOK, Ledger, Pending
  <2>4. QED
    BY <2>2, <2>3
<1>2. QED
  BY <1>1, CollectorInvariant, PTL

\* No traffic is shown that did not happen: no measurement is broadcast twice.
THEOREM NothingShownTwice == CSpec => []ShownWasMoved
<1>1. CInv => ShownWasMoved
  <2> SUFFICES ASSUME CInv, NEW d \in Devices \ renamed, NEW f \in Fields
               PROVE  shown[d][f] <= moved[d][f]
    BY DEF ShownWasMoved
  <2>1. /\ shown[d][f] \in Nat /\ counted[d][f] \in Nat /\ moved[d][f] \in Nat
        /\ Pending(d, f) \in Nat
    BY ReportedIsNat DEF CInv, CTypeOK, TypeOK, Pending
  <2>2. shown[d][f] + Pending(d, f) <= counted[d][f]
    BY DEF CInv, Ledger
  <2>3. counted[d][f] <= moved[d][f]
    BY DEF CInv, IInv, TypeOK, NoPhantomDue, Due, Growth, Listed
  <2>4. QED
    BY <2>1, <2>2, <2>3
<1>2. QED
  BY <1>1, CollectorInvariant, PTL
=============================================================================
