---------------------------- MODULE RateMonitor -----------------------------
(***************************************************************************)
(* NetworkMonitor and DiskMonitor: byte counters the kernel keeps for each *)
(* device, turned into rates by comparing two samples.  The two classes    *)
(* run the same algorithm on different counters: Fields is {rx, tx} for    *)
(* /proc/net/dev and {read_sectors, write_sectors, io_ticks} for           *)
(* /proc/diskstats.                                                        *)
(*                                                                         *)
(* The kernel works while sample() does: time passes and counters move     *)
(* between steady_clock::now() and the reading of the file.  A rate is     *)
(* kept as its two parts, the counter's growth and the seconds it is       *)
(* divided by; the division, SECTOR_BYTES and the clamping of the          *)
(* utilisation are left out.                                               *)
(***************************************************************************)
EXTENDS Naturals

CONSTANTS
  Devices,    \* names of interfaces or disks
  Fields,     \* the counters of a device
  MaxCount,   \* bound on what a device's counter counts, over all its resets
  MaxTime     \* bound on the time that passes

ASSUME MaxCountAssumption == MaxCount \in Nat
ASSUME MaxTimeAssumption == MaxTime \in Nat

VARIABLES
  clock,      \* steady_clock
  raw,        \* the /proc file: raw[d][f] for the devices d it lists
  pc,         \* "idle", or "reading" between now() and the end of the read
  now,        \* sample()'s now
  prev,       \* prev_: the counters read last, for the devices listed then
  prevTime,   \* prev_time_
  report,     \* what sample() returned: for each device and field, the growth
  elapsed,    \* and the time it is divided by
  moved,      \* moved[d][f]: all that d's counter ever counted (history)
  counted,    \* counted[d][f]: the sum of the growths reported (history)
  covered,    \* the sum of the times they were divided by (history)
  steady,     \* devices listed all along and never reset (history)
  renamed     \* names once given to a device that existed before (history)

kernelVars  == <<raw, moved, steady, renamed>>
monitorVars == <<pc, now, prev, prevTime, report, elapsed, counted, covered>>
vars        == <<clock, kernelVars, monitorVars>>

Zero == [f \in Fields |-> 0]
Listed == DOMAIN raw

\* The constructor has taken the time and read the file.
Init ==
  /\ clock = 0
  /\ \E listed \in SUBSET Devices :
       /\ raw = [d \in listed |-> Zero]
       /\ steady = listed
  /\ prev = raw
  /\ pc = "idle" /\ now = 0 /\ prevTime = 0
  /\ report = [d \in {} |-> Zero] /\ elapsed = 0
  /\ moved = [d \in Devices |-> Zero]
  /\ counted = [d \in Devices |-> Zero]
  /\ covered = 0
  /\ renamed = {}

-----------------------------------------------------------------------------
(***************************************************************************)
(* The kernel.                                                             *)
(***************************************************************************)

TimePasses ==
  /\ clock < MaxTime
  /\ clock' = clock + 1
  /\ UNCHANGED <<kernelVars, monitorVars>>

\* One unit of traffic.
Traffic(d, f) ==
  /\ d \in Listed /\ moved[d][f] < MaxCount
  /\ raw' = [raw EXCEPT ![d][f] = @ + 1]
  /\ moved' = [moved EXCEPT ![d][f] = @ + 1]
  /\ UNCHANGED <<clock, steady, renamed, monitorVars>>

\* A device is plugged in, again perhaps: its counters start at zero.
Appear(d) ==
  /\ d \notin Listed
  /\ raw' = [e \in Listed \cup {d} |-> IF e = d THEN Zero ELSE raw[e]]
  /\ UNCHANGED <<clock, moved, steady, renamed, monitorVars>>

Vanish(d) ==
  /\ d \in Listed
  /\ raw' = [e \in Listed \ {d} |-> raw[e]]
  /\ steady' = steady \ {d}
  /\ UNCHANGED <<clock, moved, renamed, monitorVars>>

\* The driver starts counting from zero.
Reset(d) ==
  /\ d \in Listed
  /\ raw' = [raw EXCEPT ![d] = Zero]
  /\ steady' = steady \ {d}
  /\ UNCHANGED <<clock, moved, renamed, monitorVars>>

\* Device d is given the free name e and keeps its counters.
Rename(d, e) ==
  /\ d \in Listed /\ e \notin Listed
  /\ raw' = [x \in (Listed \ {d}) \cup {e} |-> IF x = e THEN raw[d] ELSE raw[x]]
  /\ steady' = steady \ {d}
  /\ renamed' = renamed \cup {e}
  /\ UNCHANGED <<clock, moved, monitorVars>>

-----------------------------------------------------------------------------
(***************************************************************************)
(* sample().                                                               *)
(***************************************************************************)

\* A counter's growth; a counter that went backwards has grown by nothing.
\* Mutants: no guard against it, in signed and in unsigned arithmetic.
GrowthSigned(curr, p) == curr - p
GrowthWraps(curr, p) == (curr + (MaxCount + 1) - p) % (MaxCount + 1)
Growth(curr, p) == IF curr >= p THEN curr - p ELSE 0

\* The growths reported for a file with the contents curr.
Report(curr) ==
  [d \in DOMAIN curr |->
     [f \in Fields |->
        IF now > prevTime /\ d \in DOMAIN prev
        THEN Growth(curr[d][f], prev[d][f]) ELSE 0]]

\* What prev_ becomes.
\* Mutant: only names it does not have yet are added to prev_.
NewPrevInserts(curr) ==
  [d \in DOMAIN curr |-> IF d \in DOMAIN prev THEN prev[d] ELSE curr[d]]
NewPrev(curr) == curr

\* steady_clock has advanced since the last call: a file was read in between.
SampleStart ==
  /\ pc = "idle" /\ clock > prevTime
  /\ pc' = "reading"
  /\ now' = clock
  /\ UNCHANGED <<clock, kernelVars, prev, prevTime, report, elapsed,
                 counted, covered>>

\* The file cannot be opened: the exception leaves the object as it was.
\* Mutant: prev_time_ is set before the file is read.
SampleThrowsLate ==
  /\ pc = "reading"
  /\ pc' = "idle"
  /\ prevTime' = now
  /\ UNCHANGED <<clock, kernelVars, now, prev, report, elapsed,
                 counted, covered>>
SampleThrows ==
  /\ pc = "reading"
  /\ pc' = "idle"
  /\ UNCHANGED <<clock, kernelVars, now, prev, prevTime, report, elapsed,
                 counted, covered>>

SampleRead ==
  /\ pc = "reading"
  /\ pc' = "idle"
  /\ report' = Report(raw)
  /\ elapsed' = now - prevTime
  /\ prev' = NewPrev(raw)
  /\ prevTime' = now
  /\ counted' = [d \in Devices |->
                   [f \in Fields |->
                      IF d \in Listed THEN counted[d][f] + Report(raw)[d][f]
                      ELSE counted[d][f]]]
  /\ covered' = covered + (now - prevTime)
  /\ UNCHANGED <<clock, kernelVars, now>>

-----------------------------------------------------------------------------
Kernel ==
  \/ TimePasses
  \/ \E d \in Devices :
       \/ \E f \in Fields : Traffic(d, f)
       \/ Appear(d) \/ Vanish(d) \/ Reset(d)
       \/ \E e \in Devices : Rename(d, e)

Sample == SampleStart \/ SampleThrows \/ SampleRead

Next == Kernel \/ Sample

Spec == Init /\ [][Next]_vars

-----------------------------------------------------------------------------
(***************************************************************************)
(* Properties.                                                             *)
(***************************************************************************)

\* The values the variables take; in particular no growth is negative.
TypeOK ==
  /\ clock \in 0..MaxTime /\ now \in 0..clock /\ prevTime \in 0..now
  /\ pc \in {"idle", "reading"}
  /\ Listed \subseteq Devices /\ raw \in [Listed -> [Fields -> Nat]]
  /\ DOMAIN prev \subseteq Devices
  /\ prev \in [DOMAIN prev -> [Fields -> Nat]]
  /\ DOMAIN report \subseteq Devices
  /\ report \in [DOMAIN report -> [Fields -> Nat]]
  /\ elapsed \in Nat /\ covered \in Nat
  /\ moved \in [Devices -> [Fields -> Nat]]
  /\ counted \in [Devices -> [Fields -> Nat]]
  /\ steady \subseteq Listed
  /\ renamed \subseteq Devices

\* Every unit of traffic of a device that stays is reported once, in the first
\* sample that reads it, however many samples failed before.
CountedOnce ==
  \A d \in steady : \A f \in Fields :
    /\ d \in DOMAIN prev
    /\ counted[d][f] + (raw[d][f] - prev[d][f]) = moved[d][f]

\* Resets, removals and returns of a device lose traffic but never make any
\* up: no spike is drawn for bytes that were not sent.  (A name taken over
\* from another device is excepted: its counters are compared with those of
\* the device that had the name before.)
NoPhantomTraffic ==
  \A d \in Devices \ renamed : \A f \in Fields : counted[d][f] <= moved[d][f]

\* The intervals the growths are divided by follow one another without gap or
\* overlap, so that the average of the rates is the average rate.
IntervalsTile == covered = prevTime
=============================================================================
