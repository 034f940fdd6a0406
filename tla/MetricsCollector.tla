-------------------------- MODULE MetricsCollector --------------------------
(***************************************************************************)
(* The main thread's pass over the monitors: MetricsCollector::collect     *)
(* samples memory_, cpu_, network_, disk_, processes_ and sysinfo_ in that *)
(* order, the snapshot is serialized and broadcast, and an exception       *)
(* anywhere gives the whole pass up.  It composes RateMonitor, which is    *)
(* network_, with the other stages, which only matter in that they may     *)
(* throw: "early" is memory_ and cpu_, "late" is disk_, processes_ and     *)
(* sysinfo_.  Seen from disk_, disk_ is RateMonitor and network_ is early. *)
(***************************************************************************)
EXTENDS RateMonitor

VARIABLES
  stage,     \* where the main thread is
  badName,   \* the snapshot lists a process whose name is not UTF-8
  outcome,   \* how the pass that has just ended ended
  spoilt,    \* a pass has failed after network_ was sampled (history)
  shown      \* shown[d][f]: the sum of the growths broadcast (history)

passVars == <<stage, badName, outcome, spoilt, shown>>
cvars    == <<vars, passVars>>

CInit ==
  /\ Init
  /\ stage = "starting" /\ outcome = "none" /\ badName = FALSE
  /\ spoilt = FALSE
  /\ shown = [d \in Devices |-> Zero]

\* The order of collect(), from one stage to the next.
\* Mutant: network_ before memory_ and cpu_.
AfterSwapped == [sleeping |-> "network", network |-> "early", early |-> "late",
                 late |-> "serialize"]
After == [sleeping |-> "early", early |-> "network", network |-> "late",
          late |-> "serialize"]

\* What the report says of d's counter f.
Reported(d, f) == IF d \in DOMAIN report THEN report[d][f] ELSE 0

-----------------------------------------------------------------------------
\* MetricsCollector's constructor: the monitors take their first samples.
Construct ==
  /\ stage = "starting"
  /\ stage' = "sleeping"
  /\ UNCHANGED <<vars, badName, outcome, spoilt, shown>>

\* A constructor throws outside of main's try: std::terminate.
ConstructThrows ==
  /\ stage = "starting"
  /\ stage' = "terminated"
  /\ UNCHANGED <<vars, badName, outcome, spoilt, shown>>

\* The next turn of main's loop calls collect().
Wake ==
  /\ stage = "sleeping"
  /\ stage' = After[stage]
  /\ outcome' = "none"
  /\ UNCHANGED <<vars, badName, spoilt, shown>>

\* The stages that are no RateMonitor.  The kernel cuts process names at 15
\* bytes, within a character perhaps.
Sampled ==
  /\ stage \in {"early", "late"}
  /\ stage' = After[stage]
  /\ badName' \in {FALSE, stage = "late"}
  /\ UNCHANGED <<vars, outcome, spoilt, shown>>

\* main's catch: the pass is given up because of who.
GiveUp(who) ==
  /\ stage' = "sleeping"
  /\ outcome' = who
  /\ spoilt' = (spoilt \/ stage \in {"late", "serialize"})
  /\ badName' = FALSE
  /\ UNCHANGED shown

Throws == stage \in {"early", "late"} /\ GiveUp("monitor") /\ UNCHANGED vars

\* network_.sample() throws.
\* Mutant: the exception is caught by collect(), which goes on with what the
\* last sample() returned.
NetworkThrowsOn ==
  /\ stage = "network" /\ SampleThrows
  /\ stage' = After[stage]
  /\ UNCHANGED <<badName, outcome, spoilt, shown>>
NetworkThrows == stage = "network" /\ SampleThrows /\ GiveUp("monitor")

\* network_.sample() takes the time, and returns.
NetworkStarts == stage = "network" /\ SampleStart /\ UNCHANGED passVars

NetworkSampled ==
  /\ stage = "network" /\ SampleRead
  /\ stage' = After[stage]
  /\ UNCHANGED <<badName, outcome, spoilt, shown>>

\* dump() throws on a string that is not UTF-8.
SerializeThrows ==
  /\ stage = "serialize" /\ badName
  /\ GiveUp("serializer")
  /\ UNCHANGED vars

Broadcast ==
  /\ stage = "serialize" /\ ~badName
  /\ stage' = "sleeping"
  /\ outcome' = "broadcast"
  /\ shown' = [d \in Devices |-> [f \in Fields |-> shown[d][f] + Reported(d, f)]]
  /\ UNCHANGED <<vars, badName, spoilt>>

-----------------------------------------------------------------------------
CNext ==
  \/ Kernel /\ UNCHANGED passVars
  \/ Construct \/ ConstructThrows
  \/ Wake \/ Sampled \/ Throws
  \/ NetworkStarts \/ NetworkThrows \/ NetworkSampled
  \/ SerializeThrows \/ Broadcast

CSpec == CInit /\ [][CNext]_cvars

-----------------------------------------------------------------------------
\* The values the variables take; network_ is only read in its stage.
CTypeOK ==
  /\ TypeOK
  /\ stage \in {"starting", "terminated", "sleeping",
                "early", "network", "late", "serialize"}
  /\ pc = "reading" => stage = "network"
  /\ badName \in BOOLEAN /\ spoilt \in BOOLEAN
  /\ outcome \in {"none", "monitor", "serializer", "broadcast"}
  /\ shown \in [Devices -> [Fields -> Nat]]

\* Failed passes are made up for: whatever memory_, cpu_ and network_ itself
\* throw, and however often, the clients are shown all the traffic of a device
\* that stays, once, but for what is not sampled yet.  Only a pass that fails
\* behind network_ has used up an interval nobody is shown.
CaughtUp ==
  stage = "sleeping" /\ ~spoilt =>
    \A d \in steady : \A f \in Fields :
      shown[d][f] + (raw[d][f] - prev[d][f]) = moved[d][f]

\* No chart ever shows traffic there was not, even after failed passes: the
\* same measurement is not broadcast by two passes.
ShownWasMoved ==
  \A d \in Devices \ renamed : \A f \in Fields : shown[d][f] <= moved[d][f]

\* "A new JSON snapshot is broadcast to every connected WebSocket client
\* every second" (main.cpp:15-16), if the monitors could be read.
EverySecond == outcome # "serializer"
=============================================================================
