---------------------------- MODULE DemoLifecycle ----------------------------
(***************************************************************************)
(* What the SEE demo IMU driver promises about the boot of its sensors,    *)
(* free of services, replies, timers and counters: a sensor learns its own *)
(* configuration, all of them learn the platform's; only then does a       *)
(* sensor look for its chip, once, and only a sensor that looked is        *)
(* announced as available or destroyed.  Both are final.                   *)
(***************************************************************************)
EXTENDS Naturals

CONSTANT Sensors

VARIABLES
  platform,  \* the platform configuration and the placement are known
  own,       \* the sensors that know their own configuration
  phase      \* phase[s]: how far s has come

lifecycleVars == <<platform, own, phase>>

Phases == {"configuring", "detecting", "available", "destroyed"}

Init ==
  /\ platform = FALSE
  /\ own = {}
  /\ phase = [s \in Sensors |-> "configuring"]

(* What one call of the sensor's entry point may teach.                     *)
Learn(s) ==
  /\ platform' \in {platform, TRUE}
  /\ own' \in {own, own \cup {s}}

Detect(s) ==
  /\ phase[s] = "configuring"
  /\ platform' /\ s \in own'
  /\ phase' = [phase EXCEPT ![s] = "detecting"]

Decide(s) ==
  /\ phase[s] = "detecting"
  /\ \E outcome \in {"available", "destroyed"} :
       phase' = [phase EXCEPT ![s] = outcome]

Next ==
  \E s \in Sensors : Learn(s) /\ (UNCHANGED phase \/ Detect(s) \/ Decide(s))

Spec == Init /\ [][Next]_lifecycleVars
=============================================================================
