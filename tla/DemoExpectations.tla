--------------------------- MODULE DemoExpectations ---------------------------
(***************************************************************************)
(* What comments and log messages of the SEE demo IMU driver say of it and *)
(* the code does not do.  TLC refutes each of them: two in runs of the     *)
(* project, the others with the constants that README.md gives.            *)
(***************************************************************************)
EXTENDS DemoSensor

(* "start a timer for power rail and detect hw if needed": a sensor that    *)
(* has its own and the shared configuration detects its chip.  The check is *)
(* made when the sensor itself is notified; one whose last reply came       *)
(* before the accelerometer's platform configuration is not notified again. *)
ConfiguredSensorDetects ==
  \A s \in Sensors :
    (ss_cfg_received[s] /\ {"PLATFORM_CONFIG", "PLACEMENT"} \subseteq received)
      ~> hw_detection_finished[s]

(* "update this attr once sensor available": a sensor whose chip answered   *)
(* is announced.  If the timer service is found after the detection, its    *)
(* timer was never started and nothing announces it.                        *)
DetectedSensorAnnounced ==
  \A s \in Sensors : hw_is_present[s] ~> available[s]

(* "invalid instance! please power off": a rail voted on for an instance    *)
(* that could not be created does not stay on with nothing left to handle.  *)
FailedInstancePowersOff ==
  (RailOn /\ ~instance /\ \A s \in Sensors : pwrail_pending_state[s] = "NONE")
    ~> (~RailOn \/ instance)

(* "then use this timer to handle later works according to power_state": a  *)
(* sensor that has a state pending has a timer to handle it.                *)
PendingStateHandled ==
  \A s \in Sensors :
    pwrail_pending_state[s] # "NONE" ~> pwrail_pending_state[s] = "NONE"

(* "The sensor always publishes a SNS_STD_MSGID_SNS_STD_FLUSH_EVENT event   *)
(* to indicate completion of a flush request."                              *)
FlushIsAnswered ==
  [][\A s \in Sensors, c \in Clients :
       FlushRequest(s, c) => Flushed(s) \in published']_vars

(* The expected sequence of a flush during an enable: the physical          *)
(* configuration event first, then the flush event.                         *)
FlushAfterPhysicalConfig ==
  \A s \in Sensors : Flushed(s) \in published => s \in Enabled

(* "publish the updated config": the rate a physical configuration event    *)
(* announces is the one the chip was given.                                 *)
AnnouncedRateIsTheChips ==
  \A s \in Configurable, e \in published :
    (e.type = "PHYSICAL_CONFIG" /\ e.sensor = s) => e.rate = istate.sample_rate[s]

(* "need start a timer to handle new state": the chip is given a rate to    *)
(* run at when the rail has been on for off2idle, and not before.           *)
ConfiguredOnSettledRail ==
  (\E e \in published : e.type = "PHYSICAL_CONFIG" /\ e.rate > 0) => settled
=============================================================================
