----------------------------- MODULE MCDemoSensor -----------------------------
(***************************************************************************)
(* Instances of DemoSensor for TLC.                                        *)
(***************************************************************************)
EXTENDS DemoExpectations, TLC

AccGyr == {"ACC", "GYR"}
AllButTemp == {"ACC", "GYR", "MOTION"}
ClientSymmetry == Permutations(Clients)

(* The state a boot without faults ends in: every service and reply came,   *)
(* every chip answered, every sensor is available.  The runs about clients  *)
(* start here.                                                              *)
Booted ==
  /\ suids = [s \in Sensors |-> Suids]
  /\ registry_stream = [s \in Sensors |-> FALSE]
  /\ ss_cfg_received = [s \in Sensors |-> TRUE]
  /\ pwrail_pending_state = [s \in Sensors |-> "NONE"]
  /\ timer_stream = [s \in Sensors |-> FALSE]
  /\ timer_armed = [s \in Sensors |-> FALSE]
  /\ hw_is_present = [s \in Sensors |-> TRUE]
  /\ hw_detection_finished = [s \in Sensors |-> TRUE]
  /\ available = [s \in Sensors |-> TRUE]
  /\ alive = [s \in Sensors |-> TRUE]
  /\ received = {Group(p) : p \in UNION {RequestsOf(s) : s \in Sensors}}
                  \cap SharedGroups
  /\ registry_req_cnt = 0
  /\ dummy_byte = TRUE
  /\ port_handle = FALSE
  /\ rail_vote = "OFF"
  /\ outstanding = {}
  /\ votes = [s \in Sensors |-> "OFF"]
  /\ settled = FALSE
  /\ requests = [s \in Sensors |-> {}]
  /\ InstanceInit

ClientSpec == Booted /\ [][Next]_vars

(* A boot of which only the timers are sure to expire: services may never   *)
(* be found and replies never come.                                         *)
TimerSpec == Spec /\ TimersExpire
=============================================================================
