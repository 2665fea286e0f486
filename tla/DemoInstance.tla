----------------------------- MODULE DemoInstance -----------------------------
(***************************************************************************)
(* The sensor instance of the SEE demo IMU driver: the object that owns    *)
(* the chip once a client streams.  One instance serves all the sensors of *)
(* the library.  The sensor side (DemoSensor) creates it and calls         *)
(* set_client_config; the SEE framework calls notify_event when a polling  *)
(* timer expires or the chip interrupts.  Every call runs to completion.   *)
(*                                                                         *)
(* sns_time intervals are represented by the rate they are the inverse of  *)
(* and a sensor's bit in a mask by its membership in a set.                *)
(***************************************************************************)
EXTENDS DemoRates

CONSTANTS
  Sensors,   \* the sensors of the library, among AllSensors
  Dri,       \* those that the registry configures as data-ready interrupt
  LevelIrq   \* TRUE: the interrupt line is level triggered

AllSensors == {"ACC", "GYR", "MOTION", "TEMP"}

ASSUME SensorsAssumption ==
  /\ Sensors \subseteq AllSensors
  /\ "ACC" \in Sensors
  /\ Dri \subseteq Sensors
  /\ LevelIrq \in BOOLEAN

VARIABLES
  instance,        \* TRUE: the framework holds an instance of this library
  istate,          \* its state (demo_instance_state), see InstanceStates
  published        \* the events published by the last call

instVars == <<instance, istate, published>>

(* The fields of istate, with one entry per sensor where the C struct has   *)
(* an array: is_dri is the copy of the registry flag taken at creation,     *)
(* sample_intvl_req the polling interval wanted (0 for none), sample_intvl  *)
(* the one the timer was started with, poll_stream whether ss_cfgs[s]       *)
(* .timer_stream is not NULL.                                               *)
InstanceStates ==
  [is_dri : [Sensors -> BOOLEAN], sensor_enabled : SUBSET Sensors,
   sample_rate : [Sensors -> Nat], sample_intvl_req : [Sensors -> Nat],
   sample_intvl : [Sensors -> Nat], timer_is_active : [Sensors -> BOOLEAN],
   poll_stream : [Sensors -> BOOLEAN], irq_registered : BOOLEAN,
   fifo_enabled : SUBSET Sensors]

(* The sensors that demo_config_hw knows how to configure; motion detection *)
(* is only ever switched through the interrupt.                             *)
Configurable == Sensors \cap {"ACC", "GYR", "TEMP"}
Fifo == Sensors \cap {"ACC", "GYR"}

PCE(s, r)  == [type |-> "PHYSICAL_CONFIG", sensor |-> s, rate |-> r]
Flushed(s) == [type |-> "FLUSH", sensor |-> s, rate |-> 0]
Sample(s)  == [type |-> "SAMPLE", sensor |-> s, rate |-> 0]
IrqCleared == [type |-> "IRQ_CLEARED", sensor |-> "ACC", rate |-> 0]

-----------------------------------------------------------------------------
(* demo_instance_init: all the state is zeroed, the registry flags that the *)
(* sensors hold at this moment (flags) are copied and one timer stream per  *)
(* sensor is opened; the chip is reset.                                     *)
instance_init(flags) ==
  [is_dri |-> flags, sensor_enabled |-> {},
   sample_rate |-> [s \in Sensors |-> 0],
   sample_intvl_req |-> [s \in Sensors |-> 0],
   sample_intvl |-> [s \in Sensors |-> 0],
   timer_is_active |-> [s \in Sensors |-> FALSE],
   poll_stream |-> [s \in Sensors |-> TRUE],
   irq_registered |-> FALSE, fifo_enabled |-> {}]

InstanceInit ==
  /\ instance = FALSE
  /\ istate = [instance_init([s \in Sensors |-> FALSE])
                EXCEPT !.poll_stream = [s \in Sensors |-> FALSE]]
  /\ published = {}

(* demo_reval_instance_config stores the rate chosen for s and the interval *)
(* it wants; demo_instance_set_client_config marks s enabled.               *)
request_rate_nonzero(i, s, rate) ==
  IF rate = 0 THEN [i EXCEPT !.sensor_enabled = @ \cup {s}]
  ELSE [i EXCEPT !.sensor_enabled = @ \cup {s},
                 !.sample_rate[s] = rate,
                 !.sample_intvl_req[s] = rate]
request_rate(i, s, rate) ==
  [i EXCEPT !.sensor_enabled = @ \cup {s},
            !.sample_rate[s] = rate,
            !.sample_intvl_req[s] = rate]

(* demo_hal_register_interrupt asks for the interrupt once, and decides by  *)
(* the flag of the sensor itself (dri), not by the instance's copy of it.   *)
hal_register_interrupt(i, dri) == [i EXCEPT !.irq_registered = @ \/ dri]

(* demo_send_config_event announces the stored rate of every enabled        *)
(* sensor.  It runs before demo_config_hw, so the rate it announces for the *)
(* sensor just requested is the wish, not yet the rate of the chip.         *)
send_config_event(i) == {PCE(t, i.sample_rate[t]) : t \in i.sensor_enabled}

(* demo_config_hw brings the stored rate of each enabled sensor into the    *)
(* platform's range and up to a step of the chip.                           *)
config_rates(i) ==
  [i EXCEPT !.sample_rate =
     [t \in Sensors |-> IF t \in i.sensor_enabled \cap Configurable
                        THEN chip_rate(@[t]) ELSE @[t]]]

(* demo_config_fifo switches on the FIFO bits of every enabled sensor that  *)
(* has one, whichever data-ready sensor it is called for.                   *)
config_fifo_any(i) ==
  [i EXCEPT !.fifo_enabled = @ \cup (i.sensor_enabled \cap Fifo)]
config_fifo(i) ==
  IF \E t \in i.sensor_enabled \cap Fifo : i.is_dri[t]
  THEN [i EXCEPT !.fifo_enabled = @ \cup (i.sensor_enabled \cap Fifo)]
  ELSE i

(* demo_set_sensor_polling_config, for the polled sensors: the timer is     *)
(* (re)started when the wanted interval changed and stopped, its stream     *)
(* removed, when none is wanted and one is running.                         *)
Polled(i) == {t \in i.sensor_enabled \cap Configurable : ~i.is_dri[t]}
restarts_once(i, t) ==
  /\ t \in Polled(i)
  /\ i.sample_intvl_req[t] > 0
  /\ i.sample_intvl[t] = 0
restarts(i, t) ==
  /\ t \in Polled(i)
  /\ i.sample_intvl_req[t] > 0
  /\ i.sample_intvl[t] # i.sample_intvl_req[t]
stops(i, t) ==
  /\ t \in Polled(i)
  /\ i.sample_intvl_req[t] = 0
  /\ i.timer_is_active[t]

set_sensor_polling_config(i) ==
  [i EXCEPT
     !.sample_intvl =
       [t \in Sensors |-> IF restarts(i, t) \/ stops(i, t)
                          THEN i.sample_intvl_req[t] ELSE @[t]],
     !.timer_is_active =
       [t \in Sensors |-> restarts(i, t) \/ (@[t] /\ ~stops(i, t))],
     !.poll_stream =
       [t \in Sensors |-> restarts(i, t) \/ (@[t] /\ ~stops(i, t))]]

config_hw(i) == set_sensor_polling_config(config_fifo(config_rates(i)))

(* demo_instance_set_client_config with a SENSOR_CONFIG message: the merged *)
(* rate of sensor s becomes part of the instance's configuration.  The      *)
(* state it leaves, and the events it publishes.                            *)
set_client_config(i, s, rate, dri) ==
  config_hw(hal_register_interrupt(request_rate(i, s, rate), dri))
config_events(i, s, rate) == send_config_event(request_rate(i, s, rate))

(* The instance's part of a flush: demo_send_flush_done knows the           *)
(* accelerometer only, a gyroscope's flush falls into its empty branch.     *)
(* flushing_sensors is set and cleared inside the call, so a flush never    *)
(* finds another one in progress.                                           *)
send_flush_done(s) == IF s = "ACC" THEN {Flushed(s)} ELSE {}

-----------------------------------------------------------------------------
(* demo_instance_process_timer_event with the expiry of s's polling timer:  *)
(* the chip is read and one sample is published.                            *)
process_timer_event(s) ==
  /\ istate.poll_stream[s]
  /\ istate.timer_is_active[s]
  /\ published' = {Sample(s)}
  /\ UNCHANGED <<instance, istate>>

(* What the chip can report in its status registers when it interrupts.     *)
Running(s) == s \in Sensors /\ istate.sample_rate[s] > 0
IrqStatus ==
  (IF Running("ACC") THEN {"acc_drdy"} ELSE {})
    \cup (IF Running("GYR") THEN {"gyr_drdy"} ELSE {})
    \cup (IF istate.fifo_enabled # {} THEN {"fifo_wtm", "fifo_full"} ELSE {})

(* demo_handle_acc_drdy_irq_event (for a full FIFO too),                    *)
(* demo_handle_gyr_drdy_irq_event and demo_handle_wtm_irq_event: what each  *)
(* status bit makes the instance publish; frames are the sensors that the   *)
(* FIFO holds data of.                                                      *)
DrdySamples(status) ==
  (IF status \cap {"acc_drdy", "fifo_full"} # {} THEN {Sample("ACC")} ELSE {})
    \cup (IF "gyr_drdy" \in status THEN {Sample("GYR")} ELSE {})
FifoSamples(status, frames) ==
  IF "fifo_wtm" \in status THEN {Sample(t) : t \in frames} ELSE {}

(* demo_clear_irq, for a level triggered line.                              *)
clear_irq == IF LevelIrq THEN {IrqCleared} ELSE {}

(* demo_handle_irq and demo_instance_process_irq_event.                     *)
handle_irq(status, frames) ==
  /\ instance
  /\ istate.irq_registered
  /\ status \subseteq IrqStatus
  /\ frames \subseteq istate.fifo_enabled
  /\ published' = DrdySamples(status) \cup FifoSamples(status, frames)
                    \cup clear_irq
  /\ UNCHANGED <<instance, istate>>

(* demo_instance_notify_event.                                              *)
InstanceNotify ==
  \/ \E s \in Sensors : process_timer_event(s)
  \/ \E status \in SUBSET IrqStatus, frames \in SUBSET istate.fifo_enabled :
       handle_irq(status, frames)

=============================================================================
