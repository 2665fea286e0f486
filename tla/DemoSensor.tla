------------------------------ MODULE DemoSensor ------------------------------
(***************************************************************************)
(* The sensors of the SEE demo IMU driver: how each of them finds the      *)
(* services it needs, reads its configuration from the registry, detects   *)
(* the chip and becomes available, and how clients' requests then reach    *)
(* the instance the sensors share.                                         *)
(*                                                                         *)
(* The SEE framework calls one entry point of the library at a time and    *)
(* lets it run to completion, so an action is a whole call:                *)
(* demo_sensor_notify_event or demo_set_client_request with everything     *)
(* they call.  What the framework decides is a parameter of the action:    *)
(* which services are found, how many registry replies have arrived,       *)
(* whether the timer has expired, what the chip answers.                   *)
(***************************************************************************)
EXTENDS DemoInstance

CONSTANTS
  Clients,       \* the client streams that send requests
  WishedRates,   \* the sample rates they ask for
  ChipAnswers,   \* what reading the chip id can tell: a subset of BOOLEAN
  SuidsInOrder,  \* TRUE: services are found in the order of their lookup
  StaggeredBoot, \* TRUE: clients do not wait for the last sensor
  Faults         \* the faults that can happen, among AllFaults

AllFaults == {"decode", "payload", "send", "instance"}

ASSUME EnvironmentAssumption ==
  /\ ChipAnswers \subseteq BOOLEAN
  /\ ChipAnswers # {}
  /\ SuidsInOrder \in BOOLEAN
  /\ StaggeredBoot \in BOOLEAN
  /\ Faults \subseteq AllFaults
  /\ WishedRates \subseteq Nat

VARIABLES
  \* the state of each sensor (demo_state)
  suids,                  \* the services found so far
  registry_stream,        \* registry_stream is not NULL
  ss_cfg_received,        \* registry_ss_cfg_received
  pwrail_pending_state,
  timer_stream,           \* timer_stream is not NULL
  timer_armed,            \* the timer service holds a one-shot timer for it
  hw_is_present,
  hw_detection_finished,
  available,              \* the AVAILABLE attribute is published as true
  alive,                  \* the framework has not destroyed the sensor
  \* the state they share (demo_common_state)
  received,               \* the shared registry groups parsed so far
  registry_req_cnt,
  dummy_byte,             \* com_port.dummy_byte was taken from the registry
  port_handle,            \* com_port.port_handle is not NULL
  rail_vote,              \* rail_cfg.rail_vote
  \* the world outside
  outstanding,            \* the registry requests not yet answered
  votes,                  \* the power rail service: each sensor's vote
  settled,                \* the rail has been on for off2idle (100 ms)
  requests                \* the client requests in the instance's list

lookupVars == <<suids, registry_stream>>
registryVars ==
  <<ss_cfg_received, received, registry_req_cnt, dummy_byte, outstanding>>
timerVars == <<pwrail_pending_state, timer_stream, timer_armed>>
hwVars == <<hw_is_present, hw_detection_finished, available, alive, port_handle>>
railVars == <<rail_vote, votes, settled>>
bootVars == <<lookupVars, registryVars, hwVars>>
vars == <<bootVars, timerVars, railVars, requests, instVars>>

-----------------------------------------------------------------------------
(* The services every sensor looks up, in the order of demo_common_init.    *)
SuidOrder == <<"timer", "interrupt", "async_com_port", "registry">>
Suids == {SuidOrder[i] : i \in DOMAIN SuidOrder}

(* What each sensor asks the registry for, in this order; the accelerometer *)
(* asks for what all of them share.                                         *)
Requests_platform_first(s) ==
  CASE s = "ACC" -> <<"PLATFORM_CONFIG", "SPEC", "PLACEMENT", "ORIENT",
                      "CONFIG", "FAC_CAL">>
    [] s = "GYR" -> <<"CONFIG", "FAC_CAL">>
    [] s = "MOTION" -> <<"CONFIG", "PLATFORM_CONFIG_MD">>
    [] s = "TEMP" -> <<"CONFIG", "FAC_CAL">>
Requests(s) ==
  CASE s = "ACC" -> <<"SPEC", "PLATFORM_CONFIG", "PLACEMENT", "ORIENT",
                      "CONFIG", "FAC_CAL">>
    [] s = "GYR" -> <<"CONFIG", "FAC_CAL">>
    [] s = "MOTION" -> <<"CONFIG", "PLATFORM_CONFIG_MD">>
    [] s = "TEMP" -> <<"CONFIG", "FAC_CAL">>

SharedGroups ==
  {"SPEC", "PLATFORM_CONFIG", "PLACEMENT", "ORIENT", "PLATFORM_CONFIG_MD"}

RequestsOf(s) == {s} \X (DOMAIN Requests(s))
Group(p) == Requests(p[1])[p[2]]

PendingStates == {"NONE", "INIT", "SET_CLIENT_REQ", "DEINIT"}
RailStates == {"OFF", "LPM", "NPM"}

(* An entry of the instance's client request list.  A configuration whose   *)
(* message the driver does not know is kept in the list all the same.       *)
Config(c, r) == [client |-> c, msg |-> "CONFIG", sample |-> r]
Unknown(c) == [client |-> c, msg |-> "UNKNOWN", sample |-> 0]
ConfigsIn(entries) == {e \in entries : e.msg = "CONFIG"}

(* The request the framework passes as exist_request: the client's last     *)
(* accepted one.                                                            *)
exist_request(s, c) == {e \in ConfigsIn(requests[s]) : e.client = c}

RailOn == \E s \in Sensors : votes[s] # "OFF"

Init ==
  /\ suids = [s \in Sensors |-> {}]
  /\ registry_stream = [s \in Sensors |-> FALSE]
  /\ ss_cfg_received = [s \in Sensors |-> FALSE]
  /\ pwrail_pending_state = [s \in Sensors |-> "NONE"]
  /\ timer_stream = [s \in Sensors |-> FALSE]
  /\ timer_armed = [s \in Sensors |-> FALSE]
  /\ hw_is_present = [s \in Sensors |-> FALSE]
  /\ hw_detection_finished = [s \in Sensors |-> FALSE]
  /\ available = [s \in Sensors |-> FALSE]
  /\ alive = [s \in Sensors |-> TRUE]
  /\ received = {}
  /\ registry_req_cnt = 0
  /\ dummy_byte = FALSE
  /\ port_handle = FALSE
  /\ rail_vote = "OFF"
  /\ outstanding = {}
  /\ votes = [s \in Sensors |-> "OFF"]
  /\ settled = FALSE
  /\ requests = [s \in Sensors |-> {}]
  /\ InstanceInit

-----------------------------------------------------------------------------
(* A step that may fail loses some of the items it handles, when the fault  *)
(* is among those considered.                                               *)
MayLose(items, fault) == IF fault \in Faults THEN SUBSET items ELSE {items}

(* demo_sensor_process_suid_event: the services found are recorded; the     *)
(* first sight of the registry opens its stream and sends the requests.     *)
InLookupOrder(found) ==
  \E k \in 0 .. Len(SuidOrder) : found = {SuidOrder[i] : i \in 1 .. k}

process_suid_event(s, found) ==
  /\ found \subseteq Suids \ suids[s]
  /\ SuidsInOrder => InLookupOrder(suids[s] \cup found)
  /\ suids' = [suids EXCEPT ![s] = @ \cup found]

(* The registry answers each stream's requests in the order they were sent. *)
Arrivals(s) ==
  {{p \in outstanding : p[1] = s /\ p[2] <= i} : i \in 0 .. Len(Requests(s))}

(* demo_sensor_parse_registry for the replies whose payload decodes: CONFIG *)
(* is the sensor's own, the other groups are shared.  The dummy byte of the *)
(* bus is copied from SPEC when PLATFORM_CONFIG is parsed; that group also  *)
(* registers the com port and the power rail (demo_sensor_register_         *)
(* pf_resource), which resets the vote.                                     *)
parse_registry(s, parsed) ==
  LET groups == {Group(p) : p \in parsed}
      pf == "PLATFORM_CONFIG" \in groups
      spec_first ==
        \/ "SPEC" \in received
        \/ \E p, q \in parsed :
             Group(p) = "SPEC" /\ Group(q) = "PLATFORM_CONFIG" /\ p[2] < q[2]
  IN /\ ss_cfg_received' =
          [ss_cfg_received EXCEPT ![s] = @ \/ "CONFIG" \in groups]
     /\ received' = received \cup (groups \cap SharedGroups)
     /\ dummy_byte' = IF pf THEN spec_first ELSE dummy_byte

(* demo_sensor_process_registry_event, with send_registry_request before    *)
(* it: registry_req_cnt is an uint8_t shared by all the sensors; a request  *)
(* counts even when sending it failed, a reply counts when its envelope     *)
(* decodes.  A sensor that handled replies closes its stream when the count *)
(* is 0; becoming available closes it too (published).                      *)
process_registry_event_reset(s, arrived, asked, published_now) ==
  \E sent \in MayLose(asked, "send"),
     decoded \in MayLose(arrived, "decode") :
    \E parsed \in MayLose(decoded, "payload") :
      /\ parse_registry(s, parsed)
      /\ registry_req_cnt' =
           IF published_now THEN 0
           ELSE (registry_req_cnt + Cardinality(asked)
                   - Cardinality(decoded)) % 256
      /\ LET closes == \/ arrived # {} /\ registry_req_cnt' = 0
                       \/ published_now
         IN /\ registry_stream' =
                 [registry_stream EXCEPT ![s] = (@ \/ asked # {}) /\ ~closes]
            /\ outstanding' =
                 IF closes THEN {p \in outstanding : p[1] # s}
                 ELSE (outstanding \cup sent) \ arrived
process_registry_event(s, arrived, asked, published_now) ==
  \E sent \in MayLose(asked, "send"),
     decoded \in MayLose(arrived, "decode") :
    \E parsed \in MayLose(decoded, "payload") :
      /\ parse_registry(s, parsed)
      /\ registry_req_cnt' =
           (registry_req_cnt + Cardinality(asked) - Cardinality(decoded)) % 256
      /\ LET closes == \/ arrived # {} /\ registry_req_cnt' = 0
                       \/ published_now
         IN /\ registry_stream' =
                 [registry_stream EXCEPT ![s] = (@ \/ asked # {}) /\ ~closes]
            /\ outstanding' =
                 IF closes THEN {p \in outstanding : p[1] # s}
                 ELSE (outstanding \cup sent) \ arrived

(* Receiving PLATFORM_CONFIG registers the com port and resets the vote.    *)
PlatformJustRead == "PLATFORM_CONFIG" \in received' \ received

-----------------------------------------------------------------------------
(* demo_sensor_start_power_rail_timer: without the timer service no stream  *)
(* can be created and the pending state stays what it was.                  *)
start_power_rail_timer(s, st) ==
  LET ok == timer_stream[s] \/ "timer" \in suids'[s]
  IN /\ timer_stream' = [timer_stream EXCEPT ![s] = ok]
     /\ timer_armed' = [timer_armed EXCEPT ![s] = ok]
     /\ pwrail_pending_state' =
          [pwrail_pending_state EXCEPT ![s] = IF ok THEN st ELSE @]

(* sns_sensor_util_remove_sensor_stream on the timer stream.                *)
remove_timer_stream(s) ==
  /\ timer_stream' = [timer_stream EXCEPT ![s] = FALSE]
  /\ timer_armed' = [timer_armed EXCEPT ![s] = FALSE]

(* demo_sensor_update_power_rail_vote: the shared rail_cfg is rewritten and *)
(* the framework records it as the vote of sensor s.                        *)
update_power_rail_vote(s, vote) ==
  /\ rail_vote' = vote
  /\ votes' = [votes EXCEPT ![s] = vote]

(* The condition under which demo_sensor_notify_event starts the detection. *)
Detects_shared_only(s, pending) ==
  /\ {"PLATFORM_CONFIG", "PLACEMENT"} \subseteq received'
  /\ ~hw_is_present[s]
  /\ pending = "NONE"
Detects_after_motion(s, pending) ==
  /\ ss_cfg_received'[s]
  /\ {"PLATFORM_CONFIG", "PLACEMENT", "PLATFORM_CONFIG_MD"} \subseteq received'
  /\ ~hw_is_present[s]
  /\ pending = "NONE"
Detects(s, pending) ==
  /\ ss_cfg_received'[s]
  /\ {"PLATFORM_CONFIG", "PLACEMENT"} \subseteq received'
  /\ ~hw_is_present[s]
  /\ pending = "NONE"

(* demo_start_hw_detect: vote the rail on, start the 100 ms timer, read the *)
(* chip id at once, close the shared com port and vote the rail off.        *)
start_hw_detect_left_open(s) ==
  /\ \E present \in ChipAnswers :
       hw_is_present' = [hw_is_present EXCEPT ![s] = present]
  /\ hw_detection_finished' = [hw_detection_finished EXCEPT ![s] = TRUE]
  /\ port_handle' = TRUE
  /\ update_power_rail_vote(s, "OFF")
  /\ UNCHANGED settled
  /\ start_power_rail_timer(s, "INIT")
start_hw_detect(s) ==
  /\ \E present \in ChipAnswers :
       hw_is_present' = [hw_is_present EXCEPT ![s] = present]
  /\ hw_detection_finished' = [hw_detection_finished EXCEPT ![s] = TRUE]
  /\ port_handle' = FALSE
  /\ update_power_rail_vote(s, "OFF")
  /\ settled' = (settled /\ \E t \in Sensors \ {s} : votes[t] # "OFF")
  /\ start_power_rail_timer(s, "INIT")

(* What demo_sensor_notify_event leaves when the timer has not expired and  *)
(* no detection starts.                                                     *)
NoDetection ==
  /\ port_handle' = (port_handle \/ PlatformJustRead)
  /\ rail_vote' = IF PlatformJustRead THEN "OFF" ELSE rail_vote
  /\ UNCHANGED <<hw_is_present, hw_detection_finished, votes, settled>>

(* demo_get_sensor_config over the requests in the list, and                *)
(* demo_reval_instance_config with the rate it chose.                       *)
chosen_rate(s, entries) ==
  chosen_sample_rate({[sample |-> e.sample, report |-> e.sample] :
                        e \in ConfigsIn(entries)})

is_dri_now(s) == ss_cfg_received[s] /\ s \in Dri

reval_instance_config(i, s, entries) ==
  LET rate == chosen_rate(s, entries)
  IN /\ istate' = set_client_config(i, s, rate, is_dri_now(s))
     /\ published' = config_events(i, s, rate)

-----------------------------------------------------------------------------
(* demo_sensor_notify_event, first half: the services found and the replies *)
(* that arrived since the last call.                                        *)
HandleInputs(s, found, arrived, published_now) ==
  /\ process_suid_event(s, found)
  /\ process_registry_event(s, arrived,
       IF "registry" \in found THEN RequestsOf(s) ELSE {}, published_now)

(* A call without an expired timer: the detection starts as soon as the     *)
(* sensor's own and the shared configuration are there.                     *)
NotifyEvent(s, found, arrived) ==
  /\ alive[s]
  /\ found # {} \/ arrived # {}
  /\ HandleInputs(s, found, arrived, FALSE)
  /\ IF Detects(s, pwrail_pending_state[s])
     THEN start_hw_detect(s)
     ELSE NoDetection /\ UNCHANGED timerVars
  /\ published' = {}
  /\ UNCHANGED <<available, alive, requests, instance, istate>>

(* The same with the expired timer of the detection and the chip there: the *)
(* sensor becomes available and drops its registry stream.                  *)
DetectionSucceeds(s, found, arrived) ==
  /\ alive[s]
  /\ timer_armed[s]
  /\ pwrail_pending_state[s] = "INIT"
  /\ hw_is_present[s]
  /\ HandleInputs(s, found, arrived, TRUE)
  /\ available' = [available EXCEPT ![s] = TRUE]
  /\ pwrail_pending_state' = [pwrail_pending_state EXCEPT ![s] = "NONE"]
  /\ remove_timer_stream(s)
  /\ NoDetection
  /\ published' = {}
  /\ UNCHANGED <<alive, requests, instance, istate>>

(* The chip is not there: the call detects once more, because no state is   *)
(* pending any longer, and then returns SNS_RC_INVALID_LIBRARY_STATE, upon  *)
(* which the framework destroys the sensor whatever the second answer was.  *)
DetectionFails_forgotten(s, found, arrived) ==
  /\ alive[s]
  /\ timer_armed[s]
  /\ pwrail_pending_state[s] = "INIT"
  /\ ~hw_is_present[s]
  /\ HandleInputs(s, found, arrived, FALSE)
  /\ pwrail_pending_state' = [pwrail_pending_state EXCEPT ![s] = "NONE"]
  /\ remove_timer_stream(s)
  /\ NoDetection
  /\ published' = {}
  /\ UNCHANGED <<available, alive, requests, instance, istate>>
DetectionFails(s, found, arrived) ==
  /\ alive[s]
  /\ timer_armed[s]
  /\ pwrail_pending_state[s] = "INIT"
  /\ ~hw_is_present[s]
  /\ HandleInputs(s, found, arrived, FALSE)
  /\ Detects(s, "NONE")
  /\ start_hw_detect(s)
  /\ alive' = [alive EXCEPT ![s] = FALSE]
  /\ published' = {}
  /\ UNCHANGED <<available, requests, instance, istate>>

(* The timer of a power rail that was switched on for a client's request    *)
(* expires when the rail has been on for off2idle: the request is applied.  *)
(* Without an instance a DEINIT timer is started, but its pending state and *)
(* its stream do not survive the call.                                      *)
RailTimerExpires_unapplied(s, found, arrived) ==
  /\ alive[s]
  /\ timer_armed[s]
  /\ pwrail_pending_state[s] = "SET_CLIENT_REQ"
  /\ settled \/ ~RailOn
  /\ HandleInputs(s, found, arrived, FALSE)
  /\ pwrail_pending_state' = [pwrail_pending_state EXCEPT ![s] = "NONE"]
  /\ remove_timer_stream(s)
  /\ NoDetection
  /\ published' = {}
  /\ UNCHANGED <<available, alive, requests, instance, istate>>
RailTimerExpires(s, found, arrived) ==
  /\ alive[s]
  /\ timer_armed[s]
  /\ pwrail_pending_state[s] = "SET_CLIENT_REQ"
  /\ settled \/ ~RailOn
  /\ HandleInputs(s, found, arrived, FALSE)
  /\ pwrail_pending_state' = [pwrail_pending_state EXCEPT ![s] = "NONE"]
  /\ remove_timer_stream(s)
  /\ IF instance
     THEN reval_instance_config(istate, s, requests[s])
     ELSE published' = {} /\ UNCHANGED istate
  /\ NoDetection
  /\ UNCHANGED <<available, alive, requests, instance>>

TimerExpires(s) ==
  \E found \in SUBSET (Suids \ suids[s]), arrived \in Arrivals(s) :
    \/ DetectionSucceeds(s, found, arrived)
    \/ DetectionFails(s, found, arrived)
    \/ RailTimerExpires(s, found, arrived)

notify_event(s) ==
  \/ \E found \in SUBSET (Suids \ suids[s]), arrived \in Arrivals(s) :
       NotifyEvent(s, found, arrived)
  \/ TimerExpires(s)

-----------------------------------------------------------------------------
(* The framework passes on requests for the sensors that are available.     *)
Serves(s) ==
  /\ alive[s]
  /\ available[s]
  /\ StaggeredBoot \/ \A t \in Sensors : available[t] \/ ~alive[t]

(* demo_new_instance: the rail is voted on in the name of the master        *)
(* sensor, the accelerometer; unless it has been on for off2idle, the       *)
(* configuration is left to a timer of the requesting sensor s.             *)
new_instance_own_vote(s) ==
  /\ update_power_rail_vote(s, IF s = "GYR" THEN "NPM" ELSE "LPM")
  /\ settled' = (RailOn /\ settled)
  /\ IF settled'
     THEN remove_timer_stream(s) /\ UNCHANGED pwrail_pending_state
     ELSE start_power_rail_timer(s, "SET_CLIENT_REQ")
new_instance(s) ==
  /\ update_power_rail_vote("ACC", IF s = "GYR" THEN "NPM" ELSE "LPM")
  /\ settled' = (RailOn /\ settled)
  /\ IF settled'
     THEN remove_timer_stream(s) /\ UNCHANGED pwrail_pending_state
     ELSE start_power_rail_timer(s, "SET_CLIENT_REQ")

(* demo_instance_init needs the services some sensor has found; what it     *)
(* copies from a sensor that was destroyed is freed memory.                 *)
CreateOutcomes ==
  IF \E t \in Sensors : suids[t] = Suids
  THEN IF "instance" \in Faults THEN BOOLEAN ELSE {TRUE}
  ELSE {FALSE}

FlagsCopied(garbage) ==
  [t \in Sensors |-> IF alive[t] THEN is_dri_now(t) ELSE t \in garbage]

(* demo_set_client_request, for the first request of all (msg), and         *)
(* demo_handle_new_request on the instance it creates.                      *)
AddRequest(s, entries, i, is_config) ==
  /\ requests' = [requests EXCEPT ![s] = entries]
  /\ IF /\ is_config
        /\ rail_vote' # "OFF"
        /\ pwrail_pending_state'[s] = "NONE"
     THEN reval_instance_config(i, s, entries)
     ELSE istate' = i /\ published' = {}

FirstRequest(s, entries, is_config) ==
  /\ Serves(s)
  /\ ~instance
  /\ alive["ACC"]
  /\ UNCHANGED suids
  /\ new_instance(s)
  /\ \E created \in CreateOutcomes, garbage \in SUBSET Sensors :
       /\ instance' = created
       /\ IF created
          THEN AddRequest(s, entries, instance_init(FlagsCopied(garbage)),
                          is_config)
          ELSE published' = {} /\ UNCHANGED <<istate, requests>>
  /\ UNCHANGED <<registry_stream, registryVars, hwVars>>

(* A later request replaces the client's previous one.                      *)
NextRequest(s, entries, is_config) ==
  /\ Serves(s)
  /\ instance
  /\ UNCHANGED <<bootVars, timerVars, railVars, instance>>
  /\ AddRequest(s, entries, istate, is_config)

ConfigRequest(s, c, rate) ==
  LET entries == (requests[s] \ exist_request(s, c)) \cup {Config(c, rate)}
  IN FirstRequest(s, entries, TRUE) \/ NextRequest(s, entries, TRUE)

(* A message the driver does not know is refused: the previous request is   *)
(* added back, the refused one stays in the list too.                       *)
UnknownRequest(s, c) ==
  LET entries == requests[s] \cup {Unknown(c)}
  IN FirstRequest(s, entries, FALSE) \/ NextRequest(s, entries, FALSE)

(* A calibration reset does nothing to an instance, but creates the first.  *)
CalResetRequest(s) == FirstRequest(s, requests[s], FALSE)

(* A client withdraws its request: the rest is applied at once, whatever is *)
(* pending and whether the rail is on or not.                               *)
RemoveRequest(s, c) ==
  /\ Serves(s)
  /\ instance
  /\ exist_request(s, c) # {}
  /\ requests' = [requests EXCEPT ![s] = @ \ exist_request(s, c)]
  /\ reval_instance_config(istate, s, requests'[s])
  /\ UNCHANGED <<bootVars, timerVars, railVars, instance>>

(* demo_handle_flush_request.                                               *)
FlushRequest(s, c) ==
  /\ Serves(s)
  /\ instance
  /\ exist_request(s, c) # {}
  /\ published' =
       IF s \in {"MOTION", "TEMP"} THEN {Flushed(s)} ELSE send_flush_done(s)
  /\ UNCHANGED <<bootVars, timerVars, railVars, requests, instance, istate>>

(* off2idle after the rail was switched on.                                 *)
RailSettles ==
  /\ RailOn
  /\ ~settled
  /\ settled' = TRUE
  /\ published' = {}
  /\ UNCHANGED <<bootVars, timerVars, rail_vote, votes, requests, instance,
                 istate>>

set_client_request(s, c) ==
  \/ \E rate \in WishedRates : ConfigRequest(s, c, rate)
  \/ UnknownRequest(s, c)
  \/ CalResetRequest(s)
  \/ RemoveRequest(s, c)
  \/ FlushRequest(s, c)

InstanceEvent ==
  /\ InstanceNotify
  /\ UNCHANGED <<bootVars, timerVars, railVars, requests>>

Next ==
  \/ \E s \in Sensors : notify_event(s)
  \/ \E s \in Sensors, c \in Clients : set_client_request(s, c)
  \/ RailSettles
  \/ InstanceEvent

Spec == Init /\ [][Next]_vars

(* The framework delivers what it holds for a sensor: the services it has   *)
(* found, the registry's replies and the expiry of its timer; and the rail  *)
(* settles.                                                                 *)
TimersExpire ==
  (\A s \in Sensors : WF_vars(TimerExpires(s))) /\ WF_vars(RailSettles)

RepliesArrive ==
  \A s \in Sensors :
    /\ WF_vars(\E found \in SUBSET (Suids \ suids[s]) :
                 NotifyEvent(s, found, {}))
    /\ WF_vars(\E arrived \in Arrivals(s) : NotifyEvent(s, {}, arrived))

FairSpec == Spec /\ RepliesArrive /\ TimersExpire

-----------------------------------------------------------------------------
TypeOK ==
  /\ suids \in [Sensors -> SUBSET Suids]
  /\ registry_stream \in [Sensors -> BOOLEAN]
  /\ ss_cfg_received \in [Sensors -> BOOLEAN]
  /\ pwrail_pending_state \in [Sensors -> PendingStates]
  /\ timer_stream \in [Sensors -> BOOLEAN]
  /\ timer_armed \in [Sensors -> BOOLEAN]
  /\ hw_is_present \in [Sensors -> BOOLEAN]
  /\ hw_detection_finished \in [Sensors -> BOOLEAN]
  /\ available \in [Sensors -> BOOLEAN]
  /\ alive \in [Sensors -> BOOLEAN]
  /\ received \subseteq SharedGroups
  /\ registry_req_cnt \in 0 .. 255
  /\ dummy_byte \in BOOLEAN
  /\ port_handle \in BOOLEAN
  /\ rail_vote \in RailStates
  /\ outstanding \subseteq UNION {RequestsOf(s) : s \in Sensors}
  /\ votes \in [Sensors -> RailStates]
  /\ settled \in BOOLEAN

(* A sensor that clients can see has its own configuration and the shared   *)
(* platform configuration and placement, whatever the order in which the    *)
(* services and the replies of all the sensors came in, and its chip        *)
(* answered: demo_publish_available is reached through the detection only.  *)
AvailableIsConfigured ==
  \A s \in Sensors : available[s] =>
    /\ hw_is_present[s]
    /\ ss_cfg_received[s]
    /\ {"PLATFORM_CONFIG", "PLACEMENT"} \subseteq received

(* How far a sensor has come, for the promise that DemoLifecycle states.    *)
PhaseOf(living, announced, looked) ==
  CASE ~living -> "destroyed"
    [] living /\ announced -> "available"
    [] living /\ ~announced /\ looked -> "detecting"
    [] OTHER -> "configuring"

phase ==
  [s \in Sensors |-> PhaseOf(alive[s], available[s], hw_detection_finished[s])]

Lifecycle == INSTANCE DemoLifecycle WITH
  platform <- {"PLATFORM_CONFIG", "PLACEMENT"} \subseteq received,
  own <- {s \in Sensors : ss_cfg_received[s]},
  phase <- phase

(* The boot keeps the promise of DemoLifecycle: one call moves one sensor,  *)
(* by one phase, none detects before it is configured, none is announced or *)
(* destroyed without a detection, and requests change nothing of this.      *)
BootKeepsLifecycle == Lifecycle!Spec

(* The one uint8_t that counts the requests of all the sensors never falls  *)
(* below the replies still to come, so a sensor that finds it at 0 and      *)
(* removes its registry stream loses no reply, its own or another's.        *)
CountCoversReplies == Cardinality(outstanding) <= registry_req_cnt

(* Whenever both SPEC and PLATFORM_CONFIG were read, the dummy byte of the  *)
(* bus that the driver reads through was taken from SPEC: it is copied only *)
(* when PLATFORM_CONFIG is parsed, so SPEC has to come first.               *)
DummyByteKnown ==
  ("SPEC" \in received /\ "PLATFORM_CONFIG" \in received) => dummy_byte

(* The com port is shared and every detection closes it: once any sensor    *)
(* has detected, no call leaves it open.                                    *)
PortClosedAfterDetection ==
  port_handle => \A s \in Sensors : ~hw_detection_finished[s]

(* A started detection is decided: the sensor becomes available or is       *)
(* destroyed, however its timer and the rest of the inputs interleave.      *)
DetectionDecides ==
  \A s \in Sensors :
    pwrail_pending_state[s] = "INIT" ~> (available[s] \/ ~alive[s])

(* With every service and reply delivered and the chip there, the           *)
(* accelerometer becomes available: the shared groups come in with its own. *)
AccelerometerAvailable == <>available["ACC"]

-----------------------------------------------------------------------------
Enabled == IF instance THEN istate.sensor_enabled ELSE {}

(* The chip runs at the rate merged from the clients' requests of the       *)
(* moment, for every sensor that is not waiting for the power rail: no      *)
(* order of new, replaced, refused and withdrawn requests of several        *)
(* clients, nor the reconfiguration of another sensor, leaves a stale rate. *)
ConfigApplied ==
  \A s \in Configurable :
    (instance /\ pwrail_pending_state[s] = "NONE") =>
      /\ istate.sample_rate[s] = chip_rate(chosen_rate(s, requests[s]))
      /\ istate.sample_intvl_req[s] = chosen_rate(s, requests[s])

(* A polled sensor's timer runs exactly while an interval is wanted, on an  *)
(* open stream and with that interval, and once nothing is pending it is    *)
(* one of its present clients who wants it.                                 *)
PollingFollowsRequests ==
  \A t \in Enabled \cap Configurable : ~istate.is_dri[t] =>
    /\ istate.timer_is_active[t] <=> istate.sample_intvl_req[t] > 0
    /\ istate.timer_is_active[t] =>
         /\ istate.poll_stream[t]
         /\ istate.sample_intvl[t] = istate.sample_intvl_req[t]
         /\ pwrail_pending_state[t] = "NONE" =>
              \E e \in ConfigsIn(requests[t]) :
                e.sample = istate.sample_intvl[t]

(* The flag the instance copied is the one its sensor has.                  *)
CachedFlagFresh ==
  instance => \A t \in Sensors : alive[t] => istate.is_dri[t] = is_dri_now(t)

(* The FIFO is filled only with an interrupt to drain it, and the interrupt *)
(* is asked for as soon as a data-ready sensor is configured: the FIFO goes *)
(* by the instance's copy of the registry flag, the interrupt by the        *)
(* sensor's own.                                                            *)
InterruptDrainsFifo ==
  /\ CachedFlagFresh
  /\ istate.fifo_enabled # {} => istate.irq_registered
  /\ \A t \in Enabled \cap Fifo :
       is_dri_now(t) => (istate.irq_registered /\ t \in istate.fifo_enabled)

(* The rail is voted on when the instance is created, in the name of the    *)
(* accelerometer, and its power is lost only to a late detection, which     *)
(* votes for itself and never restores what it found: the rail itself only  *)
(* to one of the accelerometer, the shared copy of the vote, without which  *)
(* requests are not applied, to one of any sensor that is neither available *)
(* nor destroyed.  No request, timer, reply or reading of the platform      *)
(* configuration takes either away.                                         *)
Undecided(s) == alive[s] /\ ~available[s]
PowerLostToLateDetection ==
  [][instance' =>
       /\ votes'["ACC"] = "OFF" =>
            (instance /\ votes["ACC"] = "OFF") \/ Undecided("ACC")
       /\ rail_vote' = "OFF" =>
            \/ instance /\ rail_vote = "OFF"
            \/ \E s \in Sensors : Undecided(s)]_vars

(* The rail is on as long as the instance streams, detections or not.  TLC  *)
(* refutes it with StaggeredBoot (no listed run does): a client streams     *)
(* from the gyroscope and the accelerometer detects its chip.               *)
PoweredWhileStreaming ==
  (instance /\ (istate.irq_registered
                  \/ \E t \in Sensors : istate.timer_is_active[t]))
    => votes["ACC"] # "OFF" /\ rail_vote # "OFF"

(* A request that the list holds is applied in the end, the first one too,  *)
(* that came while the rail was off: it waits for a timer of the sensor     *)
(* that was asked, and without another request nothing else applies it.     *)
DeferredRequestApplied ==
  \A s \in Sensors : ConfigsIn(requests[s]) # {} ~> s \in Enabled
=============================================================================
