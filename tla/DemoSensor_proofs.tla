-------------------------- MODULE DemoSensor_proofs --------------------------
(***************************************************************************)
(* Theorems about DemoSensor, for every set of sensors, clients, rates and *)
(* faults.  The inductive invariant BootInv says how far the boot of a     *)
(* sensor can be ahead of the shared state, and in which order the         *)
(* registry's replies come in.                                             *)
(*                                                                         *)
(* Behind it: what clients may rely on.  The instance follows their        *)
(* requests, a polled sensor's timer and a data-ready sensor's interrupt   *)
(* go with them.  These theorems are about the client phase after a boot   *)
(* without faults (ClientSpec), and about every boot whose clients wait    *)
(* for the last sensor; what is said of the power rail holds in every boot.*)
(***************************************************************************)
EXTENDS MCDemoSensor, DemoRates_proofs, FiniteSetTheorems, TLAPS

(* The types of what the sensors keep, without the counter.                 *)
LookupTypes ==
  /\ suids \in [Sensors -> SUBSET Suids]
  /\ registry_stream \in [Sensors -> BOOLEAN]
  /\ ss_cfg_received \in [Sensors -> BOOLEAN]
  /\ received \subseteq SharedGroups
  /\ dummy_byte \in BOOLEAN
  /\ outstanding \subseteq UNION {RequestsOf(s) : s \in Sensors}

HwTypes ==
  /\ hw_is_present \in [Sensors -> BOOLEAN]
  /\ hw_detection_finished \in [Sensors -> BOOLEAN]
  /\ available \in [Sensors -> BOOLEAN]
  /\ alive \in [Sensors -> BOOLEAN]
  /\ port_handle \in BOOLEAN

TimerTypes ==
  /\ pwrail_pending_state \in [Sensors -> PendingStates]
  /\ timer_stream \in [Sensors -> BOOLEAN]
  /\ timer_armed \in [Sensors -> BOOLEAN]

RailTypes ==
  /\ rail_vote \in RailStates
  /\ votes \in [Sensors -> RailStates]
  /\ settled \in BOOLEAN

(* A request can be outstanding only after the registry was found, and the  *)
(* accelerometer's first one, SPEC, no longer is when PLATFORM_CONFIG was   *)
(* read: that is why the dummy byte is always there in time.                *)
RepliesInOrder ==
  /\ \A p \in outstanding : "registry" \in suids[p[1]]
  /\ "PLATFORM_CONFIG" \in received =>
       /\ "registry" \in suids["ACC"]
       /\ <<"ACC", 1>> \notin outstanding

(* What a detection, its result and the announcement presuppose.            *)
DetectionSound ==
  \A s \in Sensors :
    /\ pwrail_pending_state[s] = "INIT" => hw_detection_finished[s]
    /\ hw_is_present[s] => hw_detection_finished[s]
    /\ hw_detection_finished[s] =>
         /\ ss_cfg_received[s]
         /\ "PLATFORM_CONFIG" \in received
         /\ "PLACEMENT" \in received
    /\ available[s] => hw_is_present[s] /\ alive[s]

BootInv ==
  /\ LookupTypes
  /\ HwTypes
  /\ TimerTypes
  /\ RailTypes
  /\ RepliesInOrder
  /\ DummyByteKnown
  /\ DetectionSound
  /\ PortClosedAfterDetection

-----------------------------------------------------------------------------
(* Only the accelerometer's first two requests are about SPEC and           *)
(* PLATFORM_CONFIG.                                                         *)
LEMMA PlatformRequests ==
  ASSUME NEW s \in Sensors, NEW p \in RequestsOf(s)
  PROVE  /\ p[1] = s
         /\ p[2] \in Nat
         /\ Group(p) = "SPEC" <=> p = <<"ACC", 1>>
         /\ Group(p) = "PLATFORM_CONFIG" <=> p = <<"ACC", 2>>
<1>1. s \in {"ACC", "GYR", "MOTION", "TEMP"}
  BY SensorsAssumption DEF AllSensors
<1>2. p[1] = s /\ p[2] \in DOMAIN Requests(s) /\ p = <<p[1], p[2]>>
  BY DEF RequestsOf
<1>3. CASE s = "ACC"
  <2>1. Requests(s) = <<"SPEC", "PLATFORM_CONFIG", "PLACEMENT", "ORIENT",
                        "CONFIG", "FAC_CAL">>
    BY <1>3 DEF Requests
  <2>2. p[2] \in 1 .. 6
    BY <1>2, <2>1
  <2>3. Group(p) = Requests(s)[p[2]]
    BY <1>2 DEF Group
  <2>. QED
    BY <1>2, <1>3, <2>1, <2>2, <2>3
<1>4. CASE s \in {"GYR", "TEMP"}
  <2>1. Requests(s) = <<"CONFIG", "FAC_CAL">>
    BY <1>4 DEF Requests
  <2>2. p[2] \in 1 .. 2
    BY <1>2, <2>1
  <2>3. Group(p) = Requests(s)[p[2]]
    BY <1>2 DEF Group
  <2>. QED
    BY <1>2, <1>4, <2>1, <2>2, <2>3
<1>5. CASE s = "MOTION"
  <2>1. Requests(s) = <<"CONFIG", "PLATFORM_CONFIG_MD">>
    BY <1>5 DEF Requests
  <2>2. p[2] \in 1 .. 2
    BY <1>2, <2>1
  <2>3. Group(p) = Requests(s)[p[2]]
    BY <1>2 DEF Group
  <2>. QED
    BY <1>2, <1>5, <2>1, <2>2, <2>3
<1>. QED
  BY <1>1, <1>3, <1>4, <1>5

(* A reply that is outstanding is one to a request of its sensor.           *)
LEMMA OutstandingIsRequest ==
  ASSUME LookupTypes, NEW p \in outstanding
  PROVE  p[1] \in Sensors /\ p \in RequestsOf(p[1])
<1>1. PICK s \in Sensors : p \in RequestsOf(s)
  BY DEF LookupTypes
<1>2. p[1] = s
  BY <1>1, PlatformRequests
<1>. QED
  BY <1>1, <1>2

(* What the first half of demo_sensor_notify_event preserves: nothing that  *)
(* was known is forgotten, the replies stay in order and the dummy byte is  *)
(* known as soon as SPEC and PLATFORM_CONFIG are.                           *)
LEMMA InputsKeepOrder ==
  ASSUME LookupTypes, RepliesInOrder, DummyByteKnown,
         NEW s \in Sensors, NEW found, NEW arrived \in Arrivals(s),
         NEW published_now, HandleInputs(s, found, arrived, published_now)
  PROVE  /\ LookupTypes'
         /\ RepliesInOrder'
         /\ DummyByteKnown'
         /\ received \subseteq received'
         /\ \A t \in Sensors : ss_cfg_received[t] => ss_cfg_received'[t]
<1>. DEFINE asked == IF "registry" \in found THEN RequestsOf(s) ELSE {}
<1>1. /\ found \subseteq Suids \ suids[s]
      /\ suids' = [suids EXCEPT ![s] = @ \cup found]
      /\ process_registry_event(s, arrived, asked, published_now)
  BY DEF HandleInputs, process_suid_event
<1>2. PICK sent \in MayLose(asked, "send"),
           decoded \in MayLose(arrived, "decode") :
        \E parsed \in MayLose(decoded, "payload") :
          /\ parse_registry(s, parsed)
          /\ \E closes \in BOOLEAN :
               /\ registry_stream' =
                    [registry_stream EXCEPT ![s] = (@ \/ asked # {}) /\ ~closes]
               /\ outstanding' =
                    IF closes THEN {p \in outstanding : p[1] # s}
                    ELSE (outstanding \cup sent) \ arrived
  BY <1>1, Zenon DEF process_registry_event
<1>3. PICK parsed \in MayLose(decoded, "payload") :
        /\ parse_registry(s, parsed)
        /\ \E closes \in BOOLEAN :
             /\ registry_stream' =
                  [registry_stream EXCEPT ![s] = (@ \/ asked # {}) /\ ~closes]
             /\ outstanding' =
                  IF closes THEN {p \in outstanding : p[1] # s}
                  ELSE (outstanding \cup sent) \ arrived
  BY <1>2
<1>4. sent \subseteq asked /\ decoded \subseteq arrived /\ parsed \subseteq arrived
  BY <1>2, <1>3 DEF MayLose
<1>5. PICK i \in 0 .. Len(Requests(s)) :
        arrived = {p \in outstanding : p[1] = s /\ p[2] <= i}
  BY DEF Arrivals
<1>6. outstanding' \subseteq (outstanding \cup sent) \ arrived
  BY <1>3, <1>5
<1>7. /\ registry_stream' \in [Sensors -> BOOLEAN]
      /\ suids' \in [Sensors -> SUBSET Suids]
      /\ \A t \in Sensors : suids[t] \subseteq suids'[t]
      /\ asked # {} => "registry" \in suids'[s] \ suids[s]
  <2>1. registry_stream' \in [Sensors -> BOOLEAN]
    BY <1>3 DEF LookupTypes
  <2>. QED
    BY <1>1, <2>1 DEF LookupTypes
<1>8. outstanding' \subseteq UNION {RequestsOf(t) : t \in Sensors}
  BY <1>4, <1>6 DEF LookupTypes
<1>9. /\ ss_cfg_received' \in [Sensors -> BOOLEAN]
      /\ \A t \in Sensors : ss_cfg_received[t] => ss_cfg_received'[t]
      /\ received' = received \cup ({Group(p) : p \in parsed} \cap SharedGroups)
  BY <1>3 DEF parse_registry, LookupTypes
<1>10. dummy_byte' = IF "PLATFORM_CONFIG" \in {Group(p) : p \in parsed}
                     THEN \/ "SPEC" \in received
                          \/ \E p, q \in parsed :
                               /\ Group(p) = "SPEC"
                               /\ Group(q) = "PLATFORM_CONFIG"
                               /\ p[2] < q[2]
                     ELSE dummy_byte
  BY <1>3 DEF parse_registry
<1>11. LookupTypes'
  BY <1>7, <1>8, <1>9, <1>10 DEF LookupTypes
<1>12. \A p \in parsed : p \in outstanding /\ p[1] = s /\ p \in RequestsOf(s)
  BY <1>4, <1>5, OutstandingIsRequest
<1>13. ASSUME NEW p \in parsed, Group(p) = "PLATFORM_CONFIG"
       PROVE  /\ p = <<"ACC", 2>> /\ s = "ACC"
              /\ "registry" \in suids["ACC"]
              /\ asked = {}
              /\ <<"ACC", 1>> \notin outstanding'
  <2>1. p = <<"ACC", 2>>
    BY <1>12, <1>13, PlatformRequests
  <2>2. s = "ACC" /\ "registry" \in suids["ACC"]
    BY <2>1, <1>12 DEF RepliesInOrder
  <2>3. asked = {}
    BY <2>2, <1>1
  <2>4. p \in arrived /\ i \in Nat /\ 2 <= i
    BY <1>4, <1>5, <2>1
  <2>5. <<"ACC", 1>> \in outstanding => <<"ACC", 1>> \in arrived
    BY <1>5, <2>2, <2>4
  <2>. QED
    BY <1>4, <1>6, <2>1, <2>2, <2>3, <2>5
<1>14. RepliesInOrder'
  <2>1. ASSUME NEW p \in outstanding' PROVE "registry" \in suids'[p[1]]
    <3>1. CASE p \in outstanding
      BY <3>1, <1>7, OutstandingIsRequest DEF RepliesInOrder
    <3>2. CASE p \in sent
      <4>1. asked # {} /\ p \in RequestsOf(s)
        BY <3>2, <1>4
      <4>. QED
        BY <4>1, <1>7, PlatformRequests
    <3>. QED
      BY <1>6, <3>1, <3>2
  <2>2. CASE "PLATFORM_CONFIG" \in received
    <3>1. "registry" \in suids["ACC"] /\ <<"ACC", 1>> \notin outstanding
      BY <2>2 DEF RepliesInOrder
    <3>2. <<"ACC", 1>> \notin sent
      <4>1. ASSUME <<"ACC", 1>> \in asked PROVE FALSE
        <5>1. <<"ACC", 1>> \in RequestsOf(s) /\ asked # {}
          BY <4>1
        <5>2. s = "ACC"
          BY <5>1, PlatformRequests
        <5>. QED
          BY <5>1, <5>2, <3>1, <1>7
      <4>. QED
        BY <4>1, <1>4
    <3>3. "ACC" \in Sensors
      BY SensorsAssumption
    <3>. QED
      BY <2>1, <3>1, <3>2, <3>3, <1>6, <1>7 DEF RepliesInOrder
  <2>3. CASE \E p \in parsed : Group(p) = "PLATFORM_CONFIG"
    <3>1. "ACC" \in Sensors
      BY SensorsAssumption
    <3>. QED
      BY <2>1, <2>3, <1>13, <1>7, <3>1 DEF RepliesInOrder
  <2>4. CASE "PLATFORM_CONFIG" \notin received'
    BY <2>1, <2>4 DEF RepliesInOrder
  <2>. QED
    BY <1>9, <2>2, <2>3, <2>4
<1>15. DummyByteKnown'
  <2>. SUFFICES ASSUME "SPEC" \in received', "PLATFORM_CONFIG" \in received'
                PROVE  dummy_byte'
    BY DEF DummyByteKnown
  <2>1. CASE \E p \in parsed : Group(p) = "PLATFORM_CONFIG"
    <3>1. PICK q \in parsed : Group(q) = "PLATFORM_CONFIG"
      BY <2>1
    <3>2. q[2] = 2
      BY <3>1, <1>13
    <3>3. "SPEC" \in received \/ \E p \in parsed : Group(p) = "SPEC"
      BY <1>9
    <3>4. ASSUME NEW p \in parsed, Group(p) = "SPEC" PROVE p[2] = 1
      BY <3>4, <1>12, PlatformRequests
    <3>. QED
      BY <1>10, <3>1, <3>2, <3>3, <3>4
  <2>2. CASE ~ \E p \in parsed : Group(p) = "PLATFORM_CONFIG"
    <3>1. "PLATFORM_CONFIG" \in received /\ dummy_byte' = dummy_byte
      BY <2>2, <1>9, <1>10
    <3>2. \A p \in parsed : Group(p) # "SPEC"
      BY <3>1, <1>12, PlatformRequests DEF RepliesInOrder
    <3>3. "SPEC" \in received
      BY <3>2, <1>9
    <3>. QED
      BY <3>1, <3>3 DEF DummyByteKnown
  <2>. QED
    BY <2>1, <2>2
<1>. QED
  BY <1>9, <1>11, <1>14, <1>15

-----------------------------------------------------------------------------
(* What is left of BootInv when HandleInputs is done: the hardware, the     *)
(* timers and the rail.                                                     *)
HwInv ==
  /\ HwTypes
  /\ TimerTypes
  /\ RailTypes
  /\ DetectionSound
  /\ PortClosedAfterDetection

(* demo_start_hw_detect, and with it the end of a sensor that has no chip,  *)
(* preserves it when the sensor's configuration is there.                   *)
LEMMA DetectKeepsHwInv ==
  ASSUME HwInv, LookupTypes, LookupTypes', received \subseteq received',
         \A t \in Sensors : ss_cfg_received[t] => ss_cfg_received'[t],
         NEW s \in Sensors, NEW pending, Detects(s, pending),
         start_hw_detect(s),
         available' = available,
         alive' = alive \/ alive' = [alive EXCEPT ![s] = FALSE]
  PROVE  HwInv'
<1>1. PICK present \in BOOLEAN :
        hw_is_present' = [hw_is_present EXCEPT ![s] = present]
  BY EnvironmentAssumption DEF start_hw_detect
<1>2. /\ hw_detection_finished' = [hw_detection_finished EXCEPT ![s] = TRUE]
      /\ port_handle' = FALSE
      /\ settled' = (settled /\ \E t \in Sensors \ {s} : votes[t] # "OFF")
      /\ rail_vote' = "OFF" /\ votes' = [votes EXCEPT ![s] = "OFF"]
  BY DEF start_hw_detect, update_power_rail_vote
<1>3. HwTypes'
  BY <1>1, <1>2 DEF HwInv, HwTypes
<1>4. /\ TimerTypes'
      /\ \A t \in Sensors \ {s} :
           pwrail_pending_state'[t] = pwrail_pending_state[t]
  BY DEF HwInv, TimerTypes, start_hw_detect, start_power_rail_timer,
         PendingStates
<1>5. RailTypes'
  BY <1>2 DEF HwInv, RailTypes, RailStates
<1>6. ~ available[s]
  BY DEF HwInv, DetectionSound, Detects
<1>7. DetectionSound'
  <2>. SUFFICES ASSUME NEW t \in Sensors
                PROVE  /\ pwrail_pending_state'[t] = "INIT"
                            => hw_detection_finished'[t]
                       /\ hw_is_present'[t] => hw_detection_finished'[t]
                       /\ hw_detection_finished'[t] =>
                            /\ ss_cfg_received'[t]
                            /\ "PLATFORM_CONFIG" \in received'
                            /\ "PLACEMENT" \in received'
                       /\ available'[t] => hw_is_present'[t] /\ alive'[t]
    BY DEF DetectionSound
  <2>1. CASE t = s
    BY <2>1, <1>1, <1>2, <1>6 DEF Detects, HwInv, HwTypes
  <2>2. CASE t # s
    BY <2>2, <1>1, <1>2, <1>4 DEF HwInv, HwTypes, DetectionSound
  <2>. QED
    BY <2>1, <2>2
<1>. QED
  BY <1>2, <1>3, <1>4, <1>5, <1>7 DEF HwInv, PortClosedAfterDetection

(* A call that handles inputs but does not detect preserves it: the com     *)
(* port is opened by PLATFORM_CONFIG, and before that nothing has detected. *)
LEMMA NoDetectionKeepsHwInv ==
  ASSUME HwInv, LookupTypes, LookupTypes', received \subseteq received',
         \A t \in Sensors : ss_cfg_received[t] => ss_cfg_received'[t],
         NoDetection, alive' = alive, HwTypes', TimerTypes',
         \A t \in Sensors :
           /\ pwrail_pending_state'[t] = "INIT"
                => pwrail_pending_state[t] = "INIT"
           /\ available'[t] =>
                available[t] \/ (hw_is_present[t] /\ alive[t])
  PROVE  HwInv'
<1>1. RailTypes'
  BY DEF HwInv, RailTypes, RailStates, NoDetection
<1>2. DetectionSound'
  BY DEF HwInv, DetectionSound, NoDetection
<1>3. PortClosedAfterDetection'
  BY DEF HwInv, DetectionSound, PortClosedAfterDetection, NoDetection,
         PlatformJustRead
<1>. QED
  BY <1>1, <1>2, <1>3 DEF HwInv

(* The invariant of the boot is what concerns the registry and what        *)
(* concerns the chip.                                                      *)
LEMMA BootInvParts ==
  BootInv <=> LookupTypes /\ RepliesInOrder /\ DummyByteKnown /\ HwInv
BY DEF BootInv, HwInv

(* A call of demo_sensor_notify_event, timer or not.                        *)
LEMMA NotifyKeepsBootInv ==
  ASSUME BootInv, NEW s \in Sensors, notify_event(s)
  PROVE  BootInv'
<1>1. ASSUME NEW found, NEW arrived \in Arrivals(s), NEW published_now,
             HandleInputs(s, found, arrived, published_now),
             (LookupTypes' /\ received \subseteq received'
               /\ \A t \in Sensors : ss_cfg_received[t] => ss_cfg_received'[t])
             => HwInv'
      PROVE  BootInv'
  BY <1>1, InputsKeepOrder, BootInvParts DEF BootInv, HwInv
<1>2. HwInv /\ LookupTypes /\ RepliesInOrder /\ DummyByteKnown
  BY BootInvParts
<1>3. ASSUME NEW found \in SUBSET (Suids \ suids[s]),
             NEW arrived \in Arrivals(s),
             NotifyEvent(s, found, arrived)
      PROVE  BootInv'
  <2>1. HandleInputs(s, found, arrived, FALSE)
    BY <1>3 DEF NotifyEvent
  <2>2. CASE Detects(s, pwrail_pending_state[s])
    BY <1>1, <1>2, <1>3, <2>1, <2>2, DetectKeepsHwInv DEF NotifyEvent
  <2>3. CASE ~ Detects(s, pwrail_pending_state[s])
    <3>1. /\ NoDetection /\ UNCHANGED timerVars
          /\ UNCHANGED <<available, alive>>
      BY <1>3, <2>3 DEF NotifyEvent
    <3>2. HwTypes'
      BY <1>2, <3>1 DEF HwInv, HwTypes, NoDetection
    <3>3. TimerTypes'
      BY <1>2, <3>1 DEF HwInv, TimerTypes, timerVars
    <3>4. pwrail_pending_state' = pwrail_pending_state
      BY <3>1 DEF timerVars
    <3>. QED
      BY <1>1, <1>2, <2>1, <3>1, <3>2, <3>3, <3>4, NoDetectionKeepsHwInv
  <2>. QED
    BY <2>2, <2>3
<1>4. ASSUME NEW found \in SUBSET (Suids \ suids[s]),
             NEW arrived \in Arrivals(s),
             DetectionSucceeds(s, found, arrived)
      PROVE  BootInv'
  <2>1. /\ HandleInputs(s, found, arrived, TRUE)
        /\ NoDetection /\ alive' = alive
        /\ alive[s] /\ hw_is_present[s]
        /\ available' = [available EXCEPT ![s] = TRUE]
        /\ pwrail_pending_state' = [pwrail_pending_state EXCEPT ![s] = "NONE"]
        /\ remove_timer_stream(s)
    BY <1>4 DEF DetectionSucceeds
  <2>2. HwTypes'
    BY <1>2, <2>1 DEF HwInv, HwTypes, NoDetection
  <2>3. TimerTypes'
    BY <1>2, <2>1 DEF HwInv, TimerTypes, PendingStates, remove_timer_stream
  <2>4. \A t \in Sensors :
          /\ pwrail_pending_state'[t] = "INIT"
               => pwrail_pending_state[t] = "INIT"
          /\ available'[t] =>
               available[t] \/ (hw_is_present[t] /\ alive[t])
    BY <1>2, <2>1 DEF HwInv, HwTypes, TimerTypes
  <2>. QED
    BY <1>1, <1>2, <2>1, <2>2, <2>3, <2>4, NoDetectionKeepsHwInv
<1>5. ASSUME NEW found \in SUBSET (Suids \ suids[s]),
             NEW arrived \in Arrivals(s),
             DetectionFails(s, found, arrived)
      PROVE  BootInv'
  BY <1>1, <1>2, <1>5, DetectKeepsHwInv DEF DetectionFails
<1>6. ASSUME NEW found \in SUBSET (Suids \ suids[s]),
             NEW arrived \in Arrivals(s),
             RailTimerExpires(s, found, arrived)
      PROVE  BootInv'
  <2>1. /\ HandleInputs(s, found, arrived, FALSE)
        /\ NoDetection /\ alive' = alive /\ available' = available
        /\ pwrail_pending_state' = [pwrail_pending_state EXCEPT ![s] = "NONE"]
        /\ remove_timer_stream(s)
    BY <1>6 DEF RailTimerExpires
  <2>2. HwTypes'
    BY <1>2, <2>1 DEF HwInv, HwTypes, NoDetection
  <2>3. TimerTypes'
    BY <1>2, <2>1 DEF HwInv, TimerTypes, PendingStates, remove_timer_stream
  <2>4. \A t \in Sensors :
          pwrail_pending_state'[t] = "INIT" => pwrail_pending_state[t] = "INIT"
    BY <1>2, <2>1 DEF HwInv, TimerTypes
  <2>. QED
    BY <1>1, <1>2, <2>1, <2>2, <2>3, <2>4, NoDetectionKeepsHwInv
<1>. QED
  BY <1>3, <1>4, <1>5, <1>6 DEF notify_event, TimerExpires

(* A step that leaves the boot alone and at most starts a timer for a       *)
(* client's request or votes for the rail.                                  *)
LEMMA RequestKeepsBootInv ==
  ASSUME BootInv, UNCHANGED bootVars, TimerTypes', RailTypes',
         \A t \in Sensors :
           pwrail_pending_state'[t] = "INIT" => pwrail_pending_state[t] = "INIT"
  PROVE  BootInv'
<1>1. LookupTypes' /\ RepliesInOrder' /\ DummyByteKnown'
  BY DEF BootInv, LookupTypes, RepliesInOrder, DummyByteKnown, bootVars,
         lookupVars, registryVars
<1>2. HwTypes' /\ PortClosedAfterDetection'
  BY DEF BootInv, HwTypes, PortClosedAfterDetection, bootVars, hwVars
<1>3. DetectionSound'
  BY DEF BootInv, DetectionSound, bootVars, hwVars, registryVars
<1>. QED
  BY <1>1, <1>2, <1>3 DEF BootInv

(* The first request creates the instance: demo_new_instance.               *)
LEMMA NewInstanceKeepsBootInv ==
  ASSUME BootInv, NEW s \in Sensors, suids' = suids, new_instance(s),
         UNCHANGED <<registry_stream, registryVars, hwVars>>
  PROVE  BootInv'
<1>1. "ACC" \in Sensors
  BY SensorsAssumption
<1>2. RailTypes'
  BY <1>1 DEF BootInv, RailTypes, RailStates, RailOn, new_instance,
              update_power_rail_vote
<1>3. /\ TimerTypes'
      /\ \A t \in Sensors :
           pwrail_pending_state'[t] = "INIT" => pwrail_pending_state[t] = "INIT"
  <2>1. CASE settled'
    <3>1. remove_timer_stream(s) /\ UNCHANGED pwrail_pending_state
      BY <2>1 DEF new_instance
    <3>. QED
      BY <3>1 DEF BootInv, TimerTypes, remove_timer_stream
  <2>2. CASE ~ settled'
    <3>1. start_power_rail_timer(s, "SET_CLIENT_REQ")
      BY <2>2 DEF new_instance
    <3>. QED
      BY <3>1 DEF BootInv, LookupTypes, TimerTypes, PendingStates,
                  start_power_rail_timer
  <2>. QED
    BY <2>1, <2>2
<1>4. UNCHANGED bootVars
  BY DEF bootVars, lookupVars
<1>. QED
  BY <1>2, <1>3, <1>4, RequestKeepsBootInv

(* A step that changes neither the boot, the timers nor the rail.           *)
LEMMA OthersKeepBootInv ==
  ASSUME BootInv, UNCHANGED <<bootVars, timerVars, rail_vote, votes>>,
         settled' \in BOOLEAN
  PROVE  BootInv'
<1>1. TimerTypes' /\ RailTypes'
  BY DEF BootInv, TimerTypes, RailTypes, timerVars
<1>2. pwrail_pending_state' = pwrail_pending_state
  BY DEF timerVars
<1>. QED
  BY <1>1, <1>2, RequestKeepsBootInv

(* A client request of any kind preserves the invariant of the boot.       *)
LEMMA ClientKeepsBootInv ==
  ASSUME BootInv, NEW s \in Sensors, NEW c \in Clients,
         set_client_request(s, c)
  PROVE  BootInv'
<1>1. ASSUME NEW entries, NEW config, FirstRequest(s, entries, config)
      PROVE  BootInv'
  <2>1. /\ suids' = suids /\ new_instance(s)
        /\ UNCHANGED <<registry_stream, registryVars, hwVars>>
    BY <1>1 DEF FirstRequest
  <2>. QED
    BY <2>1, NewInstanceKeepsBootInv
<1>2. ASSUME NEW entries, NEW config, NextRequest(s, entries, config)
      PROVE  BootInv'
  BY <1>2, OthersKeepBootInv DEF NextRequest, railVars, BootInv, RailTypes
<1>3. ASSUME RemoveRequest(s, c) PROVE BootInv'
  BY <1>3, OthersKeepBootInv DEF RemoveRequest, railVars, BootInv, RailTypes
<1>4. ASSUME FlushRequest(s, c) PROVE BootInv'
  BY <1>4, OthersKeepBootInv DEF FlushRequest, railVars, BootInv, RailTypes
<1>. QED
  BY <1>1, <1>2, <1>3, <1>4
     DEF set_client_request, ConfigRequest, UnknownRequest, CalResetRequest

(* The driver starts in the invariant of the boot.                         *)
LEMMA InitBootInv == Init => BootInv
<1>. SUFFICES ASSUME Init PROVE BootInv
  OBVIOUS
<1>1. LookupTypes /\ HwTypes /\ TimerTypes /\ RailTypes
  BY DEF Init, LookupTypes, HwTypes, TimerTypes, RailTypes, PendingStates,
         RailStates
<1>2. RepliesInOrder /\ DummyByteKnown /\ DetectionSound
        /\ PortClosedAfterDetection
  BY DEF Init, RepliesInOrder, DummyByteKnown, DetectionSound,
         PortClosedAfterDetection
<1>. QED
  BY <1>1, <1>2 DEF BootInv

(* Every step preserves it.                                                *)
LEMMA StepBootInv == BootInv /\ [Next]_vars => BootInv'
<1>. SUFFICES ASSUME BootInv, [Next]_vars PROVE BootInv'
  OBVIOUS
<1>1. ASSUME NEW s \in Sensors, notify_event(s) PROVE BootInv'
  BY <1>1, NotifyKeepsBootInv
<1>2. ASSUME NEW s \in Sensors, NEW c \in Clients, set_client_request(s, c)
      PROVE  BootInv'
  BY <1>2, ClientKeepsBootInv
<1>3. CASE RailSettles
  BY <1>3, OthersKeepBootInv DEF RailSettles
<1>4. CASE InstanceEvent
  BY <1>4, OthersKeepBootInv DEF InstanceEvent, railVars, BootInv, RailTypes
<1>5. CASE UNCHANGED vars
  BY <1>5, OthersKeepBootInv DEF vars, railVars, BootInv, RailTypes
<1>. QED
  BY <1>1, <1>2, <1>3, <1>4, <1>5 DEF Next

(* The invariant of the boot: in every order of services, replies and      *)
(* timers, and with every fault, the shared and the per-sensor state stay  *)
(* consistent.                                                             *)
THEOREM BootInvariant == Spec => []BootInv
BY InitBootInv, StepBootInv, PTL DEF Spec

(* A sensor that clients can see is configured and its chip answered,       *)
(* whatever the order of services, replies and timers, and whatever fails.  *)
THEOREM AvailableConfigured == Spec => []AvailableIsConfigured
<1>1. BootInv => AvailableIsConfigured
  BY DEF BootInv, DetectionSound, AvailableIsConfigured
<1>. QED
  BY <1>1, BootInvariant, PTL

(* The order of the accelerometer's requests is enough for the dummy byte   *)
(* of the bus, although it is copied when PLATFORM_CONFIG is parsed only.   *)
THEOREM DummyByteAlwaysKnown == Spec => []DummyByteKnown
<1>1. BootInv => DummyByteKnown
  BY DEF BootInv
<1>. QED
  BY <1>1, BootInvariant, PTL

(* The com port that the sensors share is not left open by the detection of *)
(* any of them, nor by a PLATFORM_CONFIG that is read later.                *)
THEOREM PortClosed == Spec => []PortClosedAfterDetection
<1>1. BootInv => PortClosedAfterDetection
  BY DEF BootInv
<1>. QED
  BY <1>1, BootInvariant, PTL

(* What makes a late reading of PLATFORM_CONFIG harmless to the vote: when  *)
(* there is an instance, some sensor was available, and so it was read.     *)
PlatformKnown == instance => "PLATFORM_CONFIG" \in received

(* The votes that a step leaves.                                            *)
PowerStep ==
  instance' =>
    /\ votes'["ACC"] = "OFF" =>
         (instance /\ votes["ACC"] = "OFF") \/ Undecided("ACC")
    /\ rail_vote' = "OFF" =>
         \/ instance /\ rail_vote = "OFF"
         \/ \E s \in Sensors : Undecided(s)

LEMMA NotifyKeepsPower ==
  ASSUME BootInv, PlatformKnown, NEW s \in Sensors, notify_event(s)
  PROVE  PlatformKnown' /\ PowerStep
<1>1. ASSUME NEW found, NEW arrived, NEW published_now,
             HandleInputs(s, found, arrived, published_now)
      PROVE  received \subseteq received'
  BY <1>1 DEF HandleInputs, process_registry_event, parse_registry
<1>2. ASSUME NoDetection, UNCHANGED instance PROVE PowerStep
  BY <1>2 DEF NoDetection, PlatformJustRead, PlatformKnown, PowerStep
<1>3. ASSUME start_hw_detect(s), UNCHANGED instance, alive[s], ~ hw_is_present[s]
      PROVE  PowerStep
  <2>1. Undecided(s)
    BY <1>3 DEF BootInv, DetectionSound, Undecided
  <2>2. "ACC" # s => votes'["ACC"] = votes["ACC"]
    BY <1>3, SensorsAssumption
       DEF start_hw_detect, update_power_rail_vote, BootInv, RailTypes
  <2>. QED
    BY <1>3, <2>1, <2>2 DEF PowerStep
<1>4. ASSUME NEW found \in SUBSET (Suids \ suids[s]),
             NEW arrived \in Arrivals(s),
             NotifyEvent(s, found, arrived)
      PROVE  PlatformKnown' /\ PowerStep
  <2>1. UNCHANGED instance /\ alive[s] /\ received \subseteq received'
    BY <1>1, <1>4 DEF NotifyEvent
  <2>2. CASE Detects(s, pwrail_pending_state[s])
    BY <1>3, <1>4, <2>1, <2>2 DEF NotifyEvent, Detects, PlatformKnown
  <2>3. CASE ~ Detects(s, pwrail_pending_state[s])
    BY <1>2, <1>4, <2>1, <2>3 DEF NotifyEvent, PlatformKnown
  <2>. QED
    BY <2>2, <2>3
<1>5. ASSUME NEW found \in SUBSET (Suids \ suids[s]),
             NEW arrived \in Arrivals(s),
             DetectionSucceeds(s, found, arrived)
      PROVE  PlatformKnown' /\ PowerStep
  <2>1. NoDetection /\ UNCHANGED instance /\ received \subseteq received'
    BY <1>1, <1>5 DEF DetectionSucceeds
  <2>. QED
    BY <1>2, <2>1 DEF PlatformKnown
<1>6. ASSUME NEW found \in SUBSET (Suids \ suids[s]),
             NEW arrived \in Arrivals(s),
             DetectionFails(s, found, arrived)
      PROVE  PlatformKnown' /\ PowerStep
  <2>1. /\ start_hw_detect(s) /\ UNCHANGED instance /\ alive[s]
        /\ ~ hw_is_present[s] /\ received \subseteq received'
    BY <1>1, <1>6 DEF DetectionFails
  <2>. QED
    BY <1>3, <2>1 DEF PlatformKnown
<1>7. ASSUME NEW found \in SUBSET (Suids \ suids[s]),
             NEW arrived \in Arrivals(s),
             RailTimerExpires(s, found, arrived)
      PROVE  PlatformKnown' /\ PowerStep
  <2>1. NoDetection /\ UNCHANGED instance /\ received \subseteq received'
    BY <1>1, <1>7 DEF RailTimerExpires
  <2>. QED
    BY <1>2, <2>1 DEF PlatformKnown
<1>. QED
  BY <1>4, <1>5, <1>6, <1>7 DEF notify_event, TimerExpires

LEMMA RequestKeepsPower ==
  ASSUME BootInv, PlatformKnown, NEW s \in Sensors, NEW c \in Clients,
         set_client_request(s, c)
  PROVE  PlatformKnown' /\ PowerStep
<1>1. ASSUME UNCHANGED <<bootVars, timerVars, railVars, instance>>
      PROVE  PlatformKnown' /\ PowerStep
  BY <1>1 DEF bootVars, registryVars, railVars, PlatformKnown, PowerStep
<1>2. ASSUME NEW entries, NEW config, FirstRequest(s, entries, config)
      PROVE  PlatformKnown' /\ PowerStep
  <2>1. /\ available[s] /\ UNCHANGED registryVars
        /\ update_power_rail_vote("ACC", IF s = "GYR" THEN "NPM" ELSE "LPM")
    BY <1>2 DEF FirstRequest, Serves, new_instance
  <2>2. "PLATFORM_CONFIG" \in received'
    BY <2>1 DEF registryVars, BootInv, DetectionSound
  <2>3. votes'["ACC"] # "OFF" /\ rail_vote' # "OFF"
    BY <2>1, SensorsAssumption DEF update_power_rail_vote, BootInv, RailTypes
  <2>. QED
    BY <2>2, <2>3 DEF PlatformKnown, PowerStep
<1>3. ASSUME NEW entries, NEW config, NextRequest(s, entries, config)
      PROVE  PlatformKnown' /\ PowerStep
  BY <1>1, <1>3 DEF NextRequest
<1>4. RemoveRequest(s, c) \/ FlushRequest(s, c) => PlatformKnown' /\ PowerStep
  BY <1>1 DEF RemoveRequest, FlushRequest
<1>. QED
  BY <1>2, <1>3, <1>4
     DEF set_client_request, ConfigRequest, UnknownRequest, CalResetRequest

(* In every boot, with clients that do not wait for the last sensor, and    *)
(* with every fault: an instance is given the power rail when it is created *)
(* and loses it only to the late detection of a sensor that was neither     *)
(* available nor destroyed, the rail itself only to the accelerometer's.    *)
THEOREM PowerOnlyLostLate == Spec => PowerLostToLateDetection
<1>1. Init => PlatformKnown
  BY DEF Init, InstanceInit, PlatformKnown
<1>2. BootInv /\ PlatformKnown /\ [Next]_vars => PlatformKnown' /\ PowerStep
  <2>. SUFFICES ASSUME BootInv, PlatformKnown, [Next]_vars
                PROVE  PlatformKnown' /\ PowerStep
    OBVIOUS
  <2>1. ASSUME NEW s \in Sensors, notify_event(s)
        PROVE  PlatformKnown' /\ PowerStep
    BY <2>1, NotifyKeepsPower
  <2>2. ASSUME NEW s \in Sensors, NEW c \in Clients, set_client_request(s, c)
        PROVE  PlatformKnown' /\ PowerStep
    BY <2>2, RequestKeepsPower
  <2>3. ASSUME UNCHANGED <<bootVars, timerVars, rail_vote, votes, instance>>
        PROVE  PlatformKnown' /\ PowerStep
    BY <2>3 DEF bootVars, registryVars, PlatformKnown, PowerStep
  <2>4. CASE RailSettles
    BY <2>3, <2>4 DEF RailSettles
  <2>5. CASE InstanceEvent
    BY <2>3, <2>5 DEF InstanceEvent, InstanceNotify, process_timer_event,
                      handle_irq, railVars
  <2>6. CASE UNCHANGED vars
    BY <2>3, <2>6 DEF vars, railVars, instVars
  <2>. QED
    BY <2>1, <2>2, <2>4, <2>5, <2>6 DEF Next
<1>3. PowerStep => [instance' =>
       /\ votes'["ACC"] = "OFF" =>
            (instance /\ votes["ACC"] = "OFF") \/ Undecided("ACC")
       /\ rail_vote' = "OFF" =>
            \/ instance /\ rail_vote = "OFF"
            \/ \E s \in Sensors : Undecided(s)]_vars
  BY DEF PowerStep
<1>. QED
  BY <1>1, <1>2, <1>3, BootInvariant, PTL DEF Spec, PowerLostToLateDetection

-----------------------------------------------------------------------------
(* The counter.  A request is counted when it is sent and uncounted when    *)
(* its reply is decoded, so the counter is at least the number of replies   *)
(* to come; it does not wrap around, because no sensor asks twice and all   *)
(* the requests together are fewer than 256.                                *)
AllRequests == UNION {RequestsOf(s) : s \in Sensors}

Unasked == {p \in AllRequests : "registry" \notin suids[p[1]]}

CountInv ==
  /\ registry_req_cnt \in 0 .. 255
  /\ Cardinality(outstanding) <= registry_req_cnt
  /\ registry_req_cnt + Cardinality(Unasked) <= 255

(* All the requests of all the sensors fit into the uint8_t that counts    *)
(* them.                                                                   *)
LEMMA RequestsAreFew ==
  /\ IsFiniteSet(AllRequests)
  /\ Cardinality(AllRequests) <= 28
<1>. DEFINE slots == AllSensors \X (1 .. 6)
<1>1. \A s \in Sensors : DOMAIN Requests(s) \subseteq 1 .. 6
  <2>. SUFFICES ASSUME NEW s \in Sensors
                PROVE  DOMAIN Requests(s) \subseteq 1 .. 6
    OBVIOUS
  <2>1. s \in {"ACC", "GYR", "MOTION", "TEMP"}
    BY SensorsAssumption DEF AllSensors
  <2>2. CASE s = "ACC"
    <3>1. Requests(s) = <<"SPEC", "PLATFORM_CONFIG", "PLACEMENT", "ORIENT",
                          "CONFIG", "FAC_CAL">>
      BY <2>2 DEF Requests
    <3>. QED
      BY <3>1
  <2>3. CASE s \in {"GYR", "TEMP"}
    <3>1. Requests(s) = <<"CONFIG", "FAC_CAL">>
      BY <2>3 DEF Requests
    <3>. QED
      BY <3>1
  <2>4. CASE s = "MOTION"
    <3>1. Requests(s) = <<"CONFIG", "PLATFORM_CONFIG_MD">>
      BY <2>4 DEF Requests
    <3>. QED
      BY <3>1
  <2>. QED
    BY <2>1, <2>2, <2>3, <2>4
<1>2. AllRequests \subseteq slots
  BY <1>1, SensorsAssumption DEF AllRequests, RequestsOf
<1>3. IsFiniteSet(AllSensors) /\ Cardinality(AllSensors) = 4
  <2>. DEFINE two == {"ACC"} \cup {"GYR"}
              three == two \cup {"MOTION"}
              four == three \cup {"TEMP"}
  <2>1. IsFiniteSet({"ACC"}) /\ Cardinality({"ACC"}) = 1
    BY FS_Singleton
  <2>2. IsFiniteSet(two) /\ Cardinality(two) = 2
    BY <2>1, FS_AddElement
  <2>3. IsFiniteSet(three) /\ Cardinality(three) = 3
    <3>. HIDE DEF two
    <3>1. "MOTION" \notin two
      BY DEF two
    <3>. QED
      BY <2>2, <3>1, FS_AddElement
  <2>4. IsFiniteSet(four) /\ Cardinality(four) = 4
    <3>. HIDE DEF three
    <3>1. "TEMP" \notin three
      BY DEF three
    <3>. QED
      BY <2>3, <3>1, FS_AddElement
  <2>5. AllSensors = four
    BY DEF AllSensors
  <2>. QED
    BY <2>4, <2>5
<1>4. IsFiniteSet(1 .. 6) /\ Cardinality(1 .. 6) <= 7
  <2>1. 1 .. 6 \in SUBSET Nat /\ 6 \in Nat /\ \A k \in 1 .. 6 : k <= 6
    OBVIOUS
  <2>. QED
    BY <2>1, FS_BoundedSetOfNaturals
<1>5. IsFiniteSet(slots) /\ Cardinality(slots) <= 28
  <2>1. /\ IsFiniteSet(slots)
        /\ Cardinality(slots) = Cardinality(AllSensors) * Cardinality(1 .. 6)
    BY <1>3, <1>4, FS_Product
  <2>2. Cardinality(AllSensors) = 4 /\ Cardinality(1 .. 6) \in 0 .. 7
    BY <1>3, <1>4, FS_CardinalityType
  <2>. QED
    BY <2>1, <2>2, <1>3, <1>4
<1>. QED
  <2>1. IsFiniteSet(AllRequests) /\ Cardinality(AllRequests) <= Cardinality(slots)
    BY <1>2, <1>5, FS_Subset
  <2>. QED
    BY <2>1, <1>5, FS_CardinalityType

(* Sets of requests are finite.                                            *)
LEMMA RequestSubsetsFinite ==
  ASSUME NEW S, S \subseteq AllRequests
  PROVE  IsFiniteSet(S) /\ Cardinality(S) \in Nat
BY RequestsAreFew, FS_Subset, FS_CardinalityType

(* What demo_sensor_notify_event does to the requests keeps the counter    *)
(* right: each is sent once, and counted when it is sent and when its      *)
(* reply decodes.                                                          *)
LEMMA InputsKeepCount ==
  ASSUME LookupTypes, RepliesInOrder, CountInv,
         NEW s \in Sensors, NEW found, NEW arrived \in Arrivals(s),
         NEW published_now, HandleInputs(s, found, arrived, published_now)
  PROVE  CountInv'
<1>. DEFINE asked == IF "registry" \in found THEN RequestsOf(s) ELSE {}
<1>1. /\ found \subseteq Suids \ suids[s]
      /\ suids' = [suids EXCEPT ![s] = @ \cup found]
      /\ process_registry_event(s, arrived, asked, published_now)
  BY DEF HandleInputs, process_suid_event
<1>2. PICK sent \in MayLose(asked, "send"),
           decoded \in MayLose(arrived, "decode") :
        /\ registry_req_cnt' =
             (registry_req_cnt + Cardinality(asked) - Cardinality(decoded)) % 256
        /\ \E closes \in BOOLEAN :
             outstanding' = IF closes THEN {p \in outstanding : p[1] # s}
                            ELSE (outstanding \cup sent) \ arrived
  BY <1>1, Zenon DEF process_registry_event
<1>3. /\ sent \subseteq asked
      /\ decoded \subseteq arrived
      /\ arrived \subseteq outstanding
      /\ \A p \in arrived : p[1] = s
  BY <1>2 DEF MayLose, Arrivals
<1>4. /\ asked \subseteq Unasked
      /\ Unasked' \subseteq Unasked \ asked
  <2>1. \A p \in RequestsOf(s) : p[1] = s
    BY PlatformRequests
  <2>2. asked \subseteq Unasked
    BY <1>1, <2>1 DEF Unasked, AllRequests
  <2>3. \A p \in AllRequests : p[1] \in Sensors
    BY PlatformRequests DEF AllRequests
  <2>4. Unasked' \subseteq Unasked
    BY <1>1, <2>3 DEF Unasked, LookupTypes
  <2>5. Unasked' \cap asked = {}
    BY <1>1, <2>1 DEF Unasked, LookupTypes
  <2>. QED
    BY <2>2, <2>4, <2>5
<1>5. outstanding' \subseteq (outstanding \ arrived) \cup asked
  BY <1>2, <1>3
<1>6. /\ outstanding \subseteq AllRequests
      /\ Unasked \subseteq AllRequests
  BY DEF LookupTypes, AllRequests, Unasked
<1>. HIDE DEF asked
<1>7. /\ IsFiniteSet(asked) /\ Cardinality(asked) \in Nat
      /\ IsFiniteSet(arrived) /\ Cardinality(arrived) \in Nat
      /\ IsFiniteSet(decoded) /\ Cardinality(decoded) \in Nat
      /\ IsFiniteSet(outstanding) /\ Cardinality(outstanding) \in Nat
      /\ IsFiniteSet(Unasked) /\ Cardinality(Unasked) \in Nat
      /\ IsFiniteSet(Unasked') /\ Cardinality(Unasked') \in Nat
      /\ IsFiniteSet(outstanding') /\ Cardinality(outstanding') \in Nat
  BY <1>3, <1>4, <1>5, <1>6, RequestSubsetsFinite
<1>8. Cardinality(decoded) <= Cardinality(arrived)
  BY <1>3, <1>7, FS_Subset
<1>9. Cardinality(Unasked') + Cardinality(asked) <= Cardinality(Unasked)
  <2>1. Cardinality(Unasked \ asked) = Cardinality(Unasked) - Cardinality(asked)
    <3>1. Unasked \cap asked = asked
      BY <1>4
    <3>. QED
      BY <3>1, <1>7, FS_Difference
  <2>2. Cardinality(Unasked') <= Cardinality(Unasked \ asked)
    BY <1>4, <1>7, FS_Difference, FS_Subset
  <2>. QED
    BY <2>1, <2>2, <1>7
<1>10. /\ Cardinality(outstanding') <=
             Cardinality(outstanding) - Cardinality(arrived) + Cardinality(asked)
       /\ Cardinality(arrived) <= Cardinality(outstanding)
  <2>. DEFINE rest == outstanding \ arrived
  <2>1. /\ IsFiniteSet(rest)
        /\ Cardinality(rest) = Cardinality(outstanding) - Cardinality(arrived)
    <3>1. outstanding \cap arrived = arrived
      BY <1>3
    <3>. QED
      BY <3>1, <1>7, FS_Difference
  <2>. HIDE DEF rest
  <2>2. IsFiniteSet(rest \cup asked) /\ IsFiniteSet(rest \cap asked)
    BY <2>1, <1>7, FS_Union, FS_Intersection
  <2>3. Cardinality(rest \cup asked) =
          Cardinality(rest) + Cardinality(asked) - Cardinality(rest \cap asked)
    BY <2>1, <1>7, FS_Union
  <2>4. Cardinality(rest \cap asked) \in Nat /\ Cardinality(rest) \in Nat
    BY <2>1, <2>2, FS_CardinalityType
  <2>5. Cardinality(outstanding') <= Cardinality(rest \cup asked)
    BY <1>5, <2>2, FS_Subset DEF rest
  <2>. QED
    BY <2>1, <2>3, <2>4, <2>5, <1>7
<1>11. registry_req_cnt' =
         registry_req_cnt + Cardinality(asked) - Cardinality(decoded)
  <2>. DEFINE n == registry_req_cnt + Cardinality(asked) - Cardinality(decoded)
  <2>1. n \in 0 .. 255
    BY <1>7, <1>8, <1>9, <1>10, SMTT(60) DEF CountInv
  <2>. HIDE DEF n
  <2>2. n % 256 = n
    BY <2>1
  <2>. QED
    BY <1>2, <2>2 DEF n
<1>12. registry_req_cnt \in 0 .. 255
  BY DEF CountInv
<1>13. Cardinality(outstanding') <= registry_req_cnt'
  BY <1>7, <1>8, <1>10, <1>11, <1>12 DEF CountInv
<1>14. registry_req_cnt' + Cardinality(Unasked') <= 255
  BY <1>7, <1>9, <1>11, <1>12 DEF CountInv
<1>15. registry_req_cnt' \in Int
  BY <1>7, <1>11, <1>12
<1>16. registry_req_cnt' \in 0 .. 255
  BY <1>7, <1>13, <1>14, <1>15
<1>. QED
  BY <1>13, <1>14, <1>16 DEF CountInv

(* The counter starts at 0 with nothing outstanding.                       *)
LEMMA InitCountInv == Init => CountInv
<1>. SUFFICES ASSUME Init PROVE CountInv
  OBVIOUS
<1>1. Unasked \subseteq AllRequests
  BY DEF Unasked
<1>2. Cardinality(Unasked) \in Nat /\ Cardinality(Unasked) <= 28
  BY <1>1, RequestSubsetsFinite, RequestsAreFew, FS_Subset, FS_CardinalityType
<1>3. Cardinality({}) = 0
  BY FS_EmptySet
<1>. QED
  BY <1>2, <1>3 DEF Init, CountInv

(* Every step keeps the counter right.                                     *)
LEMMA StepCountInv == BootInv /\ CountInv /\ [Next]_vars => CountInv'
<1>. SUFFICES ASSUME BootInv, CountInv, [Next]_vars PROVE CountInv'
  OBVIOUS
<1>1. ASSUME NEW s \in Sensors, notify_event(s) PROVE CountInv'
  <2>1. PICK found \in SUBSET (Suids \ suids[s]), arrived \in Arrivals(s) :
          \E published_now \in BOOLEAN :
            HandleInputs(s, found, arrived, published_now)
    BY <1>1 DEF notify_event, TimerExpires, NotifyEvent, DetectionSucceeds,
                DetectionFails, RailTimerExpires
  <2>. QED
    BY <2>1, InputsKeepCount DEF BootInv
<1>2. ASSUME UNCHANGED <<suids, registry_req_cnt, outstanding>> PROVE CountInv'
  BY <1>2 DEF CountInv, Unasked
<1>3. ASSUME NEW s \in Sensors, NEW c \in Clients, set_client_request(s, c)
      PROVE  UNCHANGED <<suids, registry_req_cnt, outstanding>>
  <2>1. ASSUME NEW entries, NEW config,
               FirstRequest(s, entries, config) \/ NextRequest(s, entries, config)
        PROVE  UNCHANGED <<suids, registry_req_cnt, outstanding>>
    BY <2>1 DEF FirstRequest, NextRequest, bootVars, lookupVars, registryVars
  <2>2. ASSUME RemoveRequest(s, c) \/ FlushRequest(s, c)
        PROVE  UNCHANGED <<suids, registry_req_cnt, outstanding>>
    BY <2>2 DEF RemoveRequest, FlushRequest, bootVars, lookupVars, registryVars
  <2>. QED
    BY <1>3, <2>1, <2>2
       DEF set_client_request, ConfigRequest, UnknownRequest, CalResetRequest
<1>4. ASSUME RailSettles \/ InstanceEvent \/ UNCHANGED vars
      PROVE  UNCHANGED <<suids, registry_req_cnt, outstanding>>
  BY <1>4 DEF RailSettles, InstanceEvent, vars, bootVars, lookupVars,
              registryVars
<1>. QED
  BY <1>1, <1>2, <1>3, <1>4 DEF Next

(* The counter covers the replies to come and leaves room for all the      *)
(* requests not sent yet, so it never wraps.                               *)
THEOREM CountInvariant == Spec => []CountInv
BY InitCountInv, StepCountInv, BootInvariant, PTL DEF Spec

(* The uint8_t counter of all the sensors' requests never falls below the   *)
(* number of replies to come and never wraps around, for every set of       *)
(* sensors and of faults: a sensor that finds it at 0 loses no reply.       *)
THEOREM NoReplyIsLost == Spec => []CountCoversReplies
<1>1. CountInv => CountCoversReplies
  BY DEF CountInv, CountCoversReplies
<1>. QED
  BY <1>1, CountInvariant, PTL

(* Type correctness.                                                        *)
THEOREM TypeCorrect == Spec => []TypeOK
<1>1. BootInv /\ CountInv => TypeOK
  BY DEF BootInv, CountInv, LookupTypes, HwTypes, TimerTypes, RailTypes, TypeOK
<1>. QED
  BY <1>1, BootInvariant, CountInvariant, PTL

-----------------------------------------------------------------------------
(* The boot implements DemoLifecycle.                                       *)
LEMMA PhaseValues ==
  ASSUME NEW living \in BOOLEAN, NEW announced \in BOOLEAN,
         NEW looked \in BOOLEAN
  PROVE  LET ph == PhaseOf(living, announced, looked)
         IN /\ ~living => ph = "destroyed"
            /\ living /\ announced => ph = "available"
            /\ living /\ ~announced /\ looked => ph = "detecting"
            /\ living /\ ~announced /\ ~looked => ph = "configuring"
BY Zenon DEF PhaseOf

Platform == {"PLATFORM_CONFIG", "PLACEMENT"} \subseteq received
Own == {s \in Sensors : ss_cfg_received[s]}

(* The services and replies that a call handles teach one sensor.           *)
LEMMA InputsTeach ==
  ASSUME LookupTypes, RepliesInOrder, DummyByteKnown,
         NEW s \in Sensors, NEW found, NEW arrived \in Arrivals(s),
         NEW published_now, HandleInputs(s, found, arrived, published_now)
  PROVE  Lifecycle!Learn(s)
<1>1. \E own_now \in BOOLEAN :
        ss_cfg_received' = [ss_cfg_received EXCEPT ![s] = @ \/ own_now]
  BY DEF HandleInputs, process_registry_event, parse_registry
<1>2. received \subseteq received'
  BY InputsKeepOrder
<1>3. Own' \in {Own, Own \cup {s}}
  BY <1>1 DEF Own, LookupTypes
<1>4. Platform' \in {Platform, TRUE}
  BY <1>2 DEF Platform
<1>. QED
  BY <1>3, <1>4 DEF Lifecycle!Learn, Own, Platform

(* A call for sensor s moves the phase of s only.                           *)
LEMMA PhaseMoves ==
  ASSUME HwTypes, HwTypes', NEW s \in Sensors,
         \A t \in Sensors \ {s} :
           /\ alive'[t] = alive[t]
           /\ available'[t] = available[t]
           /\ hw_detection_finished'[t] = hw_detection_finished[t]
  PROVE  /\ phase' = [phase EXCEPT ![s] = PhaseOf(alive'[s], available'[s],
                                                 hw_detection_finished'[s])]
         /\ phase[s] = PhaseOf(alive[s], available[s], hw_detection_finished[s])
BY DEF phase

(* A call of demo_sensor_notify_event moves its sensor by one phase at     *)
(* most, in the order of DemoLifecycle.                                    *)
LEMMA NotifyKeepsLifecycle ==
  ASSUME BootInv, BootInv', NEW s \in Sensors, notify_event(s)
  PROVE  Lifecycle!Next
<1>. DEFINE now == PhaseOf(alive[s], available[s], hw_detection_finished[s])
            next == PhaseOf(alive'[s], available'[s], hw_detection_finished'[s])
<1>1. /\ HwTypes /\ HwTypes' /\ LookupTypes /\ RepliesInOrder
      /\ DummyByteKnown /\ DetectionSound
  BY DEF BootInv
<1>2. PICK found \in SUBSET (Suids \ suids[s]), arrived \in Arrivals(s) :
        \/ NotifyEvent(s, found, arrived)
        \/ DetectionSucceeds(s, found, arrived)
        \/ DetectionFails(s, found, arrived)
        \/ RailTimerExpires(s, found, arrived)
  BY DEF notify_event, TimerExpires
<1>3. Lifecycle!Learn(s)
  <2>1. \E published_now \in BOOLEAN :
          HandleInputs(s, found, arrived, published_now)
    BY <1>2 DEF NotifyEvent, DetectionSucceeds, DetectionFails,
                RailTimerExpires
  <2>. QED
    BY <2>1, <1>1, InputsTeach
<1>4. /\ phase' = [phase EXCEPT ![s] = next]
      /\ phase[s] = now
      /\ alive[s]
  <2>1. /\ alive[s]
        /\ \A t \in Sensors \ {s} :
             /\ alive'[t] = alive[t]
             /\ available'[t] = available[t]
             /\ hw_detection_finished'[t] = hw_detection_finished[t]
    BY <1>1, <1>2 DEF HwTypes, NotifyEvent, DetectionSucceeds, DetectionFails,
                      RailTimerExpires, start_hw_detect, NoDetection
  <2>. QED
    BY <2>1, <1>1, PhaseMoves
<1>5. /\ alive[s] \in BOOLEAN /\ alive'[s] \in BOOLEAN
      /\ available[s] \in BOOLEAN /\ available'[s] \in BOOLEAN
      /\ hw_detection_finished[s] \in BOOLEAN
      /\ hw_detection_finished'[s] \in BOOLEAN
  BY <1>1 DEF HwTypes
<1>6. /\ ~ available[s] /\ hw_detection_finished[s] => now = "detecting"
      /\ ~ available[s] /\ ~ hw_detection_finished[s] => now = "configuring"
      /\ ~ alive'[s] => next = "destroyed"
      /\ alive'[s] /\ ~ available'[s] /\ hw_detection_finished'[s]
           => next = "detecting"
  BY <1>4, <1>5, PhaseValues
<1>. SUFFICES UNCHANGED phase \/ Lifecycle!Detect(s) \/ Lifecycle!Decide(s)
  BY <1>3 DEF Lifecycle!Next
<1>7. phase' = phase \/ next # now
  BY <1>4 DEF phase
<1>8. ASSUME alive'[s] = alive[s], available'[s] = available[s],
             Detects(s, "NONE") \/ Detects(s, pwrail_pending_state[s]),
             hw_detection_finished' = [hw_detection_finished EXCEPT ![s] = TRUE]
      PROVE  phase' = phase \/ Lifecycle!Detect(s)
  <2>1. CASE hw_detection_finished[s]
    BY <2>1, <1>7, <1>8, <1>1 DEF HwTypes
  <2>2. CASE ~ hw_detection_finished[s]
    <3>1. ~ available[s]
      BY <1>1, <2>2 DEF DetectionSound
    <3>2. now = "configuring" /\ next = "detecting"
      BY <3>1, <2>2, <1>1, <1>4, <1>8, <1>6 DEF HwTypes
    <3>3. /\ {"PLATFORM_CONFIG", "PLACEMENT"} \subseteq received'
          /\ ss_cfg_received'[s]
      BY <1>8 DEF Detects
    <3>. QED
      BY <3>2, <3>3, <1>4 DEF Lifecycle!Detect
  <2>. QED
    BY <2>1, <2>2
<1>9. ASSUME next \in {"available", "destroyed"}, now = "detecting"
      PROVE  Lifecycle!Decide(s)
  BY <1>9, <1>4 DEF Lifecycle!Decide
<1>10. CASE NotifyEvent(s, found, arrived)
  <2>1. CASE Detects(s, pwrail_pending_state[s])
    BY <1>8, <1>10, <2>1 DEF NotifyEvent, start_hw_detect
  <2>2. CASE ~ Detects(s, pwrail_pending_state[s])
    BY <1>7, <1>10, <2>2 DEF NotifyEvent, NoDetection
  <2>. QED
    BY <2>1, <2>2
<1>11. CASE DetectionSucceeds(s, found, arrived)
  <2>1. /\ hw_detection_finished[s] /\ hw_detection_finished'[s]
        /\ alive'[s] /\ available'[s]
    BY <1>1, <1>11 DEF DetectionSucceeds, NoDetection, DetectionSound, HwTypes
  <2>2. next = "available"
    BY <2>1, PhaseValues
  <2>3. CASE available[s]
    BY <2>1, <2>3, <1>4, <1>7
  <2>4. CASE ~ available[s]
    <3>1. now = "detecting"
      BY <2>1, <2>4, <1>6
    <3>. QED
      BY <1>9, <2>2, <3>1
  <2>. QED
    BY <2>3, <2>4
<1>12. CASE DetectionFails(s, found, arrived)
  <2>1. /\ hw_detection_finished[s] /\ ~ available[s] /\ ~ alive'[s]
    BY <1>1, <1>12 DEF DetectionFails, DetectionSound, HwTypes
  <2>2. now = "detecting" /\ next = "destroyed"
    BY <2>1, <1>6
  <2>. QED
    BY <1>9, <2>2
<1>13. CASE RailTimerExpires(s, found, arrived)
  BY <1>7, <1>13 DEF RailTimerExpires, NoDetection
<1>. QED
  BY <1>2, <1>10, <1>11, <1>12, <1>13

(* The boot keeps the promise of DemoLifecycle.                             *)
THEOREM BootImplementsLifecycle == Spec => BootKeepsLifecycle
<1>1. Init => Lifecycle!Init
  <2>. SUFFICES ASSUME Init PROVE Lifecycle!Init
    OBVIOUS
  <2>1. \A s \in Sensors : phase[s] = "configuring"
    BY PhaseValues DEF Init, phase
  <2>2. phase = [s \in Sensors |-> "configuring"]
    BY <2>1 DEF phase
  <2>. QED
    BY <2>2 DEF Init, Lifecycle!Init
<1>2. BootInv /\ BootInv' /\ [Next]_vars
        => [Lifecycle!Next]_(Lifecycle!lifecycleVars)
  <2>. SUFFICES ASSUME BootInv, BootInv', [Next]_vars
                PROVE  Lifecycle!Next \/ UNCHANGED Lifecycle!lifecycleVars
    OBVIOUS
  <2>1. ASSUME NEW s \in Sensors, notify_event(s) PROVE Lifecycle!Next
    BY <2>1, NotifyKeepsLifecycle
  <2>2. ASSUME UNCHANGED <<registryVars, hwVars>>
        PROVE  UNCHANGED Lifecycle!lifecycleVars
    BY <2>2 DEF Lifecycle!lifecycleVars, phase, registryVars, hwVars
  <2>3. ASSUME NEW s \in Sensors, NEW c \in Clients, set_client_request(s, c)
        PROVE  UNCHANGED <<registryVars, hwVars>>
    <3>1. ASSUME NEW entries, NEW config,
                 \/ FirstRequest(s, entries, config)
                 \/ NextRequest(s, entries, config)
          PROVE  UNCHANGED <<registryVars, hwVars>>
      BY <3>1 DEF FirstRequest, NextRequest, bootVars
    <3>2. ASSUME RemoveRequest(s, c) \/ FlushRequest(s, c)
          PROVE  UNCHANGED <<registryVars, hwVars>>
      BY <3>2 DEF RemoveRequest, FlushRequest, bootVars
    <3>. QED
      BY <2>3, <3>1, <3>2
         DEF set_client_request, ConfigRequest, UnknownRequest, CalResetRequest
  <2>4. ASSUME RailSettles \/ InstanceEvent \/ UNCHANGED vars
        PROVE  UNCHANGED <<registryVars, hwVars>>
    BY <2>4 DEF RailSettles, InstanceEvent, vars, bootVars
  <2>. QED
    BY <2>1, <2>2, <2>3, <2>4 DEF Next
<1>. QED
  BY <1>1, <1>2, BootInvariant, PTL
     DEF Spec, BootKeepsLifecycle, Lifecycle!Spec

-----------------------------------------------------------------------------
(* What the instance has to keep whichever sensor is configured.            *)

(* Every polled sensor's timer runs with the interval that is wanted, and   *)
(* only if one is wanted.                                                   *)
PollingSound(i) ==
  \A t \in Configurable : ~i.is_dri[t] =>
    /\ i.sample_intvl[t] = i.sample_intvl_req[t]
    /\ i.timer_is_active[t] <=> i.sample_intvl[t] > 0
    /\ i.timer_is_active[t] => i.poll_stream[t]

(* The FIFO is filled for every enabled data-ready sensor, and with an      *)
(* interrupt to drain it only.                                              *)
FifoSound(i) ==
  /\ i.fifo_enabled # {} => i.irq_registered
  /\ \A t \in i.sensor_enabled \cap Fifo :
       i.is_dri[t] => i.irq_registered /\ t \in i.fifo_enabled

InstanceSound(i) ==
  /\ i \in InstanceStates
  /\ PollingSound(i)
  /\ FifoSound(i)

(* The chip runs at the rate that was wanted last of sensor t.              *)
RateApplied(i, t, rate) ==
  /\ i.sample_rate[t] = chip_rate(rate)
  /\ i.sample_intvl_req[t] = rate

Entries == [client : Clients, msg : {"CONFIG", "UNKNOWN"}, sample : Nat]

-----------------------------------------------------------------------------
(* The rate of the chip is a number, and 0 for a request of 0.              *)
LEMMA ChipRateIsRate ==
  ASSUME NEW rate \in Nat
  PROVE  chip_rate(rate) \in Nat /\ chip_rate(0) = 0
<1>1. 0 \in Nat
  OBVIOUS
<1>. QED
  BY <1>1, ChipRateOfZero

(* demo_get_sensor_config chooses one of the rates in the list, or 0 when   *)
(* the list holds none.                                                     *)
LEMMA ChosenRate ==
  ASSUME NEW s, NEW entries \in SUBSET Entries, IsFiniteSet(entries)
  PROVE  /\ chosen_rate(s, entries) \in Nat
         /\ chosen_rate(s, entries) > 0 =>
              \E e \in ConfigsIn(entries) : e.sample = chosen_rate(s, entries)
         /\ ConfigsIn(entries) = {} => chosen_rate(s, entries) = 0
<1>. DEFINE wishes == {[sample |-> e.sample, report |-> e.sample] :
                         e \in ConfigsIn(entries)}
            samples == {w.sample : w \in wishes}
            configured == {e.sample : e \in ConfigsIn(entries)}
<1>1. chosen_rate(s, entries) = MaxOf(samples)
  BY DEF chosen_rate, chosen_sample_rate
<1>2. samples = configured
  <2>1. ASSUME NEW e \in ConfigsIn(entries) PROVE e.sample \in samples
    <3>1. [sample |-> e.sample, report |-> e.sample] \in wishes
      OBVIOUS
    <3>. QED
      BY <3>1
  <2>2. ASSUME NEW w \in wishes PROVE w.sample \in configured
    OBVIOUS
  <2>. QED
    BY <2>1, <2>2
<1>3. ConfigsIn(entries) \subseteq entries /\ IsFiniteSet(ConfigsIn(entries))
  BY FS_Subset DEF ConfigsIn
<1>4. IsFiniteSet(configured)
  <2>. DEFINE f == [e \in ConfigsIn(entries) |-> e.sample]
  <2>1. f \in Surjection(ConfigsIn(entries), configured)
    BY DEF Surjection
  <2>. QED
    BY <1>3, <2>1, FS_Surjection
<1>5. configured \in SUBSET Nat
  BY <1>3 DEF Entries
<1>. HIDE DEF samples
<1>6. /\ MaxOf(samples) \in Nat
      /\ samples # {} => MaxOf(samples) \in samples
  BY <1>2, <1>4, <1>5, MaxOfIsHighest
<1>7. samples = {} => MaxOf(samples) = 0
  BY DEF MaxOf
<1>8. samples # {} => \E e \in ConfigsIn(entries) : e.sample = MaxOf(samples)
  BY ONLY <1>2, <1>6
<1>9. ConfigsIn(entries) = {} => samples = {}
  BY ONLY <1>2
<1>. QED
  BY <1>1, <1>6, <1>7, <1>8, <1>9

-----------------------------------------------------------------------------
(* The first calls of demo_instance_set_client_config: the request is       *)
(* stored, the interrupt asked for and the stored rates brought into range. *)
LEMMA RequestedRates ==
  ASSUME NEW i \in InstanceStates, NEW s \in Sensors, NEW rate \in Nat,
         NEW dri \in BOOLEAN
  PROVE  LET j == config_rates(hal_register_interrupt(request_rate(i, s, rate), dri))
             wish(t) == IF t = s THEN rate ELSE i.sample_rate[t]
         IN  /\ j \in InstanceStates
             /\ j.is_dri = i.is_dri
             /\ j.sensor_enabled = i.sensor_enabled \cup {s}
             /\ j.irq_registered = (i.irq_registered \/ dri)
             /\ j.fifo_enabled = i.fifo_enabled
             /\ j.sample_intvl = i.sample_intvl
             /\ j.timer_is_active = i.timer_is_active
             /\ j.poll_stream = i.poll_stream
             /\ j.sample_intvl_req = [i.sample_intvl_req EXCEPT ![s] = rate]
             /\ \A t \in Sensors :
                  j.sample_rate[t] = IF t \in j.sensor_enabled \cap Configurable
                                     THEN chip_rate(wish(t)) ELSE wish(t)
<1>. DEFINE a == request_rate(i, s, rate)
            b == hal_register_interrupt(a, dri)
            j == config_rates(b)
<1>1. /\ a \in InstanceStates
      /\ a.sensor_enabled = i.sensor_enabled \cup {s}
      /\ a.sample_rate = [i.sample_rate EXCEPT ![s] = rate]
      /\ a.sample_intvl_req = [i.sample_intvl_req EXCEPT ![s] = rate]
      /\ a.is_dri = i.is_dri /\ a.irq_registered = i.irq_registered
      /\ a.fifo_enabled = i.fifo_enabled /\ a.sample_intvl = i.sample_intvl
      /\ a.timer_is_active = i.timer_is_active /\ a.poll_stream = i.poll_stream
  BY DEF request_rate, InstanceStates
<1>. HIDE DEF a
<1>2. /\ b \in InstanceStates
      /\ b.irq_registered = (a.irq_registered \/ dri)
      /\ b.sensor_enabled = a.sensor_enabled /\ b.sample_rate = a.sample_rate
      /\ b.sample_intvl_req = a.sample_intvl_req /\ b.is_dri = a.is_dri
      /\ b.fifo_enabled = a.fifo_enabled /\ b.sample_intvl = a.sample_intvl
      /\ b.timer_is_active = a.timer_is_active /\ b.poll_stream = a.poll_stream
  BY <1>1 DEF hal_register_interrupt, InstanceStates
<1>. HIDE DEF b
<1>. DEFINE rates == [t \in Sensors |-> IF t \in b.sensor_enabled \cap Configurable
                                        THEN chip_rate(b.sample_rate[t])
                                        ELSE b.sample_rate[t]]
<1>3. rates \in [Sensors -> Nat]
  <2>1. \A t \in Sensors : b.sample_rate[t] \in Nat
    BY <1>2 DEF InstanceStates
  <2>2. \A t \in Sensors : chip_rate(b.sample_rate[t]) \in Nat
    BY <2>1, ChipRateIsRate
  <2>. QED
    BY <2>1, <2>2
<1>4. j = [b EXCEPT !.sample_rate = rates]
  BY <1>2 DEF config_rates, InstanceStates
<1>5. \A t \in Sensors : b.sample_rate[t] = IF t = s THEN rate ELSE i.sample_rate[t]
  BY <1>1, <1>2 DEF InstanceStates
<1>6. \A t \in Sensors :
        rates[t] = IF t \in b.sensor_enabled \cap Configurable
                   THEN chip_rate(IF t = s THEN rate ELSE i.sample_rate[t])
                   ELSE IF t = s THEN rate ELSE i.sample_rate[t]
  BY <1>5
<1>. HIDE DEF rates, j
<1>7. /\ j \in InstanceStates /\ j.sample_rate = rates
      /\ j.sensor_enabled = b.sensor_enabled
      /\ j.irq_registered = b.irq_registered
      /\ j.sample_intvl_req = b.sample_intvl_req /\ j.is_dri = b.is_dri
      /\ j.fifo_enabled = b.fifo_enabled /\ j.sample_intvl = b.sample_intvl
      /\ j.timer_is_active = b.timer_is_active /\ j.poll_stream = b.poll_stream
  BY <1>2, <1>3, <1>4 DEF InstanceStates
<1>8. /\ j \in InstanceStates
      /\ j.is_dri = i.is_dri
      /\ j.sensor_enabled = i.sensor_enabled \cup {s}
      /\ j.irq_registered = (i.irq_registered \/ dri)
      /\ j.fifo_enabled = i.fifo_enabled
      /\ j.sample_intvl = i.sample_intvl
      /\ j.timer_is_active = i.timer_is_active
      /\ j.poll_stream = i.poll_stream
      /\ j.sample_intvl_req = [i.sample_intvl_req EXCEPT ![s] = rate]
  BY <1>1, <1>2, <1>7
<1>9. \A t \in Sensors :
        j.sample_rate[t] = IF t \in j.sensor_enabled \cap Configurable
                           THEN chip_rate(IF t = s THEN rate ELSE i.sample_rate[t])
                           ELSE IF t = s THEN rate ELSE i.sample_rate[t]
  BY <1>6, <1>7
<1>. QED
  BY <1>8, <1>9 DEF j, b, a

(* demo_config_fifo switches bits on and changes nothing else.              *)
LEMMA FifoEffect ==
  ASSUME NEW i \in InstanceStates
  PROVE  LET j == config_fifo(i)
             bits == i.sensor_enabled \cap Fifo
         IN  /\ j \in InstanceStates
             /\ j.fifo_enabled = IF \E t \in bits : i.is_dri[t]
                                 THEN i.fifo_enabled \cup bits ELSE i.fifo_enabled
             /\ j = [i EXCEPT !.fifo_enabled = j.fifo_enabled]
<1>1. i.fifo_enabled \cup (i.sensor_enabled \cap Fifo) \in SUBSET Sensors
  BY DEF InstanceStates, Fifo
<1>2. CASE \E t \in i.sensor_enabled \cap Fifo : i.is_dri[t]
  BY <1>1, <1>2 DEF InstanceStates, config_fifo
<1>3. CASE ~\E t \in i.sensor_enabled \cap Fifo : i.is_dri[t]
  BY <1>3 DEF InstanceStates, config_fifo
<1>. QED
  BY <1>2, <1>3

(* demo_set_sensor_polling_config moves the timers and nothing else.        *)
LEMMA PollingEffect ==
  ASSUME NEW i \in InstanceStates
  PROVE  LET j == set_sensor_polling_config(i)
         IN  /\ j \in InstanceStates
             /\ j.is_dri = i.is_dri
             /\ j.sensor_enabled = i.sensor_enabled
             /\ j.sample_rate = i.sample_rate
             /\ j.sample_intvl_req = i.sample_intvl_req
             /\ j.irq_registered = i.irq_registered
             /\ j.fifo_enabled = i.fifo_enabled
             /\ \A t \in Sensors :
                  /\ j.sample_intvl[t] = IF restarts(i, t) \/ stops(i, t)
                                         THEN i.sample_intvl_req[t]
                                         ELSE i.sample_intvl[t]
                  /\ j.timer_is_active[t] =
                       (restarts(i, t) \/ (i.timer_is_active[t] /\ ~stops(i, t)))
                  /\ j.poll_stream[t] =
                       (restarts(i, t) \/ (i.poll_stream[t] /\ ~stops(i, t)))
<1>. DEFINE intvl == [t \in Sensors |-> IF restarts(i, t) \/ stops(i, t)
                                        THEN i.sample_intvl_req[t]
                                        ELSE i.sample_intvl[t]]
            active == [t \in Sensors |->
                         restarts(i, t) \/ (i.timer_is_active[t] /\ ~stops(i, t))]
            stream == [t \in Sensors |->
                         restarts(i, t) \/ (i.poll_stream[t] /\ ~stops(i, t))]
            j == set_sensor_polling_config(i)
<1>1. intvl \in [Sensors -> Nat]
  BY DEF InstanceStates
<1>2. ASSUME NEW t \in Sensors
      PROVE  /\ restarts(i, t) \in BOOLEAN
             /\ stops(i, t) \in BOOLEAN
             /\ i.timer_is_active[t] \in BOOLEAN
             /\ i.poll_stream[t] \in BOOLEAN
  BY DEF restarts, stops, InstanceStates
<1>3. active \in [Sensors -> BOOLEAN] /\ stream \in [Sensors -> BOOLEAN]
  BY <1>2
<1>4. j = [i EXCEPT !.sample_intvl = intvl, !.timer_is_active = active,
                    !.poll_stream = stream]
  BY DEF set_sensor_polling_config, InstanceStates
<1>5. \A t \in Sensors :
        /\ intvl[t] = IF restarts(i, t) \/ stops(i, t)
                      THEN i.sample_intvl_req[t] ELSE i.sample_intvl[t]
        /\ active[t] = (restarts(i, t) \/ (i.timer_is_active[t] /\ ~stops(i, t)))
        /\ stream[t] = (restarts(i, t) \/ (i.poll_stream[t] /\ ~stops(i, t)))
  OBVIOUS
<1>. HIDE DEF intvl, active, stream, j
<1>6. /\ j \in InstanceStates
      /\ j.is_dri = i.is_dri /\ j.sensor_enabled = i.sensor_enabled
      /\ j.sample_rate = i.sample_rate /\ j.sample_intvl_req = i.sample_intvl_req
      /\ j.irq_registered = i.irq_registered /\ j.fifo_enabled = i.fifo_enabled
      /\ j.sample_intvl = intvl /\ j.timer_is_active = active
      /\ j.poll_stream = stream
  BY <1>1, <1>3, <1>4 DEF InstanceStates
<1>. QED
  BY <1>5, <1>6 DEF j

(* demo_instance_set_client_config as a whole: the requested sensor gets    *)
(* its rate, every other one keeps the rate it was configured with although *)
(* its stored rate went through the clamp and the rounding again, and the   *)
(* timers and the FIFO stay as they must be.                                *)
LEMMA ConfigureSound ==
  ASSUME NEW i, InstanceSound(i), NEW s \in Sensors, NEW rate \in Nat,
         NEW dri \in BOOLEAN, i.is_dri[s] = dri
  PROVE  LET j == set_client_config(i, s, rate, dri)
         IN  /\ InstanceSound(j)
             /\ j.is_dri = i.is_dri
             /\ j.sensor_enabled = i.sensor_enabled \cup {s}
             /\ s \in Configurable => RateApplied(j, s, rate)
             /\ \A t \in Configurable \ {s}, r \in Nat :
                  RateApplied(i, t, r) => RateApplied(j, t, r)
<1>. DEFINE c == config_rates(hal_register_interrupt(request_rate(i, s, rate), dri))
            d == config_fifo(c)
            j == set_sensor_polling_config(d)
<1>1. i \in InstanceStates /\ PollingSound(i) /\ FifoSound(i)
  BY DEF InstanceSound
<1>2. /\ c \in InstanceStates
      /\ c.is_dri = i.is_dri
      /\ c.sensor_enabled = i.sensor_enabled \cup {s}
      /\ c.irq_registered = (i.irq_registered \/ dri)
      /\ c.fifo_enabled = i.fifo_enabled
      /\ c.sample_intvl = i.sample_intvl
      /\ c.timer_is_active = i.timer_is_active
      /\ c.poll_stream = i.poll_stream
      /\ c.sample_intvl_req = [i.sample_intvl_req EXCEPT ![s] = rate]
      /\ \A t \in Sensors :
           c.sample_rate[t] =
             IF t \in c.sensor_enabled \cap Configurable
             THEN chip_rate(IF t = s THEN rate ELSE i.sample_rate[t])
             ELSE IF t = s THEN rate ELSE i.sample_rate[t]
  BY <1>1, RequestedRates
<1>. HIDE DEF c
<1>3. /\ d \in InstanceStates
      /\ d.fifo_enabled =
           IF \E t \in c.sensor_enabled \cap Fifo : c.is_dri[t]
           THEN c.fifo_enabled \cup (c.sensor_enabled \cap Fifo)
           ELSE c.fifo_enabled
      /\ d.is_dri = c.is_dri /\ d.sensor_enabled = c.sensor_enabled
      /\ d.irq_registered = c.irq_registered
      /\ d.sample_intvl = c.sample_intvl
      /\ d.timer_is_active = c.timer_is_active
      /\ d.poll_stream = c.poll_stream
      /\ d.sample_intvl_req = c.sample_intvl_req
      /\ d.sample_rate = c.sample_rate
  <2>1. /\ d \in InstanceStates
        /\ d = [c EXCEPT !.fifo_enabled = d.fifo_enabled]
        /\ d.fifo_enabled =
             IF \E t \in c.sensor_enabled \cap Fifo : c.is_dri[t]
             THEN c.fifo_enabled \cup (c.sensor_enabled \cap Fifo)
             ELSE c.fifo_enabled
    BY <1>2, FifoEffect
  <2>. HIDE DEF d
  <2>2. PICK bits : d = [c EXCEPT !.fifo_enabled = bits]
    BY <2>1
  <2>. QED
    BY <1>2, <2>1, <2>2 DEF InstanceStates
<1>. HIDE DEF d
<1>4. /\ j \in InstanceStates
      /\ j.is_dri = d.is_dri
      /\ j.sensor_enabled = d.sensor_enabled
      /\ j.sample_rate = d.sample_rate
      /\ j.sample_intvl_req = d.sample_intvl_req
      /\ j.irq_registered = d.irq_registered
      /\ j.fifo_enabled = d.fifo_enabled
      /\ \A t \in Sensors :
           /\ j.sample_intvl[t] = IF restarts(d, t) \/ stops(d, t)
                                  THEN d.sample_intvl_req[t]
                                  ELSE d.sample_intvl[t]
           /\ j.timer_is_active[t] =
                (restarts(d, t) \/ (d.timer_is_active[t] /\ ~stops(d, t)))
           /\ j.poll_stream[t] =
                (restarts(d, t) \/ (d.poll_stream[t] /\ ~stops(d, t)))
  BY <1>3, PollingEffect
<1>. HIDE DEF j
<1>5. FifoSound(j)
  <2>1. i.is_dri = j.is_dri /\ j.sensor_enabled = i.sensor_enabled \cup {s}
        /\ j.irq_registered = (i.irq_registered \/ dri)
    BY <1>2, <1>3, <1>4
  <2>2. j.fifo_enabled = IF \E t \in j.sensor_enabled \cap Fifo : j.is_dri[t]
                         THEN i.fifo_enabled \cup (j.sensor_enabled \cap Fifo)
                         ELSE i.fifo_enabled
    BY <1>2, <1>3, <1>4
  <2>. QED
    BY <1>1, <2>1, <2>2 DEF FifoSound
<1>6. PollingSound(j)
  <2>. SUFFICES ASSUME NEW t \in Configurable, ~j.is_dri[t]
                PROVE  /\ j.sample_intvl[t] = j.sample_intvl_req[t]
                       /\ j.timer_is_active[t] <=> j.sample_intvl[t] > 0
                       /\ j.timer_is_active[t] => j.poll_stream[t]
    BY DEF PollingSound
  <2>. DEFINE old == i.sample_intvl[t]
              wanted == d.sample_intvl_req[t]
  <2>1. t \in Sensors /\ ~i.is_dri[t] /\ ~d.is_dri[t]
    BY <1>2, <1>3, <1>4 DEF Configurable
  <2>2. /\ old \in Nat /\ wanted \in Nat
        /\ old = i.sample_intvl_req[t]
        /\ i.timer_is_active[t] <=> old > 0
        /\ i.timer_is_active[t] => i.poll_stream[t]
        /\ i.timer_is_active[t] \in BOOLEAN
    BY <1>1, <1>3, <2>1 DEF PollingSound, InstanceStates
  <2>3. /\ d.sample_intvl[t] = old
        /\ d.timer_is_active[t] = i.timer_is_active[t]
        /\ d.poll_stream[t] = i.poll_stream[t]
    BY <1>2, <1>3
  <2>4. j.sample_intvl_req[t] = wanted
    BY <1>4
  <2>5. CASE t \in d.sensor_enabled
    <3>1. t \in Polled(d)
      BY <2>1, <2>5 DEF Polled
    <3>2. /\ restarts(d, t) <=> (wanted > 0 /\ old # wanted)
          /\ stops(d, t) <=> (wanted = 0 /\ i.timer_is_active[t])
          /\ restarts(d, t) \in BOOLEAN /\ stops(d, t) \in BOOLEAN
      BY <2>3, <3>1 DEF restarts, stops
    <3>3. /\ j.sample_intvl[t] = IF restarts(d, t) \/ stops(d, t) THEN wanted ELSE old
          /\ j.timer_is_active[t] =
               (restarts(d, t) \/ (i.timer_is_active[t] /\ ~stops(d, t)))
          /\ j.poll_stream[t] =
               (restarts(d, t) \/ (i.poll_stream[t] /\ ~stops(d, t)))
      BY <1>4, <2>1, <2>3
    <3>. HIDE DEF old, wanted
    <3>. DEFINE on == i.timer_is_active[t]
                open == i.poll_stream[t]
    <3>4. /\ on \in BOOLEAN /\ open \in BOOLEAN
          /\ on <=> old > 0
          /\ on => open
      BY <1>1, <2>1, <2>2 DEF InstanceStates
    <3>5. /\ j.timer_is_active[t] = (restarts(d, t) \/ (on /\ ~stops(d, t)))
          /\ j.poll_stream[t] = (restarts(d, t) \/ (open /\ ~stops(d, t)))
      BY <3>3
    <3>. HIDE DEF on, open
    <3>6. CASE wanted > 0 /\ old # wanted
      BY <2>2, <2>4, <3>2, <3>3, <3>4, <3>5, <3>6
    <3>7. CASE wanted = 0 /\ on
      BY <2>2, <2>4, <3>2, <3>3, <3>4, <3>5, <3>7
    <3>8. CASE old = wanted /\ ~(wanted = 0 /\ on)
      BY <2>2, <2>4, <3>2, <3>3, <3>4, <3>5, <3>8
    <3>9. CASE wanted = 0 /\ ~on
      BY <2>2, <2>4, <3>2, <3>3, <3>4, <3>5, <3>9
    <3>. QED
      BY <2>2, <3>4, <3>6, <3>7, <3>8, <3>9
  <2>6. CASE t \notin d.sensor_enabled
    <3>1. t # s /\ ~restarts(d, t) /\ ~stops(d, t)
      BY <1>2, <1>3, <2>6 DEF restarts, stops, Polled
    <3>2. wanted = i.sample_intvl_req[t]
      BY <1>1, <1>2, <1>3, <2>1, <3>1 DEF InstanceStates
    <3>. QED
      BY <1>4, <2>1, <2>2, <2>3, <2>4, <3>1, <3>2
  <2>. QED
    BY <2>5, <2>6
<1>7. s \in Configurable => RateApplied(j, s, rate)
  BY <1>1, <1>2, <1>3, <1>4 DEF RateApplied, InstanceStates
<1>8. ASSUME NEW t \in Configurable \ {s}, NEW r \in Nat, RateApplied(i, t, r)
      PROVE  RateApplied(j, t, r)
  <2>1. /\ t \in Sensors /\ j.sample_intvl_req[t] = r
        /\ i.sample_rate[t] = chip_rate(r)
    BY <1>1, <1>2, <1>3, <1>4, <1>8 DEF RateApplied, InstanceStates, Configurable
  <2>2. j.sample_rate[t] \in {chip_rate(chip_rate(r)), chip_rate(r)}
    BY <1>2, <1>3, <1>4, <2>1
  <2>. QED
    BY <2>1, <2>2, ChipRateStable DEF RateApplied
<1>9. j.is_dri = i.is_dri /\ j.sensor_enabled = i.sensor_enabled \cup {s}
  BY <1>2, <1>3, <1>4
<1>10. j = set_client_config(i, s, rate, dri)
  BY DEF j, d, c, set_client_config, config_hw
<1>. QED
  BY <1>4, <1>5, <1>6, <1>7, <1>8, <1>9, <1>10 DEF InstanceSound

-----------------------------------------------------------------------------
(* The invariant of the client phase.  Requests are served and an instance  *)
(* exists only when no sensor is left to detect: its detection would vote   *)
(* the shared rail off under the instance.                                  *)
BootDone == \A t \in Sensors : available[t] \/ ~alive[t]

RequestsHeld ==
  /\ requests \in [Sensors -> SUBSET Entries]
  /\ \A t \in Sensors : IsFiniteSet(requests[t])

AfterBoot ==
  /\ StaggeredBoot \/ instance => BootDone
  /\ \A t \in Sensors : available[t] => pwrail_pending_state[t] # "INIT"
  /\ ~instance => \A t \in Sensors : requests[t] = {}
  /\ instance => available["ACC"] /\ votes["ACC"] # "OFF" /\ rail_vote # "OFF"

(* An instance of the sensors that clients can see: its copies of their     *)
(* registry flags are right.                                                *)
InstanceFits(i) ==
  /\ InstanceSound(i)
  /\ \A t \in i.sensor_enabled : available[t]
  /\ \A t \in Sensors : available[t] => i.is_dri[t] = (t \in Dri)

RatesApplied(i) ==
  \A t \in Configurable :
    pwrail_pending_state[t] = "NONE" =>
      RateApplied(i, t, chosen_rate(t, requests[t]))

ClientInv ==
  /\ RequestsHeld
  /\ AfterBoot
  /\ instance \in BOOLEAN
  /\ InstanceSound(istate)
  /\ instance => InstanceFits(istate) /\ RatesApplied(istate)

-----------------------------------------------------------------------------
(* A sensor that clients can see has read its registry flag.                *)
LEMMA FlagIsRead ==
  ASSUME BootInv, NEW t \in Sensors, available[t]
  PROVE  is_dri_now(t) = (t \in Dri)
BY DEF BootInv, DetectionSound, LookupTypes, is_dri_now

(* demo_reval_instance_config for a sensor that clients can see: it gets    *)
(* the rate chosen from the list, every other sensor keeps what it has.     *)
LEMMA ApplySound ==
  ASSUME BootInv, NEW i, InstanceFits(i), NEW s \in Sensors, available[s],
         NEW entries \in SUBSET Entries, IsFiniteSet(entries),
         reval_instance_config(i, s, entries), available' = available
  PROVE  /\ InstanceFits(istate)'
         /\ s \in Configurable => RateApplied(istate', s, chosen_rate(s, entries))
         /\ \A t \in Configurable \ {s}, r \in Nat :
              RateApplied(i, t, r) => RateApplied(istate', t, r)
<1>1. is_dri_now(s) \in BOOLEAN /\ is_dri_now(s) = i.is_dri[s]
  <2>1. is_dri_now(s) = (s \in Dri)
    BY FlagIsRead
  <2>2. i.is_dri[s] = (s \in Dri)
    BY DEF InstanceFits
  <2>3. (s \in Dri) \in BOOLEAN
    OBVIOUS
  <2>. QED
    BY <2>1, <2>2, <2>3
<1>2. chosen_rate(s, entries) \in Nat
  BY ChosenRate
<1>3. istate' = set_client_config(i, s, chosen_rate(s, entries), is_dri_now(s))
  BY DEF reval_instance_config
<1>. DEFINE j == istate'
<1>4. /\ InstanceSound(j)
      /\ j.is_dri = i.is_dri
      /\ j.sensor_enabled = i.sensor_enabled \cup {s}
      /\ s \in Configurable => RateApplied(j, s, chosen_rate(s, entries))
      /\ \A t \in Configurable \ {s}, r \in Nat :
           RateApplied(i, t, r) => RateApplied(j, t, r)
  BY <1>1, <1>2, <1>3, ConfigureSound DEF InstanceFits
<1>5. InstanceSound(istate)'
  BY <1>4 DEF InstanceSound, InstanceStates, PollingSound, FifoSound,
              Configurable, Fifo
<1>. QED
  BY <1>4, <1>5 DEF InstanceFits

(* The rates chosen from a list that holds the same configurations are the  *)
(* same.                                                                    *)
LEMMA SameConfigsSameRate ==
  ASSUME NEW s, NEW entries, NEW others, ConfigsIn(entries) = ConfigsIn(others)
  PROVE  chosen_rate(s, entries) = chosen_rate(s, others)
BY DEF chosen_rate

(* demo_handle_new_request: a request is put into the list of sensor s and  *)
(* applied, unless s waits for the rail or the request configures nothing.  *)
LEMMA AddKeeps ==
  ASSUME BootInv, NEW i, InstanceFits(i), NEW s \in Sensors, available[s],
         RequestsHeld, NEW entries \in SUBSET Entries, IsFiniteSet(entries),
         NEW is_config \in BOOLEAN,
         ~is_config => ConfigsIn(entries) = ConfigsIn(requests[s]),
         rail_vote' # "OFF", available' = available,
         \A t \in Configurable :
           pwrail_pending_state'[t] = "NONE" =>
             RateApplied(i, t, chosen_rate(t, requests[t])),
         AddRequest(s, entries, i, is_config)
  PROVE  /\ RequestsHeld'
         /\ InstanceFits(istate)'
         /\ RatesApplied(istate)'
<1>1. requests' = [requests EXCEPT ![s] = entries]
  BY DEF AddRequest
<1>2. RequestsHeld'
  BY <1>1 DEF RequestsHeld, Entries
<1>3. /\ requests'[s] = entries
      /\ \A t \in Sensors \ {s} : requests'[t] = requests[t]
  BY <1>1 DEF RequestsHeld
<1>4. \A t \in Sensors : chosen_rate(t, requests[t]) \in Nat
  BY ChosenRate DEF RequestsHeld
<1>5. RatesApplied(istate)' <=>
        \A t \in Configurable :
          pwrail_pending_state'[t] = "NONE" =>
            RateApplied(istate', t, chosen_rate(t, requests'[t]))
  BY DEF RatesApplied, RateApplied, chosen_rate, Configurable, ConfigsIn
<1>6. CASE is_config /\ pwrail_pending_state'[s] = "NONE"
  <2>1. reval_instance_config(i, s, entries)
    BY <1>6 DEF AddRequest
  <2>2. /\ InstanceFits(istate)'
        /\ s \in Configurable => RateApplied(istate', s, chosen_rate(s, entries))
        /\ \A t \in Configurable \ {s}, r \in Nat :
             RateApplied(i, t, r) => RateApplied(istate', t, r)
    BY <2>1, ApplySound
  <2>3. ASSUME NEW t \in Configurable, pwrail_pending_state'[t] = "NONE"
        PROVE  RateApplied(istate', t, chosen_rate(t, requests'[t]))
    BY <1>3, <1>4, <2>2, <2>3 DEF Configurable
  <2>. QED
    BY <1>2, <1>5, <2>2, <2>3
<1>7. CASE ~(is_config /\ pwrail_pending_state'[s] = "NONE")
  <2>1. istate' = i
    BY <1>7 DEF AddRequest
  <2>2. InstanceFits(istate)'
    BY <2>1 DEF InstanceFits, InstanceSound, InstanceStates, PollingSound,
                FifoSound, Configurable, Fifo
  <2>3. ASSUME NEW t \in Configurable, pwrail_pending_state'[t] = "NONE"
        PROVE  RateApplied(istate', t, chosen_rate(t, requests'[t]))
    <3>1. chosen_rate(t, requests'[t]) = chosen_rate(t, requests[t])
      BY <1>3, <1>7, <2>3, SameConfigsSameRate DEF Configurable
    <3>. QED
      BY <2>1, <2>3, <3>1
  <2>. QED
    BY <1>2, <1>5, <2>2, <2>3
<1>. QED
  BY <1>6, <1>7

-----------------------------------------------------------------------------
(* A call of demo_sensor_notify_event neither hides a sensor nor revives    *)
(* one, and a sensor that clients can see is not detecting.                 *)
LEMMA BootGoesOn ==
  ASSUME BootInv, NEW s \in Sensors, notify_event(s),
         \A t \in Sensors : available[t] => pwrail_pending_state[t] # "INIT"
  PROVE  /\ \A t \in Sensors : available[t] => available'[t]
         /\ \A t \in Sensors : alive'[t] => alive[t]
         /\ \A t \in Sensors : available'[t] => pwrail_pending_state'[t] # "INIT"
         /\ BootDone => BootDone'
<1>1. HwTypes /\ TimerTypes /\ DetectionSound
  BY DEF BootInv
<1>2. PICK found \in SUBSET (Suids \ suids[s]), arrived \in Arrivals(s) :
        \/ NotifyEvent(s, found, arrived)
        \/ DetectionSucceeds(s, found, arrived)
        \/ DetectionFails(s, found, arrived)
        \/ RailTimerExpires(s, found, arrived)
  BY DEF notify_event, TimerExpires
<1>3. /\ \A t \in Sensors : available[t] => available'[t]
      /\ \A t \in Sensors : alive'[t] => alive[t]
  BY <1>1, <1>2 DEF HwTypes, NotifyEvent, DetectionSucceeds, DetectionFails,
                    RailTimerExpires
<1>4. ASSUME Detects(s, pwrail_pending_state[s]) \/ Detects(s, "NONE"),
             start_hw_detect(s), available' = available, NEW t \in Sensors,
             available'[t]
      PROVE  pwrail_pending_state'[t] # "INIT"
  <2>1. t # s
    BY <1>1, <1>4 DEF Detects, DetectionSound
  <2>2. pwrail_pending_state'[t] = pwrail_pending_state[t]
    BY <1>1, <1>4, <2>1 DEF start_hw_detect, start_power_rail_timer, TimerTypes
  <2>. QED
    BY <1>4, <2>2
<1>5. \A t \in Sensors : available'[t] => pwrail_pending_state'[t] # "INIT"
  <2>1. CASE NotifyEvent(s, found, arrived)
    <3>1. CASE Detects(s, pwrail_pending_state[s])
      BY <1>4, <2>1, <3>1 DEF NotifyEvent
    <3>2. CASE ~Detects(s, pwrail_pending_state[s])
      BY <2>1, <3>2 DEF NotifyEvent, timerVars
    <3>. QED
      BY <3>1, <3>2
  <2>2. CASE DetectionSucceeds(s, found, arrived)
    BY <1>1, <2>2 DEF DetectionSucceeds, HwTypes, TimerTypes
  <2>3. CASE DetectionFails(s, found, arrived)
    BY <1>4, <2>3 DEF DetectionFails
  <2>4. CASE RailTimerExpires(s, found, arrived)
    BY <1>1, <2>4 DEF RailTimerExpires, TimerTypes
  <2>. QED
    BY <1>2, <2>1, <2>2, <2>3, <2>4
<1>. QED
  BY <1>3, <1>5 DEF BootDone

(* Without an instance such a call changes nothing that clients rely on.    *)
LEMMA IdleNotifyKeeps ==
  ASSUME BootInv, ClientInv, ~instance, NEW s \in Sensors, notify_event(s)
  PROVE  ClientInv'
<1>1. UNCHANGED <<requests, instance, istate>>
  BY DEF notify_event, TimerExpires, NotifyEvent, DetectionSucceeds,
         DetectionFails, RailTimerExpires
<1>2. AfterBoot'
  BY <1>1, BootGoesOn DEF ClientInv, AfterBoot
<1>3. RequestsHeld' /\ InstanceSound(istate)'
  BY <1>1 DEF ClientInv, RequestsHeld, Entries, InstanceSound, InstanceStates,
              PollingSound, FifoSound, Configurable, Fifo
<1>. QED
  BY <1>1, <1>2, <1>3 DEF ClientInv

(* With an instance every living sensor is available, so a call can do      *)
(* nothing but apply a request that waited for the rail.                    *)
LEMMA StreamingNotifyKeeps ==
  ASSUME BootInv, BootInv', ClientInv, instance,
         NEW s \in Sensors, notify_event(s)
  PROVE  ClientInv'
<1>1. /\ HwTypes /\ TimerTypes /\ DetectionSound
      /\ RequestsHeld /\ AfterBoot /\ BootDone
      /\ InstanceFits(istate) /\ RatesApplied(istate)
      /\ "ACC" \in Sensors /\ available["ACC"]
  BY SensorsAssumption DEF BootInv, ClientInv, AfterBoot
<1>2. PICK found \in SUBSET (Suids \ suids[s]), arrived \in Arrivals(s) :
        \/ NotifyEvent(s, found, arrived)
        \/ DetectionSucceeds(s, found, arrived)
        \/ DetectionFails(s, found, arrived)
        \/ RailTimerExpires(s, found, arrived)
  BY DEF notify_event, TimerExpires
<1>3. available[s] /\ hw_is_present[s] /\ pwrail_pending_state[s] # "INIT"
  <2>1. alive[s]
    BY <1>2 DEF NotifyEvent, DetectionSucceeds, DetectionFails, RailTimerExpires
  <2>. QED
    BY <1>1, <2>1 DEF BootDone, DetectionSound, AfterBoot
<1>4. NoDetection /\ available' = available
  BY <1>2, <1>3 DEF NotifyEvent, DetectionSucceeds, DetectionFails,
                    RailTimerExpires, Detects
<1>5. rail_vote' = rail_vote /\ votes' = votes
  <2>1. "PLATFORM_CONFIG" \in received
    BY <1>1 DEF DetectionSound
  <2>. QED
    BY <1>4, <2>1 DEF NoDetection, PlatformJustRead
<1>6. instance' = instance /\ requests' = requests
  BY <1>2 DEF NotifyEvent, DetectionSucceeds, DetectionFails, RailTimerExpires
<1>7. AfterBoot' /\ RequestsHeld'
  <2>1. AfterBoot'
    BY <1>1, <1>4, <1>5, <1>6, BootGoesOn DEF AfterBoot
  <2>. QED
    BY <1>1, <1>6, <2>1 DEF RequestsHeld, Entries
<1>8. CASE NotifyEvent(s, found, arrived)
  <2>1. UNCHANGED <<pwrail_pending_state, istate>>
    BY <1>3, <1>8 DEF NotifyEvent, Detects, timerVars
  <2>2. InstanceFits(istate)' /\ RatesApplied(istate)'
    BY <1>1, <1>4, <1>6, <2>1
       DEF InstanceFits, InstanceSound, InstanceStates, PollingSound, FifoSound,
           Configurable, Fifo, RatesApplied, RateApplied, chosen_rate, ConfigsIn
  <2>. QED
    BY <1>6, <1>7, <2>2 DEF ClientInv, InstanceFits
<1>9. CASE RailTimerExpires(s, found, arrived)
  <2>1. /\ pwrail_pending_state' = [pwrail_pending_state EXCEPT ![s] = "NONE"]
        /\ reval_instance_config(istate, s, requests[s])
    BY <1>9 DEF RailTimerExpires
  <2>2. requests[s] \in SUBSET Entries /\ IsFiniteSet(requests[s])
    BY <1>1 DEF RequestsHeld
  <2>3. /\ InstanceFits(istate)'
        /\ s \in Configurable => RateApplied(istate', s, chosen_rate(s, requests[s]))
        /\ \A t \in Configurable \ {s}, r \in Nat :
             RateApplied(istate, t, r) => RateApplied(istate', t, r)
    BY <1>1, <1>3, <1>4, <2>1, <2>2, ApplySound
  <2>4. \A t \in Sensors : chosen_rate(t, requests[t]) \in Nat
    BY <1>1, ChosenRate DEF RequestsHeld
  <2>5. ASSUME NEW t \in Configurable, pwrail_pending_state'[t] = "NONE"
        PROVE  RateApplied(istate', t, chosen_rate(t, requests[t]))
    <3>1. CASE t = s
      BY <2>3, <3>1
    <3>2. CASE t # s
      <4>1. t \in Sensors /\ pwrail_pending_state[t] = "NONE"
        BY <1>1, <2>1, <2>5, <3>2 DEF TimerTypes, Configurable
      <4>. QED
        BY <1>1, <2>3, <2>4, <3>2, <4>1 DEF RatesApplied
    <3>. QED
      BY <3>1, <3>2
  <2>6. RatesApplied(istate)'
    BY <1>6, <2>5 DEF RatesApplied, RateApplied, chosen_rate, Configurable,
                      ConfigsIn
  <2>. QED
    BY <1>6, <1>7, <2>3, <2>6 DEF ClientInv, InstanceFits
<1>. QED
  BY <1>2, <1>3, <1>8, <1>9 DEF DetectionSucceeds, DetectionFails

-----------------------------------------------------------------------------
(* What a request makes of the list of its sensor is a list again.          *)
LEMMA ListsStayLists ==
  ASSUME RequestsHeld, NEW s \in Sensors, NEW c \in Clients
  PROVE  /\ \A rate \in WishedRates :
              LET entries == (requests[s] \ exist_request(s, c))
                               \cup {Config(c, rate)}
              IN entries \in SUBSET Entries /\ IsFiniteSet(entries)
         /\ LET entries == requests[s] \cup {Unknown(c)}
            IN /\ entries \in SUBSET Entries /\ IsFiniteSet(entries)
               /\ ConfigsIn(entries) = ConfigsIn(requests[s])
         /\ LET entries == requests[s] \ exist_request(s, c)
            IN entries \in SUBSET Entries /\ IsFiniteSet(entries)
<1>1. requests[s] \in SUBSET Entries /\ IsFiniteSet(requests[s])
  BY DEF RequestsHeld
<1>. DEFINE rest == requests[s] \ exist_request(s, c)
<1>2. rest \in SUBSET Entries /\ IsFiniteSet(rest)
  BY <1>1, FS_Subset
<1>3. ASSUME NEW rate \in WishedRates
      PROVE  /\ rest \cup {Config(c, rate)} \in SUBSET Entries
             /\ IsFiniteSet(rest \cup {Config(c, rate)})
  <2>1. Config(c, rate) \in Entries
    BY EnvironmentAssumption DEF Config, Entries
  <2>. QED
    BY <1>2, <2>1, FS_AddElement
<1>4. /\ requests[s] \cup {Unknown(c)} \in SUBSET Entries
      /\ IsFiniteSet(requests[s] \cup {Unknown(c)})
  <2>1. Unknown(c) \in Entries
    BY DEF Unknown, Entries
  <2>. QED
    BY <1>1, <2>1, FS_AddElement
<1>5. ConfigsIn(requests[s] \cup {Unknown(c)}) = ConfigsIn(requests[s])
  BY DEF ConfigsIn, Unknown
<1>. QED
  BY <1>2, <1>3, <1>4, <1>5

(* demo_instance_init makes an instance that fits the sensors, with every   *)
(* rate at 0.                                                               *)
LEMMA NewInstanceFits ==
  ASSUME BootInv, NEW garbage \in SUBSET Sensors
  PROVE  LET i == instance_init(FlagsCopied(garbage))
         IN  /\ InstanceFits(i)
             /\ \A t \in Configurable : RateApplied(i, t, 0)
<1>. DEFINE flags == FlagsCopied(garbage)
            i == instance_init(flags)
<1>1. flags \in [Sensors -> BOOLEAN]
  <2>1. \A t \in Sensors : is_dri_now(t) \in BOOLEAN
    BY DEF is_dri_now, BootInv, LookupTypes
  <2>2. \A t \in Sensors : (t \in garbage) \in BOOLEAN
    OBVIOUS
  <2>. QED
    BY <2>1, <2>2 DEF FlagsCopied
<1>2. \A t \in Sensors : available[t] => flags[t] = (t \in Dri)
  <2>1. \A t \in Sensors : available[t] => alive[t] /\ is_dri_now(t) = (t \in Dri)
    BY FlagIsRead DEF BootInv, DetectionSound
  <2>. QED
    BY <2>1 DEF FlagsCopied
<1>. HIDE DEF flags
<1>3. /\ i \in InstanceStates
      /\ i.is_dri = flags /\ i.sensor_enabled = {} /\ i.fifo_enabled = {}
      /\ \A t \in Sensors : /\ i.sample_rate[t] = 0 /\ i.sample_intvl_req[t] = 0
                            /\ i.sample_intvl[t] = 0 /\ ~i.timer_is_active[t]
  BY <1>1 DEF instance_init, InstanceStates
<1>. HIDE DEF i
<1>4. chip_rate(0) = 0
  BY ChipRateIsRate
<1>5. InstanceSound(i)
  BY <1>3 DEF InstanceSound, PollingSound, FifoSound, Configurable
<1>6. InstanceFits(i)
  BY <1>2, <1>3, <1>5 DEF InstanceFits
<1>7. \A t \in Configurable : RateApplied(i, t, 0)
  BY <1>3, <1>4 DEF RateApplied, Configurable
<1>. QED
  BY <1>6, <1>7 DEF i, flags

(* The first request of all creates the instance.                           *)
LEMMA FirstRequestKeeps ==
  ASSUME BootInv, ClientInv, NEW s \in Sensors,
         NEW entries \in SUBSET Entries, IsFiniteSet(entries),
         NEW is_config \in BOOLEAN,
         ~is_config => ConfigsIn(entries) = ConfigsIn(requests[s]),
         FirstRequest(s, entries, is_config)
  PROVE  ClientInv'
<1>1. /\ HwTypes /\ TimerTypes /\ RailTypes /\ RequestsHeld /\ AfterBoot
      /\ "ACC" \in Sensors
  BY SensorsAssumption DEF BootInv, ClientInv
<1>2. /\ Serves(s) /\ ~instance /\ alive["ACC"] /\ new_instance(s)
      /\ UNCHANGED hwVars
  BY DEF FirstRequest
<1>3. available[s] /\ BootDone /\ available["ACC"]
  BY <1>1, <1>2 DEF Serves, AfterBoot, BootDone
<1>4. rail_vote' # "OFF" /\ votes'["ACC"] # "OFF"
  BY <1>1, <1>2 DEF new_instance, update_power_rail_vote, RailTypes
<1>5. available' = available /\ alive' = alive
  BY <1>2 DEF hwVars
<1>6. \A t \in Sensors : pwrail_pending_state'[t] = "INIT"
                           => pwrail_pending_state[t] = "INIT"
  <2>1. CASE settled'
    BY <1>2, <2>1 DEF new_instance
  <2>2. CASE ~settled'
    <3>1. start_power_rail_timer(s, "SET_CLIENT_REQ")
      BY <1>2, <2>2 DEF new_instance
    <3>. QED
      BY <1>1, <3>1 DEF start_power_rail_timer, TimerTypes
  <2>. QED
    BY <2>1, <2>2
<1>7. /\ BootDone'
      /\ \A t \in Sensors : available'[t] => pwrail_pending_state'[t] # "INIT"
  BY <1>1, <1>3, <1>5, <1>6 DEF BootDone, AfterBoot
<1>8. PICK created \in CreateOutcomes, garbage \in SUBSET Sensors :
        /\ instance' = created
        /\ IF created
           THEN AddRequest(s, entries, instance_init(FlagsCopied(garbage)),
                           is_config)
           ELSE published' = {} /\ UNCHANGED <<istate, requests>>
  BY DEF FirstRequest
<1>9. created \in BOOLEAN
  BY <1>8 DEF CreateOutcomes
<1>10. CASE created
  <2>. DEFINE i == instance_init(FlagsCopied(garbage))
  <2>1. InstanceFits(i) /\ \A t \in Configurable : RateApplied(i, t, 0)
    BY NewInstanceFits
  <2>2. \A t \in Sensors : chosen_rate(t, requests[t]) = 0
    <3>1. ASSUME NEW t \in Sensors PROVE chosen_rate(t, requests[t]) = 0
      <4>1. requests[t] = {}
        BY <1>1, <1>2 DEF AfterBoot
      <4>2. ConfigsIn(requests[t]) = {}
        BY <4>1 DEF ConfigsIn
      <4>. QED
        BY <1>1, <4>2, ChosenRate DEF RequestsHeld
    <3>. QED
      BY <3>1
  <2>3. AddRequest(s, entries, i, is_config)
    BY <1>8, <1>10
  <2>. HIDE DEF i
  <2>4. \A t \in Configurable : RateApplied(i, t, chosen_rate(t, requests[t]))
    BY <2>1, <2>2 DEF Configurable
  <2>5. RequestsHeld' /\ InstanceFits(istate)' /\ RatesApplied(istate)'
    BY <1>1, <1>3, <1>4, <1>5, <2>1, <2>3, <2>4, AddKeeps
  <2>6. AfterBoot'
    BY <1>3, <1>4, <1>5, <1>7, <1>8, <1>10 DEF AfterBoot
  <2>. QED
    BY <1>8, <1>9, <1>10, <2>5, <2>6 DEF ClientInv, InstanceFits
<1>11. CASE ~created
  <2>1. ~instance' /\ UNCHANGED <<istate, requests>>
    BY <1>8, <1>11
  <2>2. RequestsHeld' /\ InstanceSound(istate)'
    BY <2>1 DEF ClientInv, RequestsHeld, Entries, InstanceSound, InstanceStates,
                PollingSound, FifoSound, Configurable, Fifo
  <2>3. AfterBoot'
    BY <1>1, <1>2, <1>7, <2>1 DEF AfterBoot
  <2>. QED
    BY <1>8, <1>9, <2>1, <2>2, <2>3 DEF ClientInv
<1>. QED
  BY <1>9, <1>10, <1>11

(* A later request that is put into the list.                               *)
LEMMA NextRequestKeeps ==
  ASSUME BootInv, ClientInv, NEW s \in Sensors,
         NEW entries \in SUBSET Entries, IsFiniteSet(entries),
         NEW is_config \in BOOLEAN,
         ~is_config => ConfigsIn(entries) = ConfigsIn(requests[s]),
         NextRequest(s, entries, is_config)
  PROVE  ClientInv'
<1>1. /\ Serves(s) /\ instance /\ instance' = instance
      /\ AddRequest(s, entries, istate, is_config)
      /\ UNCHANGED <<alive, available, pwrail_pending_state, votes, rail_vote>>
  BY DEF NextRequest, bootVars, hwVars, timerVars, railVars
<1>2. /\ available[s] /\ RequestsHeld /\ AfterBoot /\ InstanceFits(istate)
      /\ RatesApplied(istate)
  BY <1>1 DEF Serves, ClientInv
<1>3. rail_vote' # "OFF"
  BY <1>1, <1>2 DEF AfterBoot
<1>4. \A t \in Configurable :
        pwrail_pending_state'[t] = "NONE" =>
          RateApplied(istate, t, chosen_rate(t, requests[t]))
  BY <1>1, <1>2 DEF RatesApplied
<1>5. RequestsHeld' /\ InstanceFits(istate)' /\ RatesApplied(istate)'
  BY <1>1, <1>2, <1>3, <1>4, AddKeeps
<1>6. AfterBoot'
  BY <1>1, <1>2 DEF AfterBoot, BootDone
<1>. QED
  BY <1>1, <1>5, <1>6 DEF ClientInv, InstanceFits

(* A request that is withdrawn: the rest is applied at once.                *)
LEMMA RemoveKeeps ==
  ASSUME BootInv, ClientInv, NEW s \in Sensors, NEW c \in Clients,
         RemoveRequest(s, c)
  PROVE  ClientInv'
<1>. DEFINE entries == requests[s] \ exist_request(s, c)
<1>1. /\ Serves(s) /\ instance /\ instance' = instance
      /\ requests' = [requests EXCEPT ![s] = entries]
      /\ reval_instance_config(istate, s, requests'[s])
      /\ UNCHANGED <<alive, available, pwrail_pending_state, votes, rail_vote>>
  BY DEF RemoveRequest, bootVars, hwVars, timerVars, railVars
<1>2. /\ available[s] /\ RequestsHeld /\ AfterBoot /\ InstanceFits(istate)
      /\ RatesApplied(istate)
  BY <1>1 DEF Serves, ClientInv
<1>3. entries \in SUBSET Entries /\ IsFiniteSet(entries)
  BY <1>2, ListsStayLists
<1>. HIDE DEF entries
<1>4. /\ requests'[s] = entries
      /\ \A t \in Sensors \ {s} : requests'[t] = requests[t]
  BY <1>1, <1>2 DEF RequestsHeld
<1>5. RequestsHeld'
  BY <1>1, <1>2, <1>3 DEF RequestsHeld, Entries
<1>6. /\ InstanceFits(istate)'
      /\ s \in Configurable => RateApplied(istate', s, chosen_rate(s, entries))
      /\ \A t \in Configurable \ {s}, r \in Nat :
           RateApplied(istate, t, r) => RateApplied(istate', t, r)
  BY <1>1, <1>2, <1>3, <1>4, ApplySound
<1>7. \A t \in Sensors : chosen_rate(t, requests[t]) \in Nat
  BY <1>2, ChosenRate DEF RequestsHeld
<1>8. ASSUME NEW t \in Configurable, pwrail_pending_state'[t] = "NONE"
      PROVE  RateApplied(istate', t, chosen_rate(t, requests'[t]))
  <2>1. CASE t = s
    BY <1>4, <1>6, <2>1
  <2>2. CASE t # s
    <3>1. t \in Sensors /\ pwrail_pending_state[t] = "NONE"
      BY <1>1, <1>8 DEF Configurable
    <3>2. RateApplied(istate, t, chosen_rate(t, requests[t]))
      BY <1>2, <3>1 DEF RatesApplied
    <3>. QED
      BY <1>4, <1>6, <1>7, <2>2, <3>1, <3>2
  <2>. QED
    BY <2>1, <2>2
<1>9. RatesApplied(istate)'
  BY <1>8 DEF RatesApplied, RateApplied, chosen_rate, Configurable, ConfigsIn
<1>10. AfterBoot'
  BY <1>1, <1>2 DEF AfterBoot, BootDone
<1>. QED
  BY <1>1, <1>5, <1>6, <1>9, <1>10 DEF ClientInv, InstanceFits

(* What leaves the sensors, the list and the instance alone: a flush, an    *)
(* event of the instance, the rail that settles.                            *)
LEMMA OthersKeepClientInv ==
  ASSUME ClientInv,
         UNCHANGED <<alive, available, pwrail_pending_state, votes, rail_vote,
                     requests, instance, istate>>
  PROVE  ClientInv'
BY DEF ClientInv, RequestsHeld, Entries, AfterBoot, BootDone, InstanceFits,
       InstanceSound, InstanceStates, PollingSound, FifoSound, Configurable,
       Fifo, RatesApplied, RateApplied, chosen_rate, ConfigsIn

(* A client request of any kind.                                            *)
LEMMA RequestKeepsClientInv ==
  ASSUME BootInv, ClientInv, NEW s \in Sensors, NEW c \in Clients,
         set_client_request(s, c)
  PROVE  ClientInv'
<1>1. RequestsHeld /\ requests[s] \in SUBSET Entries /\ IsFiniteSet(requests[s])
  BY DEF ClientInv, RequestsHeld
<1>2. ASSUME NEW rate \in WishedRates, ConfigRequest(s, c, rate)
      PROVE  ClientInv'
  <2>. DEFINE entries == (requests[s] \ exist_request(s, c)) \cup {Config(c, rate)}
  <2>1. entries \in SUBSET Entries /\ IsFiniteSet(entries)
    BY <1>1, ListsStayLists
  <2>2. FirstRequest(s, entries, TRUE) \/ NextRequest(s, entries, TRUE)
    BY <1>2 DEF ConfigRequest
  <2>. HIDE DEF entries
  <2>. QED
    BY <2>1, <2>2, FirstRequestKeeps, NextRequestKeeps
<1>3. ASSUME UnknownRequest(s, c) PROVE ClientInv'
  <2>. DEFINE entries == requests[s] \cup {Unknown(c)}
  <2>1. /\ entries \in SUBSET Entries /\ IsFiniteSet(entries)
        /\ ConfigsIn(entries) = ConfigsIn(requests[s])
    BY <1>1, ListsStayLists
  <2>2. FirstRequest(s, entries, FALSE) \/ NextRequest(s, entries, FALSE)
    BY <1>3 DEF UnknownRequest
  <2>. HIDE DEF entries
  <2>. QED
    BY <2>1, <2>2, FirstRequestKeeps, NextRequestKeeps
<1>4. ASSUME CalResetRequest(s) PROVE ClientInv'
  BY <1>1, <1>4, FirstRequestKeeps DEF CalResetRequest
<1>5. ASSUME FlushRequest(s, c) PROVE ClientInv'
  BY <1>5, OthersKeepClientInv
     DEF FlushRequest, bootVars, hwVars, timerVars, railVars
<1>. QED
  BY <1>2, <1>3, <1>4, <1>5, RemoveKeeps DEF set_client_request

-----------------------------------------------------------------------------
(* Both starts of the client phase establish the invariant.                 *)
LEMMA InstanceInitSound == InstanceInit => ~instance /\ InstanceSound(istate)
<1>. SUFFICES ASSUME InstanceInit PROVE ~instance /\ InstanceSound(istate)
  OBVIOUS
<1>1. /\ ~instance
      /\ istate \in InstanceStates
      /\ istate.sensor_enabled = {} /\ istate.fifo_enabled = {}
      /\ \A t \in Sensors : /\ istate.sample_intvl[t] = 0
                            /\ istate.sample_intvl_req[t] = 0
                            /\ ~istate.timer_is_active[t]
  BY DEF InstanceInit, instance_init, InstanceStates
<1>. QED
  BY <1>1 DEF InstanceSound, PollingSound, FifoSound, Configurable

LEMMA NoRequestsHeld ==
  requests = [s \in Sensors |-> {}] =>
    RequestsHeld /\ \A t \in Sensors : requests[t] = {}
BY FS_EmptySet DEF RequestsHeld

LEMMA InitClientInv == Init /\ ~StaggeredBoot => ClientInv
<1>. SUFFICES ASSUME Init, ~StaggeredBoot PROVE ClientInv
  OBVIOUS
<1>1. ~instance /\ InstanceSound(istate)
  BY InstanceInitSound DEF Init
<1>2. RequestsHeld /\ \A t \in Sensors : requests[t] = {}
  BY NoRequestsHeld DEF Init
<1>3. AfterBoot
  BY <1>1, <1>2 DEF Init, AfterBoot
<1>4. instance \in BOOLEAN
  BY DEF Init, InstanceInit
<1>. QED
  BY <1>1, <1>2, <1>3, <1>4 DEF ClientInv

LEMMA BootedBootInv == Booted => BootInv
<1>. SUFFICES ASSUME Booted PROVE BootInv
  OBVIOUS
<1>. DEFINE groups == {Group(p) : p \in UNION {RequestsOf(s) : s \in Sensors}}
<1>1. "PLATFORM_CONFIG" \in received /\ "PLACEMENT" \in received
  <2>1. "ACC" \in Sensors
    BY SensorsAssumption
  <2>2. /\ <<"ACC", 2>> \in RequestsOf("ACC") /\ Group(<<"ACC", 2>>) = "PLATFORM_CONFIG"
        /\ <<"ACC", 3>> \in RequestsOf("ACC") /\ Group(<<"ACC", 3>>) = "PLACEMENT"
    BY DEF RequestsOf, Group, Requests
  <2>3. "PLATFORM_CONFIG" \in groups /\ "PLACEMENT" \in groups
    BY <2>1, <2>2
  <2>. QED
    BY <2>3 DEF Booted, SharedGroups
<1>2. LookupTypes /\ HwTypes /\ TimerTypes /\ RailTypes
  <2>1. received \subseteq SharedGroups
    BY DEF Booted
  <2>. QED
    BY <2>1 DEF Booted, LookupTypes, HwTypes, TimerTypes, RailTypes,
                PendingStates, RailStates
<1>3. RepliesInOrder
  BY SensorsAssumption DEF Booted, RepliesInOrder, Suids, SuidOrder
<1>4. DummyByteKnown /\ PortClosedAfterDetection
  BY DEF Booted, DummyByteKnown, PortClosedAfterDetection
<1>5. DetectionSound
  BY <1>1 DEF Booted, DetectionSound
<1>. QED
  BY <1>2, <1>3, <1>4, <1>5 DEF BootInv

LEMMA BootedClientInv == Booted => ClientInv
<1>. SUFFICES ASSUME Booted PROVE ClientInv
  OBVIOUS
<1>1. ~instance /\ InstanceSound(istate)
  BY InstanceInitSound DEF Booted
<1>2. RequestsHeld /\ \A t \in Sensors : requests[t] = {}
  BY NoRequestsHeld DEF Booted
<1>3. AfterBoot
  BY <1>1, <1>2 DEF Booted, AfterBoot, BootDone
<1>4. instance \in BOOLEAN
  BY DEF Booted, InstanceInit
<1>. QED
  BY <1>1, <1>2, <1>3, <1>4 DEF ClientInv

(* Every step preserves it.                                                 *)
LEMMA StepClientInv ==
  BootInv /\ BootInv' /\ ClientInv /\ [Next]_vars => ClientInv'
<1>. SUFFICES ASSUME BootInv, BootInv', ClientInv, [Next]_vars
              PROVE  ClientInv'
  OBVIOUS
<1>1. ASSUME NEW s \in Sensors, notify_event(s) PROVE ClientInv'
  BY <1>1, IdleNotifyKeeps, StreamingNotifyKeeps
<1>2. ASSUME NEW s \in Sensors, NEW c \in Clients, set_client_request(s, c)
      PROVE  ClientInv'
  BY <1>2, RequestKeepsClientInv
<1>3. CASE RailSettles
  BY <1>3, OthersKeepClientInv DEF RailSettles, bootVars, hwVars, timerVars
<1>4. CASE InstanceEvent
  BY <1>4, OthersKeepClientInv
     DEF InstanceEvent, InstanceNotify, process_timer_event, handle_irq,
         bootVars, hwVars, timerVars, railVars
<1>5. CASE UNCHANGED vars
  BY <1>5, OthersKeepClientInv
     DEF vars, instVars, bootVars, hwVars, timerVars, railVars
<1>. QED
  BY <1>1, <1>2, <1>3, <1>4, <1>5 DEF Next

-----------------------------------------------------------------------------
(* The behaviours the theorems are about: those that start with every       *)
(* sensor available, and those that start with the boot, with any of its    *)
(* faults, if clients wait for the last sensor.  Without that wait the      *)
(* detection of a late sensor votes the shared rail off under the instance. *)
ClientsServed == ClientSpec \/ (Spec /\ ~StaggeredBoot)

(* The instance fits its sensors and their requests at all times.           *)
THEOREM ClientInvariant == ClientsServed => [](BootInv /\ ClientInv)
<1>1. Booted \/ (Init /\ ~StaggeredBoot) => BootInv /\ ClientInv
  BY InitBootInv, InitClientInv, BootedBootInv, BootedClientInv
<1>2. BootInv /\ ClientInv /\ [Next]_vars => (BootInv /\ ClientInv)'
  BY StepBootInv, StepClientInv
<1>. QED
  BY <1>1, <1>2, PTL DEF ClientsServed, ClientSpec, Spec

(* The chip runs at the rate merged from the requests of the moment: no     *)
(* order of requests, replacements, refusals and withdrawals of any number  *)
(* of clients leaves a stale rate behind (demo_reval_instance_config).      *)
THEOREM ConfigAlwaysApplied == ClientsServed => []ConfigApplied
<1>1. ClientInv => ConfigApplied
  BY DEF ClientInv, RatesApplied, RateApplied, ConfigApplied
<1>. QED
  BY <1>1, ClientInvariant, PTL

(* A polled sensor's timer runs exactly while one of its present clients    *)
(* wants it, with the interval of one of them                               *)
(* (demo_set_sensor_polling_config).                                        *)
THEOREM PollingAlwaysFollows == ClientsServed => []PollingFollowsRequests
<1>1. BootInv /\ ClientInv => PollingFollowsRequests
  <2>. SUFFICES ASSUME BootInv, ClientInv, NEW t \in Enabled \cap Configurable,
                       ~istate.is_dri[t]
                PROVE  /\ istate.timer_is_active[t] <=> istate.sample_intvl_req[t] > 0
                       /\ istate.timer_is_active[t] =>
                            /\ istate.poll_stream[t]
                            /\ istate.sample_intvl[t] = istate.sample_intvl_req[t]
                            /\ pwrail_pending_state[t] = "NONE" =>
                                 \E e \in ConfigsIn(requests[t]) :
                                   e.sample = istate.sample_intvl[t]
    BY DEF PollingFollowsRequests
  <2>1. instance /\ t \in Sensors /\ RequestsHeld /\ RatesApplied(istate)
    BY DEF Enabled, ClientInv, Configurable
  <2>2. /\ istate.sample_intvl[t] = istate.sample_intvl_req[t]
        /\ istate.timer_is_active[t] <=> istate.sample_intvl[t] > 0
        /\ istate.timer_is_active[t] => istate.poll_stream[t]
    BY DEF ClientInv, InstanceSound, PollingSound
  <2>3. ASSUME pwrail_pending_state[t] = "NONE", istate.timer_is_active[t]
        PROVE  \E e \in ConfigsIn(requests[t]) : e.sample = istate.sample_intvl[t]
    <3>1. istate.sample_intvl_req[t] = chosen_rate(t, requests[t])
      BY <2>1, <2>3 DEF RatesApplied, RateApplied
    <3>2. chosen_rate(t, requests[t]) > 0
      BY <2>2, <2>3, <3>1
    <3>. QED
      BY <2>1, <2>2, <3>1, <3>2, ChosenRate DEF RequestsHeld
  <2>. QED
    BY <2>2, <2>3
<1>. QED
  BY <1>1, ClientInvariant, PTL

(* The FIFO never fills without the interrupt that drains it, although one  *)
(* goes by the instance's copy of the registry flag and the other by the    *)
(* flag of the sensor: the copy is never stale.                             *)
THEOREM InterruptAlwaysDrains == ClientsServed => []InterruptDrainsFifo
<1>1. BootInv /\ ClientInv => InterruptDrainsFifo
  <2>. SUFFICES ASSUME BootInv, ClientInv PROVE InterruptDrainsFifo
    OBVIOUS
  <2>1. ASSUME instance, NEW t \in Sensors, available[t]
        PROVE  istate.is_dri[t] = is_dri_now(t)
    BY <2>1, FlagIsRead DEF ClientInv, InstanceFits
  <2>2. CachedFlagFresh
    <3>1. instance => \A t \in Sensors : alive[t] => available[t]
      BY DEF ClientInv, AfterBoot, BootDone
    <3>. QED
      BY <2>1, <3>1 DEF CachedFlagFresh
  <2>3. FifoSound(istate)
    BY DEF ClientInv, InstanceSound
  <2>4. ASSUME NEW t \in Enabled \cap Fifo, is_dri_now(t)
        PROVE  istate.irq_registered /\ t \in istate.fifo_enabled
    <3>1. instance /\ t \in istate.sensor_enabled \cap Fifo /\ t \in Sensors
      BY DEF Enabled, Fifo
    <3>2. istate.is_dri[t]
      BY <2>1, <2>4, <3>1 DEF ClientInv, InstanceFits
    <3>. QED
      BY <2>3, <3>1, <3>2 DEF FifoSound
  <2>. QED
    BY <2>2, <2>3, <2>4 DEF InterruptDrainsFifo, FifoSound
<1>. QED
  BY <1>1, ClientInvariant, PTL

(* The rail stays on under a streaming instance, by the vote of the         *)
=============================================================================
