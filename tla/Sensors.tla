------------------------------ MODULE Sensors ------------------------------
(***************************************************************************)
(* The sensors of the ports (src/source/net/pldm/pdr.c, pldm_monitor.c)    *)
(* with everyone who moves them: the link of the port, the controller that *)
(* enables and disables them, the temperature monitor, and the receiver of *)
(* events that wants none for a while.  The records of the sensors are in  *)
(* PdrRepo: here a record is there, or the pool was used up when it was to *)
(* be made.  How an event gets to the receiver is in PldmEvents: here an   *)
(* event is what a step tells.                                             *)
(*                                                                         *)
(* Left out: the sensors of the board, whose states nothing changes but    *)
(* one; entity_type, which an enable overwrites; previous_op_state, which  *)
(* only the events of a class that no sensor has would tell.               *)
(***************************************************************************)
EXTENDS Integers, FiniteSets

CONSTANTS
  MAX_LAN_NUM,
  Readings,        \* temperatures of a module
  Limits,          \* thresholds: warning_high, critical_high, fatal_high
  ModuleLimits,    \* those that the module has
  Made,            \* which numeric sensors may have got a record at the start
  Fields,          \* what a controller may ask of a sensor: op_state, event_msg_en
  MaxRequests      \* bound: requests of the controller

Ports == 0 .. MAX_LAN_NUM - 1

PLDM_OP_ENABLE == 0
PLDM_OP_UNAVAILABLE == 2
PLDM_OP_IN_TEST == 7
PLDM_EVENT_DIS_EN == 1
PLDM_EVENT_EN == 2
PLDM_EVENT_STATE_EN_ONLY == 4

\* A sensor is a kind, a port and, in a composite sensor, its place.
Numeric(port) == {<<kind, port, 0>> : kind \in {"temp", "speed", "power"}}
Plug(port) == {<<"plug", port, i>> : i \in 0 .. 2}
Link(port) == {<<"link", port, 0>>}
CONFIG == <<"board", 0, 2>>
Board == {<<"board", 0, i>> : i \in 0 .. 3}
AllNumeric == UNION {Numeric(port) : port \in Ports}
AllState == Board \cup UNION {Plug(port) \cup Link(port) : port \in Ports}
Temp(port) == <<"temp", port, 0>>

UNKNOWN == 0
NORMAL == 1
CONFIG_CHG == 2
TEMP_UPPER_WARNING == 8
TEMP_UPPER_CRITICAL == 9
TEMP_UPPER_FATAL == 10

\* What the state sensors of a port show: PRESENCE is the number of the state
\* set, 13, where IS_PRESENCE is meant; DISCONNECTED and NOT_PRESENCE are 2.
UpState(s) == IF s[1] = "link" THEN 1 ELSE IF s[3] = 1 THEN 13 ELSE NORMAL
DownState(s) == IF s[1] = "link" \/ s[3] = 1 THEN 2 ELSE UNKNOWN

ASSUME SensorsAssumption ==
  /\ MAX_LAN_NUM \in 1 .. 4 /\ MaxRequests \in Nat
  /\ Readings \subseteq 0 .. 255 /\ ModuleLimits \in Limits /\ Made \subseteq SUBSET AllNumeric
  /\ Limits \subseteq [warning_high : 0 .. 255, critical_high : 0 .. 255, fatal_high : 0 .. 255]
  /\ Fields \subseteq [op_state : 0 .. PLDM_OP_IN_TEST, event_msg_en : 0 .. PLDM_EVENT_STATE_EN_ONLY]

VARIABLES
  sensors,       \* numeric_sensors, plug_composite_state_sensors, simple_sensors
  link,          \* the links that are up
  made,          \* numeric sensors that got a record before the pool was used up
  monitored,     \* ports whose temp_sensor_monitor has an address
  reading, thermal_pdr,  \* per port: present_reading, and the thresholds in the record
  terminus_mode, \* events are wanted
  requests,
  events,        \* what the last step told: sensor, previous and present state
  told,          \* the last state that was told of a sensor
  withheld,      \* sensors that changed since, untold
  missed         \* state sensors that were not enabled when the link changed

vars == <<sensors, link, made, monitored, reading, thermal_pdr, terminus_mode,
          requests, events, told, withheld, missed>>

(***************************************************************************)
(* Events.                                                                 *)
(***************************************************************************)
\* pldm_sensor_event_generate, as a bug would have it, asks for the states that
\* may be told instead of the one that forbids it.
MayTell_enabled(s) == sensors[s].event_msg_en = PLDM_EVENT_EN

\* pldm_sensor_event_generate
MayTell(s) == terminus_mode /\ sensors[s].event_msg_en # PLDM_EVENT_DIS_EN

\* The events of a step, of the sensors that the code generates one for.
Tell(generated) ==
  LET sent == {s \in generated : MayTell(s)}
      changed == {s \in DOMAIN sensors : sensors'[s].present_state # sensors[s].present_state}
      hidden == {s \in DOMAIN sensors :
                   \/ ~terminus_mode
                   \/ sensors[s].event_msg_en = PLDM_EVENT_DIS_EN
                   \/ s \in AllNumeric \ made}
  IN  /\ events' = {[sensor |-> s, previous |-> sensors'[s].previous_state,
                     present |-> sensors'[s].present_state] : s \in sent}
      /\ told' = [s \in DOMAIN told |-> IF s \in sent THEN sensors'[s].present_state ELSE told[s]]
      /\ withheld' = (withheld \ sent) \cup ((changed \ sent) \cap hidden)

\* As a bug would have it: the state is overwritten before it is remembered.
Moved_late(s, op_state, present) ==
  [op_state |-> op_state, event_msg_en |-> sensors[s].event_msg_en,
   present_state |-> present, previous_state |-> present]

Moved(s, op_state, present) ==
  [op_state |-> op_state, event_msg_en |-> sensors[s].event_msg_en,
   present_state |-> present, previous_state |-> sensors[s].present_state]

(***************************************************************************)
(* The link.                                                               *)
(***************************************************************************)
\* pldm_modify_state_datastruct leaves a sensor alone that is not enabled.
pldm_modify_state_datastruct(s, present) ==
  IF sensors[s].op_state = PLDM_OP_ENABLE THEN Moved(s, PLDM_OP_ENABLE, present) ELSE sensors[s]

\* pldm_add_numeric_pdr and pldm_delete_numeric_pdr
MovedNumeric(s, up) ==
  IF up THEN Moved(s, PLDM_OP_ENABLE, NORMAL) ELSE Moved(s, PLDM_OP_UNAVAILABLE, UNKNOWN)

\* As a bug would have it: the numeric sensors of a link that goes down stay
\* with the monitor.
Unmonitored_not(port) == monitored

\* pldm_delete_numeric_sensor_pdr: only a record that is deleted ends the monitoring.
Unmonitored(port) == IF Temp(port) \in made THEN monitored \ {port} ELSE monitored

\* pldm_link_handle.  Of the numeric sensors without a record those in `room'
\* get the data of one, which is lost again; they are told and monitored.  When the
\* link goes down nothing is told of a sensor without a record.
pldm_link_handle(port, up, room) ==
  LET numeric == Numeric(port)
      shown == Plug(port) \cup Link(port)
      Present(s) == IF s = CONFIG THEN CONFIG_CHG ELSE IF up THEN UpState(s) ELSE DownState(s)
      modified == {s \in shown \cup {CONFIG} :
                     /\ sensors[s].op_state = PLDM_OP_ENABLE
                     /\ sensors[s].present_state # Present(s)}
  IN  /\ (port \in link) # up
      /\ up \/ room = {}
      /\ link' = IF up THEN link \cup {port} ELSE link \ {port}
      /\ sensors' = [s \in DOMAIN sensors |->
                       CASE s \in numeric -> MovedNumeric(s, up)
                         [] s \in shown \cup {CONFIG} -> pldm_modify_state_datastruct(s, Present(s))
                         [] OTHER -> sensors[s]]
      /\ monitored' = IF ~up THEN Unmonitored(port)
                      ELSE IF Temp(port) \in made \cup room THEN monitored \cup {port}
                      ELSE monitored
      /\ thermal_pdr' = IF up /\ Temp(port) \in made \cup room
                        THEN [thermal_pdr EXCEPT ![port] = ModuleLimits] ELSE thermal_pdr
      /\ missed' = {s \in missed \cup shown : s \in shown => sensors[s].op_state # PLDM_OP_ENABLE}
      /\ Tell(modified \cup (numeric \cap (made \cup room)))
  /\ UNCHANGED <<made, reading, terminus_mode, requests>>

(***************************************************************************)
(* The temperature monitor and the module it looks at.                     *)
(***************************************************************************)
Judged(present_reading, limits) ==
  CASE present_reading < limits.warning_high -> NORMAL
    [] limits.warning_high <= present_reading /\ present_reading < limits.critical_high ->
         TEMP_UPPER_WARNING
    [] present_reading >= limits.warning_high /\ present_reading >= limits.critical_high
         /\ present_reading < limits.fatal_high -> TEMP_UPPER_CRITICAL
    [] OTHER -> TEMP_UPPER_FATAL

pldm_temp_monitor_handle ==
  LET State(port) == Judged(reading[port], thermal_pdr[port])
      moved == {Temp(port) : port \in
                  {p \in monitored : sensors[Temp(p)].present_state # State(p)}}
  IN  /\ sensors' = [s \in DOMAIN sensors |->
                       IF s \in moved THEN Moved(s, sensors[s].op_state, State(s[2])) ELSE sensors[s]]
      /\ Tell(moved)
  /\ UNCHANGED <<link, made, monitored, reading, thermal_pdr, terminus_mode, requests, missed>>

Quiet == events' = {} /\ UNCHANGED <<told, withheld>>

\* pldm_module_info_update
Heat(port, t) ==
  /\ reading' = [reading EXCEPT ![port] = t]
  /\ Quiet
  /\ UNCHANGED <<sensors, link, made, monitored, thermal_pdr, terminus_mode, requests, missed>>

(***************************************************************************)
(* The controller.                                                         *)
(***************************************************************************)
Asked == requests < MaxRequests /\ requests' = requests + 1 /\ Quiet

SetBy(set, f) ==
  sensors' = [s \in DOMAIN sensors |->
                IF s \in set
                THEN [op_state |-> f.op_state, event_msg_en |-> f.event_msg_en,
                      present_state |-> sensors[s].present_state,
                      previous_state |-> sensors[s].previous_state]
                ELSE sensors[s]]

\* A power sensor cannot be set.  No sensor is of the class PLDM_SENSOR_OP_STATE,
\* so a change of op_state makes no event.
pldm_monitor_set_numeric_sensor_enable(s, f) ==
  /\ s[1] \in {"temp", "speed"}
  /\ Asked
  /\ SetBy({s}, f)
  /\ UNCHANGED <<link, made, monitored, reading, thermal_pdr, terminus_mode, missed>>

\* A composite sensor is set as a whole, or, with a count that is too small, its
\* first part alone.
pldm_monitor_set_state_sensor_en(composite, whole, f) ==
  /\ Asked
  /\ SetBy({s \in composite : whole \/ s[3] = 0}, f)
  /\ UNCHANGED <<link, made, monitored, reading, thermal_pdr, terminus_mode, missed>>

\* The thresholds are those of a record that is found in the repository.
pldm_monitor_set_sensor_thresholds(port, limits) ==
  /\ port \in link /\ Temp(port) \in made
  /\ Asked
  /\ thermal_pdr' = [thermal_pdr EXCEPT ![port] = limits]
  /\ UNCHANGED <<sensors, link, made, monitored, reading, terminus_mode, missed>>

pldm_monitor_set_event_receiver(wanted) ==
  /\ terminus_mode' = wanted
  /\ Asked
  /\ UNCHANGED <<sensors, link, made, monitored, reading, thermal_pdr, missed>>

(***************************************************************************)
(* The whole.  Every link is up when pldm_monitor_init is done, and that   *)
(* was told.                                                               *)
(***************************************************************************)
Sensor(s) ==
  [op_state |-> PLDM_OP_ENABLE,
   event_msg_en |-> IF s \in AllNumeric THEN PLDM_EVENT_EN ELSE PLDM_EVENT_STATE_EN_ONLY,
   present_state |-> CASE s \in AllNumeric \cup (Board \ {CONFIG}) -> NORMAL
                       [] s = CONFIG -> CONFIG_CHG
                       [] OTHER -> UpState(s),
   previous_state |-> CASE s \in AllNumeric -> UNKNOWN
                        [] s \in Board -> NORMAL
                        [] OTHER -> DownState(s)]

Init ==
  /\ sensors = [s \in AllNumeric \cup AllState |-> Sensor(s)]
  /\ link = Ports
  /\ made \in Made
  /\ monitored \in {{port \in Ports : Temp(port) \in made \cup room} : room \in SUBSET AllNumeric}
  /\ reading = [port \in Ports |-> 0]
  /\ thermal_pdr = [port \in Ports |-> ModuleLimits]
  /\ terminus_mode = TRUE
  /\ requests = 0
  /\ events = {}
  /\ told = [s \in DOMAIN sensors |-> sensors[s].present_state]
  /\ withheld = AllNumeric \ made
  /\ missed = {}

Next ==
  \/ \E port \in Ports :
       \/ \E up \in BOOLEAN, room \in SUBSET (Numeric(port) \ made) : pldm_link_handle(port, up, room)
       \/ \E t \in Readings : Heat(port, t)
       \/ \E limits \in Limits : pldm_monitor_set_sensor_thresholds(port, limits)
  \/ pldm_temp_monitor_handle
  \/ \E f \in Fields :
       \/ \E s \in AllNumeric : pldm_monitor_set_numeric_sensor_enable(s, f)
       \/ \E composite \in {Board} \cup {Plug(port) : port \in Ports} \cup {Link(port) : port \in Ports},
            whole \in BOOLEAN : pldm_monitor_set_state_sensor_en(composite, whole, f)
  \/ \E wanted \in BOOLEAN : pldm_monitor_set_event_receiver(wanted)

Spec == Init /\ [][Next]_vars

(***************************************************************************)
(* Properties.                                                             *)
(***************************************************************************)
\* Who follows the events knows the state of every sensor, whoever moved it -
\* but for changes that were made while events were not wanted, of the sensor
\* or at all, or without a record.
EventsTellStates ==
  \A s \in DOMAIN sensors \ withheld : told[s] = sensors[s].present_state

\* The events of a sensor make a chain: each says as the previous state what the
\* one before it said as the present one.
EventsAreAChain ==
  [][\A e \in events' : e.sensor \notin withheld => e.previous = told[e.sensor]]_vars

\* The sensors of a port show its link: the state sensors unless they were not
\* enabled when it changed, and the numeric ones, of which the monitor has
\* nothing to say while the link is down, unless their record was never made.
LinkIsShown ==
  \A port \in Ports :
    /\ \A s \in (Plug(port) \cup Link(port)) \ missed :
         sensors[s].present_state = IF port \in link THEN UpState(s) ELSE DownState(s)
    /\ port \notin link =>
         \A s \in Numeric(port) \cap made : sensors[s].present_state = UNKNOWN
=============================================================================
