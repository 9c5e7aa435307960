---------------------------- MODULE SensorsProofs ----------------------------
(***************************************************************************)
(* Proofs about the sensors, for one to four ports, any readings and       *)
(* thresholds, and any number of requests.  Two things make the properties *)
(* inductive: the monitor has no port that is down, unless the record of   *)
(* its sensor was never made; and every change of a state is one that the  *)
(* code generates an event for, unless none was wanted.                    *)
(***************************************************************************)
EXTENDS Sensors, TLAPS

All == AllNumeric \cup AllState
Shown(port) == Plug(port) \cup Link(port)

SensorsTypeOK ==
  /\ sensors \in [All -> [op_state : Int, event_msg_en : Int, present_state : Int, previous_state : Int]]
  /\ told \in [All -> Int]
  /\ link \subseteq Ports /\ monitored \subseteq Ports /\ made \subseteq AllNumeric

MonitoredIsUp == \A port \in monitored : port \in link \/ Temp(port) \notin made

SensorsInv == SensorsTypeOK /\ MonitoredIsUp /\ LinkIsShown /\ EventsTellStates

\* The sensors of two ports, and those of two kinds, are different ones.
LEMMA Kinds ==
  /\ \A port \in Ports : \A s \in Numeric(port) : s[1] \in {"temp", "speed", "power"} /\ s[2] = port
  /\ \A port \in Ports : \A s \in Shown(port) : s[1] \in {"plug", "link"} /\ s[2] = port
  /\ \A s \in Board : s[1] = "board"
  /\ CONFIG \in Board
  /\ \A s \in AllNumeric : s[1] \in {"temp", "speed", "power"}
<1>1. /\ \A port \in Ports : \A s \in Numeric(port) : s[1] \in {"temp", "speed", "power"} /\ s[2] = port
      /\ \A s \in Board : s[1] = "board"
  BY DEF Numeric, Board
<1>2. \A port \in Ports : \A s \in Shown(port) : s[1] \in {"plug", "link"} /\ s[2] = port
  BY DEF Shown, Plug, Link
<1>3. CONFIG \in Board
  BY DEF CONFIG, Board
<1> QED BY <1>1, <1>2, <1>3 DEF AllNumeric

LEMMA Places ==
  /\ \A port \in Ports : /\ Numeric(port) \subseteq AllNumeric /\ Shown(port) \subseteq All
                        /\ Temp(port) \in Numeric(port)
  /\ Board \subseteq All /\ CONFIG \in All /\ AllNumeric \subseteq All
<1>1. \A port \in Ports : Temp(port) \in Numeric(port)
  BY DEF Temp, Numeric
<1> QED BY <1>1, Kinds DEF All, AllNumeric, AllState, Shown

(***************************************************************************)
(* Telling.  What a step changes is told if the code generates an event    *)
(* for it; Hidden is what the receiver cannot expect.                      *)
(***************************************************************************)
Hidden == {s \in DOMAIN sensors : \/ ~terminus_mode
                                 \/ sensors[s].event_msg_en = PLDM_EVENT_DIS_EN
                                 \/ s \in AllNumeric \ made}

LEMMA TellKeeps ==
  ASSUME SensorsTypeOK, SensorsTypeOK', EventsTellStates, NEW G, Tell(G), G \subseteq All,
         \A s \in All : sensors'[s].present_state # sensors[s].present_state => s \in G \cup Hidden,
         \A s \in G : s \in Hidden \/ MayTell(s)
  PROVE  EventsTellStates'
<1> DEFINE sent == {s \in G : MayTell(s)}
           changed == {s \in DOMAIN sensors : sensors'[s].present_state # sensors[s].present_state}
<1>1. DOMAIN sensors = All /\ DOMAIN sensors' = All /\ DOMAIN told = All
  BY DEF SensorsTypeOK
<1>2. /\ told' = [s \in DOMAIN told |-> IF s \in sent THEN sensors'[s].present_state ELSE told[s]]
      /\ withheld' = (withheld \ sent) \cup ((changed \ sent) \cap Hidden)
  BY DEF Tell, Hidden
<1>3. SUFFICES ASSUME NEW s \in All, s \notin withheld'
               PROVE told'[s] = sensors'[s].present_state
  BY <1>1 DEF EventsTellStates
<1>4. CASE s \in sent
  BY <1>1, <1>2, <1>4
<1>5. CASE s \notin sent
  <2>1. s \notin withheld
    BY <1>2, <1>3, <1>5
  <2>2. sensors'[s].present_state = sensors[s].present_state
    BY <1>1, <1>2, <1>3, <1>5
  <2> QED BY <1>1, <1>2, <1>5, <2>1, <2>2 DEF EventsTellStates
<1> QED BY <1>4, <1>5

LEMMA HiddenOrTold ==
  ASSUME SensorsTypeOK, NEW s \in All
  PROVE  s \in Hidden \/ MayTell(s)
  BY DEF SensorsTypeOK, Hidden, MayTell

\* Steps that only ask or heat.
LEMMA QuietKeeps ==
  ASSUME SensorsTypeOK, EventsTellStates, Quiet, SensorsTypeOK',
         \A s \in All : sensors'[s].present_state = sensors[s].present_state
  PROVE  EventsTellStates'
<1>1. DOMAIN sensors = All /\ DOMAIN sensors' = All
  BY DEF SensorsTypeOK
<1> QED BY <1>1 DEF EventsTellStates, Quiet

(***************************************************************************)
(* The link.                                                               *)
(***************************************************************************)
LEMMA LinkStates ==
  ASSUME SensorsTypeOK, NEW port \in Ports, NEW up \in BOOLEAN, NEW room \in SUBSET AllNumeric,
         pldm_link_handle(port, up, room)
  PROVE  /\ \A s \in Numeric(port) : sensors'[s] = MovedNumeric(s, up)
         /\ \A s \in Shown(port) :
              sensors'[s] = pldm_modify_state_datastruct(s, IF up THEN UpState(s) ELSE DownState(s))
         /\ sensors'[CONFIG] = pldm_modify_state_datastruct(CONFIG, CONFIG_CHG)
         /\ \A s \in All \ (Numeric(port) \cup Shown(port) \cup {CONFIG}) : sensors'[s] = sensors[s]
         /\ DOMAIN sensors' = All
<1>1. DOMAIN sensors = All
  BY DEF SensorsTypeOK
<1>2. sensors' = [s \in All |->
        CASE s \in Numeric(port) -> MovedNumeric(s, up)
          [] s \in Shown(port) \cup {CONFIG} ->
               pldm_modify_state_datastruct(s, IF s = CONFIG THEN CONFIG_CHG
                                               ELSE IF up THEN UpState(s) ELSE DownState(s))
          [] OTHER -> sensors[s]]
  BY <1>1 DEF pldm_link_handle, Shown
<1>3. \A s \in Shown(port) \cup {CONFIG} : s \notin Numeric(port)
  BY Kinds
<1>4. CONFIG \notin Shown(port)
  BY Kinds
<1> QED BY <1>2, <1>3, <1>4, Places

LEMMA LinkTypes ==
  ASSUME SensorsTypeOK, NEW port \in Ports, NEW up \in BOOLEAN, NEW room \in SUBSET AllNumeric,
         pldm_link_handle(port, up, room)
  PROVE  SensorsTypeOK'
<1>1. \A s \in All : sensors[s] \in
        [op_state : Int, event_msg_en : Int, present_state : Int, previous_state : Int]
  BY DEF SensorsTypeOK
<1>2. \A s : UpState(s) \in Int /\ DownState(s) \in Int
  BY DEF UpState, DownState, NORMAL, UNKNOWN
<1>3. ASSUME NEW s \in All
      PROVE sensors'[s] \in [op_state : Int, event_msg_en : Int, present_state : Int, previous_state : Int]
  <2>1. \A x \in Int : /\ pldm_modify_state_datastruct(s, x) \in
                            [op_state : Int, event_msg_en : Int, present_state : Int, previous_state : Int]
                       /\ Moved(s, PLDM_OP_ENABLE, x) \in
                            [op_state : Int, event_msg_en : Int, present_state : Int, previous_state : Int]
                       /\ Moved(s, PLDM_OP_UNAVAILABLE, x) \in
                            [op_state : Int, event_msg_en : Int, present_state : Int, previous_state : Int]
    BY <1>1 DEF pldm_modify_state_datastruct, Moved, PLDM_OP_ENABLE, PLDM_OP_UNAVAILABLE
  <2>2. CASE s \in Numeric(port)
    BY <2>1, <2>2, LinkStates DEF MovedNumeric, NORMAL, UNKNOWN
  <2>3. CASE s \in Shown(port)
    BY <1>2, <2>1, <2>3, LinkStates
  <2>4. CASE s = CONFIG
    BY <2>1, <2>4, LinkStates DEF CONFIG_CHG
  <2>5. CASE s \notin Numeric(port) \cup Shown(port) \cup {CONFIG}
    BY <1>1, <2>5, LinkStates
  <2> QED BY <2>2, <2>3, <2>4, <2>5
<1>4. sensors' \in [All -> [op_state : Int, event_msg_en : Int, present_state : Int, previous_state : Int]]
  <2>1. sensors' = [s \in All |-> sensors'[s]]
    BY DEF pldm_link_handle, SensorsTypeOK
  <2> QED BY <1>3, <2>1
<1>5. told' \in [All -> Int]
  <2>1. PICK G : Tell(G)
    BY DEF pldm_link_handle
  <2> QED BY <1>3, <2>1 DEF Tell, SensorsTypeOK
<1>6. /\ link' \subseteq Ports /\ monitored' \subseteq Ports /\ made' \subseteq AllNumeric
  BY DEF pldm_link_handle, SensorsTypeOK, Unmonitored
<1> QED BY <1>4, <1>5, <1>6 DEF SensorsTypeOK

LEMMA LinkIsTold ==
  ASSUME SensorsTypeOK, EventsTellStates, NEW port \in Ports, NEW up \in BOOLEAN,
         NEW room \in SUBSET AllNumeric, pldm_link_handle(port, up, room)
  PROVE  EventsTellStates'
<1> DEFINE Present(s) == IF s = CONFIG THEN CONFIG_CHG ELSE IF up THEN UpState(s) ELSE DownState(s)
           modified == {s \in Shown(port) \cup {CONFIG} :
                          /\ sensors[s].op_state = PLDM_OP_ENABLE
                          /\ sensors[s].present_state # Present(s)}
           G == modified \cup (Numeric(port) \cap (made \cup room))
<1>1. Tell(G)
  BY DEF pldm_link_handle, Shown
<1>2. G \subseteq All
  BY Places
<1>3. SensorsTypeOK'
  BY LinkTypes
<1>4. ASSUME NEW s \in All, sensors'[s].present_state # sensors[s].present_state
      PROVE s \in G \cup Hidden
  <2>1. CASE s \in Numeric(port)
    BY <2>1, Places DEF Hidden, SensorsTypeOK
  <2>2. CASE s \in Shown(port)
    <3>1. sensors'[s] = pldm_modify_state_datastruct(s, Present(s))
      BY <2>2, LinkStates, Kinds
    <3> QED BY <1>4, <2>2, <3>1 DEF pldm_modify_state_datastruct, Moved
  <2>3. CASE s = CONFIG
    BY <1>4, <2>3, LinkStates DEF pldm_modify_state_datastruct, Moved
  <2>4. CASE s \notin Numeric(port) \cup Shown(port) \cup {CONFIG}
    BY <1>4, <2>4, LinkStates
  <2> QED BY <2>1, <2>2, <2>3, <2>4
<1> QED BY <1>1, <1>2, <1>3, <1>4, TellKeeps, HiddenOrTold

LEMMA LinkShows ==
  ASSUME SensorsTypeOK, MonitoredIsUp, LinkIsShown, NEW port \in Ports, NEW up \in BOOLEAN,
         NEW room \in SUBSET AllNumeric, pldm_link_handle(port, up, room)
  PROVE  MonitoredIsUp' /\ LinkIsShown'
<1>1. /\ made' = made
      /\ link' = IF up THEN link \cup {port} ELSE link \ {port}
      /\ missed' = {s \in missed \cup Shown(port) :
                      s \in Shown(port) => sensors[s].op_state # PLDM_OP_ENABLE}
      /\ monitored' = IF ~up THEN Unmonitored(port)
                      ELSE IF Temp(port) \in made \cup room THEN monitored \cup {port} ELSE monitored
  BY DEF pldm_link_handle, Shown
<1>2. MonitoredIsUp'
  <2>1. \A p \in Ports : Temp(p) = Temp(port) => p = port
    BY DEF Temp
  <2> QED BY <1>1 DEF MonitoredIsUp, Unmonitored, SensorsTypeOK, Temp
<1>3. ASSUME NEW p \in Ports, NEW s \in Shown(p), s \notin missed'
      PROVE sensors'[s].present_state = IF p \in link' THEN UpState(s) ELSE DownState(s)
  <2>1. CASE p = port
    <3>1. sensors[s].op_state = PLDM_OP_ENABLE
      BY <1>1, <1>3, <2>1
    <3>2. sensors'[s] = Moved(s, PLDM_OP_ENABLE, IF up THEN UpState(s) ELSE DownState(s))
      BY <1>3, <2>1, <3>1, LinkStates DEF pldm_modify_state_datastruct
    <3>3. sensors'[s].present_state = IF up THEN UpState(s) ELSE DownState(s)
      BY <3>2 DEF Moved
    <3>4. p \in link' <=> up
      BY <1>1, <2>1
    <3> QED BY <3>3, <3>4
  <2>2. CASE p # port
    <3>1. s \notin Numeric(port) \cup Shown(port) \cup {CONFIG}
      BY <1>3, <2>2, Kinds
    <3>2. sensors'[s] = sensors[s]
      BY <1>3, <3>1, LinkStates, Places
    <3>3. s \notin missed
      BY <1>1, <1>3, <3>1
    <3> QED BY <1>1, <1>3, <2>2, <3>2, <3>3 DEF LinkIsShown, Shown
  <2> QED BY <2>1, <2>2
<1>4. ASSUME NEW p \in Ports, p \notin link', NEW s \in Numeric(p) \cap made
      PROVE sensors'[s].present_state = UNKNOWN
  <2>1. CASE p = port
    <3>1. ~up
      BY <1>1, <1>4, <2>1
    <3>2. s \in Numeric(port)
      BY <1>4, <2>1
    <3>3. sensors'[s] = Moved(s, PLDM_OP_UNAVAILABLE, UNKNOWN)
      BY <3>1, <3>2, LinkStates DEF MovedNumeric
    <3> QED BY <3>3 DEF Moved
  <2>2. CASE p # port
    <3>1. s \notin Numeric(port) \cup Shown(port) \cup {CONFIG}
      BY <1>4, <2>2, Kinds
    <3>2. sensors'[s] = sensors[s]
      BY <1>4, <3>1, LinkStates, Places
    <3> QED BY <1>1, <1>4, <2>2, <3>2 DEF LinkIsShown
  <2> QED BY <2>1, <2>2
<1> QED BY <1>1, <1>2, <1>3, <1>4 DEF LinkIsShown, Shown

(***************************************************************************)
(* The monitor.                                                            *)
(***************************************************************************)
LEMMA MonitorStates ==
  ASSUME SensorsTypeOK, pldm_temp_monitor_handle
  PROVE  \E moved \in SUBSET All :
           /\ \A s \in moved : /\ s[2] \in monitored /\ s = Temp(s[2])
                              /\ \E x \in Int : sensors'[s] = Moved(s, sensors[s].op_state, x)
           /\ \A s \in All \ moved : sensors'[s] = sensors[s]
           /\ sensors' = [s \in All |-> sensors'[s]]
           /\ Tell(moved)
<1> DEFINE State(port) == Judged(reading[port], thermal_pdr[port])
           moved == {Temp(port) : port \in {p \in monitored : sensors[Temp(p)].present_state # State(p)}}
<1>1. moved \subseteq All
  BY Places DEF SensorsTypeOK
<1>2. \A s \in moved : s[2] \in monitored /\ s = Temp(s[2])
  <2>1. \A port : Temp(port)[2] = port
    BY DEF Temp
  <2> QED BY <2>1
<1>3. DOMAIN sensors = All
  BY DEF SensorsTypeOK
<1>4. sensors' = [s \in All |-> IF s \in moved THEN Moved(s, sensors[s].op_state, State(s[2]))
                                ELSE sensors[s]]
  BY <1>3 DEF pldm_temp_monitor_handle
<1>5. \A p : State(p) \in Int
  BY DEF Judged, NORMAL, TEMP_UPPER_WARNING, TEMP_UPPER_CRITICAL, TEMP_UPPER_FATAL
<1>6. Tell(moved)
  BY DEF pldm_temp_monitor_handle
<1> HIDE DEF moved, State
<1>7. \A s \in moved : \E x \in Int : sensors'[s] = Moved(s, sensors[s].op_state, x)
  BY <1>1, <1>4, <1>5
<1> QED BY <1>1, <1>2, <1>4, <1>6, <1>7

LEMMA MonitorKeeps ==
  ASSUME SensorsInv, pldm_temp_monitor_handle
  PROVE  SensorsInv'
<1>1. SensorsTypeOK /\ MonitoredIsUp /\ LinkIsShown /\ EventsTellStates
  BY DEF SensorsInv
<1>2. PICK moved \in SUBSET All :
           /\ \A s \in moved : /\ s[2] \in monitored /\ s = Temp(s[2])
                              /\ \E x \in Int : sensors'[s] = Moved(s, sensors[s].op_state, x)
           /\ \A s \in All \ moved : sensors'[s] = sensors[s]
           /\ sensors' = [s \in All |-> sensors'[s]]
           /\ Tell(moved)
  BY <1>1, MonitorStates
<1>3. UNCHANGED <<link, made, monitored, missed>>
  BY DEF pldm_temp_monitor_handle
<1>4. SensorsTypeOK'
  <2>1. ASSUME NEW s \in All
        PROVE sensors'[s] \in [op_state : Int, event_msg_en : Int, present_state : Int, previous_state : Int]
    <3>1. sensors[s] \in [op_state : Int, event_msg_en : Int, present_state : Int, previous_state : Int]
      BY <1>1 DEF SensorsTypeOK
    <3>2. CASE s \in moved
      <4>1. PICK x \in Int : sensors'[s] = Moved(s, sensors[s].op_state, x)
        BY <1>2, <3>2
      <4> QED BY <3>1, <4>1 DEF Moved
    <3>3. CASE s \notin moved
      BY <1>2, <3>1, <3>3
    <3> QED BY <3>2, <3>3
  <2>2. sensors' \in [All -> [op_state : Int, event_msg_en : Int, present_state : Int, previous_state : Int]]
    BY <1>2, <2>1
  <2>3. told' \in [All -> Int]
    BY <1>1, <1>2, <2>1 DEF Tell, SensorsTypeOK
  <2> QED BY <1>1, <1>3, <2>2, <2>3 DEF SensorsTypeOK
<1>5. EventsTellStates'
  BY <1>1, <1>2, <1>4, TellKeeps, HiddenOrTold
<1>6. LinkIsShown'
  <2>1. ASSUME NEW p \in Ports, NEW s \in Shown(p) PROVE s \notin moved
    BY <1>1, <1>2, <2>1, Places, Kinds DEF SensorsTypeOK
  <2>2. ASSUME NEW p \in Ports, p \notin link, NEW s \in Numeric(p) \cap made PROVE s \notin moved
    BY <1>1, <1>2, <2>2, Kinds DEF MonitoredIsUp
  <2>3. \A p \in Ports : \A s \in Shown(p) : sensors'[s] = sensors[s]
    BY <1>2, <2>1, Places
  <2>4. \A p \in Ports : p \notin link => \A s \in Numeric(p) \cap made : sensors'[s] = sensors[s]
    BY <1>2, <2>2, Places
  <2> QED BY <1>1, <1>3, <2>3, <2>4 DEF LinkIsShown, Shown
<1>7. MonitoredIsUp'
  BY <1>1, <1>3 DEF MonitoredIsUp
<1> QED BY <1>4, <1>5, <1>6, <1>7 DEF SensorsInv

(***************************************************************************)
(* The module and the controller.                                          *)
(***************************************************************************)
LEMMA SetByKeeps ==
  ASSUME SensorsInv, NEW S, NEW f \in Fields, SetBy(S, f), Quiet,
         UNCHANGED <<link, made, monitored, missed>>
  PROVE  SensorsInv'
<1>1. SensorsTypeOK /\ MonitoredIsUp /\ LinkIsShown /\ EventsTellStates
  BY DEF SensorsInv
<1>2. f.op_state \in Int /\ f.event_msg_en \in Int
  BY SensorsAssumption
<1>3. sensors' = [s \in All |->
        IF s \in S
        THEN [op_state |-> f.op_state, event_msg_en |-> f.event_msg_en,
              present_state |-> sensors[s].present_state, previous_state |-> sensors[s].previous_state]
        ELSE sensors[s]]
  BY <1>1 DEF SetBy, SensorsTypeOK
<1>4. \A s \in All : sensors'[s].present_state = sensors[s].present_state
  BY <1>3
<1>5. SensorsTypeOK'
  <2>1. ASSUME NEW s \in All
        PROVE sensors'[s] \in [op_state : Int, event_msg_en : Int, present_state : Int, previous_state : Int]
    <3>1. sensors[s] \in [op_state : Int, event_msg_en : Int, present_state : Int, previous_state : Int]
      BY <1>1 DEF SensorsTypeOK
    <3> QED BY <1>2, <1>3, <3>1
  <2>2. sensors' \in [All -> [op_state : Int, event_msg_en : Int, present_state : Int, previous_state : Int]]
    BY <1>3, <2>1
  <2> QED BY <1>1, <2>2 DEF SensorsTypeOK, Quiet
<1>6. EventsTellStates'
  BY <1>1, <1>4, <1>5, QuietKeeps
<1>7. LinkIsShown'
  BY <1>1, <1>4, Places DEF LinkIsShown, Shown
<1> QED BY <1>1, <1>5, <1>6, <1>7 DEF SensorsInv, MonitoredIsUp

\* What leaves the sensors alone.
LEMMA SameKeeps ==
  ASSUME SensorsInv, UNCHANGED <<sensors, link, made, monitored, missed, told, withheld>>
  PROVE  SensorsInv'
  BY DEF SensorsInv, SensorsTypeOK, MonitoredIsUp, LinkIsShown, EventsTellStates

LEMMA InitSensors == Init => SensorsInv
<1> SUFFICES ASSUME Init PROVE SensorsInv
  OBVIOUS
<1>1. \A s : Sensor(s) \in [op_state : Int, event_msg_en : Int, present_state : Int, previous_state : Int]
  <2>1. \A s : UpState(s) \in Int /\ DownState(s) \in Int
    BY DEF UpState, DownState, NORMAL, UNKNOWN
  <2> QED BY <2>1 DEF Sensor, NORMAL, UNKNOWN, CONFIG_CHG, PLDM_OP_ENABLE, PLDM_EVENT_EN,
                      PLDM_EVENT_STATE_EN_ONLY
<1>2. sensors = [s \in All |-> Sensor(s)]
  BY DEF Init, All
<1>3. told = [s \in All |-> sensors[s].present_state]
  BY <1>2 DEF Init
<1>4. SensorsTypeOK
  <2>1. monitored \subseteq Ports
    BY DEF Init
  <2>2. made \subseteq AllNumeric
    BY SensorsAssumption DEF Init
  <2> QED BY <1>1, <1>2, <1>3, <2>1, <2>2 DEF Init, SensorsTypeOK
<1>5. MonitoredIsUp
  BY <1>4 DEF Init, MonitoredIsUp, SensorsTypeOK
<1>6. LinkIsShown
  <2>1. ASSUME NEW port \in Ports, NEW s \in Shown(port)
        PROVE sensors[s].present_state = UpState(s)
    <3>1. s \in All /\ s \notin AllNumeric /\ s \notin Board /\ s # CONFIG
      BY <2>1, Kinds, Places
    <3> QED BY <1>2, <3>1 DEF Sensor
  <2> QED BY <2>1 DEF Init, LinkIsShown, Shown
<1>7. EventsTellStates
  BY <1>2, <1>3 DEF EventsTellStates
<1> QED BY <1>4, <1>5, <1>6, <1>7 DEF SensorsInv

LEMMA StepKeeps == SensorsInv /\ [Next]_vars => SensorsInv'
<1> SUFFICES ASSUME SensorsInv, [Next]_vars PROVE SensorsInv'
  OBVIOUS
<1>1. CASE \E port \in Ports, up \in BOOLEAN : \E room \in SUBSET (Numeric(port) \ made) :
             pldm_link_handle(port, up, room)
  <2>1. PICK port \in Ports, up \in BOOLEAN, room \in SUBSET AllNumeric : pldm_link_handle(port, up, room)
    BY <1>1, Places
  <2> QED BY <2>1, LinkTypes, LinkIsTold, LinkShows DEF SensorsInv
<1>2. CASE pldm_temp_monitor_handle
  BY <1>2, MonitorKeeps
<1>3. CASE \E port \in Ports : \/ \E t \in Readings : Heat(port, t)
                              \/ \E limits \in Limits : pldm_monitor_set_sensor_thresholds(port, limits)
  BY <1>3, SameKeeps DEF Heat, pldm_monitor_set_sensor_thresholds, Quiet, Asked
<1>4. CASE \E wanted \in BOOLEAN : pldm_monitor_set_event_receiver(wanted)
  BY <1>4, SameKeeps DEF pldm_monitor_set_event_receiver, Quiet, Asked
<1>5. ASSUME NEW f \in Fields, NEW s, pldm_monitor_set_numeric_sensor_enable(s, f) PROVE SensorsInv'
  BY <1>5, SetByKeeps DEF pldm_monitor_set_numeric_sensor_enable, Asked
<1>6. ASSUME NEW f \in Fields, NEW composite, NEW whole,
             pldm_monitor_set_state_sensor_en(composite, whole, f) PROVE SensorsInv'
  BY <1>6, SetByKeeps DEF pldm_monitor_set_state_sensor_en, Asked
<1>7. CASE UNCHANGED vars
  BY <1>7, SameKeeps DEF vars
<1> QED BY <1>1, <1>2, <1>3, <1>4, <1>5, <1>6, <1>7 DEF Next

(***************************************************************************)
(* The chain: what is sent says what was told last.                        *)
(***************************************************************************)
LEMMA Chained ==
  ASSUME SensorsTypeOK, EventsTellStates, NEW G, Tell(G), G \subseteq All,
         \A s \in G : sensors'[s].previous_state = sensors[s].present_state
  PROVE  \A e \in events' : e.sensor \notin withheld => e.previous = told[e.sensor]
<1>1. \A e \in events' : \E s \in G : e.sensor = s /\ e.previous = sensors'[s].previous_state
  BY DEF Tell
<1> QED BY <1>1 DEF EventsTellStates, SensorsTypeOK

LEMMA LinkIsChained ==
  ASSUME SensorsTypeOK, EventsTellStates, NEW port \in Ports, NEW up \in BOOLEAN,
         NEW room \in SUBSET AllNumeric, pldm_link_handle(port, up, room)
  PROVE  \A e \in events' : e.sensor \notin withheld => e.previous = told[e.sensor]
<1> DEFINE Present(s) == IF s = CONFIG THEN CONFIG_CHG ELSE IF up THEN UpState(s) ELSE DownState(s)
           modified == {s \in Shown(port) \cup {CONFIG} :
                          /\ sensors[s].op_state = PLDM_OP_ENABLE
                          /\ sensors[s].present_state # Present(s)}
           G == modified \cup (Numeric(port) \cap (made \cup room))
<1>1. Tell(G)
  BY DEF pldm_link_handle, Shown
<1>2. G \subseteq All
  BY Places
<1>3. ASSUME NEW s \in G PROVE sensors'[s].previous_state = sensors[s].present_state
  <2>1. CASE s \in Numeric(port)
    <3>1. PICK o, x : sensors'[s] = Moved(s, o, x)
      BY <2>1, LinkStates DEF MovedNumeric
    <3> QED BY <3>1 DEF Moved
  <2>2. CASE s \in modified /\ s \in Shown(port)
    <3>1. \E x : sensors'[s] = Moved(s, PLDM_OP_ENABLE, x)
      BY <2>2, LinkStates DEF pldm_modify_state_datastruct
    <3> QED BY <3>1 DEF Moved
  <2>3. CASE s \in modified /\ s = CONFIG
    BY <2>3, LinkStates DEF pldm_modify_state_datastruct, Moved
  <2> QED BY <1>3, <2>1, <2>2, <2>3
<1> HIDE DEF G
<1> QED BY <1>1, <1>2, <1>3, Chained

LEMMA StepIsChained ==
  SensorsInv /\ [Next]_vars =>
    [\A e \in events' : e.sensor \notin withheld => e.previous = told[e.sensor]]_vars
<1> SUFFICES ASSUME SensorsInv, Next
             PROVE \A e \in events' : e.sensor \notin withheld => e.previous = told[e.sensor]
  OBVIOUS
<1>0. SensorsTypeOK /\ EventsTellStates
  BY DEF SensorsInv
<1>1. CASE \E port \in Ports, up \in BOOLEAN : \E room \in SUBSET (Numeric(port) \ made) :
             pldm_link_handle(port, up, room)
  <2>1. PICK port \in Ports, up \in BOOLEAN, room \in SUBSET AllNumeric : pldm_link_handle(port, up, room)
    BY <1>1, Places
  <2> QED BY <1>0, <2>1, LinkIsChained
<1>2. CASE pldm_temp_monitor_handle
  <2>1. PICK moved \in SUBSET All :
           /\ \A s \in moved : \E x \in Int : sensors'[s] = Moved(s, sensors[s].op_state, x)
           /\ Tell(moved)
    BY <1>0, <1>2, MonitorStates
  <2>2. ASSUME NEW s \in moved PROVE sensors'[s].previous_state = sensors[s].present_state
    <3>1. PICK x \in Int : sensors'[s] = Moved(s, sensors[s].op_state, x)
      BY <2>1
    <3> QED BY <3>1 DEF Moved
  <2> QED BY <1>0, <2>1, <2>2, Chained
<1>3. CASE events' = {}
  BY <1>3
<1> QED BY <1>1, <1>2, <1>3 DEF Next, Heat, pldm_monitor_set_sensor_thresholds,
           pldm_monitor_set_event_receiver, pldm_monitor_set_numeric_sensor_enable,
           pldm_monitor_set_state_sensor_en, Quiet, Asked

(***************************************************************************)
(* The theorems.                                                           *)
(***************************************************************************)
\* Link, monitor and controller, in any order, keep states, events and links together.
THEOREM SensorsInvariant == Spec => []SensorsInv
  BY InitSensors, StepKeeps, PTL DEF Spec

\* What was told last of a sensor is its state, unless a change was withheld.
THEOREM EventsTell == Spec => []EventsTellStates
<1>1. SensorsInv => EventsTellStates
  BY DEF SensorsInv
<1> QED BY <1>1, SensorsInvariant, PTL

\* The sensors of a port show its link.
THEOREM LinksAreShown == Spec => []LinkIsShown
<1>1. SensorsInv => LinkIsShown
  BY DEF SensorsInv
<1> QED BY <1>1, SensorsInvariant, PTL

\* Each event of a sensor begins where the one before it ended.
THEOREM EventsChain == Spec => EventsAreAChain
  BY SensorsInvariant, StepIsChained, PTL DEF Spec, EventsAreAChain
=============================================================================
