----------------------------- MODULE NcsiPackage -----------------------------
(***************************************************************************)
(* The NC-SI package of source/net/ncsi/ncsi.c: its channels, the package   *)
(* selection and the channel that passes the controller's traffic.  The     *)
(* static variables of the file are the fields of the record nc.  A handler *)
(* is an operator on that record with the name it has in the source; it     *)
(* also fills in nc.rsp, the response.  Calls to the network hardware are   *)
(* commented out in the source and absent here.                             *)
(***************************************************************************)
EXTENDS Integers, FiniteSets

CONSTANTS
  PortNum,      \* g_sys.cfg.port_num, which ncsi_init is given too
  Modes,        \* the 32-bit modes of the commands that have one
  Speeds        \* the speeds of a link

ASSUME PortsAssumption == PortNum \in 1 .. 15
ASSUME ModesAssumption == Modes \subseteq Nat

Ports == 0 .. PortNum - 1

READY == "READY"
ENABLE == "ENABLE"
TX_ENABLE == "TX_ENABLE"
StatusBits == {READY, ENABLE, TX_ENABLE}

NoChannel == 255         \* 0xFF in gs_ncsi_current_chn
UnknownStatus == 255     \* 0xFF in gs_ncsi_pkg_status
AllChannels == 31        \* channel id 0x1F
NCSI_VLAN_TAG_NUM == 1
NCSI_PKG_ID == 0

(***************************************************************************)
(* Commands.  arg is the mode, the VLAN index, or unused.                  *)
(***************************************************************************)
PlainCommands ==
  {"clear_initial_state", "select_package", "deselect_package", "enable_channel",
   "disable_channel", "reset_channel", "enable_network_tx", "disable_network_tx",
   "get_link_status", "disable_vlan", "set_mac_address", "disable_broadcast_filter",
   "disable_global_multicast_filter", "set_flow_control", "get_version_id",
   "get_capabilities", "get_parameters", "get_controller_statistics",
   "get_ncsi_statistics", "get_ncsi_pass_through", "oem_get_sn", "oem_power_events",
   "unsupported_cmd"}

ModeCommands ==
  {"enable_aen", "set_link", "enable_broadcast_filter", "enable_global_multicast_filter"}

\* The mode, and the VLAN index, of these have 8 bits.
ByteCommands == {"enable_vlan", "set_vlan_filter"}

\* What the package generator sends: channel 0, and fixed modes.
ncsi_cmd_gen ==
  [cmd : PlainCommands \ {"oem_get_sn", "oem_power_events"}, pkg : {0}, chn : {0}, arg : {0}]
    \cup [cmd : ModeCommands \cup ByteCommands, pkg : {0}, chn : {0}, arg : {0}]

\* What a controller may send: 3 bits of package, 5 bits of channel.
AllRequests ==
  [cmd : PlainCommands, pkg : 0 .. 7, chn : 0 .. AllChannels, arg : {0}]
    \cup [cmd : ModeCommands, pkg : 0 .. 7, chn : 0 .. AllChannels, arg : Modes]
    \cup [cmd : ByteCommands, pkg : 0 .. 7, chn : 0 .. AllChannels, arg : Modes \cap (0 .. 255)]
    \cup ncsi_cmd_gen

(***************************************************************************)
(* State.                                                                  *)
(***************************************************************************)
Chan == [channel_status : SUBSET StatusBits, aen_ctrl : 0 .. 255, link_mode : Nat,
         vlan_mode : {0, 1}, brdc_mode : 0 .. 255, mulc_mode : 0 .. 255]

LinkSts == [up : BOOLEAN, speed : Speeds]

ncsi_init_dev ==
  [channel_status |-> {}, aen_ctrl |-> 0, link_mode |-> 0, vlan_mode |-> 0,
   brdc_mode |-> 0, mulc_mode |-> 0]

NoResponse == [kind |-> "none"]

\* All channels are ready from the start; the links are as they come.
ncsi_init(links) ==
  [pkg |-> UnknownStatus, current |-> NoChannel, port_bak |-> 0, rsp |-> NoResponse,
   link |-> links,
   chan |-> [c \in Ports |-> [ncsi_init_dev EXCEPT !.channel_status = {READY}]]]

(***************************************************************************)
(* Helpers of the handlers.                                                *)
(***************************************************************************)

\* The first port whose link is up; without one, the port after the last choice.
ncsi_get_valid_port(s) ==
  LET up == {p \in Ports : s.link[p].up} IN
    IF up # {} THEN CHOOSE p \in up : \A q \in up : p <= q
    ELSE (s.port_bak + 1) % PortNum

\* The status bits; READY is an assignment and takes the others away.
ncsi_check_chn(s, c, pos, flag) ==
  [s EXCEPT !.chan[c].channel_status =
     IF pos = READY THEN IF flag THEN {READY} ELSE {}
     ELSE IF flag THEN @ \cup {pos} ELSE @ \ {pos}]

\* The reason every response starts with.
ncsi_init_resp(s, c) ==
  IF READY \in s.chan[c].channel_status THEN "NO_ERROR" ELSE "INTERFACE_INIT_REQUIRED"

Respond(s, reason) ==
  [s EXCEPT !.rsp = [kind |-> "done", code |-> "COMMAND_COMPLETED", reason |-> reason]]

Done(s, c) == Respond(s, ncsi_init_resp(s, c))

\* Speeds the switch does not know are reported as 10BASE-T.
ncsi_lan_status(sts) ==
  [up |-> sts.up, autoneg_done |-> sts.up,
   speed |-> CASE sts.speed = "100" -> 5 [] sts.speed = "1G" -> 7 [] OTHER -> 2]

(***************************************************************************)
(* Handlers: the package in state s, the channel c, the argument.          *)
(***************************************************************************)
clear_initial_state(s, c) ==
  LET t == ncsi_check_chn(s, c, READY, TRUE) IN Done(t, c)

select_package(s, c) == Done([s EXCEPT !.pkg = 1], c)

deselect_package(s, c) == Done([s EXCEPT !.pkg = 0], c)

\* A link that is down changes the reason, not the effect.
OrNotReady(s, c) ==
  Respond(s, IF s.link[c].up THEN ncsi_init_resp(s, c) ELSE "CHANNEL_NOT_READY")

enable_channel(s, c) == OrNotReady(ncsi_check_chn(s, c, ENABLE, TRUE), c)

disable_channel(s, c) == Done(ncsi_check_chn(s, c, ENABLE, FALSE), c)

reset_channel_status_only(s, c) == Done([s EXCEPT !.chan[c].channel_status = {}], c)

reset_channel(s, c) == Done([s EXCEPT !.chan[c] = ncsi_init_dev], c)

enable_network_tx(s, c) ==
  OrNotReady([ncsi_check_chn(s, c, TX_ENABLE, TRUE) EXCEPT !.current = c], c)

disable_network_tx_refused(s, c) ==
  IF s.current # c THEN Respond(s, "PARAMETER_IS_INVALID")
  ELSE Done([ncsi_check_chn(s, c, TX_ENABLE, FALSE) EXCEPT !.current = NoChannel], c)

disable_network_tx_stays_current(s, c) == Done(ncsi_check_chn(s, c, TX_ENABLE, FALSE), c)

disable_network_tx(s, c) ==
  Done([ncsi_check_chn(s, c, TX_ENABLE, FALSE) EXCEPT
          !.current = IF @ = c THEN NoChannel ELSE @], c)

\* The modes have 32 bits in the command; link_mode has as many, the others 8.
enable_aen(s, c, mode) == Done([s EXCEPT !.chan[c].aen_ctrl = mode % 256], c)

set_link(s, c, mode) == Done([s EXCEPT !.chan[c].link_mode = mode], c)

get_link_status(s, c) ==
  [Done(s, c) EXCEPT !.rsp =
     [kind |-> "status", code |-> @.code, reason |-> @.reason,
      status |-> ncsi_lan_status(s.link[c])]]

set_vlan_filter(s, c, index) ==
  Respond(s, IF index \in 1 .. NCSI_VLAN_TAG_NUM THEN ncsi_init_resp(s, c)
             ELSE "PARAMETER_IS_INVALID")

enable_vlan(s, c, mode) ==
  IF mode # 1 THEN Respond(s, "PARAMETER_IS_INVALID")
  ELSE Done([s EXCEPT !.chan[c].vlan_mode = 1], c)

disable_vlan(s, c) == Done([s EXCEPT !.chan[c].vlan_mode = 0], c)

set_mac_address(s, c) == Done(s, c)

enable_broadcast_filter(s, c, mode) == Done([s EXCEPT !.chan[c].brdc_mode = mode % 256], c)

disable_broadcast_filter(s, c) == Done([s EXCEPT !.chan[c].brdc_mode = 0], c)

\* The multicast mode is kept although the command is said to be unsupported.
enable_global_multicast_filter(s, c, mode) ==
  Respond([s EXCEPT !.chan[c].mulc_mode = mode % 256], "COMMAND_UNSUPPORTED")

disable_global_multicast_filter(s, c) ==
  Respond([s EXCEPT !.chan[c].mulc_mode = 0], "COMMAND_UNSUPPORTED")

set_flow_control(s, c) == Respond(s, "COMMAND_UNSUPPORTED")

get_version_id(s, c) == Done(s, c)

get_capabilities(s, c) ==
  [Done(s, c) EXCEPT !.rsp =
     [kind |-> "capabilities", code |-> @.code, reason |-> @.reason,
      flow_control |-> TRUE, aen_cap |-> 3, vlan_mode |-> 1, channel_cnt |-> PortNum]]

\* Always without an error.
get_parameters(s, c) ==
  [s EXCEPT !.rsp =
     [kind |-> "parameters", code |-> "COMMAND_COMPLETED", reason |-> "NO_ERROR",
      valid_modes |-> s.chan[c].channel_status \ {READY}, bc_mode |-> s.chan[c].brdc_mode,
      vlan_mode |-> s.chan[c].vlan_mode, link_mode |-> s.chan[c].link_mode,
      aen_mode |-> s.chan[c].aen_ctrl]]

get_controller_statistics(s, c) ==
  [s EXCEPT !.rsp = [kind |-> "done", code |-> "COMMAND_FAILED", reason |-> "COMMAND_UNSUPPORTED"]]

get_ncsi_statistics(s, c) == Respond(s, "COMMAND_UNSUPPORTED")

get_ncsi_pass_through(s, c) == Respond(s, "COMMAND_UNSUPPORTED")

oem_get_sn(s, c) == Done(s, c)

oem_power_events(s, c) == Done(s, c)

unsupported_cmd(s, c) == Respond(s, "COMMAND_UNSUPPORTED")

ncsi_org_cmd_table(s, c, req) ==
  CASE req.cmd = "clear_initial_state" -> clear_initial_state(s, c)
    [] req.cmd = "select_package" -> select_package(s, c)
    [] req.cmd = "deselect_package" -> deselect_package(s, c)
    [] req.cmd = "enable_channel" -> enable_channel(s, c)
    [] req.cmd = "disable_channel" -> disable_channel(s, c)
    [] req.cmd = "reset_channel" -> reset_channel(s, c)
    [] req.cmd = "enable_network_tx" -> enable_network_tx(s, c)
    [] req.cmd = "disable_network_tx" -> disable_network_tx(s, c)
    [] req.cmd = "enable_aen" -> enable_aen(s, c, req.arg)
    [] req.cmd = "set_link" -> set_link(s, c, req.arg)
    [] req.cmd = "get_link_status" -> get_link_status(s, c)
    [] req.cmd = "set_vlan_filter" -> set_vlan_filter(s, c, req.arg)
    [] req.cmd = "enable_vlan" -> enable_vlan(s, c, req.arg)
    [] req.cmd = "disable_vlan" -> disable_vlan(s, c)
    [] req.cmd = "set_mac_address" -> set_mac_address(s, c)
    [] req.cmd = "enable_broadcast_filter" -> enable_broadcast_filter(s, c, req.arg)
    [] req.cmd = "disable_broadcast_filter" -> disable_broadcast_filter(s, c)
    [] req.cmd = "enable_global_multicast_filter" ->
         enable_global_multicast_filter(s, c, req.arg)
    [] req.cmd = "disable_global_multicast_filter" -> disable_global_multicast_filter(s, c)
    [] req.cmd = "set_flow_control" -> set_flow_control(s, c)
    [] req.cmd = "get_version_id" -> get_version_id(s, c)
    [] req.cmd = "get_capabilities" -> get_capabilities(s, c)
    [] req.cmd = "get_parameters" -> get_parameters(s, c)
    [] req.cmd = "get_controller_statistics" -> get_controller_statistics(s, c)
    [] req.cmd = "get_ncsi_statistics" -> get_ncsi_statistics(s, c)
    [] req.cmd = "get_ncsi_pass_through" -> get_ncsi_pass_through(s, c)
    [] req.cmd = "oem_get_sn" -> oem_get_sn(s, c)
    [] req.cmd = "oem_power_events" -> oem_power_events(s, c)
    [] OTHER -> unsupported_cmd(s, c)

\* The channel a request is for, after channel id 0x1F has been replaced.
Addressed(s, req) == IF req.chn = AllChannels THEN ncsi_get_valid_port(s) ELSE req.chn

\* The message a change of the link makes; no handler looks at the AEN control.
ncsi_set_lan_status(s, c) == [kind |-> "link", channel |-> c, status |-> ncsi_lan_status(s.link[c])]

\* A request.  Another package, or a channel that is not there, gets no response.
ncsi_rx2(s, req) ==
  LET c == Addressed(s, req)
      t == [s EXCEPT !.port_bak = IF req.chn = AllChannels THEN c ELSE @]
  IN  IF c >= PortNum \/ req.pkg # NCSI_PKG_ID THEN [t EXCEPT !.rsp = NoResponse]
      ELSE ncsi_org_cmd_table(t, c, req)
=============================================================================
