---------------------------- MODULE NcsiController ----------------------------
(***************************************************************************)
(* A management controller that configures the package of NcsiPackage.  It  *)
(* sends any command to any channel, channel id 0x1F included; responses    *)
(* and link change messages may be lost.  It remembers one setting of one   *)
(* channel, any of them: what it last learnt of it from a report, or from    *)
(* the response to a command that sets it.                                  *)
(***************************************************************************)
EXTENDS NcsiPackage

CONSTANTS
  Requests,     \* the requests of the controller
  Watched,      \* the settings it may remember
  Links,        \* what the statuses of the links may be
  MaxModes      \* bound: so many modes differ from their initial value

ASSUME RequestsAssumption == Requests \subseteq AllRequests
ASSUME LinksAssumption == Links \subseteq [Ports -> LinkSts]
ASSUME WatchedAssumption ==
  Watched \subseteq [chn : Ports,
    field : {"ENABLE", "TX_ENABLE", "aen_mode", "link_mode", "vlan_mode", "bc_mode", "link"}]

VARIABLES
  nc,       \* the package
  watch,    \* the setting the controller remembers
  known     \* its value as a set: empty when the controller does not know

vars == <<nc, watch, known>>

ControllerInit ==
  /\ \E links \in Links : nc = ncsi_init(links)
  /\ watch \in Watched
  /\ known = {}

(***************************************************************************)
(* The controller's knowledge.                                             *)
(***************************************************************************)

\* What the package reports of a setting.
Reported(s, w) ==
  CASE w.field = "link" -> ncsi_lan_status(s.link[w.chn]).up
    [] w.field \in {ENABLE, TX_ENABLE} -> w.field \in get_parameters(s, w.chn).rsp.valid_modes
    [] OTHER -> get_parameters(s, w.chn).rsp[w.field]

Reports(req) ==
  req.chn = watch.chn /\ req.pkg = NCSI_PKG_ID /\
  req.cmd = IF watch.field = "link" THEN "get_link_status" ELSE "get_parameters"

\* The command that gives a setting the value of its argument.
Setter == [aen_mode |-> "enable_aen", link_mode |-> "set_link",
           vlan_mode |-> "enable_vlan", bc_mode |-> "enable_broadcast_filter"]

Sets(req) ==
  LET f == watch.field IN
  CASE f = "link" -> {}
    [] f = ENABLE -> CASE req.cmd = "enable_channel" -> {TRUE}
                       [] req.cmd \in {"disable_channel", "clear_initial_state",
                                       "reset_channel"} -> {FALSE}
                       [] OTHER -> {}
    [] f = TX_ENABLE -> CASE req.cmd = "enable_network_tx" -> {TRUE}
                          [] req.cmd \in {"disable_network_tx", "clear_initial_state",
                                          "reset_channel"} -> {FALSE}
                          [] OTHER -> {}
    [] OTHER -> CASE req.cmd = Setter[f] -> {req.arg}
                  [] req.cmd = "reset_channel" -> {0}
                  [] f = "vlan_mode" /\ req.cmd = "disable_vlan" -> {0}
                  [] f = "bc_mode" /\ req.cmd = "disable_broadcast_filter" -> {0}
                  [] OTHER -> {}

\* A response that leaves no doubt that the command was carried out.  Reset says
\* that the channel must be initialised, in every response.  Of a mode beyond 8
\* bits only link_mode keeps all.
Accepted(req, rsp) ==
  /\ rsp.reason = "NO_ERROR" \/ req.cmd = "reset_channel"
  /\ req.arg < 256 \/ watch.field = "link_mode"

\* What the controller knows when it has sent req and got rsp, or nothing.
Learnt(req, rsp) ==
  IF rsp.kind # "none" /\ Reports(req) THEN
    {IF watch.field = "link" THEN rsp.status.up
     ELSE IF watch.field \in {ENABLE, TX_ENABLE} THEN watch.field \in rsp.valid_modes
     ELSE rsp[watch.field]}
  ELSE IF Sets(req) = {} \/ req.pkg # NCSI_PKG_ID \/ req.chn \notin {watch.chn, AllChannels} THEN known
  ELSE IF rsp.kind = "none" \/ req.chn = AllChannels THEN {}
  ELSE IF rsp.reason = "PARAMETER_IS_INVALID" THEN known
  ELSE IF Accepted(req, rsp) THEN Sets(req) ELSE {}

(***************************************************************************)
(* Actions.                                                                *)
(***************************************************************************)
UsedModes(s) ==
  Cardinality({c \in Ports : s.chan[c].aen_ctrl # 0}) + Cardinality({c \in Ports : s.chan[c].link_mode # 0})
  + Cardinality({c \in Ports : s.chan[c].vlan_mode # 0}) + Cardinality({c \in Ports : s.chan[c].brdc_mode # 0})
  + Cardinality({c \in Ports : s.chan[c].mulc_mode # 0})

\* A command, whose response arrives or gets lost.
Command(req, arrives) ==
  LET t == ncsi_rx2(nc, req) IN
    /\ UsedModes(t) <= MaxModes
    /\ nc' = [t EXCEPT !.rsp = NoResponse]
    /\ known' = Learnt(req, IF arrives THEN t.rsp ELSE NoResponse)
    /\ UNCHANGED watch

\* The LAN task sees another status of a link and tells the controller.
LinkChanges(links, c, arrives) ==
  LET t == [nc EXCEPT !.link = links] IN
    /\ links # nc.link /\ \A p \in Ports \ {c} : links[p] = nc.link[p]
    /\ nc' = t
    /\ known' = IF watch # [chn |-> c, field |-> "link"] THEN known
                ELSE IF arrives THEN {ncsi_set_lan_status(t, c).status.up} ELSE {}
    /\ UNCHANGED watch

ControllerNext ==
  \E arrives \in BOOLEAN :
    \/ \E req \in Requests : Command(req, arrives)
    \/ \E links \in Links, c \in Ports : LinkChanges(links, c, arrives)

ControllerSpec == ControllerInit /\ [][ControllerNext]_vars

(***************************************************************************)
(* Properties.                                                             *)
(***************************************************************************)

\* Package and controller keep their types.
NcsiTypeOK ==
  /\ nc \in [pkg : {0, 1, UnknownStatus}, current : Ports \cup {NoChannel},
             port_bak : Ports, rsp : {NoResponse}, link : [Ports -> LinkSts],
             chan : [Ports -> Chan]]
  /\ watch \in Watched

\* What the controller has learnt of a setting is what the package reports now:
\* no command to another channel, of another setting, refused, repeated or without
\* a response changes it behind the controller's back.
KnownIsReported == known \subseteq {Reported(nc, watch)}

\* A controller that repeats a command because its response got lost is told the
\* same, and changes nothing more.  Channel id 0x1F is excluded while no link is
\* up: each such command goes to another port.
RepeatIsHarmless ==
  \A req \in Requests :
    req.chn # AllChannels \/ (\E p \in Ports : nc.link[p].up) =>
      LET once == ncsi_rx2(nc, req) IN ncsi_rx2(once, req) = once

Transmits(s, c) == TX_ENABLE \in s.chan[c].channel_status

\* The channel that carries the controller's traffic is one that may transmit,
\* until its status is taken away as a whole (a reset, or a new initial state,
\* neither of which looks at gs_ncsi_current_chn); and while some channel may
\* transmit there is a current one, unless two of them could and the later one
\* was disabled.
CurrentTransmits ==
  [][LET c == nc'.current IN
       IF c # NoChannel
       THEN Transmits(nc', c) \/ (nc.current = c /\ ~Transmits(nc, c))
                              \/ nc'.chan[c].channel_status \subseteq {READY}
       ELSE \A p \in Ports : Transmits(nc', p) =>
              Transmits(nc, p) /\ nc.current # p]_nc
=============================================================================
