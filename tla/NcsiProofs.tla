----------------------------- MODULE NcsiProofs -----------------------------
(***************************************************************************)
(* Proofs about NcsiController, for any number of ports up to 15, any modes *)
(* and any set of requests: what a controller has learnt stays true.        *)
(***************************************************************************)
EXTENDS NcsiController, WellFoundedInduction, TLAPS

\* The package with a response out of R.
Package(R) ==
  [pkg : {0, 1, UnknownStatus}, current : Ports \cup {NoChannel}, port_bak : Ports,
   rsp : R, link : [Ports -> LinkSts], chan : [Ports -> Chan]]

Settings ==
  [chn : Ports,
   field : {"ENABLE", "TX_ENABLE", "aen_mode", "link_mode", "vlan_mode", "bc_mode", "link"}]

\* t is s but for channel c and the response.
SameBut(t, s, c) ==
  /\ t.link = s.link
  /\ \A p \in Ports \ {c} : t.chan[p] = s.chan[p]

(***************************************************************************)
(* Ports and requests.                                                     *)
(***************************************************************************)

LEMMA PortFacts ==
  /\ Ports \subseteq Nat /\ 0 \in Ports /\ NoChannel \notin Ports /\ AllChannels \notin Ports
  /\ \A n \in Nat : n < PortNum => n \in Ports
  /\ \A n \in Ports : n < PortNum
BY PortsAssumption DEF Ports, NoChannel, AllChannels

\* Any ports have a first one.
LEMMA FirstPort ==
  ASSUME NEW S \in SUBSET Ports, S # {}
  PROVE  \E p \in S : \A q \in S : p <= q
<1>1. S \subseteq Nat
  BY PortFacts
<1>2. PICK p \in S : \A q \in S : ~(<<q, p>> \in OpToRel(<, Nat))
  BY <1>1, WFMin, NatLessThanWellFounded
<1>3. \A q \in S : ~(q < p)
  BY <1>1, <1>2 DEF OpToRel
<1> QED BY <1>1, <1>3

\* Channel id 0x1F is replaced by a port.
LEMMA ValidPort ==
  ASSUME NEW R, NEW s \in Package(R)
  PROVE  ncsi_get_valid_port(s) \in Ports
<1> DEFINE up == {p \in Ports : s.link[p].up}
<1>1. CASE up # {}
  <2>1. \E p \in up : \A q \in up : p <= q
    BY <1>1, FirstPort
  <2> QED BY <1>1, <2>1 DEF ncsi_get_valid_port
<1>2. CASE up = {}
  <2>1. s.port_bak \in Nat
    BY PortFacts DEF Package
  <2>2. (s.port_bak + 1) % PortNum \in 0 .. PortNum - 1
    BY <2>1, PortsAssumption
  <2> QED BY <1>2, <2>2 DEF ncsi_get_valid_port, Ports
<1> QED BY <1>1, <1>2

LEMMA RequestFacts ==
  ASSUME NEW req \in AllRequests
  PROVE  /\ req.cmd \in PlainCommands \cup ModeCommands \cup ByteCommands
         /\ req.arg \in Nat /\ req.chn \in 0 .. AllChannels /\ req.pkg \in 0 .. 7
         /\ req.cmd \in ByteCommands => req.arg \in 0 .. 255
<1>1. /\ \A r \in ncsi_cmd_gen : r.cmd \in PlainCommands \cup ModeCommands \cup ByteCommands
         /\ r.arg = 0 /\ r.chn = 0 /\ r.pkg = 0
  BY DEF ncsi_cmd_gen
<1>2. \A m \in Modes : m \in Nat
  BY ModesAssumption
<1>3. CASE req \in ncsi_cmd_gen
  BY <1>1, <1>3 DEF AllChannels
<1>4. CASE req \notin ncsi_cmd_gen
  BY <1>2, <1>4 DEF AllRequests, PlainCommands, ModeCommands, ByteCommands
<1> QED BY <1>3, <1>4

(***************************************************************************)
(* The helpers of the handlers.                                            *)
(***************************************************************************)

\* The status of a channel is replaced.
LEMMA StatusChange ==
  ASSUME NEW R, NEW s \in Package(R), NEW c \in Ports, NEW b \in SUBSET StatusBits,
         NEW t, t = [s EXCEPT !.chan[c].channel_status = b]
  PROVE  /\ t \in Package(R) /\ SameBut(t, s, c)
         /\ t.current = s.current /\ t.pkg = s.pkg /\ t.port_bak = s.port_bak
         /\ t.chan[c].channel_status = b
         /\ t.chan[c].aen_ctrl = s.chan[c].aen_ctrl /\ t.chan[c].link_mode = s.chan[c].link_mode
         /\ t.chan[c].vlan_mode = s.chan[c].vlan_mode /\ t.chan[c].brdc_mode = s.chan[c].brdc_mode
<1>1. s.chan[c] \in Chan
  BY DEF Package
<1>2. [s.chan[c] EXCEPT !.channel_status = b] \in Chan
  BY <1>1 DEF Chan
<1>3. t.chan[c] = [s.chan[c] EXCEPT !.channel_status = b] /\ t.chan[c].channel_status = b
  BY <1>1 DEF Package, Chan
<1>4. t \in Package(R)
  BY <1>2 DEF Package
<1>5. SameBut(t, s, c)
  BY DEF Package, SameBut
<1>6. t.current = s.current /\ t.pkg = s.pkg /\ t.port_bak = s.port_bak
  BY DEF Package
<1>7. /\ t.chan[c].aen_ctrl = s.chan[c].aen_ctrl /\ t.chan[c].link_mode = s.chan[c].link_mode
      /\ t.chan[c].vlan_mode = s.chan[c].vlan_mode /\ t.chan[c].brdc_mode = s.chan[c].brdc_mode
  BY <1>1, <1>3 DEF Chan
<1> QED BY <1>3, <1>4, <1>5, <1>6, <1>7

LEMMA InitDev == ncsi_init_dev \in Chan
BY DEF ncsi_init_dev, Chan

\* A channel is replaced.
LEMMA ChanChange ==
  ASSUME NEW R, NEW s \in Package(R), NEW c \in Ports, NEW d \in Chan
  PROVE  LET t == [s EXCEPT !.chan[c] = d] IN
           /\ t \in Package(R) /\ SameBut(t, s, c) /\ t.chan[c] = d /\ t.link = s.link
           /\ t.current = s.current /\ t.pkg = s.pkg /\ t.port_bak = s.port_bak
<1> DEFINE t == [s EXCEPT !.chan[c] = d]
<1>1. t \in Package(R)
  BY DEF Package
<1> QED BY <1>1 DEF Package, SameBut

\* A response changes nothing else.
LEMMA Responded ==
  ASSUME NEW R, NEW s \in Package(R), NEW r
  PROVE  LET t == [s EXCEPT !.rsp = r] IN
           /\ t \in Package({t.rsp}) /\ t.rsp = r /\ t.chan = s.chan /\ t.link = s.link
           /\ t.current = s.current /\ t.pkg = s.pkg /\ t.port_bak = s.port_bak
BY DEF Package

\* What Done and OrNotReady respond.
LEMMA DoneRsp ==
  ASSUME NEW R, NEW s \in Package(R), NEW c \in Ports
  PROVE  /\ Done(s, c).rsp.kind = "done" /\ Done(s, c).rsp.reason # "PARAMETER_IS_INVALID"
         /\ OrNotReady(s, c).rsp.kind = "done"
         /\ OrNotReady(s, c).rsp.reason # "PARAMETER_IS_INVALID"
BY Responded DEF Done, OrNotReady, Respond, ncsi_init_resp

(***************************************************************************)
(* What a command does to the setting the controller remembers.            *)
(***************************************************************************)

\* The value of the watched setting, of a link and a channel.
Val(up, ch) ==
  CASE watch.field = "link" -> up
    [] watch.field = "ENABLE" -> "ENABLE" \in ch.channel_status
    [] watch.field = "TX_ENABLE" -> "TX_ENABLE" \in ch.channel_status
    [] watch.field = "aen_mode" -> ch.aen_ctrl
    [] watch.field = "link_mode" -> ch.link_mode
    [] watch.field = "vlan_mode" -> ch.vlan_mode
    [] watch.field = "bc_mode" -> ch.brdc_mode

LEMMA ReportedIs ==
  ASSUME watch \in Settings, NEW R, NEW s \in Package(R)
  PROVE  Reported(s, watch) = Val(s.link[watch.chn].up, s.chan[watch.chn])
<1> DEFINE c == watch.chn
           p == get_parameters(s, c).rsp
<1>1. /\ p.valid_modes = s.chan[c].channel_status \ {READY}
      /\ p["bc_mode"] = s.chan[c].brdc_mode /\ p["vlan_mode"] = s.chan[c].vlan_mode
      /\ p["link_mode"] = s.chan[c].link_mode /\ p["aen_mode"] = s.chan[c].aen_ctrl
  BY DEF get_parameters, Package
<1>2. ncsi_lan_status(s.link[c]).up = s.link[c].up
  BY DEF ncsi_lan_status
<1> HIDE DEF p
<1>3. Reported(s, watch) =
        CASE watch.field = "link" -> ncsi_lan_status(s.link[c]).up
          [] watch.field \in {"ENABLE", "TX_ENABLE"} -> watch.field \in p.valid_modes
          [] OTHER -> p[watch.field]
  BY DEF Reported, p, ENABLE, TX_ENABLE
<1> QED BY <1>1, <1>2, <1>3 DEF Val, Settings, READY

\* How the current channel and the TX bits may change, as CurrentTransmits says.
KeepsCurrent(t, s, c) ==
  \/ /\ t.current = s.current
     /\ Transmits(t, c) => Transmits(s, c)
     /\ Transmits(s, c) /\ ~Transmits(t, c) /\ s.current = c =>
          t.chan[c].channel_status \subseteq {READY}
  \/ t.current = c /\ Transmits(t, c)
  \/ t.current = NoChannel /\ s.current = c /\ ~Transmits(t, c)

\* What a command that is carried out does on its channel, the response aside.
CarriedOut(t, s, c, req) ==
  LET old == Val(s.link[c].up, s.chan[c])
      new == Val(t.link[c].up, t.chan[c])
  IN  IF Sets(req) = {} THEN new = old
      ELSE req.arg < 256 \/ watch.field = "link_mode" => Sets(req) = {new}

\* ... and with the response, which may refuse it.
Follows(t, s, c, req) ==
  LET old == Val(s.link[c].up, s.chan[c])
      new == Val(t.link[c].up, t.chan[c])
  IN  \/ CarriedOut(t, s, c, req) /\ t.rsp.reason # "PARAMETER_IS_INVALID"
      \/ new = old /\ (Sets(req) = {} \/ t.rsp.reason = "PARAMETER_IS_INVALID")

Half(u, R, s, c, req) ==
  /\ u \in Package(R) /\ SameBut(u, s, c) /\ u.port_bak = s.port_bak
  /\ KeepsCurrent(u, s, c) /\ CarriedOut(u, s, c, req)

Good(t, s, c, req) ==
  /\ t \in Package({t.rsp}) /\ SameBut(t, s, c) /\ t.port_bak = s.port_bak
  /\ KeepsCurrent(t, s, c) /\ Follows(t, s, c, req) /\ t.rsp.kind # "none"

LEMMA Finish ==
  ASSUME NEW R, NEW Q, NEW s \in Package(R), NEW c \in Ports, NEW req,
         NEW u, Half(u, Q, s, c, req), NEW t, NEW r, t = [u EXCEPT !.rsp = r],
         r.reason # "PARAMETER_IS_INVALID", r.kind # "none"
  PROVE  Good(t, s, c, req)
<1>1. /\ t \in Package({t.rsp}) /\ t.rsp = r /\ t.chan = u.chan /\ t.link = u.link
      /\ t.current = u.current /\ t.port_bak = u.port_bak
  BY Responded DEF Half
<1>2. SameBut(t, s, c) /\ KeepsCurrent(t, s, c) /\ Follows(t, s, c, req)
  BY <1>1 DEF Half, SameBut, KeepsCurrent, Transmits, Follows, CarriedOut
<1> QED BY <1>1, <1>2 DEF Good, Half

LEMMA FinishDone ==
  ASSUME NEW R, NEW s \in Package(R), NEW c \in Ports, NEW req,
         NEW u, Half(u, R, s, c, req)
  PROVE  Good(Done(u, c), s, c, req) /\ Good(OrNotReady(u, c), s, c, req)
<1> DEFINE rsp(reason) == [kind |-> "done", code |-> "COMMAND_COMPLETED", reason |-> reason]
<1>1. \A reason : rsp(reason).reason = reason /\ rsp(reason).kind = "done"
  OBVIOUS
<1>2. /\ ncsi_init_resp(u, c) # "PARAMETER_IS_INVALID"
      /\ "CHANNEL_NOT_READY" # "PARAMETER_IS_INVALID"
  BY DEF ncsi_init_resp
<1>3. ASSUME NEW reason, reason # "PARAMETER_IS_INVALID"
      PROVE  Good([u EXCEPT !.rsp = rsp(reason)], s, c, req)
  <2> DEFINE r == rsp(reason)
  <2>1. r.reason # "PARAMETER_IS_INVALID" /\ r.kind # "none"
    BY <1>1, <1>3
  <2> HIDE DEF r
  <2>2. Good([u EXCEPT !.rsp = r], s, c, req)
    BY <2>1, Finish
  <2> QED BY <2>2 DEF r
<1> HIDE DEF rsp
<1>4. /\ Good([u EXCEPT !.rsp = rsp(ncsi_init_resp(u, c))], s, c, req)
      /\ Good([u EXCEPT !.rsp = rsp("CHANNEL_NOT_READY")], s, c, req)
  BY <1>2, <1>3
<1> QED BY <1>4 DEF Done, OrNotReady, Respond, rsp

\* Commands that leave the channel alone, or only respond.
LEMMA NothingHalf ==
  ASSUME NEW R, NEW s \in Package(R), NEW c \in Ports, NEW req, Sets(req) = {},
         NEW n \in {0, 1, UnknownStatus}
  PROVE  Half(s, R, s, c, req) /\ Half([s EXCEPT !.pkg = n], R, s, c, req)
<1>1. Half(s, R, s, c, req)
  BY DEF Half, SameBut, KeepsCurrent, Transmits, CarriedOut
<1> DEFINE t == [s EXCEPT !.pkg = n]
<1>2. /\ t \in Package(R) /\ t.chan = s.chan /\ t.link = s.link
      /\ t.current = s.current /\ t.port_bak = s.port_bak
  BY DEF Package
<1> HIDE DEF t
<1>3. Half(t, R, s, c, req)
  BY <1>2 DEF Half, SameBut, KeepsCurrent, Transmits, CarriedOut
<1> QED BY <1>1, <1>3 DEF t

\* Commands that write a mode: what the new record of the channel must show.
LEMMA RecordHalf ==
  ASSUME watch \in Settings, NEW R, NEW s \in Package(R), NEW c \in Ports, NEW req,
         NEW d \in Chan,
         d.channel_status = s.chan[c].channel_status \/ d.channel_status = {},
         IF Sets(req) = {} THEN Val(s.link[c].up, d) = Val(s.link[c].up, s.chan[c])
         ELSE req.arg < 256 \/ watch.field = "link_mode" => Sets(req) = {Val(s.link[c].up, d)}
  PROVE  Half([s EXCEPT !.chan[c] = d], R, s, c, req)
<1> DEFINE t == [s EXCEPT !.chan[c] = d]
<1>1. /\ t \in Package(R) /\ SameBut(t, s, c) /\ t.port_bak = s.port_bak
      /\ t.current = s.current /\ t.link = s.link /\ t.chan[c] = d
  BY ChanChange
<1> HIDE DEF t
<1>2. KeepsCurrent(t, s, c)
  BY <1>1 DEF KeepsCurrent, Transmits
<1>3. CarriedOut(t, s, c, req)
  BY <1>1 DEF CarriedOut
<1>4. Half(t, R, s, c, req)
  BY <1>1, <1>2, <1>3 DEF Half
<1> QED BY <1>4 DEF t

\* Reset gives all settings but the link their first value.
LEMMA ResetSets ==
  ASSUME watch \in Settings, NEW req, req.cmd = "reset_channel", NEW up, NEW ch
  PROVE  IF Sets(req) = {} THEN Val(up, ncsi_init_dev) = Val(up, ch)
         ELSE Sets(req) = {Val(up, ncsi_init_dev)}
<1> DEFINE d == ncsi_init_dev
<1>1. /\ ("ENABLE" \in d.channel_status) = FALSE /\ ("TX_ENABLE" \in d.channel_status) = FALSE
      /\ d.aen_ctrl = 0 /\ d.link_mode = 0 /\ d.vlan_mode = 0 /\ d.brdc_mode = 0
  BY DEF ncsi_init_dev
<1> HIDE DEF d
<1>2. CASE watch.field \in {"ENABLE", "TX_ENABLE"}
  <2>1. Sets(req) = {FALSE}
    BY <1>2 DEF Sets, ENABLE, TX_ENABLE
  <2>2. Val(up, d) = FALSE
    BY <1>1, <1>2 DEF Val
  <2> QED BY <2>1, <2>2 DEF d
<1>3. CASE watch.field = "link"
  BY <1>3 DEF Sets, Val, ENABLE, TX_ENABLE
<1>4. CASE watch.field \notin {"ENABLE", "TX_ENABLE", "link"}
  <2>1. Setter[watch.field] # "reset_channel"
    BY <1>4 DEF Setter, Settings
  <2>2. Sets(req) = {0}
    BY <1>4, <2>1 DEF Sets, Settings, ENABLE, TX_ENABLE
  <2>3. Val(up, d) = 0
    BY <1>1, <1>4 DEF Val, Settings
  <2> QED BY <2>2, <2>3 DEF d
<1> QED BY <1>2, <1>3, <1>4

\* Commands that write the status of the channel.
LEMMA StatusHalf ==
  ASSUME watch \in Settings, NEW R, NEW s \in Package(R), NEW c \in Ports, NEW req,
         NEW pos \in StatusBits, NEW flag \in BOOLEAN,
         \/ req.cmd = "clear_initial_state" /\ pos = READY /\ flag
         \/ req.cmd = "enable_channel" /\ pos = ENABLE /\ flag
         \/ req.cmd = "disable_channel" /\ pos = ENABLE /\ ~flag
         \/ req.cmd = "enable_network_tx" /\ pos = TX_ENABLE /\ flag
         \/ req.cmd = "disable_network_tx" /\ pos = TX_ENABLE /\ ~flag
  PROVE  LET t == ncsi_check_chn(s, c, pos, flag)
             u == IF pos # TX_ENABLE THEN t
                  ELSE IF flag THEN [t EXCEPT !.current = c]
                  ELSE [t EXCEPT !.current = IF @ = c THEN NoChannel ELSE @]
         IN  Half(u, R, s, c, req)
<1> DEFINE t == ncsi_check_chn(s, c, pos, flag)
           ch == s.chan[c]
           d == t.chan[c]
           cur == IF pos # TX_ENABLE THEN s.current ELSE IF flag THEN c
                  ELSE IF s.current = c THEN NoChannel ELSE s.current
           u == [t EXCEPT !.current = cur]
<1>1. /\ t \in Package(R) /\ SameBut(t, s, c)
      /\ t.current = s.current /\ t.port_bak = s.port_bak
      /\ d.channel_status =
           IF pos = READY THEN IF flag THEN {READY} ELSE {}
           ELSE IF flag THEN ch.channel_status \cup {pos} ELSE ch.channel_status \ {pos}
      /\ d.aen_ctrl = ch.aen_ctrl /\ d.link_mode = ch.link_mode
      /\ d.vlan_mode = ch.vlan_mode /\ d.brdc_mode = ch.brdc_mode
  <2> DEFINE b == IF pos = READY THEN IF flag THEN {READY} ELSE {}
                  ELSE IF flag THEN ch.channel_status \cup {pos} ELSE ch.channel_status \ {pos}
  <2>1. ch \in Chan
    BY DEF Package
  <2>2. b \in SUBSET StatusBits
    BY <2>1 DEF Chan, StatusBits
  <2>3. t = [s EXCEPT !.chan[c].channel_status = b]
    BY DEF ncsi_check_chn
  <2> HIDE DEF t, b
  <2>4. /\ t \in Package(R) /\ SameBut(t, s, c)
        /\ t.current = s.current /\ t.port_bak = s.port_bak
        /\ d.channel_status = b
        /\ d.aen_ctrl = ch.aen_ctrl /\ d.link_mode = ch.link_mode
        /\ d.vlan_mode = ch.vlan_mode /\ d.brdc_mode = ch.brdc_mode
    <3> HIDE DEF d, ch
    <3>1. /\ t \in Package(R) /\ SameBut(t, s, c)
          /\ t.current = s.current /\ t.port_bak = s.port_bak
      BY <2>2, <2>3, StatusChange
    <3>2. t.chan[c].channel_status = b
      BY <2>1, <2>3 DEF Package, Chan, ch
    <3>3. /\ t.chan[c].aen_ctrl = s.chan[c].aen_ctrl /\ t.chan[c].link_mode = s.chan[c].link_mode
          /\ t.chan[c].vlan_mode = s.chan[c].vlan_mode /\ t.chan[c].brdc_mode = s.chan[c].brdc_mode
      BY <2>2, <2>3, StatusChange
    <3> QED BY <3>1, <3>2, <3>3 DEF d, ch
  <2> QED BY <2>4 DEF b
<1>2. ch \in Chan /\ s.current \in Ports \cup {NoChannel}
  BY DEF Package
<1> HIDE DEF t
<1> HIDE DEF d, ch
<1>4. cur \in Ports \cup {NoChannel}
  BY <1>2
<1>5. /\ u \in Package(R) /\ u.chan = t.chan /\ u.link = t.link /\ u.port_bak = s.port_bak
      /\ u.current = cur
  <2> HIDE DEF cur
  <2> QED BY <1>1, <1>4 DEF Package
<1>6. u = IF pos # TX_ENABLE THEN t ELSE IF flag THEN [t EXCEPT !.current = c]
          ELSE [t EXCEPT !.current = IF @ = c THEN NoChannel ELSE @]
  BY <1>1 DEF Package
<1> HIDE DEF u
<1>7. SameBut(u, s, c)
  BY <1>1, <1>5 DEF SameBut
<1>8. KeepsCurrent(u, s, c)
  BY <1>1, <1>5, PortFacts DEF KeepsCurrent, Transmits, READY, ENABLE, TX_ENABLE, d, ch
<1>9. u.link[c].up = s.link[c].up /\ u.chan[c] = d
  BY <1>5, <1>7 DEF SameBut, d
<1>10. CarriedOut(u, s, c, req)
  <2> DEFINE old == Val(s.link[c].up, ch)
             new == Val(s.link[c].up, d)
  <2>1. CASE watch.field \notin {"ENABLE", "TX_ENABLE"}
    <3>1. Sets(req) = {}
      <4>1. watch.field # "link" =>
              Setter[watch.field] \in {"enable_aen", "set_link", "enable_vlan",
                                       "enable_broadcast_filter"}
        BY <2>1 DEF Setter, Settings
      <4> QED BY <2>1, <4>1 DEF Sets, ENABLE, TX_ENABLE
    <3>2. new = old
      BY <1>1, <2>1 DEF Val, Settings
    <3> QED BY <1>9, <3>1, <3>2 DEF CarriedOut, ch
  <2>2. CASE watch.field = "ENABLE"
    <3>1. \/ Sets(req) = {TRUE} /\ "ENABLE" \in d.channel_status
          \/ Sets(req) = {FALSE} /\ ~("ENABLE" \in d.channel_status)
          \/ Sets(req) = {} /\ ("ENABLE" \in d.channel_status <=> "ENABLE" \in ch.channel_status)
      BY <1>1, <2>2 DEF Sets, READY, ENABLE, TX_ENABLE
    <3>2. new = ("ENABLE" \in d.channel_status) /\ old = ("ENABLE" \in ch.channel_status)
      BY <2>2 DEF Val
    <3> HIDE DEF old, new
    <3>3. IF Sets(req) = {} THEN new = old ELSE Sets(req) = {new}
      <4>1. CASE Sets(req) = {TRUE} /\ "ENABLE" \in d.channel_status
        <5>1. new = TRUE
          BY <3>2, <4>1
        <5> QED BY <4>1, <5>1
      <4>2. CASE Sets(req) = {FALSE} /\ ~("ENABLE" \in d.channel_status)
        <5>1. new = FALSE
          <6>1. ("ENABLE" \in d.channel_status) = FALSE
            BY <4>2
          <6> QED BY <3>2, <6>1
        <5> QED BY <4>2, <5>1
      <4>3. CASE Sets(req) = {} /\ ("ENABLE" \in d.channel_status <=> "ENABLE" \in ch.channel_status)
        BY <3>2, <4>3
      <4> QED BY <3>1, <4>1, <4>2, <4>3
    <3> USE DEF old, new
    <3> QED BY <1>9, <3>3 DEF CarriedOut, ch
  <2>3. CASE watch.field = "TX_ENABLE"
    <3>1. \/ Sets(req) = {TRUE} /\ "TX_ENABLE" \in d.channel_status
          \/ Sets(req) = {FALSE} /\ ~("TX_ENABLE" \in d.channel_status)
          \/ Sets(req) = {} /\ ("TX_ENABLE" \in d.channel_status <=> "TX_ENABLE" \in ch.channel_status)
      BY <1>1, <2>3 DEF Sets, READY, ENABLE, TX_ENABLE
    <3>2. new = ("TX_ENABLE" \in d.channel_status) /\ old = ("TX_ENABLE" \in ch.channel_status)
      BY <2>3 DEF Val
    <3> HIDE DEF old, new
    <3>3. IF Sets(req) = {} THEN new = old ELSE Sets(req) = {new}
      <4>1. CASE Sets(req) = {TRUE} /\ "TX_ENABLE" \in d.channel_status
        <5>1. new = TRUE
          BY <3>2, <4>1
        <5> QED BY <4>1, <5>1
      <4>2. CASE Sets(req) = {FALSE} /\ ~("TX_ENABLE" \in d.channel_status)
        <5>1. new = FALSE
          <6>1. ("TX_ENABLE" \in d.channel_status) = FALSE
            BY <4>2
          <6> QED BY <3>2, <6>1
        <5> QED BY <4>2, <5>1
      <4>3. CASE Sets(req) = {} /\ ("TX_ENABLE" \in d.channel_status <=> "TX_ENABLE" \in ch.channel_status)
        BY <3>2, <4>3
      <4> QED BY <3>1, <4>1, <4>2, <4>3
    <3> USE DEF old, new
    <3> QED BY <1>9, <3>3 DEF CarriedOut, ch
  <2> QED BY <2>1, <2>2, <2>3
<1>11. Half(u, R, s, c, req)
  BY <1>5, <1>7, <1>8, <1>10 DEF Half
<1> QED BY <1>6, <1>11 DEF t

Setters ==
  {"clear_initial_state", "enable_channel", "disable_channel", "reset_channel",
   "enable_network_tx", "disable_network_tx", "enable_aen", "set_link", "enable_vlan",
   "disable_vlan", "enable_broadcast_filter", "disable_broadcast_filter"}

LEMMA SetsNothing ==
  ASSUME watch \in Settings, NEW req, req.cmd \notin Setters
  PROVE  Sets(req) = {}
<1>1. watch.field \notin {"link", "ENABLE", "TX_ENABLE"} => Setter[watch.field] \in Setters
  BY DEF Setter, Settings, Setters
<1> QED BY <1>1 DEF Sets, Setters, ENABLE, TX_ENABLE

\* Responses that say more than that the command was completed.
LEMMA ReportGood ==
  ASSUME watch \in Settings, NEW R, NEW s \in Package(R), NEW c \in Ports, NEW req,
         Sets(req) = {}
  PROVE  /\ Good(get_link_status(s, c), s, c, req)
         /\ Good(get_capabilities(s, c), s, c, req)
         /\ Good(get_parameters(s, c), s, c, req)
<1> DEFINE u == Done(s, c)
<1>1. /\ u \in Package({u.rsp}) /\ u.chan = s.chan /\ u.link = s.link
      /\ u.current = s.current /\ u.port_bak = s.port_bak
      /\ u.rsp.reason # "PARAMETER_IS_INVALID"
  BY Responded, DoneRsp DEF Done, Respond
<1> HIDE DEF u
<1>2. Half(u, {u.rsp}, s, c, req)
  BY <1>1 DEF Half, SameBut, KeepsCurrent, Transmits, CarriedOut
<1>3. Half(s, R, s, c, req)
  BY NothingHalf
<1>4. Good(get_link_status(s, c), s, c, req)
  <2> DEFINE r == [kind |-> "status", code |-> u.rsp.code, reason |-> u.rsp.reason,
                   status |-> ncsi_lan_status(s.link[c])]
  <2>1. r.reason # "PARAMETER_IS_INVALID" /\ r.kind # "none"
    BY <1>1
  <2>2. get_link_status(s, c) = [u EXCEPT !.rsp = r]
    BY DEF get_link_status, u
  <2> HIDE DEF r
  <2> QED BY <1>2, <2>1, <2>2, Finish
<1>5. Good(get_capabilities(s, c), s, c, req)
  <2> DEFINE r == [kind |-> "capabilities", code |-> u.rsp.code, reason |-> u.rsp.reason,
                   flow_control |-> TRUE, aen_cap |-> 3, vlan_mode |-> 1, channel_cnt |-> PortNum]
  <2>1. r.reason # "PARAMETER_IS_INVALID" /\ r.kind # "none"
    BY <1>1
  <2>2. get_capabilities(s, c) = [u EXCEPT !.rsp = r]
    BY DEF get_capabilities, u
  <2> HIDE DEF r
  <2> QED BY <1>2, <2>1, <2>2, Finish
<1>6. Good(get_parameters(s, c), s, c, req)
  <2> DEFINE r == get_parameters(s, c).rsp
  <2>1. /\ r.reason # "PARAMETER_IS_INVALID" /\ r.kind # "none"
        /\ get_parameters(s, c) = [s EXCEPT !.rsp = r]
    BY DEF get_parameters, Package
  <2> HIDE DEF r
  <2> QED BY <1>3, <2>1, Finish
<1> QED BY <1>4, <1>5, <1>6

\* A refusal changes nothing.
LEMMA RefusedGood ==
  ASSUME NEW R, NEW s \in Package(R), NEW c \in Ports, NEW req
  PROVE  Good(Respond(s, "PARAMETER_IS_INVALID"), s, c, req)
<1> DEFINE r == [kind |-> "done", code |-> "COMMAND_COMPLETED", reason |-> "PARAMETER_IS_INVALID"]
           t == [s EXCEPT !.rsp = r]
<1>1. /\ t \in Package({t.rsp}) /\ t.rsp = r /\ t.chan = s.chan /\ t.link = s.link
      /\ t.current = s.current /\ t.port_bak = s.port_bak
  <2> HIDE DEF r
  <2> QED BY Responded
<1> HIDE DEF t
<1>2. Good(t, s, c, req)
  BY <1>1 DEF Good, SameBut, KeepsCurrent, Transmits, Follows
<1> QED BY <1>2 DEF t, Respond

\* Commands that are answered with an error and may have done something.
LEMMA UnsupportedGood ==
  ASSUME NEW R, NEW s \in Package(R), NEW c \in Ports, NEW req, NEW u, Half(u, R, s, c, req)
  PROVE  /\ Good(Respond(u, "COMMAND_UNSUPPORTED"), s, c, req)
         /\ Good(get_controller_statistics(u, c), s, c, req)
<1>1. ASSUME NEW code
      PROVE  Good([u EXCEPT !.rsp = [kind |-> "done", code |-> code,
                                     reason |-> "COMMAND_UNSUPPORTED"]], s, c, req)
  <2> DEFINE r == [kind |-> "done", code |-> code, reason |-> "COMMAND_UNSUPPORTED"]
  <2>1. r.reason # "PARAMETER_IS_INVALID" /\ r.kind # "none"
    OBVIOUS
  <2> HIDE DEF r
  <2>2. Good([u EXCEPT !.rsp = r], s, c, req)
    BY <2>1, Finish
  <2> QED BY <2>2 DEF r
<1> QED BY <1>1 DEF Respond, get_controller_statistics

(***************************************************************************)
(* Every handler.                                                          *)
(***************************************************************************)
LEMMA HandlerGood ==
  ASSUME watch \in Settings, NEW R, NEW s \in Package(R), NEW c \in Ports,
         NEW req \in AllRequests
  PROVE  Good(ncsi_org_cmd_table(s, c, req), s, c, req)
<1> DEFINE G(t) == Good(t, s, c, req)
<1>1. /\ req.cmd \in PlainCommands \cup ModeCommands \cup ByteCommands
  BY RequestFacts
<1> DEFINE ch == s.chan[c]
<1>0. /\ ch \in Chan /\ req.arg \in Nat
      /\ req.arg % 256 \in 0 .. 255 /\ (req.arg < 256 => req.arg % 256 = req.arg)
  <2>1. req.arg \in Nat
    BY RequestFacts
  <2> QED BY <2>1 DEF Package
<1>2. /\ {READY, ENABLE, TX_ENABLE} \subseteq StatusBits
      /\ READY # TX_ENABLE /\ ENABLE # TX_ENABLE
  BY DEF StatusBits, READY, ENABLE, TX_ENABLE
<1>3. ASSUME req.cmd = "clear_initial_state" PROVE G(ncsi_org_cmd_table(s, c, req))
  <2>1. Half(ncsi_check_chn(s, c, READY, TRUE), R, s, c, req)
    BY <1>2, <1>3, StatusHalf
  <2> QED BY <1>3, <2>1, FinishDone DEF ncsi_org_cmd_table, clear_initial_state
<1>4. ASSUME req.cmd = "enable_channel" PROVE G(ncsi_org_cmd_table(s, c, req))
  <2>1. Half(ncsi_check_chn(s, c, ENABLE, TRUE), R, s, c, req)
    BY <1>2, <1>4, StatusHalf
  <2> QED BY <1>4, <2>1, FinishDone DEF ncsi_org_cmd_table, enable_channel
<1>5. ASSUME req.cmd = "disable_channel" PROVE G(ncsi_org_cmd_table(s, c, req))
  <2>1. Half(ncsi_check_chn(s, c, ENABLE, FALSE), R, s, c, req)
    BY <1>2, <1>5, StatusHalf
  <2> QED BY <1>5, <2>1, FinishDone DEF ncsi_org_cmd_table, disable_channel
<1>6. ASSUME req.cmd = "enable_network_tx" PROVE G(ncsi_org_cmd_table(s, c, req))
  <2>1. Half([ncsi_check_chn(s, c, TX_ENABLE, TRUE) EXCEPT !.current = c], R, s, c, req)
    BY <1>2, <1>6, StatusHalf
  <2> QED BY <1>6, <2>1, FinishDone DEF ncsi_org_cmd_table, enable_network_tx
<1>7. ASSUME req.cmd = "disable_network_tx" PROVE G(ncsi_org_cmd_table(s, c, req))
  <2>1. Half([ncsi_check_chn(s, c, TX_ENABLE, FALSE) EXCEPT
              !.current = IF @ = c THEN NoChannel ELSE @], R, s, c, req)
    BY <1>2, <1>7, StatusHalf
  <2> QED BY <1>7, <2>1, FinishDone DEF ncsi_org_cmd_table, disable_network_tx
<1>8. ASSUME req.cmd = "reset_channel" PROVE G(ncsi_org_cmd_table(s, c, req))
  <2>1. Half([s EXCEPT !.chan[c] = ncsi_init_dev], R, s, c, req)
    BY <1>8, InitDev, ResetSets, RecordHalf DEF ncsi_init_dev
  <2> QED BY <1>8, <2>1, FinishDone DEF ncsi_org_cmd_table, reset_channel
<1>9. ASSUME req.cmd = "enable_aen" PROVE G(ncsi_org_cmd_table(s, c, req))
  <2>1. Half([s EXCEPT !.chan[c].aen_ctrl = req.arg % 256], R, s, c, req)
    <3> DEFINE d == [ch EXCEPT !.aen_ctrl = req.arg % 256]
    <3>1. d \in Chan /\ d.channel_status = ch.channel_status
      BY <1>0 DEF Chan
    <3>2. IF Sets(req) = {} THEN Val(s.link[c].up, d) = Val(s.link[c].up, ch)
         ELSE req.arg < 256 \/ watch.field = "link_mode" => Sets(req) = {Val(s.link[c].up, d)}
      <4> HIDE DEF ch
      <4> QED BY <1>0, <1>9 DEF Sets, Setter, Val, Settings, Chan, ENABLE, TX_ENABLE
    <3> HIDE DEF d
    <3>3. Half([s EXCEPT !.chan[c] = d], R, s, c, req)
      BY <3>1, <3>2, RecordHalf
    <3> QED BY <3>3 DEF d
  <2> QED BY <1>9, <2>1, FinishDone DEF ncsi_org_cmd_table, enable_aen
<1>10. ASSUME req.cmd = "set_link" PROVE G(ncsi_org_cmd_table(s, c, req))
  <2>1. Half([s EXCEPT !.chan[c].link_mode = req.arg], R, s, c, req)
    <3> DEFINE d == [ch EXCEPT !.link_mode = req.arg]
    <3>1. d \in Chan /\ d.channel_status = ch.channel_status
      BY <1>0 DEF Chan
    <3>2. IF Sets(req) = {} THEN Val(s.link[c].up, d) = Val(s.link[c].up, ch)
         ELSE req.arg < 256 \/ watch.field = "link_mode" => Sets(req) = {Val(s.link[c].up, d)}
      <4> HIDE DEF ch
      <4> QED BY <1>0, <1>10 DEF Sets, Setter, Val, Settings, Chan, ENABLE, TX_ENABLE
    <3> HIDE DEF d
    <3>3. Half([s EXCEPT !.chan[c] = d], R, s, c, req)
      BY <3>1, <3>2, RecordHalf
    <3> QED BY <3>3 DEF d
  <2> QED BY <1>10, <2>1, FinishDone DEF ncsi_org_cmd_table, set_link
<1>11. ASSUME req.cmd = "disable_vlan" PROVE G(ncsi_org_cmd_table(s, c, req))
  <2>1. Half([s EXCEPT !.chan[c].vlan_mode = 0], R, s, c, req)
    <3> DEFINE d == [ch EXCEPT !.vlan_mode = 0]
    <3>1. d \in Chan /\ d.channel_status = ch.channel_status
      BY <1>0 DEF Chan
    <3>2. IF Sets(req) = {} THEN Val(s.link[c].up, d) = Val(s.link[c].up, ch)
         ELSE req.arg < 256 \/ watch.field = "link_mode" => Sets(req) = {Val(s.link[c].up, d)}
      <4> HIDE DEF ch
      <4> QED BY <1>0, <1>11 DEF Sets, Setter, Val, Settings, Chan, ENABLE, TX_ENABLE
    <3> HIDE DEF d
    <3>3. Half([s EXCEPT !.chan[c] = d], R, s, c, req)
      BY <3>1, <3>2, RecordHalf
    <3> QED BY <3>3 DEF d
  <2> QED BY <1>11, <2>1, FinishDone DEF ncsi_org_cmd_table, disable_vlan
<1>12. ASSUME req.cmd = "enable_broadcast_filter" PROVE G(ncsi_org_cmd_table(s, c, req))
  <2>1. Half([s EXCEPT !.chan[c].brdc_mode = req.arg % 256], R, s, c, req)
    <3> DEFINE d == [ch EXCEPT !.brdc_mode = req.arg % 256]
    <3>1. d \in Chan /\ d.channel_status = ch.channel_status
      BY <1>0 DEF Chan
    <3>2. IF Sets(req) = {} THEN Val(s.link[c].up, d) = Val(s.link[c].up, ch)
         ELSE req.arg < 256 \/ watch.field = "link_mode" => Sets(req) = {Val(s.link[c].up, d)}
      <4> HIDE DEF ch
      <4> QED BY <1>0, <1>12 DEF Sets, Setter, Val, Settings, Chan, ENABLE, TX_ENABLE
    <3> HIDE DEF d
    <3>3. Half([s EXCEPT !.chan[c] = d], R, s, c, req)
      BY <3>1, <3>2, RecordHalf
    <3> QED BY <3>3 DEF d
  <2> QED BY <1>12, <2>1, FinishDone DEF ncsi_org_cmd_table, enable_broadcast_filter
<1>13. ASSUME req.cmd = "disable_broadcast_filter" PROVE G(ncsi_org_cmd_table(s, c, req))
  <2>1. Half([s EXCEPT !.chan[c].brdc_mode = 0], R, s, c, req)
    <3> DEFINE d == [ch EXCEPT !.brdc_mode = 0]
    <3>1. d \in Chan /\ d.channel_status = ch.channel_status
      BY <1>0 DEF Chan
    <3>2. IF Sets(req) = {} THEN Val(s.link[c].up, d) = Val(s.link[c].up, ch)
         ELSE req.arg < 256 \/ watch.field = "link_mode" => Sets(req) = {Val(s.link[c].up, d)}
      <4> HIDE DEF ch
      <4> QED BY <1>0, <1>13 DEF Sets, Setter, Val, Settings, Chan, ENABLE, TX_ENABLE
    <3> HIDE DEF d
    <3>3. Half([s EXCEPT !.chan[c] = d], R, s, c, req)
      BY <3>1, <3>2, RecordHalf
    <3> QED BY <3>3 DEF d
  <2> QED BY <1>13, <2>1, FinishDone DEF ncsi_org_cmd_table, disable_broadcast_filter
<1>14. ASSUME req.cmd = "enable_global_multicast_filter" PROVE G(ncsi_org_cmd_table(s, c, req))
  <2>1. Half([s EXCEPT !.chan[c].mulc_mode = req.arg % 256], R, s, c, req)
    <3> DEFINE d == [ch EXCEPT !.mulc_mode = req.arg % 256]
    <3>1. d \in Chan /\ d.channel_status = ch.channel_status
      BY <1>0 DEF Chan
    <3>2. IF Sets(req) = {} THEN Val(s.link[c].up, d) = Val(s.link[c].up, ch)
         ELSE req.arg < 256 \/ watch.field = "link_mode" => Sets(req) = {Val(s.link[c].up, d)}
      <4> HIDE DEF ch
      <4> QED BY <1>0, <1>14 DEF Sets, Setter, Val, Settings, Chan, ENABLE, TX_ENABLE
    <3> HIDE DEF d
    <3>3. Half([s EXCEPT !.chan[c] = d], R, s, c, req)
      BY <3>1, <3>2, RecordHalf
    <3> QED BY <3>3 DEF d
  <2> QED BY <1>14, <2>1, UnsupportedGood DEF ncsi_org_cmd_table, enable_global_multicast_filter
<1>15. ASSUME req.cmd = "disable_global_multicast_filter" PROVE G(ncsi_org_cmd_table(s, c, req))
  <2>1. Half([s EXCEPT !.chan[c].mulc_mode = 0], R, s, c, req)
    <3> DEFINE d == [ch EXCEPT !.mulc_mode = 0]
    <3>1. d \in Chan /\ d.channel_status = ch.channel_status
      BY <1>0 DEF Chan
    <3>2. IF Sets(req) = {} THEN Val(s.link[c].up, d) = Val(s.link[c].up, ch)
         ELSE req.arg < 256 \/ watch.field = "link_mode" => Sets(req) = {Val(s.link[c].up, d)}
      <4> HIDE DEF ch
      <4> QED BY <1>0, <1>15 DEF Sets, Setter, Val, Settings, Chan, ENABLE, TX_ENABLE
    <3> HIDE DEF d
    <3>3. Half([s EXCEPT !.chan[c] = d], R, s, c, req)
      BY <3>1, <3>2, RecordHalf
    <3> QED BY <3>3 DEF d
  <2> QED BY <1>15, <2>1, UnsupportedGood DEF ncsi_org_cmd_table, disable_global_multicast_filter
<1>16. ASSUME req.cmd = "enable_vlan" PROVE G(ncsi_org_cmd_table(s, c, req))
  <2>1. CASE req.arg = 1
    <3>1. Half([s EXCEPT !.chan[c].vlan_mode = 1], R, s, c, req)
      <4> DEFINE d == [ch EXCEPT !.vlan_mode = 1]
      <4>1. d \in Chan /\ d.channel_status = ch.channel_status
        BY <1>0 DEF Chan
      <4>2. IF Sets(req) = {} THEN Val(s.link[c].up, d) = Val(s.link[c].up, ch)
           ELSE req.arg < 256 \/ watch.field = "link_mode" => Sets(req) = {Val(s.link[c].up, d)}
        <5> HIDE DEF ch
        <5> QED BY <1>0, <1>16, <2>1 DEF Sets, Setter, Val, Settings, Chan, ENABLE, TX_ENABLE
      <4> HIDE DEF d
      <4>3. Half([s EXCEPT !.chan[c] = d], R, s, c, req)
        BY <4>1, <4>2, RecordHalf
      <4> QED BY <4>3 DEF d
    <3> QED BY <1>16, <2>1, <3>1, FinishDone DEF ncsi_org_cmd_table, enable_vlan
  <2>2. CASE req.arg # 1
    BY <1>16, <2>2, RefusedGood DEF ncsi_org_cmd_table, enable_vlan
  <2> QED BY <2>1, <2>2
<1>17. ASSUME req.cmd \notin Setters
      PROVE  Sets(req) = {} /\ Half(s, R, s, c, req)
             /\ Half([s EXCEPT !.pkg = 1], R, s, c, req) /\ Half([s EXCEPT !.pkg = 0], R, s, c, req)
  BY <1>17, SetsNothing, NothingHalf
<1>18. ASSUME req.cmd \in {"select_package", "deselect_package", "set_mac_address",
                         "get_version_id", "oem_get_sn", "oem_power_events"}
      PROVE  G(ncsi_org_cmd_table(s, c, req))
  <2>1. req.cmd \notin Setters
    BY <1>18 DEF Setters
  <2>2. /\ G(select_package(s, c)) /\ G(deselect_package(s, c)) /\ G(set_mac_address(s, c))
        /\ G(get_version_id(s, c)) /\ G(oem_get_sn(s, c)) /\ G(oem_power_events(s, c))
    BY <1>17, <2>1, FinishDone DEF select_package, deselect_package, set_mac_address,
       get_version_id, oem_get_sn, oem_power_events
  <2> HIDE DEF G
  <2> QED BY <1>18, <2>2 DEF ncsi_org_cmd_table
<1>19. ASSUME req.cmd = "set_vlan_filter" PROVE G(ncsi_org_cmd_table(s, c, req))
  <2>1. req.cmd \notin Setters
    BY <1>19 DEF Setters
  <2>2. G(Done(s, c)) /\ G(Respond(s, "PARAMETER_IS_INVALID"))
    BY <1>17, <2>1, FinishDone, RefusedGood
  <2>3. G(set_vlan_filter(s, c, req.arg))
    BY <2>2 DEF set_vlan_filter, Done
  <2> HIDE DEF G
  <2> QED BY <1>19, <2>3 DEF ncsi_org_cmd_table
<1>20. ASSUME req.cmd \in {"get_link_status", "get_capabilities", "get_parameters"}
      PROVE  G(ncsi_org_cmd_table(s, c, req))
  <2>1. req.cmd \notin Setters
    BY <1>20 DEF Setters
  <2>2. G(get_link_status(s, c)) /\ G(get_capabilities(s, c)) /\ G(get_parameters(s, c))
    BY <1>17, <2>1, ReportGood
  <2> HIDE DEF G
  <2> QED BY <1>20, <2>2 DEF ncsi_org_cmd_table
<1>21. ASSUME req.cmd \in {"set_flow_control", "get_controller_statistics", "get_ncsi_statistics",
                         "get_ncsi_pass_through", "unsupported_cmd"}
      PROVE  G(ncsi_org_cmd_table(s, c, req))
  <2>1. req.cmd \notin Setters
    BY <1>21 DEF Setters
  <2>2. /\ G(set_flow_control(s, c)) /\ G(get_controller_statistics(s, c))
        /\ G(get_ncsi_statistics(s, c)) /\ G(get_ncsi_pass_through(s, c)) /\ G(unsupported_cmd(s, c))
    BY <1>17, <2>1, UnsupportedGood DEF set_flow_control, get_ncsi_statistics,
       get_ncsi_pass_through, unsupported_cmd
  <2> HIDE DEF G
  <2> QED BY <1>21, <2>2 DEF ncsi_org_cmd_table
<1> HIDE DEF G
<1> QED BY <1>1, <1>3, <1>4, <1>5, <1>6, <1>7, <1>8, <1>9, <1>10, <1>11, <1>12, <1>13, <1>14, <1>15, <1>16, <1>18, <1>19, <1>20, <1>21
   DEF PlainCommands, ModeCommands, ByteCommands, G

(***************************************************************************)
(* A request.                                                              *)
(***************************************************************************)

\* A request is answered by the handler for a channel that is there, or changes
\* no more than the port that was tried last.
LEMMA RequestGood ==
  ASSUME watch \in Settings, nc \in Package({NoResponse}), NEW req \in AllRequests
  PROVE  LET t == ncsi_rx2(nc, req)
             c == Addressed(nc, req)
             u == [nc EXCEPT !.port_bak = IF req.chn = AllChannels THEN c ELSE @]
         IN  /\ u \in Package({NoResponse}) /\ u.chan = nc.chan /\ u.link = nc.link
             /\ u.current = nc.current
             /\ \/ t = [u EXCEPT !.rsp = NoResponse]
                \/ /\ c \in Ports /\ req.pkg = NCSI_PKG_ID
                   /\ t = ncsi_org_cmd_table(u, c, req) /\ Good(t, u, c, req)
<1> DEFINE t == ncsi_rx2(nc, req)
           c == Addressed(nc, req)
           b == IF req.chn = AllChannels THEN c ELSE nc.port_bak
           u == [nc EXCEPT !.port_bak = b]
<1>1. /\ req.chn = AllChannels => c \in Ports
      /\ c \in Nat
  <2>1. ncsi_get_valid_port(nc) \in Ports
    BY ValidPort
  <2>2. req.chn \in Nat
    BY RequestFacts DEF AllChannels
  <2> QED BY <2>1, <2>2, PortFacts DEF Addressed
<1>2. b \in Ports
  BY <1>1 DEF Package
<1> HIDE DEF b
<1>3. /\ u \in Package({NoResponse}) /\ u.chan = nc.chan /\ u.link = nc.link
      /\ u.current = nc.current
  BY <1>2 DEF Package
<1>4. t = IF c >= PortNum \/ req.pkg # NCSI_PKG_ID THEN [u EXCEPT !.rsp = NoResponse]
          ELSE ncsi_org_cmd_table(u, c, req)
  BY DEF ncsi_rx2, b
<1>5. u = [nc EXCEPT !.port_bak = IF req.chn = AllChannels THEN c ELSE @]
  BY DEF b
<1> HIDE DEF u, t, c
<1>6. ~(c >= PortNum) => c \in Ports
  BY <1>1, PortFacts, PortsAssumption
<1>7. c \in Ports => Good(ncsi_org_cmd_table(u, c, req), u, c, req)
  BY <1>3, HandlerGood
<1>8. \/ t = [u EXCEPT !.rsp = NoResponse]
      \/ /\ c \in Ports /\ req.pkg = NCSI_PKG_ID
         /\ t = ncsi_org_cmd_table(u, c, req) /\ Good(t, u, c, req)
  BY <1>4, <1>6, <1>7
<1> QED BY <1>3, <1>5, <1>8 DEF t, c

\* What a report says is the value of the setting.
LEMMA ReportTells ==
  ASSUME watch \in Settings, NEW s \in Package({NoResponse}), NEW req, Reports(req)
  PROVE  LET rsp == ncsi_org_cmd_table(s, watch.chn, req).rsp IN
           (IF watch.field = "link" THEN rsp.status.up
            ELSE IF watch.field \in {ENABLE, TX_ENABLE} THEN watch.field \in rsp.valid_modes
            ELSE rsp[watch.field])
             = Val(s.link[watch.chn].up, s.chan[watch.chn])
<1> DEFINE c == watch.chn
           rsp == ncsi_org_cmd_table(s, c, req).rsp
<1>1. CASE watch.field = "link"
  <2>1. rsp = get_link_status(s, c).rsp
    BY <1>1 DEF Reports, ncsi_org_cmd_table
  <2>2. Done(s, c) \in Package({Done(s, c).rsp})
    BY Responded DEF Done, Respond
  <2>3. get_link_status(s, c).rsp.status.up = s.link[c].up
    BY <2>2 DEF get_link_status, ncsi_lan_status, Package
  <2> QED BY <1>1, <2>1, <2>3 DEF Val
<1>2. CASE watch.field # "link"
  <2>1. rsp = get_parameters(s, c).rsp
    BY <1>2 DEF Reports, ncsi_org_cmd_table
  <2>2. Reported(s, watch) =
          IF watch.field \in {ENABLE, TX_ENABLE} THEN watch.field \in rsp.valid_modes
          ELSE rsp[watch.field]
    BY <1>2, <2>1 DEF Reported
  <2> QED BY <1>2, <2>2, ReportedIs
<1> QED BY <1>1, <1>2

(***************************************************************************)
(* What the controller learns.                                             *)
(***************************************************************************)

\* Whatever the response says, or that there is none: what the controller makes
\* of it is true of the package after the command.
LEMMA Learns ==
  ASSUME watch \in Settings, nc \in Package({NoResponse}), KnownIsReported,
         NEW req \in AllRequests, NEW arrives \in BOOLEAN
  PROVE  LET t == ncsi_rx2(nc, req)
             n == [t EXCEPT !.rsp = NoResponse]
         IN  /\ n \in Package({NoResponse})
             /\ Learnt(req, IF arrives THEN t.rsp ELSE NoResponse) \subseteq {Reported(n, watch)}
<1> DEFINE t == ncsi_rx2(nc, req)
           c == Addressed(nc, req)
           u == [nc EXCEPT !.port_bak = IF req.chn = AllChannels THEN c ELSE @]
           n == [t EXCEPT !.rsp = NoResponse]
           rsp == IF arrives THEN t.rsp ELSE NoResponse
           w == watch.chn
           V(s) == Val(s.link[w].up, s.chan[w])
<1>1. /\ u \in Package({NoResponse}) /\ u.chan = nc.chan /\ u.link = nc.link
      /\ \/ t = [u EXCEPT !.rsp = NoResponse]
         \/ /\ c \in Ports /\ req.pkg = NCSI_PKG_ID
            /\ t = ncsi_org_cmd_table(u, c, req) /\ Good(t, u, c, req)
  BY RequestGood
<1>2. w \in Ports /\ w # AllChannels /\ (req.chn # AllChannels => c = req.chn)
  BY PortFacts DEF Settings, Addressed
<1>3. \E Q : t \in Package(Q)
  <2>1. CASE t = [u EXCEPT !.rsp = NoResponse]
    <3> HIDE DEF u, t
    <3>1. t \in Package({t.rsp})
      BY <1>1, <2>1, Responded
    <3> QED BY <3>1
  <2>2. CASE Good(t, u, c, req)
    BY <2>2 DEF Good
  <2> QED BY <1>1, <2>1, <2>2
<1>4. /\ n \in Package({NoResponse}) /\ n.chan = t.chan /\ n.link = t.link
  <2>1. PICK Q : t \in Package(Q)
    BY <1>3
  <2> HIDE DEF t
  <2>2. n \in Package({n.rsp}) /\ n.rsp = NoResponse /\ n.chan = t.chan /\ n.link = t.link
    BY <2>1, Responded
  <2> QED BY <2>2
<1>5. known \subseteq {V(nc)} /\ Reported(n, watch) = V(n) /\ V(n) = V(t) /\ V(u) = V(nc)
  <2>1. Reported(nc, watch) = V(nc)
    BY ReportedIs
  <2>2. Reported(n, watch) = V(n)
    BY <1>4, ReportedIs
  <2>3. V(n) = V(t) /\ V(u) = V(nc)
    BY <1>1, <1>4
  <2> QED BY <2>1, <2>2, <2>3 DEF KnownIsReported
<1>6. NoResponse.kind = "none"
  BY DEF NoResponse
<1>7. CASE t = [u EXCEPT !.rsp = NoResponse]
  <2>1. t.rsp = NoResponse /\ t.chan = u.chan /\ t.link = u.link
    BY <1>1, <1>7, Responded
  <2>2. rsp.kind = "none" /\ V(t) = V(nc)
    BY <1>1, <1>6, <2>1
  <2> HIDE DEF rsp, V, t, n, u, c
  <2>3. Learnt(req, rsp) \in {known, {}}
    BY <2>2 DEF Learnt
  <2>4. known \subseteq {Reported(n, watch)}
    BY <1>5, <2>2
  <2>5. Learnt(req, rsp) \subseteq {Reported(n, watch)}
    BY <2>3, <2>4
  <2> QED BY <1>4, <2>5 DEF t, n, rsp
<1>8. CASE c \in Ports /\ Good(t, u, c, req) /\ c # w
  <2>1. V(t) = V(nc)
    BY <1>1, <1>2, <1>8 DEF Good, SameBut
  <2>2. ~Reports(req)
    BY <1>2, <1>8 DEF Reports
  <2>3. req.chn # w
    BY <1>2, <1>8
  <2> HIDE DEF rsp, V, t, n, u, c
  <2>4. Learnt(req, rsp) \in {known, {}}
    BY <2>2, <2>3 DEF Learnt
  <2>5. known \subseteq {Reported(n, watch)}
    BY <1>5, <2>1
  <2>6. Learnt(req, rsp) \subseteq {Reported(n, watch)}
    BY <2>4, <2>5
  <2> QED BY <1>4, <2>6 DEF t, n, rsp
<1>9. CASE /\ c \in Ports /\ req.pkg = NCSI_PKG_ID
           /\ t = ncsi_org_cmd_table(u, c, req) /\ Good(t, u, c, req) /\ c = w
  <2>1. Follows(t, u, w, req) /\ t.rsp.kind # "none"
    BY <1>9 DEF Good
  <2>2. Reports(req) => Sets(req) = {}
    <3>1. Reports(req) => req.cmd \notin Setters
      BY DEF Reports, Setters
    <3> QED BY <3>1, SetsNothing
  <2>3. Sets(req) = {} => V(t) = V(nc)
    BY <2>1, <1>5 DEF Follows, CarriedOut
  <2>4. t.rsp.reason = "PARAMETER_IS_INVALID" => V(t) = V(nc)
    BY <2>1, <1>5 DEF Follows
  <2>6. /\ Sets(req) # {} /\ t.rsp.reason # "PARAMETER_IS_INVALID" /\ Accepted(req, t.rsp)
        => Sets(req) = {V(t)}
    BY <2>1 DEF Follows, CarriedOut, Accepted
  <2>7. Reports(req) =>
          (IF watch.field = "link" THEN t.rsp.status.up
           ELSE IF watch.field \in {ENABLE, TX_ENABLE} THEN watch.field \in t.rsp.valid_modes
           ELSE t.rsp[watch.field]) = V(t)
    <3>1. Reports(req) =>
            (IF watch.field = "link" THEN t.rsp.status.up
             ELSE IF watch.field \in {ENABLE, TX_ENABLE} THEN watch.field \in t.rsp.valid_modes
             ELSE t.rsp[watch.field]) = V(u)
      <4> HIDE DEF u, c
      <4> QED BY <1>1, <1>9, ReportTells
    <3> QED BY <3>1, <2>2, <2>3, <1>5
  <2> HIDE DEF V, t, n, u, c
  <2>8. CASE rsp.kind # "none" /\ Reports(req)
    <3>1. rsp = t.rsp
      BY <1>6, <2>8
    <3>2. Learnt(req, rsp) = {V(t)}
      BY <2>7, <2>8, <3>1 DEF Learnt
    <3> QED BY <1>4, <1>5, <3>2 DEF t, n
  <2>9. CASE ~(rsp.kind # "none" /\ Reports(req)) /\ Sets(req) = {}
    <3>1. Learnt(req, rsp) = known
      BY <2>9 DEF Learnt
    <3> QED BY <1>4, <1>5, <2>3, <2>9, <3>1 DEF t, n
  <2>10. CASE /\ ~(rsp.kind # "none" /\ Reports(req)) /\ Sets(req) # {}
              /\ rsp.kind = "none" \/ req.chn = AllChannels
    <3>1. Learnt(req, rsp) = {}
      BY <1>2, <1>9, <2>10 DEF Learnt
    <3> QED BY <1>4, <3>1 DEF t, n
  <2>11. CASE /\ ~(rsp.kind # "none" /\ Reports(req)) /\ Sets(req) # {}
              /\ rsp.kind # "none" /\ req.chn # AllChannels
    <3>1. rsp = t.rsp
      BY <1>6, <2>11
    <3> HIDE DEF rsp
    <3>2. Learnt(req, rsp) = IF t.rsp.reason = "PARAMETER_IS_INVALID" THEN known
                             ELSE IF Accepted(req, t.rsp) THEN Sets(req) ELSE {}
      BY <1>2, <1>9, <2>11, <3>1 DEF Learnt
    <3>3. Learnt(req, rsp) \subseteq {V(t)}
      BY <1>5, <2>4, <2>6, <2>11, <3>2
    <3> QED BY <1>4, <1>5, <3>3 DEF t, n, rsp
  <2> QED BY <2>8, <2>9, <2>10, <2>11
<1> QED BY <1>1, <1>7, <1>8, <1>9

(***************************************************************************)
(* The current channel.                                                    *)
(***************************************************************************)

\* CurrentTransmits, of two states of the package.
Carries(t, s) ==
  IF t.current # NoChannel
  THEN \/ Transmits(t, t.current) \/ (s.current = t.current /\ ~Transmits(s, t.current))
       \/ t.chan[t.current].channel_status \subseteq {READY}
  ELSE \A p \in Ports : Transmits(t, p) => Transmits(s, p) /\ s.current # p

LEMMA SameCarries ==
  ASSUME NEW R, NEW s \in Package(R), NEW t, t.chan = s.chan, t.current = s.current
  PROVE  Carries(t, s)
BY PortFacts DEF Carries, Transmits

\* What the handlers keep of one channel is enough for all of them.
LEMMA GoodCarries ==
  ASSUME NEW R, NEW s \in Package(R), NEW c \in Ports, NEW t, SameBut(t, s, c),
         KeepsCurrent(t, s, c), t.current \in Ports \cup {NoChannel}
  PROVE  Carries(t, s)
<1>1. \A p \in Ports : p # c => (Transmits(t, p) <=> Transmits(s, p))
  BY DEF SameBut, Transmits
<1>2. CASE /\ t.current = s.current
           /\ Transmits(t, c) => Transmits(s, c)
           /\ Transmits(s, c) /\ ~Transmits(t, c) /\ s.current = c =>
                t.chan[c].channel_status \subseteq {READY}
  <2>1. CASE t.current = c
    BY <1>2, <2>1, PortFacts DEF Carries
  <2>2. CASE t.current # c
    BY <1>1, <1>2, <2>2, PortFacts DEF Carries
  <2> QED BY <2>1, <2>2
<1>3. CASE t.current = c /\ Transmits(t, c)
  BY <1>3, PortFacts DEF Carries
<1>4. CASE t.current = NoChannel /\ s.current = c /\ ~Transmits(t, c)
  BY <1>1, <1>4 DEF Carries
<1> QED BY <1>2, <1>3, <1>4 DEF KeepsCurrent

LEMMA RequestCarries ==
  ASSUME watch \in Settings, nc \in Package({NoResponse}), NEW req \in AllRequests
  PROVE  Carries([ncsi_rx2(nc, req) EXCEPT !.rsp = NoResponse], nc)
<1> DEFINE t == ncsi_rx2(nc, req)
           c == Addressed(nc, req)
           u == [nc EXCEPT !.port_bak = IF req.chn = AllChannels THEN c ELSE @]
           n == [t EXCEPT !.rsp = NoResponse]
<1>1. /\ u \in Package({NoResponse}) /\ u.chan = nc.chan /\ u.current = nc.current
      /\ t = [u EXCEPT !.rsp = NoResponse] \/ (c \in Ports /\ Good(t, u, c, req))
  BY RequestGood
<1> HIDE DEF u, c, t
<1>2. CASE t = [u EXCEPT !.rsp = NoResponse]
  <2>1. t \in Package({t.rsp}) /\ t.chan = nc.chan /\ t.current = nc.current
    BY <1>1, <1>2, Responded
  <2>2. n.chan = nc.chan /\ n.current = nc.current
    BY <2>1, Responded
  <2> HIDE DEF n
  <2>3. Carries(n, nc)
    BY <2>2, SameCarries
  <2> QED BY <2>3 DEF n, t
<1>3. CASE c \in Ports /\ Good(t, u, c, req)
  <2>1. t \in Package({t.rsp}) /\ SameBut(t, u, c) /\ KeepsCurrent(t, u, c)
    BY <1>3 DEF Good
  <2>2. t.current \in Ports \cup {NoChannel}
    BY <2>1 DEF Package
  <2>3. Carries(t, u)
    BY <1>1, <1>3, <2>1, <2>2, GoodCarries
  <2>4. n.chan = t.chan /\ n.current = t.current
    BY <2>1, Responded
  <2> HIDE DEF n
  <2>5. Carries(n, nc)
    BY <1>1, <2>3, <2>4 DEF Carries, Transmits
  <2> QED BY <2>5 DEF n, t
<1> QED BY <1>1, <1>2, <1>3

(***************************************************************************)
(* The specification.                                                      *)
(***************************************************************************)

\* What holds of package and controller together.
IInv == nc \in Package({NoResponse}) /\ watch \in Watched /\ KnownIsReported

LEMMA WatchedSettings == Watched \subseteq Settings
BY WatchedAssumption DEF Settings

LEMMA InitIInv == ControllerInit => IInv
<1> SUFFICES ASSUME ControllerInit PROVE IInv
  OBVIOUS
<1>1. PICK links \in Links : nc = ncsi_init(links)
  BY DEF ControllerInit
<1>2. [ncsi_init_dev EXCEPT !.channel_status = {READY}] \in Chan
  BY DEF ncsi_init_dev, Chan, READY, StatusBits
<1>3. nc \in Package({NoResponse})
  BY <1>1, <1>2, LinksAssumption, PortFacts DEF ncsi_init, Package
<1> QED BY <1>3 DEF ControllerInit, IInv, KnownIsReported

LEMMA CommandKeeps ==
  ASSUME IInv, NEW arrives \in BOOLEAN, NEW req \in Requests, Command(req, arrives)
  PROVE  IInv' /\ Carries(nc', nc)
<1> DEFINE t == ncsi_rx2(nc, req)
           n == [t EXCEPT !.rsp = NoResponse]
           l == Learnt(req, IF arrives THEN t.rsp ELSE NoResponse)
<1>1. watch \in Settings /\ nc \in Package({NoResponse}) /\ req \in AllRequests
  BY WatchedSettings, RequestsAssumption DEF IInv
<1>2. n \in Package({NoResponse}) /\ l \subseteq {Reported(n, watch)}
  BY <1>1, Learns DEF IInv
<1>3. Carries(n, nc)
  BY <1>1, RequestCarries
<1>4. nc' = n /\ known' = l /\ watch' = watch
  BY DEF Command
<1> HIDE DEF n, l
<1>5. KnownIsReported'
  BY <1>2, <1>4 DEF KnownIsReported
<1> QED BY <1>2, <1>3, <1>4, <1>5 DEF IInv

LEMMA LinkChangeKeeps ==
  ASSUME IInv, NEW arrives \in BOOLEAN, NEW links \in Links, NEW c \in Ports,
         LinkChanges(links, c, arrives)
  PROVE  IInv' /\ Carries(nc', nc)
<1> DEFINE t == [nc EXCEPT !.link = links]
           w == watch.chn
<1>1. watch \in Settings /\ nc \in Package({NoResponse}) /\ w \in Ports
  BY WatchedSettings DEF IInv, Settings
<1>2. /\ t \in Package({NoResponse}) /\ t.link = links /\ t.chan = nc.chan
      /\ t.current = nc.current
  BY <1>1, LinksAssumption DEF Package
<1>3. /\ \A p \in Ports \ {c} : links[p] = nc.link[p]
      /\ nc' = t /\ watch' = watch
      /\ known' = IF watch # [chn |-> c, field |-> "link"] THEN known
                  ELSE IF arrives THEN {ncsi_set_lan_status(t, c).status.up} ELSE {}
  BY DEF LinkChanges
<1> HIDE DEF t
<1>4. /\ Reported(nc, watch) = Val(nc.link[w].up, nc.chan[w])
      /\ Reported(t, watch) = Val(links[w].up, nc.chan[w])
  BY <1>1, <1>2, ReportedIs
<1>5. ASSUME watch # [chn |-> c, field |-> "link"]
      PROVE  known' \subseteq {Reported(t, watch)}
  <2>1. w # c \/ watch.field # "link"
    BY <1>1, <1>5 DEF Settings
  <2>2. w # c => links[w] = nc.link[w]
    BY <1>1, <1>3
  <2>3. watch.field # "link" => Val(links[w].up, nc.chan[w]) = Val(nc.link[w].up, nc.chan[w])
    BY <1>1 DEF Val, Settings
  <2>4. Reported(t, watch) = Reported(nc, watch)
    BY <1>4, <2>1, <2>2, <2>3
  <2>5. known' \subseteq {Reported(t, watch)}
    BY <1>3, <1>5, <2>4 DEF IInv, KnownIsReported
  <2> QED BY <2>5
<1>6. ASSUME watch = [chn |-> c, field |-> "link"]
      PROVE  known' \subseteq {Reported(t, watch)}
  <2>1. watch.field = "link" /\ w = c
    BY <1>6
  <2>2. ncsi_set_lan_status(t, c).status.up = links[c].up
    BY <1>2 DEF ncsi_set_lan_status, ncsi_lan_status
  <2>3. Reported(t, watch) = links[c].up
    BY <1>4, <2>1 DEF Val
  <2> HIDE DEF w
  <2>4. known' \in {{}, {Reported(t, watch)}}
    BY <1>3, <1>6, <2>2, <2>3
  <2> QED BY <2>4
<1>7. known' \subseteq {Reported(t, watch)}
  BY <1>5, <1>6
<1>8. KnownIsReported'
  BY <1>3, <1>7 DEF KnownIsReported
<1>9. Carries(nc', nc)
  BY <1>1, <1>2, <1>3, SameCarries
<1> QED BY <1>2, <1>3, <1>8, <1>9 DEF IInv

LEMMA StepKeeps ==
  ASSUME IInv, ControllerNext
  PROVE  IInv' /\ Carries(nc', nc)
BY CommandKeeps, LinkChangeKeeps DEF ControllerNext

LEMMA InductiveInvariant == ControllerSpec => []IInv
<1>1. IInv /\ UNCHANGED vars => IInv'
  BY DEF IInv, vars, KnownIsReported
<1>2. IInv /\ [ControllerNext]_vars => IInv'
  BY <1>1, StepKeeps
<1> QED BY <1>2, InitIInv, PTL DEF ControllerSpec

\* Package and controller keep their types: no command addresses a port that is not
\* there, not even one for channel id 0x1F.
THEOREM NcsiTypeCorrect == ControllerSpec => []NcsiTypeOK
<1>1. IInv => NcsiTypeOK
  BY DEF IInv, Package, NcsiTypeOK
<1> QED BY <1>1, InductiveInvariant, PTL

\* What the controller has learnt of a setting is what the package reports, whatever
\* it sends to any channel and whichever responses get lost.
THEOREM KnowledgeIsRight == ControllerSpec => []KnownIsReported
<1>1. IInv => KnownIsReported
  BY DEF IInv
<1> QED BY <1>1, InductiveInvariant, PTL

\* The current channel may transmit until a reset or a new initial state takes its
\* status away, and is only missing after its own transmission was disabled.
THEOREM CurrentChannelTransmits == ControllerSpec => CurrentTransmits
<1> DEFINE Step == LET c == nc'.current IN
       IF c # NoChannel
       THEN Transmits(nc', c) \/ (nc.current = c /\ ~Transmits(nc, c))
                              \/ nc'.chan[c].channel_status \subseteq {READY}
       ELSE \A p \in Ports : Transmits(nc', p) =>
              Transmits(nc, p) /\ nc.current # p
<1>1. IInv /\ [ControllerNext]_vars => [Step]_nc
  <2>1. IInv /\ ControllerNext => Step
    BY StepKeeps DEF Carries
  <2> QED BY <2>1 DEF vars
<1> QED BY <1>1, InductiveInvariant, PTL DEF ControllerSpec, CurrentTransmits

(***************************************************************************)
(* A command carried out twice.                                            *)
(***************************************************************************)

\* Writing what is there changes nothing.
LEMMA SameValue ==
  ASSUME NEW R, NEW t \in Package(R), NEW c \in Ports
  PROVE  /\ [t EXCEPT !.rsp = t.rsp] = t /\ [t EXCEPT !.pkg = t.pkg] = t
         /\ [t EXCEPT !.current = t.current] = t /\ [t EXCEPT !.port_bak = t.port_bak] = t
         /\ [t EXCEPT !.chan[c] = t.chan[c]] = t
<1>1. [t.chan EXCEPT ![c] = t.chan[c]] = t.chan
  BY DEF Package
<1>2. [t EXCEPT !.chan = t.chan] = t
  BY DEF Package
<1>3. [t EXCEPT !.chan[c] = t.chan[c]] = t
  BY <1>1, <1>2 DEF Package
<1> QED BY <1>3 DEF Package

\* ... a field of a channel included.
LEMMA SameMode ==
  ASSUME NEW R, NEW t \in Package(R), NEW c \in Ports
  PROVE  LET ch == t.chan[c] IN
           /\ [t EXCEPT !.chan[c].channel_status = ch.channel_status] = t
           /\ [t EXCEPT !.chan[c].aen_ctrl = ch.aen_ctrl] = t
           /\ [t EXCEPT !.chan[c].link_mode = ch.link_mode] = t
           /\ [t EXCEPT !.chan[c].vlan_mode = ch.vlan_mode] = t
           /\ [t EXCEPT !.chan[c].brdc_mode = ch.brdc_mode] = t
           /\ [t EXCEPT !.chan[c].mulc_mode = ch.mulc_mode] = t
<1> DEFINE ch == t.chan[c]
<1>1. ch \in Chan
  BY DEF Package
<1>2. /\ [ch EXCEPT !.channel_status = ch.channel_status] = ch
      /\ [ch EXCEPT !.aen_ctrl = ch.aen_ctrl] = ch
      /\ [ch EXCEPT !.link_mode = ch.link_mode] = ch
      /\ [ch EXCEPT !.vlan_mode = ch.vlan_mode] = ch
      /\ [ch EXCEPT !.brdc_mode = ch.brdc_mode] = ch
      /\ [ch EXCEPT !.mulc_mode = ch.mulc_mode] = ch
  <2> HIDE DEF ch
  <2> QED BY <1>1 DEF Chan
<1>3. [t EXCEPT !.chan[c] = ch] = t
  BY SameValue
<1> QED BY <1>2, <1>3

\* The responses that only tell how it went are the same the second time.
LEMMA SameResponse ==
  ASSUME NEW R, NEW u \in Package(R), NEW c \in Ports
  PROVE  /\ Done(u, c) \in Package({Done(u, c).rsp})
         /\ Done(u, c).chan = u.chan /\ Done(u, c).current = u.current /\ Done(u, c).pkg = u.pkg
         /\ Done(u, c).link = u.link
         /\ Done(Done(u, c), c) = Done(u, c)
         /\ OrNotReady(u, c) \in Package({OrNotReady(u, c).rsp})
         /\ OrNotReady(u, c).chan = u.chan /\ OrNotReady(u, c).current = u.current
         /\ OrNotReady(OrNotReady(u, c), c) = OrNotReady(u, c)
         /\ \A reason : /\ Respond(u, reason) \in Package({Respond(u, reason).rsp})
                        /\ Respond(u, reason).chan = u.chan
                        /\ Respond(Respond(u, reason), reason) = Respond(u, reason)
<1> DEFINE rsp(reason) == [kind |-> "done", code |-> "COMMAND_COMPLETED", reason |-> reason]
           v(reason) == [u EXCEPT !.rsp = rsp(reason)]
<1>1. ASSUME NEW reason
      PROVE  /\ v(reason) \in Package({v(reason).rsp}) /\ v(reason).chan = u.chan
             /\ v(reason).link = u.link /\ v(reason).current = u.current
             /\ v(reason).pkg = u.pkg
             /\ [v(reason) EXCEPT !.rsp = rsp(reason)] = v(reason)
  <2> DEFINE r == rsp(reason)
             t == [u EXCEPT !.rsp = r]
  <2> HIDE DEF r
  <2>1. t \in Package({t.rsp}) /\ t.rsp = r /\ t.chan = u.chan /\ t.link = u.link
        /\ t.current = u.current /\ t.pkg = u.pkg
    BY Responded
  <2>2. [t EXCEPT !.rsp = r] = t
    BY DEF Package
  <2> QED BY <2>1, <2>2 DEF r
<1>2. \A t, reason : Respond(t, reason) = [t EXCEPT !.rsp = rsp(reason)]
  BY DEF Respond
<1>3. \A reason : Respond(u, reason) = v(reason)
  BY <1>2
<1> HIDE DEF v, rsp
<1>4. \A reason : /\ Respond(u, reason) \in Package({Respond(u, reason).rsp})
                  /\ Respond(u, reason).chan = u.chan /\ Respond(u, reason).link = u.link
                  /\ Respond(u, reason).current = u.current /\ Respond(u, reason).pkg = u.pkg
                  /\ Respond(Respond(u, reason), reason) = Respond(u, reason)
  BY <1>1, <1>2, <1>3
<1>5. \A reason : ncsi_init_resp(Respond(u, reason), c) = ncsi_init_resp(u, c)
  BY <1>4 DEF ncsi_init_resp
<1>6. Done(Done(u, c), c) = Done(u, c)
  BY <1>4, <1>5 DEF Done
<1>7. OrNotReady(OrNotReady(u, c), c) = OrNotReady(u, c)
  <2> DEFINE e(t) == IF t.link[c].up THEN ncsi_init_resp(t, c) ELSE "CHANNEL_NOT_READY"
  <2>1. \A reason : e(Respond(u, reason)) = e(u)
    BY <1>4, <1>5
  <2>2. \A t : OrNotReady(t, c) = Respond(t, e(t))
    BY DEF OrNotReady
  <2> HIDE DEF e
  <2> QED BY <1>4, <2>1, <2>2
<1> QED BY <1>4, <1>6, <1>7 DEF Done, OrNotReady

\* The status of a channel is what was written.
LEMMA StatusWritten ==
  ASSUME NEW R, NEW s \in Package(R), NEW c \in Ports, NEW b \in SUBSET StatusBits
  PROVE  LET u == [s EXCEPT !.chan[c].channel_status = b] IN
           u \in Package(R) /\ u.chan[c].channel_status = b
<1>1. s.chan[c] \in Chan
  BY DEF Package
<1>2. [s.chan[c] EXCEPT !.channel_status = b] \in Chan
  BY <1>1 DEF Chan
<1>3. [s.chan[c] EXCEPT !.channel_status = b].channel_status = b
  BY <1>1 DEF Chan
<1> QED BY <1>2, <1>3 DEF Package

\* A handler that has done its work does nothing more, and says the same.
LEMMA HandlerTwice ==
  ASSUME NEW R, NEW s \in Package(R), NEW c \in Ports, NEW req \in AllRequests
  PROVE  LET t == ncsi_org_cmd_table(s, c, req) IN ncsi_org_cmd_table(t, c, req) = t
<1> DEFINE H(x) == ncsi_org_cmd_table(x, c, req)
           ch == s.chan[c]
<1>1. req.cmd \in PlainCommands \cup ModeCommands \cup ByteCommands
  BY RequestFacts
<1>2. /\ ch \in Chan /\ req.arg \in Nat
      /\ req.arg % 256 \in 0 .. 255 /\ 0 \in 0 .. 255
  <2>1. req.arg \in Nat
    BY RequestFacts
  <2> QED BY <2>1 DEF Package
<1>3. ASSUME req.cmd = "clear_initial_state" PROVE H(H(s)) = H(s)
  <2> DEFINE b == {READY}
             u == [s EXCEPT !.chan[c].channel_status = b]
             t == Done(u, c)
  <2>1. b \in SUBSET StatusBits
    BY <1>2 DEF Chan, StatusBits
  <2>2. {READY} = b
    OBVIOUS
  <2>3. \A x : ncsi_check_chn(x, c, READY, TRUE) =
                [x EXCEPT !.chan[c].channel_status = {READY}]
    BY DEF ncsi_check_chn, READY, ENABLE, TX_ENABLE
  <2>4. H(s) = t
    BY <2>3, <1>3 DEF ncsi_org_cmd_table, clear_initial_state
  <2>5. \A x : H(x) = Done([x EXCEPT !.chan[c].channel_status = {READY}], c)
    BY <2>3, <1>3 DEF ncsi_org_cmd_table, clear_initial_state
  <2> HIDE DEF b
  <2>6. u \in Package(R) /\ u.chan[c].channel_status = b
    BY <2>1, StatusWritten
  <2> HIDE DEF u, H
  <2>7. t \in Package({t.rsp}) /\ t.chan = u.chan /\ Done(t, c) = t
    BY <2>6, SameResponse
  <2> HIDE DEF t
  <2>8. [t EXCEPT !.chan[c].channel_status = b] = t
    BY <2>6, <2>7, SameMode
  <2> QED BY <2>2, <2>4, <2>5, <2>6, <2>7, <2>8
<1>4. ASSUME req.cmd = "enable_channel" PROVE H(H(s)) = H(s)
  <2> DEFINE b == s.chan[c].channel_status \cup {ENABLE}
             u == [s EXCEPT !.chan[c].channel_status = b]
             t == OrNotReady(u, c)
  <2>1. b \in SUBSET StatusBits
    BY <1>2 DEF Chan, StatusBits
  <2>2. b \cup {ENABLE} = b
    OBVIOUS
  <2>3. \A x : ncsi_check_chn(x, c, ENABLE, TRUE) =
                [x EXCEPT !.chan[c].channel_status = x.chan[c].channel_status \cup {ENABLE}]
    BY DEF ncsi_check_chn, READY, ENABLE, TX_ENABLE
  <2>4. H(s) = t
    BY <2>3, <1>4 DEF ncsi_org_cmd_table, enable_channel
  <2>5. \A x : H(x) = OrNotReady([x EXCEPT !.chan[c].channel_status = x.chan[c].channel_status \cup {ENABLE}], c)
    BY <2>3, <1>4 DEF ncsi_org_cmd_table, enable_channel
  <2> HIDE DEF b
  <2>6. u \in Package(R) /\ u.chan[c].channel_status = b
    BY <2>1, StatusWritten
  <2> HIDE DEF u, H
  <2>7. t \in Package({t.rsp}) /\ t.chan = u.chan /\ OrNotReady(t, c) = t
    BY <2>6, SameResponse
  <2> HIDE DEF t
  <2>8. [t EXCEPT !.chan[c].channel_status = b] = t
    BY <2>6, <2>7, SameMode
  <2> QED BY <2>2, <2>4, <2>5, <2>6, <2>7, <2>8
<1>5. ASSUME req.cmd = "disable_channel" PROVE H(H(s)) = H(s)
  <2> DEFINE b == s.chan[c].channel_status \ {ENABLE}
             u == [s EXCEPT !.chan[c].channel_status = b]
             t == Done(u, c)
  <2>1. b \in SUBSET StatusBits
    BY <1>2 DEF Chan, StatusBits
  <2>2. b \ {ENABLE} = b
    OBVIOUS
  <2>3. \A x : ncsi_check_chn(x, c, ENABLE, FALSE) =
                [x EXCEPT !.chan[c].channel_status = x.chan[c].channel_status \ {ENABLE}]
    BY DEF ncsi_check_chn, READY, ENABLE, TX_ENABLE
  <2>4. H(s) = t
    BY <2>3, <1>5 DEF ncsi_org_cmd_table, disable_channel
  <2>5. \A x : H(x) = Done([x EXCEPT !.chan[c].channel_status = x.chan[c].channel_status \ {ENABLE}], c)
    BY <2>3, <1>5 DEF ncsi_org_cmd_table, disable_channel
  <2> HIDE DEF b
  <2>6. u \in Package(R) /\ u.chan[c].channel_status = b
    BY <2>1, StatusWritten
  <2> HIDE DEF u, H
  <2>7. t \in Package({t.rsp}) /\ t.chan = u.chan /\ Done(t, c) = t
    BY <2>6, SameResponse
  <2> HIDE DEF t
  <2>8. [t EXCEPT !.chan[c].channel_status = b] = t
    BY <2>6, <2>7, SameMode
  <2> QED BY <2>2, <2>4, <2>5, <2>6, <2>7, <2>8
<1>6. ASSUME req.cmd = "enable_network_tx" PROVE H(H(s)) = H(s)
  <2> DEFINE b == s.chan[c].channel_status \cup {TX_ENABLE}
             k == c
             v(x) == [x EXCEPT !.chan[c].channel_status = x.chan[c].channel_status \cup {TX_ENABLE}]
             u == [[s EXCEPT !.chan[c].channel_status = b] EXCEPT !.current = k]
             t == OrNotReady(u, c)
  <2>1. b \in SUBSET StatusBits /\ k \in Ports \cup {NoChannel}
    BY <1>2 DEF Chan, StatusBits, Package
  <2>2. /\ b \cup {TX_ENABLE} = b
        /\ c = k
    BY PortFacts
  <2>3. \A x : ncsi_check_chn(x, c, TX_ENABLE, TRUE) = v(x)
    BY DEF ncsi_check_chn, READY, TX_ENABLE
  <2>4. ASSUME NEW Q, NEW x \in Package(Q)
        PROVE  H(x) = OrNotReady([v(x) EXCEPT !.current = c], c)
    <3> DEFINE y == v(x)
    <3>1. y.current = x.current
      BY DEF Package
    <3> HIDE DEF y
    <3>2. H(x) = OrNotReady([y EXCEPT !.current = c], c)
      BY <2>3, <1>6 DEF ncsi_org_cmd_table, enable_network_tx, y
    <3> HIDE DEF H
    <3> QED BY <3>1, <3>2 DEF y
  <2>5. H(s) = t
    BY <2>4
  <2> HIDE DEF b, k, H
  <2>6. u \in Package(R) /\ u.chan[c].channel_status = b /\ u.current = k
    <3> DEFINE y == [s EXCEPT !.chan[c].channel_status = b]
    <3>1. y \in Package(R) /\ y.chan[c].channel_status = b
      BY <2>1, StatusWritten
    <3> HIDE DEF y
    <3>2. [y EXCEPT !.current = k] \in Package(R) /\ [y EXCEPT !.current = k].chan = y.chan
          /\ [y EXCEPT !.current = k].current = k
      BY <2>1, <3>1 DEF Package
    <3> QED BY <3>1, <3>2 DEF y
  <2> HIDE DEF u
  <2>7. /\ t \in Package({t.rsp}) /\ t.chan = u.chan /\ t.current = u.current /\ OrNotReady(t, c) = t
    BY <2>6, SameResponse
  <2> HIDE DEF t
  <2>8. v(t) = t
    BY <2>2, <2>6, <2>7, SameMode
  <2>9. [t EXCEPT !.current = c] = t
    <3> HIDE DEF v
    <3> QED BY <2>2, <2>6, <2>7, SameValue
  <2>10. H(t) = OrNotReady([v(t) EXCEPT !.current = c], c)
    BY <2>4, <2>7
  <2> HIDE DEF v
  <2> QED BY <2>5, <2>7, <2>8, <2>9, <2>10
<1>7. ASSUME req.cmd = "disable_network_tx" PROVE H(H(s)) = H(s)
  <2> DEFINE b == s.chan[c].channel_status \ {TX_ENABLE}
             k == (IF s.current = c THEN NoChannel ELSE s.current)
             v(x) == [x EXCEPT !.chan[c].channel_status = x.chan[c].channel_status \ {TX_ENABLE}]
             u == [[s EXCEPT !.chan[c].channel_status = b] EXCEPT !.current = k]
             t == Done(u, c)
  <2>1. b \in SUBSET StatusBits /\ k \in Ports \cup {NoChannel}
    BY <1>2 DEF Chan, StatusBits, Package
  <2>2. /\ b \ {TX_ENABLE} = b
        /\ (IF k = c THEN NoChannel ELSE k) = k
    BY PortFacts
  <2>3. \A x : ncsi_check_chn(x, c, TX_ENABLE, FALSE) = v(x)
    BY DEF ncsi_check_chn, READY, TX_ENABLE
  <2>4. ASSUME NEW Q, NEW x \in Package(Q)
        PROVE  H(x) = Done([v(x) EXCEPT !.current = (IF x.current = c THEN NoChannel ELSE x.current)], c)
    <3> DEFINE y == v(x)
    <3>1. y.current = x.current
      BY DEF Package
    <3> HIDE DEF y
    <3>2. H(x) = Done([y EXCEPT !.current = (IF y.current = c THEN NoChannel ELSE y.current)], c)
      BY <2>3, <1>7 DEF ncsi_org_cmd_table, disable_network_tx, y
    <3> HIDE DEF H
    <3> QED BY <3>1, <3>2 DEF y
  <2>5. H(s) = t
    BY <2>4
  <2> HIDE DEF b, k, H
  <2>6. u \in Package(R) /\ u.chan[c].channel_status = b /\ u.current = k
    <3> DEFINE y == [s EXCEPT !.chan[c].channel_status = b]
    <3>1. y \in Package(R) /\ y.chan[c].channel_status = b
      BY <2>1, StatusWritten
    <3> HIDE DEF y
    <3>2. [y EXCEPT !.current = k] \in Package(R) /\ [y EXCEPT !.current = k].chan = y.chan
          /\ [y EXCEPT !.current = k].current = k
      BY <2>1, <3>1 DEF Package
    <3> QED BY <3>1, <3>2 DEF y
  <2> HIDE DEF u
  <2>7. /\ t \in Package({t.rsp}) /\ t.chan = u.chan /\ t.current = u.current /\ Done(t, c) = t
    BY <2>6, SameResponse
  <2> HIDE DEF t
  <2>8. v(t) = t
    BY <2>2, <2>6, <2>7, SameMode
  <2>9. [t EXCEPT !.current = (IF t.current = c THEN NoChannel ELSE t.current)] = t
    <3> HIDE DEF v
    <3> QED BY <2>2, <2>6, <2>7, SameValue
  <2>10. H(t) = Done([v(t) EXCEPT !.current = (IF t.current = c THEN NoChannel ELSE t.current)], c)
    BY <2>4, <2>7
  <2> HIDE DEF v
  <2> QED BY <2>5, <2>7, <2>8, <2>9, <2>10
<1>8. ASSUME req.cmd = "reset_channel" PROVE H(H(s)) = H(s)
  <2> DEFINE u == [s EXCEPT !.chan[c] = ncsi_init_dev]
             t == Done(u, c)
  <2>1. u \in Package(R) /\ u.chan[c] = ncsi_init_dev
    BY InitDev, ChanChange
  <2>2. \A x : H(x) = Done([x EXCEPT !.chan[c] = ncsi_init_dev], c)
    BY <1>8 DEF ncsi_org_cmd_table, reset_channel
  <2>3. H(s) = t
    BY <2>2
  <2> HIDE DEF u, H
  <2>4. t \in Package({t.rsp}) /\ t.chan = u.chan /\ Done(t, c) = t
    BY <2>1, SameResponse
  <2> HIDE DEF t
  <2>5. [t EXCEPT !.chan[c] = ncsi_init_dev] = t
    BY <2>1, <2>4, SameValue
  <2> QED BY <2>2, <2>3, <2>4, <2>5
<1>9. ASSUME req.cmd = "enable_aen" PROVE H(H(s)) = H(s)
  <2> DEFINE u == [s EXCEPT !.chan[c].aen_ctrl = req.arg % 256]
             t == Done(u, c)
  <2>1. u \in Package(R) /\ u.chan[c].aen_ctrl = req.arg % 256
    BY <1>2 DEF Package, Chan
  <2>2. H(s) = t
    BY <1>9 DEF ncsi_org_cmd_table, enable_aen
  <2> HIDE DEF u
  <2>3. t \in Package({t.rsp}) /\ t.chan = u.chan /\ Done(t, c) = t
    BY <2>1, SameResponse
  <2> HIDE DEF t
  <2>4. [t EXCEPT !.chan[c].aen_ctrl = req.arg % 256] = t
    BY <2>1, <2>3, SameMode
  <2>5. H(t) = Done([t EXCEPT !.chan[c].aen_ctrl = req.arg % 256], c)
    BY <1>9 DEF ncsi_org_cmd_table, enable_aen
  <2> HIDE DEF H
  <2> QED BY <2>2, <2>3, <2>4, <2>5
<1>10. ASSUME req.cmd = "set_link" PROVE H(H(s)) = H(s)
  <2> DEFINE u == [s EXCEPT !.chan[c].link_mode = req.arg]
             t == Done(u, c)
  <2>1. u \in Package(R) /\ u.chan[c].link_mode = req.arg
    BY <1>2 DEF Package, Chan
  <2>2. H(s) = t
    BY <1>10 DEF ncsi_org_cmd_table, set_link
  <2> HIDE DEF u
  <2>3. t \in Package({t.rsp}) /\ t.chan = u.chan /\ Done(t, c) = t
    BY <2>1, SameResponse
  <2> HIDE DEF t
  <2>4. [t EXCEPT !.chan[c].link_mode = req.arg] = t
    BY <2>1, <2>3, SameMode
  <2>5. H(t) = Done([t EXCEPT !.chan[c].link_mode = req.arg], c)
    BY <1>10 DEF ncsi_org_cmd_table, set_link
  <2> HIDE DEF H
  <2> QED BY <2>2, <2>3, <2>4, <2>5
<1>11. ASSUME req.cmd = "disable_vlan" PROVE H(H(s)) = H(s)
  <2> DEFINE u == [s EXCEPT !.chan[c].vlan_mode = 0]
             t == Done(u, c)
  <2>1. u \in Package(R) /\ u.chan[c].vlan_mode = 0
    BY <1>2 DEF Package, Chan
  <2>2. H(s) = t
    BY <1>11 DEF ncsi_org_cmd_table, disable_vlan
  <2> HIDE DEF u
  <2>3. t \in Package({t.rsp}) /\ t.chan = u.chan /\ Done(t, c) = t
    BY <2>1, SameResponse
  <2> HIDE DEF t
  <2>4. [t EXCEPT !.chan[c].vlan_mode = 0] = t
    BY <2>1, <2>3, SameMode
  <2>5. H(t) = Done([t EXCEPT !.chan[c].vlan_mode = 0], c)
    BY <1>11 DEF ncsi_org_cmd_table, disable_vlan
  <2> HIDE DEF H
  <2> QED BY <2>2, <2>3, <2>4, <2>5
<1>12. ASSUME req.cmd = "enable_broadcast_filter" PROVE H(H(s)) = H(s)
  <2> DEFINE u == [s EXCEPT !.chan[c].brdc_mode = req.arg % 256]
             t == Done(u, c)
  <2>1. u \in Package(R) /\ u.chan[c].brdc_mode = req.arg % 256
    BY <1>2 DEF Package, Chan
  <2>2. H(s) = t
    BY <1>12 DEF ncsi_org_cmd_table, enable_broadcast_filter
  <2> HIDE DEF u
  <2>3. t \in Package({t.rsp}) /\ t.chan = u.chan /\ Done(t, c) = t
    BY <2>1, SameResponse
  <2> HIDE DEF t
  <2>4. [t EXCEPT !.chan[c].brdc_mode = req.arg % 256] = t
    BY <2>1, <2>3, SameMode
  <2>5. H(t) = Done([t EXCEPT !.chan[c].brdc_mode = req.arg % 256], c)
    BY <1>12 DEF ncsi_org_cmd_table, enable_broadcast_filter
  <2> HIDE DEF H
  <2> QED BY <2>2, <2>3, <2>4, <2>5
<1>13. ASSUME req.cmd = "disable_broadcast_filter" PROVE H(H(s)) = H(s)
  <2> DEFINE u == [s EXCEPT !.chan[c].brdc_mode = 0]
             t == Done(u, c)
  <2>1. u \in Package(R) /\ u.chan[c].brdc_mode = 0
    BY <1>2 DEF Package, Chan
  <2>2. H(s) = t
    BY <1>13 DEF ncsi_org_cmd_table, disable_broadcast_filter
  <2> HIDE DEF u
  <2>3. t \in Package({t.rsp}) /\ t.chan = u.chan /\ Done(t, c) = t
    BY <2>1, SameResponse
  <2> HIDE DEF t
  <2>4. [t EXCEPT !.chan[c].brdc_mode = 0] = t
    BY <2>1, <2>3, SameMode
  <2>5. H(t) = Done([t EXCEPT !.chan[c].brdc_mode = 0], c)
    BY <1>13 DEF ncsi_org_cmd_table, disable_broadcast_filter
  <2> HIDE DEF H
  <2> QED BY <2>2, <2>3, <2>4, <2>5
<1>14. ASSUME req.cmd = "enable_global_multicast_filter" PROVE H(H(s)) = H(s)
  <2> DEFINE u == [s EXCEPT !.chan[c].mulc_mode = req.arg % 256]
             t == Respond(u, "COMMAND_UNSUPPORTED")
  <2>1. u \in Package(R) /\ u.chan[c].mulc_mode = req.arg % 256
    BY <1>2 DEF Package, Chan
  <2>2. H(s) = t
    BY <1>14 DEF ncsi_org_cmd_table, enable_global_multicast_filter
  <2> HIDE DEF u
  <2>3. t \in Package({t.rsp}) /\ t.chan = u.chan /\ Respond(t, "COMMAND_UNSUPPORTED") = t
    BY <2>1, SameResponse
  <2> HIDE DEF t
  <2>4. [t EXCEPT !.chan[c].mulc_mode = req.arg % 256] = t
    BY <2>1, <2>3, SameMode
  <2>5. H(t) = Respond([t EXCEPT !.chan[c].mulc_mode = req.arg % 256], "COMMAND_UNSUPPORTED")
    BY <1>14 DEF ncsi_org_cmd_table, enable_global_multicast_filter
  <2> HIDE DEF H
  <2> QED BY <2>2, <2>3, <2>4, <2>5
<1>15. ASSUME req.cmd = "disable_global_multicast_filter" PROVE H(H(s)) = H(s)
  <2> DEFINE u == [s EXCEPT !.chan[c].mulc_mode = 0]
             t == Respond(u, "COMMAND_UNSUPPORTED")
  <2>1. u \in Package(R) /\ u.chan[c].mulc_mode = 0
    BY <1>2 DEF Package, Chan
  <2>2. H(s) = t
    BY <1>15 DEF ncsi_org_cmd_table, disable_global_multicast_filter
  <2> HIDE DEF u
  <2>3. t \in Package({t.rsp}) /\ t.chan = u.chan /\ Respond(t, "COMMAND_UNSUPPORTED") = t
    BY <2>1, SameResponse
  <2> HIDE DEF t
  <2>4. [t EXCEPT !.chan[c].mulc_mode = 0] = t
    BY <2>1, <2>3, SameMode
  <2>5. H(t) = Respond([t EXCEPT !.chan[c].mulc_mode = 0], "COMMAND_UNSUPPORTED")
    BY <1>15 DEF ncsi_org_cmd_table, disable_global_multicast_filter
  <2> HIDE DEF H
  <2> QED BY <2>2, <2>3, <2>4, <2>5
<1>16. ASSUME req.cmd = "enable_vlan", req.arg = 1 PROVE H(H(s)) = H(s)
  <2> DEFINE u == [s EXCEPT !.chan[c].vlan_mode = 1]
             t == Done(u, c)
  <2>1. u \in Package(R) /\ u.chan[c].vlan_mode = 1
    BY <1>2 DEF Package, Chan
  <2>2. H(s) = t
    BY <1>16 DEF ncsi_org_cmd_table, enable_vlan
  <2> HIDE DEF u
  <2>3. t \in Package({t.rsp}) /\ t.chan = u.chan /\ Done(t, c) = t
    BY <2>1, SameResponse
  <2> HIDE DEF t
  <2>4. [t EXCEPT !.chan[c].vlan_mode = 1] = t
    BY <2>1, <2>3, SameMode
  <2>5. H(t) = Done([t EXCEPT !.chan[c].vlan_mode = 1], c)
    BY <1>16 DEF ncsi_org_cmd_table, enable_vlan
  <2> HIDE DEF H
  <2> QED BY <2>2, <2>3, <2>4, <2>5
<1>17. ASSUME req.cmd = "enable_vlan", req.arg # 1 PROVE H(H(s)) = H(s)
  <2>1. \A x : H(x) = Respond(x, "PARAMETER_IS_INVALID")
    BY <1>17 DEF ncsi_org_cmd_table, enable_vlan
  <2> HIDE DEF H
  <2> QED BY <2>1, SameResponse
<1>18. ASSUME req.cmd = "select_package" PROVE H(H(s)) = H(s)
  <2> DEFINE u == [s EXCEPT !.pkg = 1]
             t == Done(u, c)
  <2>1. u \in Package(R) /\ u.pkg = 1
    BY DEF Package
  <2>2. \A x : H(x) = Done([x EXCEPT !.pkg = 1], c)
    BY <1>18 DEF ncsi_org_cmd_table, select_package
  <2>3. H(s) = t
    BY <2>2
  <2> HIDE DEF u, H
  <2>4. t \in Package({t.rsp}) /\ t.pkg = u.pkg /\ Done(t, c) = t
    BY <2>1, SameResponse
  <2> HIDE DEF t
  <2>5. [t EXCEPT !.pkg = 1] = t
    BY <2>1, <2>4, SameValue
  <2> QED BY <2>2, <2>3, <2>4, <2>5
<1>19. ASSUME req.cmd = "deselect_package" PROVE H(H(s)) = H(s)
  <2> DEFINE u == [s EXCEPT !.pkg = 0]
             t == Done(u, c)
  <2>1. u \in Package(R) /\ u.pkg = 0
    BY DEF Package
  <2>2. \A x : H(x) = Done([x EXCEPT !.pkg = 0], c)
    BY <1>19 DEF ncsi_org_cmd_table, deselect_package
  <2>3. H(s) = t
    BY <2>2
  <2> HIDE DEF u, H
  <2>4. t \in Package({t.rsp}) /\ t.pkg = u.pkg /\ Done(t, c) = t
    BY <2>1, SameResponse
  <2> HIDE DEF t
  <2>5. [t EXCEPT !.pkg = 0] = t
    BY <2>1, <2>4, SameValue
  <2> QED BY <2>2, <2>3, <2>4, <2>5
<1>20. ASSUME req.cmd \in {"set_mac_address", "get_version_id", "oem_get_sn", "oem_power_events"} PROVE H(H(s)) = H(s)
  <2>1. \A x : H(x) = Done(x, c)
    BY <1>20 DEF ncsi_org_cmd_table, set_mac_address, get_version_id, oem_get_sn, oem_power_events
  <2> HIDE DEF H
  <2> QED BY <2>1, SameResponse
<1>21. ASSUME req.cmd \in {"set_flow_control", "get_ncsi_statistics", "get_ncsi_pass_through", "unsupported_cmd"} PROVE H(H(s)) = H(s)
  <2>1. \A x : H(x) = Respond(x, "COMMAND_UNSUPPORTED")
    BY <1>21 DEF ncsi_org_cmd_table, set_flow_control, get_ncsi_statistics, get_ncsi_pass_through,
       unsupported_cmd
  <2> HIDE DEF H
  <2> QED BY <2>1, SameResponse
<1>22. ASSUME req.cmd = "set_vlan_filter" PROVE H(H(s)) = H(s)
  <2>1. CASE req.arg \in 1 .. NCSI_VLAN_TAG_NUM
    <3>1. \A x : H(x) = Done(x, c)
      BY <1>22, <2>1 DEF ncsi_org_cmd_table, set_vlan_filter, Done
    <3> HIDE DEF H
    <3> QED BY <3>1, SameResponse
  <2>2. CASE req.arg \notin 1 .. NCSI_VLAN_TAG_NUM
    <3>1. \A x : H(x) = Respond(x, "PARAMETER_IS_INVALID")
      BY <1>22, <2>2 DEF ncsi_org_cmd_table, set_vlan_filter
    <3> HIDE DEF H
    <3> QED BY <3>1, SameResponse
  <2> QED BY <2>1, <2>2
<1>23. ASSUME req.cmd = "get_link_status" PROVE H(H(s)) = H(s)
  <2> DEFINE r(x) == [kind |-> "status", code |-> x.rsp.code, reason |-> x.rsp.reason,
                      status |-> ncsi_lan_status(s.link[c])]
             u == Done(s, c)
             t == [u EXCEPT !.rsp = r(u)]
  <2>1. \A x : x.link = s.link => H(x) = [Done(x, c) EXCEPT !.rsp = r(Done(x, c))]
    BY <1>23 DEF ncsi_org_cmd_table, get_link_status
  <2>2. u \in Package({u.rsp}) /\ Done(u, c) = u
    BY SameResponse
  <2>3. /\ ncsi_init_resp(t, c) = ncsi_init_resp(u, c)
        /\ t.link = u.link /\ u.link = s.link
    <3>1. u.link = s.link
      BY SameResponse
    <3> HIDE DEF u
    <3>2. t.chan = u.chan /\ t.link = u.link
      BY <2>2, Responded
    <3> QED BY <3>1, <3>2 DEF ncsi_init_resp
  <2>4. Done(t, c) = [t EXCEPT !.rsp = Done(u, c).rsp]
    BY <2>2, <2>3 DEF Done, Respond, Package
  <2>5. Done(t, c) = u
    BY <2>2, <2>4 DEF Package
  <2>6. H(t) = [u EXCEPT !.rsp = r(u)]
    BY <2>1, <2>3, <2>5
  <2>7. H(s) = t
    BY <2>1
  <2> HIDE DEF t, H
  <2> QED BY <2>6, <2>7 DEF t
<1>24. ASSUME req.cmd = "get_capabilities" PROVE H(H(s)) = H(s)
  <2> DEFINE r(x) == [kind |-> "capabilities", code |-> x.rsp.code, reason |-> x.rsp.reason,
                      flow_control |-> TRUE, aen_cap |-> 3, vlan_mode |-> 1,
                      channel_cnt |-> PortNum]
             u == Done(s, c)
             t == [u EXCEPT !.rsp = r(u)]
  <2>1. \A x : H(x) = [Done(x, c) EXCEPT !.rsp = r(Done(x, c))]
    BY <1>24 DEF ncsi_org_cmd_table, get_capabilities
  <2>2. u \in Package({u.rsp}) /\ Done(u, c) = u
    BY SameResponse
  <2>3. ncsi_init_resp(t, c) = ncsi_init_resp(u, c) /\ t.link = u.link
    BY <2>2, Responded DEF ncsi_init_resp
  <2>4. Done(t, c) = [t EXCEPT !.rsp = Done(u, c).rsp]
    BY <2>2, <2>3 DEF Done, Respond, Package
  <2>5. Done(t, c) = u
    BY <2>2, <2>4 DEF Package
  <2>6. H(t) = [u EXCEPT !.rsp = r(u)]
    BY <2>1, <2>5
  <2>7. H(s) = t
    BY <2>1
  <2> HIDE DEF t, H
  <2> QED BY <2>6, <2>7 DEF t
<1>25. ASSUME req.cmd = "get_parameters" PROVE H(H(s)) = H(s)
  <2> DEFINE r(x) == [kind |-> "parameters", code |-> "COMMAND_COMPLETED", reason |-> "NO_ERROR",
                      valid_modes |-> x[c].channel_status \ {READY}, bc_mode |-> x[c].brdc_mode,
                      vlan_mode |-> x[c].vlan_mode, link_mode |-> x[c].link_mode,
                      aen_mode |-> x[c].aen_ctrl]
             t == [s EXCEPT !.rsp = r(s.chan)]
  <2>1. \A x : H(x) = [x EXCEPT !.rsp = r(x.chan)]
    BY <1>25 DEF ncsi_org_cmd_table, get_parameters
  <2> HIDE DEF r, H
  <2>2. t \in Package({t.rsp}) /\ t.rsp = r(s.chan) /\ t.chan = s.chan
    BY Responded
  <2>3. H(s) = t
    BY <2>1
  <2> HIDE DEF t
  <2> QED BY <2>1, <2>2, <2>3, SameValue
<1>26. ASSUME req.cmd = "get_controller_statistics" PROVE H(H(s)) = H(s)
  <2> DEFINE r == [kind |-> "done", code |-> "COMMAND_FAILED", reason |-> "COMMAND_UNSUPPORTED"]
             t == [s EXCEPT !.rsp = r]
  <2>1. \A x : H(x) = [x EXCEPT !.rsp = r]
    BY <1>26 DEF ncsi_org_cmd_table, get_controller_statistics
  <2> HIDE DEF r, H
  <2>2. t \in Package({t.rsp}) /\ t.rsp = r
    BY Responded
  <2>3. H(s) = t
    BY <2>1
  <2> HIDE DEF t
  <2> QED BY <2>1, <2>2, <2>3, SameValue
<1> HIDE DEF H
<1>27. H(H(s)) = H(s)
  BY <1>1, <1>3, <1>4, <1>5, <1>6, <1>7, <1>8, <1>9, <1>10, <1>11, <1>12, <1>13, <1>14, <1>15, <1>16, <1>17, <1>18, <1>19, <1>20, <1>21, <1>22, <1>23, <1>24, <1>25, <1>26
     DEF PlainCommands, ModeCommands, ByteCommands
<1> QED BY <1>27 DEF H

\* The same request goes to the same channel, unless it has channel id 0x1F and no
\* link is up, and finds the package as the first one left it.
LEMMA RequestTwice ==
  ASSUME watch \in Settings, nc \in Package({NoResponse}), NEW req \in AllRequests,
         req.chn # AllChannels \/ \E p \in Ports : nc.link[p].up
  PROVE  LET once == ncsi_rx2(nc, req) IN ncsi_rx2(once, req) = once
<1> DEFINE t == ncsi_rx2(nc, req)
           c == Addressed(nc, req)
           u == [nc EXCEPT !.port_bak = IF req.chn = AllChannels THEN c ELSE @]
           refused == c >= PortNum \/ req.pkg # NCSI_PKG_ID
<1>1. /\ u \in Package({NoResponse}) /\ u.link = nc.link
      /\ \/ t = [u EXCEPT !.rsp = NoResponse]
         \/ c \in Ports /\ t = ncsi_org_cmd_table(u, c, req) /\ Good(t, u, c, req)
  BY RequestGood
<1>2. t = IF refused THEN [u EXCEPT !.rsp = NoResponse] ELSE ncsi_org_cmd_table(u, c, req)
  BY DEF ncsi_rx2
<1>3. req.chn = AllChannels => u.port_bak = c
  BY DEF Package
<1> HIDE DEF u, t
<1>4. /\ t \in Package({t.rsp}) /\ t.link = nc.link /\ t.port_bak = u.port_bak
  <2>1. CASE t = [u EXCEPT !.rsp = NoResponse]
    BY <1>1, <2>1, Responded
  <2>2. CASE Good(t, u, c, req)
    BY <1>1, <2>2 DEF Good, SameBut
  <2> QED BY <1>1, <2>1, <2>2
<1>5. Addressed(t, req) = c
  <2>1. {p \in Ports : t.link[p].up} = {p \in Ports : nc.link[p].up}
    BY <1>4
  <2>2. CASE req.chn # AllChannels
    BY <2>2 DEF Addressed
  <2>3. CASE \E p \in Ports : nc.link[p].up
    <3> DEFINE up == {p \in Ports : nc.link[p].up}
    <3>1. up # {} /\ {p \in Ports : t.link[p].up} = up
      BY <2>1, <2>3
    <3>2. /\ ncsi_get_valid_port(t) = CHOOSE p \in up : \A q \in up : p <= q
          /\ ncsi_get_valid_port(nc) = CHOOSE p \in up : \A q \in up : p <= q
      <4> HIDE DEF up
      <4>1. ASSUME NEW x, {p \in Ports : x.link[p].up} = up
            PROVE  ncsi_get_valid_port(x) = CHOOSE p \in up : \A q \in up : p <= q
        BY <3>1, <4>1 DEF ncsi_get_valid_port
      <4> QED BY <3>1, <4>1 DEF up
    <3> QED BY <3>2 DEF Addressed
  <2> QED BY <2>2, <2>3
<1>6. [t EXCEPT !.port_bak = IF req.chn = AllChannels THEN c ELSE @] = t
  BY <1>3, <1>4 DEF Package
<1>7. ncsi_rx2(t, req) = IF refused THEN [t EXCEPT !.rsp = NoResponse]
                         ELSE ncsi_org_cmd_table(t, c, req)
  <2>1. ncsi_rx2(t, req) =
          LET v == [t EXCEPT !.port_bak = IF req.chn = AllChannels THEN c ELSE @]
          IN  IF refused THEN [v EXCEPT !.rsp = NoResponse] ELSE ncsi_org_cmd_table(v, c, req)
    BY <1>5 DEF ncsi_rx2
  <2> HIDE DEF refused, c
  <2> QED BY <1>6, <2>1
<1>8. CASE refused
  <2>1. t = [u EXCEPT !.rsp = NoResponse]
    BY <1>2, <1>8
  <2>2. t.rsp = NoResponse
    BY <1>1, <2>1, Responded
  <2>3. [t EXCEPT !.rsp = NoResponse] = t
    BY <1>4, <2>2, SameValue, PortFacts
  <2> QED BY <1>7, <1>8, <2>3 DEF t
<1>9. CASE ~refused
  <2>1. t = ncsi_org_cmd_table(u, c, req)
    BY <1>2, <1>9
  <2>2. c \in Ports
    <3>1. ncsi_get_valid_port(nc) \in Ports /\ req.chn \in Nat
      BY ValidPort, RequestFacts DEF AllChannels
    <3>2. c \in Nat
      BY <3>1, PortFacts DEF Addressed
    <3> QED BY <1>9, <3>2, PortFacts, PortsAssumption
  <2> HIDE DEF c
  <2>3. ncsi_org_cmd_table(t, c, req) = t
    BY <1>1, <2>1, <2>2, HandlerTwice
  <2> QED BY <1>7, <1>9, <2>3 DEF t, c
<1> QED BY <1>8, <1>9

\* A controller that repeats a command whose response got lost is told the same and
\* changes nothing more, whatever the command and whatever it did before; channel
\* id 0x1F while no link is up is the one exception.
THEOREM RepeatsAreHarmless == ControllerSpec => []RepeatIsHarmless
<1>1. IInv => RepeatIsHarmless
  <2> SUFFICES ASSUME IInv, NEW req \in Requests,
                      req.chn # AllChannels \/ \E p \in Ports : nc.link[p].up
               PROVE  LET once == ncsi_rx2(nc, req) IN ncsi_rx2(once, req) = once
    BY DEF RepeatIsHarmless
  <2>1. watch \in Settings /\ nc \in Package({NoResponse}) /\ req \in AllRequests
    BY WatchedSettings, RequestsAssumption DEF IInv
  <2> QED BY <2>1, RequestTwice
<1> QED BY <1>1, InductiveInvariant, PTL
=============================================================================
