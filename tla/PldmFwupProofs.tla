--------------------------- MODULE PldmFwupProofs ---------------------------
(***************************************************************************)
(* Proofs about PldmFwup and PldmFwupSession, for every value of their     *)
(* constants.                                                              *)
(*                                                                         *)
(* First the device by itself: the type of the state and the safety        *)
(* invariants that hold whatever the agent sends.  A packet is a           *)
(* composition of operators on the record fd, so the proof is a            *)
(* composition too.  Inv(s) is the inductive invariant, of a state between *)
(* two packets; Handled(s) is what a handler leaves for the switch.  The   *)
(* prologue preserves Inv, a handler takes Inv to Handled, and the switch  *)
(* takes Handled back to Inv.                                              *)
(*                                                                         *)
(* Then the session.  It is a behaviour of the device with an unconstrained *)
(* agent, so what was shown of the device holds in every session.  Beyond  *)
(* that, one inductive invariant, SessionInv, ties the counters, the       *)
(* buffer and the file of the device to what the agent has been asked for  *)
(* and has delivered.  The proof goes in three layers: what each handler   *)
(* and each row of the table does to the device (the Effect lemmas), why   *)
(* each kind of effect keeps the invariant and is a step of ImageTransfer  *)
(* (the Keeps lemmas up to DataKeeps and AdvancedKeeps), and which of them *)
(* the steps of a session are.                                             *)
(***************************************************************************)
EXTENDS PldmFwupSession, TLAPS

(***************************************************************************)
(* The device.                                                             *)
(***************************************************************************)
\* The buffer invariants, of any state.
Bounded(s) ==
  /\ s.once_size <= s.max_transfer_size
  /\ s.max_transfer_size <= RecvBufMax
  /\ s.fw_len <= RecvBufMax
  /\ s.pkg_len <= s.pkg_total

Clean(s) ==
  /\ s.once_size = 0 /\ s.fw_len = 0 /\ s.fw_total = 0
  /\ s.pkg_len = 0 /\ s.pkg_total = 0 /\ s.new_img = ZeroImg

Entering(s) == s.event_id \in {ENTER_UD_WITH_PKTDATA, ENTER_UD_NO_PKTDATA}

\* Between two packets.
Inv(s) ==
  /\ s \in FdType
  /\ Bounded(s)
  /\ s.update_mode = s.is_in_upgrade_mode
  /\ s.update_mode <=> s.cur_state # IDLE
  /\ s.cur_state = IDLE => Clean(s)
  /\ RowsOf(s) = {}

\* u is s but for what a request that is being sent changes.
SameUpdate(u, s) ==
  /\ u.cur_state = s.cur_state /\ u.event_id = s.event_id
  /\ u.update_mode = s.update_mode /\ u.is_in_upgrade_mode = s.is_in_upgrade_mode
  /\ u.new_img = s.new_img /\ u.pd = s.pd
  /\ u.pkg_len = s.pkg_len /\ u.pkg_total = s.pkg_total
  /\ u.once_size = s.once_size /\ u.max_transfer_size = s.max_transfer_size
  /\ u.fw_len = s.fw_len /\ (Bounded(s) => Bounded(u))

\* Between a handler and the switch: RequestUpdate has set the update mode and
\* left an event with which the switch is about to leave IDLE, and a handler
\* that sent a request leaves nothing for the switch to do.
Handled(s) ==
  /\ s \in FdType
  /\ Bounded(s)
  /\ s.update_mode = s.is_in_upgrade_mode
  /\ s.update_mode <=> (s.cur_state # IDLE \/ Entering(s))
  /\ s.cur_state = IDLE /\ ~Entering(s) => Clean(s)
  /\ \/ s.sent = <<>>
     \/ Len(s.sent) = 1 /\ RowsOf(s) = {}

\* With these events the table leads to IDLE.
EndingEvents == {PACKAGEDATA_ERROR, ACTIVATE_DONE, CANCEL_UD_OR_TIMEOUT}

\* The handler that made t of s does not end the session, nor make the switch do it.
Keeps(t, s) ==
  t.update_mode = s.update_mode /\ (RowsOf(t) = {} \/ t.event_id \notin EndingEvents)

(***************************************************************************)
(* The table.                                                              *)
(***************************************************************************)

\* The numbers behind the names of states and events.
LEMMA Numbers ==
  /\ States = 0 .. 6 /\ Events = 0 .. 12
  /\ IDLE = 0 /\ LEARN_COMP = 1 /\ READY_XFER = 2 /\ DOWNLOAD = 3
  /\ VERIFY = 4 /\ APPLY = 5 /\ ACTIVATE = 6
  /\ UNKNOWN = 0 /\ ENTER_UD_WITH_PKTDATA = 1 /\ ENTER_UD_NO_PKTDATA = 2
  /\ PACKAGEDATA_ERROR = 3 /\ PASSCOMP_END = 4 /\ UD_COMP_END = 5
  /\ TRANSFER_PASS = 6 /\ VERIFY_PASS = 7 /\ APPLY_PASS = 8
  /\ ACTIVATE_DONE = 10 /\ CANCEL_UD_COMP = 11 /\ CANCEL_UD_OR_TIMEOUT = 12
BY DEF States, Events, IDLE, LEARN_COMP, READY_XFER, DOWNLOAD, VERIFY, APPLY,
       ACTIVATE, UNKNOWN, ENTER_UD_WITH_PKTDATA, ENTER_UD_NO_PKTDATA,
       PACKAGEDATA_ERROR, PASSCOMP_END, UD_COMP_END, TRANSFER_PASS, VERIFY_PASS,
       APPLY_PASS, ACTIVATE_DONE, CANCEL_UD_COMP, CANCEL_UD_OR_TIMEOUT

\* The rows of the table, one disjunct each or one for a family of them.
LEMMA TableRows ==
  ASSUME NEW r \in pldm_fwup_transforms
  PROVE  \/ r = Row(0, 1, 1, "getpackagedata_send")
         \/ r = Row(0, 2, 1, "NULL")
         \/ r = Row(1, 3, 0, "firmware_process_quit")
         \/ r = Row(1, 4, 2, "NULL")
         \/ r = Row(2, 5, 3, "requestfwdata_send")
         \/ r = Row(3, 6, 4, "verify_process")
         \/ r = Row(4, 7, 5, "applycpl_send")
         \/ r = Row(5, 8, 2, "NULL")
         \/ r = Row(2, 10, 0, "firmware_process_quit")
         \/ \E c \in 1 .. 5 : r = Row(c, 12, 0, "firmware_process_quit")
         \/ \E c \in 3 .. 5 : r = Row(c, 11, 2, "component_process_quit")
BY Numbers DEF pldm_fwup_transforms

\* Which (state, event) pairs the table does not know, as the proofs need them.
LEMMA NoRow ==
  ASSUME NEW s, s.cur_state \in States,
         \/ s.event_id = 0
         \/ s.cur_state = 0 /\ s.event_id \notin {1, 2}
         \/ s.cur_state = 1 /\ s.event_id \in {1, 2}
         \/ s.cur_state = 2 /\ s.event_id \in {4, 8}
         \/ s.cur_state = 3 /\ s.event_id = 5
         \/ s.cur_state = 4 /\ s.event_id = 6
         \/ s.cur_state = 5 /\ s.event_id = 7
  PROVE  RowsOf(s) = {}
<1> SUFFICES ASSUME NEW r \in pldm_fwup_transforms,
                    r.cur = s.cur_state, r.event = s.event_id
             PROVE  FALSE
  BY DEF RowsOf
<1> QED BY TableRows DEF Row

(***************************************************************************)
(* The helpers the handlers are built from.                                *)
(***************************************************************************)

\* The values the code stores are of their types.
LEMMA Stored ==
  /\ ZeroImg \in Img
  /\ IDLE \in States
  /\ \A e \in 0 .. 12 : e \in Events
  /\ {SUCCESS, NOT_IN_UPDATE_MODE, ALREADY_IN_UPDATE_MODE, INVALID_STATE_FOR_COMMAND,
      INCOMPLETE_UPDATE, SELF_CONTAINED_ACTIVATION_NOT_PERMITTED, PACKAGEDATA_ERROR,
      COMMAND_UNSUPPORT, NoReason} \subseteq Nat
BY Numbers, CompIdsAssumption
   DEF ZeroImg, Img, SUCCESS, NOT_IN_UPDATE_MODE, ALREADY_IN_UPDATE_MODE,
       INVALID_STATE_FOR_COMMAND, INCOMPLETE_UPDATE,
       SELF_CONTAINED_ACTIVATION_NOT_PERMITTED, COMMAND_UNSUPPORT, NoReason

LEMMA MinFacts ==
  ASSUME NEW a \in Nat, NEW b \in Nat
  PROVE  MinOf(a, b) \in Nat /\ MinOf(a, b) <= a /\ MinOf(a, b) <= b
BY DEF MinOf

\* pldm_msg_send changes the outstanding requests and nothing else.
LEMMA Sent ==
  ASSUME NEW s \in FdType, NEW r \in Requests, s.sent = <<>>
  PROVE  /\ pldm_msg_send(s, r) \in FdType
         /\ Len(pldm_msg_send(s, r).sent) = 1
         /\ pldm_msg_send(s, r) =
              [s EXCEPT !.need_rsp = TRUE, !.sent = pldm_msg_send(s, r).sent]
<1>1. Append(s.sent, r) \in Seq(Requests) /\ Len(Append(s.sent, r)) = 1
  BY DEF FdType
<1> QED BY <1>1 DEF pldm_msg_send, FdType

\* What the device sends is a request, whichever function sends it.
LEMMA RequestTypes ==
  /\ \A h \in Nat : [cmd |-> "GetPackageData", handle |-> h] \in Requests
  /\ \A o, n \in Nat : [cmd |-> "RequestFirmwareData", offset |-> o, len |-> n] \in Requests
  /\ \A n \in Nat, c \in {"TransferComplete", "VerifyComplete", "ApplyComplete"} :
       [cmd |-> c, result |-> n] \in Requests
BY DEF Requests

\* What the sending functions change besides the requests sent.
LEMMA RequestFwDataSent ==
  ASSUME NEW s \in FdType, s.sent = <<>>
  PROVE  /\ pldm_fwup_requestfwdata_send(s) \in FdType
         /\ Len(pldm_fwup_requestfwdata_send(s).sent) = 1
         /\ pldm_fwup_requestfwdata_send(s) =
              [s EXCEPT !.need_rsp = TRUE, !.sent = pldm_fwup_requestfwdata_send(s).sent]
<1>1. [cmd |-> "RequestFirmwareData",
       offset |-> s.data_transfer_handle, len |-> s.once_size] \in Requests
  BY RequestTypes DEF FdType
<1> QED BY <1>1, Sent DEF pldm_fwup_requestfwdata_send

LEMMA TransferCplSent ==
  ASSUME NEW s \in FdType, s.sent = <<>>, NEW result \in {0, 13}
  PROVE  /\ pldm_fwup_transfercpl_send(s, result) \in FdType
         /\ Len(pldm_fwup_transfercpl_send(s, result).sent) = 1
         /\ pldm_fwup_transfercpl_send(s, result) =
              [s EXCEPT !.transfer_result = result, !.need_rsp = TRUE,
                        !.sent = pldm_fwup_transfercpl_send(s, result).sent]
<1> DEFINE t == [s EXCEPT !.transfer_result = result]
           r == [cmd |-> "TransferComplete", result |-> result]
           u == pldm_msg_send(t, r)
<1>1. t \in FdType /\ t.sent = <<>>
  BY DEF FdType
<1>2. r \in Requests
  BY RequestTypes
<1>3. u \in FdType /\ Len(u.sent) = 1 /\ u = [t EXCEPT !.need_rsp = TRUE, !.sent = u.sent]
  <2> HIDE DEF t, r
  <2> QED BY <1>1, <1>2, Sent
<1>4. pldm_fwup_transfercpl_send(s, result) = u
  BY DEF pldm_fwup_transfercpl_send
<1> HIDE DEF u, r
<1>5. u = [s EXCEPT !.transfer_result = result, !.need_rsp = TRUE, !.sent = u.sent]
  BY <1>3 DEF FdType
<1> QED BY <1>3, <1>4, <1>5

\* ... and so they keep the buffer within its bounds.
LEMMA SentKeeps ==
  ASSUME NEW s \in FdType, NEW result \in {0, 13}, s.sent = <<>>
  PROVE  /\ SameUpdate(pldm_fwup_requestfwdata_send(s), s)
         /\ SameUpdate(pldm_fwup_transfercpl_send(s, result), s)
         /\ \A q \in Requests : SameUpdate(pldm_msg_send(s, q), s)
<1>1. ASSUME NEW p, NEW m,
             \/ p = [s EXCEPT !.need_rsp = TRUE, !.sent = m]
             \/ p = [s EXCEPT !.transfer_result = result, !.need_rsp = TRUE, !.sent = m]
      PROVE  SameUpdate(p, s)
  <2>1. /\ p.cur_state = s.cur_state /\ p.event_id = s.event_id
        /\ p.update_mode = s.update_mode /\ p.is_in_upgrade_mode = s.is_in_upgrade_mode
        /\ p.new_img = s.new_img /\ p.pd = s.pd
    BY <1>1 DEF FdType
  <2>2. /\ p.pkg_len = s.pkg_len /\ p.pkg_total = s.pkg_total
        /\ p.once_size = s.once_size /\ p.max_transfer_size = s.max_transfer_size
        /\ p.fw_len = s.fw_len
    BY <1>1 DEF FdType
  <2>3. Bounded(s) => Bounded(p)
    BY <2>2 DEF Bounded
  <2> QED BY <2>1, <2>2, <2>3 DEF SameUpdate
<1>2. SameUpdate(pldm_fwup_requestfwdata_send(s), s)
  BY <1>1, RequestFwDataSent
<1>3. SameUpdate(pldm_fwup_transfercpl_send(s, result), s)
  BY <1>1, TransferCplSent
<1>4. ASSUME NEW q \in Requests PROVE SameUpdate(pldm_msg_send(s, q), s)
  <2> DEFINE p == pldm_msg_send(s, q)
  <2>1. p = [s EXCEPT !.need_rsp = TRUE, !.sent = p.sent]
    BY Sent
  <2> HIDE DEF p
  <2>2. SameUpdate(p, s)
    BY <1>1, <2>1
  <2> QED BY <2>2 DEF p
<1> QED BY <1>2, <1>3, <1>4

\* Quitting the session, once in IDLE, gives a clean state without a session.
LEMMA QuitInv ==
  ASSUME NEW s \in FdType, Bounded(s), s.cur_state = IDLE
  PROVE  /\ Inv(pldm_fwup_firmware_process_quit(s))
         /\ pldm_fwup_firmware_process_quit(s).sent = s.sent
<1> DEFINE t == pldm_fwup_firmware_process_quit(s)
<1>1. t \in FdType
  <2>1. UNKNOWN \in Events /\ ZeroImg \in Img
    BY Stored, Numbers
  <2> QED BY <2>1 DEF pldm_fwup_firmware_process_quit, FdType
<1>2. /\ t.once_size = 0 /\ t.fw_len = 0 /\ t.fw_total = 0 /\ t.pkg_len = 0
      /\ t.pkg_total = 0 /\ t.new_img = ZeroImg /\ t.event_id = 0
      /\ t.update_mode = FALSE /\ t.is_in_upgrade_mode = FALSE
      /\ t.cur_state = s.cur_state /\ t.max_transfer_size = s.max_transfer_size
      /\ t.sent = s.sent
  BY Numbers DEF pldm_fwup_firmware_process_quit, FdType
<1>3. Bounded(t) /\ Clean(t)
  BY <1>2, RecvBufMaxAssumption DEF Bounded, Clean, FdType
<1>4. RowsOf(t) = {}
  BY <1>1, <1>2, NoRow DEF FdType
<1> QED BY <1>1, <1>2, <1>3, <1>4 DEF Inv

\* Quitting the component leaves the session as it is.
LEMMA ComponentQuitInv ==
  ASSUME NEW s \in FdType, Bounded(s), s.cur_state = READY_XFER,
         s.update_mode, s.is_in_upgrade_mode
  PROVE  /\ Inv(pldm_fwup_component_process_quit(s))
         /\ pldm_fwup_component_process_quit(s).sent = s.sent
<1> DEFINE t == pldm_fwup_component_process_quit(s)
<1>1. t \in FdType
  <2>1. UNKNOWN \in Events
    BY Stored, Numbers
  <2> QED BY <2>1 DEF pldm_fwup_component_process_quit, FdType
<1>2. /\ t.once_size = s.max_transfer_size /\ t.fw_len = 0
      /\ t.pkg_len = 0 /\ t.pkg_total = 0 /\ t.event_id = 0
      /\ t.update_mode = s.update_mode /\ t.is_in_upgrade_mode = s.is_in_upgrade_mode
      /\ t.cur_state = s.cur_state /\ t.max_transfer_size = s.max_transfer_size
      /\ t.sent = s.sent
  BY Numbers DEF pldm_fwup_component_process_quit, FdType
<1>3. Bounded(t)
  BY <1>2, RecvBufMaxAssumption DEF Bounded, FdType
<1>4. RowsOf(t) = {}
  BY <1>1, <1>2, NoRow DEF FdType
<1> QED BY <1>1, <1>2, <1>3, <1>4, Numbers DEF Inv, FdType

(***************************************************************************)
(* The prologue.                                                           *)
(***************************************************************************)

\* A state between two packets that is in IDLE has no entering event.
LEMMA NotEntering ==
  ASSUME NEW s \in FdType, s.cur_state = IDLE, RowsOf(s) = {}
  PROVE  ~Entering(s)
<1>1. /\ Row(0, 1, 1, "getpackagedata_send") \in pldm_fwup_transforms
      /\ Row(0, 2, 1, "NULL") \in pldm_fwup_transforms
  BY Numbers DEF pldm_fwup_transforms
<1> QED BY <1>1, Numbers DEF RowsOf, Row, Entering

\* A handler that changes nothing leaves the switch nothing to do.
LEMMA InvHandled ==
  ASSUME NEW s, Inv(s), s.sent = <<>>
  PROVE  Handled(s) /\ Keeps(s, s)
BY NotEntering DEF Inv, Handled, Keeps

\* Replies are written over; the packet starts from the invariant.
LEMMA ReceivedInv ==
  ASSUME Inv(fd)
  PROVE  Inv(Received) /\ Received.sent = <<>> /\ Received.overtime = fd.overtime
<1>1. SUCCESS \in Nat /\ NoReason \in Nat /\ <<>> \in Seq(Requests)
  BY Stored
<1>2. Received \in FdType
  BY <1>1 DEF Inv, Received, FdType
<1>3. RowsOf(Received) = RowsOf(fd)
  BY DEF RowsOf, Received, Inv, FdType
<1> QED BY <1>2, <1>3 DEF Inv, Received, FdType, Bounded, Clean

\* The timer ends the session in IDLE, or leaves the state alone.
LEMMA TimeoutInv ==
  ASSUME NEW s, Inv(s)
  PROVE  /\ Inv(pldm_fwup_timeout_process(s))
         /\ pldm_fwup_timeout_process(s).sent = s.sent
<1> DEFINE t == pldm_fwup_sta_chg([s EXCEPT !.timeout_occur_flag = TRUE], IDLE)
<1>1. t \in FdType /\ t.cur_state = IDLE /\ t.sent = s.sent /\ Bounded(t)
  BY Stored DEF pldm_fwup_sta_chg, Inv, FdType, Bounded
<1> QED BY <1>1, QuitInv DEF pldm_fwup_timeout_process

\* Clearing need_rsp touches nothing the invariant speaks of.
LEMMA NeedRspInv ==
  ASSUME NEW s, Inv(s)
  PROVE  Inv([s EXCEPT !.need_rsp = FALSE]) /\ [s EXCEPT !.need_rsp = FALSE].sent = s.sent
<1> DEFINE t == [s EXCEPT !.need_rsp = FALSE]
<1>1. t \in FdType
  BY DEF Inv, FdType
<1>2. RowsOf(t) = RowsOf(s)
  BY DEF RowsOf, Inv, FdType
<1> QED BY <1>1, <1>2 DEF Inv, FdType, Bounded, Clean

\* The state a handler starts from.
LEMMA PrologueInv ==
  ASSUME Inv(fd), NEW cmd
  PROVE  Inv(Prologue(cmd)) /\ Prologue(cmd).sent = <<>>
BY ReceivedInv, TimeoutInv, NeedRspInv DEF Prologue

(***************************************************************************)
(* The handlers.                                                           *)
(***************************************************************************)

\* What a handler must show when it stays inside a session and sends nothing.
LEMMA StaysInSession ==
  ASSUME NEW s, Inv(s), s.cur_state # IDLE,
         NEW t \in FdType, Bounded(t), t.sent = <<>>, t.cur_state = s.cur_state,
         t.update_mode = s.update_mode, t.is_in_upgrade_mode = s.is_in_upgrade_mode
  PROVE  Handled(t)
<1>1. s.update_mode /\ s.is_in_upgrade_mode
  BY DEF Inv
<1>2. t.update_mode = t.is_in_upgrade_mode
  BY DEF Inv
<1>3. t.update_mode <=> (t.cur_state # IDLE \/ Entering(t))
  BY <1>1
<1>4. t.cur_state = IDLE /\ ~Entering(t) => Clean(t)
  OBVIOUS
<1> QED BY <1>2, <1>3, <1>4, Zenon DEF Handled

\* A refusal only writes the completion code.
LEMMA RefuseHandled ==
  ASSUME NEW s, Inv(s), s.sent = <<>>, NEW code \in Nat
  PROVE  Handled(Refuse(s, code)) /\ Keeps(Refuse(s, code), s)
<1> DEFINE t == Refuse(s, code)
<1>1. t \in FdType /\ t.update_mode = s.update_mode
  BY DEF Refuse, Inv, FdType
<1>2. RowsOf(t) = RowsOf(s)
  BY DEF RowsOf, Refuse, Inv, FdType
<1>3. Inv(t) /\ t.sent = <<>>
  BY <1>1, <1>2 DEF Inv, Refuse, FdType, Bounded, Clean
<1> HIDE DEF t
<1>4. Handled(t) /\ Keeps(t, s)
  BY <1>1, <1>3, InvHandled DEF Keeps
<1> QED BY <1>4 DEF t

\* Setting an event that does not enter an update, with or without the progress
\* flag: what most handlers do.
LEMMA EventHandled ==
  ASSUME NEW s, Inv(s), s.sent = <<>>,
         NEW e \in Events \ {ENTER_UD_WITH_PKTDATA, ENTER_UD_NO_PKTDATA},
         NEW p \in BOOLEAN
  PROVE  /\ Handled([s EXCEPT !.event_id = e, !.progress_flag = p])
         /\ e \notin EndingEvents => Keeps([s EXCEPT !.event_id = e, !.progress_flag = p], s)
<1> DEFINE t == [s EXCEPT !.event_id = e, !.progress_flag = p]
<1>1. t \in FdType
  BY DEF Inv, FdType
<1>2. /\ t.sent = <<>> /\ ~Entering(t)
      /\ t.cur_state = s.cur_state /\ t.update_mode = s.update_mode
      /\ t.is_in_upgrade_mode = s.is_in_upgrade_mode
  BY DEF Inv, FdType, Entering
<1>3. Bounded(t) /\ (s.cur_state = IDLE => Clean(t))
  BY DEF Inv, FdType, Bounded, Clean
<1>4. t.update_mode = t.is_in_upgrade_mode
  BY <1>2 DEF Inv
<1>5. t.update_mode <=> (t.cur_state # IDLE \/ Entering(t))
  BY <1>2 DEF Inv
<1>6. t.sent = <<>>
  BY <1>2
<1>7. t.cur_state = IDLE /\ ~Entering(t) => Clean(t)
  BY <1>2, <1>3
<1>8. Bounded(t) /\ t.update_mode = s.update_mode /\ t.event_id = e
  BY <1>3 DEF Inv, FdType
<1> HIDE DEF t
<1>9. Handled(t)
  BY <1>1, <1>4, <1>5, <1>6, <1>7, <1>8, Zenon DEF Handled
<1>10. e \notin EndingEvents => Keeps(t, s)
  BY <1>8 DEF Keeps
<1> QED BY <1>9, <1>10 DEF t

LEMMA GetStatusHandled ==
  ASSUME NEW s, Inv(s), s.sent = <<>>
  PROVE  Handled(pldm_fwup_getstatus(s)) /\ Keeps(pldm_fwup_getstatus(s), s)
<1>1. PICK code \in Nat : pldm_fwup_getstatus(s) = [s EXCEPT !.reason = code]
  <2>1. s.prev_state \in 0 .. 6 /\ s.timeout_occur_flag \in BOOLEAN
    BY Numbers DEF Inv, FdType
  <2>2. /\ NoReason \in Nat /\ INITIALIZATION_OCCURRED \in Nat
        /\ ACTIVATEFIRMWARE_RECEIVED \in Nat /\ CANCELUPDATE_RECEIVED \in Nat
        /\ s.prev_state + 2 \in Nat
    BY <2>1 DEF NoReason, INITIALIZATION_OCCURRED, ACTIVATEFIRMWARE_RECEIVED,
                CANCELUPDATE_RECEIVED
  <2> QED BY <2>2 DEF pldm_fwup_getstatus
<1> DEFINE t == [s EXCEPT !.reason = code]
<1>2. t \in FdType /\ t.update_mode = s.update_mode
  BY DEF Inv, FdType
<1>3. RowsOf(t) = RowsOf(s)
  BY DEF RowsOf, Inv, FdType
<1>4. Inv(t) /\ t.sent = <<>>
  BY <1>2, <1>3 DEF Inv, FdType, Bounded, Clean
<1> HIDE DEF t
<1>5. Handled(t) /\ Keeps(t, s)
  BY <1>2, <1>4, InvHandled DEF Keeps
<1> QED BY <1>1, <1>5 DEF t

LEMMA RequestUpdateHandled ==
  ASSUME NEW s, Inv(s), s.sent = <<>>, NEW size \in TransferSizes, NEW len \in PkgLens
  PROVE  /\ Handled(pldm_fwup_requestupdate(s, size, len))
         /\ s.update_mode => Keeps(pldm_fwup_requestupdate(s, size, len), s)
<1> DEFINE t == pldm_fwup_requestupdate(s, size, len)
           max == MinOf(RecvBufMax, size)
<1>1. CASE s.update_mode \/ s.is_in_upgrade_mode
  BY <1>1, RefuseHandled, Stored DEF pldm_fwup_requestupdate
<1>2. CASE ~(s.update_mode \/ s.is_in_upgrade_mode)
  <2>1. len \in Nat /\ max \in Nat /\ max <= RecvBufMax
    BY SizesAssumption, RecvBufMaxAssumption, MinFacts
  <2>2. ENTER_UD_WITH_PKTDATA \in Events /\ ENTER_UD_NO_PKTDATA \in Events
    BY Numbers
  <2>3. s.cur_state = IDLE /\ Clean(s)
    BY <1>2 DEF Inv
  <2>4. t \in FdType
    BY <1>2, <2>1, <2>2 DEF pldm_fwup_requestupdate, Inv, FdType
  <2>5. /\ t.update_mode = TRUE /\ t.is_in_upgrade_mode = TRUE /\ t.sent = <<>>
        /\ t.cur_state = IDLE /\ t.max_transfer_size = max /\ t.once_size = max
        /\ t.pkg_total \in Nat /\ t.pkg_len = 0 /\ t.fw_len = 0
        /\ Entering(t)
    BY <1>2, <2>1, <2>3 DEF pldm_fwup_requestupdate, Inv, FdType, Entering, Clean
  <2>6. Bounded(t)
    BY <2>1, <2>5, RecvBufMaxAssumption DEF Bounded
  <2>7. t.update_mode <=> (t.cur_state # IDLE \/ Entering(t))
    BY <2>5
  <2>8. t.update_mode = t.is_in_upgrade_mode
    BY <2>5
  <2>9. t.sent = <<>> /\ Entering(t)
    BY <2>5
  <2>10. Handled(t)
    BY <2>4, <2>6, <2>7, <2>8, <2>9, Zenon DEF Handled
  <2> QED BY <1>2, <2>10
<1> QED BY <1>1, <1>2

LEMMA PassComponentTableHandled ==
  ASSUME NEW s, Inv(s), s.sent = <<>>, NEW img \in Img, NEW last \in BOOLEAN
  PROVE  /\ Handled(pldm_fwup_passcomponenttable(s, img, last))
         /\ ~s.want_to_end_update => Keeps(pldm_fwup_passcomponenttable(s, img, last), s)
<1> DEFINE t == pldm_fwup_passcomponenttable(s, img, last)
<1>1. PACKAGEDATA_ERROR \in Events /\ PACKAGEDATA_ERROR \in Nat /\ PASSCOMP_END \in Events
      /\ INVALID_STATE_FOR_COMMAND \in Nat
  BY Numbers, Stored
<1>2. CASE \/ s.event_id = ENTER_UD_WITH_PKTDATA /\ ~s.getpackagedata_progress
           \/ s.cur_state # LEARN_COMP
  BY <1>1, <1>2, RefuseHandled DEF pldm_fwup_passcomponenttable
<1>3. CASE s.cur_state = LEARN_COMP
           /\ ~(s.event_id = ENTER_UD_WITH_PKTDATA /\ ~s.getpackagedata_progress)
  <2>1. t \in FdType
    BY <1>1, <1>3 DEF pldm_fwup_passcomponenttable, Refuse, Inv, FdType
  <2>2. /\ t.cur_state = LEARN_COMP /\ t.sent = <<>>
        /\ t.update_mode = s.update_mode /\ t.is_in_upgrade_mode = s.is_in_upgrade_mode
        /\ t.once_size = s.once_size /\ t.max_transfer_size = s.max_transfer_size
        /\ t.fw_len = s.fw_len /\ t.pkg_len = s.pkg_len /\ t.pkg_total = s.pkg_total
    BY <1>3 DEF pldm_fwup_passcomponenttable, Refuse, Inv, FdType
  <2>3. s.cur_state # IDLE
    BY <1>3, Numbers
  <2>4. Bounded(t)
    BY <2>2 DEF Inv, Bounded
  <2>5. ~s.want_to_end_update => t.event_id \in {PASSCOMP_END, s.event_id}
    BY <1>3 DEF pldm_fwup_passcomponenttable, Inv, FdType
  <2> HIDE DEF t
  <2>6. ~s.want_to_end_update => Keeps(t, s)
    <3>1. RowsOf(t) = {} \/ t.event_id # s.event_id
      BY <1>3, <2>2 DEF Inv, RowsOf
    <3> QED BY <2>2, <2>5, <3>1, Numbers DEF Keeps, EndingEvents
  <2>7. Handled(t)
    BY <1>3, <2>1, <2>2, <2>3, <2>4, StaysInSession
  <2> QED BY <2>6, <2>7 DEF t
<1> QED BY <1>2, <1>3

LEMMA UpdateComponentHandled ==
  ASSUME NEW s, Inv(s), s.sent = <<>>, NEW img \in Img, NEW size \in ImgSizes
  PROVE  /\ Handled(pldm_fwup_updatecomponent(s, img, size))
         /\ Keeps(pldm_fwup_updatecomponent(s, img, size), s)
<1> DEFINE t == pldm_fwup_updatecomponent(s, img, size)
<1>1. UD_COMP_END \in Events /\ size \in Nat /\ INVALID_STATE_FOR_COMMAND \in Nat
  BY Numbers, Stored, SizesAssumption
<1>2. CASE s.cur_state # READY_XFER
  BY <1>1, <1>2, RefuseHandled DEF pldm_fwup_updatecomponent
<1>3. CASE s.cur_state = READY_XFER /\ img # s.new_img
  BY <1>3, InvHandled DEF pldm_fwup_updatecomponent
<1>4. CASE s.cur_state = READY_XFER /\ img = s.new_img
  <2>1. t \in FdType
    BY <1>1, <1>4 DEF pldm_fwup_updatecomponent, Inv, FdType
  <2>2. /\ t.cur_state = READY_XFER /\ t.sent = <<>>
        /\ t.update_mode = s.update_mode /\ t.is_in_upgrade_mode = s.is_in_upgrade_mode
        /\ t.once_size = s.once_size /\ t.max_transfer_size = s.max_transfer_size
        /\ t.fw_len = s.fw_len /\ t.pkg_len = s.pkg_len /\ t.pkg_total = s.pkg_total
    BY <1>4 DEF pldm_fwup_updatecomponent, Inv, FdType
  <2>3. s.cur_state # IDLE
    BY <1>4, Numbers
  <2>4. Bounded(t)
    BY <2>2 DEF Inv, Bounded
  <2>5. t.event_id = UD_COMP_END
    BY <1>4 DEF pldm_fwup_updatecomponent, Inv, FdType
  <2> HIDE DEF t
  <2>6. Handled(t) /\ Keeps(t, s)
    <3>1. Keeps(t, s)
      BY <2>2, <2>5, Numbers DEF Keeps, EndingEvents
    <3> QED BY <1>4, <2>1, <2>2, <2>3, <2>4, <3>1, StaysInSession
  <2> QED BY <2>6 DEF t
<1> QED BY <1>2, <1>3, <1>4

\* What a handler must show when it leaves state, mode and event alone; it may
\* have sent a request.
LEMMA KeepsEvent ==
  ASSUME NEW s, Inv(s), NEW t \in FdType, Bounded(t),
         t.cur_state = s.cur_state, t.event_id = s.event_id,
         t.update_mode = s.update_mode, t.is_in_upgrade_mode = s.is_in_upgrade_mode,
         s.cur_state = IDLE => Clean(t),
         t.sent = <<>> \/ Len(t.sent) = 1
  PROVE  Handled(t) /\ Keeps(t, s)
<1>1. RowsOf(t) = {}
  BY DEF RowsOf, Inv
<1>2. Entering(t) = Entering(s)
  BY DEF Entering
<1>3. s.cur_state = IDLE => ~Entering(t)
  BY NotEntering, <1>2 DEF Inv
<1>4. t.update_mode = t.is_in_upgrade_mode
  BY DEF Inv
<1>5. t.update_mode <=> (t.cur_state # IDLE \/ Entering(t))
  BY <1>3 DEF Inv
<1>6. t.cur_state = IDLE /\ ~Entering(t) => Clean(t)
  OBVIOUS
<1>7. t.sent = <<>> \/ (Len(t.sent) = 1 /\ RowsOf(t) = {})
  BY <1>1
<1>8. Keeps(t, s)
  BY <1>1 DEF Keeps
<1> QED BY <1>4, <1>5, <1>6, <1>7, <1>8 DEF Handled

\* The package data bytes counted stay within those announced.
LEMMA GetPackageDataRecvHandled ==
  ASSUME NEW s, Inv(s), s.sent = <<>>,
         NEW ok \in BOOLEAN, NEW next \in Handles, NEW crc_ok \in BOOLEAN
  PROVE  /\ Handled(pldm_fwup_getpackagedata_recv(s, ok, next, crc_ok))
         /\ Keeps(pldm_fwup_getpackagedata_recv(s, ok, next, crc_ok), s)
<1> DEFINE r == pldm_fwup_getpackagedata_recv(s, ok, next, crc_ok)
           remain == s.pkg_total - s.pkg_len
           n == MinOf(remain, s.max_transfer_size)
           t == [s EXCEPT !.pkg_len = @ + n]
<1>1. s \in FdType /\ Bounded(s) /\ (s.cur_state = IDLE => Clean(s))
  BY DEF Inv
<1>2. /\ s.pkg_len \in Nat /\ s.pkg_total \in Nat /\ s.max_transfer_size \in Nat
      /\ s.data_transfer_handle \in Nat
  BY <1>1 DEF FdType
<1>3. remain \in Nat
  BY <1>1, <1>2 DEF Bounded
<1>4. n \in Nat /\ n <= remain
  BY <1>2, <1>3, MinFacts
<1>5. s.pkg_len + n \in Nat /\ s.pkg_len + n <= s.pkg_total
  BY <1>2, <1>4
<1>6. next \in Nat
  BY SizesAssumption
<1> HIDE DEF n
<1>7. CASE ~ok
  <2> DEFINE u == [s EXCEPT !.data_transfer_handle = 0]
  <2>1. u \in FdType /\ Bounded(u) /\ (s.cur_state = IDLE => Clean(u))
    BY <1>1 DEF FdType, Bounded, Clean
  <2>2. /\ u.cur_state = s.cur_state /\ u.event_id = s.event_id /\ u.sent = <<>>
        /\ u.update_mode = s.update_mode /\ u.is_in_upgrade_mode = s.is_in_upgrade_mode
    BY <1>1 DEF FdType
  <2>3. r = u
    BY <1>7 DEF pldm_fwup_getpackagedata_recv
  <2> QED BY <2>1, <2>2, <2>3, KeepsEvent
<1>8. CASE ok /\ t.pkg_len >= t.pkg_total
  <2> DEFINE u == [t EXCEPT !.want_to_end_update = @ \/ ~crc_ok,
                            !.getpackagedata_progress = TRUE]
  <2>1. u \in FdType
    BY <1>1, <1>5 DEF FdType
  <2>2. Bounded(u)
    BY <1>1, <1>5 DEF FdType, Bounded
  <2>3. s.cur_state = IDLE => Clean(u)
    BY <1>1, <1>2, <1>5 DEF FdType, Clean
  <2>4. /\ u.cur_state = s.cur_state /\ u.event_id = s.event_id /\ u.sent = <<>>
        /\ u.update_mode = s.update_mode /\ u.is_in_upgrade_mode = s.is_in_upgrade_mode
    BY <1>1 DEF FdType
  <2>5. r = u
    BY <1>8 DEF pldm_fwup_getpackagedata_recv, n
  <2> QED BY <2>1, <2>2, <2>3, <2>4, <2>5, KeepsEvent
<1>9. CASE ok /\ ~(t.pkg_len >= t.pkg_total)
  <2> DEFINE v == [t EXCEPT !.data_transfer_handle = next]
             u == pldm_fwup_getpackagedata_send(v)
  <2>1. v \in FdType /\ v.sent = <<>>
    BY <1>1, <1>5, <1>6 DEF FdType
  <2>2. Bounded(v)
    BY <1>1, <1>5 DEF FdType, Bounded
  <2>3. s.cur_state # IDLE
    BY <1>1, <1>2, <1>5, <1>9 DEF FdType, Clean
  <2>4. /\ v.cur_state = s.cur_state /\ v.event_id = s.event_id
        /\ v.update_mode = s.update_mode /\ v.is_in_upgrade_mode = s.is_in_upgrade_mode
    BY <1>1 DEF FdType
  <2>5. [cmd |-> "GetPackageData", handle |-> v.data_transfer_handle] \in Requests
    BY <2>1, RequestTypes DEF FdType
  <2> HIDE DEF v
  <2>6. u \in FdType /\ Len(u.sent) = 1 /\ SameUpdate(u, v)
    BY <2>1, <2>5, Sent, SentKeeps DEF pldm_fwup_getpackagedata_send
  <2> HIDE DEF u
  <2>7. /\ Bounded(u) /\ u.cur_state = v.cur_state /\ u.event_id = v.event_id
        /\ u.update_mode = v.update_mode /\ u.is_in_upgrade_mode = v.is_in_upgrade_mode
    BY <2>2, <2>6 DEF SameUpdate
  <2>8. r = u
    BY <1>9 DEF pldm_fwup_getpackagedata_recv, n, u, v
  <2> QED BY <2>3, <2>4, <2>6, <2>7, <2>8, KeepsEvent
<1> QED BY <1>7, <1>8, <1>9

\* The receive buffer never overflows: a packet fills it at most to the end, and
\* what is left over of the packet starts it again.
LEMMA RequestFwDataRecvHandled ==
  ASSUME NEW s, Inv(s), s.sent = <<>>,
         NEW ok \in BOOLEAN, NEW origin \in Origins, NEW cb_ok \in CallbackResults
  PROVE  /\ Handled(pldm_fwup_requestfwdata_recv(s, ok, origin, cb_ok))
         /\ Keeps(pldm_fwup_requestfwdata_recv(s, ok, origin, cb_ok), s)
<1> DEFINE r == pldm_fwup_requestfwdata_recv(s, ok, origin, cb_ok)
           free == RecvBufMax - s.fw_len
           cpy == MinOf(s.once_size, free)
           direct == s.max_transfer_size = RecvBufMax
           data == IF direct THEN s.fw_data
                   ELSE [i \in 0 .. RecvBufMax - 1 |->
                           IF s.fw_len <= i /\ i < s.fw_len + cpy
                           THEN origin + (i - s.fw_len) ELSE s.fw_data[i]]
           block == IF direct THEN [i \in 0 .. RecvBufMax - 1 |-> origin + i] ELSE data
           full == s.fw_len + cpy = RecvBufMax
           remain == s.once_size - cpy
           rest == [i \in 0 .. RecvBufMax - 1 |->
                      IF i < remain THEN origin + cpy + i ELSE data[i]]
           file == IF full /\ s.pd = "open" THEN Append(s.image_file, block) ELSE s.image_file
           handle == IF full /\ s.pd # "open" THEN "misused" ELSE s.pd
           a == [s EXCEPT !.fw_data = data, !.fw_len = s.fw_len + cpy,
                          !.image_file = file, !.pd = handle]
           b == IF ~full THEN a ELSE [a EXCEPT !.fw_data = rest, !.fw_len = remain]
           c == [b EXCEPT !.data_transfer_handle = @ + s.once_size]
<1>1. s \in FdType /\ Bounded(s) /\ (s.cur_state = IDLE => Clean(s))
  BY DEF Inv
<1>2. /\ s.fw_len \in Nat /\ s.once_size \in Nat /\ s.fw_total \in Nat
      /\ s.data_transfer_handle \in Nat /\ s.max_transfer_size \in Nat
      /\ s.fw_data \in Blocks /\ s.image_file \in Seq(Blocks)
      /\ s.pd \in {"null", "open", "closed", "misused"}
  BY <1>1 DEF FdType
<1>3. free \in Nat
  BY <1>1, <1>2, RecvBufMaxAssumption DEF Bounded
<1>4. cpy \in Nat /\ cpy <= free /\ cpy <= s.once_size
  BY <1>2, <1>3, MinFacts
<1> HIDE DEF cpy
<1>5. /\ s.fw_len + cpy \in Nat /\ s.fw_len + cpy <= RecvBufMax
      /\ remain \in Nat /\ remain <= RecvBufMax
  BY <1>1, <1>2, <1>3, <1>4, RecvBufMaxAssumption DEF Bounded
<1>6. origin \in Nat
  BY SizesAssumption
<1>7. data \in Blocks /\ block \in Blocks
  <2> DEFINE stored(i) == IF s.fw_len <= i /\ i < s.fw_len + cpy
                          THEN origin + (i - s.fw_len) ELSE s.fw_data[i]
  <2>1. \A i \in 0 .. RecvBufMax - 1 : origin + i \in Nat /\ stored(i) \in Nat
    <3> SUFFICES ASSUME NEW i \in 0 .. RecvBufMax - 1
                 PROVE  origin + i \in Nat /\ stored(i) \in Nat
      OBVIOUS
    <3>1. i \in Nat /\ origin + i \in Nat
      BY <1>6, RecvBufMaxAssumption
    <3>2. s.fw_len <= i => origin + (i - s.fw_len) \in Nat
      BY <1>2, <1>6, <3>1
    <3>3. s.fw_data[i] \in Nat
      BY <1>2 DEF Blocks
    <3> QED BY <3>1, <3>2, <3>3
  <2> HIDE DEF stored
  <2>2. [i \in 0 .. RecvBufMax - 1 |-> stored(i)] \in Blocks
    BY <2>1 DEF Blocks
  <2>3. [i \in 0 .. RecvBufMax - 1 |-> origin + i] \in Blocks
    BY <2>1 DEF Blocks
  <2>4. data = IF direct THEN s.fw_data ELSE [i \in 0 .. RecvBufMax - 1 |-> stored(i)]
    BY DEF stored
  <2> QED BY <1>2, <2>2, <2>3, <2>4
<1>8. rest \in Blocks
  <2> HIDE DEF data
  <2> QED BY <1>4, <1>5, <1>6, <1>7 DEF Blocks
<1>9. file \in Seq(Blocks) /\ handle \in {"null", "open", "closed", "misused"}
  <2> HIDE DEF block
  <2> QED BY <1>2, <1>7
<1> HIDE DEF data, block, rest, file, handle, full
<1>10. /\ a \in FdType /\ Bounded(a) /\ a.sent = <<>>
       /\ a.cur_state = s.cur_state /\ a.event_id = s.event_id
       /\ a.update_mode = s.update_mode /\ a.is_in_upgrade_mode = s.is_in_upgrade_mode
  BY <1>1, <1>5, <1>7, <1>9 DEF FdType, Bounded
<1>11. /\ b \in FdType /\ Bounded(b) /\ b.sent = <<>>
       /\ b.cur_state = s.cur_state /\ b.event_id = s.event_id
       /\ b.update_mode = s.update_mode /\ b.is_in_upgrade_mode = s.is_in_upgrade_mode
       /\ b.data_transfer_handle = s.data_transfer_handle /\ b.fw_total = s.fw_total
       /\ b.max_transfer_size = s.max_transfer_size /\ b.once_size = s.once_size
       /\ b.pkg_len = s.pkg_len /\ b.pkg_total = s.pkg_total /\ b.new_img = s.new_img
  <2>1. CASE ~full
    <3>1. b = a
      BY <2>1
    <3>2. /\ a.data_transfer_handle = s.data_transfer_handle /\ a.fw_total = s.fw_total
          /\ a.max_transfer_size = s.max_transfer_size /\ a.once_size = s.once_size
          /\ a.pkg_len = s.pkg_len /\ a.pkg_total = s.pkg_total /\ a.new_img = s.new_img
      BY <1>1 DEF FdType
    <3> HIDE DEF a, b
    <3> QED BY <1>10, <3>1, <3>2
  <2>2. CASE full
    <3> DEFINE d == [a EXCEPT !.fw_data = rest, !.fw_len = remain]
    <3>1. b = d
      BY <2>2
    <3>2. d \in FdType
      <4> HIDE DEF a
      <4> QED BY <1>5, <1>8, <1>10 DEF FdType
    <3>3. Bounded(d)
      <4> HIDE DEF a
      <4> QED BY <1>5, <1>10 DEF FdType, Bounded
    <3>4. /\ d.sent = <<>> /\ d.cur_state = s.cur_state /\ d.event_id = s.event_id
          /\ d.update_mode = s.update_mode /\ d.is_in_upgrade_mode = s.is_in_upgrade_mode
          /\ d.data_transfer_handle = s.data_transfer_handle /\ d.fw_total = s.fw_total
          /\ d.max_transfer_size = s.max_transfer_size /\ d.once_size = s.once_size
          /\ d.pkg_len = s.pkg_len /\ d.pkg_total = s.pkg_total /\ d.new_img = s.new_img
      BY <1>1 DEF FdType
    <3> HIDE DEF b, d
    <3> QED BY <3>1, <3>2, <3>3, <3>4
  <2> QED BY <2>1, <2>2
<1> DEFINE SameSession(v) ==
      /\ v \in FdType /\ Bounded(v)
      /\ v.cur_state = s.cur_state /\ v.event_id = s.event_id
      /\ v.update_mode = s.update_mode /\ v.is_in_upgrade_mode = s.is_in_upgrade_mode
<1> HIDE DEF a, b
<1>12. /\ SameSession(c) /\ c.sent = <<>>
       /\ c.once_size = s.once_size /\ c.max_transfer_size = s.max_transfer_size
       /\ c.pkg_len = s.pkg_len /\ c.pkg_total = s.pkg_total /\ c.new_img = s.new_img
       /\ c.fw_total = s.fw_total /\ c.data_transfer_handle \in Nat
       /\ c.data_transfer_handle = s.data_transfer_handle + s.once_size
  <2>1. b.data_transfer_handle + s.once_size \in Nat
    BY <1>2, <1>11
  <2>2. c \in FdType
    BY <2>1, <1>11 DEF FdType
  <2>3. Bounded(c)
    BY <1>11 DEF FdType, Bounded
  <2> QED BY <1>11, <2>1, <2>2, <2>3 DEF FdType
<1>13. s.cur_state = IDLE => ~full /\ s.data_transfer_handle + s.once_size >= s.fw_total
  BY <1>1, <1>2, <1>4, RecvBufMaxAssumption DEF Clean, full
<1> HIDE DEF c
<1>14. CASE ~ok
  BY <1>14, InvHandled DEF pldm_fwup_requestfwdata_recv
<1>15. CASE ok /\ full /\ ~cb_ok
  <2> DEFINE u == pldm_fwup_transfercpl_send(a, 13)
  <2>1. r = u
    BY <1>15 DEF pldm_fwup_requestfwdata_recv, a, data, block, file, handle, full, cpy
  <2>2. u \in FdType /\ Len(u.sent) = 1 /\ SameUpdate(u, a)
    <3> HIDE DEF SameSession
    <3> QED BY <1>10, TransferCplSent, SentKeeps
  <2> HIDE DEF u
  <2>3. SameSession(u)
    BY <1>10, <2>2 DEF SameUpdate
  <2> QED BY <1>13, <1>15, <2>1, <2>2, <2>3, KeepsEvent
<1>16. CASE ok /\ ~(full /\ ~cb_ok) /\ c.data_transfer_handle >= c.fw_total
  <2> DEFINE v == pldm_fwup_transfercpl_send(c, 0)
             pd == IF v.pd = "open" THEN "closed" ELSE "misused"
             u == [v EXCEPT !.data_transfer_handle = 0, !.fw_len = 0, !.fw_total = 0,
                            !.pd = pd]
  <2>1. r = u
    BY <1>16 DEF pldm_fwup_requestfwdata_recv, a, b, c, data, block, rest, file, handle,
                 full, cpy
  <2>2. v \in FdType /\ Len(v.sent) = 1 /\ SameUpdate(v, c)
    <3>1. c \in FdType /\ c.sent = <<>>
      BY <1>12
    <3> HIDE DEF SameSession, pd, u
    <3> QED BY <3>1, TransferCplSent, SentKeeps
  <2> HIDE DEF v
  <2>3. /\ Bounded(v)
        /\ v.cur_state = s.cur_state /\ v.event_id = s.event_id
        /\ v.update_mode = s.update_mode /\ v.is_in_upgrade_mode = s.is_in_upgrade_mode
        /\ v.once_size = s.once_size /\ v.new_img = s.new_img
        /\ v.pkg_len = s.pkg_len /\ v.pkg_total = s.pkg_total
    BY <1>12, <2>2 DEF SameUpdate
  <2>4. pd \in {"null", "open", "closed", "misused"}
    OBVIOUS
  <2> HIDE DEF pd
  <2>5. u \in FdType /\ u.sent = v.sent
    BY <2>2, <2>4 DEF FdType
  <2>6. /\ u.cur_state = v.cur_state /\ u.event_id = v.event_id
        /\ u.update_mode = v.update_mode /\ u.is_in_upgrade_mode = v.is_in_upgrade_mode
        /\ u.once_size = v.once_size /\ u.max_transfer_size = v.max_transfer_size
        /\ u.pkg_len = v.pkg_len /\ u.pkg_total = v.pkg_total /\ u.new_img = v.new_img
        /\ u.fw_len = 0 /\ u.fw_total = 0
    BY <2>2 DEF FdType
  <2> HIDE DEF u
  <2>7. SameSession(u)
    <3>1. Bounded(u)
      BY <2>3, <2>6, RecvBufMaxAssumption DEF Bounded
    <3> QED BY <2>3, <2>5, <2>6, <3>1
  <2>8. s.cur_state = IDLE => Clean(u)
    BY <1>1, <2>3, <2>6 DEF Clean
  <2> HIDE DEF u
  <2> QED BY <2>1, <2>2, <2>5, <2>7, <2>8, KeepsEvent
<1>17. CASE ok /\ ~(full /\ ~cb_ok) /\ ~(c.data_transfer_handle >= c.fw_total)
  <2> DEFINE n == MinOf(c.fw_total - c.data_transfer_handle, s.max_transfer_size)
             v == [c EXCEPT !.once_size = n]
             u == pldm_fwup_requestfwdata_send(v)
  <2>1. r = u
    BY <1>17 DEF pldm_fwup_requestfwdata_recv, a, b, c, data, block, rest, file, handle,
                 full, cpy
  <2>2. n \in Nat /\ n <= s.max_transfer_size
    <3>1. c.fw_total - c.data_transfer_handle \in Nat
      BY <1>2, <1>12, <1>17
    <3> QED BY <1>2, <3>1, MinFacts
  <2> HIDE DEF n
  <2>3. SameSession(v) /\ v.sent = <<>>
    BY <1>12, <2>2 DEF FdType, Bounded
  <2> HIDE DEF v
  <2>4. u \in FdType /\ Len(u.sent) = 1 /\ SameUpdate(u, v)
    <3>1. v \in FdType /\ v.sent = <<>>
      BY <2>3
    <3> HIDE DEF SameSession
    <3> QED BY <3>1, RequestFwDataSent, SentKeeps
  <2> HIDE DEF u
  <2>5. SameSession(u)
    BY <2>3, <2>4 DEF SameUpdate
  <2>6. s.cur_state # IDLE
    BY <1>12, <1>13, <1>17
  <2> QED BY <2>1, <2>4, <2>5, <2>6, KeepsEvent
<1> QED BY <1>14, <1>15, <1>16, <1>17

\* An answer to TransferComplete, VerifyComplete or ApplyComplete sets at most
\* the event and the progress flag.
LEMMA CompletionRecvHandled ==
  ASSUME NEW s, Inv(s), s.sent = <<>>, NEW ok \in BOOLEAN
  PROVE  /\ Handled(pldm_fwup_transfercpl_recv(s, ok))
         /\ Handled(pldm_fwup_verifycpl_recv(s, ok))
         /\ Handled(pldm_fwup_applycpl_recv(s, ok))
         /\ Keeps(pldm_fwup_transfercpl_recv(s, ok), s)
         /\ Keeps(pldm_fwup_verifycpl_recv(s, ok), s)
         /\ Keeps(pldm_fwup_applycpl_recv(s, ok), s)
<1> DEFINE After(e) == [s EXCEPT !.event_id = e, !.progress_flag = TRUE]
           Allowed == (Events \ {ENTER_UD_WITH_PKTDATA, ENTER_UD_NO_PKTDATA}) \ EndingEvents
           Fine(t) == Handled(t) /\ Keeps(t, s)
<1>1. TRANSFER_PASS \in Allowed /\ VERIFY_PASS \in Allowed /\ APPLY_PASS \in Allowed
  BY Numbers DEF EndingEvents
<1>2. \A e \in Allowed : Fine(After(e))
  BY EventHandled
<1>3. Fine([s EXCEPT !.progress_flag = TRUE])
  <2> DEFINE t == [s EXCEPT !.progress_flag = TRUE]
  <2>1. t \in FdType /\ t.sent = <<>> /\ t.cur_state = s.cur_state
        /\ t.event_id = s.event_id
        /\ t.update_mode = s.update_mode /\ t.is_in_upgrade_mode = s.is_in_upgrade_mode
    BY DEF Inv, FdType
  <2>2. Bounded(t) /\ (s.cur_state = IDLE => Clean(t))
    BY DEF Inv, FdType, Bounded, Clean
  <2>3. Fine(t)
    <3> HIDE DEF t
    <3> QED BY <2>1, <2>2, KeepsEvent
  <2> QED BY <2>3
<1>4. \A e \in Events, b \in BOOLEAN :
        [s EXCEPT !.event_id = IF b THEN e ELSE s.event_id, !.progress_flag = TRUE]
          = IF b THEN After(e) ELSE [s EXCEPT !.progress_flag = TRUE]
  BY DEF Inv, FdType
<1>5. Fine(s)
  BY InvHandled
<1> HIDE DEF Fine
<1>6. Fine(pldm_fwup_transfercpl_recv(s, ok))
  BY <1>1, <1>2, <1>3, <1>4, <1>5 DEF pldm_fwup_transfercpl_recv
<1>7. Fine(pldm_fwup_verifycpl_recv(s, ok))
  BY <1>1, <1>2, <1>3, <1>4, <1>5 DEF pldm_fwup_verifycpl_recv
<1>8. Fine(pldm_fwup_applycpl_recv(s, ok))
  BY <1>1, <1>2, <1>5 DEF pldm_fwup_applycpl_recv
<1> QED BY <1>6, <1>7, <1>8 DEF Fine

LEMMA ActivateHandled ==
  ASSUME NEW s, Inv(s), s.sent = <<>>, NEW self \in BOOLEAN, NEW flash_ok \in BOOLEAN
  PROVE  /\ Handled(pldm_fwup_activatefw(s, self, flash_ok))
         /\ s.cur_state # READY_XFER \/ s.event_id # APPLY_PASS =>
              Keeps(pldm_fwup_activatefw(s, self, flash_ok), s)
<1> DEFINE t == pldm_fwup_activatefw(s, self, flash_ok)
           id == s.new_img.comp_identifier
           state == IF id = 0 THEN s.pending_img_state \cup {0} ELSE {id}
<1>1. /\ INVALID_STATE_FOR_COMMAND \in Nat /\ INCOMPLETE_UPDATE \in Nat
      /\ SELF_CONTAINED_ACTIVATION_NOT_PERMITTED \in Nat /\ ACTIVATE_DONE \in Events
  BY Numbers, Stored
<1>2. CASE s.cur_state # READY_XFER
  BY <1>1, <1>2, RefuseHandled DEF pldm_fwup_activatefw
<1>3. CASE s.cur_state = READY_XFER /\ s.event_id # APPLY_PASS
  BY <1>1, <1>3, RefuseHandled DEF pldm_fwup_activatefw
<1>4. CASE s.cur_state = READY_XFER /\ s.event_id = APPLY_PASS
  <2> DEFINE nvm == IF flash_ok THEN [ActiveImg EXCEPT ![id] = s.new_img] ELSE s.nvm_img
             nvm_state == IF flash_ok THEN state ELSE s.nvm_img_state
             pending == [s.pending_img EXCEPT ![id] = s.new_img]
             code == IF self THEN SELF_CONTAINED_ACTIVATION_NOT_PERMITTED ELSE s.cpl
             u == [s EXCEPT !.cpl = code,
                     !.event_id = ACTIVATE_DONE, !.progress_flag = TRUE,
                     !.pending_img = pending, !.pending_img_state = state,
                     !.nvm_img = nvm, !.nvm_img_state = nvm_state,
                     !.sensors_changed = s.sensors_changed \cup {"config"}]
  <2>1. /\ s \in FdType /\ id \in CompIds /\ s.new_img \in Img
        /\ s.pending_img \in [CompIds -> Img] /\ s.nvm_img \in [CompIds -> Img]
        /\ s.pending_img_state \subseteq CompIds /\ s.nvm_img_state \subseteq CompIds
        /\ s.cpl \in Nat
    BY DEF Inv, FdType, Img
  <2>2. ActiveImg \in [CompIds -> Img]
    BY DEF ActiveImg, Img
  <2>3. nvm \in [CompIds -> Img] /\ pending \in [CompIds -> Img]
    BY <2>1, <2>2
  <2>4. state \subseteq CompIds /\ nvm_state \subseteq CompIds /\ code \in Nat
    BY <1>1, <2>1, CompIdsAssumption
  <2>5. t = u
    BY <1>4 DEF pldm_fwup_activatefw
  <2> HIDE DEF nvm, nvm_state, pending, code, state
  <2>6. u \in FdType
    BY <1>1, <2>1, <2>3, <2>4 DEF FdType
  <2>7. /\ u.sent = <<>> /\ u.cur_state = s.cur_state
        /\ u.update_mode = s.update_mode /\ u.is_in_upgrade_mode = s.is_in_upgrade_mode
    BY <2>1 DEF FdType
  <2>8. Bounded(u)
    BY DEF Inv, FdType, Bounded
  <2>9. s.cur_state # IDLE
    BY <1>4, Numbers
  <2> HIDE DEF u
  <2>10. Handled(u)
    BY <2>6, <2>7, <2>8, <2>9, StaysInSession
  <2> QED BY <1>4, <2>5, <2>10
<1> QED BY <1>2, <1>3, <1>4

LEMMA CancelHandled ==
  ASSUME NEW s, Inv(s), s.sent = <<>>
  PROVE  /\ Handled(pldm_fwup_compupdate_cancel(s))
         /\ Keeps(pldm_fwup_compupdate_cancel(s), s)
         /\ Handled(pldm_fwup_fwupdate_cancel(s))
<1>1. \A e \in {CANCEL_UD_COMP, CANCEL_UD_OR_TIMEOUT} :
        /\ Handled([s EXCEPT !.event_id = e])
        /\ e \notin EndingEvents => Keeps([s EXCEPT !.event_id = e], s)
  <2> SUFFICES ASSUME NEW e \in {CANCEL_UD_COMP, CANCEL_UD_OR_TIMEOUT}
               PROVE  /\ Handled([s EXCEPT !.event_id = e])
                      /\ e \notin EndingEvents => Keeps([s EXCEPT !.event_id = e], s)
    OBVIOUS
  <2>1. e \in Events \ {ENTER_UD_WITH_PKTDATA, ENTER_UD_NO_PKTDATA}
    BY Numbers
  <2>2. s.progress_flag \in BOOLEAN
    BY DEF Inv, FdType
  <2>3. [s EXCEPT !.event_id = e] = [s EXCEPT !.event_id = e, !.progress_flag = s.progress_flag]
    BY DEF Inv, FdType
  <2> QED BY <2>1, <2>2, <2>3, EventHandled
<1>2. /\ Handled(Refuse(s, INVALID_STATE_FOR_COMMAND))
      /\ Keeps(Refuse(s, INVALID_STATE_FOR_COMMAND), s)
  BY Stored, RefuseHandled
<1>3. CANCEL_UD_COMP \notin EndingEvents
  BY Numbers DEF EndingEvents
<1> QED BY <1>1, <1>2, <1>3 DEF pldm_fwup_compupdate_cancel, pldm_fwup_fwupdate_cancel
(***************************************************************************)
(* The switch.                                                             *)
(***************************************************************************)

LEMMA OneOrLess ==
  ASSUME NEW q, q = <<>> \/ Len(q) = 1
  PROVE  Len(q) <= 1
OBVIOUS

\* A step that leaves alone what the invariant speaks of keeps it.
LEMMA KeepsInv ==
  ASSUME NEW s, Inv(s), NEW t \in FdType,
         t.cur_state = s.cur_state, t.event_id = s.event_id,
         t.update_mode = s.update_mode, t.is_in_upgrade_mode = s.is_in_upgrade_mode,
         t.once_size = s.once_size, t.max_transfer_size = s.max_transfer_size,
         t.fw_len = s.fw_len, t.fw_total = s.fw_total, t.new_img = s.new_img,
         t.pkg_len = s.pkg_len, t.pkg_total = s.pkg_total
  PROVE  Inv(t)
<1>1. RowsOf(t) = RowsOf(s)
  BY DEF RowsOf
<1>2. Bounded(t) /\ (t.cur_state = IDLE => Clean(t))
  BY DEF Inv, Bounded, Clean
<1>3. t.update_mode = t.is_in_upgrade_mode
  BY DEF Inv
<1>4. t.update_mode <=> t.cur_state # IDLE
  BY DEF Inv
<1> QED BY <1>1, <1>2, <1>3, <1>4 DEF Inv

\* Sending the request that opens the next state keeps the invariant.
LEMMA SendInv ==
  ASSUME NEW s, Inv(s), s.sent = <<>>, NEW r \in Requests
  PROVE  Inv(pldm_msg_send(s, r)) /\ Len(pldm_msg_send(s, r).sent) = 1
<1> DEFINE t == pldm_msg_send(s, r)
<1>1. t \in FdType /\ Len(t.sent) = 1 /\ t = [s EXCEPT !.need_rsp = TRUE, !.sent = t.sent]
  BY Sent DEF Inv
<1> HIDE DEF t
<1>2. /\ t.cur_state = s.cur_state /\ t.event_id = s.event_id
      /\ t.update_mode = s.update_mode /\ t.is_in_upgrade_mode = s.is_in_upgrade_mode
      /\ t.once_size = s.once_size /\ t.max_transfer_size = s.max_transfer_size
      /\ t.fw_len = s.fw_len /\ t.fw_total = s.fw_total /\ t.new_img = s.new_img
      /\ t.pkg_len = s.pkg_len /\ t.pkg_total = s.pkg_total
  BY <1>1 DEF Inv, FdType
<1>3. Inv(t)
  BY <1>1, <1>2, KeepsInv
<1>4. Inv(t) /\ Len(t.sent) = 1
  BY <1>1, <1>3
<1> QED BY <1>4 DEF t

\* The switch takes what a handler left to a state with nothing pending.
LEMMA SwitchInv ==
  ASSUME NEW s, Handled(s), NEW cb_ok \in BOOLEAN
  PROVE  LET t == pldm_fwup_state_machine_switch(s, cb_ok)
         IN  Inv(t) /\ Len(t.sent) <= 1
<1> DEFINE t == pldm_fwup_state_machine_switch(s, cb_ok)
           s0 == [s EXCEPT !.timeout_occur_flag = FALSE]
           row == CHOOSE r \in RowsOf(s) : TRUE
           v == pldm_fwup_sta_chg([s0 EXCEPT !.progress_flag = FALSE], row.next)
           u == IF s.event_id = UD_COMP_END
                THEN [v EXCEPT !.pd = "open", !.image_file = <<>>] ELSE v
<1>1. /\ s \in FdType /\ Bounded(s) /\ s.update_mode = s.is_in_upgrade_mode
      /\ s.update_mode <=> (s.cur_state # IDLE \/ Entering(s))
  BY DEF Handled
<1>2. CASE RowsOf(s) = {}
  <2>1. t = s0
    BY <1>2 DEF pldm_fwup_state_machine_switch
  <2>2. s0 \in FdType /\ Bounded(s0) /\ s0.sent = s.sent
    BY <1>1 DEF FdType, Bounded
  <2>3. RowsOf(s0) = {}
    BY <1>1, <1>2 DEF RowsOf, FdType
  <2>4. s.cur_state = IDLE => ~Entering(s)
    BY <1>1, <1>2, NotEntering
  <2>5. /\ s0.update_mode = s0.is_in_upgrade_mode
        /\ s0.update_mode <=> s0.cur_state # IDLE
    BY <1>1, <2>4 DEF FdType
  <2>6. s0.cur_state = IDLE => Clean(s0)
    BY <1>1, <2>4 DEF Handled, FdType, Clean
  <2>7. Len(s0.sent) <= 1
    <3>1. s.sent = <<>> \/ Len(s.sent) = 1
      BY DEF Handled
    <3>2. s0.sent = <<>> \/ Len(s0.sent) = 1
      BY <2>2, <3>1
    <3> HIDE DEF s0
    <3> QED BY <3>2, OneOrLess, Zenon
  <2> HIDE DEF s0
  <2>8. Inv(s0)
    BY <2>2, <2>3, <2>5, <2>6 DEF Inv
  <2> QED BY <2>1, <2>7, <2>8
<1>3. CASE RowsOf(s) # {}
  <2>1. /\ row \in pldm_fwup_transforms
        /\ row.cur = s.cur_state /\ row.event = s.event_id
    BY <1>3 DEF RowsOf
  <2>2. s.sent = <<>>
    BY <1>3 DEF Handled
  <2>3. t = RunAction(row.action, u, cb_ok)
    BY <1>3 DEF pldm_fwup_state_machine_switch
  <2> HIDE DEF row
  <2>4. row.next \in 0 .. 4 \cup {5} /\ row.cur \in 0 .. 5 /\ row.event # 0
    BY <2>1, TableRows DEF Row
  <2>5. /\ v \in FdType /\ Bounded(v) /\ v.sent = <<>>
        /\ v.cur_state = row.next /\ v.event_id = s.event_id
        /\ v.update_mode = s.update_mode /\ v.is_in_upgrade_mode = s.is_in_upgrade_mode
    <3>1. row.next \in States
      BY <2>4, Numbers
    <3> QED BY <1>1, <2>2, <3>1 DEF pldm_fwup_sta_chg, FdType, Bounded
  <2> HIDE DEF v
  <2>6. /\ u \in FdType /\ Bounded(u) /\ u.sent = <<>>
        /\ u.cur_state = row.next /\ u.event_id = row.event
        /\ u.update_mode = s.update_mode /\ u.is_in_upgrade_mode = s.is_in_upgrade_mode
    <3> DEFINE o == [v EXCEPT !.pd = "open", !.image_file = <<>>]
    <3>1. <<>> \in Seq(Blocks)
      OBVIOUS
    <3>2. o \in FdType
      BY <2>5, <3>1 DEF FdType
    <3>3. /\ Bounded(o) /\ o.sent = v.sent
          /\ o.cur_state = v.cur_state /\ o.event_id = v.event_id
          /\ o.update_mode = v.update_mode /\ o.is_in_upgrade_mode = v.is_in_upgrade_mode
      BY <2>5 DEF FdType, Bounded
    <3> HIDE DEF o
    <3>4. u = o \/ u = v
      BY DEF o
    <3> HIDE DEF u
    <3> QED BY <2>1, <2>5, <3>2, <3>3, <3>4
  <2> HIDE DEF u
  <2>7. s.update_mode /\ s.is_in_upgrade_mode
    <3>1. s.cur_state # IDLE \/ Entering(s)
      BY <2>1, TableRows, Numbers DEF Row, Entering
    <3> QED BY <1>1, <3>1 DEF FdType
  <2>8. row.next # 0 /\ RowsOf(u) = {} => Inv(u)
    BY <2>6, <2>7, Numbers DEF Inv
  <2>9. u.cur_state \in States
    BY <2>6 DEF FdType
  <2> SUFFICES Inv(t) /\ Len(t.sent) <= 1
    OBVIOUS
  <2> HIDE DEF t
  <2>10. CASE row.action = "NULL"
    <3>1. RowsOf(u) = {} /\ row.next # 0
      BY <2>1, <2>6, <2>9, <2>10, TableRows, NoRow DEF Row
    <3>2. t = u
      BY <2>3, <2>10 DEF RunAction
    <3> QED BY <2>6, <2>8, <3>1, <3>2
  <2>11. CASE row.action = "firmware_process_quit"
    <3>1. row.next = 0
      BY <2>1, <2>11, TableRows DEF Row
    <3>2. t = pldm_fwup_firmware_process_quit(u)
      BY <2>3, <2>11 DEF RunAction
    <3> QED BY <2>6, <3>1, <3>2, QuitInv, Numbers
  <2>12. CASE row.action = "component_process_quit"
    <3>1. row.next = 2
      BY <2>1, <2>12, TableRows DEF Row
    <3>2. t = pldm_fwup_component_process_quit(u)
      BY <2>3, <2>12 DEF RunAction
    <3> QED BY <2>6, <2>7, <3>1, <3>2, ComponentQuitInv, Numbers, OneOrLess
  <2>13. CASE row.action = "getpackagedata_send"
    <3>1. RowsOf(u) = {} /\ row.next # 0
      BY <2>1, <2>6, <2>9, <2>13, TableRows, NoRow DEF Row
    <3>2. t = pldm_fwup_getpackagedata_send(u)
      BY <2>3, <2>13 DEF RunAction
    <3>3. [cmd |-> "GetPackageData", handle |-> u.data_transfer_handle] \in Requests
      BY <2>6, RequestTypes DEF FdType
    <3> QED BY <2>6, <2>8, <3>1, <3>2, <3>3, SendInv, OneOrLess DEF pldm_fwup_getpackagedata_send
  <2>14. CASE row.action = "requestfwdata_send"
    <3>1. RowsOf(u) = {} /\ row.next # 0
      BY <2>1, <2>6, <2>9, <2>14, TableRows, NoRow DEF Row
    <3>2. t = pldm_fwup_requestfwdata_send(u)
      BY <2>3, <2>14 DEF RunAction
    <3>3. [cmd |-> "RequestFirmwareData",
           offset |-> u.data_transfer_handle, len |-> u.once_size] \in Requests
      BY <2>6, RequestTypes DEF FdType
    <3> QED BY <2>6, <2>8, <3>1, <3>2, <3>3, SendInv, OneOrLess DEF pldm_fwup_requestfwdata_send
  <2>15. CASE row.action = "applycpl_send"
    <3>1. RowsOf(u) = {} /\ row.next # 0
      BY <2>1, <2>6, <2>9, <2>15, TableRows, NoRow DEF Row
    <3>2. t = pldm_fwup_applycpl_send(u)
      BY <2>3, <2>15 DEF RunAction
    <3>3. [cmd |-> "ApplyComplete", result |-> 1] \in Requests
      BY RequestTypes
    <3> QED BY <2>6, <2>8, <3>1, <3>2, <3>3, SendInv, OneOrLess DEF pldm_fwup_applycpl_send
  <2>16. CASE row.action = "verify_process"
    <3> DEFINE result == IF cb_ok THEN 0 ELSE 1
               w == [u EXCEPT !.verify_result = result]
    <3>1. RowsOf(u) = {} /\ row.next # 0
      BY <2>1, <2>6, <2>9, <2>16, TableRows, NoRow DEF Row
    <3>2. t = pldm_fwup_verify_process(u, cb_ok)
      BY <2>3, <2>16 DEF RunAction
    <3>3. [cmd |-> "VerifyComplete", result |-> result] \in Requests
      BY RequestTypes
    <3>4. Inv(w) /\ w.sent = <<>>
      <4>1. Inv(u)
        BY <2>8, <3>1
      <4>2. /\ w \in FdType /\ w.sent = u.sent
            /\ w.cur_state = u.cur_state /\ w.event_id = u.event_id
            /\ w.update_mode = u.update_mode /\ w.is_in_upgrade_mode = u.is_in_upgrade_mode
            /\ w.once_size = u.once_size /\ w.max_transfer_size = u.max_transfer_size
            /\ w.fw_len = u.fw_len /\ w.fw_total = u.fw_total /\ w.new_img = u.new_img
            /\ w.pkg_len = u.pkg_len /\ w.pkg_total = u.pkg_total
        BY <2>6 DEF FdType
      <4> HIDE DEF w
      <4> QED BY <2>6, <4>1, <4>2, KeepsInv
    <3> HIDE DEF w, result
    <3>5. t = pldm_msg_send(w, [cmd |-> "VerifyComplete", result |-> result])
      BY <3>2 DEF pldm_fwup_verify_process, w, result
    <3> QED BY <3>3, <3>4, <3>5, SendInv, OneOrLess
  <2> QED BY <2>1, <2>10, <2>11, <2>12, <2>13, <2>14, <2>15, <2>16, TableRows DEF Row
<1> QED BY <1>2, <1>3
(***************************************************************************)
(* The specification.                                                      *)
(***************************************************************************)

IInv == Inv(fd) /\ OneRequestPerPacket

LEMMA PacketInv ==
  ASSUME Inv(fd), NEW s, Handled(s), NEW cb_ok \in BOOLEAN, Packet(s, cb_ok)
  PROVE  IInv'
<1>1. Handled(Refuse(Received, NOT_IN_UPDATE_MODE))
  BY ReceivedInv, Stored, RefuseHandled
<1>2. PICK h : Handled(h) /\ fd' = pldm_fwup_state_machine_switch(h, cb_ok)
  BY <1>1 DEF Packet
<1>3. Inv(fd') /\ Len(fd'.sent) <= 1
  BY <1>2, SwitchInv
<1> QED BY <1>3 DEF IInv, OneRequestPerPacket, Inv, Bounded, Clean, RowsOf

LEMMA InitIInv == Init => IInv
<1> SUFFICES ASSUME Init PROVE IInv
  OBVIOUS
<1>1. /\ IDLE \in States /\ UNKNOWN \in Events /\ ZeroImg \in Img
      /\ SUCCESS \in Nat /\ NoReason \in Nat
      /\ <<>> \in Seq(Blocks) /\ <<>> \in Seq(Requests) /\ Len(<<>>) = 0
  BY Stored, Numbers
<1>2. [i \in 0 .. RecvBufMax - 1 |-> 0] \in Blocks
  BY DEF Blocks
<1>3. /\ ActiveImg \in [CompIds -> Img] /\ ActiveImgState \subseteq CompIds
      /\ [i \in CompIds |-> ZeroImg] \in [CompIds -> Img]
  BY <1>1 DEF ActiveImg, ActiveImgState, Img
<1>4. fd \in FdType
  BY <1>1, <1>2, <1>3 DEF Init, FdType
<1>5. /\ fd.cur_state = IDLE /\ fd.event_id = 0 /\ fd.sent = <<>>
      /\ fd.update_mode = FALSE /\ fd.is_in_upgrade_mode = FALSE
      /\ fd.once_size = 0 /\ fd.max_transfer_size = 0 /\ fd.fw_len = 0 /\ fd.fw_total = 0
      /\ fd.pkg_len = 0 /\ fd.pkg_total = 0 /\ fd.new_img = ZeroImg
  BY Numbers DEF Init
<1>6. Bounded(fd) /\ Clean(fd)
  BY <1>5, RecvBufMaxAssumption DEF Bounded, Clean
<1>7. RowsOf(fd) = {}
  BY <1>4, <1>5, NoRow DEF FdType
<1>8. Len(fd.sent) <= 1
  BY <1>5, OneOrLess
<1> QED BY <1>4, <1>5, <1>6, <1>7, <1>8 DEF IInv, Inv, OneRequestPerPacket

LEMMA NextIInv == IInv /\ [Next]_fd => IInv'
<1> SUFFICES ASSUME Inv(fd), OneRequestPerPacket, [Next]_fd PROVE IInv'
  BY DEF IInv
<1>1. \A cmd : Inv(Prologue(cmd)) /\ Prologue(cmd).sent = <<>>
  BY PrologueInv
<1>2. CASE Inventory
  <2>1. PICK cmd : Packet(Prologue(cmd), TRUE)
    BY <1>2 DEF Inventory
  <2> QED BY <1>1, <2>1, InvHandled, PacketInv
<1>3. CASE Unsupported
  <2>1. COMMAND_UNSUPPORT \in Nat
    BY Stored
  <2> QED BY <1>1, <1>3, <2>1, RefuseHandled, PacketInv DEF Unsupported
<1>4. CASE GetStatus
  BY <1>1, <1>4, GetStatusHandled, PacketInv DEF GetStatus
<1>5. CASE RequestUpdate
  BY <1>1, <1>5, RequestUpdateHandled, PacketInv DEF RequestUpdate
<1>6. CASE GetPackageDataAnswer
  BY <1>1, <1>6, GetPackageDataRecvHandled, PacketInv DEF GetPackageDataAnswer
<1>7. CASE PassComponentTable
  <2>1. PICK img \in Img, last \in BOOLEAN :
          Packet(pldm_fwup_passcomponenttable(Prologue("PassComponentTable"), img, last), TRUE)
    BY <1>7 DEF PassComponentTable, Img
  <2> QED BY <1>1, <2>1, PassComponentTableHandled, PacketInv
<1>8. CASE UpdateComponent
  <2>1. PICK img \in Img, size \in ImgSizes :
          Packet(pldm_fwup_updatecomponent(Prologue("UpdateComponent"), img, size), TRUE)
    BY <1>8 DEF UpdateComponent, Img
  <2> QED BY <1>1, <2>1, UpdateComponentHandled, PacketInv
<1>9. CASE RequestFirmwareDataAnswer
  BY <1>1, <1>9, RequestFwDataRecvHandled, PacketInv DEF RequestFirmwareDataAnswer
<1>10. CASE TransferCompleteAnswer
  BY <1>1, <1>10, CompletionRecvHandled, PacketInv, CallbackAssumption
     DEF TransferCompleteAnswer
<1>11. CASE VerifyCompleteAnswer
  BY <1>1, <1>11, CompletionRecvHandled, PacketInv DEF VerifyCompleteAnswer
<1>12. CASE ApplyCompleteAnswer
  BY <1>1, <1>12, CompletionRecvHandled, PacketInv DEF ApplyCompleteAnswer
<1>13. CASE ActivateFirmware
  BY <1>1, <1>13, ActivateHandled, PacketInv DEF ActivateFirmware
<1>14. CASE CancelUpdateComponent
  BY <1>1, <1>14, CancelHandled, PacketInv DEF CancelUpdateComponent
<1>15. CASE CancelUpdate
  BY <1>1, <1>15, CancelHandled, PacketInv DEF CancelUpdate
<1>16. CASE TimePasses
  <2> DEFINE t == [fd EXCEPT !.overtime = TRUE]
  <2>1. /\ t \in FdType /\ t.sent = fd.sent
        /\ t.cur_state = fd.cur_state /\ t.event_id = fd.event_id
        /\ t.update_mode = fd.update_mode /\ t.is_in_upgrade_mode = fd.is_in_upgrade_mode
        /\ t.once_size = fd.once_size /\ t.max_transfer_size = fd.max_transfer_size
        /\ t.fw_len = fd.fw_len /\ t.fw_total = fd.fw_total /\ t.new_img = fd.new_img
        /\ t.pkg_len = fd.pkg_len /\ t.pkg_total = fd.pkg_total
    BY DEF Inv, FdType
  <2>2. fd' = t
    BY <1>16 DEF TimePasses
  <2> HIDE DEF t
  <2>3. Inv(t) /\ Len(t.sent) <= 1
    BY <2>1, KeepsInv DEF OneRequestPerPacket
  <2> QED BY <2>2, <2>3 DEF IInv, OneRequestPerPacket, Inv, Bounded, Clean, RowsOf
<1>17. CASE UNCHANGED fd
  BY <1>17 DEF IInv, OneRequestPerPacket, Inv, Bounded, Clean, RowsOf
<1> QED BY <1>2, <1>3, <1>4, <1>5, <1>6, <1>7, <1>8, <1>9, <1>10, <1>11, <1>12, <1>13,
           <1>14, <1>15, <1>16, <1>17 DEF Next

(***************************************************************************)
(* How a session ends.                                                     *)
(***************************************************************************)

\* The timer apart, the prologue leaves the session as it is.
LEMMA PrologueSame ==
  ASSUME Inv(fd), ~fd.overtime, NEW cmd
  PROVE  LET p == Prologue(cmd) IN
           /\ p.cur_state = fd.cur_state /\ p.event_id = fd.event_id
           /\ p.update_mode = fd.update_mode
           /\ p.want_to_end_update = fd.want_to_end_update
<1>1. /\ Received.cur_state = fd.cur_state /\ Received.event_id = fd.event_id
      /\ Received.update_mode = fd.update_mode /\ Received.overtime = fd.overtime
      /\ Received.want_to_end_update = fd.want_to_end_update /\ Received \in FdType
  BY ReceivedInv DEF Inv, Received, FdType
<1>2. pldm_fwup_timeout_process(Received) = Received
  BY <1>1 DEF pldm_fwup_timeout_process
<1>3. Prologue(cmd) \in {Received, [Received EXCEPT !.need_rsp = FALSE]}
  BY <1>2 DEF Prologue
<1> QED BY <1>1, <1>3 DEF FdType

\* The switch ends a session with an ending event only.
LEMMA SwitchKeeps ==
  ASSUME NEW s \in FdType, s.update_mode, NEW cb_ok \in BOOLEAN,
         RowsOf(s) = {} \/ s.event_id \notin EndingEvents
  PROVE  pldm_fwup_state_machine_switch(s, cb_ok).update_mode
<1> DEFINE t == pldm_fwup_state_machine_switch(s, cb_ok)
           s0 == [s EXCEPT !.timeout_occur_flag = FALSE]
           row == CHOOSE r \in RowsOf(s) : TRUE
           v == pldm_fwup_sta_chg([s0 EXCEPT !.progress_flag = FALSE], row.next)
           u == IF s.event_id = UD_COMP_END
                THEN [v EXCEPT !.pd = "open", !.image_file = <<>>] ELSE v
<1>1. CASE RowsOf(s) = {}
  BY <1>1 DEF pldm_fwup_state_machine_switch, FdType
<1>2. CASE RowsOf(s) # {}
  <2>1. row \in pldm_fwup_transforms /\ row.event = s.event_id
    BY <1>2 DEF RowsOf
  <2>2. t = RunAction(row.action, u, cb_ok)
    BY <1>2 DEF pldm_fwup_state_machine_switch
  <2> HIDE DEF row
  <2>3. row.action # "firmware_process_quit"
    BY <1>2, <2>1, TableRows, Numbers DEF Row, EndingEvents
  <2>4. u.update_mode /\ DOMAIN u = DOMAIN s
    BY DEF pldm_fwup_sta_chg, FdType
  <2> HIDE DEF u
  <2>5. ASSUME NEW w, w.update_mode, DOMAIN w = DOMAIN s, NEW q
        PROVE  pldm_msg_send(w, q).update_mode
    BY <2>5 DEF pldm_msg_send, FdType
  <2>6. [u EXCEPT !.verify_result = IF cb_ok THEN 0 ELSE 1].update_mode
        /\ DOMAIN [u EXCEPT !.verify_result = IF cb_ok THEN 0 ELSE 1] = DOMAIN s
    BY <2>4 DEF FdType
  <2>7. /\ pldm_fwup_getpackagedata_send(u).update_mode
        /\ pldm_fwup_requestfwdata_send(u).update_mode
        /\ pldm_fwup_applycpl_send(u).update_mode
    BY <2>4, <2>5 DEF pldm_fwup_getpackagedata_send, pldm_fwup_requestfwdata_send,
                      pldm_fwup_applycpl_send
  <2>8. pldm_fwup_verify_process(u, cb_ok).update_mode
    BY <2>5, <2>6 DEF pldm_fwup_verify_process
  <2>9. pldm_fwup_component_process_quit(u).update_mode
    BY <2>4 DEF pldm_fwup_component_process_quit, FdType
  <2> HIDE DEF t
  <2>10. t.update_mode
    BY <2>2, <2>3, <2>4, <2>7, <2>8, <2>9 DEF RunAction
  <2> QED BY <2>10 DEF t
<1> QED BY <1>1, <1>2

\* A packet whose handler keeps the session leaves it in update mode.
LEMMA PacketKeeps ==
  ASSUME Inv(fd), fd.update_mode, NEW p, p.update_mode = fd.update_mode,
         NEW s, Handled(s), Keeps(s, p), NEW cb_ok \in BOOLEAN, Packet(s, cb_ok)
  PROVE  fd'.update_mode
<1>1. fd' = pldm_fwup_state_machine_switch(s, cb_ok)
  BY DEF Packet
<1>2. s \in FdType /\ s.update_mode
  BY DEF Handled, Keeps
<1> QED BY <1>1, <1>2, SwitchKeeps DEF Keeps

\* No answer and no query ends a session, nor the commands that are refused.
LEMMA SessionStays ==
  ASSUME Inv(fd), fd.update_mode, ~fd.overtime,
         \/ Inventory \/ Unsupported \/ GetStatus \/ RequestUpdate
         \/ GetPackageDataAnswer \/ UpdateComponent \/ RequestFirmwareDataAnswer
         \/ TransferCompleteAnswer \/ VerifyCompleteAnswer \/ ApplyCompleteAnswer
         \/ CancelUpdateComponent \/ TimePasses
         \/ PassComponentTable /\ ~fd.want_to_end_update
         \/ ActivateFirmware /\ (fd.cur_state # READY_XFER \/ fd.event_id # APPLY_PASS)
  PROVE  fd'.update_mode
<1>1. \A cmd : /\ Inv(Prologue(cmd)) /\ Prologue(cmd).sent = <<>>
               /\ Prologue(cmd).update_mode = fd.update_mode
               /\ Prologue(cmd).cur_state = fd.cur_state
               /\ Prologue(cmd).event_id = fd.event_id
               /\ Prologue(cmd).want_to_end_update = fd.want_to_end_update
  BY PrologueInv, PrologueSame
<1>2. CASE Inventory
  <2>1. PICK cmd : Packet(Prologue(cmd), TRUE)
    BY <1>2 DEF Inventory
  <2> QED BY <1>1, <2>1, InvHandled, PacketKeeps
<1>3. CASE Unsupported
  <2>1. COMMAND_UNSUPPORT \in Nat
    BY Stored
  <2> QED BY <1>1, <1>3, <2>1, RefuseHandled, PacketKeeps DEF Unsupported
<1>4. CASE GetStatus
  BY <1>1, <1>4, GetStatusHandled, PacketKeeps DEF GetStatus
<1>5. CASE RequestUpdate
  BY <1>1, <1>5, RequestUpdateHandled, PacketKeeps DEF RequestUpdate
<1>6. CASE GetPackageDataAnswer
  BY <1>1, <1>6, GetPackageDataRecvHandled, PacketKeeps DEF GetPackageDataAnswer
<1>7. CASE PassComponentTable /\ ~fd.want_to_end_update
  <2>1. PICK img \in Img, last \in BOOLEAN :
          Packet(pldm_fwup_passcomponenttable(Prologue("PassComponentTable"), img, last), TRUE)
    BY <1>7 DEF PassComponentTable, Img
  <2> QED BY <1>1, <1>7, <2>1, PassComponentTableHandled, PacketKeeps
<1>8. CASE UpdateComponent
  <2>1. PICK img \in Img, size \in ImgSizes :
          Packet(pldm_fwup_updatecomponent(Prologue("UpdateComponent"), img, size), TRUE)
    BY <1>8 DEF UpdateComponent, Img
  <2> QED BY <1>1, <2>1, UpdateComponentHandled, PacketKeeps
<1>9. CASE RequestFirmwareDataAnswer
  BY <1>1, <1>9, RequestFwDataRecvHandled, PacketKeeps DEF RequestFirmwareDataAnswer
<1>10. CASE TransferCompleteAnswer
  BY <1>1, <1>10, CompletionRecvHandled, PacketKeeps, CallbackAssumption
     DEF TransferCompleteAnswer
<1>11. CASE VerifyCompleteAnswer
  BY <1>1, <1>11, CompletionRecvHandled, PacketKeeps DEF VerifyCompleteAnswer
<1>12. CASE ApplyCompleteAnswer
  BY <1>1, <1>12, CompletionRecvHandled, PacketKeeps DEF ApplyCompleteAnswer
<1>13. CASE ActivateFirmware /\ (fd.cur_state # READY_XFER \/ fd.event_id # APPLY_PASS)
  BY <1>1, <1>13, ActivateHandled, PacketKeeps DEF ActivateFirmware
<1>14. CASE CancelUpdateComponent
  BY <1>1, <1>14, CancelHandled, PacketKeeps DEF CancelUpdateComponent
<1>15. CASE TimePasses
  BY <1>15 DEF TimePasses, Inv, FdType
<1> QED BY <1>2, <1>3, <1>4, <1>5, <1>6, <1>7, <1>8, <1>9, <1>10, <1>11, <1>12, <1>13,
           <1>14, <1>15

\* The inductive invariant holds of every reachable state.
THEOREM InductiveInvariant == Spec => []IInv
BY InitIInv, NextIInv, PTL DEF Spec

\* Whatever the agent sends, the variables of the C file keep their types: the
\* handlers and the switch store only states, events and sizes that exist.
THEOREM TypeCorrect == Spec => []TypeOK
<1>1. IInv => TypeOK
  BY DEF IInv, Inv, TypeOK
<1> QED BY <1>1, InductiveInvariant, PTL

\* The two update flags and the state agree between packets, so the refusal of
\* commands outside update mode never strikes a session.
THEOREM ModeAgreesWithState == Spec => []ModeMatchesState
<1>1. IInv => ModeMatchesState
  BY DEF IInv, Inv, ModeMatchesState
<1> QED BY <1>1, InductiveInvariant, PTL

\* The event, never consumed, leaves no row of the table to fire at the next
\* packet of whatever kind.
THEOREM NothingFiresTwice == Spec => []NoPendingTransition
<1>1. IInv => NoPendingTransition
  BY DEF IInv, Inv, NoPendingTransition
<1> QED BY <1>1, InductiveInvariant, PTL

\* The receive buffers hold, for every transfer size and image size.
THEOREM BuffersHold == Spec => []BuffersInBounds
<1>1. IInv => BuffersInBounds
  BY DEF IInv, Inv, Bounded, BuffersInBounds
<1> QED BY <1>1, InductiveInvariant, PTL

\* A packet makes the device send one request at most.
THEOREM AtMostOneRequest == Spec => []OneRequestPerPacket
<1>1. IInv => OneRequestPerPacket
  BY DEF IInv
<1> QED BY <1>1, InductiveInvariant, PTL

\* However a session ended, the next one starts from clean counters.
THEOREM SessionsStartClean == Spec => []NothingLeftInIdle
<1>1. IInv => NothingLeftInIdle
  BY DEF IInv, Inv, Clean, NothingLeftInIdle
<1> QED BY <1>1, InductiveInvariant, PTL

\* Before its fifteen minutes are over, a session ends by cancellation, by package
\* data in error or by activation, and no answer of the agent ends it.
THEOREM SessionsEndProperly == Spec => SessionEndsOnlyBy
<1> DEFINE Ends == fd.update_mode /\ ~fd'.update_mode /\ ~fd.overtime =>
             /\ \/ CancelUpdate
                \/ PassComponentTable /\ fd.want_to_end_update
                \/ ActivateFirmware /\ fd.cur_state = READY_XFER /\ fd.event_id = APPLY_PASS
             /\ ~(\/ GetPackageDataAnswer
                  \/ RequestFirmwareDataAnswer
                  \/ TransferCompleteAnswer
                  \/ VerifyCompleteAnswer
                  \/ ApplyCompleteAnswer
                  \/ CancelUpdateComponent)
<1>1. IInv /\ [Next]_fd => [Ends]_fd
  <2> SUFFICES ASSUME Inv(fd), Next PROVE Ends
    BY DEF IInv
  <2> QED BY SessionStays DEF Next
<1> QED BY <1>1, InductiveInvariant, PTL DEF Spec, SessionEndsOnlyBy

(***************************************************************************)
(* The session.                                                            *)
(***************************************************************************)
\* An answer to the request that is due is one of the answers an agent may send.
LEMMA AnswerIsAStep ==
  ASSUME NEW ok \in BOOLEAN, NEW cb_ok \in CallbackResults, AgentAnswers(ok, cb_ok)
  PROVE  Next
<1>1. CASE AnswerGetPackageData(ok)
  BY <1>1 DEF AnswerGetPackageData, GetPackageDataAnswer, Next
<1>2. CASE AnswerRequestFirmwareData(ok, cb_ok)
  BY <1>2 DEF AnswerRequestFirmwareData, RequestFirmwareDataAnswer, Next
<1>3. CASE AnswerTransferComplete(ok, cb_ok)
  BY <1>3 DEF AnswerTransferComplete, TransferCompleteAnswer, Next
<1>4. CASE AnswerVerifyComplete(ok)
  BY <1>4 DEF AnswerVerifyComplete, VerifyCompleteAnswer, Next
<1>5. CASE AnswerApplyComplete(ok)
  BY <1>5 DEF AnswerApplyComplete, ApplyCompleteAnswer, Next
<1> QED BY <1>1, <1>2, <1>3, <1>4, <1>5 DEF AgentAnswers

LEMMA SessionStepIsAStep == [SessionNext]_vars => [Next]_fd
<1> SUFFICES ASSUME [SessionNext]_vars PROVE [Next]_fd
  OBVIOUS
<1>1. CASE SessionRequestUpdate
  BY <1>1 DEF SessionRequestUpdate, Next
<1>2. CASE SessionUpdateComponent
  BY <1>2 DEF SessionUpdateComponent, Next
<1>3. CASE SessionCommand
  BY <1>3 DEF SessionCommand, Next
<1>4. CASE SessionQuery
  BY <1>4 DEF SessionQuery, Next
<1>5. CASE SessionCancel
  BY <1>5 DEF SessionCancel, Next
<1>6. CASE SessionTimePasses
  BY <1>6 DEF SessionTimePasses, Next
<1>7. CASE \E ok \in BOOLEAN, cb_ok \in CallbackResults : AgentAnswers(ok, cb_ok)
  BY <1>7, AnswerIsAStep
<1>8. CASE AnswerIsLost
  BY <1>8 DEF AnswerIsLost
<1>9. CASE UNCHANGED vars
  BY <1>9 DEF vars
<1> QED BY <1>1, <1>2, <1>3, <1>4, <1>5, <1>6, <1>7, <1>8, <1>9 DEF SessionNext

\* A session with a disciplined agent, losses and the timer included, shows the
\* device nothing an unconstrained agent could not.
THEOREM SessionIsFwup == SessionSpec => Spec
<1>1. SessionInit => Init
  BY DEF SessionInit
<1> QED BY <1>1, SessionStepIsAStep, PTL DEF SessionSpec, Spec

\* The invariants of the device hold in every session.
THEOREM SessionIsSafe ==
  SessionSpec => [](TypeOK /\ ModeMatchesState /\ NoPendingTransition
                      /\ BuffersInBounds /\ OneRequestPerPacket /\ NothingLeftInIdle)
BY SessionIsFwup, TypeCorrect, ModeAgreesWithState, NothingFiresTwice, BuffersHold,
   AtMostOneRequest, SessionsStartClean, PTL

(***************************************************************************)
(* What a packet does to the part of the device a session is about.  A     *)
(* handler is a short list of assignments; these relations say which of    *)
(* the variables it left as they were.                                     *)
(***************************************************************************)

\* The counters and buffers of a transfer, apart from its file and results.
SameCounters(t, s) ==
  /\ t.max_transfer_size = s.max_transfer_size /\ t.once_size = s.once_size
  /\ t.data_transfer_handle = s.data_transfer_handle
  /\ t.pkg_len = s.pkg_len /\ t.pkg_total = s.pkg_total
  /\ t.getpackagedata_progress = s.getpackagedata_progress
  /\ t.fw_len = s.fw_len /\ t.fw_total = s.fw_total /\ t.fw_data = s.fw_data
  /\ t.overtime = s.overtime

SameFile(t, s) == t.image_file = s.image_file /\ t.pd = s.pd

SameResults(t, s) ==
  t.transfer_result = s.transfer_result /\ t.verify_result = s.verify_result

\* Nothing of the transfer has moved but, perhaps, the event.
SameTransfer(t, s) ==
  /\ t.cur_state = s.cur_state
  /\ SameCounters(t, s) /\ SameFile(t, s) /\ SameResults(t, s)

\* t is s after its session has ended.
Ended(t, s) ==
  /\ t.cur_state = IDLE /\ t.once_size = 0 /\ t.data_transfer_handle = 0
  /\ t.fw_len = 0 /\ t.fw_total = 0 /\ t.pkg_len = 0 /\ t.pkg_total = 0
  /\ t.getpackagedata_progress = FALSE
  /\ t.max_transfer_size = s.max_transfer_size /\ t.fw_data = s.fw_data
  /\ t.overtime = s.overtime
  /\ SameFile(t, s) /\ SameResults(t, s)

\* The reply of the last packet is written over, and nothing of the transfer.
LEMMA ReceivedSame ==
  ASSUME Inv(fd)
  PROVE  /\ SameTransfer(Received, fd) /\ Received.event_id = fd.event_id
         /\ Received.cpl = SUCCESS /\ Received.is_in_upgrade_mode = fd.is_in_upgrade_mode
<1>1. /\ Received.cur_state = fd.cur_state /\ Received.event_id = fd.event_id
      /\ Received.cpl = SUCCESS /\ Received.is_in_upgrade_mode = fd.is_in_upgrade_mode
  BY DEF Inv, Received, FdType
<1>2. SameCounters(Received, fd)
  BY DEF Inv, Received, FdType, SameCounters
<1>3. SameFile(Received, fd) /\ SameResults(Received, fd)
  BY DEF Inv, Received, FdType, SameFile, SameResults
<1> QED BY <1>1, <1>2, <1>3 DEF SameTransfer

\* Quitting the session clears the counters and leaves the file alone.
LEMMA QuitEnds ==
  ASSUME NEW s \in FdType, s.cur_state = IDLE
  PROVE  LET t == pldm_fwup_firmware_process_quit(s)
         IN  Ended(t, s) /\ t.event_id = UNKNOWN /\ t.sent = s.sent /\ t.cpl = s.cpl
<1> DEFINE t == pldm_fwup_firmware_process_quit(s)
<1>1. /\ t.cur_state = IDLE /\ t.once_size = 0 /\ t.data_transfer_handle = 0
      /\ t.fw_len = 0 /\ t.fw_total = 0 /\ t.pkg_len = 0 /\ t.pkg_total = 0
      /\ t.getpackagedata_progress = FALSE
      /\ t.max_transfer_size = s.max_transfer_size /\ t.fw_data = s.fw_data
      /\ t.overtime = s.overtime
  BY DEF pldm_fwup_firmware_process_quit, FdType
<1>2. SameFile(t, s) /\ SameResults(t, s)
  BY DEF pldm_fwup_firmware_process_quit, FdType, SameFile, SameResults
<1>3. t.event_id = UNKNOWN /\ t.sent = s.sent /\ t.cpl = s.cpl
  BY DEF pldm_fwup_firmware_process_quit, FdType
<1> QED BY <1>1, <1>2, <1>3 DEF Ended

\* ... and keeps the types.
LEMMA QuitTypes ==
  ASSUME NEW s \in FdType
  PROVE  pldm_fwup_firmware_process_quit(s) \in FdType
<1>1. UNKNOWN \in Events /\ ZeroImg \in Img
  BY Stored, Numbers
<1> QED BY <1>1 DEF pldm_fwup_firmware_process_quit, FdType

\* The prologue leaves the transfer alone, or the timer ends its session: not
\* before the fifteen minutes are over, and never at a cancellation the device
\* accepts or at a query.
LEMMA PrologueEffect ==
  ASSUME Inv(fd), NEW cmd
  PROVE  /\ Prologue(cmd).cpl = SUCCESS
         /\ \/ SameTransfer(Prologue(cmd), fd) /\ Prologue(cmd).event_id = fd.event_id
            \/ /\ Ended(Prologue(cmd), fd) /\ Prologue(cmd).event_id = UNKNOWN
               /\ fd.overtime /\ fd.cur_state # IDLE
               /\ ~IsCancel(fd, cmd) /\ cmd \notin InventoryCommands \cup {"Unsupported"}
<1> DEFINE s == Received
           timed == [s EXCEPT !.timeout_occur_flag = TRUE]
           u == pldm_fwup_sta_chg(timed, IDLE)
<1>1. /\ s \in FdType /\ SameTransfer(s, fd) /\ s.event_id = fd.event_id
      /\ s.cpl = SUCCESS
  BY ReceivedInv, ReceivedSame DEF Inv
<1>2. s.cur_state = fd.cur_state /\ s.overtime = fd.overtime
  BY <1>1 DEF SameTransfer, SameCounters
<1>3. IsCancel(s, cmd) <=> IsCancel(fd, cmd)
  BY <1>2 DEF IsCancel
<1>4. u \in FdType /\ u.cur_state = IDLE /\ u.cpl = SUCCESS
  BY <1>1, Stored DEF pldm_fwup_sta_chg, FdType
<1>5. /\ SameFile(u, fd) /\ SameResults(u, fd)
      /\ u.max_transfer_size = fd.max_transfer_size /\ u.fw_data = fd.fw_data
      /\ u.overtime = fd.overtime
  <2>1. SameFile(u, s) /\ SameResults(u, s)
    BY <1>1 DEF pldm_fwup_sta_chg, FdType, SameFile, SameResults
  <2>2. u.max_transfer_size = s.max_transfer_size /\ u.fw_data = s.fw_data
        /\ u.overtime = s.overtime
    BY <1>1 DEF pldm_fwup_sta_chg, FdType
  <2> HIDE DEF u, s
  <2> QED BY <1>1, <2>1, <2>2 DEF SameTransfer, SameCounters, SameFile, SameResults
<1> DEFINE q == pldm_fwup_firmware_process_quit(u)
<1>6. q \in FdType /\ Ended(q, fd) /\ q.event_id = UNKNOWN /\ q.cpl = SUCCESS
  <2>1. q \in FdType
    BY <1>4, QuitTypes
  <2>2. Ended(q, u) /\ q.event_id = UNKNOWN /\ q.cpl = SUCCESS
    BY <1>4, QuitEnds
  <2> HIDE DEF q, u
  <2> QED BY <1>5, <2>1, <2>2 DEF Ended, SameFile, SameResults
<1>7. pldm_fwup_timeout_process(s) = IF ~s.is_in_upgrade_mode \/ s.cur_state = IDLE \/ ~s.overtime
                                     THEN s ELSE q
  BY DEF pldm_fwup_timeout_process
<1> DEFINE p == Prologue(cmd)
<1>8. \/ p = s \/ p = [s EXCEPT !.need_rsp = FALSE]
      \/ /\ p = [q EXCEPT !.need_rsp = FALSE]
         /\ s.cur_state # IDLE /\ s.overtime /\ ~IsCancel(s, cmd)
         /\ cmd \notin InventoryCommands \cup {"Unsupported"}
  <2> HIDE DEF q
  <2> QED BY <1>7 DEF Prologue
<1> HIDE DEF p, q, s, u
<1>9. CASE p = s
  BY <1>1, <1>9 DEF p
<1>10. CASE p = [s EXCEPT !.need_rsp = FALSE]
  <2>1. p.cur_state = s.cur_state /\ p.event_id = s.event_id /\ p.cpl = s.cpl
    BY <1>1, <1>10 DEF FdType
  <2>2. SameCounters(p, s)
    BY <1>1, <1>10 DEF FdType, SameCounters
  <2>3. SameFile(p, s) /\ SameResults(p, s)
    BY <1>1, <1>10 DEF FdType, SameFile, SameResults
  <2>4. SameTransfer(p, fd)
    BY <1>1, <2>1, <2>2, <2>3 DEF SameTransfer, SameCounters, SameFile, SameResults
  <2> QED BY <1>1, <2>1, <2>4 DEF p
<1>11. CASE /\ p = [q EXCEPT !.need_rsp = FALSE]
            /\ s.cur_state # IDLE /\ s.overtime /\ ~IsCancel(s, cmd)
            /\ cmd \notin InventoryCommands \cup {"Unsupported"}
  <2>1. /\ p.cur_state = q.cur_state /\ p.once_size = q.once_size
        /\ p.data_transfer_handle = q.data_transfer_handle
        /\ p.fw_len = q.fw_len /\ p.fw_total = q.fw_total
        /\ p.pkg_len = q.pkg_len /\ p.pkg_total = q.pkg_total
        /\ p.getpackagedata_progress = q.getpackagedata_progress
        /\ p.max_transfer_size = q.max_transfer_size /\ p.fw_data = q.fw_data
        /\ p.overtime = q.overtime /\ p.event_id = q.event_id /\ p.cpl = q.cpl
    BY <1>6, <1>11 DEF FdType
  <2>2. SameFile(p, q) /\ SameResults(p, q)
    BY <1>6, <1>11 DEF FdType, SameFile, SameResults
  <2>3. Ended(p, fd)
    BY <1>6, <2>1, <2>2 DEF Ended, SameFile, SameResults
  <2> QED BY <1>2, <1>3, <1>6, <1>11, <2>1, <2>3 DEF p
<1> QED BY <1>8, <1>9, <1>10, <1>11

(***************************************************************************)
(* The switch, seen from the transfer.                                     *)
(***************************************************************************)

\* Outside update mode the device is in IDLE, so the handler always runs.
LEMMA HandlerRuns ==
  ASSUME Inv(fd), NEW s, NEW cb_ok, Packet(s, cb_ok)
  PROVE  fd' = pldm_fwup_state_machine_switch(s, cb_ok)
BY DEF Packet, Inv

\* Without a row for the state and the event the switch moves nothing.
LEMMA SwitchQuiet ==
  ASSUME NEW s \in FdType, RowsOf(s) = {}, NEW cb_ok
  PROVE  LET t == pldm_fwup_state_machine_switch(s, cb_ok)
         IN  SameTransfer(t, s) /\ t.event_id = s.event_id /\ t.sent = s.sent /\ t.cpl = s.cpl
<1> DEFINE t == [s EXCEPT !.timeout_occur_flag = FALSE]
<1>1. pldm_fwup_state_machine_switch(s, cb_ok) = t
  BY DEF pldm_fwup_state_machine_switch
<1>2. t.cur_state = s.cur_state /\ t.event_id = s.event_id /\ t.sent = s.sent /\ t.cpl = s.cpl
  BY DEF FdType
<1>3. SameCounters(t, s)
  BY DEF FdType, SameCounters
<1>4. SameFile(t, s) /\ SameResults(t, s)
  BY DEF FdType, SameFile, SameResults
<1> HIDE DEF t
<1> QED BY <1>1, <1>2, <1>3, <1>4 DEF SameTransfer

\* The table is a function of the state and the event.
LEMMA OneRow ==
  ASSUME NEW r \in pldm_fwup_transforms, NEW q \in pldm_fwup_transforms,
         r.cur = q.cur, r.event = q.event
  PROVE  r = q
BY TableRows DEF Row

\* With a row r for them it goes to the row's state u and runs the row's action.
LEMMA SwitchMoves ==
  ASSUME NEW s \in FdType, NEW cb_ok, NEW r \in pldm_fwup_transforms,
         r.cur = s.cur_state, r.event = s.event_id
  PROVE  \E u \in FdType :
           /\ pldm_fwup_state_machine_switch(s, cb_ok) = RunAction(r.action, u, cb_ok)
           /\ u.cur_state = r.next /\ u.event_id = s.event_id
           /\ u.sent = s.sent /\ u.cpl = s.cpl
           /\ SameCounters(u, s) /\ SameResults(u, s)
           /\ r.event # UD_COMP_END => SameFile(u, s)
           /\ r.event = UD_COMP_END => u.pd = "open" /\ u.image_file = <<>>
<1> DEFINE s0 == [s EXCEPT !.timeout_occur_flag = FALSE]
           row == CHOOSE q \in RowsOf(s) : TRUE
           v == pldm_fwup_sta_chg([s0 EXCEPT !.progress_flag = FALSE], r.next)
           o == [v EXCEPT !.pd = "open", !.image_file = <<>>]
           u == IF s.event_id = UD_COMP_END THEN o ELSE v
<1>1. RowsOf(s) # {} /\ row = r
  <2>1. r \in RowsOf(s)
    BY DEF RowsOf
  <2>2. row \in RowsOf(s)
    BY <2>1
  <2>3. row \in pldm_fwup_transforms /\ row.cur = r.cur /\ row.event = r.event
    BY <2>2 DEF RowsOf
  <2> HIDE DEF row
  <2> QED BY <2>1, <2>3, OneRow
<1>2. pldm_fwup_state_machine_switch(s, cb_ok) = RunAction(r.action, u, cb_ok)
  BY <1>1 DEF pldm_fwup_state_machine_switch
<1>3. r.next \in States
  BY TableRows, Numbers DEF Row
<1>4. /\ v \in FdType /\ v.cur_state = r.next /\ v.event_id = s.event_id
      /\ v.sent = s.sent /\ v.cpl = s.cpl
  BY <1>3 DEF pldm_fwup_sta_chg, FdType
<1>5. SameCounters(v, s)
  BY DEF pldm_fwup_sta_chg, FdType, SameCounters
<1>6. SameFile(v, s) /\ SameResults(v, s)
  BY DEF pldm_fwup_sta_chg, FdType, SameFile, SameResults
<1> HIDE DEF v
<1>7. /\ o \in FdType /\ o.cur_state = v.cur_state /\ o.event_id = v.event_id
      /\ o.sent = v.sent /\ o.cpl = v.cpl /\ o.pd = "open" /\ o.image_file = <<>>
  <2>1. <<>> \in Seq(Blocks)
    OBVIOUS
  <2> QED BY <1>4, <2>1 DEF FdType
<1>8. SameCounters(o, v) /\ SameResults(o, v)
  <2>1. SameCounters(o, v)
    BY <1>4 DEF FdType, SameCounters
  <2>2. SameResults(o, v)
    BY <1>4 DEF FdType, SameResults
  <2> QED BY <2>1, <2>2
<1> HIDE DEF o
<1>9. SameCounters(o, s) /\ SameResults(o, s)
  BY <1>5, <1>6, <1>8 DEF SameCounters, SameResults
<1> QED BY <1>2, <1>4, <1>5, <1>6, <1>7, <1>9

\* Sending adds the request, and nothing to the transfer.
LEMMA SendEffect ==
  ASSUME NEW s \in FdType, s.sent = <<>>, NEW q \in Requests
  PROVE  LET t == pldm_msg_send(s, q)
         IN  /\ t \in FdType /\ SameTransfer(t, s) /\ t.event_id = s.event_id
             /\ t.sent = <<q>> /\ t.cpl = s.cpl
<1> DEFINE t == pldm_msg_send(s, q)
<1>1. t \in FdType
  BY Sent
<1>2. /\ t.cur_state = s.cur_state /\ t.event_id = s.event_id
      /\ t.sent = <<q>> /\ t.cpl = s.cpl
  BY DEF pldm_msg_send, FdType
<1>3. SameCounters(t, s)
  BY DEF pldm_msg_send, FdType, SameCounters
<1>4. SameFile(t, s) /\ SameResults(t, s)
  BY DEF pldm_msg_send, FdType, SameFile, SameResults
<1> HIDE DEF t
<1>5. t \in FdType /\ SameTransfer(t, s) /\ t.event_id = s.event_id
      /\ t.sent = <<q>> /\ t.cpl = s.cpl
  BY <1>1, <1>2, <1>3, <1>4 DEF SameTransfer
<1> QED BY <1>5 DEF t

(***************************************************************************)
(* What each packet of a session does to it.                               *)
(***************************************************************************)

\* The packet leaves the transfer alone and asks for nothing.
Quiet ==
  /\ SameTransfer(fd', fd) /\ fd'.sent = <<>>
  /\ fd.cur_state \in {LEARN_COMP, READY_XFER} => fd'.event_id = fd.event_id

\* The packet ends the session and asks for nothing.
Over == Ended(fd', fd) /\ fd'.sent = <<>>

\* The relations compose.
LEMMA Compose ==
  ASSUME NEW a, NEW b, NEW c, SameTransfer(a, b)
  PROVE  /\ SameTransfer(b, c) => SameTransfer(a, c)
         /\ Ended(b, c) => Ended(a, c)
<1>1. SameTransfer(b, c) => SameTransfer(a, c)
  BY DEF SameTransfer, SameCounters, SameFile, SameResults
<1>2. Ended(b, c) => Ended(a, c)
  BY DEF SameTransfer, SameCounters, SameFile, SameResults, Ended
<1> QED BY <1>1, <1>2

\* A packet whose handler gives the switch nothing to do leaves what the prologue
\* left: the transfer as it was, or what the timer made of it.
LEMMA QuietPacket ==
  ASSUME Inv(fd), NEW cmd, NEW s \in FdType, RowsOf(s) = {},
         SameTransfer(s, Prologue(cmd)), NEW cb_ok, Packet(s, cb_ok)
  PROVE  /\ fd'.sent = s.sent /\ fd'.cpl = s.cpl /\ fd'.event_id = s.event_id
         /\ \/ /\ SameTransfer(fd', fd)
               /\ SameTransfer(Prologue(cmd), fd) /\ Prologue(cmd).event_id = fd.event_id
            \/ /\ Ended(fd', fd) /\ fd.overtime /\ fd.cur_state # IDLE
               /\ ~IsCancel(fd, cmd) /\ cmd \notin InventoryCommands \cup {"Unsupported"}
<1> DEFINE p == Prologue(cmd)
           t == pldm_fwup_state_machine_switch(s, cb_ok)
<1>1. fd' = t
  BY HandlerRuns
<1>2. SameTransfer(t, s) /\ t.event_id = s.event_id /\ t.sent = s.sent /\ t.cpl = s.cpl
  BY SwitchQuiet
<1> HIDE DEF t
<1>3. \/ SameTransfer(p, fd) /\ p.event_id = fd.event_id
      \/ /\ Ended(p, fd) /\ fd.overtime /\ fd.cur_state # IDLE
         /\ ~IsCancel(fd, cmd) /\ cmd \notin InventoryCommands \cup {"Unsupported"}
  BY PrologueEffect
<1>4. SameTransfer(t, p)
  BY <1>2, Compose
<1> HIDE DEF p
<1>5. /\ SameTransfer(p, fd) => SameTransfer(t, fd)
      /\ Ended(p, fd) => Ended(t, fd)
  BY <1>4, Compose
<1> QED BY <1>1, <1>2, <1>3, <1>5 DEF p

\* Leaving a record as it is.
LEMMA SameItself == \A s : SameTransfer(s, s)
BY DEF SameTransfer, SameCounters, SameFile, SameResults

\* A refusal writes the completion code alone.
LEMMA RefuseEffect ==
  ASSUME NEW s, Inv(s), s.sent = <<>>, NEW code \in Nat
  PROVE  LET t == Refuse(s, code)
         IN  /\ t \in FdType /\ RowsOf(t) = {} /\ SameTransfer(t, s)
             /\ t.event_id = s.event_id /\ t.sent = <<>> /\ t.cpl = code
<1> DEFINE t == Refuse(s, code)
<1>1. /\ t \in FdType /\ t.event_id = s.event_id /\ t.sent = <<>> /\ t.cpl = code
      /\ t.cur_state = s.cur_state
  BY DEF Refuse, Inv, FdType
<1>2. RowsOf(t) = {}
  BY <1>1 DEF RowsOf, Inv
<1>3. SameCounters(t, s)
  BY DEF Refuse, Inv, FdType, SameCounters
<1>4. SameFile(t, s) /\ SameResults(t, s)
  BY DEF Refuse, Inv, FdType, SameFile, SameResults
<1> HIDE DEF t
<1>5. SameTransfer(t, s)
  BY <1>1, <1>3, <1>4 DEF SameTransfer
<1> QED BY <1>1, <1>2, <1>5 DEF t

\* A command the device refuses changes the transfer by the timer only.
LEMMA RefusedEffect ==
  ASSUME Inv(fd), NEW cmd, NEW code \in Nat,
         \/ Packet(Refuse(Prologue(cmd), code), TRUE)
         \/ Packet(Prologue(cmd), TRUE)
  PROVE  \/ Quiet
         \/ /\ Over /\ fd.overtime /\ fd.cur_state # IDLE
            /\ ~IsCancel(fd, cmd) /\ cmd \notin InventoryCommands \cup {"Unsupported"}
<1> DEFINE p == Prologue(cmd)
<1>1. Inv(p) /\ p.sent = <<>>
  BY PrologueInv
<1>2. PICK s \in FdType : /\ RowsOf(s) = {} /\ SameTransfer(s, p) /\ Packet(s, TRUE)
                          /\ s.event_id = p.event_id /\ s.sent = <<>>
  <2>1. CASE Packet(Refuse(p, code), TRUE)
    <3> HIDE DEF p
    <3> QED BY <1>1, <2>1, RefuseEffect
  <2>2. CASE Packet(p, TRUE)
    <3> HIDE DEF p
    <3> QED BY <1>1, <2>2, SameItself DEF Inv
  <2> QED BY <2>1, <2>2
<1> QED BY <1>2, QuietPacket DEF Quiet, Over

\* A query never touches the transfer.
LEMMA QueryEffect ==
  ASSUME Inv(fd), Inventory \/ GetStatus \/ Unsupported
  PROVE  Quiet
<1>1. CASE Inventory
  <2>1. PICK cmd \in InventoryCommands : Packet(Prologue(cmd), TRUE)
    BY <1>1 DEF Inventory
  <2> QED BY <2>1, RefusedEffect
<1>2. CASE Unsupported
  BY <1>2, Stored, RefusedEffect DEF Unsupported
<1>3. CASE GetStatus
  <2> DEFINE p == Prologue("GetStatus")
             s == pldm_fwup_getstatus(p)
  <2>1. Inv(p) /\ p.sent = <<>>
    BY PrologueInv
  <2> HIDE DEF p
  <2>2. s \in FdType
    BY <2>1, GetStatusHandled DEF Handled
  <2>3. s.cur_state = p.cur_state /\ s.event_id = p.event_id /\ s.sent = <<>>
    BY <2>1 DEF pldm_fwup_getstatus, Inv, FdType
  <2>4. SameCounters(s, p)
    BY <2>1 DEF pldm_fwup_getstatus, Inv, FdType, SameCounters
  <2>5. SameFile(s, p) /\ SameResults(s, p)
    BY <2>1 DEF pldm_fwup_getstatus, Inv, FdType, SameFile, SameResults
  <2>6. RowsOf(s) = {}
    BY <2>1, <2>3 DEF RowsOf, Inv
  <2>7. Packet(s, TRUE)
    BY <1>3 DEF GetStatus, p
  <2> HIDE DEF s
  <2>8. SameTransfer(s, Prologue("GetStatus")) /\ s.event_id = Prologue("GetStatus").event_id
    BY <2>3, <2>4, <2>5 DEF SameTransfer, p
  <2>9. "GetStatus" \in InventoryCommands
    BY DEF InventoryCommands
  <2> QED BY <2>2, <2>3, <2>6, <2>7, <2>8, <2>9, QuietPacket DEF Quiet
<1> QED BY <1>1, <1>2, <1>3

\* The end of a session by a row of the table.
LEMMA QuitRowEffect ==
  ASSUME Inv(fd), NEW cmd, NEW s \in FdType, s.sent = <<>>, SameTransfer(s, Prologue(cmd)),
         NEW cb_ok, Packet(s, cb_ok),
         Row(s.cur_state, s.event_id, IDLE, "firmware_process_quit") \in pldm_fwup_transforms
  PROVE  Over
<1> DEFINE p == Prologue(cmd)
           r == Row(s.cur_state, s.event_id, IDLE, "firmware_process_quit")
<1>1. r.cur = s.cur_state /\ r.event = s.event_id /\ r.next = IDLE
      /\ r.action = "firmware_process_quit"
  BY DEF Row
<1>2. r.event # UD_COMP_END
  BY <1>1, TableRows, Numbers DEF Row
<1> HIDE DEF r
<1>3. PICK u \in FdType :
        /\ pldm_fwup_state_machine_switch(s, cb_ok) = RunAction(r.action, u, cb_ok)
        /\ u.cur_state = r.next /\ u.sent = s.sent
        /\ SameCounters(u, s) /\ SameResults(u, s) /\ SameFile(u, s)
  BY <1>1, <1>2, SwitchMoves DEF r
<1>4. fd' = pldm_fwup_firmware_process_quit(u)
  BY <1>1, <1>3, HandlerRuns DEF RunAction
<1>5. Ended(fd', u) /\ fd'.sent = <<>>
  BY <1>1, <1>3, <1>4, QuitEnds
<1>6. SameTransfer(p, fd) \/ Ended(p, fd)
  BY PrologueEffect
<1> HIDE DEF p
<1>7. SameTransfer(s, fd) \/ Ended(s, fd)
  BY <1>6, Compose DEF p
<1>8. Ended(fd', fd)
  <2>1. /\ u.max_transfer_size = s.max_transfer_size /\ u.fw_data = s.fw_data
        /\ u.overtime = s.overtime /\ SameFile(u, s) /\ SameResults(u, s)
    BY <1>3 DEF SameCounters
  <2>2. /\ s.max_transfer_size = fd.max_transfer_size /\ s.fw_data = fd.fw_data
        /\ s.overtime = fd.overtime /\ SameFile(s, fd) /\ SameResults(s, fd)
    BY <1>7 DEF SameTransfer, SameCounters, Ended
  <2> QED BY <1>5, <2>1, <2>2 DEF Ended, SameFile, SameResults
<1> QED BY <1>5, <1>8 DEF Over

\* The rows that are cited one by one.
LEMMA RowsAre ==
  /\ Row(0, 1, 1, "getpackagedata_send") \in pldm_fwup_transforms
  /\ Row(0, 2, 1, "NULL") \in pldm_fwup_transforms
  /\ Row(1, 3, 0, "firmware_process_quit") \in pldm_fwup_transforms
  /\ Row(1, 4, 2, "NULL") \in pldm_fwup_transforms
  /\ Row(2, 5, 3, "requestfwdata_send") \in pldm_fwup_transforms
  /\ Row(3, 6, 4, "verify_process") \in pldm_fwup_transforms
  /\ Row(4, 7, 5, "applycpl_send") \in pldm_fwup_transforms
  /\ Row(5, 8, 2, "NULL") \in pldm_fwup_transforms
  /\ Row(2, 10, 0, "firmware_process_quit") \in pldm_fwup_transforms
  /\ \A c \in 1 .. 5 : Row(c, 12, 0, "firmware_process_quit") \in pldm_fwup_transforms
  /\ \A c \in 3 .. 5 : Row(c, 11, 2, "component_process_quit") \in pldm_fwup_transforms
BY Numbers DEF pldm_fwup_transforms

\* What handlers that raise an event do, with the progress flag or without it.
Raises(t, s, e) ==
  \/ t = [s EXCEPT !.event_id = e]
  \/ t = [s EXCEPT !.event_id = e, !.progress_flag = TRUE]

LEMMA EventEffect ==
  ASSUME NEW s, Inv(s), s.sent = <<>>, NEW e \in Events, NEW t, Raises(t, s, e)
  PROVE  /\ t \in FdType /\ SameTransfer(t, s) /\ t.event_id = e
         /\ t.sent = <<>> /\ t.cpl = s.cpl
<1>1. t \in FdType
  <2>1. CASE t = [s EXCEPT !.event_id = e]
    BY <2>1 DEF Inv, FdType
  <2>2. CASE t = [s EXCEPT !.event_id = e, !.progress_flag = TRUE]
    BY <2>2 DEF Inv, FdType
  <2> QED BY <2>1, <2>2 DEF Raises
<1>2. /\ t.event_id = e /\ t.sent = <<>> /\ t.cpl = s.cpl /\ t.cur_state = s.cur_state
  BY DEF Raises, Inv, FdType
<1>3. SameCounters(t, s)
  BY DEF Raises, Inv, FdType, SameCounters
<1>4. SameFile(t, s) /\ SameResults(t, s)
  BY DEF Raises, Inv, FdType, SameFile, SameResults
<1> QED BY <1>1, <1>2, <1>3, <1>4 DEF SameTransfer

\* CancelUpdate ends the session, where there is one.
LEMMA CancelUpdateEffect ==
  ASSUME Inv(fd), CancelUpdate
  PROVE  (Quiet /\ fd.cur_state \notin LEARN_COMP .. APPLY) \/ Over
<1> DEFINE cmd == "CancelUpdate"
           p == Prologue(cmd)
           s == pldm_fwup_fwupdate_cancel(p)
<1>1. Inv(p) /\ p.sent = <<>>
  BY PrologueInv
<1>2. Packet(s, TRUE)
  BY DEF CancelUpdate
<1>3. SameTransfer(p, fd)
  BY PrologueEffect DEF IsCancel
<1> HIDE DEF p
<1>4. /\ s \in FdType /\ SameTransfer(s, p) /\ s.event_id = 12 /\ s.sent = <<>>
  <2>1. Raises(s, p, CANCEL_UD_OR_TIMEOUT)
    BY DEF pldm_fwup_fwupdate_cancel, Raises
  <2>2. CANCEL_UD_OR_TIMEOUT \in Events
    BY Numbers
  <2> HIDE DEF s
  <2>3. /\ s \in FdType /\ SameTransfer(s, p) /\ s.event_id = CANCEL_UD_OR_TIMEOUT
        /\ s.sent = <<>>
    BY <1>1, <2>1, <2>2, EventEffect
  <2> QED BY <2>3, Numbers
<1> HIDE DEF s
<1>5. s.cur_state = fd.cur_state /\ fd.cur_state \in 0 .. 6
  BY <1>3, <1>4, Numbers DEF SameTransfer, Inv, FdType
<1>6. CASE fd.cur_state \in {0, 6}
  <2>1. RowsOf(s) = {}
    <3> SUFFICES ASSUME NEW r \in pldm_fwup_transforms, r.cur = s.cur_state, r.event = 12
                 PROVE  FALSE
      BY <1>4 DEF RowsOf
    <3> QED BY <1>5, <1>6, TableRows DEF Row
  <2>2. fd'.sent = <<>> /\ (SameTransfer(fd', fd) \/ ~IsCancel(fd, cmd))
    BY <1>2, <1>4, <2>1, QuietPacket DEF p
  <2>3. IsCancel(fd, cmd)
    BY DEF IsCancel
  <2> QED BY <1>6, <2>2, <2>3, Numbers DEF Quiet
<1>7. CASE fd.cur_state \in 1 .. 5
  <2>1. Row(s.cur_state, s.event_id, IDLE, "firmware_process_quit") \in pldm_fwup_transforms
    BY <1>4, <1>5, <1>7, RowsAre, Numbers
  <2> QED BY <1>2, <1>4, <2>1, QuitRowEffect DEF p
<1> QED BY <1>5, <1>6, <1>7

\* What the cancellation of a component leaves.
ComponentOver ==
  /\ fd'.cur_state = READY_XFER /\ fd'.event_id = UNKNOWN /\ fd'.sent = <<>>
  /\ fd'.once_size = fd'.max_transfer_size /\ fd'.data_transfer_handle = 0
  /\ fd'.fw_len = 0 /\ fd'.fw_total = 0 /\ fd'.pkg_len = 0 /\ fd'.pkg_total = 0
  /\ fd'.getpackagedata_progress = fd.getpackagedata_progress
  /\ fd'.max_transfer_size = fd.max_transfer_size /\ fd'.overtime = fd.overtime
  /\ SameFile(fd', fd) /\ SameResults(fd', fd)

LEMMA ComponentQuitRowEffect ==
  ASSUME Inv(fd), NEW s \in FdType, s.sent = <<>>, SameTransfer(s, fd),
         NEW cb_ok, Packet(s, cb_ok),
         Row(s.cur_state, s.event_id, READY_XFER, "component_process_quit")
           \in pldm_fwup_transforms
  PROVE  ComponentOver
<1> DEFINE r == Row(s.cur_state, s.event_id, READY_XFER, "component_process_quit")
<1>1. r.cur = s.cur_state /\ r.event = s.event_id /\ r.next = READY_XFER
      /\ r.action = "component_process_quit"
  BY DEF Row
<1>2. r.event # UD_COMP_END
  BY <1>1, TableRows, Numbers DEF Row
<1> HIDE DEF r
<1>3. PICK u \in FdType :
        /\ pldm_fwup_state_machine_switch(s, cb_ok) = RunAction(r.action, u, cb_ok)
        /\ u.cur_state = r.next /\ u.sent = s.sent
        /\ SameCounters(u, s) /\ SameResults(u, s) /\ SameFile(u, s)
  BY <1>1, <1>2, SwitchMoves DEF r
<1> DEFINE t == pldm_fwup_component_process_quit(u)
<1>4. fd' = t
  BY <1>1, <1>3, HandlerRuns DEF RunAction
<1>5. /\ t.cur_state = READY_XFER /\ t.event_id = UNKNOWN /\ t.sent = <<>>
      /\ t.once_size = t.max_transfer_size /\ t.data_transfer_handle = 0
      /\ t.fw_len = 0 /\ t.fw_total = 0 /\ t.pkg_len = 0 /\ t.pkg_total = 0
      /\ t.getpackagedata_progress = u.getpackagedata_progress
      /\ t.max_transfer_size = u.max_transfer_size /\ t.overtime = u.overtime
  BY <1>1, <1>3 DEF pldm_fwup_component_process_quit, FdType
<1>6. SameFile(t, u) /\ SameResults(t, u)
  BY DEF pldm_fwup_component_process_quit, FdType, SameFile, SameResults
<1> HIDE DEF t
<1>7. /\ u.getpackagedata_progress = fd.getpackagedata_progress
      /\ u.max_transfer_size = fd.max_transfer_size /\ u.overtime = fd.overtime
      /\ SameFile(u, fd) /\ SameResults(u, fd)
  BY <1>3 DEF SameTransfer, SameCounters, SameFile, SameResults
<1> QED BY <1>4, <1>5, <1>6, <1>7 DEF ComponentOver, SameFile, SameResults

LEMMA CancelUpdateComponentEffect ==
  ASSUME Inv(fd), CancelUpdateComponent
  PROVE  IF fd.cur_state \in DOWNLOAD .. APPLY THEN ComponentOver
         ELSE Quiet \/ (Over /\ fd.overtime /\ fd.cur_state # IDLE)
<1> DEFINE cmd == "CancelUpdateComponent"
           p == Prologue(cmd)
           s == pldm_fwup_compupdate_cancel(p)
<1>1. Inv(p) /\ p.sent = <<>>
  BY PrologueInv
<1>2. Packet(s, TRUE)
  BY DEF CancelUpdateComponent
<1>3. \/ SameTransfer(p, fd)
      \/ Ended(p, fd) /\ fd.cur_state \notin DOWNLOAD .. APPLY
  BY PrologueEffect DEF IsCancel
<1>4. CASE fd.cur_state \notin DOWNLOAD .. APPLY
  <2>1. p.cur_state \notin DOWNLOAD .. APPLY
    BY <1>3, <1>4, Numbers DEF SameTransfer, Ended
  <2>2. s = Refuse(p, INVALID_STATE_FOR_COMMAND)
    BY <2>1 DEF pldm_fwup_compupdate_cancel
  <2> QED BY <1>2, <1>4, <2>2, Stored, RefusedEffect
<1>5. CASE fd.cur_state \in DOWNLOAD .. APPLY
  <2>1. SameTransfer(p, fd)
    BY <1>3, <1>5
  <2> HIDE DEF p
  <2>2. p.cur_state \in 3 .. 5
    BY <1>5, <2>1, Numbers DEF SameTransfer
  <2>3. /\ s \in FdType /\ SameTransfer(s, p) /\ s.event_id = 11 /\ s.sent = <<>>
    <3>1. Raises(s, p, CANCEL_UD_COMP)
      BY <2>2, Numbers DEF pldm_fwup_compupdate_cancel, Raises
    <3>2. CANCEL_UD_COMP \in Events
      BY Numbers
    <3> HIDE DEF s
    <3>3. /\ s \in FdType /\ SameTransfer(s, p) /\ s.event_id = CANCEL_UD_COMP
          /\ s.sent = <<>>
      BY <1>1, <3>1, <3>2, EventEffect
    <3> QED BY <3>3, Numbers
  <2>4. Row(s.cur_state, s.event_id, READY_XFER, "component_process_quit")
          \in pldm_fwup_transforms
    BY <2>2, <2>3, RowsAre, Numbers DEF SameTransfer
  <2>5. SameTransfer(s, fd)
    BY <2>1, <2>3, Compose
  <2> HIDE DEF s
  <2> QED BY <1>2, <1>5, <2>3, <2>4, <2>5, ComponentQuitRowEffect
<1> QED BY <1>4, <1>5

\* The other rows of the table: where they lead, and what they send.
Moved(t, s, next) ==
  /\ t.cur_state = next /\ t.event_id = s.event_id /\ t.cpl = s.cpl
  /\ SameCounters(t, s)

LEMMA NullRowEffect ==
  ASSUME Inv(fd), NEW s \in FdType, s.sent = <<>>, NEW cb_ok, Packet(s, cb_ok), NEW next,
         Row(s.cur_state, s.event_id, next, "NULL") \in pldm_fwup_transforms
  PROVE  /\ Moved(fd', s, next) /\ SameFile(fd', s) /\ SameResults(fd', s)
         /\ fd'.sent = <<>>
<1> DEFINE r == Row(s.cur_state, s.event_id, next, "NULL")
<1>1. r.cur = s.cur_state /\ r.event = s.event_id /\ r.next = next /\ r.action = "NULL"
  BY DEF Row
<1>2. r.event # UD_COMP_END
  BY <1>1, TableRows, Numbers DEF Row
<1> HIDE DEF r
<1>3. PICK u \in FdType :
        /\ pldm_fwup_state_machine_switch(s, cb_ok) = RunAction(r.action, u, cb_ok)
        /\ u.cur_state = r.next /\ u.event_id = s.event_id
        /\ u.sent = s.sent /\ u.cpl = s.cpl
        /\ SameCounters(u, s) /\ SameResults(u, s) /\ SameFile(u, s)
  BY <1>1, <1>2, SwitchMoves DEF r
<1>4. fd' = u
  BY <1>1, <1>3, HandlerRuns DEF RunAction
<1> QED BY <1>1, <1>3, <1>4 DEF Moved

LEMMA PackageDataRowEffect ==
  ASSUME Inv(fd), NEW s \in FdType, s.sent = <<>>, NEW cb_ok, Packet(s, cb_ok),
         Row(s.cur_state, s.event_id, LEARN_COMP, "getpackagedata_send")
           \in pldm_fwup_transforms
  PROVE  /\ Moved(fd', s, LEARN_COMP) /\ SameFile(fd', s) /\ SameResults(fd', s)
         /\ fd'.sent = <<[cmd |-> "GetPackageData", handle |-> s.data_transfer_handle]>>
<1> DEFINE r == Row(s.cur_state, s.event_id, LEARN_COMP, "getpackagedata_send")
<1>1. /\ r.cur = s.cur_state /\ r.event = s.event_id /\ r.next = LEARN_COMP
      /\ r.action = "getpackagedata_send"
  BY DEF Row
<1>2. r.event # UD_COMP_END
  BY <1>1, TableRows, Numbers DEF Row
<1> HIDE DEF r
<1>3. PICK u \in FdType :
        /\ pldm_fwup_state_machine_switch(s, cb_ok) = RunAction(r.action, u, cb_ok)
        /\ u.cur_state = r.next /\ u.event_id = s.event_id
        /\ u.sent = s.sent /\ u.cpl = s.cpl
        /\ SameCounters(u, s) /\ SameResults(u, s) /\ SameFile(u, s)
  BY <1>1, <1>2, SwitchMoves DEF r
<1> DEFINE q == [cmd |-> "GetPackageData", handle |-> u.data_transfer_handle]
           t == pldm_msg_send(u, q)
<1>4. fd' = t
  BY <1>1, <1>3, HandlerRuns DEF RunAction, pldm_fwup_getpackagedata_send
<1>5. q \in Requests
  BY RequestTypes DEF FdType
<1>6. u.data_transfer_handle = s.data_transfer_handle
  BY <1>3 DEF SameCounters
<1> HIDE DEF q
<1>7. SameTransfer(t, u) /\ t.event_id = u.event_id /\ t.sent = <<q>> /\ t.cpl = u.cpl
  BY <1>3, <1>5, SendEffect
<1> HIDE DEF t
<1>8. Moved(t, s, LEARN_COMP) /\ SameFile(t, s) /\ SameResults(t, s)
  BY <1>1, <1>3, <1>7 DEF Moved, SameTransfer, SameCounters, SameFile, SameResults
<1> QED BY <1>4, <1>6, <1>7, <1>8 DEF q

LEMMA ApplyRowEffect ==
  ASSUME Inv(fd), NEW s \in FdType, s.sent = <<>>, NEW cb_ok, Packet(s, cb_ok),
         Row(s.cur_state, s.event_id, APPLY, "applycpl_send") \in pldm_fwup_transforms
  PROVE  /\ Moved(fd', s, APPLY) /\ SameFile(fd', s) /\ SameResults(fd', s)
         /\ fd'.sent = <<[cmd |-> "ApplyComplete", result |-> 1]>>
<1> DEFINE r == Row(s.cur_state, s.event_id, APPLY, "applycpl_send")
<1>1. /\ r.cur = s.cur_state /\ r.event = s.event_id /\ r.next = APPLY
      /\ r.action = "applycpl_send"
  BY DEF Row
<1>2. r.event # UD_COMP_END
  BY <1>1, TableRows, Numbers DEF Row
<1> HIDE DEF r
<1>3. PICK u \in FdType :
        /\ pldm_fwup_state_machine_switch(s, cb_ok) = RunAction(r.action, u, cb_ok)
        /\ u.cur_state = r.next /\ u.event_id = s.event_id
        /\ u.sent = s.sent /\ u.cpl = s.cpl
        /\ SameCounters(u, s) /\ SameResults(u, s) /\ SameFile(u, s)
  BY <1>1, <1>2, SwitchMoves DEF r
<1> DEFINE q == [cmd |-> "ApplyComplete", result |-> 1]
           t == pldm_msg_send(u, q)
<1>4. fd' = t
  BY <1>1, <1>3, HandlerRuns DEF RunAction, pldm_fwup_applycpl_send
<1>5. q \in Requests
  BY RequestTypes
<1> HIDE DEF q
<1>6. SameTransfer(t, u) /\ t.event_id = u.event_id /\ t.sent = <<q>> /\ t.cpl = u.cpl
  BY <1>3, <1>5, SendEffect
<1> HIDE DEF t
<1>7. Moved(t, s, APPLY) /\ SameFile(t, s) /\ SameResults(t, s)
  BY <1>1, <1>3, <1>6 DEF Moved, SameTransfer, SameCounters, SameFile, SameResults
<1> QED BY <1>4, <1>6, <1>7 DEF q

\* The update of a component begins: the file is opened and emptied.
LEMMA DataRowEffect ==
  ASSUME Inv(fd), NEW s \in FdType, s.sent = <<>>, NEW cb_ok, Packet(s, cb_ok),
         s.event_id = UD_COMP_END,
         Row(s.cur_state, s.event_id, DOWNLOAD, "requestfwdata_send")
           \in pldm_fwup_transforms
  PROVE  /\ Moved(fd', s, DOWNLOAD) /\ SameResults(fd', s)
         /\ fd'.pd = "open" /\ fd'.image_file = <<>>
         /\ fd'.sent = <<[cmd |-> "RequestFirmwareData",
                          offset |-> s.data_transfer_handle, len |-> s.once_size]>>
<1> DEFINE r == Row(s.cur_state, s.event_id, DOWNLOAD, "requestfwdata_send")
<1>1. /\ r.cur = s.cur_state /\ r.event = s.event_id /\ r.next = DOWNLOAD
      /\ r.action = "requestfwdata_send" /\ r.event = UD_COMP_END
  BY DEF Row
<1> HIDE DEF r
<1>2. PICK u \in FdType :
        /\ pldm_fwup_state_machine_switch(s, cb_ok) = RunAction(r.action, u, cb_ok)
        /\ u.cur_state = r.next /\ u.event_id = s.event_id
        /\ u.sent = s.sent /\ u.cpl = s.cpl
        /\ SameCounters(u, s) /\ SameResults(u, s)
        /\ u.pd = "open" /\ u.image_file = <<>>
  BY <1>1, SwitchMoves DEF r
<1> DEFINE q == [cmd |-> "RequestFirmwareData",
                 offset |-> u.data_transfer_handle, len |-> u.once_size]
           t == pldm_msg_send(u, q)
<1>3. fd' = t
  BY <1>1, <1>2, HandlerRuns DEF RunAction, pldm_fwup_requestfwdata_send
<1>4. q \in Requests
  BY RequestTypes DEF FdType
<1>5. u.data_transfer_handle = s.data_transfer_handle /\ u.once_size = s.once_size
  BY <1>2 DEF SameCounters
<1> HIDE DEF q
<1>6. SameTransfer(t, u) /\ t.event_id = u.event_id /\ t.sent = <<q>> /\ t.cpl = u.cpl
  BY <1>2, <1>4, SendEffect
<1> HIDE DEF t
<1>7. /\ Moved(t, s, DOWNLOAD) /\ SameResults(t, s)
      /\ t.pd = "open" /\ t.image_file = <<>>
  BY <1>1, <1>2, <1>6 DEF Moved, SameTransfer, SameCounters, SameFile, SameResults
<1> QED BY <1>3, <1>5, <1>6, <1>7 DEF q

LEMMA VerifyRowEffect ==
  ASSUME Inv(fd), NEW s \in FdType, s.sent = <<>>, NEW cb_ok, Packet(s, cb_ok),
         Row(s.cur_state, s.event_id, VERIFY, "verify_process") \in pldm_fwup_transforms
  PROVE  /\ Moved(fd', s, VERIFY) /\ SameFile(fd', s)
         /\ fd'.transfer_result = s.transfer_result
         /\ fd'.verify_result = (IF cb_ok THEN 0 ELSE 1)
         /\ fd'.sent = <<[cmd |-> "VerifyComplete", result |-> IF cb_ok THEN 0 ELSE 1]>>
<1> DEFINE r == Row(s.cur_state, s.event_id, VERIFY, "verify_process")
           result == IF cb_ok THEN 0 ELSE 1
<1>1. /\ r.cur = s.cur_state /\ r.event = s.event_id /\ r.next = VERIFY
      /\ r.action = "verify_process"
  BY DEF Row
<1>2. r.event # UD_COMP_END
  BY <1>1, TableRows, Numbers DEF Row
<1> HIDE DEF r
<1>3. PICK u \in FdType :
        /\ pldm_fwup_state_machine_switch(s, cb_ok) = RunAction(r.action, u, cb_ok)
        /\ u.cur_state = r.next /\ u.event_id = s.event_id
        /\ u.sent = s.sent /\ u.cpl = s.cpl
        /\ SameCounters(u, s) /\ SameResults(u, s) /\ SameFile(u, s)
  BY <1>1, <1>2, SwitchMoves DEF r
<1> DEFINE q == [cmd |-> "VerifyComplete", result |-> result]
           w == [u EXCEPT !.verify_result = result]
           t == pldm_msg_send(w, q)
<1>4. fd' = t
  BY <1>1, <1>3, HandlerRuns DEF RunAction, pldm_fwup_verify_process
<1>5. q \in Requests /\ result \in {0, 1}
  BY RequestTypes
<1> HIDE DEF result
<1>6. /\ w \in FdType /\ w.sent = <<>> /\ w.cur_state = u.cur_state
      /\ w.event_id = u.event_id /\ w.cpl = u.cpl
      /\ w.transfer_result = u.transfer_result /\ w.verify_result = result
  BY <1>3, <1>5 DEF FdType
<1>7. SameCounters(w, u)
  BY DEF FdType, SameCounters
<1>8. SameFile(w, u)
  BY DEF FdType, SameFile
<1> HIDE DEF q, w
<1>9. SameTransfer(t, w) /\ t.event_id = w.event_id /\ t.sent = <<q>> /\ t.cpl = w.cpl
  BY <1>5, <1>6, SendEffect
<1> HIDE DEF t
<1>10. /\ Moved(t, s, VERIFY) /\ SameFile(t, s)
       /\ t.transfer_result = s.transfer_result /\ t.verify_result = result
  BY <1>1, <1>3, <1>6, <1>7, <1>8, <1>9
     DEF Moved, SameTransfer, SameCounters, SameFile, SameResults
<1> QED BY <1>4, <1>9, <1>10 DEF q, result

\* What an accepted RequestUpdate leaves: clean counters, and package data asked
\* for when they were announced.
Entered ==
  /\ fd'.cpl = SUCCESS /\ fd'.cur_state = LEARN_COMP /\ ~fd'.overtime
  /\ fd'.once_size = fd'.max_transfer_size /\ fd'.fw_len = 0 /\ fd'.pkg_len = 0
  /\ SameFile(fd', fd) /\ SameResults(fd', fd)
  /\ ~fd'.getpackagedata_progress \/ (fd.cur_state = IDLE /\ fd.getpackagedata_progress)
  /\ \/ fd'.event_id = ENTER_UD_NO_PKTDATA /\ fd'.pkg_total = 0 /\ fd'.sent = <<>>
     \/ /\ fd'.event_id = ENTER_UD_WITH_PKTDATA
        /\ fd'.sent = <<[cmd |-> "GetPackageData", handle |-> fd'.data_transfer_handle]>>

LEMMA RequestUpdateEffect ==
  ASSUME Inv(fd), RequestUpdate
  PROVE  \/ (Quiet \/ Over) /\ fd'.cpl # SUCCESS
         \/ Entered
<1> DEFINE cmd == "RequestUpdate"
           p == Prologue(cmd)
<1>1. PICK size \in TransferSizes, len \in PkgLens :
        Packet(pldm_fwup_requestupdate(p, size, len), TRUE)
  BY DEF RequestUpdate
<1> DEFINE s == pldm_fwup_requestupdate(p, size, len)
           max == MinOf(RecvBufMax, size)
<1>2. Inv(p) /\ p.sent = <<>> /\ p.cpl = SUCCESS
  BY PrologueInv, PrologueEffect
<1>3. (SameTransfer(p, fd) /\ p.event_id = fd.event_id) \/ (Ended(p, fd) /\ fd.cur_state # IDLE)
  BY PrologueEffect
<1>4. Handled(s)
  <2> HIDE DEF p
  <2> QED BY <1>2, RequestUpdateHandled
<1>5. CASE p.update_mode \/ p.is_in_upgrade_mode
  <2>1. s = Refuse(p, ALREADY_IN_UPDATE_MODE)
    BY <1>5 DEF pldm_fwup_requestupdate
  <2>2. ALREADY_IN_UPDATE_MODE \in Nat /\ ALREADY_IN_UPDATE_MODE # SUCCESS
    BY Stored DEF ALREADY_IN_UPDATE_MODE, SUCCESS
  <2> HIDE DEF p, s
  <2>3. /\ s \in FdType /\ RowsOf(s) = {} /\ SameTransfer(s, p)
        /\ s.event_id = p.event_id /\ s.sent = <<>> /\ s.cpl # SUCCESS
    BY <1>2, <2>1, <2>2, RefuseEffect
  <2>4. Packet(s, TRUE)
    BY <1>1 DEF s, p
  <2> QED BY <2>3, <2>4, QuietPacket DEF Quiet, Over, p
<1>6. CASE ~(p.update_mode \/ p.is_in_upgrade_mode)
  <2>1. p.cur_state = IDLE /\ Clean(p) /\ p \in FdType
    BY <1>2, <1>6 DEF Inv
  <2> HIDE DEF p
  <2>2. /\ s.cur_state = IDLE /\ s.once_size = s.max_transfer_size
        /\ s.fw_len = 0 /\ s.pkg_len = 0 /\ s.sent = <<>> /\ s.cpl = SUCCESS
        /\ s.overtime = FALSE /\ s.getpackagedata_progress = p.getpackagedata_progress
        /\ \/ s.event_id = ENTER_UD_NO_PKTDATA /\ s.pkg_total = 0
           \/ s.event_id = ENTER_UD_WITH_PKTDATA
    BY <1>2, <1>6, <2>1 DEF pldm_fwup_requestupdate, FdType, Clean
  <2>3. SameFile(s, p) /\ SameResults(s, p)
    BY <1>6, <2>1 DEF pldm_fwup_requestupdate, FdType, SameFile, SameResults
  <2>4. s \in FdType
    BY <1>4 DEF Handled
  <2>5. Packet(s, TRUE)
    BY <1>1 DEF p
  <2> HIDE DEF s, max
  <2>6. /\ s.getpackagedata_progress = FALSE
           \/ (fd.cur_state = IDLE /\ s.getpackagedata_progress = fd.getpackagedata_progress)
        /\ SameFile(s, fd) /\ SameResults(s, fd)
    BY <1>3, <2>1, <2>2, <2>3 DEF SameTransfer, SameCounters, SameFile, SameResults, Ended
  <2>7. CASE s.event_id = ENTER_UD_NO_PKTDATA /\ s.pkg_total = 0
    <3>1. Row(s.cur_state, s.event_id, LEARN_COMP, "NULL") \in pldm_fwup_transforms
      BY <2>2, <2>7, RowsAre, Numbers
    <3>2. /\ Moved(fd', s, LEARN_COMP) /\ SameFile(fd', s) /\ SameResults(fd', s)
          /\ fd'.sent = <<>>
      BY <2>2, <2>4, <2>5, <3>1, NullRowEffect
    <3> QED BY <2>2, <2>6, <2>7, <3>2
            DEF Entered, Moved, SameCounters, SameFile, SameResults
  <2>8. CASE s.event_id = ENTER_UD_WITH_PKTDATA
    <3>1. Row(s.cur_state, s.event_id, LEARN_COMP, "getpackagedata_send")
            \in pldm_fwup_transforms
      BY <2>2, <2>8, RowsAre, Numbers
    <3>2. /\ Moved(fd', s, LEARN_COMP) /\ SameFile(fd', s) /\ SameResults(fd', s)
          /\ fd'.sent = <<[cmd |-> "GetPackageData", handle |-> s.data_transfer_handle]>>
      BY <2>2, <2>4, <2>5, <3>1, PackageDataRowEffect
    <3> QED BY <2>2, <2>6, <2>8, <3>2
            DEF Entered, Moved, SameCounters, SameFile, SameResults
  <2> QED BY <2>2, <2>7, <2>8
<1> QED BY <1>5, <1>6

\* The component table is complete.
Admitted ==
  /\ fd.cur_state = LEARN_COMP
  /\ fd.event_id = ENTER_UD_WITH_PKTDATA => fd.getpackagedata_progress
  /\ fd'.cur_state = READY_XFER /\ fd'.event_id = PASSCOMP_END /\ fd'.sent = <<>>
  /\ SameCounters(fd', fd) /\ SameFile(fd', fd) /\ SameResults(fd', fd)

LEMMA PassComponentTableEffect ==
  ASSUME Inv(fd), PassComponentTable
  PROVE  Quiet \/ Over \/ Admitted
<1> DEFINE cmd == "PassComponentTable"
           p == Prologue(cmd)
<1>1. PICK img \in Img, last \in BOOLEAN :
        Packet(pldm_fwup_passcomponenttable(p, img, last), TRUE)
  BY DEF PassComponentTable, Img
<1> DEFINE s == pldm_fwup_passcomponenttable(p, img, last)
<1>2. Inv(p) /\ p.sent = <<>>
  BY PrologueInv
<1>3. (SameTransfer(p, fd) /\ p.event_id = fd.event_id) \/ Ended(p, fd)
  BY PrologueEffect
<1>4. CASE \/ p.event_id = ENTER_UD_WITH_PKTDATA /\ ~p.getpackagedata_progress
           \/ p.cur_state # LEARN_COMP
  <2>1. s = Refuse(p, INVALID_STATE_FOR_COMMAND)
    BY <1>4 DEF pldm_fwup_passcomponenttable
  <2> QED BY <1>1, <2>1, Stored, RefusedEffect
<1>5. CASE /\ p.cur_state = LEARN_COMP
           /\ p.event_id = ENTER_UD_WITH_PKTDATA => p.getpackagedata_progress
  <2>1. s \in FdType
    <3> HIDE DEF p
    <3> QED BY <1>2, PassComponentTableHandled DEF Handled
  <2>2. Packet(s, TRUE)
    BY <1>1
  <2>3. SameTransfer(p, fd) /\ p.event_id = fd.event_id /\ fd.cur_state = LEARN_COMP
    BY <1>3, <1>5, Numbers DEF SameTransfer, Ended
  <2> HIDE DEF p
  <2>4. s.cur_state = LEARN_COMP /\ s.sent = <<>>
        /\ s.event_id \in {PACKAGEDATA_ERROR, PASSCOMP_END, p.event_id}
    BY <1>2, <1>5 DEF pldm_fwup_passcomponenttable, Refuse, Inv, FdType
  <2>5. SameCounters(s, p)
    BY <1>2, <1>5 DEF pldm_fwup_passcomponenttable, Refuse, Inv, FdType, SameCounters
  <2>6. SameFile(s, p) /\ SameResults(s, p)
    BY <1>2, <1>5 DEF pldm_fwup_passcomponenttable, Refuse, Inv, FdType, SameFile, SameResults
  <2> HIDE DEF s
  <2>7. SameTransfer(s, p)
    BY <1>5, <2>4, <2>5, <2>6 DEF SameTransfer
  <2>8. CASE s.event_id = PACKAGEDATA_ERROR
    <3>1. Row(s.cur_state, s.event_id, IDLE, "firmware_process_quit") \in pldm_fwup_transforms
      BY <2>4, <2>8, RowsAre, Numbers
    <3> QED BY <2>1, <2>2, <2>4, <2>7, <3>1, QuitRowEffect DEF p
  <2>9. CASE s.event_id = PASSCOMP_END
    <3>1. Row(s.cur_state, s.event_id, READY_XFER, "NULL") \in pldm_fwup_transforms
      BY <2>4, <2>9, RowsAre, Numbers
    <3>2. /\ Moved(fd', s, READY_XFER) /\ SameFile(fd', s) /\ SameResults(fd', s)
          /\ fd'.sent = <<>>
      BY <2>1, <2>2, <2>4, <3>1, NullRowEffect
    <3>3. fd.event_id = ENTER_UD_WITH_PKTDATA => fd.getpackagedata_progress
      BY <1>5, <2>3 DEF SameTransfer, SameCounters
    <3> QED BY <2>3, <2>7, <2>9, <3>2, <3>3
            DEF Admitted, Moved, SameTransfer, SameCounters, SameFile, SameResults
  <2>10. CASE s.event_id = p.event_id
    <3>1. RowsOf(s) = {}
      BY <1>2, <1>5, <2>4, <2>10 DEF RowsOf, Inv
    <3> QED BY <2>1, <2>2, <2>3, <2>4, <2>7, <2>10, <3>1, QuietPacket DEF Quiet, Over, p
  <2> QED BY <2>4, <2>8, <2>9, <2>10
<1> QED BY <1>4, <1>5

\* The update of a component begins: its first bytes are asked for, with the
\* transfer size the last component left.
Started ==
  /\ fd.cur_state = READY_XFER
  /\ fd'.cur_state = DOWNLOAD /\ fd'.fw_total \in ImgSizes
  /\ fd'.data_transfer_handle = 0 /\ fd'.once_size = fd.once_size
  /\ fd'.max_transfer_size = fd.max_transfer_size /\ fd'.fw_len = fd.fw_len
  /\ fd'.pkg_len = fd.pkg_len /\ fd'.pkg_total = fd.pkg_total
  /\ fd'.pd = "open" /\ fd'.image_file = <<>>
  /\ fd'.sent = <<[cmd |-> "RequestFirmwareData", offset |-> 0, len |-> fd.once_size]>>

LEMMA UpdateComponentEffect ==
  ASSUME Inv(fd), UpdateComponent
  PROVE  Quiet \/ Over \/ Started
<1> DEFINE cmd == "UpdateComponent"
           p == Prologue(cmd)
<1>1. PICK img \in Img, size \in ImgSizes :
        Packet(pldm_fwup_updatecomponent(p, img, size), TRUE)
  BY DEF UpdateComponent, Img
<1> DEFINE s == pldm_fwup_updatecomponent(p, img, size)
<1>2. Inv(p) /\ p.sent = <<>>
  BY PrologueInv
<1>3. SameTransfer(p, fd) \/ Ended(p, fd)
  BY PrologueEffect
<1>4. CASE p.cur_state # READY_XFER
  <2>1. s = Refuse(p, INVALID_STATE_FOR_COMMAND)
    BY <1>4 DEF pldm_fwup_updatecomponent
  <2> QED BY <1>1, <2>1, Stored, RefusedEffect
<1>5. CASE p.cur_state = READY_XFER /\ img # p.new_img
  <2>1. s = p
    BY <1>5 DEF pldm_fwup_updatecomponent
  <2> QED BY <1>1, <2>1, Stored, RefusedEffect
<1>6. CASE p.cur_state = READY_XFER /\ img = p.new_img
  <2>1. s \in FdType
    <3> HIDE DEF p
    <3> QED BY <1>2, UpdateComponentHandled DEF Handled
  <2>2. Packet(s, TRUE)
    BY <1>1
  <2>3. SameTransfer(p, fd) /\ fd.cur_state = READY_XFER
    BY <1>3, <1>6, Numbers DEF SameTransfer, Ended
  <2> HIDE DEF p
  <2>4. /\ s.cur_state = READY_XFER /\ s.event_id = UD_COMP_END /\ s.sent = <<>>
        /\ s.fw_total = size /\ s.data_transfer_handle = 0
        /\ s.once_size = p.once_size /\ s.max_transfer_size = p.max_transfer_size
        /\ s.fw_len = p.fw_len /\ s.pkg_len = p.pkg_len /\ s.pkg_total = p.pkg_total
    BY <1>2, <1>6 DEF pldm_fwup_updatecomponent, Inv, FdType
  <2> HIDE DEF s
  <2>5. Row(s.cur_state, s.event_id, DOWNLOAD, "requestfwdata_send") \in pldm_fwup_transforms
    BY <2>4, RowsAre, Numbers
  <2>6. /\ Moved(fd', s, DOWNLOAD)
        /\ fd'.pd = "open" /\ fd'.image_file = <<>>
        /\ fd'.sent = <<[cmd |-> "RequestFirmwareData",
                         offset |-> s.data_transfer_handle, len |-> s.once_size]>>
    BY <2>1, <2>2, <2>4, <2>5, DataRowEffect
  <2>7. /\ p.once_size = fd.once_size /\ p.max_transfer_size = fd.max_transfer_size
        /\ p.fw_len = fd.fw_len /\ p.pkg_len = fd.pkg_len /\ p.pkg_total = fd.pkg_total
    BY <2>3 DEF SameTransfer, SameCounters
  <2> QED BY <2>3, <2>4, <2>6, <2>7 DEF Started, Moved, SameCounters
<1> QED BY <1>4, <1>5, <1>6

LEMMA ActivateFirmwareEffect ==
  ASSUME Inv(fd), ActivateFirmware
  PROVE  Quiet \/ Over
<1> DEFINE cmd == "ActivateFirmware"
           p == Prologue(cmd)
<1>1. PICK self \in BOOLEAN, flash_ok \in BOOLEAN :
        Packet(pldm_fwup_activatefw(p, self, flash_ok), TRUE)
  BY DEF ActivateFirmware
<1> DEFINE s == pldm_fwup_activatefw(p, self, flash_ok)
<1>2. Inv(p) /\ p.sent = <<>>
  BY PrologueInv
<1>3. CASE p.cur_state # READY_XFER
  <2>1. s = Refuse(p, INVALID_STATE_FOR_COMMAND)
    BY <1>3 DEF pldm_fwup_activatefw
  <2> QED BY <1>1, <2>1, Stored, RefusedEffect
<1>4. CASE p.cur_state = READY_XFER /\ p.event_id # APPLY_PASS
  <2>1. s = Refuse(p, INCOMPLETE_UPDATE)
    BY <1>4 DEF pldm_fwup_activatefw
  <2> QED BY <1>1, <2>1, Stored, RefusedEffect
<1>5. CASE p.cur_state = READY_XFER /\ p.event_id = APPLY_PASS
  <2>1. s \in FdType
    <3> HIDE DEF p
    <3> QED BY <1>2, ActivateHandled DEF Handled
  <2>2. Packet(s, TRUE)
    BY <1>1
  <2> HIDE DEF p
  <2>3. s.cur_state = READY_XFER /\ s.event_id = ACTIVATE_DONE /\ s.sent = <<>>
    BY <1>2, <1>5 DEF pldm_fwup_activatefw, Inv, FdType
  <2>4. SameCounters(s, p)
    BY <1>2, <1>5 DEF pldm_fwup_activatefw, Inv, FdType, SameCounters
  <2>5. SameFile(s, p) /\ SameResults(s, p)
    BY <1>2, <1>5 DEF pldm_fwup_activatefw, Inv, FdType, SameFile, SameResults
  <2> HIDE DEF s
  <2>6. SameTransfer(s, p)
    BY <1>5, <2>3, <2>4, <2>5 DEF SameTransfer
  <2>7. Row(s.cur_state, s.event_id, IDLE, "firmware_process_quit") \in pldm_fwup_transforms
    BY <2>3, RowsAre, Numbers
  <2> QED BY <2>1, <2>2, <2>3, <2>6, <2>7, QuitRowEffect DEF p
<1> QED BY <1>3, <1>4, <1>5

(***************************************************************************)
(* ... and what the answers do.                                            *)
(***************************************************************************)

\* The device goes on to the next state with the transfer as it is.
Advanced(next) ==
  /\ fd'.cur_state = next
  /\ SameCounters(fd', fd) /\ SameFile(fd', fd)
  /\ fd'.transfer_result = fd.transfer_result

\* The three answers that complete a state.  Their handler raises the event that
\* leads on, or only writes the progress flag.
LEMMA CompletionSame ==
  ASSUME NEW s, Inv(s), s.sent = <<>>, NEW t,
         t = s \/ t = [s EXCEPT !.event_id = s.event_id, !.progress_flag = TRUE]
  PROVE  /\ t \in FdType /\ RowsOf(t) = {} /\ SameTransfer(t, s)
         /\ t.event_id = s.event_id /\ t.sent = <<>>
<1>1. CASE t = s
  BY <1>1, SameItself DEF Inv
<1>2. CASE t = [s EXCEPT !.event_id = s.event_id, !.progress_flag = TRUE]
  <2>1. s.event_id \in Events
    BY DEF Inv, FdType
  <2>2. Raises(t, s, s.event_id)
    BY <1>2 DEF Raises
  <2>3. /\ t \in FdType /\ SameTransfer(t, s) /\ t.event_id = s.event_id /\ t.sent = <<>>
    BY <2>1, <2>2, EventEffect
  <2>4. RowsOf(t) = {}
    BY <2>3 DEF RowsOf, Inv, SameTransfer
  <2> QED BY <2>3, <2>4
<1> QED BY <1>1, <1>2

\* TransferComplete is answered: to VERIFY, if the transfer was a success.
LEMMA TransferCompleteEffect ==
  ASSUME Inv(fd), fd.cur_state \in {IDLE, DOWNLOAD},
         NEW ok \in BOOLEAN, NEW cb_ok \in BOOLEAN,
         Packet(pldm_fwup_transfercpl_recv(Prologue("TransferComplete"), ok), cb_ok)
  PROVE  \/ Over
         \/ Quiet /\ (fd.cur_state = DOWNLOAD => ~ok \/ fd.transfer_result # 0)
         \/ /\ ok /\ fd.cur_state = DOWNLOAD /\ fd.transfer_result = 0 /\ Advanced(VERIFY)
            /\ fd'.verify_result = (IF cb_ok THEN 0 ELSE 1)
            /\ fd'.sent = <<[cmd |-> "VerifyComplete", result |-> IF cb_ok THEN 0 ELSE 1]>>
<1> DEFINE p == Prologue("TransferComplete")
           s == pldm_fwup_transfercpl_recv(p, ok)
<1>1. Inv(p) /\ p.sent = <<>>
  BY PrologueInv
<1>2. \/ SameTransfer(p, fd) /\ p.event_id = fd.event_id
      \/ Ended(p, fd)
  BY PrologueEffect
<1>3. p.transfer_result = fd.transfer_result
  BY <1>2 DEF SameTransfer, SameResults, Ended
<1>4. CASE ~ok \/ p.transfer_result # 0
  <2>1. s = p \/ s = [p EXCEPT !.event_id = p.event_id, !.progress_flag = TRUE]
    BY <1>4 DEF pldm_fwup_transfercpl_recv
  <2> HIDE DEF p, s
  <2>2. /\ s \in FdType /\ RowsOf(s) = {} /\ SameTransfer(s, p)
        /\ s.event_id = p.event_id /\ s.sent = <<>>
    BY <1>1, <2>1, CompletionSame
  <2>3. Packet(s, cb_ok)
    BY DEF s, p
  <2>4. \/ SameTransfer(fd', fd) /\ fd'.sent = <<>> /\ fd'.event_id = fd.event_id
        \/ Over
    BY <2>2, <2>3, QuietPacket DEF Over, p
  <2> QED BY <1>3, <1>4, <2>4 DEF Quiet
<1>5. CASE ok /\ p.transfer_result = 0
  <2>1. Raises(s, p, TRANSFER_PASS)
    BY <1>5 DEF pldm_fwup_transfercpl_recv, Raises
  <2>2. Packet(s, cb_ok)
    OBVIOUS
  <2> HIDE DEF p, s
  <2>3. /\ s \in FdType /\ SameTransfer(s, p) /\ s.event_id = TRANSFER_PASS /\ s.sent = <<>>
    <3>1. TRANSFER_PASS \in Events
      BY Numbers
    <3> QED BY <1>1, <2>1, <3>1, EventEffect
  <2>4. CASE p.cur_state = IDLE
    <3>1. RowsOf(s) = {}
      BY <2>3, <2>4, NoRow, Numbers DEF SameTransfer
    <3>2. (SameTransfer(fd', fd) /\ fd'.sent = <<>> /\ SameTransfer(p, fd)) \/ Over
      BY <2>2, <2>3, <3>1, QuietPacket DEF Over, p
    <3>3. SameTransfer(p, fd) => fd.cur_state = IDLE
      BY <2>4 DEF SameTransfer
    <3> QED BY <3>2, <3>3, Numbers DEF Quiet
  <2>5. CASE p.cur_state # IDLE
    <3>1. SameTransfer(p, fd) /\ fd.cur_state = DOWNLOAD /\ p.cur_state = DOWNLOAD
      BY <1>2, <2>5 DEF Ended, SameTransfer
    <3>2. Row(s.cur_state, s.event_id, VERIFY, "verify_process") \in pldm_fwup_transforms
      BY <2>3, <3>1, RowsAre, Numbers DEF SameTransfer
    <3>3. /\ Moved(fd', s, VERIFY) /\ SameFile(fd', s)
          /\ fd'.transfer_result = s.transfer_result
          /\ fd'.verify_result = (IF cb_ok THEN 0 ELSE 1)
          /\ fd'.sent = <<[cmd |-> "VerifyComplete", result |-> IF cb_ok THEN 0 ELSE 1]>>
      BY <2>2, <2>3, <3>2, VerifyRowEffect
    <3>4. SameTransfer(s, fd)
      BY <2>3, <3>1, Compose
    <3>5. Advanced(VERIFY)
      BY <3>3, <3>4 DEF Advanced, Moved, SameTransfer, SameCounters, SameFile, SameResults
    <3> QED BY <1>3, <1>5, <3>1, <3>3, <3>5
  <2> QED BY <2>4, <2>5
<1> QED BY <1>3, <1>4, <1>5

\* VerifyComplete is answered: to APPLY, if the verification was a success.
LEMMA VerifyCompleteEffect ==
  ASSUME Inv(fd), fd.cur_state = VERIFY, NEW ok \in BOOLEAN, NEW cb_ok,
         Packet(pldm_fwup_verifycpl_recv(Prologue("VerifyComplete"), ok), cb_ok)
  PROVE  \/ Over
         \/ Quiet /\ (~ok \/ fd.verify_result # 0)
         \/ /\ ok /\ Advanced(APPLY) /\ fd'.verify_result = fd.verify_result
            /\ fd'.sent = <<[cmd |-> "ApplyComplete", result |-> 1]>>
<1> DEFINE p == Prologue("VerifyComplete")
           s == pldm_fwup_verifycpl_recv(p, ok)
<1>1. Inv(p) /\ p.sent = <<>> /\ Packet(s, cb_ok)
  BY PrologueInv
<1>2. SameTransfer(p, fd) \/ Ended(p, fd)
  BY PrologueEffect
<1>3. p.verify_result = fd.verify_result
  BY <1>2 DEF SameTransfer, SameResults, Ended
<1>4. CASE ~ok \/ p.verify_result # 0
  <2>1. s = p \/ s = [p EXCEPT !.event_id = p.event_id, !.progress_flag = TRUE]
    BY <1>4 DEF pldm_fwup_verifycpl_recv
  <2> HIDE DEF p, s
  <2>2. /\ s \in FdType /\ RowsOf(s) = {} /\ SameTransfer(s, p)
        /\ s.event_id = p.event_id /\ s.sent = <<>>
    BY <1>1, <2>1, CompletionSame
  <2>3. (SameTransfer(fd', fd) /\ fd'.sent = <<>>) \/ Over
    BY <1>1, <2>2, QuietPacket DEF Over, p
  <2> QED BY <1>3, <1>4, <2>3, Numbers DEF Quiet
<1>5. CASE ok /\ p.verify_result = 0
  <2>1. Raises(s, p, VERIFY_PASS) /\ VERIFY_PASS \in Events
    BY <1>5, Numbers DEF pldm_fwup_verifycpl_recv, Raises
  <2> HIDE DEF p, s
  <2>2. /\ s \in FdType /\ SameTransfer(s, p) /\ s.event_id = VERIFY_PASS /\ s.sent = <<>>
    BY <1>1, <2>1, EventEffect
  <2>3. CASE Ended(p, fd)
    <3>1. RowsOf(s) = {}
      BY <2>2, <2>3, NoRow, Numbers DEF SameTransfer, Ended
    <3>2. ~SameTransfer(p, fd)
      BY <2>3, Numbers DEF SameTransfer, Ended
    <3> QED BY <1>1, <2>2, <3>1, <3>2, QuietPacket DEF Over, p
  <2>4. CASE SameTransfer(p, fd)
    <3>1. Row(s.cur_state, s.event_id, APPLY, "applycpl_send") \in pldm_fwup_transforms
      BY <2>2, <2>4, RowsAre, Numbers DEF SameTransfer
    <3>2. /\ Moved(fd', s, APPLY) /\ SameFile(fd', s) /\ SameResults(fd', s)
          /\ fd'.sent = <<[cmd |-> "ApplyComplete", result |-> 1]>>
      BY <1>1, <2>2, <3>1, ApplyRowEffect
    <3>3. SameTransfer(s, fd)
      BY <2>2, <2>4, Compose
    <3>4. Advanced(APPLY) /\ fd'.verify_result = fd.verify_result
      BY <3>2, <3>3 DEF Advanced, Moved, SameTransfer, SameCounters, SameFile, SameResults
    <3> QED BY <1>5, <3>2, <3>4
  <2> QED BY <1>2, <2>3, <2>4
<1> QED BY <1>3, <1>4, <1>5

\* ApplyComplete is answered: back to READY_XFER.
LEMMA ApplyCompleteEffect ==
  ASSUME Inv(fd), fd.cur_state = APPLY, NEW ok \in BOOLEAN, NEW cb_ok,
         Packet(pldm_fwup_applycpl_recv(Prologue("ApplyComplete"), ok), cb_ok)
  PROVE  \/ Over
         \/ Quiet /\ ~ok
         \/ /\ ok /\ Advanced(READY_XFER) /\ fd'.verify_result = fd.verify_result
            /\ fd'.event_id = APPLY_PASS /\ fd'.sent = <<>>
<1> DEFINE p == Prologue("ApplyComplete")
           s == pldm_fwup_applycpl_recv(p, ok)
<1>1. Inv(p) /\ p.sent = <<>> /\ Packet(s, cb_ok)
  BY PrologueInv
<1>2. SameTransfer(p, fd) \/ Ended(p, fd)
  BY PrologueEffect
<1>3. CASE ~ok
  <2>1. s = p
    BY <1>3 DEF pldm_fwup_applycpl_recv
  <2> HIDE DEF p, s
  <2>2. s \in FdType /\ RowsOf(s) = {} /\ SameTransfer(s, p) /\ s.sent = <<>>
    BY <1>1, <2>1, CompletionSame
  <2>3. (SameTransfer(fd', fd) /\ fd'.sent = <<>>) \/ Over
    BY <1>1, <2>2, QuietPacket DEF Over, p
  <2> QED BY <1>3, <2>3, Numbers DEF Quiet
<1>4. CASE ok
  <2>1. Raises(s, p, APPLY_PASS) /\ APPLY_PASS \in Events
    BY <1>4, Numbers DEF pldm_fwup_applycpl_recv, Raises
  <2> HIDE DEF p, s
  <2>2. /\ s \in FdType /\ SameTransfer(s, p) /\ s.event_id = APPLY_PASS /\ s.sent = <<>>
    BY <1>1, <2>1, EventEffect
  <2>3. CASE Ended(p, fd)
    <3>1. RowsOf(s) = {}
      BY <2>2, <2>3, NoRow, Numbers DEF SameTransfer, Ended
    <3>2. ~SameTransfer(p, fd)
      BY <2>3, Numbers DEF SameTransfer, Ended
    <3> QED BY <1>1, <2>2, <3>1, <3>2, QuietPacket DEF Over, p
  <2>4. CASE SameTransfer(p, fd)
    <3>1. Row(s.cur_state, s.event_id, READY_XFER, "NULL") \in pldm_fwup_transforms
      BY <2>2, <2>4, RowsAre, Numbers DEF SameTransfer
    <3>2. /\ Moved(fd', s, READY_XFER) /\ SameFile(fd', s) /\ SameResults(fd', s)
          /\ fd'.sent = <<>>
      BY <1>1, <2>2, <3>1, NullRowEffect
    <3>3. SameTransfer(s, fd)
      BY <2>2, <2>4, Compose
    <3>4. /\ Advanced(READY_XFER) /\ fd'.verify_result = fd.verify_result
          /\ fd'.event_id = APPLY_PASS
      BY <2>2, <3>2, <3>3
         DEF Advanced, Moved, SameTransfer, SameCounters, SameFile, SameResults
    <3> QED BY <1>4, <3>2, <3>4
  <2> QED BY <1>2, <2>3, <2>4
<1> QED BY <1>3, <1>4

\* Package data come in, while the session lasts: more is asked for, or the last
\* of them has arrived, or the answer was an error.
Counted(t, s, ok) ==
  \/ /\ t.getpackagedata_progress = s.getpackagedata_progress
     /\ \/ ~ok /\ t.pkg_len = s.pkg_len /\ t.sent = <<>>
        \/ /\ t.cur_state # IDLE
           /\ t.sent = <<[cmd |-> "GetPackageData", handle |-> t.data_transfer_handle]>>
           /\ t.pkg_len # t.pkg_total /\ s.pkg_len # s.pkg_total
  \/ t.getpackagedata_progress = TRUE /\ t.pkg_len = t.pkg_total /\ t.sent = <<>>

PackageAnswered(ok) ==
  /\ fd'.cur_state = fd.cur_state /\ fd'.event_id = fd.event_id
  /\ fd'.once_size = fd.once_size /\ fd'.max_transfer_size = fd.max_transfer_size
  /\ fd'.fw_len = fd.fw_len /\ fd'.pkg_total = fd.pkg_total
  /\ SameFile(fd', fd) /\ SameResults(fd', fd)
  /\ Counted(fd', fd, ok)

\* An answer that came in after the timer had ended its session.
AnsweredInIdle ==
  /\ fd'.cur_state = IDLE /\ fd'.max_transfer_size = fd.max_transfer_size
  /\ fd'.image_file = fd.image_file

\* What the handler of package data does, wherever it runs.
LEMMA PackageDataHandled ==
  ASSUME NEW s, Inv(s), s.sent = <<>>, NEW ok \in BOOLEAN, NEW next \in Handles,
         NEW crc_ok \in BOOLEAN
  PROVE  LET r == pldm_fwup_getpackagedata_recv(s, ok, next, crc_ok) IN
         /\ r.cur_state = s.cur_state /\ r.event_id = s.event_id
         /\ r.once_size = s.once_size /\ r.max_transfer_size = s.max_transfer_size
         /\ r.fw_len = s.fw_len /\ r.pkg_total = s.pkg_total
         /\ SameFile(r, s) /\ SameResults(r, s)
         /\ Counted(r, s, ok)
<1> DEFINE r == pldm_fwup_getpackagedata_recv(s, ok, next, crc_ok)
           n == MinOf(s.pkg_total - s.pkg_len, s.max_transfer_size)
           Kept(u) == /\ u.cur_state = s.cur_state /\ u.event_id = s.event_id
                      /\ u.once_size = s.once_size /\ u.max_transfer_size = s.max_transfer_size
                      /\ u.fw_len = s.fw_len /\ u.pkg_total = s.pkg_total
                      /\ SameFile(u, s) /\ SameResults(u, s)
<1>1. /\ s \in FdType /\ s.pkg_len \in Nat /\ s.pkg_total \in Nat /\ s.pkg_len <= s.pkg_total
      /\ s.max_transfer_size \in Nat
  BY DEF Inv, Bounded, FdType
<1>2. n \in Nat /\ s.pkg_len + n \in Nat /\ s.pkg_len + n <= s.pkg_total
  <2>1. s.pkg_total - s.pkg_len \in Nat
    BY <1>1
  <2>2. n \in Nat /\ n <= s.pkg_total - s.pkg_len
    BY <1>1, <2>1, MinFacts
  <2> HIDE DEF n
  <2> QED BY <1>1, <2>2
<1> HIDE DEF n
<1>3. CASE ~ok
  <2>1. r = [s EXCEPT !.data_transfer_handle = 0]
    BY <1>3 DEF pldm_fwup_getpackagedata_recv
  <2> HIDE DEF r
  <2>2. Kept(r) /\ r.getpackagedata_progress = s.getpackagedata_progress
    BY <1>1, <2>1 DEF FdType, SameFile, SameResults
  <2>3. r.pkg_len = s.pkg_len /\ r.sent = <<>>
    BY <1>1, <2>1 DEF FdType
  <2> QED BY <1>3, <2>2, <2>3 DEF r, Counted
<1>4. CASE ok /\ s.pkg_len + n >= s.pkg_total
  <2> DEFINE want == s.want_to_end_update \/ ~crc_ok
  <2>1. r = [s EXCEPT !.pkg_len = s.pkg_len + n, !.want_to_end_update = want,
                      !.getpackagedata_progress = TRUE]
    BY <1>1, <1>4 DEF pldm_fwup_getpackagedata_recv, n, FdType
  <2> HIDE DEF want, r
  <2>2. Kept(r)
    BY <1>1, <2>1 DEF FdType, SameFile, SameResults
  <2>3. /\ r.pkg_len = s.pkg_len + n /\ r.pkg_total = s.pkg_total /\ r.sent = <<>>
        /\ r.getpackagedata_progress = TRUE
    BY <1>1, <2>1 DEF FdType
  <2>4. s.pkg_len + n = s.pkg_total
    BY <1>1, <1>2, <1>4
  <2> QED BY <2>2, <2>3, <2>4 DEF r, Counted
<1>5. CASE ok /\ ~(s.pkg_len + n >= s.pkg_total)
  <2> DEFINE v == [s EXCEPT !.pkg_len = s.pkg_len + n, !.data_transfer_handle = next]
             q == [cmd |-> "GetPackageData", handle |-> v.data_transfer_handle]
  <2>1. r = pldm_msg_send(v, q)
    BY <1>1, <1>5 DEF pldm_fwup_getpackagedata_recv, pldm_fwup_getpackagedata_send, n, FdType
  <2>2. v \in FdType /\ v.sent = <<>> /\ v.pkg_len = s.pkg_len + n
        /\ v.getpackagedata_progress = s.getpackagedata_progress
    BY <1>1, <1>2, SizesAssumption DEF FdType
  <2>3. Kept(v)
    BY <1>1 DEF FdType, SameFile, SameResults
  <2>4. q \in Requests
    BY <2>2, RequestTypes DEF FdType
  <2> HIDE DEF v, q, r
  <2>5. SameTransfer(r, v) /\ r.event_id = v.event_id /\ r.sent = <<q>>
    BY <2>1, <2>2, <2>4, SendEffect
  <2>6. /\ Kept(r) /\ r.getpackagedata_progress = s.getpackagedata_progress
        /\ r.pkg_len = s.pkg_len + n /\ r.data_transfer_handle = v.data_transfer_handle
    BY <2>2, <2>3, <2>5 DEF SameTransfer, SameCounters, SameFile, SameResults
  <2>7. s.pkg_len # s.pkg_total
    BY <1>1, <1>2, <1>5
  <2>8. s.cur_state # IDLE
    BY <2>7 DEF Inv, Clean
  <2>9. r.pkg_len # r.pkg_total
    BY <1>1, <1>2, <1>5, <2>6
  <2>10. r.sent = <<[cmd |-> "GetPackageData", handle |-> r.data_transfer_handle]>>
    BY <2>5, <2>6 DEF q
  <2> QED BY <2>6, <2>7, <2>8, <2>9, <2>10 DEF r, Counted
<1> QED BY <1>3, <1>4, <1>5

LEMMA GetPackageDataEffect ==
  ASSUME Inv(fd), NEW ok \in BOOLEAN, NEW next \in Handles, NEW crc_ok \in BOOLEAN, NEW cb_ok,
         Packet(pldm_fwup_getpackagedata_recv(Prologue("GetPackageData"), ok, next, crc_ok),
                cb_ok)
  PROVE  \/ PackageAnswered(ok)
         \/ AnsweredInIdle /\ fd'.pd = fd.pd /\ fd'.sent = <<>>
<1> DEFINE p == Prologue("GetPackageData")
           s == pldm_fwup_getpackagedata_recv(p, ok, next, crc_ok)
           t == pldm_fwup_state_machine_switch(s, cb_ok)
<1>1. Inv(p) /\ p.sent = <<>>
  BY PrologueInv
<1>2. (SameTransfer(p, fd) /\ p.event_id = fd.event_id) \/ Ended(p, fd)
  BY PrologueEffect
<1>3. fd' = t
  BY HandlerRuns
<1> HIDE DEF p
<1>4. s \in FdType
  BY <1>1, GetPackageDataRecvHandled DEF Handled
<1> HIDE DEF s
<1>5. /\ s.cur_state = p.cur_state /\ s.event_id = p.event_id
      /\ s.once_size = p.once_size /\ s.max_transfer_size = p.max_transfer_size
      /\ s.fw_len = p.fw_len /\ s.pkg_total = p.pkg_total
      /\ SameFile(s, p) /\ SameResults(s, p)
  BY <1>1, PackageDataHandled, ZenonT(30) DEF s
<1>6. Counted(s, p, ok)
  BY <1>1, PackageDataHandled DEF s
<1>7. RowsOf(s) = {}
  BY <1>1, <1>5 DEF RowsOf, Inv
<1>8. SameTransfer(t, s) /\ t.event_id = s.event_id /\ t.sent = s.sent
  BY <1>4, <1>7, SwitchQuiet
<1> HIDE DEF t
<1>9. CASE SameTransfer(p, fd) /\ p.event_id = fd.event_id
  <2>1. /\ t.cur_state = fd.cur_state /\ t.event_id = fd.event_id
        /\ t.once_size = fd.once_size /\ t.max_transfer_size = fd.max_transfer_size
        /\ t.fw_len = fd.fw_len /\ t.pkg_total = fd.pkg_total
        /\ SameFile(t, fd) /\ SameResults(t, fd)
    BY <1>5, <1>8, <1>9 DEF SameTransfer, SameCounters, SameFile, SameResults
  <2>2. Counted(t, fd, ok)
    BY <1>6, <1>8, <1>9 DEF Counted, SameTransfer, SameCounters
  <2> QED BY <1>3, <2>1, <2>2 DEF PackageAnswered
<1>10. CASE Ended(p, fd)
  <2>1. /\ t.cur_state = IDLE /\ t.max_transfer_size = fd.max_transfer_size
        /\ t.image_file = fd.image_file /\ t.pd = fd.pd
    BY <1>5, <1>8, <1>10 DEF Ended, SameTransfer, SameCounters, SameFile
  <2>2. t.sent = <<>>
    BY <1>5, <1>6, <1>8, <1>10 DEF Ended, Counted
  <2> QED BY <1>3, <2>1, <2>2 DEF AnsweredInIdle
<1> QED BY <1>2, <1>9, <1>10

(***************************************************************************)
(* A data answer.  The bytes that fit are copied behind what the buffer    *)
(* holds; when it is full the block goes to the file and the rest of the   *)
(* packet starts the buffer again.                                         *)
(***************************************************************************)

Copied(s) == MinOf(s.once_size, RecvBufMax - s.fw_len)

Fills(s) == s.fw_len + Copied(s) = RecvBufMax

Direct(s) == s.max_transfer_size = RecvBufMax

Stuffed(s, origin) ==
  [i \in 0 .. RecvBufMax - 1 |-> IF s.fw_len <= i /\ i < s.fw_len + Copied(s)
                                 THEN origin + (i - s.fw_len) ELSE s.fw_data[i]]

Kept(s, origin) == IF Direct(s) THEN s.fw_data ELSE Stuffed(s, origin)

Block(s, origin) ==
  IF Direct(s) THEN [i \in 0 .. RecvBufMax - 1 |-> origin + i] ELSE Kept(s, origin)

Restarted(s, origin) ==
  [i \in 0 .. RecvBufMax - 1 |-> IF i < s.once_size - Copied(s)
                                 THEN origin + Copied(s) + i ELSE Kept(s, origin)[i]]

\* The buffer and the fill level after the packet.
Buffer(s, origin) == IF Fills(s) THEN Restarted(s, origin) ELSE Kept(s, origin)

Level(s) == IF Fills(s) THEN s.once_size - Copied(s) ELSE s.fw_len + Copied(s)

File(s, origin) ==
  IF Fills(s) THEN Append(s.image_file, Block(s, origin)) ELSE s.image_file

\* The three ways it ends: the callback refused the block, the image is
\* complete, more is asked for.
Failed(r, s) ==
  /\ Fills(s) /\ r.transfer_result = 13 /\ r.pd = "open"
  /\ r.sent = <<[cmd |-> "TransferComplete", result |-> 13]>>

Completed(r, s) ==
  /\ s.data_transfer_handle + s.once_size >= s.fw_total
  /\ r.transfer_result = 0 /\ r.pd = "closed" /\ r.fw_len = 0
  /\ r.sent = <<[cmd |-> "TransferComplete", result |-> 0]>>

Continued(r, s, origin) ==
  /\ s.data_transfer_handle + s.once_size < s.fw_total
  /\ r.data_transfer_handle = s.data_transfer_handle + s.once_size
  /\ r.fw_total = s.fw_total
  /\ r.once_size = MinOf(r.fw_total - r.data_transfer_handle, s.max_transfer_size)
  /\ r.fw_data = Buffer(s, origin) /\ r.fw_len = Level(s)
  /\ r.transfer_result = s.transfer_result /\ r.pd = "open"
  /\ r.sent = <<[cmd |-> "RequestFirmwareData",
                 offset |-> r.data_transfer_handle, len |-> r.once_size]>>

DataKept(r, s) ==
  /\ r.cur_state = s.cur_state /\ r.event_id = s.event_id
  /\ r.max_transfer_size = s.max_transfer_size /\ r.verify_result = s.verify_result
  /\ r.pkg_len = s.pkg_len /\ r.pkg_total = s.pkg_total
  /\ r.getpackagedata_progress = s.getpackagedata_progress

DataTaken(r, s, origin) ==
  /\ DataKept(r, s) /\ r.image_file = File(s, origin)

\* The first request of a packet.
LEMMA FirstSent ==
  ASSUME NEW q, NEW w, w = <<>>
  PROVE  Append(w, q) = <<q>>
OBVIOUS

LEMMA DataHandled ==
  ASSUME NEW s, Inv(s), s.sent = <<>>, s.pd = "open", NEW origin \in Origins,
         NEW cb_ok \in BOOLEAN
  PROVE  LET r == pldm_fwup_requestfwdata_recv(s, TRUE, origin, cb_ok) IN
         /\ DataTaken(r, s, origin)
         /\ \/ ~cb_ok /\ Failed(r, s)
            \/ Completed(r, s)
            \/ Continued(r, s, origin)
<1> DEFINE r == pldm_fwup_requestfwdata_recv(s, TRUE, origin, cb_ok)
           cpy == Copied(s)
           data == Kept(s, origin)
           block == Block(s, origin)
           rest == Restarted(s, origin)
           full == Fills(s)
           file == IF full /\ s.pd = "open" THEN Append(s.image_file, block) ELSE s.image_file
           handle == IF full /\ s.pd # "open" THEN "misused" ELSE s.pd
           a == [s EXCEPT !.fw_data = data, !.fw_len = s.fw_len + cpy,
                          !.image_file = file, !.pd = handle]
           b == IF ~full THEN a
                ELSE [a EXCEPT !.fw_data = rest, !.fw_len = s.once_size - cpy]
           c == [b EXCEPT !.data_transfer_handle = @ + s.once_size]
           n == MinOf(c.fw_total - c.data_transfer_handle, s.max_transfer_size)
           e == [c EXCEPT !.once_size = n]
           v == pldm_fwup_transfercpl_send(c, 0)
<1>1. /\ s \in FdType /\ s.once_size \in Nat /\ s.data_transfer_handle \in Nat
      /\ s.fw_total \in Nat
  BY DEF Inv, FdType
<1>2. file = File(s, origin) /\ handle = "open"
  BY DEF File
<1>3. CASE full /\ ~cb_ok
  <2> DEFINE q == [cmd |-> "TransferComplete", result |-> 13]
             w == [a EXCEPT !.transfer_result = 13]
             t == [w EXCEPT !.need_rsp = TRUE, !.sent = Append(w.sent, q)]
  <2>1. r = pldm_fwup_transfercpl_send(a, 13)
    BY <1>3 DEF pldm_fwup_requestfwdata_recv, Copied, Fills, Direct, Stuffed, Kept, Block
  <2>2. r = t
    BY <2>1 DEF pldm_fwup_transfercpl_send, pldm_msg_send
  <2> HIDE DEF r, data, file, handle, q, full, cpy
  <2>3. /\ t.cur_state = s.cur_state /\ t.event_id = s.event_id
        /\ t.max_transfer_size = s.max_transfer_size /\ t.verify_result = s.verify_result
        /\ t.pkg_len = s.pkg_len /\ t.pkg_total = s.pkg_total
        /\ t.getpackagedata_progress = s.getpackagedata_progress
    BY <1>1 DEF FdType
  <2>4. t.image_file = file /\ t.pd = handle /\ t.transfer_result = 13 /\ t.sent = <<q>>
    <3>1. t.image_file = file /\ t.pd = handle /\ t.transfer_result = 13
      BY <1>1 DEF FdType
    <3>2. w.sent = <<>> /\ t.sent = Append(w.sent, q)
      BY <1>1 DEF FdType
    <3> HIDE DEF t, w
    <3> QED BY <3>1, <3>2, FirstSent
  <2> HIDE DEF t
  <2>5. DataTaken(r, s, origin) /\ Failed(r, s)
    BY <1>2, <1>3, <2>2, <2>3, <2>4 DEF DataTaken, DataKept, Failed, full, q
  <2> QED BY <1>3, <2>5 DEF r
<1>4. /\ c.data_transfer_handle = s.data_transfer_handle + s.once_size
      /\ c.fw_total = s.fw_total
  <2> HIDE DEF data, file, handle, full, cpy, rest
  <2> QED BY <1>1 DEF FdType
<1>5. CASE ~(full /\ ~cb_ok) /\ c.data_transfer_handle >= c.fw_total
  <2> DEFINE q == [cmd |-> "TransferComplete", result |-> 0]
             w == [c EXCEPT !.transfer_result = 0]
             m == [w EXCEPT !.need_rsp = TRUE, !.sent = Append(w.sent, q)]
             t == [m EXCEPT !.data_transfer_handle = 0, !.fw_len = 0, !.fw_total = 0,
                            !.pd = IF m.pd = "open" THEN "closed" ELSE "misused"]
  <2>1. r = [v EXCEPT !.data_transfer_handle = 0, !.fw_len = 0, !.fw_total = 0,
                      !.pd = IF v.pd = "open" THEN "closed" ELSE "misused"]
    BY <1>5 DEF pldm_fwup_requestfwdata_recv, Copied, Fills, Direct, Stuffed, Kept, Block,
                Restarted
  <2>2. r = t
    BY <2>1 DEF pldm_fwup_transfercpl_send, pldm_msg_send
  <2> HIDE DEF r, data, file, handle, q, full, cpy, rest
  <2>3. /\ t.cur_state = s.cur_state /\ t.event_id = s.event_id
        /\ t.max_transfer_size = s.max_transfer_size /\ t.verify_result = s.verify_result
        /\ t.pkg_len = s.pkg_len /\ t.pkg_total = s.pkg_total
        /\ t.getpackagedata_progress = s.getpackagedata_progress
    BY <1>1 DEF FdType
  <2>4. /\ t.image_file = file /\ t.transfer_result = 0 /\ t.fw_len = 0 /\ t.sent = <<q>>
        /\ t.pd = IF handle = "open" THEN "closed" ELSE "misused"
    <3>1. m.image_file = file /\ m.transfer_result = 0 /\ m.pd = handle
      BY <1>1 DEF FdType
    <3>2. w.sent = <<>> /\ m.sent = Append(w.sent, q)
      BY <1>1 DEF FdType
    <3>3. /\ t.image_file = m.image_file /\ t.transfer_result = m.transfer_result
          /\ t.fw_len = 0 /\ t.sent = m.sent
          /\ t.pd = IF m.pd = "open" THEN "closed" ELSE "misused"
      BY <1>1 DEF FdType
    <3> HIDE DEF t, m, w
    <3> QED BY <3>1, <3>2, <3>3, FirstSent
  <2> HIDE DEF t, c
  <2>5. DataTaken(r, s, origin) /\ Completed(r, s)
    BY <1>2, <1>4, <1>5, <2>2, <2>3, <2>4 DEF DataTaken, DataKept, Completed, q
  <2> QED BY <2>5 DEF r
<1>6. CASE ~(full /\ ~cb_ok) /\ ~(c.data_transfer_handle >= c.fw_total)
  <2> DEFINE q == [cmd |-> "RequestFirmwareData",
                   offset |-> e.data_transfer_handle, len |-> e.once_size]
             t == [e EXCEPT !.need_rsp = TRUE, !.sent = Append(e.sent, q)]
  <2>1. r = pldm_fwup_requestfwdata_send(e)
    BY <1>6 DEF pldm_fwup_requestfwdata_recv, Copied, Fills, Direct, Stuffed, Kept, Block,
                Restarted
  <2>2. r = t
    BY <2>1 DEF pldm_fwup_requestfwdata_send, pldm_msg_send
  <2>3. n = MinOf(s.fw_total - (s.data_transfer_handle + s.once_size), s.max_transfer_size)
    <3> HIDE DEF c
    <3> QED BY <1>4
  <2>4. e.data_transfer_handle = s.data_transfer_handle + s.once_size /\ e.once_size = n
    <3> HIDE DEF n, data, file, handle, full, cpy, rest
    <3> QED BY <1>1 DEF FdType
  <2> HIDE DEF r, n, data, file, handle, q, full, cpy, rest
  <2>5. /\ t.cur_state = s.cur_state /\ t.event_id = s.event_id
        /\ t.max_transfer_size = s.max_transfer_size /\ t.verify_result = s.verify_result
        /\ t.pkg_len = s.pkg_len /\ t.pkg_total = s.pkg_total
        /\ t.getpackagedata_progress = s.getpackagedata_progress
    BY <1>1 DEF FdType
  <2>6. /\ t.image_file = file /\ t.pd = handle /\ t.transfer_result = s.transfer_result
        /\ t.sent = <<q>> /\ t.once_size = n /\ t.fw_total = s.fw_total
        /\ t.data_transfer_handle = s.data_transfer_handle + s.once_size
    <3>1. /\ t.image_file = file /\ t.pd = handle /\ t.transfer_result = s.transfer_result
          /\ t.once_size = n /\ t.fw_total = s.fw_total
          /\ t.data_transfer_handle = s.data_transfer_handle + s.once_size
      BY <1>1 DEF FdType
    <3>2. e.sent = <<>> /\ t.sent = Append(e.sent, q)
      BY <1>1 DEF FdType
    <3> HIDE DEF t, e
    <3> QED BY <3>1, <3>2, FirstSent
  <2>7. /\ t.fw_data = IF full THEN rest ELSE data
        /\ t.fw_len = IF full THEN s.once_size - cpy ELSE s.fw_len + cpy
    BY <1>1 DEF FdType
  <2>8. q = [cmd |-> "RequestFirmwareData",
             offset |-> t.data_transfer_handle, len |-> t.once_size]
    BY <2>4, <2>6 DEF q
  <2>9. s.data_transfer_handle + s.once_size < s.fw_total
    <3> HIDE DEF c
    <3> QED BY <1>1, <1>4, <1>6
  <2> HIDE DEF t, c
  <2>10. DataTaken(r, s, origin)
    BY <1>2, <2>2, <2>5, <2>6 DEF DataTaken, DataKept
  <2>11. Continued(r, s, origin)
    BY <1>2, <2>2, <2>3, <2>6, <2>7, <2>8, <2>9
       DEF Continued, Buffer, Level, full, rest, data, cpy
  <2> QED BY <2>10, <2>11 DEF r
<1> QED BY <1>3, <1>5, <1>6

\* Neither the prologue nor the switch has a say in it.
LEMMA DataSame ==
  ASSUME NEW s, NEW u, SameTransfer(s, u), s.event_id = u.event_id, NEW origin
  PROVE  /\ Copied(s) = Copied(u) /\ (Fills(s) <=> Fills(u)) /\ (Direct(s) <=> Direct(u))
         /\ Level(s) = Level(u) /\ Buffer(s, origin) = Buffer(u, origin)
         /\ File(s, origin) = File(u, origin)
<1>1. /\ s.max_transfer_size = u.max_transfer_size /\ s.once_size = u.once_size
      /\ s.fw_len = u.fw_len /\ s.fw_data = u.fw_data /\ s.image_file = u.image_file
  BY DEF SameTransfer, SameCounters, SameFile
<1>2. /\ Copied(s) = Copied(u) /\ (Fills(s) <=> Fills(u)) /\ (Direct(s) <=> Direct(u))
      /\ Level(s) = Level(u)
  BY <1>1 DEF Copied, Fills, Direct, Level
<1>3. Kept(s, origin) = Kept(u, origin)
  BY <1>1, <1>2 DEF Kept, Stuffed
<1>4. Block(s, origin) = Block(u, origin) /\ Restarted(s, origin) = Restarted(u, origin)
  BY <1>1, <1>2, <1>3 DEF Block, Restarted
<1> QED BY <1>1, <1>2, <1>3, <1>4 DEF Buffer, File

LEMMA DataTakenSame ==
  ASSUME NEW t, NEW r, NEW s, NEW u, NEW origin,
         SameTransfer(t, r), t.event_id = r.event_id, t.sent = r.sent,
         SameTransfer(s, u), s.event_id = u.event_id
  PROVE  /\ DataTaken(r, s, origin) => DataTaken(t, u, origin)
         /\ Failed(r, s) => Failed(t, u)
         /\ Completed(r, s) => Completed(t, u)
         /\ Continued(r, s, origin) => Continued(t, u, origin)
<1>1. /\ (Fills(s) <=> Fills(u)) /\ Level(s) = Level(u)
      /\ Buffer(s, origin) = Buffer(u, origin) /\ File(s, origin) = File(u, origin)
  BY DataSame
<1>2. DataTaken(r, s, origin) => DataTaken(t, u, origin)
  BY <1>1 DEF DataTaken, DataKept, SameTransfer, SameCounters, SameFile, SameResults
<1>3. Failed(r, s) => Failed(t, u)
  BY <1>1 DEF Failed, SameTransfer, SameFile, SameResults
<1>4. Completed(r, s) => Completed(t, u)
  BY DEF Completed, SameTransfer, SameCounters, SameFile, SameResults
<1>5. Continued(r, s, origin) => Continued(t, u, origin)
  BY <1>1 DEF Continued, SameTransfer, SameCounters, SameFile, SameResults
<1> QED BY <1>2, <1>3, <1>4, <1>5

\* A data answer in DOWNLOAD: an error moves nothing, the bytes are taken, or the
\* timer had just ended the session and the handler completes a transfer of nothing.
LEMMA RequestFirmwareDataEffect ==
  ASSUME Inv(fd), fd.cur_state = DOWNLOAD, fd.pd = "open",
         NEW ok \in BOOLEAN, NEW origin \in Origins, NEW cb_ok \in CallbackResults, NEW cb,
         Packet(pldm_fwup_requestfwdata_recv(Prologue("RequestFirmwareData"), ok, origin, cb_ok),
                cb)
  PROVE  \/ ~ok /\ (Quiet \/ Over)
         \/ /\ ok /\ DataTaken(fd', fd, origin)
            /\ \/ ~cb_ok /\ Failed(fd', fd)
               \/ Completed(fd', fd)
               \/ Continued(fd', fd, origin)
         \/ /\ ok /\ AnsweredInIdle /\ fd'.pd = "closed"
            /\ fd'.sent = <<[cmd |-> "TransferComplete", result |-> 0]>>
<1> DEFINE p == Prologue("RequestFirmwareData")
           s == pldm_fwup_requestfwdata_recv(p, ok, origin, cb_ok)
           t == pldm_fwup_state_machine_switch(s, cb)
<1>1. Inv(p) /\ p.sent = <<>>
  BY PrologueInv
<1>2. (SameTransfer(p, fd) /\ p.event_id = fd.event_id) \/ Ended(p, fd)
  BY PrologueEffect
<1>3. fd' = t /\ Packet(s, cb)
  BY HandlerRuns
<1>4. p.pd = "open"
  BY <1>2 DEF SameTransfer, Ended, SameFile
<1>5. CASE ~ok
  <2>1. s = p
    BY <1>5 DEF pldm_fwup_requestfwdata_recv
  <2> HIDE DEF p, s
  <2>2. s \in FdType /\ RowsOf(s) = {} /\ SameTransfer(s, p) /\ s.sent = <<>>
    BY <1>1, <2>1, CompletionSame
  <2>3. (SameTransfer(fd', fd) /\ fd'.sent = <<>>) \/ Over
    BY <1>3, <2>2, QuietPacket DEF Over, p
  <2> QED BY <1>5, <2>3, Numbers DEF Quiet
<1>6. CASE ok
  <2> DEFINE r == pldm_fwup_requestfwdata_recv(p, TRUE, origin, cb_ok)
  <2>1. s = r
    BY <1>6
  <2> HIDE DEF p
  <2>2. s \in FdType
    BY <1>1, RequestFwDataRecvHandled DEF Handled
  <2>3. /\ DataTaken(r, p, origin)
        /\ \/ ~cb_ok /\ Failed(r, p)
           \/ Completed(r, p)
           \/ Continued(r, p, origin)
    BY <1>1, <1>4, DataHandled, CallbackAssumption
  <2> HIDE DEF r, s
  <2>4. s.cur_state = p.cur_state /\ s.event_id = p.event_id
    BY <2>1, <2>3 DEF DataTaken, DataKept
  <2>5. RowsOf(s) = {}
    BY <1>1, <2>4 DEF RowsOf, Inv
  <2>6. SameTransfer(t, s) /\ t.event_id = s.event_id /\ t.sent = s.sent
    BY <2>2, <2>5, SwitchQuiet
  <2> HIDE DEF t
  <2>7. CASE SameTransfer(p, fd) /\ p.event_id = fd.event_id
    <3>1. /\ DataTaken(t, fd, origin)
          /\ \/ ~cb_ok /\ Failed(t, fd)
             \/ Completed(t, fd)
             \/ Continued(t, fd, origin)
      BY <2>1, <2>3, <2>6, <2>7, DataTakenSame
    <3> QED BY <1>3, <1>6, <3>1
  <2>8. CASE Ended(p, fd)
    <3>1. ~Fills(p)
      BY <2>8, RecvBufMaxAssumption DEF Fills, Copied, MinOf, Ended
    <3>2. ~Continued(r, p, origin)
      BY <2>8 DEF Continued, Ended
    <3>3. Completed(r, p)
      BY <2>3, <3>1, <3>2 DEF Failed
    <3>4. /\ t.cur_state = IDLE /\ t.max_transfer_size = fd.max_transfer_size
          /\ t.image_file = fd.image_file /\ t.pd = "closed"
      BY <2>1, <2>3, <2>6, <2>8, <3>1, <3>3
         DEF DataTaken, DataKept, File, Completed, SameTransfer, SameCounters, SameFile, Ended
    <3>5. t.sent = <<[cmd |-> "TransferComplete", result |-> 0]>>
      BY <2>1, <2>6, <3>3 DEF Completed
    <3> QED BY <1>3, <1>6, <3>4, <3>5 DEF AnsweredInIdle
  <2> QED BY <1>2, <2>7, <2>8
<1> QED BY <1>5, <1>6

(***************************************************************************)
(* The invariant of a session.  None of the properties is inductive: what  *)
(* keeps them true is how the agent's knowledge and the device's counters  *)
(* belong together while bytes are moving.                                 *)
(***************************************************************************)

AgentOK ==
  /\ due \in {NoRequest} \cup Requests
  /\ offered \in Nat /\ delivered \in 0 .. offered
  /\ nth \in 0 .. 2 /\ failed \in BOOLEAN /\ late \in BOOLEAN

\* What the ends of a component and of a session leave for the next one.
Clearing ==
  /\ fd.pd # "misused"
  /\ fd.cur_state # DOWNLOAD => fd.fw_len = 0
  /\ fd.cur_state = LEARN_COMP => nth = 0
  /\ fd.cur_state \in {LEARN_COMP, READY_XFER} /\ nth = 0 =>
       fd.once_size = fd.max_transfer_size
  /\ fd.cur_state \in DOWNLOAD .. APPLY => nth # 0

Buffered == FileIsSound => InOrder(fd.image_file)

\* Data are asked for: the file and the buffer hold what was delivered.
Collected ==
  /\ Len(fd.image_file) * RecvBufMax + fd.fw_len = fd.data_transfer_handle
  /\ fd.fw_len < RecvBufMax
  /\ fd.max_transfer_size < RecvBufMax =>
       \A i \in 0 .. fd.fw_len - 1 : fd.fw_data[i] = Len(fd.image_file) * RecvBufMax + i
  /\ fd.max_transfer_size = RecvBufMax =>
       /\ fd.fw_len = 0
       /\ \/ fd.once_size = RecvBufMax
          \/ fd.data_transfer_handle + fd.once_size >= fd.fw_total

Moving ==
  fd.cur_state = DOWNLOAD /\ due.cmd = "RequestFirmwareData" =>
    /\ fd.fw_total = offered /\ delivered = fd.data_transfer_handle /\ fd.pd = "open"
    /\ FileIsSound => Collected

\* A transfer that was a success, and stays one until the next component begins.
Whole ==
  /\ delivered = offered /\ fd.fw_len = 0
  /\ FileIsSound => fd.pd = "closed" /\ Len(fd.image_file) * RecvBufMax + RecvBufMax > offered

Done ==
  /\ fd.cur_state = DOWNLOAD /\ due.cmd = "TransferComplete" =>
       due.result = fd.transfer_result /\ (due.result = 0 => Whole)
  /\ fd.cur_state \in {VERIFY, APPLY} => Whole
  /\ fd.cur_state = READY_XFER /\ fd.event_id = APPLY_PASS => Whole

\* Without a refusal or a loss an answer is due, and it is not an error's.
Waiting ==
  ~failed =>
    /\ fd.cur_state = DOWNLOAD =>
         \/ due.cmd = "RequestFirmwareData"
         \/ due.cmd = "TransferComplete" /\ fd.transfer_result = 0
    /\ fd.cur_state = VERIFY => due.cmd = "VerifyComplete" /\ fd.verify_result = 0
    /\ fd.cur_state = APPLY => due.cmd = "ApplyComplete"

\* How the package data announced and collected lead to a component table.
Package ==
  /\ fd.cur_state = LEARN_COMP => fd.event_id \in {ENTER_UD_WITH_PKTDATA, ENTER_UD_NO_PKTDATA}
  /\ fd.cur_state = LEARN_COMP /\ fd.event_id = ENTER_UD_NO_PKTDATA => fd.pkg_total = 0
  /\ ~late =>
       /\ fd.cur_state = LEARN_COMP /\ fd.getpackagedata_progress => fd.pkg_len = fd.pkg_total
       /\ fd.cur_state = IDLE => ~fd.getpackagedata_progress
       /\ fd.cur_state >= READY_XFER => fd.pkg_len = fd.pkg_total

SessionInv ==
  /\ IInv /\ AgentOK /\ DueMatchesState
  /\ Clearing /\ Buffered /\ Moving /\ Done /\ Waiting /\ Package

\* Nothing of the transfer moves, but the timer may run out.
Still ==
  /\ fd'.cur_state = fd.cur_state
  /\ fd.cur_state \in {LEARN_COMP, READY_XFER} => fd'.event_id = fd.event_id
  /\ fd'.max_transfer_size = fd.max_transfer_size /\ fd'.once_size = fd.once_size
  /\ fd'.data_transfer_handle = fd.data_transfer_handle
  /\ fd'.pkg_len = fd.pkg_len /\ fd'.pkg_total = fd.pkg_total
  /\ fd'.getpackagedata_progress = fd.getpackagedata_progress
  /\ fd'.fw_len = fd.fw_len /\ fd'.fw_total = fd.fw_total /\ fd'.fw_data = fd.fw_data
  /\ SameFile(fd', fd) /\ SameResults(fd', fd)
  /\ fd.overtime => fd'.overtime

\* The agent's bookkeeping of a step that is not the beginning of anything.
Noted ==
  /\ failed' \in BOOLEAN /\ late' \in BOOLEAN /\ (late => late')
  /\ offered' = offered /\ delivered' = delivered /\ nth' = nth

(***************************************************************************)
(* Each kind of step is a step of the image transfer too.                  *)
(***************************************************************************)

Mapped == [Transfer!TransferNext]_(Transfer!transferVars)

LEMMA PhaseIsNone ==
  /\ fd'.cur_state \in {IDLE, LEARN_COMP} => Phase' = "none"
  /\ fd'.cur_state = READY_XFER /\ fd'.event_id # APPLY_PASS => Phase' = "none"
BY Numbers DEF Phase

\* A step after which no component is under update.
LEMMA GivesUp ==
  ASSUME AgentOK, Phase' = "none", offered' = offered,
         delivered' \in delivered .. offered \/ delivered' = delivered
  PROVE  Mapped
<1>1. delivered' \in delivered .. offered
  BY DEF AgentOK
<1> QED BY <1>1 DEF Mapped, Transfer!TransferNext, Transfer!GiveUp

LEMMA StillKeeps ==
  ASSUME SessionInv, IInv', Still, Noted, failed => failed',
         due' \in {due, NoRequest},
         ~failed' /\ fd.cur_state \in DOWNLOAD .. APPLY => due' = due
  PROVE  SessionInv' /\ Mapped
<1>1. AgentOK'
  BY DEF SessionInv, AgentOK, Noted
<1>2. DueMatchesState'
  BY DEF SessionInv, DueMatchesState, Still, SameFile, SameResults, Noted, NoRequest
<1>3. Clearing'
  BY DEF SessionInv, Clearing, Still, SameFile, SameResults, Noted
<1>4. Buffered' /\ (FileIsSound' <=> FileIsSound)
  BY DEF SessionInv, Buffered, FileIsSound, InOrder, Still, SameFile, Noted
<1>5. Moving'
  BY <1>4 DEF SessionInv, Moving, Collected, Still, SameFile, Noted, NoRequest
<1>6. Whole => Whole'
  BY <1>4 DEF Whole, Still, SameFile, Noted
<1>7. Done'
  BY <1>6, Numbers DEF SessionInv, Done, Still, SameResults, NoRequest
<1>8. Waiting'
  BY Numbers DEF SessionInv, Waiting, Still, SameResults, Noted
<1>9. Package'
  BY Numbers DEF SessionInv, Package, Still, Noted
<1>10. Mapped
  <2>1. Phase' = Phase
    BY Numbers DEF Still, Phase
  <2> QED BY <2>1 DEF Mapped, Transfer!transferVars, Noted
<1> QED BY <1>1, <1>2, <1>3, <1>4, <1>5, <1>7, <1>8, <1>9, <1>10 DEF SessionInv

\* The session ends; a request for package data stays due when it was a refused
\* CancelUpdateComponent at which the timer ended it.
LEMMA OverKeeps ==
  ASSUME SessionInv, IInv', Ended(fd', fd), Noted,
         \/ due' = NoRequest
         \/ due' = due /\ fd.overtime /\ fd.cur_state \notin DOWNLOAD .. APPLY
  PROVE  SessionInv' /\ Mapped
<1>1. AgentOK'
  BY DEF SessionInv, AgentOK, Noted
<1>2. DueMatchesState'
  BY Numbers DEF SessionInv, DueMatchesState, Ended, Noted, NoRequest
<1>3. Clearing'
  BY Numbers DEF SessionInv, Clearing, Ended, SameFile, Noted
<1>4. Buffered'
  BY DEF SessionInv, Buffered, FileIsSound, InOrder, Ended, SameFile, Noted
<1>5. Moving' /\ Done' /\ Waiting'
  BY Numbers DEF Moving, Done, Waiting, Ended
<1>6. Package'
  BY Numbers DEF Package, Ended
<1>7. Mapped
  <2>1. Phase' = "none"
    BY PhaseIsNone DEF Ended
  <2> QED BY <2>1, GivesUp DEF SessionInv, Noted
<1> QED BY <1>1, <1>2, <1>3, <1>4, <1>5, <1>6, <1>7 DEF SessionInv

\* An answer that comes in after the timer has ended the session.
LEMMA LateKeeps ==
  ASSUME SessionInv, IInv', AnsweredInIdle, fd'.pd # "misused",
         offered' = offered, delivered' \in delivered .. offered, nth' = nth,
         failed' \in BOOLEAN, late' = TRUE,
         due' \in {NoRequest, [cmd |-> "TransferComplete", result |-> 0]}
  PROVE  SessionInv' /\ Mapped
<1>1. AgentOK'
  <2>1. delivered' \in 0 .. offered
    BY DEF SessionInv, AgentOK
  <2> QED BY <2>1, RequestTypes DEF SessionInv, AgentOK
<1>2. DueMatchesState'
  BY Numbers DEF DueMatchesState, AnsweredInIdle, NoRequest
<1>3. Clearing'
  BY Numbers DEF SessionInv, Clearing, AnsweredInIdle, IInv, Inv, Clean
<1>4. Buffered'
  BY DEF SessionInv, Buffered, FileIsSound, InOrder, AnsweredInIdle
<1>5. Moving' /\ Done' /\ Waiting'
  BY Numbers DEF Moving, Done, Waiting, AnsweredInIdle
<1>6. Package'
  BY Numbers DEF Package, AnsweredInIdle
<1>7. Mapped
  <2>1. Phase' = "none"
    BY PhaseIsNone DEF AnsweredInIdle
  <2> QED BY <2>1, GivesUp DEF SessionInv
<1> QED BY <1>1, <1>2, <1>3, <1>4, <1>5, <1>6, <1>7 DEF SessionInv

LEMMA ComponentOverKeeps ==
  ASSUME SessionInv, IInv', ComponentOver, fd.cur_state \in DOWNLOAD .. APPLY,
         Noted, late' = late, due' = NoRequest
  PROVE  SessionInv' /\ Mapped
<1>1. AgentOK'
  BY DEF SessionInv, AgentOK, Noted
<1>2. DueMatchesState'
  BY DEF DueMatchesState, NoRequest
<1>3. Clearing'
  BY Numbers DEF SessionInv, Clearing, ComponentOver, SameFile, Noted
<1>4. Buffered'
  BY DEF SessionInv, Buffered, FileIsSound, InOrder, ComponentOver, SameFile, Noted
<1>5. Moving' /\ Done' /\ Waiting'
  BY Numbers DEF Moving, Done, Waiting, ComponentOver
<1>6. Package'
  BY Numbers DEF Package, ComponentOver
<1>7. Mapped
  <2>1. Phase' = "none"
    BY PhaseIsNone, Numbers DEF ComponentOver
  <2> QED BY <2>1, GivesUp DEF SessionInv, Noted
<1> QED BY <1>1, <1>2, <1>3, <1>4, <1>5, <1>6, <1>7 DEF SessionInv

LEMMA EnteredKeeps ==
  ASSUME SessionInv, IInv', Entered, due = NoRequest, due' = Due(NoRequest),
         nth' = 0, failed' = FALSE, UNCHANGED <<offered, delivered, late>>
  PROVE  SessionInv' /\ Mapped
<1>1. \/ fd'.event_id = ENTER_UD_NO_PKTDATA /\ fd'.pkg_total = 0 /\ due' = NoRequest
      \/ /\ fd'.event_id = ENTER_UD_WITH_PKTDATA
         /\ due' = [cmd |-> "GetPackageData", handle |-> fd'.data_transfer_handle]
  BY DEF Entered, Due
<1>2. fd'.data_transfer_handle \in Nat
  BY DEF IInv, Inv, FdType
<1>3. AgentOK'
  <2>1. due' \in {NoRequest} \cup Requests
    BY <1>1, <1>2, RequestTypes
  <2>2. failed' \in BOOLEAN
    OBVIOUS
  <2> QED BY <2>1, <2>2 DEF SessionInv, AgentOK
<1>4. DueMatchesState'
  BY <1>1, Numbers DEF DueMatchesState, Entered, NoRequest
<1>5. Clearing'
  BY Numbers DEF SessionInv, Clearing, Entered, SameFile
<1>6. Buffered'
  BY DEF Buffered, FileIsSound
<1>7. Moving' /\ Done' /\ Waiting'
  BY Numbers DEF Moving, Done, Waiting, Entered
<1>8. Package'
  BY <1>1, Numbers DEF SessionInv, Package, Entered
<1>9. Mapped
  <2>1. Phase' = "none"
    BY PhaseIsNone DEF Entered
  <2> QED BY <2>1, GivesUp DEF SessionInv
<1> QED BY <1>3, <1>4, <1>5, <1>6, <1>7, <1>8, <1>9 DEF SessionInv

LEMMA AdmittedKeeps ==
  ASSUME SessionInv, IInv', Admitted, due = NoRequest, due' = Due(NoRequest),
         UNCHANGED <<offered, delivered, nth, failed, late>>
  PROVE  SessionInv' /\ Mapped
<1>1. due' = NoRequest
  BY DEF Admitted, Due
<1>2. AgentOK'
  BY <1>1 DEF SessionInv, AgentOK
<1>3. DueMatchesState'
  BY <1>1 DEF DueMatchesState, NoRequest
<1>4. Clearing'
  BY Numbers DEF SessionInv, Clearing, Admitted, SameFile, SameCounters
<1>5. Buffered'
  BY DEF SessionInv, Buffered, FileIsSound, InOrder, Admitted, SameFile, SameCounters
<1>6. Moving' /\ Done' /\ Waiting'
  BY Numbers DEF Moving, Done, Waiting, Admitted
<1>7. Package'
  <2>1. fd.pkg_len \in Nat /\ fd.pkg_len <= fd.pkg_total
    BY DEF SessionInv, IInv, Inv, FdType, Bounded
  <2> QED BY <2>1, Numbers DEF SessionInv, Package, Admitted, SameCounters
<1>8. Mapped
  <2>1. Phase' = "none"
    BY PhaseIsNone, Numbers DEF Admitted
  <2> QED BY <2>1, GivesUp DEF SessionInv
<1> QED BY <1>2, <1>3, <1>4, <1>5, <1>6, <1>7, <1>8 DEF SessionInv

LEMMA StartedKeeps ==
  ASSUME SessionInv, IInv', Started, due = NoRequest, due' = Due(NoRequest),
         offered' = fd'.fw_total, delivered' = 0, nth' = MinOf(nth + 1, 2), failed' = FALSE,
         late' = late
  PROVE  SessionInv' /\ Mapped
<1>1. due' = [cmd |-> "RequestFirmwareData", offset |-> 0, len |-> fd.once_size]
  BY DEF Started, Due
<1>2. nth' \in 1 .. 2 /\ (nth' = 1 => nth = 0)
  BY DEF SessionInv, AgentOK, MinOf
<1>3. AgentOK'
  <2>1. fd.once_size \in Nat /\ fd'.fw_total \in Nat
    BY DEF SessionInv, IInv, Inv, FdType
  <2>2. due' \in Requests
    BY <1>1, <2>1, RequestTypes
  <2>3. failed' \in BOOLEAN
    OBVIOUS
  <2> QED BY <1>2, <2>1, <2>2, <2>3 DEF SessionInv, AgentOK
<1>4. DueMatchesState'
  BY <1>1, Numbers DEF DueMatchesState, Started
<1>5. Clearing'
  BY <1>2, Numbers DEF Clearing, Started
<1>6. Buffered'
  BY DEF Buffered, InOrder, Started
<1>7. Moving'
  <2>1. fd'.fw_len = 0 /\ fd.fw_len = 0
    BY Numbers DEF SessionInv, Clearing, Started
  <2>2. Len(fd'.image_file) * RecvBufMax + fd'.fw_len = fd'.data_transfer_handle
    BY <2>1, RecvBufMaxAssumption DEF Started
  <2>3. FileIsSound' /\ fd'.max_transfer_size = RecvBufMax => fd'.once_size = RecvBufMax
    BY <1>2, Numbers, RecvBufMaxAssumption
       DEF SessionInv, Clearing, FileIsSound, Started
  <2>4. FileIsSound' => Collected'
    BY <2>1, <2>2, <2>3, RecvBufMaxAssumption DEF Collected
  <2> QED BY <2>4 DEF Moving, Started
<1>8. Done' /\ Waiting'
  BY <1>1, Numbers DEF Done, Waiting, Started
<1>9. Package'
  BY Numbers DEF SessionInv, Package, Started
<1>10. Mapped
  <2>1. Phase \in {"none", "applied"} /\ Phase' = "moving"
    BY Numbers DEF Started, Phase
  <2>2. offered' \in ImgSizes
    BY DEF Started
  <2> QED BY <2>1, <2>2 DEF Mapped, Transfer!TransferNext, Transfer!Begin
<1> QED BY <1>3, <1>4, <1>5, <1>6, <1>7, <1>8, <1>9, <1>10 DEF SessionInv

LEMMA PackageAnsweredKeeps ==
  ASSUME SessionInv, IInv', NEW ok \in BOOLEAN, PackageAnswered(ok),
         due.cmd = "GetPackageData", due' = Due(NoRequest), Noted,
         late' = (late \/ fd'.cur_state = IDLE)
  PROVE  SessionInv' /\ Mapped
<1>1. fd.cur_state \in {LEARN_COMP, IDLE} /\ fd'.cur_state = fd.cur_state
  BY DEF SessionInv, DueMatchesState, PackageAnswered
<1>2. \/ due' = NoRequest
      \/ /\ due' = [cmd |-> "GetPackageData", handle |-> fd'.data_transfer_handle]
         /\ fd'.cur_state # IDLE
  BY DEF PackageAnswered, Counted, Due
<1>3. AgentOK'
  <2>1. fd'.data_transfer_handle \in Nat
    BY DEF IInv, Inv, FdType
  <2>2. due' \in {NoRequest} \cup Requests
    BY <1>2, <2>1, RequestTypes
  <2> QED BY <2>2 DEF SessionInv, AgentOK, Noted
<1>4. DueMatchesState'
  BY <1>1, <1>2 DEF DueMatchesState, NoRequest
<1>5. Clearing'
  BY <1>1, Numbers DEF SessionInv, Clearing, PackageAnswered, SameFile, Noted
<1>6. Buffered'
  BY DEF SessionInv, Buffered, FileIsSound, InOrder, PackageAnswered, SameFile, Noted
<1>7. Moving' /\ Done' /\ Waiting'
  BY <1>1, Numbers DEF Moving, Done, Waiting
<1>8. Package'
  BY <1>1, Numbers DEF SessionInv, Package, PackageAnswered, Counted, Noted
<1>9. Mapped
  <2>1. Phase' = "none"
    BY <1>1, PhaseIsNone
  <2> QED BY <2>1, GivesUp DEF SessionInv, Noted
<1> QED BY <1>3, <1>4, <1>5, <1>6, <1>7, <1>8, <1>9 DEF SessionInv

(***************************************************************************)
(* A data answer keeps the file and the buffer in order.                   *)
(***************************************************************************)

\* What the buffer holds lies behind the blocks of the file.
LEMMA BlockFollows ==
  ASSUME Inv(fd), Collected, NEW origin, origin = fd.data_transfer_handle
  PROVE  /\ Fills(fd) => \A i \in 0 .. RecvBufMax - 1 :
              Block(fd, origin)[i] = Len(fd.image_file) * RecvBufMax + i
         /\ ~Direct(fd) /\ ~Fills(fd) => \A i \in 0 .. Level(fd) - 1 :
              Buffer(fd, origin)[i] = Len(fd.image_file) * RecvBufMax + i
         /\ ~Direct(fd) /\ Fills(fd) => \A i \in 0 .. Level(fd) - 1 :
              Buffer(fd, origin)[i] = Len(fd.image_file) * RecvBufMax + RecvBufMax + i
<1> DEFINE base == Len(fd.image_file) * RecvBufMax
           m == fd.fw_len
           n == fd.once_size
           cpy == Copied(fd)
<1>1. /\ base \in Nat /\ m \in Nat /\ n \in Nat /\ RecvBufMax \in Nat \ {0}
      /\ m < RecvBufMax /\ n <= fd.max_transfer_size /\ fd.max_transfer_size <= RecvBufMax
      /\ fd.max_transfer_size \in Nat
  <2>1. Len(fd.image_file) \in Nat
    BY DEF Inv, FdType
  <2> QED BY <2>1, RecvBufMaxAssumption DEF Inv, FdType, Bounded, Collected
<1>2. origin = base + m
  BY DEF Collected
<1>3. cpy \in Nat /\ cpy <= n /\ m + cpy <= RecvBufMax /\ (cpy = n \/ m + cpy = RecvBufMax)
  BY <1>1 DEF Copied, MinOf
<1>4. Fills(fd) <=> m + cpy = RecvBufMax
  BY DEF Fills
<1>5. ~Direct(fd) => fd.max_transfer_size < RecvBufMax
  BY <1>1 DEF Direct
<1>6. ~Direct(fd) => \A i \in 0 .. m - 1 : fd.fw_data[i] = base + i
  BY <1>5 DEF Collected
<1>7. Direct(fd) => m = 0
  BY DEF Collected, Direct
<1>8. \A i \in 0 .. RecvBufMax - 1 :
        ~Direct(fd) => Kept(fd, origin)[i] =
                         IF m <= i /\ i < m + cpy THEN origin + (i - m) ELSE fd.fw_data[i]
  BY DEF Kept, Stuffed
<1> HIDE DEF base, cpy, m, n
<1>9. ~Direct(fd) => \A i \in 0 .. m + cpy - 1 : Kept(fd, origin)[i] = base + i
  <2> SUFFICES ASSUME ~Direct(fd), NEW i \in 0 .. m + cpy - 1
               PROVE  Kept(fd, origin)[i] = base + i
    OBVIOUS
  <2>1. i \in 0 .. RecvBufMax - 1
    BY <1>1, <1>3
  <2>2. CASE m <= i
    BY <1>1, <1>2, <1>3, <1>8, <2>1, <2>2
  <2>3. CASE i < m
    BY <1>1, <1>3, <1>6, <1>8, <2>1, <2>3
  <2> QED BY <1>1, <1>3, <2>2, <2>3
<1>10. Fills(fd) => \A i \in 0 .. RecvBufMax - 1 : Block(fd, origin)[i] = base + i
  <2>1. CASE Direct(fd)
    BY <1>1, <1>2, <1>7, <2>1 DEF Block
  <2>2. CASE ~Direct(fd)
    <3>1. Block(fd, origin) = Kept(fd, origin)
      BY <2>2 DEF Block
    <3>2. \A i \in 0 .. m + cpy - 1 : Kept(fd, origin)[i] = base + i
      BY <1>9, <2>2
    <3>3. Fills(fd) => m + cpy = RecvBufMax
      BY <1>4
    <3> QED BY <1>1, <1>3, <3>1, <3>2, <3>3
  <2> QED BY <2>1, <2>2
<1>11. ~Direct(fd) /\ ~Fills(fd) => \A i \in 0 .. Level(fd) - 1 : Buffer(fd, origin)[i] = base + i
  <2>1. ~Fills(fd) => Level(fd) = m + cpy
    BY DEF Level, m, cpy
  <2>2. ~Fills(fd) => Buffer(fd, origin) = Kept(fd, origin)
    BY DEF Buffer
  <2> SUFFICES ASSUME ~Direct(fd), ~Fills(fd)
               PROVE  \A i \in 0 .. Level(fd) - 1 : Buffer(fd, origin)[i] = base + i
    OBVIOUS
  <2>3. \A i \in 0 .. m + cpy - 1 : Kept(fd, origin)[i] = base + i
    BY <1>9
  <2> QED BY <1>1, <1>3, <2>1, <2>2, <2>3
<1>12. ~Direct(fd) /\ Fills(fd) =>
         \A i \in 0 .. Level(fd) - 1 : Buffer(fd, origin)[i] = base + RecvBufMax + i
  <2> SUFFICES ASSUME ~Direct(fd), Fills(fd), NEW i \in 0 .. Level(fd) - 1
               PROVE  Buffer(fd, origin)[i] = base + RecvBufMax + i
    OBVIOUS
  <2>1. Level(fd) = n - cpy
    BY DEF Level, n, cpy
  <2>2. i \in 0 .. RecvBufMax - 1 /\ i < n - cpy
    BY <1>1, <1>3, <2>1
  <2>3. Restarted(fd, origin)[i] = origin + cpy + i
    BY <2>2 DEF Restarted, n, cpy
  <2>4. Buffer(fd, origin) = Restarted(fd, origin)
    BY DEF Buffer
  <2> QED BY <1>1, <1>2, <1>3, <1>4, <2>2, <2>3, <2>4
<1> QED BY <1>10, <1>11, <1>12 DEF base

\* The next block is the next one of the image.
LEMMA AppendInOrder ==
  ASSUME NEW f, f \in Seq(Blocks), InOrder(f), NEW block,
         \A i \in 0 .. RecvBufMax - 1 : block[i] = Len(f) * RecvBufMax + i
  PROVE  InOrder(Append(f, block))
<1> DEFINE g == Append(f, block)
<1>1. Len(f) \in Nat /\ Len(g) = Len(f) + 1 /\ g[Len(f) + 1] = block
      /\ \A b \in 1 .. Len(f) : g[b] = f[b]
  OBVIOUS
<1> SUFFICES ASSUME NEW b \in 1 .. Len(g), NEW i \in 0 .. RecvBufMax - 1
             PROVE  g[b][i] = (b - 1) * RecvBufMax + i
  BY DEF InOrder
<1> HIDE DEF g
<1>2. CASE b \in 1 .. Len(f)
  BY <1>1, <1>2 DEF InOrder
<1>3. CASE b = Len(f) + 1
  <2>1. b - 1 = Len(f)
    BY <1>1, <1>3
  <2> QED BY <1>1, <1>3, <2>1
<1> QED BY <1>1, <1>2, <1>3

\* So the file stays in order, and the counters say how much of the image it and
\* the buffer hold.
LEMMA FileFollows ==
  ASSUME Inv(fd), Collected, InOrder(fd.image_file),
         NEW origin, origin = fd.data_transfer_handle
  PROVE  /\ InOrder(File(fd, origin))
         /\ Len(File(fd, origin)) * RecvBufMax + Level(fd)
              = fd.data_transfer_handle + fd.once_size
         /\ Level(fd) \in 0 .. RecvBufMax - 1
         /\ ~Direct(fd) => \A i \in 0 .. Level(fd) - 1 :
              Buffer(fd, origin)[i] = Len(File(fd, origin)) * RecvBufMax + i
<1> DEFINE k == Len(fd.image_file)
<1>1. /\ k \in Nat /\ fd.fw_len \in Nat /\ fd.once_size \in Nat /\ fd.fw_len < RecvBufMax
      /\ fd.image_file \in Seq(Blocks) /\ fd.once_size <= RecvBufMax
      /\ k * RecvBufMax + fd.fw_len = fd.data_transfer_handle
      /\ RecvBufMax \in Nat \ {0}
  BY RecvBufMaxAssumption DEF Inv, FdType, Collected, Bounded
<1>2. Copied(fd) \in Nat /\ Copied(fd) <= fd.once_size
      /\ fd.fw_len + Copied(fd) <= RecvBufMax
      /\ (Copied(fd) = fd.once_size \/ Fills(fd))
  BY <1>1 DEF Copied, Fills, MinOf
<1>3. CASE Fills(fd)
  <2>1. File(fd, origin) = Append(fd.image_file, Block(fd, origin))
    BY <1>3 DEF File
  <2>2. InOrder(File(fd, origin))
    <3>1. \A i \in 0 .. RecvBufMax - 1 : Block(fd, origin)[i] = k * RecvBufMax + i
      BY <1>3, BlockFollows
    <3> QED BY <1>1, <2>1, <3>1, AppendInOrder
  <2>3. Len(File(fd, origin)) * RecvBufMax = k * RecvBufMax + RecvBufMax
    <3>1. Len(File(fd, origin)) = k + 1
      BY <1>1, <2>1
    <3>2. (k + 1) * RecvBufMax = k * RecvBufMax + RecvBufMax
      BY <1>1
    <3> QED BY <3>1, <3>2
  <2>4. Level(fd) = fd.once_size - Copied(fd)
    BY <1>3 DEF Level
  <2>5. fd.fw_len + Copied(fd) = RecvBufMax
    BY <1>3 DEF Fills
  <2>6. k * RecvBufMax \in Nat
    BY <1>1
  <2>7. ~Direct(fd) => \A i \in 0 .. Level(fd) - 1 :
          Buffer(fd, origin)[i] = k * RecvBufMax + RecvBufMax + i
    BY <1>3, BlockFollows
  <2> DEFINE base == k * RecvBufMax
             base2 == Len(File(fd, origin)) * RecvBufMax
  <2>8. base \in Nat /\ base2 = base + RecvBufMax /\ base + fd.fw_len = fd.data_transfer_handle
    BY <1>1, <2>3, <2>6
  <2> HIDE DEF k, base, base2
  <2>9. base2 + Level(fd) = fd.data_transfer_handle + fd.once_size
    BY <1>1, <1>2, <2>4, <2>5, <2>8
  <2>10. Level(fd) \in 0 .. RecvBufMax - 1
    BY <1>1, <1>2, <2>4, <2>5
  <2>11. ~Direct(fd) => \A i \in 0 .. Level(fd) - 1 : Buffer(fd, origin)[i] = base2 + i
    BY <2>7, <2>8 DEF base
  <2> QED BY <2>2, <2>9, <2>10, <2>11 DEF base2
<1>4. CASE ~Fills(fd)
  <2>1. File(fd, origin) = fd.image_file
    BY <1>4 DEF File
  <2>2. Level(fd) = fd.fw_len + Copied(fd) /\ fd.fw_len + Copied(fd) # RecvBufMax
    BY <1>4 DEF Level, Fills
  <2>3. ~Direct(fd) => \A i \in 0 .. Level(fd) - 1 : Buffer(fd, origin)[i] = k * RecvBufMax + i
    BY <1>4, BlockFollows
  <2> QED BY <1>1, <1>2, <1>4, <2>1, <2>2, <2>3
<1> QED BY <1>3, <1>4

LEMMA DataKeeps ==
  ASSUME SessionInv, IInv', fd.cur_state = DOWNLOAD, due.cmd = "RequestFirmwareData",
         NEW origin, origin = due.offset, DataTaken(fd', fd, origin),
         NEW cb_ok \in BOOLEAN,
         \/ ~cb_ok /\ Failed(fd', fd)
         \/ Completed(fd', fd)
         \/ Continued(fd', fd, origin),
         due' = Due(NoRequest), offered' = offered, nth' = nth, late' = late,
         delivered' = (IF origin = delivered THEN MinOf(offered, delivered + due.len)
                       ELSE delivered),
         failed' = (failed \/ ~cb_ok)
  PROVE  SessionInv' /\ Mapped
<1>1. /\ fd.once_size \in Nat /\ fd.data_transfer_handle \in Nat /\ fd.fw_total \in Nat
      /\ fd.max_transfer_size \in Nat /\ fd.max_transfer_size <= RecvBufMax
      /\ offered \in Nat /\ delivered \in 0 .. offered /\ RecvBufMax \in Nat \ {0} /\ Inv(fd)
  BY RecvBufMaxAssumption DEF SessionInv, IInv, Inv, FdType, Bounded, AgentOK
<1>2. /\ origin = fd.data_transfer_handle /\ due.len = fd.once_size
      /\ fd.fw_total = offered /\ delivered = origin /\ fd.pd = "open"
      /\ FileIsSound => Collected /\ InOrder(fd.image_file)
  BY DEF SessionInv, DueMatchesState, Moving, Buffered
<1>3. delivered' = MinOf(offered, fd.data_transfer_handle + fd.once_size)
  BY <1>2
<1>4. /\ delivered' \in 0 .. offered
      /\ fd.data_transfer_handle + fd.once_size >= fd.fw_total => delivered' = offered
      /\ fd.data_transfer_handle + fd.once_size < fd.fw_total =>
           delivered' = fd.data_transfer_handle + fd.once_size
  BY <1>1, <1>2, <1>3 DEF MinOf
<1>5. /\ fd'.cur_state = DOWNLOAD /\ fd'.event_id = fd.event_id
      /\ fd'.max_transfer_size = fd.max_transfer_size
      /\ fd'.pkg_len = fd.pkg_len /\ fd'.pkg_total = fd.pkg_total
      /\ fd'.image_file = File(fd, origin)
  BY DEF DataTaken, DataKept
<1>6. FileIsSound' <=> FileIsSound
  BY <1>5 DEF FileIsSound
<1>7. FileIsSound =>
        /\ InOrder(fd'.image_file)
        /\ Len(fd'.image_file) * RecvBufMax + Level(fd) = fd.data_transfer_handle + fd.once_size
        /\ Level(fd) \in 0 .. RecvBufMax - 1
        /\ ~Direct(fd) => \A i \in 0 .. Level(fd) - 1 :
             Buffer(fd, origin)[i] = Len(fd'.image_file) * RecvBufMax + i
  BY <1>1, <1>2, <1>5, FileFollows
<1>8. Buffered'
  BY <1>6, <1>7 DEF Buffered, InOrder
<1>9. Package'
  BY <1>5, Numbers DEF SessionInv, Package
<1>10. failed' \in BOOLEAN
  BY DEF SessionInv, AgentOK
<1>11. Mapped
  <2>1. Phase = "moving" /\ Phase' = "moving"
    BY <1>5, Numbers DEF Phase
  <2>2. delivered' \in delivered .. offered
    BY <1>1, <1>2, <1>3 DEF MinOf
  <2> QED BY <2>1, <2>2 DEF Mapped, Transfer!TransferNext, Transfer!Receive
<1>12. CASE ~cb_ok /\ Failed(fd', fd)
  <2>1. due' = [cmd |-> "TransferComplete", result |-> 13] /\ fd'.transfer_result = 13
        /\ fd'.pd = "open"
    BY <1>12 DEF Failed, Due
  <2>2. failed'
    BY <1>12
  <2>3. AgentOK'
    <3>1. due' \in Requests
      BY <2>1, RequestTypes
    <3> QED BY <1>4, <1>10, <3>1 DEF SessionInv, AgentOK
  <2>4. DueMatchesState'
    BY <1>5, <2>1 DEF DueMatchesState
  <2>5. Clearing'
    BY <1>5, <2>1, Numbers DEF SessionInv, Clearing
  <2>6. Moving' /\ Done' /\ Waiting'
    BY <1>5, <2>1, <2>2, Numbers DEF Moving, Done, Waiting
  <2> QED BY <1>8, <1>9, <1>11, <2>3, <2>4, <2>5, <2>6 DEF SessionInv
<1>13. CASE Completed(fd', fd)
  <2>1. /\ due' = [cmd |-> "TransferComplete", result |-> 0] /\ fd'.transfer_result = 0
        /\ fd'.pd = "closed" /\ fd'.fw_len = 0
    BY <1>13 DEF Completed, Due
  <2>2. AgentOK'
    <3>1. due' \in Requests
      BY <2>1, RequestTypes
    <3> QED BY <1>4, <1>10, <3>1 DEF SessionInv, AgentOK
  <2>3. DueMatchesState'
    BY <1>5, <2>1 DEF DueMatchesState
  <2>4. Clearing'
    BY <1>5, <2>1, Numbers DEF SessionInv, Clearing
  <2>5. Whole'
    <3>1. delivered' = offered'
      BY <1>4, <1>13 DEF Completed
    <3>2. FileIsSound => Len(fd'.image_file) * RecvBufMax + RecvBufMax > offered
      <4> DEFINE base == Len(fd'.image_file) * RecvBufMax
      <4>1. fd.data_transfer_handle + fd.once_size >= offered
        BY <1>2, <1>13 DEF Completed
      <4>2. Len(fd'.image_file) \in Nat
        BY DEF IInv, Inv, FdType
      <4>3. base \in Nat
        BY <1>1, <4>2
      <4>4. FileIsSound => base + Level(fd) = fd.data_transfer_handle + fd.once_size
                           /\ Level(fd) \in 0 .. RecvBufMax - 1
        BY <1>7
      <4> HIDE DEF base
      <4>5. FileIsSound => base + RecvBufMax > offered
        BY <1>1, <4>1, <4>3, <4>4
      <4> QED BY <4>5 DEF base
    <3> QED BY <1>6, <2>1, <3>1, <3>2 DEF Whole
  <2>6. Moving' /\ Done' /\ Waiting'
    BY <1>5, <2>1, <2>5, Numbers DEF Moving, Done, Waiting
  <2> QED BY <1>8, <1>9, <1>11, <2>2, <2>3, <2>4, <2>6 DEF SessionInv
<1>14. CASE Continued(fd', fd, origin)
  <2>1. /\ fd'.data_transfer_handle = fd.data_transfer_handle + fd.once_size
        /\ fd'.fw_total = fd.fw_total
        /\ fd.data_transfer_handle + fd.once_size < fd.fw_total
        /\ fd'.once_size = MinOf(fd'.fw_total - fd'.data_transfer_handle, fd.max_transfer_size)
        /\ fd'.fw_data = Buffer(fd, origin) /\ fd'.fw_len = Level(fd) /\ fd'.pd = "open"
        /\ due' = [cmd |-> "RequestFirmwareData",
                   offset |-> fd'.data_transfer_handle, len |-> fd'.once_size]
    BY <1>14 DEF Continued, Due
  <2>2. AgentOK'
    <3>1. fd'.data_transfer_handle \in Nat /\ fd'.once_size \in Nat
      BY DEF IInv, Inv, FdType
    <3>2. due' \in Requests
      BY <2>1, <3>1, RequestTypes
    <3> QED BY <1>4, <1>10, <3>2 DEF SessionInv, AgentOK
  <2>3. DueMatchesState'
    BY <1>5, <2>1 DEF DueMatchesState
  <2>4. Clearing'
    BY <1>5, <2>1, Numbers DEF SessionInv, Clearing
  <2>5. FileIsSound => Collected'
    <3> SUFFICES ASSUME FileIsSound PROVE Collected'
      OBVIOUS
    <3>1. /\ Len(fd'.image_file) * RecvBufMax + fd'.fw_len = fd'.data_transfer_handle
          /\ fd'.fw_len < RecvBufMax
      BY <1>1, <1>7, <2>1
    <3>2. fd'.max_transfer_size < RecvBufMax =>
            \A i \in 0 .. fd'.fw_len - 1 :
              fd'.fw_data[i] = Len(fd'.image_file) * RecvBufMax + i
      <4> SUFFICES ASSUME fd.max_transfer_size < RecvBufMax
                   PROVE  \A i \in 0 .. fd'.fw_len - 1 :
                            fd'.fw_data[i] = Len(fd'.image_file) * RecvBufMax + i
        BY <1>5
      <4>1. ~Direct(fd)
        BY <1>1 DEF Direct
      <4> QED BY <1>7, <2>1, <4>1
    <3>3. fd'.max_transfer_size = RecvBufMax =>
            /\ fd'.fw_len = 0
            /\ \/ fd'.once_size = RecvBufMax
               \/ fd'.data_transfer_handle + fd'.once_size >= fd'.fw_total
      <4> SUFFICES ASSUME fd.max_transfer_size = RecvBufMax
                   PROVE  /\ fd'.fw_len = 0
                          /\ \/ fd'.once_size = RecvBufMax
                             \/ fd'.data_transfer_handle + fd'.once_size >= fd'.fw_total
        BY <1>5
      <4>1. fd.fw_len = 0 /\ fd.once_size = RecvBufMax
        BY <1>1, <1>2, <2>1 DEF Collected
      <4>2. Level(fd) = 0
        BY <1>1, <4>1 DEF Level, Fills, Copied, MinOf
      <4>3. \/ fd'.once_size = RecvBufMax
            \/ fd'.data_transfer_handle + fd'.once_size >= fd'.fw_total
        BY <1>1, <2>1 DEF MinOf
      <4> QED BY <2>1, <4>2, <4>3
    <3> QED BY <3>1, <3>2, <3>3 DEF Collected
  <2>6. Moving'
    BY <1>2, <1>4, <1>6, <2>1, <2>5 DEF Moving
  <2>7. Done' /\ Waiting'
    BY <1>5, <2>1, Numbers DEF Done, Waiting
  <2> QED BY <1>8, <1>9, <1>11, <2>2, <2>3, <2>4, <2>6, <2>7 DEF SessionInv
<1> QED BY <1>12, <1>13, <1>14

(***************************************************************************)
(* ... and so do the answers that lead on.                                 *)
(***************************************************************************)

LEMMA WholeStays ==
  ASSUME NEW next, Advanced(next), Whole, UNCHANGED <<offered, delivered, nth>>
  PROVE  Whole'
BY DEF Advanced, Whole, FileIsSound, SameCounters, SameFile

LEMMA AdvancedKeeps ==
  ASSUME SessionInv, IInv', NEW next \in {READY_XFER, VERIFY, APPLY}, Advanced(next),
         Whole, UNCHANGED <<offered, delivered, nth>>,
         failed' \in BOOLEAN, late' = late,
         due' \in {NoRequest} \cup Requests,
         next = VERIFY => /\ fd.cur_state = DOWNLOAD /\ due'.cmd = "VerifyComplete"
                          /\ ~failed' => fd'.verify_result = 0,
         next = APPLY => fd.cur_state = VERIFY /\ due'.cmd = "ApplyComplete",
         next = READY_XFER => /\ fd.cur_state = APPLY /\ due' = NoRequest
                              /\ fd'.event_id = APPLY_PASS
  PROVE  SessionInv' /\ Mapped
<1>1. fd'.cur_state = next
  BY DEF Advanced
<1>2. AgentOK'
  BY DEF SessionInv, AgentOK
<1>3. DueMatchesState'
  BY <1>1, Numbers DEF DueMatchesState, NoRequest
<1>4. Whole'
  BY WholeStays
<1>5. Clearing'
  BY <1>1, <1>4, Numbers DEF SessionInv, Clearing, Advanced, SameCounters, SameFile, Whole
<1>6. Buffered'
  BY DEF SessionInv, Buffered, FileIsSound, InOrder, Advanced, SameFile, SameCounters
<1>7. Moving' /\ Waiting'
  BY <1>1, Numbers DEF Moving, Waiting
<1>8. Done'
  BY <1>1, <1>4, Numbers DEF Done
<1>9. Package'
  BY <1>1, Numbers DEF SessionInv, Package, Advanced, SameCounters
<1>10. Mapped
  <2>1. CASE next = VERIFY
    <3>1. Phase = "moving" /\ Phase' = "verifying"
      BY <1>1, <2>1, Numbers DEF Phase
    <3> QED BY <3>1 DEF Whole, Mapped, Transfer!TransferNext, Transfer!Verify
  <2>2. CASE next = APPLY
    <3>1. Phase = "verifying" /\ Phase' = "applying"
      BY <1>1, <2>2, Numbers DEF Phase
    <3> QED BY <3>1 DEF Mapped, Transfer!TransferNext, Transfer!Apply
  <2>3. CASE next = READY_XFER
    <3>1. Phase = "applying" /\ Phase' = "applied"
      BY <1>1, <2>3, Numbers DEF Phase
    <3> QED BY <3>1 DEF Mapped, Transfer!TransferNext, Transfer!Applied
  <2> QED BY <2>1, <2>2, <2>3
<1> QED BY <1>2, <1>3, <1>5, <1>6, <1>7, <1>8, <1>9, <1>10 DEF SessionInv

(***************************************************************************)
(* Every step of a session keeps it.                                       *)
(***************************************************************************)

\* A quiet packet is a still one.
LEMMA QuietIsStill == Quiet => Still /\ Due(due) = due /\ Due(NoRequest) = NoRequest
BY DEF Quiet, Still, SameTransfer, SameCounters, Due

LEMMA OverIsEnd == Over => Ended(fd', fd) /\ Due(due) = due /\ Due(NoRequest) = NoRequest
BY DEF Over, Due

LEMMA SessionRequestUpdateKeeps ==
  ASSUME SessionInv, IInv', SessionRequestUpdate
  PROVE  SessionInv' /\ Mapped
<1>1. Inv(fd) /\ failed \in BOOLEAN /\ late \in BOOLEAN
  BY DEF SessionInv, IInv, AgentOK
<1>2. /\ due = NoRequest /\ due' = Due(NoRequest)
      /\ nth' = IF fd'.cpl = SUCCESS THEN 0 ELSE nth
      /\ failed' = (~(fd'.cpl = SUCCESS) /\ failed)
      /\ UNCHANGED <<offered, delivered, late>>
  BY DEF SessionRequestUpdate
<1>3. CASE (Quiet \/ Over) /\ fd'.cpl # SUCCESS
  <2>1. failed' = failed /\ nth' = nth
    BY <1>1, <1>2, <1>3
  <2>2. Noted
    BY <1>1, <1>2, <2>1 DEF Noted
  <2>3. due' = NoRequest
    BY <1>2, <1>3, QuietIsStill, OverIsEnd
  <2> QED BY <1>2, <1>3, <2>1, <2>2, <2>3, QuietIsStill, OverIsEnd, StillKeeps, OverKeeps
<1>4. CASE Entered
  <2>1. nth' = 0 /\ failed' = FALSE
    BY <1>2, <1>4 DEF Entered
  <2> QED BY <1>2, <1>4, <2>1, EnteredKeeps
<1> QED BY <1>1, <1>3, <1>4, RequestUpdateEffect DEF SessionRequestUpdate

LEMMA SessionUpdateComponentKeeps ==
  ASSUME SessionInv, IInv', SessionUpdateComponent
  PROVE  SessionInv' /\ Mapped
<1> DEFINE accepted == fd.cur_state = READY_XFER /\ fd'.cur_state = DOWNLOAD
<1>1. Inv(fd) /\ failed \in BOOLEAN /\ late \in BOOLEAN
  BY DEF SessionInv, IInv, AgentOK
<1>2. /\ due = NoRequest /\ due' = Due(NoRequest)
      /\ offered' = IF accepted THEN fd'.fw_total ELSE offered
      /\ delivered' = IF accepted THEN 0 ELSE delivered
      /\ nth' = IF accepted THEN MinOf(nth + 1, 2) ELSE nth
      /\ failed' = (~accepted /\ failed)
      /\ late' = late
  BY DEF SessionUpdateComponent
<1>3. CASE Quiet \/ Over
  <2>1. ~accepted
    BY <1>3, Numbers DEF Quiet, Over, SameTransfer, Ended
  <2> HIDE DEF accepted
  <2>2. failed' = failed /\ Noted
    BY <1>1, <1>2, <2>1 DEF Noted
  <2>3. due' = NoRequest
    BY <1>2, <1>3, QuietIsStill, OverIsEnd
  <2> QED BY <1>2, <1>3, <2>2, <2>3, QuietIsStill, OverIsEnd, StillKeeps, OverKeeps
<1>4. CASE Started
  <2>1. accepted
    BY <1>4 DEF Started
  <2> HIDE DEF accepted
  <2>2. failed' = FALSE
    BY <1>2, <2>1
  <2> QED BY <1>2, <1>4, <2>1, <2>2, StartedKeeps
<1> QED BY <1>1, <1>3, <1>4, UpdateComponentEffect DEF SessionUpdateComponent

LEMMA SessionCommandKeeps ==
  ASSUME SessionInv, IInv', SessionCommand
  PROVE  SessionInv' /\ Mapped
<1>1. Inv(fd) /\ failed \in BOOLEAN /\ late \in BOOLEAN
  BY DEF SessionInv, IInv, AgentOK
<1>2. /\ due = NoRequest /\ due' = Due(NoRequest)
      /\ UNCHANGED <<offered, delivered, nth, failed, late>>
  BY DEF SessionCommand
<1>3. Noted
  BY <1>1, <1>2 DEF Noted
<1>4. Quiet \/ Over \/ Admitted
  BY <1>1, PassComponentTableEffect, ActivateFirmwareEffect DEF SessionCommand
<1>5. CASE Quiet \/ Over
  <2>1. due' = NoRequest
    BY <1>2, <1>5, QuietIsStill, OverIsEnd
  <2> QED BY <1>2, <1>3, <1>5, <2>1, QuietIsStill, OverIsEnd, StillKeeps, OverKeeps
<1>6. CASE Admitted
  BY <1>2, <1>6, AdmittedKeeps
<1> QED BY <1>4, <1>5, <1>6

LEMMA SessionQueryKeeps ==
  ASSUME SessionInv, IInv', SessionQuery
  PROVE  SessionInv' /\ Mapped
<1>1. Inv(fd) /\ failed \in BOOLEAN /\ late \in BOOLEAN
  BY DEF SessionInv, IInv, AgentOK
<1>2. due' = Due(due) /\ UNCHANGED <<offered, delivered, nth, failed, late>>
  BY DEF SessionQuery
<1>3. Noted
  BY <1>1, <1>2 DEF Noted
<1>4. Quiet
  BY <1>1, QueryEffect DEF SessionQuery
<1> QED BY <1>2, <1>3, <1>4, QuietIsStill, StillKeeps

LEMMA SessionCancelKeeps ==
  ASSUME SessionInv, IInv', SessionCancel
  PROVE  SessionInv' /\ Mapped
<1>1. Inv(fd) /\ failed \in BOOLEAN /\ late \in BOOLEAN
  BY DEF SessionInv, IInv, AgentOK
<1>2. UNCHANGED <<offered, delivered, nth, failed, late>>
  BY DEF SessionCancel
<1>3. Noted
  BY <1>1, <1>2 DEF Noted
<1>4. CASE CancelUpdate /\ due' = Due(NoRequest)
  <2>1. (Quiet /\ fd.cur_state \notin LEARN_COMP .. APPLY) \/ Over
    BY <1>1, <1>4, CancelUpdateEffect
  <2>2. due' = NoRequest
    BY <1>4, <2>1, QuietIsStill, OverIsEnd
  <2>3. fd.cur_state \notin LEARN_COMP .. APPLY => fd.cur_state \notin DOWNLOAD .. APPLY
    BY Numbers
  <2> QED BY <1>2, <1>3, <2>1, <2>2, <2>3, QuietIsStill, OverIsEnd, StillKeeps, OverKeeps
<1>5. CASE CancelUpdateComponent
           /\ due' = Due(IF fd.cur_state \in DOWNLOAD .. APPLY THEN NoRequest ELSE due)
  <2>1. IF fd.cur_state \in DOWNLOAD .. APPLY THEN ComponentOver
        ELSE Quiet \/ (Over /\ fd.overtime /\ fd.cur_state # IDLE)
    BY <1>1, <1>5, CancelUpdateComponentEffect
  <2>2. CASE fd.cur_state \in DOWNLOAD .. APPLY
    <3>1. ComponentOver /\ due' = NoRequest
      BY <1>5, <2>1, <2>2 DEF ComponentOver, Due
    <3> QED BY <1>2, <1>3, <2>2, <3>1, ComponentOverKeeps
  <2>3. CASE fd.cur_state \notin DOWNLOAD .. APPLY
    <3>1. due' = Due(due)
      BY <1>5, <2>3
    <3>2. CASE Quiet
      BY <1>2, <1>3, <2>3, <3>1, <3>2, QuietIsStill, StillKeeps
    <3>3. CASE Over /\ fd.overtime
      BY <1>3, <2>3, <3>1, <3>3, OverIsEnd, OverKeeps
    <3> QED BY <2>1, <2>3, <3>2, <3>3
  <2> QED BY <2>2, <2>3
<1> QED BY <1>4, <1>5 DEF SessionCancel

LEMMA SessionTimePassesKeeps ==
  ASSUME SessionInv, IInv', SessionTimePasses
  PROVE  SessionInv' /\ Mapped
<1>1. fd \in FdType /\ fd' = [fd EXCEPT !.overtime = TRUE]
      /\ failed \in BOOLEAN /\ late \in BOOLEAN
      /\ UNCHANGED <<due, offered, delivered, nth, failed, late>>
  BY DEF SessionInv, IInv, Inv, AgentOK, SessionTimePasses, TimePasses
<1>2. Still
  BY <1>1 DEF Still, FdType, SameFile, SameResults
<1>3. Noted
  BY <1>1 DEF Noted
<1> QED BY <1>1, <1>2, <1>3, StillKeeps

LEMMA AnswerIsLostKeeps ==
  ASSUME SessionInv, IInv', AnswerIsLost
  PROVE  SessionInv' /\ Mapped
<1>1. failed \in BOOLEAN /\ late \in BOOLEAN
  BY DEF SessionInv, AgentOK
<1>2. due' = NoRequest /\ failed' = TRUE /\ UNCHANGED <<fd, offered, delivered, nth, late>>
  BY DEF AnswerIsLost
<1>3. Still
  BY <1>2 DEF Still, SameFile, SameResults
<1>4. Noted
  BY <1>1, <1>2 DEF Noted
<1> QED BY <1>2, <1>3, <1>4, StillKeeps

\* What every answer does to the agent's bookkeeping.
AnswerNoted(ok, cb_ok) ==
  /\ due' = Due(NoRequest)
  /\ failed' = (failed \/ ~ok \/ ~cb_ok)
  /\ late' = (late \/ fd'.cur_state = IDLE)
  /\ UNCHANGED <<offered, nth>>

LEMMA NotedFacts ==
  ASSUME SessionInv, NEW ok \in BOOLEAN, NEW cb_ok \in BOOLEAN, AnswerNoted(ok, cb_ok)
  PROVE  /\ delivered' = delivered => Noted
         /\ late' \in BOOLEAN /\ failed' \in BOOLEAN /\ (failed => failed')
         /\ ~failed' => ~failed /\ ok /\ cb_ok
         /\ fd'.cur_state = IDLE => late' = TRUE
         /\ fd'.cur_state # IDLE => late' = late
<1>1. failed \in BOOLEAN /\ late \in BOOLEAN
  BY DEF SessionInv, AgentOK
<1>2. late' \in BOOLEAN /\ failed' \in BOOLEAN /\ (failed => failed') /\ (late => late')
  BY <1>1 DEF AnswerNoted
<1>3. ~failed' => ~failed /\ ok /\ cb_ok
  BY DEF AnswerNoted
<1>4. fd'.cur_state = IDLE => late' = TRUE
  BY DEF AnswerNoted
<1>5. fd'.cur_state # IDLE => late' = late
  BY <1>1 DEF AnswerNoted
<1>6. delivered' = delivered => Noted
  BY <1>2 DEF AnswerNoted, Noted
<1> QED BY <1>2, <1>3, <1>4, <1>5, <1>6

LEMMA AnswerGetPackageDataKeeps ==
  ASSUME SessionInv, IInv', NEW ok \in BOOLEAN, NEW cb_ok \in BOOLEAN,
         AnswerGetPackageData(ok), AnswerNoted(ok, cb_ok)
  PROVE  SessionInv' /\ Mapped
<1>1. Inv(fd) /\ offered \in Nat /\ delivered \in 0 .. offered
  BY DEF SessionInv, IInv, AgentOK
<1>2. PICK next \in Handles, crc_ok \in BOOLEAN :
        Packet(pldm_fwup_getpackagedata_recv(Prologue("GetPackageData"), ok, next, crc_ok), TRUE)
  BY DEF AnswerGetPackageData
<1>3. due.cmd = "GetPackageData" /\ delivered' = delivered
      /\ due' = Due(NoRequest) /\ late' = (late \/ fd'.cur_state = IDLE)
      /\ UNCHANGED <<offered, nth>>
  BY DEF AnswerGetPackageData, AnswerNoted
<1>4. \/ PackageAnswered(ok)
      \/ AnsweredInIdle /\ fd'.pd = fd.pd /\ fd'.sent = <<>>
  BY <1>1, <1>2, GetPackageDataEffect
<1>5. Noted
  BY <1>3, NotedFacts
<1>6. CASE PackageAnswered(ok)
  BY <1>3, <1>5, <1>6, PackageAnsweredKeeps
<1>7. CASE AnsweredInIdle /\ fd'.pd = fd.pd /\ fd'.sent = <<>>
  <2>1. due' = NoRequest
    BY <1>3, <1>7 DEF Due
  <2>2. late' = TRUE /\ failed' \in BOOLEAN
    BY <1>7, NotedFacts DEF AnsweredInIdle
  <2>3. fd'.pd # "misused"
    BY <1>7 DEF SessionInv, Clearing
  <2>4. delivered' \in delivered .. offered
    BY <1>1, <1>3
  <2> QED BY <1>3, <1>7, <2>1, <2>2, <2>3, <2>4, LateKeeps
<1> QED BY <1>4, <1>6, <1>7

LEMMA AnswerRequestFirmwareDataKeeps ==
  ASSUME SessionInv, IInv', NEW ok \in BOOLEAN, NEW cb_ok \in CallbackResults,
         AnswerRequestFirmwareData(ok, cb_ok), AnswerNoted(ok, cb_ok)
  PROVE  SessionInv' /\ Mapped
<1> DEFINE origin == due.offset
<1>1. /\ Inv(fd) /\ offered \in Nat /\ delivered \in 0 .. offered /\ cb_ok \in BOOLEAN
      /\ due \in {NoRequest} \cup Requests
  BY CallbackAssumption DEF SessionInv, IInv, AgentOK
<1>2. /\ due.cmd = "RequestFirmwareData" /\ origin \in Origins
      /\ delivered' = IF ok /\ origin = delivered THEN MinOf(offered, delivered + due.len)
                      ELSE delivered
      /\ due' = Due(NoRequest) /\ offered' = offered /\ nth' = nth
      /\ failed' = (failed \/ ~ok \/ ~cb_ok)
  BY DEF AnswerRequestFirmwareData, AnswerNoted
<1>3. Packet(pldm_fwup_requestfwdata_recv(Prologue("RequestFirmwareData"), ok, origin, cb_ok),
             TRUE)
  BY DEF AnswerRequestFirmwareData
<1>4. fd.cur_state = DOWNLOAD /\ fd.pd = "open"
  BY <1>2 DEF SessionInv, DueMatchesState, Moving
<1>5. due.len \in Nat
  BY <1>1, <1>2 DEF Requests, NoRequest
<1>6. delivered' \in delivered .. offered
  BY <1>1, <1>2, <1>5 DEF MinOf
<1> HIDE DEF origin
<1>7. \/ ~ok /\ (Quiet \/ Over)
      \/ /\ ok /\ DataTaken(fd', fd, origin)
         /\ \/ ~cb_ok /\ Failed(fd', fd)
            \/ Completed(fd', fd)
            \/ Continued(fd', fd, origin)
      \/ /\ ok /\ AnsweredInIdle /\ fd'.pd = "closed"
         /\ fd'.sent = <<[cmd |-> "TransferComplete", result |-> 0]>>
  BY <1>1, <1>2, <1>3, <1>4, RequestFirmwareDataEffect
<1>8. CASE ~ok /\ (Quiet \/ Over)
  <2>1. delivered' = delivered /\ due' = NoRequest
    BY <1>2, <1>8, QuietIsStill, OverIsEnd
  <2>2. Noted /\ failed' /\ (failed => failed')
    BY <1>1, <1>8, <2>1, NotedFacts
  <2> QED BY <1>8, <2>1, <2>2, QuietIsStill, OverIsEnd, StillKeeps, OverKeeps
<1>9. CASE /\ ok /\ DataTaken(fd', fd, origin)
           /\ \/ ~cb_ok /\ Failed(fd', fd)
              \/ Completed(fd', fd)
              \/ Continued(fd', fd, origin)
  <2>1. late' = late
    <3>1. fd'.cur_state # IDLE
      BY <1>4, <1>9, Numbers DEF DataTaken, DataKept
    <3> QED BY <1>1, <3>1, NotedFacts
  <2>2. failed' = (failed \/ ~cb_ok)
    BY <1>2, <1>9
  <2>3. delivered' = IF origin = delivered THEN MinOf(offered, delivered + due.len)
                     ELSE delivered
    BY <1>2, <1>9
  <2> QED BY <1>1, <1>2, <1>4, <1>9, <2>1, <2>2, <2>3, DataKeeps DEF origin
<1>10. CASE /\ ok /\ AnsweredInIdle /\ fd'.pd = "closed"
            /\ fd'.sent = <<[cmd |-> "TransferComplete", result |-> 0]>>
  <2>1. due' = [cmd |-> "TransferComplete", result |-> 0]
    BY <1>2, <1>10 DEF Due
  <2>2. late' = TRUE /\ failed' \in BOOLEAN
    BY <1>1, <1>10, NotedFacts DEF AnsweredInIdle
  <2> QED BY <1>2, <1>6, <1>10, <2>1, <2>2, LateKeeps
<1> QED BY <1>7, <1>8, <1>9, <1>10

LEMMA AnswerTransferCompleteKeeps ==
  ASSUME SessionInv, IInv', NEW ok \in BOOLEAN, NEW cb_ok \in BOOLEAN,
         AnswerTransferComplete(ok, cb_ok), AnswerNoted(ok, cb_ok)
  PROVE  SessionInv' /\ Mapped
<1>1. due.cmd = "TransferComplete" /\ delivered' = delivered
      /\ due' = Due(NoRequest) /\ UNCHANGED <<offered, nth>>
  BY DEF AnswerTransferComplete, AnswerNoted
<1>2. Inv(fd) /\ fd.cur_state \in {IDLE, DOWNLOAD}
  BY <1>1 DEF SessionInv, IInv, DueMatchesState
<1>3. Noted /\ failed' \in BOOLEAN /\ (failed => failed') /\ (~failed' => ~failed /\ ok /\ cb_ok)
  BY <1>1, NotedFacts
<1>4. \/ Over
      \/ Quiet /\ (fd.cur_state = DOWNLOAD => ~ok \/ fd.transfer_result # 0)
      \/ /\ ok /\ fd.cur_state = DOWNLOAD /\ fd.transfer_result = 0 /\ Advanced(VERIFY)
         /\ fd'.verify_result = (IF cb_ok THEN 0 ELSE 1)
         /\ fd'.sent = <<[cmd |-> "VerifyComplete", result |-> IF cb_ok THEN 0 ELSE 1]>>
  BY <1>2, TransferCompleteEffect DEF AnswerTransferComplete
<1>5. CASE Over
  BY <1>1, <1>3, <1>5, OverIsEnd, OverKeeps
<1>6. CASE Quiet /\ (fd.cur_state = DOWNLOAD => ~ok \/ fd.transfer_result # 0)
  <2>1. due' = NoRequest /\ Still
    BY <1>1, <1>6, QuietIsStill
  <2>2. fd.cur_state \in DOWNLOAD .. APPLY => failed'
    BY <1>2, <1>3, <1>6, <1>1, Numbers DEF SessionInv, Waiting
  <2> QED BY <1>3, <2>1, <2>2, StillKeeps
<1>7. CASE /\ ok /\ fd.cur_state = DOWNLOAD /\ fd.transfer_result = 0 /\ Advanced(VERIFY)
           /\ fd'.verify_result = (IF cb_ok THEN 0 ELSE 1)
           /\ fd'.sent = <<[cmd |-> "VerifyComplete", result |-> IF cb_ok THEN 0 ELSE 1]>>
  <2>1. Whole
    BY <1>1, <1>7 DEF SessionInv, Done
  <2>2. due' = [cmd |-> "VerifyComplete", result |-> IF cb_ok THEN 0 ELSE 1]
    BY <1>1, <1>7 DEF Due
  <2>3. due' \in Requests
    BY <2>2, RequestTypes
  <2>4. due'.cmd = "VerifyComplete" /\ (~failed' => fd'.verify_result = 0)
    BY <1>3, <1>7, <2>2
  <2>5. late' = late
    <3>1. fd'.cur_state # IDLE
      BY <1>7, Numbers DEF Advanced
    <3> QED BY <3>1, NotedFacts
  <2> QED BY <1>1, <1>3, <1>7, <2>1, <2>3, <2>4, <2>5, Numbers, AdvancedKeeps
<1> QED BY <1>4, <1>5, <1>6, <1>7

LEMMA AnswerVerifyCompleteKeeps ==
  ASSUME SessionInv, IInv', NEW ok \in BOOLEAN, NEW cb_ok \in BOOLEAN,
         AnswerVerifyComplete(ok), AnswerNoted(ok, cb_ok)
  PROVE  SessionInv' /\ Mapped
<1>1. due.cmd = "VerifyComplete" /\ delivered' = delivered
      /\ due' = Due(NoRequest) /\ UNCHANGED <<offered, nth>>
  BY DEF AnswerVerifyComplete, AnswerNoted
<1>2. Inv(fd) /\ fd.cur_state = VERIFY /\ Whole
  BY <1>1 DEF SessionInv, IInv, DueMatchesState, Done
<1>3. Noted /\ failed' \in BOOLEAN /\ (failed => failed') /\ (~failed' => ~failed /\ ok /\ cb_ok)
  BY <1>1, NotedFacts
<1>4. \/ Over
      \/ Quiet /\ (~ok \/ fd.verify_result # 0)
      \/ /\ ok /\ Advanced(APPLY) /\ fd'.verify_result = fd.verify_result
         /\ fd'.sent = <<[cmd |-> "ApplyComplete", result |-> 1]>>
  BY <1>2, VerifyCompleteEffect DEF AnswerVerifyComplete
<1>5. CASE Over
  BY <1>1, <1>3, <1>5, OverIsEnd, OverKeeps
<1>6. CASE Quiet /\ (~ok \/ fd.verify_result # 0)
  <2>1. due' = NoRequest /\ Still
    BY <1>1, <1>6, QuietIsStill
  <2>2. failed'
    BY <1>2, <1>3, <1>6 DEF SessionInv, Waiting
  <2> QED BY <1>3, <2>1, <2>2, StillKeeps
<1>7. CASE /\ ok /\ Advanced(APPLY) /\ fd'.verify_result = fd.verify_result
           /\ fd'.sent = <<[cmd |-> "ApplyComplete", result |-> 1]>>
  <2>1. due' = [cmd |-> "ApplyComplete", result |-> 1]
    BY <1>1, <1>7 DEF Due
  <2>2. due' \in Requests /\ due'.cmd = "ApplyComplete"
    BY <2>1, RequestTypes
  <2>3. late' = late
    <3>1. fd'.cur_state # IDLE
      BY <1>7, Numbers DEF Advanced
    <3> QED BY <3>1, NotedFacts
  <2> QED BY <1>1, <1>2, <1>3, <1>7, <2>2, <2>3, Numbers, AdvancedKeeps
<1> QED BY <1>4, <1>5, <1>6, <1>7

LEMMA AnswerApplyCompleteKeeps ==
  ASSUME SessionInv, IInv', NEW ok \in BOOLEAN, NEW cb_ok \in BOOLEAN,
         AnswerApplyComplete(ok), AnswerNoted(ok, cb_ok)
  PROVE  SessionInv' /\ Mapped
<1>1. due.cmd = "ApplyComplete" /\ delivered' = delivered
      /\ due' = Due(NoRequest) /\ UNCHANGED <<offered, nth>>
  BY DEF AnswerApplyComplete, AnswerNoted
<1>2. Inv(fd) /\ fd.cur_state = APPLY /\ Whole
  BY <1>1 DEF SessionInv, IInv, DueMatchesState, Done
<1>3. Noted /\ failed' \in BOOLEAN /\ (failed => failed') /\ (~failed' => ~failed /\ ok /\ cb_ok)
  BY <1>1, NotedFacts
<1>4. \/ Over
      \/ Quiet /\ ~ok
      \/ ok /\ Advanced(READY_XFER) /\ fd'.event_id = APPLY_PASS /\ fd'.sent = <<>>
  BY <1>2, ApplyCompleteEffect DEF AnswerApplyComplete
<1>5. CASE Over
  BY <1>1, <1>3, <1>5, OverIsEnd, OverKeeps
<1>6. CASE Quiet /\ ~ok
  <2>1. due' = NoRequest /\ Still
    BY <1>1, <1>6, QuietIsStill
  <2>2. failed'
    BY <1>3, <1>6
  <2> QED BY <1>3, <2>1, <2>2, StillKeeps
<1>7. CASE ok /\ Advanced(READY_XFER) /\ fd'.event_id = APPLY_PASS /\ fd'.sent = <<>>
  <2>1. due' = NoRequest
    BY <1>1, <1>7 DEF Due
  <2>2. late' = late
    <3>1. fd'.cur_state # IDLE
      BY <1>7, Numbers DEF Advanced
    <3> QED BY <3>1, NotedFacts
  <2> QED BY <1>1, <1>2, <1>3, <1>7, <2>1, <2>2, Numbers, AdvancedKeeps
<1> QED BY <1>4, <1>5, <1>6, <1>7

LEMMA AgentAnswersKeeps ==
  ASSUME SessionInv, IInv', NEW ok \in BOOLEAN, NEW cb_ok \in CallbackResults,
         AgentAnswers(ok, cb_ok)
  PROVE  SessionInv' /\ Mapped
<1>1. AnswerNoted(ok, cb_ok)
  BY DEF AgentAnswers, AnswerNoted
<1>2. cb_ok \in BOOLEAN
  BY CallbackAssumption
<1>3. \/ AnswerGetPackageData(ok) \/ AnswerRequestFirmwareData(ok, cb_ok)
      \/ AnswerTransferComplete(ok, cb_ok) \/ AnswerVerifyComplete(ok)
      \/ AnswerApplyComplete(ok)
  BY DEF AgentAnswers
<1> QED BY <1>1, <1>2, <1>3, AnswerGetPackageDataKeeps, AnswerRequestFirmwareDataKeeps,
           AnswerTransferCompleteKeeps, AnswerVerifyCompleteKeeps, AnswerApplyCompleteKeeps

LEMMA SessionInitInv == SessionInit => SessionInv
<1> SUFFICES ASSUME SessionInit PROVE SessionInv
  OBVIOUS
<1>1. IInv
  BY InitIInv DEF SessionInit
<1>2. /\ fd.cur_state = 0 /\ fd.fw_len = 0 /\ fd.pd = "null" /\ fd.image_file = <<>>
      /\ fd.getpackagedata_progress = FALSE
  BY Numbers DEF SessionInit, Init
<1>3. due = NoRequest /\ offered = 0 /\ delivered = 0 /\ nth = 0
      /\ failed = FALSE /\ late = FALSE
  BY DEF SessionInit
<1>4. AgentOK
  <2>1. failed \in BOOLEAN /\ late \in BOOLEAN
    BY <1>3
  <2> QED BY <1>3, <2>1 DEF AgentOK
<1>5. DueMatchesState /\ Clearing /\ Buffered
  BY <1>2, <1>3, Numbers DEF DueMatchesState, Clearing, Buffered, FileIsSound, NoRequest
<1>6. Moving /\ Done /\ Waiting /\ Package
  BY <1>2, Numbers DEF Moving, Done, Waiting, Package
<1> QED BY <1>1, <1>4, <1>5, <1>6 DEF SessionInv

LEMMA SessionNextInv == SessionInv /\ [SessionNext]_vars => SessionInv' /\ Mapped
<1> SUFFICES ASSUME SessionInv, [SessionNext]_vars PROVE SessionInv' /\ Mapped
  OBVIOUS
<1>1. IInv'
  BY NextIInv, SessionStepIsAStep DEF SessionInv
<1>2. CASE SessionRequestUpdate
  BY <1>1, <1>2, SessionRequestUpdateKeeps
<1>3. CASE SessionUpdateComponent
  BY <1>1, <1>3, SessionUpdateComponentKeeps
<1>4. CASE SessionCommand
  BY <1>1, <1>4, SessionCommandKeeps
<1>5. CASE SessionQuery
  BY <1>1, <1>5, SessionQueryKeeps
<1>6. CASE SessionCancel
  BY <1>1, <1>6, SessionCancelKeeps
<1>7. CASE SessionTimePasses
  BY <1>1, <1>7, SessionTimePassesKeeps
<1>8. CASE \E ok \in BOOLEAN, cb_ok \in CallbackResults : AgentAnswers(ok, cb_ok)
  BY <1>1, <1>8, AgentAnswersKeeps
<1>9. CASE AnswerIsLost
  BY <1>1, <1>9, AnswerIsLostKeeps
<1>10. CASE UNCHANGED vars
  <2>1. SessionInv'
    BY <1>1, <1>10
       DEF vars, SessionInv, AgentOK, DueMatchesState, Clearing, Buffered, InOrder, Moving,
           Collected, FileIsSound, Done, Whole, Waiting, Package
  <2>2. Mapped
    BY <1>10 DEF vars, Mapped, Transfer!transferVars, Phase
  <2> QED BY <2>1, <2>2
<1> QED BY <1>2, <1>3, <1>4, <1>5, <1>6, <1>7, <1>8, <1>9, <1>10 DEF SessionNext

\* The device and the agent keep the invariant through answers, refusals, losses,
\* cancellations and the timer (pldm_fwup_process and the handlers it calls).
THEOREM SessionInductive == SessionSpec => []SessionInv
BY SessionInitInv, SessionNextInv, PTL DEF SessionSpec

\* The request that is due is one of the state the device is in, and a data request
\* is about the bytes the device counts next (pldm_fwup_requestfwdata_recv).
THEOREM DueBelongs == SessionSpec => []DueMatchesState
<1>1. SessionInv => DueMatchesState
  BY DEF SessionInv
<1> QED BY <1>1, SessionInductive, PTL

\* Without a refusal or a loss, the device and the agent never wait for each other.
THEOREM NobodyWaits == SessionSpec => []NeverBothWait
<1>1. SessionInv => NeverBothWait
  <2> SUFFICES ASSUME SessionInv, fd.cur_state \in DOWNLOAD .. APPLY, ~failed
               PROVE  due # NoRequest
    BY DEF NeverBothWait
  <2>1. fd.cur_state = DOWNLOAD \/ fd.cur_state = VERIFY \/ fd.cur_state = APPLY
    BY Numbers
  <2> QED BY <2>1 DEF SessionInv, Waiting, NoRequest
<1> QED BY <1>1, SessionInductive, PTL

\* What is verified, applied or reported as transferred is whole; a component table
\* comes after the package data it was announced with.
THEOREM TransfersAreWhole == SessionSpec => []TransferredIsDelivered
<1>1. SessionInv => TransferredIsDelivered
  BY Numbers
     DEF SessionInv, TransferredIsDelivered, Transferred, Done, Whole, Package
<1> QED BY <1>1, SessionInductive, PTL

\* The received image file is the image, in order, and it is closed with every full
\* block of it.
THEOREM FilesAreInOrder == SessionSpec => []FileIsInOrder
<1>1. SessionInv => FileIsInOrder
  BY DEF SessionInv, FileIsInOrder, Transferred, Clearing, Buffered, Done, Whole
<1> QED BY <1>1, SessionInductive, PTL

\* A session takes its images through transfer, verification and application in that
\* order, and leaves the transfer only with every byte: pldm_fwup_transforms, with the
\* two data handlers and the timer, implements the image transfer.
THEOREM SessionRefinesTransfer == SessionSpec => ImplementsImageTransfer
<1>1. SessionInit => Transfer!TransferInit
  <2> SUFFICES ASSUME SessionInit PROVE Transfer!TransferInit
    OBVIOUS
  <2>1. Phase = "none"
    BY Numbers DEF SessionInit, Init, Phase
  <2> QED BY <2>1 DEF SessionInit, Transfer!TransferInit
<1>2. SessionInv /\ [SessionNext]_vars => [Transfer!TransferNext]_(Transfer!transferVars)
  BY SessionNextInv DEF Mapped
<1> QED BY <1>1, <1>2, SessionInductive, PTL
        DEF SessionSpec, ImplementsImageTransfer, Transfer!TransferSpec
=============================================================================
