------------------------------ MODULE PldmFwup ------------------------------
(***************************************************************************)
(* The firmware device (FD) side of the PLDM firmware update protocol,     *)
(* src/source/net/pldm/pldm_fw_update.c.                                   *)
(*                                                                         *)
(* The program is single threaded.  One packet of PLDM type 5 runs through *)
(* pldm_fwup_process, then its reply is sent and, whatever the reply was,  *)
(* pldm_fwup_state_machine_switch looks the current (state, event) pair up *)
(* in a table of transitions.  A step of this module is one such packet:   *)
(* prologue, handler and switch.  The update agent is not constrained: it  *)
(* may send any command, or any answer to a request of the device, at any  *)
(* moment, late, twice or never asked for.                                 *)
(*                                                                         *)
(* The state of the C file is the record `fd', so that a handler is an     *)
(* operator from records to records and the three parts compose.           *)
(***************************************************************************)
EXTENDS Integers, Sequences, FiniteSets

CONSTANTS
  RecvBufMax,       \* PLDM_RECVBUF_MAX_SIZE: bytes of the receive buffer
  CompIds,          \* pldm_fwup_comp_identifier_t: 0 slot, 1 chip, 2 factory
  TransferSizes,    \* MaximumTransferSize values an agent may ask for
  PkgLens,          \* PackageDataLength values
  ImgSizes,         \* ComponentImageSize values
  Origins,          \* where in the image the bytes of a data answer start
  Handles,          \* NextDataTransferHandle values of the agent
  Versions,         \* component version strings
  NoVersion,        \* the empty string a cleared component record holds
  MaxBlocks,        \* bound: blocks in the received image file
  CallbackResults   \* what upgrade_funcs may answer: {TRUE} while it is empty

ASSUME RecvBufMaxAssumption == RecvBufMax \in Nat \ {0}
ASSUME SizesAssumption == TransferSizes \subseteq Nat /\ PkgLens \subseteq Nat
                            /\ ImgSizes \subseteq Nat /\ Origins \subseteq Nat
                            /\ Handles \subseteq Nat
ASSUME CompIdsAssumption == 0 \in CompIds /\ CompIds \subseteq 0 .. 2
ASSUME CallbackAssumption == CallbackResults \subseteq BOOLEAN

VARIABLE fd

(***************************************************************************)
(* Enumerations of pldm_fw_update.h.                                       *)
(***************************************************************************)
IDLE == 0
LEARN_COMP == 1
READY_XFER == 2
DOWNLOAD == 3
VERIFY == 4
APPLY == 5
ACTIVATE == 6

UNKNOWN == 0
ENTER_UD_WITH_PKTDATA == 1
ENTER_UD_NO_PKTDATA == 2
PACKAGEDATA_ERROR == 3
PASSCOMP_END == 4
UD_COMP_END == 5
TRANSFER_PASS == 6
VERIFY_PASS == 7
APPLY_PASS == 8
ENTER_ACTIVATE == 9
ACTIVATE_DONE == 10
CANCEL_UD_COMP == 11
CANCEL_UD_OR_TIMEOUT == 12

SUCCESS == 0
COMMAND_UNSUPPORT == 5
NOT_IN_UPDATE_MODE == 128
ALREADY_IN_UPDATE_MODE == 129
INVALID_STATE_FOR_COMMAND == 132
INCOMPLETE_UPDATE == 133
SELF_CONTAINED_ACTIVATION_NOT_PERMITTED == 140
PACKAGE_DATA_ERROR == 147

INITIALIZATION_OCCURRED == 0
ACTIVATEFIRMWARE_RECEIVED == 1
CANCELUPDATE_RECEIVED == 2
NoReason == 99    \* the reply carries no reason code

States == IDLE .. ACTIVATE
Events == UNKNOWN .. CANCEL_UD_OR_TIMEOUT
Img == [comp_identifier : CompIds, version : Versions \cup {NoVersion}]
ZeroImg == [comp_identifier |-> 0, version |-> NoVersion]

\* Commands the prologue treats as an inventory: they never test the timer.
InventoryCommands ==
  {"QueryDeviceIdentifiers", "GetFirmwareParameters", "GetStatus"}

\* gs_fw_data_buf.data and a block of the received image file: which byte of the
\* image stands at each place.
Blocks == [0 .. RecvBufMax - 1 -> Nat]

\* What the device may send by itself.
Requests ==
  [cmd : {"GetPackageData"}, handle : Nat]
    \cup [cmd : {"RequestFirmwareData"}, offset : Nat, len : Nat]
    \cup [cmd : {"TransferComplete", "VerifyComplete", "ApplyComplete"}, result : Nat]

FdType ==
  [ cur_state : States, prev_state : States, event_id : Events,
    update_mode : BOOLEAN, is_in_upgrade_mode : BOOLEAN,
    max_transfer_size : Nat, data_transfer_handle : Nat, once_size : Nat,
    pkg_len : Nat, pkg_total : Nat, getpackagedata_progress : BOOLEAN,
    want_to_end_update : BOOLEAN,
    fw_len : Nat, fw_total : Nat, fw_data : Blocks,
    image_file : Seq(Blocks), pd : {"null", "open", "closed", "misused"},
    transfer_result : {0, 13}, verify_result : {0, 1},
    progress_flag : BOOLEAN, timeout_occur_flag : BOOLEAN,
    need_rsp : BOOLEAN, overtime : BOOLEAN,
    new_img : Img, pending_img : [CompIds -> Img], pending_img_state : SUBSET CompIds,
    nvm_img : [CompIds -> Img], nvm_img_state : SUBSET CompIds,
    sensors_changed : SUBSET {"version", "config"},
    \* of the last packet: the completion code, the reason code of a GetStatus
    \* reply and the requests the device sent
    cpl : Nat, reason : Nat, sent : Seq(Requests) ]

(***************************************************************************)
(* pldm_fwup_init.  The active images stand for whatever the flash held:   *)
(* the factory image (active_img_state BIT(2) of the image creator script) *)
(* with the empty version.                                                 *)
(***************************************************************************)
ActiveImg == [i \in CompIds |-> [comp_identifier |-> i, version |-> NoVersion]]
ActiveImgState == CompIds \cap {2}

Init ==
  fd = [ cur_state |-> IDLE, prev_state |-> IDLE, event_id |-> UNKNOWN,
         update_mode |-> FALSE, is_in_upgrade_mode |-> FALSE,
         max_transfer_size |-> 0, data_transfer_handle |-> 0, once_size |-> 0,
         pkg_len |-> 0, pkg_total |-> 0, getpackagedata_progress |-> FALSE,
         want_to_end_update |-> FALSE,
         fw_len |-> 0, fw_total |-> 0, fw_data |-> [i \in 0 .. RecvBufMax - 1 |-> 0],
         image_file |-> <<>>, pd |-> "null",
         transfer_result |-> 0, verify_result |-> 0,
         progress_flag |-> FALSE, timeout_occur_flag |-> FALSE,
         need_rsp |-> FALSE, overtime |-> FALSE,
         new_img |-> ZeroImg, pending_img |-> [i \in CompIds |-> ZeroImg],
         pending_img_state |-> {},
         nvm_img |-> ActiveImg, nvm_img_state |-> ActiveImgState,
         sensors_changed |-> {},
         cpl |-> SUCCESS, reason |-> NoReason, sent |-> <<>> ]

(***************************************************************************)
(* Helpers the handlers call.                                              *)
(***************************************************************************)
MinOf(a, b) == IF a <= b THEN a ELSE b

pldm_fwup_sta_chg(s, next) == [s EXCEPT !.prev_state = s.cur_state, !.cur_state = next]

\* Mutant: the firmware data buffer is not cleared with the package data buffer.
firmware_process_quit_keeps_data(s) ==
  [s EXCEPT !.progress_flag = FALSE, !.timeout_occur_flag = FALSE,
            !.pkg_len = 0, !.pkg_total = 0, !.new_img = ZeroImg,
            !.getpackagedata_progress = FALSE, !.want_to_end_update = FALSE,
            !.data_transfer_handle = 0, !.once_size = 0, !.event_id = UNKNOWN,
            !.update_mode = FALSE, !.is_in_upgrade_mode = FALSE]

\* Ends the session.  The caller has already moved to IDLE.
pldm_fwup_firmware_process_quit(s) ==
  [s EXCEPT !.progress_flag = FALSE, !.timeout_occur_flag = FALSE,
            !.fw_len = 0, !.fw_total = 0, !.pkg_len = 0, !.pkg_total = 0,
            !.new_img = ZeroImg,
            !.getpackagedata_progress = FALSE, !.want_to_end_update = FALSE,
            !.data_transfer_handle = 0, !.once_size = 0, !.event_id = UNKNOWN,
            !.update_mode = FALSE, !.is_in_upgrade_mode = FALSE]

\* Mutant: what the cancelled component left in the buffer stays.
component_process_quit_keeps_data(s) ==
  [s EXCEPT !.progress_flag = FALSE,
            !.data_transfer_handle = 0, !.once_size = s.max_transfer_size,
            !.event_id = UNKNOWN]

\* Ends the component being transferred, not the session.
pldm_fwup_component_process_quit(s) ==
  [s EXCEPT !.progress_flag = FALSE,
            !.fw_len = 0, !.fw_total = 0, !.pkg_len = 0, !.pkg_total = 0,
            !.data_transfer_handle = 0, !.once_size = s.max_transfer_size,
            !.event_id = UNKNOWN]

\* pldm_msg_send for PLDM type UPDATE: the request leaves and an answer is due.
pldm_msg_send(s, request) ==
  [s EXCEPT !.need_rsp = TRUE, !.sent = Append(@, request)]

pldm_fwup_getpackagedata_send(s) ==
  pldm_msg_send(s, [cmd |-> "GetPackageData", handle |-> s.data_transfer_handle])

\* Mutant: the last request asks for a whole transfer, beyond the image.
requestfwdata_send_full_size(s) ==
  pldm_msg_send(s, [cmd |-> "RequestFirmwareData",
                    offset |-> s.data_transfer_handle, len |-> s.max_transfer_size])

pldm_fwup_requestfwdata_send(s) ==
  pldm_msg_send(s, [cmd |-> "RequestFirmwareData",
                    offset |-> s.data_transfer_handle, len |-> s.once_size])

pldm_fwup_transfercpl_send(s, result) ==
  pldm_msg_send([s EXCEPT !.transfer_result = result],
                [cmd |-> "TransferComplete", result |-> result])

\* cb_ok: what PLDM_FW_UPDATE_COMPLETE_CALLBACK answers.
pldm_fwup_verify_process(s, cb_ok) ==
  LET result == IF cb_ok THEN 0 ELSE 1
  IN  pldm_msg_send([s EXCEPT !.verify_result = result],
                    [cmd |-> "VerifyComplete", result |-> result])

pldm_fwup_applycpl_send(s) ==
  pldm_msg_send(s, [cmd |-> "ApplyComplete", result |-> 1])

Refuse(s, code) == [s EXCEPT !.cpl = code]

(***************************************************************************)
(* Handlers.                                                               *)
(***************************************************************************)
\* Mutant: the transfer size is not limited to the buffer.
requestupdate_without_limit(s, size, pkt_data_len) ==
  IF s.update_mode \/ s.is_in_upgrade_mode THEN Refuse(s, ALREADY_IN_UPDATE_MODE)
  ELSE [s EXCEPT !.max_transfer_size = size, !.once_size = size,
                 !.update_mode = TRUE, !.is_in_upgrade_mode = TRUE,
                 !.pkg_total = IF pkt_data_len # 0 THEN pkt_data_len ELSE @,
                 !.event_id = IF pkt_data_len # 0 THEN ENTER_UD_WITH_PKTDATA
                                                  ELSE ENTER_UD_NO_PKTDATA,
                 !.overtime = FALSE]

pldm_fwup_requestupdate(s, size, pkt_data_len) ==
  IF s.update_mode \/ s.is_in_upgrade_mode THEN Refuse(s, ALREADY_IN_UPDATE_MODE)
  ELSE LET max == MinOf(RecvBufMax, size) IN
       [s EXCEPT !.max_transfer_size = max, !.once_size = max,
                 !.update_mode = TRUE, !.is_in_upgrade_mode = TRUE,
                 !.pkg_total = IF pkt_data_len # 0 THEN pkt_data_len ELSE @,
                 !.event_id = IF pkt_data_len # 0 THEN ENTER_UD_WITH_PKTDATA
                                                  ELSE ENTER_UD_NO_PKTDATA,
                 !.overtime = FALSE,
                 !.sensors_changed = @ \cup {"version"}]

\* An answer to GetPackageData; crc_ok: whether the collected bytes end in
\* their CRC, looked at only when the last of them has arrived.
pldm_fwup_getpackagedata_recv(s, ok, next, crc_ok) ==
  LET remain == s.pkg_total - s.pkg_len
      t == [s EXCEPT !.pkg_len = @ + MinOf(remain, s.max_transfer_size)]
  IN  IF ~ok THEN [s EXCEPT !.data_transfer_handle = 0]
      ELSE IF t.pkg_len >= t.pkg_total
      THEN [t EXCEPT !.want_to_end_update = @ \/ ~crc_ok,
                     !.getpackagedata_progress = TRUE]
      ELSE pldm_fwup_getpackagedata_send([t EXCEPT !.data_transfer_handle = next])

\* last: the transfer flag of the entry is END or START_AND_END.
pldm_fwup_passcomponenttable(s, img, last) ==
  IF \/ s.event_id = ENTER_UD_WITH_PKTDATA /\ ~s.getpackagedata_progress
     \/ s.cur_state # LEARN_COMP
  THEN Refuse(s, INVALID_STATE_FOR_COMMAND)
  ELSE IF s.want_to_end_update
  \* the code stores the event number, not PLDM_UD_PACKAGE_DATA_ERROR
  THEN Refuse([s EXCEPT !.event_id = PACKAGEDATA_ERROR], PACKAGEDATA_ERROR)
  ELSE [s EXCEPT !.new_img = img,
                 !.event_id = IF last THEN PASSCOMP_END ELSE @]

\* Mutant: the offset is not reset.
updatecomponent_keeps_handle(s, img, size) ==
  IF s.cur_state # READY_XFER THEN Refuse(s, INVALID_STATE_FOR_COMMAND)
  ELSE IF img # s.new_img THEN s
  ELSE [s EXCEPT !.fw_total = size, !.event_id = UD_COMP_END]

pldm_fwup_updatecomponent(s, img, size) ==
  IF s.cur_state # READY_XFER THEN Refuse(s, INVALID_STATE_FOR_COMMAND)
  ELSE IF img # s.new_img THEN s    \* comp_compatibility_rsp = 1
  ELSE [s EXCEPT !.fw_total = size, !.event_id = UD_COMP_END,
                 !.data_transfer_handle = 0]

\* An answer to RequestFirmwareData whose bytes start at `origin` of the image.
\* cb_ok: what PLDM_FW_UPDATE_CALLBACK answers when a block is full.
\* A block goes to the file from gs_fw_data_buf, or straight from the packet
\* when the transfer size equals the buffer size.  What fwrite and fclose do to a
\* file that is not open is undefined: it is recorded as "misused", and the
\* contents of the file, which the program never reads, are left alone.
pldm_fwup_requestfwdata_recv(s, ok, origin, cb_ok) ==
  LET free == RecvBufMax - s.fw_len
      cpy == MinOf(s.once_size, free)
      direct == s.max_transfer_size = RecvBufMax
      data == IF direct THEN s.fw_data
              ELSE [i \in 0 .. RecvBufMax - 1 |->
                      IF s.fw_len <= i /\ i < s.fw_len + cpy
                      THEN origin + (i - s.fw_len) ELSE s.fw_data[i]]
      block == IF direct THEN [i \in 0 .. RecvBufMax - 1 |-> origin + i] ELSE data
      full == s.fw_len + cpy = RecvBufMax
      remain == s.once_size - cpy
      a == [s EXCEPT !.fw_data = data, !.fw_len = @ + cpy,
                     !.image_file = IF full /\ s.pd = "open" THEN Append(@, block) ELSE @,
                     !.pd = IF full /\ s.pd # "open" THEN "misused" ELSE @]
      b == IF ~full THEN a
           ELSE [a EXCEPT !.fw_data = [i \in 0 .. RecvBufMax - 1 |->
                                         IF i < remain THEN origin + cpy + i ELSE data[i]],
                          !.fw_len = remain]
      c == [b EXCEPT !.data_transfer_handle = @ + s.once_size]
  IN  IF ~ok THEN s
      ELSE IF full /\ ~cb_ok THEN pldm_fwup_transfercpl_send(a, 13)
      ELSE IF c.data_transfer_handle >= c.fw_total
      THEN [pldm_fwup_transfercpl_send(c, 0)
              EXCEPT !.data_transfer_handle = 0, !.fw_len = 0, !.fw_total = 0,
                     !.pd = IF @ = "open" THEN "closed" ELSE "misused"]
      ELSE pldm_fwup_requestfwdata_send(
             [c EXCEPT !.once_size = MinOf(c.fw_total - c.data_transfer_handle,
                                           s.max_transfer_size)])

\* Mutant: the test of the result is inverted.
transfercpl_recv_inverted(s, ok) ==
  IF ~ok THEN s
  ELSE [s EXCEPT !.event_id = IF s.transfer_result # 0 THEN TRANSFER_PASS ELSE @,
                 !.progress_flag = TRUE]

pldm_fwup_transfercpl_recv(s, ok) ==
  IF ~ok THEN s
  ELSE [s EXCEPT !.event_id = IF s.transfer_result = 0 THEN TRANSFER_PASS ELSE @,
                 !.progress_flag = TRUE]

pldm_fwup_verifycpl_recv(s, ok) ==
  IF ~ok THEN s
  ELSE [s EXCEPT !.event_id = IF s.verify_result = 0 THEN VERIFY_PASS ELSE @,
                 !.progress_flag = TRUE]

pldm_fwup_applycpl_recv(s, ok) ==
  IF ~ok THEN s ELSE [s EXCEPT !.event_id = APPLY_PASS, !.progress_flag = TRUE]

\* self: the agent asks for self contained activation, which only changes the
\* completion code.  flash_ok: CM_FALSH_WRITE wrote; a failure is only logged.
\* In memory the active images stay; the flash gets the pending ones in their
\* place, the images of the other components as they are active.
pldm_fwup_activatefw(s, self, flash_ok) ==
  LET id == s.new_img.comp_identifier
      state == IF id = 0 THEN s.pending_img_state \cup {0} ELSE {id}
  IN  IF s.cur_state # READY_XFER THEN Refuse(s, INVALID_STATE_FOR_COMMAND)
      ELSE IF s.event_id # APPLY_PASS THEN Refuse(s, INCOMPLETE_UPDATE)
      ELSE [s EXCEPT !.cpl = IF self THEN SELF_CONTAINED_ACTIVATION_NOT_PERMITTED ELSE @,
                     !.event_id = ACTIVATE_DONE, !.progress_flag = TRUE,
                     !.pending_img[id] = s.new_img, !.pending_img_state = state,
                     !.nvm_img = IF flash_ok THEN [ActiveImg EXCEPT ![id] = s.new_img] ELSE @,
                     !.nvm_img_state = IF flash_ok THEN state ELSE @,
                     !.sensors_changed = @ \cup {"config"}]

\* Only the reason code of the reply is kept; it is filled in IDLE alone.
pldm_fwup_getstatus(s) ==
  [s EXCEPT !.reason =
     IF s.cur_state # IDLE THEN NoReason
     ELSE CASE s.prev_state = IDLE -> INITIALIZATION_OCCURRED
            [] s.prev_state = ACTIVATE -> ACTIVATEFIRMWARE_RECEIVED
            [] OTHER -> IF s.timeout_occur_flag THEN s.prev_state + 2
                        ELSE CANCELUPDATE_RECEIVED]

\* Mutant: cancelling a component raises the event that cancels the update.
compupdate_cancel_wrong_event(s) ==
  IF s.cur_state \in DOWNLOAD .. APPLY THEN [s EXCEPT !.event_id = CANCEL_UD_OR_TIMEOUT]
  ELSE Refuse(s, INVALID_STATE_FOR_COMMAND)

pldm_fwup_compupdate_cancel(s) ==
  IF s.cur_state \in DOWNLOAD .. APPLY THEN [s EXCEPT !.event_id = CANCEL_UD_COMP]
  ELSE Refuse(s, INVALID_STATE_FOR_COMMAND)

pldm_fwup_fwupdate_cancel(s) == [s EXCEPT !.event_id = CANCEL_UD_OR_TIMEOUT]

(***************************************************************************)
(* The transition table and the switch that runs after every packet.       *)
(***************************************************************************)
\* Mutants, each one row typed wrong: an update that stays in READY_XFER, a
\* verification that is skipped, one that does not go on to ApplyComplete.
Row_no_move(cur, event, next, action) ==
  [cur |-> cur, event |-> event, action |-> action,
   next |-> IF event = UD_COMP_END THEN cur ELSE next]

Row_skips_verify(cur, event, next, action) ==
  IF event = TRANSFER_PASS
  THEN [cur |-> cur, event |-> event, next |-> APPLY, action |-> "applycpl_send"]
  ELSE [cur |-> cur, event |-> event, next |-> next, action |-> action]

Row_no_action(cur, event, next, action) ==
  [cur |-> cur, event |-> event, next |-> next,
   action |-> IF event = VERIFY_PASS THEN "NULL" ELSE action]

Row(cur, event, next, action) ==
  [cur |-> cur, event |-> event, next |-> next, action |-> action]

pldm_fwup_transforms ==
  { Row(IDLE, ENTER_UD_WITH_PKTDATA, LEARN_COMP, "getpackagedata_send"),
    Row(IDLE, ENTER_UD_NO_PKTDATA, LEARN_COMP, "NULL"),
    Row(LEARN_COMP, PACKAGEDATA_ERROR, IDLE, "firmware_process_quit"),
    Row(LEARN_COMP, PASSCOMP_END, READY_XFER, "NULL"),
    Row(READY_XFER, UD_COMP_END, DOWNLOAD, "requestfwdata_send"),
    Row(DOWNLOAD, TRANSFER_PASS, VERIFY, "verify_process"),
    Row(VERIFY, VERIFY_PASS, APPLY, "applycpl_send"),
    Row(APPLY, APPLY_PASS, READY_XFER, "NULL"),
    Row(READY_XFER, ACTIVATE_DONE, IDLE, "firmware_process_quit") }
  \cup { Row(c, CANCEL_UD_OR_TIMEOUT, IDLE, "firmware_process_quit") : c \in LEARN_COMP .. APPLY }
  \cup { Row(c, CANCEL_UD_COMP, READY_XFER, "component_process_quit") : c \in DOWNLOAD .. APPLY }

RunAction(action, s, cb_ok) ==
  CASE action = "getpackagedata_send" -> pldm_fwup_getpackagedata_send(s)
    [] action = "requestfwdata_send" -> pldm_fwup_requestfwdata_send(s)
    [] action = "verify_process" -> pldm_fwup_verify_process(s, cb_ok)
    [] action = "applycpl_send" -> pldm_fwup_applycpl_send(s)
    [] action = "firmware_process_quit" -> pldm_fwup_firmware_process_quit(s)
    [] action = "component_process_quit" -> pldm_fwup_component_process_quit(s)
    [] OTHER -> s

RowsOf(s) == {r \in pldm_fwup_transforms : r.cur = s.cur_state /\ r.event = s.event_id}

\* gs_event_id is not consumed: it stays until a handler writes it again.
pldm_fwup_state_machine_switch(s, cb_ok) ==
  LET s0 == [s EXCEPT !.timeout_occur_flag = FALSE]
      row == CHOOSE r \in RowsOf(s) : TRUE
      t == pldm_fwup_sta_chg([s0 EXCEPT !.progress_flag = FALSE], row.next)
      u == IF s.event_id = UD_COMP_END
           THEN [t EXCEPT !.pd = "open", !.image_file = <<>>] ELSE t
  IN  IF RowsOf(s) = {} THEN s0 ELSE RunAction(row.action, u, cb_ok)

(***************************************************************************)
(* pldm_fwup_process: the reply starts as a success; the 15 minute limit   *)
(* of a session is looked at when an answer was due and the command is not *)
(* an inventory command, nor a cancellation.                               *)
(***************************************************************************)
pldm_fwup_timeout_process(s) ==
  IF ~s.is_in_upgrade_mode \/ s.cur_state = IDLE \/ ~s.overtime THEN s
  ELSE pldm_fwup_firmware_process_quit(
         pldm_fwup_sta_chg([s EXCEPT !.timeout_occur_flag = TRUE], IDLE))

IsCancel(s, cmd) ==
  \/ cmd = "CancelUpdate"
  \/ cmd = "CancelUpdateComponent" /\ s.cur_state \in DOWNLOAD .. APPLY

Received ==
  [fd EXCEPT !.cpl = SUCCESS, !.reason = NoReason, !.sent = <<>>]

Prologue(cmd) ==
  LET s == Received IN
  IF ~s.need_rsp \/ cmd \in InventoryCommands \cup {"Unsupported"} THEN s
  ELSE [(IF IsCancel(s, cmd) THEN s ELSE pldm_fwup_timeout_process(s))
          EXCEPT !.need_rsp = FALSE]

\* The end of pldm_pkt_process: `s` is the state the handler left.  A session
\* that is not in update mode outside IDLE is refused before the handler.  (The
\* singleton makes TLC evaluate the handler once.)
Packet(s, cb_ok) ==
  \E handled \in {IF ~fd.update_mode /\ fd.cur_state # IDLE
                  THEN Refuse(Received, NOT_IN_UPDATE_MODE) ELSE s} :
    fd' = pldm_fwup_state_machine_switch(handled, cb_ok)

Inventory ==
  \E cmd \in InventoryCommands \ {"GetStatus"} : Packet(Prologue(cmd), TRUE)

Unsupported ==
  Packet(Refuse(Prologue("Unsupported"), COMMAND_UNSUPPORT), TRUE)

GetStatus == Packet(pldm_fwup_getstatus(Prologue("GetStatus")), TRUE)

RequestUpdate ==
  \E size \in TransferSizes, len \in PkgLens :
    Packet(pldm_fwup_requestupdate(Prologue("RequestUpdate"), size, len), TRUE)

GetPackageDataAnswer ==
  \E ok \in BOOLEAN, next \in Handles, crc_ok \in BOOLEAN :
    Packet(pldm_fwup_getpackagedata_recv(Prologue("GetPackageData"), ok, next, crc_ok), TRUE)

PassComponentTable ==
  \E id \in CompIds, v \in Versions, last \in BOOLEAN :
    Packet(pldm_fwup_passcomponenttable(Prologue("PassComponentTable"),
             [comp_identifier |-> id, version |-> v], last), TRUE)

UpdateComponent ==
  \E id \in CompIds, v \in Versions, size \in ImgSizes :
    Packet(pldm_fwup_updatecomponent(Prologue("UpdateComponent"),
             [comp_identifier |-> id, version |-> v], size), TRUE)

\* A late GetPackageData answer rewinds the offset the data transfer shares with
\* it, so the file can grow for ever: MaxBlocks bounds it.
RequestFirmwareDataAnswer ==
  /\ Len(fd.image_file) < MaxBlocks
  /\ \E ok \in BOOLEAN, origin \in Origins, cb_ok \in CallbackResults :
       Packet(pldm_fwup_requestfwdata_recv(Prologue("RequestFirmwareData"), ok, origin, cb_ok),
              TRUE)

TransferCompleteAnswer ==
  \E ok \in BOOLEAN, cb_ok \in CallbackResults :
    Packet(pldm_fwup_transfercpl_recv(Prologue("TransferComplete"), ok), cb_ok)

VerifyCompleteAnswer ==
  \E ok \in BOOLEAN :
    Packet(pldm_fwup_verifycpl_recv(Prologue("VerifyComplete"), ok), TRUE)

ApplyCompleteAnswer ==
  \E ok \in BOOLEAN :
    Packet(pldm_fwup_applycpl_recv(Prologue("ApplyComplete"), ok), TRUE)

ActivateFirmware ==
  \E self, flash_ok \in BOOLEAN :
    Packet(pldm_fwup_activatefw(Prologue("ActivateFirmware"), self, flash_ok), TRUE)

CancelUpdateComponent ==
  Packet(pldm_fwup_compupdate_cancel(Prologue("CancelUpdateComponent")), TRUE)

CancelUpdate ==
  Packet(pldm_fwup_fwupdate_cancel(Prologue("CancelUpdate")), TRUE)

\* Fifteen minutes have gone by since the session was entered.
TimePasses ==
  /\ fd.is_in_upgrade_mode /\ ~fd.overtime
  /\ fd' = [fd EXCEPT !.overtime = TRUE]

Next ==
  \/ Inventory
  \/ Unsupported
  \/ GetStatus
  \/ RequestUpdate
  \/ GetPackageDataAnswer
  \/ PassComponentTable
  \/ UpdateComponent
  \/ RequestFirmwareDataAnswer
  \/ TransferCompleteAnswer
  \/ VerifyCompleteAnswer
  \/ ApplyCompleteAnswer
  \/ ActivateFirmware
  \/ CancelUpdateComponent
  \/ CancelUpdate
  \/ TimePasses

Spec == Init /\ [][Next]_fd

(***************************************************************************)
(* Properties, whatever the agent sends.                                   *)
(***************************************************************************)

\* The record of the C file's variables keeps its types.
TypeOK == fd \in FdType

\* update_mode, is_in_upgrade_mode and the state tell the same story between two
\* packets, though three different places write them: so the refusal of
\* commands outside update mode (pldm_fwup_process) can never strike a session.
ModeMatchesState ==
  /\ fd.update_mode = fd.is_in_upgrade_mode
  /\ fd.update_mode <=> fd.cur_state # IDLE

\* The event is never consumed and the switch runs once per packet, for every
\* packet.  Still no row of the table is left waiting to fire at the next one.
NoPendingTransition == RowsOf(fd) = {}

\* What is in the receive buffer never exceeds it, nor the package data collected
\* the length announced, so the unsigned subtractions of the two receive handlers
\* do not wrap.  (Nothing compares that length with the package data buffer.)
BuffersInBounds ==
  /\ fd.once_size <= fd.max_transfer_size
  /\ fd.max_transfer_size <= RecvBufMax
  /\ fd.fw_len <= RecvBufMax
  /\ fd.pkg_len <= fd.pkg_total

\* The device told the agent it keeps one transfer request outstanding: a packet
\* makes it send one request at most, though handler and switch can both send.
OneRequestPerPacket == Len(fd.sent) <= 1

\* A session starts from clean counters, however the one before it ended
\* (activated, cancelled in any state, package data refused, overtime) and
\* whatever answers came in late.
NothingLeftInIdle ==
  fd.cur_state = IDLE =>
    /\ fd.once_size = 0 /\ fd.fw_len = 0 /\ fd.fw_total = 0
    /\ fd.pkg_len = 0 /\ fd.pkg_total = 0 /\ fd.new_img = ZeroImg

\* A session ends in one of four ways only; no answer of the agent, at whatever
\* moment it arrives, ends one before its fifteen minutes are over, nor does the
\* cancellation of a component.
SessionEndsOnlyBy ==
  [][fd.update_mode /\ ~fd'.update_mode /\ ~fd.overtime =>
       /\ \/ CancelUpdate
          \/ PassComponentTable /\ fd.want_to_end_update
          \/ ActivateFirmware /\ fd.cur_state = READY_XFER /\ fd.event_id = APPLY_PASS
       /\ ~(\/ GetPackageDataAnswer
            \/ RequestFirmwareDataAnswer
            \/ TransferCompleteAnswer
            \/ VerifyCompleteAnswer
            \/ ApplyCompleteAnswer
            \/ CancelUpdateComponent)]_fd

=============================================================================
