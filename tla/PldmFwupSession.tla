-------------------------- MODULE PldmFwupSession --------------------------
(***************************************************************************)
(* A session between the firmware device of PldmFwup and an update agent   *)
(* that keeps to the protocol: it answers the one request the device has   *)
(* outstanding, and nothing else, with the bytes that were asked for; while *)
(* a request is outstanding it sends only inventory commands and            *)
(* cancellations.  It may refuse a request, and an answer may get lost,     *)
(* after which the device, which never repeats a request, waits.            *)
(*                                                                         *)
(* What the agent knows (the request it owes an answer, the image it       *)
(* offered and how many of its bytes it has delivered) is kept beside fd,  *)
(* so that the properties can relate the device's counters to it.  That    *)
(* every step is a step of PldmFwup is a theorem of PldmFwupSessionProofs.*)
(***************************************************************************)
EXTENDS PldmFwup

VARIABLES
  due,        \* the request of the device the agent has not answered
  offered,    \* size of the image of the component under update
  delivered,  \* bytes of that image delivered, from its start, without a gap
  nth,        \* component of the session under update: 1st, 2nd or later (2)
  failed,     \* since the session or the component began: a refusal, a loss
  late        \* an answer has reached the device after its session had ended

vars == <<fd, due, offered, delivered, nth, failed, late>>

NoRequest == [cmd |-> "none"]

SessionInit ==
  /\ Init
  /\ due = NoRequest /\ offered = 0 /\ delivered = 0 /\ nth = 0
  /\ failed = FALSE /\ late = FALSE

\* What is due after a packet: the request the device sent in it, or `otherwise'.
Due(otherwise) == IF fd'.sent # <<>> THEN fd'.sent[1] ELSE otherwise

(***************************************************************************)
(* Commands of the agent.  A session begins when RequestUpdate succeeds (an *)
(* overtime one makes room for it in the same packet), the update of a     *)
(* component when the device enters DOWNLOAD in the packet that asks.      *)
(***************************************************************************)
SessionRequestUpdate ==
  /\ due = NoRequest
  /\ RequestUpdate
  /\ due' = Due(NoRequest)
  /\ LET accepted == fd'.cpl = SUCCESS IN
       /\ nth' = IF accepted THEN 0 ELSE nth
       /\ failed' = (~accepted /\ failed)
  /\ UNCHANGED <<offered, delivered, late>>

SessionUpdateComponent ==
  /\ due = NoRequest
  /\ UpdateComponent
  /\ due' = Due(NoRequest)
  /\ LET accepted == fd.cur_state = READY_XFER /\ fd'.cur_state = DOWNLOAD IN
       /\ offered' = IF accepted THEN fd'.fw_total ELSE offered
       /\ delivered' = IF accepted THEN 0 ELSE delivered
       /\ nth' = IF accepted THEN MinOf(nth + 1, 2) ELSE nth
       /\ failed' = (~accepted /\ failed)
  /\ UNCHANGED late

SessionCommand ==
  /\ due = NoRequest
  /\ PassComponentTable \/ ActivateFirmware
  /\ due' = Due(NoRequest)
  /\ UNCHANGED <<offered, delivered, nth, failed, late>>

SessionQuery ==
  /\ Inventory \/ GetStatus \/ Unsupported
  /\ due' = Due(due)
  /\ UNCHANGED <<offered, delivered, nth, failed, late>>

\* An accepted cancellation frees the agent of the answer it owes.
SessionCancel ==
  /\ \/ CancelUpdate /\ due' = Due(NoRequest)
     \/ CancelUpdateComponent
          /\ due' = Due(IF fd.cur_state \in DOWNLOAD .. APPLY THEN NoRequest ELSE due)
  /\ UNCHANGED <<offered, delivered, nth, failed, late>>

SessionTimePasses ==
  /\ TimePasses
  /\ UNCHANGED <<due, offered, delivered, nth, failed, late>>

(***************************************************************************)
(* Answers of the agent.  Answer(ok, cb_ok) is PldmFwup's handler for the  *)
(* request that is due; the bytes of a data answer start where it asked.   *)
(***************************************************************************)
AnswerGetPackageData(ok) ==
  /\ due.cmd = "GetPackageData"
  /\ \E next \in Handles, crc_ok \in BOOLEAN :
       Packet(pldm_fwup_getpackagedata_recv(Prologue("GetPackageData"), ok, next, crc_ok), TRUE)
  /\ UNCHANGED delivered

AnswerRequestFirmwareData(ok, cb_ok) ==
  /\ due.cmd = "RequestFirmwareData"
  /\ due.offset \in Origins
  /\ Len(fd.image_file) < MaxBlocks
  /\ Packet(pldm_fwup_requestfwdata_recv(Prologue("RequestFirmwareData"), ok,
              due.offset, cb_ok), TRUE)
  /\ delivered' = IF ok /\ due.offset = delivered
                  THEN MinOf(offered, delivered + due.len) ELSE delivered

AnswerTransferComplete(ok, cb_ok) ==
  /\ due.cmd = "TransferComplete"
  /\ Packet(pldm_fwup_transfercpl_recv(Prologue("TransferComplete"), ok), cb_ok)
  /\ UNCHANGED delivered

AnswerVerifyComplete(ok) ==
  /\ due.cmd = "VerifyComplete"
  /\ Packet(pldm_fwup_verifycpl_recv(Prologue("VerifyComplete"), ok), TRUE)
  /\ UNCHANGED delivered

AnswerApplyComplete(ok) ==
  /\ due.cmd = "ApplyComplete"
  /\ Packet(pldm_fwup_applycpl_recv(Prologue("ApplyComplete"), ok), TRUE)
  /\ UNCHANGED delivered

AgentAnswers(ok, cb_ok) ==
  /\ \/ AnswerGetPackageData(ok)
     \/ AnswerRequestFirmwareData(ok, cb_ok)
     \/ AnswerTransferComplete(ok, cb_ok)
     \/ AnswerVerifyComplete(ok)
     \/ AnswerApplyComplete(ok)
  /\ due' = Due(NoRequest)
  /\ failed' = (failed \/ ~ok \/ ~cb_ok)
  /\ late' = (late \/ fd'.cur_state = IDLE)
  /\ UNCHANGED <<offered, nth>>

AnswerIsLost ==
  /\ due # NoRequest
  /\ due' = NoRequest
  /\ failed' = TRUE
  /\ UNCHANGED <<fd, offered, delivered, nth, late>>

SessionNext ==
  \/ SessionRequestUpdate
  \/ SessionUpdateComponent
  \/ SessionCommand
  \/ SessionQuery
  \/ SessionCancel
  \/ SessionTimePasses
  \/ \E ok \in BOOLEAN, cb_ok \in CallbackResults : AgentAnswers(ok, cb_ok)
  \/ AnswerIsLost

\* An agent that has not given up answers what it was asked.  Nothing makes it
\* send a command, and refusals, losses and the timer remain possible.
SessionSpec == SessionInit /\ [][SessionNext]_vars /\ WF_vars(AgentAnswers(TRUE, TRUE))

(***************************************************************************)
(* Properties.                                                             *)
(***************************************************************************)

\* The request that is due belongs to the state the device is in, and a data
\* request is about the bytes its next answer will be counted for: neither the
\* switch nor a cancellation leaves an agent answering for another state.  The
\* exceptions are sessions the timer ended: as a data answer came in, whose
\* handler then runs in IDLE and completes the transfer, or as a refused
\* CancelUpdateComponent did while package data were on their way.
DueMatchesState ==
  CASE due.cmd = "GetPackageData" ->
         fd.cur_state = LEARN_COMP \/ (fd.cur_state = IDLE /\ fd.overtime)
    [] due.cmd = "RequestFirmwareData" ->
         /\ fd.cur_state = DOWNLOAD
         /\ due.offset = fd.data_transfer_handle /\ due.len = fd.once_size
    [] due.cmd = "TransferComplete" -> fd.cur_state = DOWNLOAD \/ (fd.cur_state = IDLE /\ late)
    [] due.cmd = "VerifyComplete" -> fd.cur_state = VERIFY
    [] due.cmd = "ApplyComplete" -> fd.cur_state = APPLY
    [] OTHER -> TRUE

\* While a component is transferred, verified or applied, the device has asked
\* for something: without a refusal, a loss or a failed callback the two sides
\* never wait for each other.
NeverBothWait ==
  fd.cur_state \in DOWNLOAD .. APPLY /\ ~failed => due # NoRequest

\* A component that has been transferred without an error: the last handler sent
\* TransferComplete with success, or the state machine went on from there.
Transferred ==
  \/ due = [cmd |-> "TransferComplete", result |-> 0] /\ fd.cur_state = DOWNLOAD
  \/ fd.cur_state \in {VERIFY, APPLY}
  \/ fd.cur_state = READY_XFER /\ fd.event_id = APPLY_PASS

\* A success means that every byte of the image was asked for and delivered, in
\* order and without a gap, whatever the transfer size; and a component table is
\* accepted only when the package data that was announced has arrived, unless an
\* answer came in after an earlier session had ended: it leaves
\* getpackagedata_progress set for the next one.
TransferredIsDelivered ==
  /\ Transferred => delivered = offered
  /\ fd.cur_state = READY_XFER /\ ~late => fd.pkg_len = fd.pkg_total

\* What the blocks of the file hold are the first bytes of the image, in order, and
\* once the transfer is a success the file is closed and holds every full block, so
\* all of the image when its size is a multiple of the buffer's.  It is written and
\* closed only while it is open, in spite of answers that come when the timer has
\* just ended the session.
\* Excluded is a later component of a session whose blocks are written straight
\* from the packet (max_transfer_size = RecvBufMax).
InOrder(blocks) ==
  \A b \in 1 .. Len(blocks) : \A i \in 0 .. RecvBufMax - 1 :
    blocks[b][i] = (b - 1) * RecvBufMax + i

FileIsSound == nth = 1 \/ (nth = 2 /\ fd.max_transfer_size < RecvBufMax)

FileIsInOrder ==
  /\ fd.pd # "misused"
  /\ FileIsSound => InOrder(fd.image_file)
  /\ Transferred /\ FileIsSound =>
       /\ fd.pd = "closed"
       /\ Len(fd.image_file) * RecvBufMax + RecvBufMax > offered

\* Package data and a transfer that are answered come to an end: applied, or the
\* device back in IDLE.  A transfer size of 0, which RequestUpdate accepts, is excluded: the
\* device then asks for nothing, for ever.
TransferEnds ==
  /\ fd.cur_state = DOWNLOAD ~>
       fd.cur_state \in {READY_XFER, IDLE} \/ failed \/ fd.max_transfer_size = 0
  /\ fd.cur_state = LEARN_COMP /\ fd.pkg_total > 0 ~>
       \/ fd.getpackagedata_progress \/ fd.cur_state # LEARN_COMP
       \/ failed \/ fd.max_transfer_size = 0

(***************************************************************************)
(* The session implements an image transfer.                               *)
(***************************************************************************)
Phase ==
  CASE fd.cur_state = DOWNLOAD -> "moving"
    [] fd.cur_state = VERIFY -> "verifying"
    [] fd.cur_state = APPLY -> "applying"
    [] fd.cur_state = READY_XFER /\ fd.event_id = APPLY_PASS -> "applied"
    [] OTHER -> "none"

Transfer == INSTANCE ImageTransfer
  WITH Sizes <- ImgSizes, phase <- Phase, size <- offered, got <- delivered

\* The device takes an image through transfer, verification and application in
\* that order, and leaves the transfer only with all of its bytes.
ImplementsImageTransfer == Transfer!TransferSpec

(***************************************************************************)
(* What comments of the code say and the code does not do.                 *)
(***************************************************************************)

\* "0 : Transfer has completed without error" (pldm_fwup_requestfwdata_recv): the
\* file then holds the whole image.
CompletedWithoutError ==
  due = [cmd |-> "TransferComplete", result |-> 0] /\ fd.cur_state = DOWNLOAD =>
    Len(fd.image_file) * RecvBufMax >= offered

=============================================================================
