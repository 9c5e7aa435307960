--------------------------- MODULE PldmFruSession ---------------------------
(***************************************************************************)
(* Controllers that read the FRU record table, each the way the generator  *)
(* does (src/source/pkt_gen/pldm_gen/pldm_fru_data_gen): it goes on from   *)
(* the handle of the last answer it got, from the first part when that is  *)
(* 0, and runs a checksum over the parts until one says that it is the     *)
(* last.  The device does not tell controllers apart, answers get lost,    *)
(* and a controller may be reset in the middle of a read.                  *)
(***************************************************************************)
EXTENDS PldmFru

CONSTANTS
  Controllers,
  None          \* no read has ended

VARIABLES
  next_data_transfer_hdl,  \* of get_fru_record_table_rsp_dat
  cal_crc32,               \* the parts it covers
  reading,                 \* event_id is PLDM_FRU_GEN_ENTER_CMD_02
  result,                  \* the checksum that the last finished read ended with
  broken                   \* an answer was lost, or a read was given up

genVars == <<next_data_transfer_hdl, cal_crc32, reading, result, broken>>
vars == <<fruVars, genVars>>

\* pldm_fru_gen_cmd_02.
Request(c) ==
  [ hdl |-> next_data_transfer_hdl[c],
    op  |-> IF next_data_transfer_hdl[c] = 0 THEN GET_FIRST_PART ELSE GET_NEXT_PART ]

Init ==
  /\ pldm_fru_init
  /\ next_data_transfer_hdl = [c \in Controllers |-> 0]
  /\ cal_crc32 = [c \in Controllers |-> <<>>]
  /\ reading = [c \in Controllers |-> FALSE]
  /\ result = [c \in Controllers |-> None]
  /\ broken = FALSE

\* Command 2 is chosen.
pldm_fru_gen(c) ==
  /\ ~reading[c]
  /\ reading' = [reading EXCEPT ![c] = TRUE]
  /\ UNCHANGED <<fruVars, next_data_transfer_hdl, cal_crc32, result, broken>>

IsEnd(r) == r.flag \in {START_AND_END, END_FLG}

Covered(c) == IF IsEnd(rsp') THEN <<>> ELSE Append(cal_crc32[c], rsp'.part)

\* pldm_fru_gen_recv_cmd_02.
Receive(c) ==
  IF rsp'.code # "SUCCESS"
  THEN /\ reading' = [reading EXCEPT ![c] = FALSE]
       /\ UNCHANGED <<next_data_transfer_hdl, cal_crc32, result>>
  ELSE /\ next_data_transfer_hdl' = [next_data_transfer_hdl EXCEPT ![c] = rsp'.next]
       /\ cal_crc32' = [cal_crc32 EXCEPT ![c] = Covered(c)]
       /\ reading' = [reading EXCEPT ![c] = ~IsEnd(rsp')]
       /\ result' = [result EXCEPT ![c] =
                       IF IsEnd(rsp') THEN Append(cal_crc32[c], rsp'.part) ELSE @]

\* A round of the loop in pldm_process: pldm_fru_state_transform_switch makes
\* the request, which is answered before the loop goes on.
Read(c) ==
  /\ reading[c]
  /\ pldm_fru_get_fru_record_table(Request(c))
  /\ Receive(c)
  /\ UNCHANGED broken

\* The answer gets lost, and the controller waits for its next command.
LoseAnswer(c) ==
  /\ reading[c]
  /\ pldm_fru_get_fru_record_table(Request(c))
  /\ reading' = [reading EXCEPT ![c] = FALSE]
  /\ broken' = TRUE
  /\ UNCHANGED <<next_data_transfer_hdl, cal_crc32, result>>

\* The controller is reset.
Reset(c) ==
  /\ reading' = [reading EXCEPT ![c] = FALSE]
  /\ next_data_transfer_hdl' = [next_data_transfer_hdl EXCEPT ![c] = 0]
  /\ cal_crc32' = [cal_crc32 EXCEPT ![c] = <<>>]
  /\ broken' = TRUE
  /\ UNCHANGED <<fruVars, result>>

\* A controller that does not keep to the protocol: any handle it was ever
\* told, with any operation.  It throws the answer away.
Stray(c) ==
  /\ \E hdl \in {Start(vpd, i) : i \in Records}, op \in {GET_NEXT_PART, GET_FIRST_PART, ACK_ONLY} :
       pldm_fru_get_fru_record_table([hdl |-> hdl, op |-> op])
  /\ broken' = TRUE
  /\ UNCHANGED <<next_data_transfer_hdl, cal_crc32, reading, result>>

Next ==
  \E c \in Controllers :
    pldm_fru_gen(c) \/ Read(c) \/ LoseAnswer(c) \/ Reset(c) \/ Stray(c)

Spec == Init /\ [][Next]_vars

\* A command that was chosen is carried out, and commands keep coming.
FairSpec ==
  Spec /\ \A c \in Controllers : WF_vars(Read(c)) /\ WF_vars(pldm_fru_gen(c))

(***************************************************************************)
(* Properties.                                                             *)
(***************************************************************************)
FruTypeOK ==
  /\ vpd \in VpdLens
  /\ gs_prev_transfer_hdl \in {Start(vpd, i) : i \in Records}
  /\ next_data_transfer_hdl \in [Controllers -> {Start(vpd, i) : i \in Records}]
  /\ reading \in [Controllers -> BOOLEAN]
  /\ broken \in BOOLEAN

\* The handle and the checksum of a controller belong together, whoever else
\* moved the device's handle meanwhile: the checksum covers the record sets
\* before the handle, all of them, once and in their order.
Upto(n) == [i \in 1 .. n |-> i]

ChecksumMatchesHandle ==
  \A c \in Controllers : \E i \in Records :
    next_data_transfer_hdl[c] = Start(vpd, i) /\ cal_crc32[c] = Upto(i - 1)

\* Whatever is lost, given up or read by others in between, a read that ends
\* has every record set of the table once and in its order: its checksum is
\* the one GetFRURecordTableMetadata gives.
ReadIsTheTable ==
  \A c \in Controllers : result[c] \in {None, metadata_checksum}

\* While no answer is lost and no read given up, there is always a controller
\* that the device lets go on: a first part is refused only because of another
\* controller's read.
SomeoneMayGoOn ==
  ~broken => \/ gs_prev_transfer_hdl = 0
             \/ \E c \in Controllers : next_data_transfer_hdl[c] = gs_prev_transfer_hdl

\* As long as that is so, reads keep being finished.
ReadsGoOn == ([]~broken) => []<>(rsp.code = "SUCCESS" /\ IsEnd(rsp))
=============================================================================
