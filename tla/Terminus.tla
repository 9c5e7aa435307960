------------------------------ MODULE Terminus ------------------------------
(***************************************************************************)
(* What the device is to those who look for it: MCTP control               *)
(* (src/source/net/mctp/mctp_ctl.c) and PLDM control                       *)
(* (src/source/net/pldm/pldm_control.c).  An endpoint on each of three     *)
(* interfaces has an address and a flag whether it was discovered; the     *)
(* terminus behind them has one id, and a record of the repository that    *)
(* tells id and address (its place in the repository is in PdrRepo).       *)
(*                                                                         *)
(* The commands that only report are operators: what they answer, without  *)
(* the layout.                                                             *)
(***************************************************************************)
EXTENDS Integers

CONSTANTS
  Interfaces,   \* indices of g_mctp_ctrl_info: 0 is SMBus, the others are VDM
  VdmPayload,   \* those whose packets say VDM_SPLIT_MAX_LEN in mctp_max_payload, which
                \* nothing in the program sets
  Eids, Tids,   \* addresses and ids that are given to the device
  NoRecord      \* the locator record is not in the repository

VARIABLES
  g_mctp_ctrl_info,  \* per interface: discovered, dev_eid
  tid,               \* g_pldm_monitor_info.tid
  locator,           \* the data of the locator record
  rsp                \* the last answer to a command that is to change something

terminusVars == <<g_mctp_ctrl_info, tid, locator, rsp>>

MCTP_EID_NULL == 0
MCTP_EID_BROADCAST == 255
PLDM_TID_UNASSIGN == 0
PLDM_TID_RSVD == 255

ASSUME TerminusAssumption ==
  /\ Interfaces \subseteq 0 .. 2 /\ 1 \in Interfaces
  /\ Eids \subseteq 1 .. 254 /\ Tids \subseteq 1 .. 254

\* What mctp_ctl_process leaves when a handler returns FAILURE: no answer.
Silent == [code |-> "silent", val |-> 0]
SUCCESS(x) == [code |-> "SUCCESS", val |-> x]
Refused(code) == [code |-> code, val |-> 0]

(***************************************************************************)
(* MCTP control.                                                           *)
(***************************************************************************)
\* mctp_base_info_init sets the addresses; the record is in the image of the
\* repository, or it is not, with what was written there once.
mctp_ctrl_init ==
  /\ g_mctp_ctrl_info = [h \in Interfaces |-> [discovered |-> FALSE, dev_eid |-> MCTP_EID_NULL]]
  /\ tid = 103
  /\ locator \in {NoRecord} \cup [tid : Tids, eid : Eids]
  /\ rsp = Silent

\* As a bug would have it: only PLDM looks at the record.
terminus_locator_pdr_chg_not(t, e) == locator

\* The record, whose address is that of interface 1 whichever was set.
terminus_locator_pdr_chg(t, e) ==
  IF locator = NoRecord THEN NoRecord ELSE [tid |-> t, eid |-> e]

SET_EID == 0
FORCE_EID == 1
RESET_EID == 2
SET_DISC_FLAG == 3

\* As a bug would have it: whatever the interface, the first VDM one is set.
Addressed_first(h, e) ==
  [g_mctp_ctrl_info EXCEPT ![1] = [discovered |-> TRUE, dev_eid |-> e]]

Addressed(h, e) ==
  [g_mctp_ctrl_info EXCEPT ![h] = [discovered |-> TRUE, dev_eid |-> e]]

mctp_set_eid(h, op, e) ==
  /\ UNCHANGED tid
  /\ \/ /\ \/ op = RESET_EID
           \/ op \in {SET_EID, FORCE_EID} /\ e \in {MCTP_EID_NULL, MCTP_EID_BROADCAST}
        /\ rsp' = Refused("INVALIDDATA")
        /\ UNCHANGED <<g_mctp_ctrl_info, locator>>
     \/ /\ \/ op = SET_DISC_FLAG
           \/ op \in {SET_EID, FORCE_EID} /\ e \notin {MCTP_EID_NULL, MCTP_EID_BROADCAST}
        /\ g_mctp_ctrl_info' =
             Addressed(h, IF op = SET_DISC_FLAG THEN g_mctp_ctrl_info[h].dev_eid ELSE e)
        /\ rsp' = SUCCESS(g_mctp_ctrl_info'[h].dev_eid)
        /\ locator' = terminus_locator_pdr_chg(tid, g_mctp_ctrl_info'[1].dev_eid)

OverVdm(h) == h \in VdmPayload

\* As a bug would have it: the flag is left alone.
Undiscovered_not(h) == g_mctp_ctrl_info

Undiscovered(h) ==
  [g_mctp_ctrl_info EXCEPT ![h] = [discovered |-> FALSE, dev_eid |-> @.dev_eid]]

mctp_prepare_for_eid_discovery(h) ==
  /\ IF OverVdm(h)
     THEN rsp' = SUCCESS(0) /\ g_mctp_ctrl_info' = Undiscovered(h)
     ELSE rsp' = Refused("UNSUPPORT") /\ UNCHANGED g_mctp_ctrl_info
  /\ UNCHANGED <<tid, locator>>

mctp_eid_discovery(h) ==
  /\ rsp' = CASE ~OverVdm(h) -> Refused("UNSUPPORT")
              [] OverVdm(h) /\ g_mctp_ctrl_info[h].discovered -> Silent
              [] OTHER -> SUCCESS(0)
  /\ UNCHANGED <<g_mctp_ctrl_info, tid, locator>>

mctp_get_eid(h) ==
  SUCCESS(IF g_mctp_ctrl_info[h].discovered THEN g_mctp_ctrl_info[h].dev_eid ELSE 0)

\* Every interface, discovered or not.
mctp_query_supported_interfaces ==
  SUCCESS([h \in Interfaces |-> g_mctp_ctrl_info[h].dev_eid])

mctp_get_msg_type_sup == SUCCESS({"PLDM", "NCSI", "VDPCI"})

mctp_get_ver_sup(type) ==
  CASE type \in {"MCTPBASE", "CONTROL"} -> SUCCESS("1.3.1")
    [] type \in {"PLDM", "SECURED"} -> SUCCESS("1.0.0")
    [] type \in {"NCSI", "ETHERNET"} -> SUCCESS("1.2.3")
    [] type \in {"NVMEMI", "SPDM"} -> SUCCESS("1.0.1")
    [] type \in {"VDPCI", "VDIANA"} -> SUCCESS("1.2.0")
    [] OTHER -> Refused("MSGTYPEUNSP")

\* There is one set, after which 255 says that there are no more.
mctp_get_vendor_defined_msg_sup(selector) ==
  IF selector = 0 THEN SUCCESS(255) ELSE Silent

\* Answers to requests that mctp_resolve_eid_req and mctp_discovery_notify_req
\* would send, which nothing calls.
mctp_resolve_eid_rsp == Silent
mctp_discovery_notify_rsp == Silent

\* Whether a limit may be set.
mctp_query_rate_limit(h) == SUCCESS(h # 0)
mctp_request_tx_rate_limit(h) == IF h = 0 THEN Refused("INVALIDDATA") ELSE SUCCESS(0)
mctp_update_rate_limit == SUCCESS(0)

(***************************************************************************)
(* PLDM control.                                                           *)
(***************************************************************************)
pldm_ctrl_set_tid(t) ==
  /\ UNCHANGED g_mctp_ctrl_info
  /\ IF t \in {PLDM_TID_UNASSIGN, PLDM_TID_RSVD}
     THEN rsp' = Refused("INVALIDDATA") /\ UNCHANGED <<tid, locator>>
     ELSE /\ rsp' = SUCCESS(0)
          /\ tid' = t
          /\ locator' = terminus_locator_pdr_chg(t, g_mctp_ctrl_info[1].dev_eid)

pldm_ctrl_get_tid == SUCCESS(tid)

CONTROL == 0
MONITOR == 2
FRU_DATA == 4
UPDATE == 5
REDFISH == 6

pldm_ctrl_get_type == SUCCESS({CONTROL, MONITOR, FRU_DATA, UPDATE, REDFISH})

PLDM_TYPE_VERSION ==
  [t \in {CONTROL, MONITOR, FRU_DATA, UPDATE, REDFISH} |->
     CASE t = MONITOR -> "1.2.0" [] t = REDFISH -> "1.1.0" [] OTHER -> "1.0.0"]

\* A transfer that does not begin with its first part gets the version and an
\* error code.
pldm_ctrl_get_ver(type, first) ==
  CASE type \notin DOMAIN PLDM_TYPE_VERSION -> Refused("INVALID_PLDM_TYPE")
    [] type \in DOMAIN PLDM_TYPE_VERSION /\ ~first -> Refused("INVALID_TRANSFER_OPERATION_FLAG")
    [] OTHER -> SUCCESS(PLDM_TYPE_VERSION[type])

\* The bits of a word of the answer, as command codes.
Bits(word, from) == {from + b : b \in {i \in 0 .. 30 : (word \div 2^i) % 2 = 1}}

pldm_cmd ==
  [t \in {CONTROL, MONITOR, FRU_DATA, UPDATE, REDFISH} |->
     CASE t = CONTROL -> Bits(\h3E, 0)
       [] t = MONITOR -> Bits(\h002F3C38, 0) \cup Bits(\h00000003, 32) \cup Bits(\h000b0000, 64)
       [] t = FRU_DATA -> Bits(\h6, 0)
       [] t = UPDATE -> Bits(\h3CFB0006, 0)
       [] t = REDFISH -> Bits(\h007F1FFE, 0) \cup Bits(\h00030000, 32)]

\* The words behind the last one of a type are not written: the answer has whatever
\* the buffer held there.  What follows is what the device means to announce.

\* As a bug would have it: every type has the version of the first.
pldm_ctrl_get_cmd_first(type, version) ==
  IF version = PLDM_TYPE_VERSION[CONTROL] THEN SUCCESS(pldm_cmd[type])
  ELSE Refused("INVALID_PLDM_VERSION")

pldm_ctrl_get_cmd(type, version) ==
  CASE type \notin DOMAIN pldm_cmd -> Refused("INVALID_PLDM_TYPE")
    [] type \in DOMAIN pldm_cmd /\ version # PLDM_TYPE_VERSION[type] -> Refused("INVALID_PLDM_VERSION")
    [] OTHER -> SUCCESS(pldm_cmd[type])

=============================================================================
