------------------------------ MODULE PldmFru ------------------------------
(***************************************************************************)
(* The FRU record table (src/source/net/pldm/pldm_fru_data.c).  It is      *)
(* built once, at start-up, and read one record set per packet.            *)
(*                                                                         *)
(* A transfer handle is a byte offset into the table.  The device keeps    *)
(* the handle it expects next in one static variable, whoever asks, and    *)
(* compares even the first request of a read with it.                      *)
(*                                                                         *)
(* The text of a field is its length; a checksum is the record sets that   *)
(* it covers, in their order.                                              *)
(***************************************************************************)
EXTENDS Integers, Sequences, FiniteSetsExt

CONSTANTS
  MAX_LAN_NUM,  \* ports
  VpdLens       \* lengths of what "%s" finds in vpd_sn, which nothing sets

VARIABLES
  vpd,                   \* the length it found
  gs_prev_transfer_hdl,
  rsp                    \* the last answer to GetFRURecordTable

fruVars == <<vpd, gs_prev_transfer_hdl, rsp>>

ASSUME FruAssumption ==
  /\ MAX_LAN_NUM \in 1 .. 4
  /\ VpdLens # {} /\ VpdLens \subseteq 0 .. 20

(***************************************************************************)
(* The table.                                                              *)
(***************************************************************************)
Tlvs(types, lens) == [i \in 1 .. Len(lens) |-> [type |-> types[i], len |-> lens[i]]]

\* vals[FIELD_...] in the order of the enumeration; the IANA number is the
\* last of them and has no zero byte.
pldm_fru_fill_general_part ==
  Tlvs([i \in 1 .. 15 |-> i], <<0, 0, 1, 1, 1, 13, 1, 1, 0, 25, 0, 1, 0, 0, 4>>)

pldm_fru_fill_chip_part(v) ==
  Tlvs([i \in 1 .. 8 |-> i], <<4, 23, 11 + v, 16, 16, 17, 17, 21>>)

pldm_fru_fill_portn_part == Tlvs(<<1, 129, 130>>, <<4, 13, 29>>)

pldm_fru_fill_main_part(v) ==
  << [set |-> 1, type |-> 1, tlv |-> pldm_fru_fill_general_part],
     [set |-> 3, type |-> 254, tlv |-> pldm_fru_fill_chip_part(v)] >>

pldm_fru_fill_sub_part ==
  [i \in 1 .. MAX_LAN_NUM |-> [set |-> 3 + i, type |-> 254, tlv |-> pldm_fru_fill_portn_part]]

\* pldm_fru_init, but for the head.
Table(v) == pldm_fru_fill_main_part(v) \o pldm_fru_fill_sub_part

Count == 2 + MAX_LAN_NUM   \* num_of_records_set_identifiers
Records == 1 .. Count

\* sizeof(pldm_fru_record_table_field_fmt_t) and the fields behind it.
Size(v, i) ==
  5 + MapThenSumSet(LAMBDA j : 2 + Table(v)[i].tlv[j].len, DOMAIN Table(v)[i].tlv)

\* Where a record set starts; the one behind the last is the end.
Starts ==
  [v \in VpdLens |-> [i \in 1 .. Count + 1 |->
     MapThenSumSet(LAMBDA j : Size(v, j), 1 .. i - 1)]]

Start(v, i) == Starts[v][i]

fru_table_len(v) == Start(v, Count + 1)

\* What the handles and the walk from one to the next rest on.
ASSUME StartAssumption ==
  \A v \in VpdLens :
    /\ Start(v, 1) = 0 /\ Start(v, Count + 1) \in Nat
    /\ \A i \in Records :
         /\ Start(v, i) \in Nat /\ Size(v, i) \in Nat \ {0, 1}
         /\ Start(v, i + 1) = Start(v, i) + Size(v, i)
    /\ \A i, j \in 1 .. Count + 1 : i < j => Start(v, i) < Start(v, j)

\* The buffer the table is built in is never exceeded.
ASSUME BufferAssumption ==
  \A v \in VpdLens : 14 + fru_table_len(v) <= IF MAX_LAN_NUM = 2 THEN 536 ELSE 906

RecordAt(v, hdl) == CHOOSE i \in Records : Start(v, i) = hdl

\* pldm_fru_find_next_fru_data, as an offset.
pldm_fru_find_next_fru_data(v, hdl) == hdl + Size(v, RecordAt(v, hdl))

pldm_fru_fill_pad(len) == (4 - (len % 4)) % 4

(***************************************************************************)
(* The commands.                                                           *)
(***************************************************************************)
GET_NEXT_PART == 0
GET_FIRST_PART == 1
ACK_ONLY == 2

START_AND_END == 5
END_FLG == 4
MIDDLE_FLG == 2

Refusal(code) == [code |-> code, next |-> 0, flag |-> 0, part |-> 0, len |-> 0]

\* The whole of the table, as the checksum of GetFRURecordTableMetadata covers
\* it.  That command and the table itself never change anything.
metadata_checksum == [i \in Records |-> i]

pldm_fru_init ==
  /\ vpd \in VpdLens
  /\ gs_prev_transfer_hdl = 0
  /\ rsp = Refusal("none")

Next_hdl(v, hdl) ==
  LET next_part == pldm_fru_find_next_fru_data(v, hdl)
  IN  IF next_part >= fru_table_len(v) - 1 THEN 0 ELSE next_part

transfer_flg(v, req, hdl) ==
  CASE Next_hdl(v, hdl) # 0 -> MIDDLE_FLG
    [] Next_hdl(v, hdl) = 0 /\ req.hdl = GET_FIRST_PART -> START_AND_END
    [] OTHER -> END_FLG

\* A part, its padding and its checksum.
Portion(v, req, hdl) ==
  LET cpy_len == Size(v, RecordAt(v, hdl))
  IN  [ code |-> "SUCCESS", next |-> Next_hdl(v, hdl), flag |-> transfer_flg(v, req, hdl),
        part |-> RecordAt(v, hdl), len |-> cpy_len + pldm_fru_fill_pad(cpy_len) + 4 ]

\* What a request is taken to ask for.
data_transfer_hdl(req) == IF req.op = GET_FIRST_PART THEN 0 ELSE req.hdl

\* As a bug would have it: the part that is due, whichever is asked for.
Answer_due(req) == Portion(vpd, req, gs_prev_transfer_hdl)

Answer(req) ==
  CASE data_transfer_hdl(req) # gs_prev_transfer_hdl ->
         Refusal("INVALID_DATA_TRANSFER_HANDLE")
    [] data_transfer_hdl(req) = gs_prev_transfer_hdl
       /\ req.op \notin {GET_FIRST_PART, GET_NEXT_PART} ->
         Refusal("INVALID_TRANSFER_OPERATION_FLAG")
    [] OTHER -> Portion(vpd, req, data_transfer_hdl(req))

\* As a bug would have it: the last part does not set the handle back.
Expected_kept(r) == IF r.next # 0 THEN r.next ELSE gs_prev_transfer_hdl

\* The handle that is expected after answer r.
Expected(r) == IF r.code = "SUCCESS" THEN r.next ELSE gs_prev_transfer_hdl

pldm_fru_get_fru_record_table(req) ==
  /\ rsp' = Answer(req)
  /\ gs_prev_transfer_hdl' = Expected(rsp')
  /\ UNCHANGED vpd
=============================================================================
