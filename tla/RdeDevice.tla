------------------------------ MODULE RdeDevice ------------------------------
(***************************************************************************)
(* The Redfish device of source/net/pldm/pldm_redfish.c: dictionaries, the  *)
(* one operation it can hold, and the transfers of several parts.  The      *)
(* static variables of the file are the fields of the record rde; a handler *)
(* is an operator on that record with the name it has in the source, and    *)
(* also fills in rde.rsp.  Bytes are units: unit i of a value v is <<v, i>>, *)
(* so that what is cut off, mixed or read from the wrong place is seen.  A   *)
(* checksum is the data it was computed over.  The tree that a resource is   *)
(* decoded to is abstracted: an update replaces the whole value.  Locators   *)
(* are stored and never read, and left out.                                 *)
(***************************************************************************)
EXTENDS Integers, Sequences

CONSTANTS
  ResourceIds,      \* the resource ids that occur in requests
  Values,           \* what a resource may hold, "old" and "members" included
  Size,             \* their sizes in units
  Flash,            \* the sizes of the dictionaries in flash, by <<resource, class>>
  BejHdr,           \* sizeof(bejencoding_t)
  CrcLen,           \* sizeof(u32)
  RecvFieldLen,     \* PLDM_MULTI_RECV_FIELD_LEN
  MinChunk,         \* MINIMAL_MCTP_PACKET
  DevChunk,         \* PLDM_REDFISH_DEV_MAXIMUM_XFER_CHUNKSIZE_BYTES
  MaxLanNum,        \* MAX_LAN_NUM
  WordSize          \* 2^32, or less where it makes no difference

ASSUME SizesAssumption ==
  /\ Size \in [Values -> Nat] /\ {"old", "members"} \subseteq Values /\ "damaged" \notin Values
  /\ Size["members"] = MaxLanNum /\ MaxLanNum \in 1 .. 9
  /\ BejHdr \in Nat \ {0} /\ CrcLen \in Nat \ {0} /\ RecvFieldLen \in Nat
  /\ MinChunk \in Nat /\ DevChunk \in Nat /\ RecvFieldLen + CrcLen < MinChunk /\ MinChunk <= DevChunk
  /\ WordSize \in Nat /\ DevChunk < WordSize
  /\ DOMAIN Flash \subseteq Int \X STRING /\ \A k \in DOMAIN Flash : Flash[k] \in Nat
  /\ ResourceIds \subseteq Int

OpTypes == {"HEAD", "READ", "UPDATE", "REPLACE", "ACTION", "CREATE", "DELETE_OP"}

Statuses == {"INACTIVE", "NEEDS_INPUT", "HAVE_RESULTS", "COMPLETED", "FAILED"}
Triggered == {"HAVE_RESULTS", "COMPLETED", "FAILED"}     \* dev_status >= OPERATION_TRIGGERED

AllSchema == -1          \* 0xFFFFFFFF, of the annotation, event and registry dictionaries
All == 65535             \* 0xFFFF in collection_top

(***************************************************************************)
(* Resources.                                                              *)
(***************************************************************************)
PortBase(id) == id \in 100 .. 99 + MaxLanNum \/ id \in 110 .. 109 + MaxLanNum
FuncBase(id) == id \in 200 .. 199 + MaxLanNum \/ id \in 210 .. 209 + MaxLanNum
EthBase(id) == id \in 400 .. 399 + MaxLanNum \/ id \in 410 .. 409 + MaxLanNum

\* What a resource is; the numbers are those of pldm_redfish_schema_identify_t.
NoResource == 255
ALL_SCHEMA == 15
resource_id_to_resource_identity(id) ==
  CASE id = AllSchema -> ALL_SCHEMA
    [] id = 1 -> 4 [] id = 3 -> 5 [] id = 5 -> 6 [] id = 10 -> 7 [] id = 30 -> 8
    [] id = 20 -> 9 [] id = 40 -> 14
    [] FuncBase(id) -> 10 [] PortBase(id) -> 11
    [] id \in 300 .. 299 + MaxLanNum -> 12 [] EthBase(id) -> 13
    [] OTHER -> NoResource

Collections == {7, 9, 14}

\* What pldm_redfish_get_schema_info allows.  For ALL_SCHEMA it returns without
\* filling in its result: any operations; what matters is whether the one that is
\* asked for is among them.
AllowedOps(identity) ==
  CASE identity = ALL_SCHEMA -> {{}, OpTypes}
    [] identity = 8 -> {{}}
    [] identity \in Collections -> {{"READ", "HEAD"}}
    [] identity \in {4, 11} -> {{"READ", "HEAD", "UPDATE", "REPLACE", "ACTION"}}
    [] OTHER -> {{"READ", "HEAD", "UPDATE", "REPLACE"}}

\* The first of the resources numbered like this one.
pldm_redfish_resource_id_to_base(id) ==
  IF id > 100 /\ id <= 409 + MaxLanNum THEN (id \div 10) * 10 ELSE id

\* The place of a resource in g_resource_bej.
bej_idx(id) ==
  LET n == resource_id_to_resource_identity(id) - 4 IN
    (IF n > 6 THEN n + (n - 6) * (MaxLanNum - 1) ELSE n)
      + (id - pldm_redfish_resource_id_to_base(id))

HasEtag(id) == resource_id_to_resource_identity(id) \in 4 .. 14
Places == {bej_idx(id) : id \in {r \in ResourceIds : HasEtag(r)}}

Body(v) == [i \in 1 .. Size[v] |-> <<v, i>>]
BejHeader == [i \in 1 .. BejHdr |-> <<"bejencoding_t", i>>]
Encoded(v) == BejHeader \o Body(v)

\* What is stored at the start, and what an undamaged value looks like.
InitialBody(place) ==
  Body(IF \E id \in ResourceIds :
            /\ HasEtag(id) /\ bej_idx(id) = place
            /\ resource_id_to_resource_identity(id) \in Collections
       THEN "members" ELSE "old")
Undamaged(body) == \E v \in Values : body = Body(v)

(***************************************************************************)
(* State.                                                                  *)
(***************************************************************************)
NoResponse == [kind |-> "none"]

\* What belongs to the operation and its transfers.
OpFields == {"status", "op_type", "op_flag", "skip", "top", "recv_next",
             "send_first", "send_next", "buf", "buf_len", "op_data", "op_result"}

\* multipartrecv_first_transfer_handle is absent: it is only ever set to 0.
FirstHandle == 0

\* ran tells whether the handler executed the operation: the event of it.
pldm_redfish_init ==
  [status |-> "INACTIVE", op_type |-> "HEAD", op_flag |-> {}, skip |-> 0, top |-> All,
   recv_next |-> 0, send_first |-> 0, send_next |-> 0,
   buf |-> "none", buf_len |-> 0, op_data |-> <<>>, op_result |-> <<>>,
   needed |-> <<>>, chunk |-> DevChunk, prev |-> [resource_id |-> 0, op_id |-> 0],
   body |-> [p \in Places |-> InitialBody(p)], etag |-> [p \in Places |-> InitialBody(p)],
   ran |-> FALSE, rsp |-> NoResponse]

pldm_redfish_clear_op_param_status_only(s) == [s EXCEPT !.status = "INACTIVE", !.buf = "none"]

pldm_redfish_clear_op_param(s) ==
  [f \in DOMAIN s |-> IF f \in OpFields THEN pldm_redfish_init[f] ELSE s[f]]

Answer(s, r) == [s EXCEPT !.rsp = r]
Refuse(s, code) == Answer(s, [kind |-> "error", code |-> code, status |-> s.status])
Ok(s) == Answer(s, [kind |-> "ok", code |-> "SUCCESS"])

(***************************************************************************)
(* Executing the operation.                                                *)
(***************************************************************************)

\* The dictionary, when it is in flash, replaces what g_needed_dict held.
InFlash(id, class) == <<pldm_redfish_resource_id_to_base(id), class>> \in DOMAIN Flash
pldm_redfish_get_dict_data(s, id, class) ==
  IF InFlash(id, class)
  THEN [s EXCEPT !.needed = <<pldm_redfish_resource_id_to_base(id), class>>] ELSE s

\* A page of the members of a collection.
pldm_cjson_read(body, isCollection, skip, top) ==
  IF ~isCollection \/ (skip = 0 /\ top = All) THEN body
  ELSE IF top = 0 \/ skip >= MaxLanNum THEN <<>>
  ELSE SubSeq(body, skip + 1, skip + (IF MaxLanNum - skip <= top THEN MaxLanNum - skip ELSE top))

\* The value of a payload; NoValue when it is none that was encoded as a whole.
NoValue == "damaged"
ValueOf(data) ==
  IF \E v \in Values : data = Encoded(v) THEN CHOOSE v \in Values : data = Encoded(v) ELSE NoValue

\* REPLACE and ACTION: op_data without its header, but its length counts the
\* header of the result: the last units are cut off.  A REPLACE with a
\* payload shorter than two headers, for which the code computes a length below 0, is
\* none of the inputs of the runs; here it leaves an empty value.
Copied(data) == SubSeq(data, 1, Len(data) - BejHdr)

Failed(s) == [s EXCEPT !.status = "FAILED"]
WithResult(s, result) ==
  [s EXCEPT !.op_result = result, !.status = IF result = <<>> THEN "COMPLETED" ELSE "HAVE_RESULTS"]

\* decodes: what comes out for a stored value that is damaged.
Execute(s, place, isCollection, decodes) ==
  IF s.op_type # "REPLACE" /\ ~Undamaged(s.body[place]) /\ ~decodes THEN Failed(s)
  ELSE CASE s.op_type \in {"READ", "HEAD"} ->
              WithResult(s, BejHeader \o (IF s.op_type = "HEAD" THEN s.body[place]
                                          ELSE pldm_cjson_read(s.body[place], isCollection, s.skip, s.top)))
         [] s.op_type = "UPDATE" ->
              IF ValueOf(s.op_data) = NoValue \/ isCollection THEN Failed(s)
              ELSE WithResult([s EXCEPT !.body[place] = Body(ValueOf(s.op_data)),
                                        !.etag[place] = Body(ValueOf(s.op_data))], s.op_data)
         [] s.op_type = "REPLACE" ->
              WithResult([s EXCEPT !.body[place] =
                            SubSeq(s.op_data, BejHdr + 1, Len(s.op_data) - BejHdr)], Copied(s.op_data))
         [] s.op_type = "ACTION" -> WithResult(s, Copied(s.op_data))
         [] OTHER -> Failed(s)

\* op_triggered and pldm_redfish_op: TRIGGERED and RUNNING are over before the
\* handler returns.
pldm_redfish_op(s, decodes) ==
  LET id == s.prev.resource_id
      t == [pldm_redfish_get_dict_data(s, id, "MAJOR") EXCEPT !.op_result = <<>>, !.ran = TRUE] IN
    IF ~HasEtag(id) THEN Failed([s EXCEPT !.op_result = <<>>, !.ran = TRUE])
    ELSE IF ~InFlash(id, "MAJOR") THEN Failed(t)
    ELSE Execute(t, bej_idx(id), resource_id_to_resource_identity(id) \in Collections, decodes)

(***************************************************************************)
(* Dictionaries.                                                           *)
(***************************************************************************)

\* NO_SUCH_RESOURCE is never the answer: the code is overwritten at once.
schema_transfer_handle_get(id, class) ==
  LET n == resource_id_to_resource_identity(id)
      special == \/ n = ALL_SCHEMA /\ class # "REGISTRY"
                 \/ n \in {4, 5, 6, 10, 11, 12, 13} /\ class # "MAJOR"
                 \/ n \in Collections \cup {8} /\ class \notin {"MAJOR", "COLLECTION_MEMBER_TYPE"} IN
    IF class = "OTHER" THEN "UNSUPPORTED"
    ELSE IF special /\ class \notin {"EVENT", "ANNOTATION"} THEN "INVALID_DATA" ELSE "SUCCESS"

\* The lengths are in the code, and only those of resource AllSchema depend on the class.
pldm_redfish_get_dict_len(id, class) ==
  LET base == pldm_redfish_resource_id_to_base(id)
      key == <<base, IF base = AllSchema THEN class ELSE "MAJOR">> IN
    IF key \in DOMAIN Flash THEN Flash[key] ELSE 0

\* dictionary_size of what was read; 0 when it is not there, while g_needed_dict stays.
LoadedLen(id, class) == IF InFlash(id, class) THEN pldm_redfish_get_dict_len(id, class) ELSE 0

pldm_redfish_get_schema_dictionary(s, req) ==
  LET code == schema_transfer_handle_get(req.res, req.class) IN
    IF code # "SUCCESS" THEN Refuse(s, code)
    ELSE Answer([pldm_redfish_get_dict_data(s, req.res, req.class) EXCEPT
                   !.buf = "needed",
                   !.buf_len = LoadedLen(req.res, req.class)],
                [kind |-> "handle", code |-> "SUCCESS", handle |-> FirstHandle])

\* The place that is read from stays what it was.
pldm_redfish_get_msg_registry(s, req) ==
  Answer([pldm_redfish_get_dict_data(s, AllSchema, "REGISTRY") EXCEPT
            !.buf_len = LoadedLen(AllSchema, "REGISTRY")],
         [kind |-> "handle", code |-> "SUCCESS", handle |-> FirstHandle])

\* A change of a link encodes its event with the event dictionary.
pldm_redfish_msg_event_generate(s) ==
  [pldm_redfish_get_dict_data(s, AllSchema, "EVENT") EXCEPT !.ran = FALSE]

(***************************************************************************)
(* The operation.                                                          *)
(***************************************************************************)
Current(s, req) == s.prev = [resource_id |-> req.res, op_id |-> req.op_id]

Known(req) == resource_id_to_resource_identity(req.res) # NoResource

Started(s, req) ==
  LET sends == "payload" \in req.flags
      inline == sends /\ req.payload # <<>> IN
    [s EXCEPT !.prev = [resource_id |-> req.res, op_id |-> req.op_id],
              !.op_type = req.op_type,
              !.op_flag = IF inline THEN req.flags \ {"payload"} ELSE req.flags,
              !.op_data = IF inline THEN req.payload ELSE @,
              !.send_first = IF sends /\ ~inline THEN req.handle ELSE @,
              !.send_next = IF sends /\ ~inline THEN req.handle ELSE @]

\* What is still missing before the operation can run.
MissingInput_payload_only(s) == s.op_flag \ {"custom"}
MissingInput(s) == s.op_flag

\* allowed: what pldm_redfish_get_schema_info filled in.  repo_state is never
\* PLDM_REPO_UPDATE_IN_PROGRESS between two packets.
pldm_redfish_rde_operation_init(s, req, allowed, decodes) ==
  LET t == Started(s, req) IN
    IF s.status # "INACTIVE" THEN Refuse(s, "CANNOT_CREATE_OPERATION")
    ELSE IF ~Known(req) THEN Refuse(s, "NO_SUCH_RESOURCE")
    ELSE IF req.op_type \notin allowed THEN Refuse(s, "NOT_ALLOWED")
    ELSE IF Current(s, req) THEN Refuse(s, "OPERATION_EXISTS")
    ELSE IF req.op_id < 32768 THEN Refuse(s, "INVALID_DATA")
    ELSE IF MissingInput(t) # {} THEN Ok([t EXCEPT !.status = "NEEDS_INPUT"])
    ELSE Ok(pldm_redfish_op(t, decodes))

\* The condition a request puts on the entity tag.
EtagCountOk(req) ==
  CASE req.etag_op = "IGNORE" -> req.etags = <<>>
    [] req.etag_op = "IF_MATCH" -> Len(req.etags) = 1
    [] OTHER -> req.etags # <<>>

EtagHolds(s, req) ==
  LET etag == s.etag[bej_idx(req.res)] IN
    CASE req.etag_op = "IGNORE" -> TRUE
      [] req.etag_op = "IF_MATCH" -> req.etags[1] = etag
      [] OTHER -> \A i \in 1 .. Len(req.etags) : req.etags[i] # etag

Paged(s, req) == IF s.op_type = "READ" THEN [s EXCEPT !.skip = req.skip, !.top = req.top] ELSE s

pldm_redfish_supply_custom_request_parameters_any_etag(s, req, decodes) ==
  LET t == [Paged(s, req) EXCEPT !.op_flag = @ \ {"custom"}] IN
    IF ~Known(req) THEN Refuse(s, "NO_SUCH_RESOURCE")
    ELSE IF ~Current(s, req) \/ "custom" \notin s.op_flag THEN Refuse(s, "UNEXPECTED")
    ELSE IF "payload" \in t.op_flag THEN Ok(t)
    ELSE Ok(pldm_redfish_op(t, decodes))

pldm_redfish_supply_custom_request_parameters(s, req, decodes) ==
  LET t == [Paged(s, req) EXCEPT !.op_flag = @ \ {"custom"}] IN
    IF ~Known(req) THEN Refuse(s, "NO_SUCH_RESOURCE")
    ELSE IF ~Current(s, req) \/ "custom" \notin s.op_flag THEN Refuse(s, "UNEXPECTED")
    ELSE IF req.etag_op = "OTHER" THEN Refuse(s, "UNSUPPORTED")
    ELSE IF ~EtagCountOk(req) THEN Refuse(s, "INVALID_DATA")
    ELSE IF ~HasEtag(req.res) THEN Refuse(s, "NO_SUCH_RESOURCE")
    ELSE IF ~EtagHolds(s, req) THEN Refuse(s, "ETAG_MATCH")
    ELSE IF s.op_type = "READ" /\ req.skip > MaxLanNum THEN Refuse(Paged(s, req), "OPERATION_FAILED")
    ELSE IF "payload" \in t.op_flag THEN Ok(t)
    ELSE Ok(pldm_redfish_op(t, decodes))

pldm_redfish_rde_operation_complete_finished_only(s, req) ==
  IF ~Known(req) THEN Refuse(s, "NO_SUCH_RESOURCE")
  ELSE IF ~Current(s, req) THEN Refuse(s, "UNEXPECTED")
  ELSE Ok(IF s.status \in Triggered THEN pldm_redfish_clear_op_param(s) ELSE s)

pldm_redfish_rde_operation_complete(s, req) ==
  IF ~Known(req) THEN Refuse(s, "NO_SUCH_RESOURCE")
  ELSE IF ~Current(s, req) THEN Refuse(s, "UNEXPECTED")
  ELSE Ok(pldm_redfish_clear_op_param(s))

\* Results that fit into the response are handed out with it, once.
pldm_redfish_rde_operation_status(s, req) ==
  LET fits == s.status = "HAVE_RESULTS" /\ Len(s.op_result) <= s.chunk IN
    IF ~Known(req) THEN Refuse(s, "NO_SUCH_RESOURCE")
    ELSE IF ~Current(s, req) THEN Refuse(s, "UNEXPECTED")
    ELSE Answer([s EXCEPT !.status = IF fits THEN "COMPLETED" ELSE @],
                [kind |-> "status", code |-> "SUCCESS", status |-> s.status,
                 payload |-> IF fits THEN s.op_result ELSE <<>>, handle |-> FirstHandle])

KillCode(s, req) ==
  CASE ~Known(req) -> "NO_SUCH_RESOURCE"
    [] Known(req) /\ ~Current(s, req) -> "UNEXPECTED"
    [] Known(req) /\ Current(s, req) /\ req.kill_flg = 2 -> "INVALID_DATA"
    [] OTHER -> IF req.kill_flg # 3 THEN "SUCCESS"
                ELSE CASE s.status = "NEEDS_INPUT" -> "UNEXPECTED"
                       [] s.status = "HAVE_RESULTS" -> "OPERATION_UNKILLABLE"
                       [] s.status = "FAILED" -> "OPERATION_FAILED"
                       [] OTHER -> "SUCCESS"

pldm_redfish_rde_operation_kill(s, req) ==
  IF KillCode(s, req) = "SUCCESS" THEN Ok(pldm_redfish_clear_op_param(s))
  ELSE Refuse(s, KillCode(s, req))

\* The last operation is listed also when it is over.
pldm_redfish_rde_operation_enumerate(s, req) ==
  Answer(s, [kind |-> "list", code |-> "SUCCESS",
             ops |-> IF s.prev.resource_id = 0 THEN {} ELSE {[op |-> s.prev, op_type |-> s.op_type]}])

(***************************************************************************)
(* Transfers of several parts.                                             *)
(***************************************************************************)

\* What the checksum of the last part is compared with.
Checksummed_part(s, req) == req.data
Checksummed(s, req) == s.op_data \o req.data

\* The first part is not told from the others: it goes where the handle says.
\* A last part carries the checksum of all of it.  dev_status is not looked at.
pldm_redfish_rde_multipart_send(s, req, decodes) ==
  LET data == s.op_data \o req.data
      t == [s EXCEPT !.send_next = req.next, !.op_data = data]
      done == [t EXCEPT !.op_flag = @ \ {"payload"}]
      More(u, op) == Answer(u, [kind |-> "more", code |-> "SUCCESS", transfer_op |-> op]) IN
    IF s.prev.op_id # req.op_id THEN Refuse(s, "UNEXPECTED")
    ELSE IF req.handle # s.send_next THEN Refuse(s, "INVALID_DATA")
    ELSE IF ~req.last THEN More(t, "XFER_NEXT_PART")
    ELSE IF Checksummed(s, req) # req.crc
    THEN Answer([t EXCEPT !.send_next = s.send_first, !.op_data = <<>>],
                [kind |-> "more", code |-> "BAD_CHECKSUM", transfer_op |-> "XFER_FIRST_PART"])
    ELSE More(IF "custom" \in done.op_flag THEN done ELSE pldm_redfish_op(done, decodes), "XFER_COMPLETE")

\* The bytes behind buf_ptr, whatever is there now; undefined past their end and
\* when nothing was ever put there.
ByteAt(s, i) ==
  CASE s.buf = "needed" /\ s.needed # <<>> /\ i <= Flash[s.needed] -> <<"dict", s.needed, i>>
    [] s.buf = "result" /\ i <= Len(s.op_result) -> s.op_result[i]
    [] OTHER -> <<"undefined", i>>
Bytes(s, from, len) == [i \in 1 .. len |-> ByteAt(s, from + i)]

AtResult_length_kept(s) == [s EXCEPT !.buf = "result"]

AtResult(s) == [s EXCEPT !.buf = "result", !.buf_len = Len(s.op_result)]

\* One part, from recv_next on, whatever the handle says.  A part that holds more
\* than a packet is copied over the end of the response.
PartOf(s, req) ==
  LET max == s.chunk - RecvFieldLen
      remain == (s.buf_len - s.recv_next) % WordSize
      last == (remain + CrcLen) % WordSize <= max
      len == IF last \/ remain < max THEN remain ELSE max
      next == IF last THEN 0 ELSE req.handle + len IN
    IF len > max THEN Answer(s, [kind |-> "overrun", code |-> "SUCCESS"])
    ELSE Answer([s EXCEPT !.recv_next = next,
                          !.status = IF last /\ @ = "HAVE_RESULTS" THEN "COMPLETED" ELSE @],
                [kind |-> "part", code |-> "SUCCESS", data |-> Bytes(s, s.recv_next, len), next |-> next,
                 crc |-> IF last THEN Bytes(s, 0, s.buf_len) ELSE <<>>])

pldm_redfish_rde_multipart_receive(s, req) ==
  IF req.op_id \notin {0, s.prev.op_id} THEN Refuse(s, "UNEXPECTED")
  ELSE IF \/ req.transfer_op = "XFER_FIRST_PART" /\ req.handle # FirstHandle
          \/ req.transfer_op = "XFER_NEXT_PART" /\ req.handle # s.recv_next
  THEN Refuse(s, "INVALID_DATA")
  ELSE PartOf(IF req.transfer_op = "XFER_FIRST_PART" /\ req.op_id # 0 THEN AtResult(s) ELSE s, req)

(***************************************************************************)
(* The other commands, and the dispatch.                                   *)
(***************************************************************************)
pldm_redfish_negotiate_redfish_parameters(s, req) ==
  IF req.concurrency = 0 THEN Refuse(s, "INVALID_DATA")
  ELSE IF ~req.bejRegistryItem THEN Refuse(s, "UNSUPPORTED") ELSE Ok(s)

\* The size never grows again.
pldm_redfish_negotiate_medium_parameters(s, req) ==
  IF req.chunk < MinChunk THEN Refuse(s, "INVALID_DATA")
  ELSE Ok([s EXCEPT !.chunk = IF req.chunk < @ THEN req.chunk ELSE @])

pldm_redfish_get_schema_uri(s, req) ==
  LET code == schema_transfer_handle_get(req.res, req.class) IN
    IF req.oem # 0 THEN Refuse(s, "INVALID_DATA")
    ELSE IF code # "SUCCESS" THEN Refuse(s, code) ELSE Ok(s)

pldm_redfish_get_resource_etag(s, req) ==
  IF ~HasEtag(req.res) THEN Refuse(s, "NO_SUCH_RESOURCE")
  ELSE Answer(s, [kind |-> "etag", code |-> "SUCCESS", etag |-> s.etag[bej_idx(req.res)]])

pldm_redfish_get_oem_count(s, req) == IF Known(req) THEN Ok(s) ELSE Refuse(s, "NO_SUCH_RESOURCE")

pldm_redfish_get_registry_details(s, req) ==
  IF req.idx # 0 THEN Refuse(s, "INVALID_DATA") ELSE Ok(s)

\* allowed and decodes settle what the code leaves open.
pldm_redfish_process(r, req, allowed, decodes) ==
  LET s == [r EXCEPT !.ran = FALSE] IN
    CASE req.cmd = "negotiate_redfish_parameters" -> pldm_redfish_negotiate_redfish_parameters(s, req)
      [] req.cmd = "negotiate_medium_parameters" -> pldm_redfish_negotiate_medium_parameters(s, req)
      [] req.cmd = "get_schema_dictionary" -> pldm_redfish_get_schema_dictionary(s, req)
      [] req.cmd = "get_schema_uri" -> pldm_redfish_get_schema_uri(s, req)
      [] req.cmd = "get_resource_etag" -> pldm_redfish_get_resource_etag(s, req)
      [] req.cmd = "get_oem_count" -> pldm_redfish_get_oem_count(s, req)
      [] req.cmd = "get_oem_name" -> Refuse(s, "INVALID_DATA")
      [] req.cmd = "get_registry_count" -> Ok(s)
      [] req.cmd = "get_registry_details" -> pldm_redfish_get_registry_details(s, req)
      [] req.cmd = "get_msg_registry" ->
           IF req.idx # 0 THEN Refuse(s, "INVALID_DATA") ELSE pldm_redfish_get_msg_registry(s, req)
      [] req.cmd = "rde_operation_init" -> pldm_redfish_rde_operation_init(s, req, allowed, decodes)
      [] req.cmd = "supply_custom_request_parameters" ->
           pldm_redfish_supply_custom_request_parameters(s, req, decodes)
      [] req.cmd = "retrieve_custom_response_parameters" -> Refuse(s, "UNSUPPORTED")
      [] req.cmd = "rde_operation_complete" -> pldm_redfish_rde_operation_complete(s, req)
      [] req.cmd = "rde_operation_status" -> pldm_redfish_rde_operation_status(s, req)
      [] req.cmd = "rde_operation_kill" -> pldm_redfish_rde_operation_kill(s, req)
      [] req.cmd = "rde_operation_enumerate" -> pldm_redfish_rde_operation_enumerate(s, req)
      [] req.cmd = "rde_multipart_send" -> pldm_redfish_rde_multipart_send(s, req, decodes)
      [] req.cmd = "rde_multipart_receive" -> pldm_redfish_rde_multipart_receive(s, req)
=============================================================================
