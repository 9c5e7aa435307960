----------------------------- MODULE RdeSession -----------------------------
(***************************************************************************)
(* A management controller that uses the device of RdeDevice in the order   *)
(* of pldm_redfish_gen: it reads dictionaries, and runs one operation after *)
(* another: init, custom parameters, the payload in parts, status polls,    *)
(* the results in parts, and complete or kill.  Any response may be lost    *)
(* (MaxLosses times); the controller then repeats a part it sent, polls     *)
(* again, or gives the operation up.  Links go up and down in between.      *)
(***************************************************************************)
EXTENDS RdeDevice

CONSTANTS
  Operations,    \* the operations: resource, type, flags, payload
  OpIds,         \* the operation ids
  Dictionaries,  \* the dictionaries it reads, as <<resource, class>>
  Pages,         \* the skip and top it asks for
  Chunks,        \* the sizes it negotiates
  InitMax,       \* PLDM_REDFISH_XFER_CHUNKSIZE - PLDM_OP_INIT_FIELD_LEN
  SendMax,       \* PLDM_REDFISH_XFER_CHUNKSIZE - PLDM_MULTI_SEND_FIELD_LEN
  MaxLosses      \* so many responses are lost

ASSUME SessionAssumption ==
  /\ SendMax \in Nat /\ SendMax > CrcLen /\ InitMax \in Nat /\ MaxLosses \in Nat

ASSUME InputsAssumption ==
  /\ \A id \in OpIds : id \in Nat /\ 32768 <= id /\ id < 65536
  /\ \A page \in Pages : page.skip \in Nat /\ page.top \in Nat
  /\ \A chunk \in Chunks : chunk \in Nat

\* A payload is units; it is there only when it is announced.
Units == (Values \cup {"bejencoding_t"}) \X Nat

ASSUME OperationsAssumption ==
  /\ Operations \subseteq [res : ResourceIds, op_type : OpTypes,
                           flags : SUBSET {"payload", "custom"}, payload : Seq(Units)]
  /\ \A op \in Operations : "payload" \notin op.flags => op.payload = <<>>

\* The controller asks for dictionaries that are in flash, by their own name.
ASSUME DictionariesAssumption ==
  \A d \in Dictionaries :
    /\ d \in DOMAIN Flash
    /\ d[2] # "REGISTRY" => pldm_redfish_resource_id_to_base(d[1]) = d[1]
    /\ d[2] # "REGISTRY" /\ d[1] # AllSchema => d[2] = "MAJOR"

\* What is transferred fits into a word, with its checksum.
ASSUME LengthsAssumption ==
  /\ \A v \in Values : BejHdr + Size[v] + CrcLen < WordSize
  /\ \A k \in DOMAIN Flash : Flash[k] + CrcLen < WordSize
  /\ \A op \in Operations : Len(op.payload) + CrcLen < WordSize

VARIABLES
  rde,       \* the device
  ctl,       \* the controller, and what the properties remember
  losses     \* the responses lost so far

vars == <<rde, ctl, losses>>

NoOp == [res |-> 0, op_type |-> "HEAD", flags |-> {}, payload |-> <<>>]
NoRead == [what |-> "nothing"]

\* From stale on: a part was never received since the device was cleared; a link
\* changed during this dictionary; the last part was repeated; how often the
\* operation ran, and with which result.
SessionInit ==
  /\ rde = pldm_redfish_init
  /\ ctl = [phase |-> "idle", op |-> NoOp, op_id |-> 0, etag |-> <<>>, sent |-> 0,
            handle |-> 0, dict |-> <<>>, got |-> <<>>, read |-> NoRead,
            stale |-> FALSE, mixed |-> FALSE, repeated |-> FALSE, runs |-> 0, result |-> <<>>]
  /\ losses = 0

(***************************************************************************)
(* One exchange: the device handles the request, then the controller gets   *)
(* the response or nothing.                                                 *)
(***************************************************************************)
Exchange(req, React(_, _)) ==
  \E lost \in IF losses < MaxLosses THEN BOOLEAN ELSE {FALSE}, decodes \in BOOLEAN :
  \E allowed \in IF req.cmd = "rde_operation_init"
                 THEN AllowedOps(resource_id_to_resource_identity(req.res)) ELSE {{}} :
    LET t == pldm_redfish_process(rde, req, allowed, decodes)
        c == [ctl EXCEPT !.read = NoRead,
                         !.runs = IF t.ran THEN @ + 1 ELSE @,
                         !.result = IF t.ran THEN t.op_result ELSE @] IN
      /\ rde' = [t EXCEPT !.rsp = NoResponse]
      /\ ctl' = React(c, IF lost THEN [kind |-> "lost"] ELSE t.rsp)
      /\ losses' = IF lost THEN losses + 1 ELSE losses

(***************************************************************************)
(* Dictionaries.                                                           *)
(***************************************************************************)
AskFor(d) ==
  IF d[2] = "REGISTRY" THEN [cmd |-> "get_msg_registry", idx |-> 0]
  ELSE [cmd |-> "get_schema_dictionary", res |-> d[1], class |-> d[2]]

AfterAsking(c, rsp, d) ==
  IF rsp.kind # "handle" THEN c
  ELSE [c EXCEPT !.phase = "dictionary", !.dict = d, !.handle = rsp.handle]

AskDictionary ==
  \E d \in Dictionaries :
    LET React(c, rsp) == AfterAsking(c, rsp, d) IN
      ctl.phase = "idle" /\ Exchange(AskFor(d), React)

\* A part of a dictionary, for operation id 0, or of the results.
PartRequest(op_id) ==
  [cmd |-> "rde_multipart_receive", op_id |-> op_id, handle |-> ctl.handle,
   transfer_op |-> IF ctl.handle = 0 THEN "XFER_FIRST_PART" ELSE "XFER_NEXT_PART"]

\* The parts so far, and behind the last one whether the checksum is right.
TakePart(c, rsp, what, then) ==
  IF rsp.kind # "part"
  THEN [c EXCEPT !.phase = then, !.got = <<>>, !.handle = 0, !.stale = TRUE, !.dict = <<>>, !.mixed = FALSE]
  ELSE IF rsp.next # 0 THEN [c EXCEPT !.handle = rsp.next, !.got = @ \o rsp.data]
  ELSE [c EXCEPT !.phase = then, !.got = <<>>, !.handle = 0, !.dict = <<>>, !.mixed = FALSE,
                 !.read = [what |-> what, dict |-> c.dict, data |-> c.got \o rsp.data,
                           good |-> c.got \o rsp.data = rsp.crc,
                           clean |-> ~c.stale /\ ~c.mixed]]

ReadDictionary ==
  LET React(c, rsp) == TakePart(c, rsp, "dictionary", "idle") IN
    ctl.phase = "dictionary" /\ Exchange(PartRequest(0), React)

\* A link changes, and its event is encoded.
LinkChanges ==
  /\ rde' = pldm_redfish_msg_event_generate(rde)
  /\ rde' # rde
  /\ ctl' = [ctl EXCEPT !.read = NoRead, !.mixed = @ \/ ctl.phase = "dictionary"]
  /\ UNCHANGED losses

(***************************************************************************)
(* Operations.                                                             *)
(***************************************************************************)
Inline(op) == "payload" \in op.flags /\ Len(op.payload) <= InitMax

\* The parameters come before the payload.
AfterParameters(op) == IF "payload" \in op.flags /\ ~Inline(op) THEN "sending" ELSE "polling"

\* Whether an operation was begun is not known when its response is lost.
AfterInit(c, rsp, op, id) ==
  IF rsp.kind = "error" THEN c
  ELSE [c EXCEPT !.op = op, !.op_id = id, !.sent = 0, !.repeated = FALSE,
                 !.phase = CASE rsp.kind = "lost" -> "closing"
                             [] rsp.kind = "ok" /\ "custom" \in op.flags -> "custom"
                             [] OTHER -> AfterParameters(op)]

StartOperation ==
  \E op \in Operations, id \in OpIds :
    /\ ctl.phase = "idle"
    /\ LET React(c, rsp) == AfterInit(c, rsp, op, id) IN
         Exchange([cmd |-> "rde_operation_init", res |-> op.res, op_id |-> id, op_type |-> op.op_type,
                   flags |-> op.flags, handle |-> 0,
                   payload |-> IF Inline(op) THEN op.payload ELSE <<>>],
                  React)

\* The entity tag of a resource, for the condition of an operation on it.
AfterEtag(c, rsp, res) == IF rsp.kind = "etag" THEN [c EXCEPT !.etag = <<res, rsp.etag>>] ELSE c

GetEtag ==
  \E op \in Operations :
    /\ ctl.phase = "idle" /\ "custom" \in op.flags
    /\ LET React(c, rsp) == AfterEtag(c, rsp, op.res) IN
         Exchange([cmd |-> "get_resource_etag", res |-> op.res], React)

AfterSupply(c, rsp) == [c EXCEPT !.phase = IF rsp.kind = "ok" THEN AfterParameters(c.op) ELSE "closing"]

\* Only if the resource still is the one whose tag was read.
SupplyCustom ==
  \E page \in Pages :
    LET matches == ctl.etag # <<>> /\ ctl.etag[1] = ctl.op.res IN
      /\ ctl.phase = "custom"
      /\ Exchange([cmd |-> "supply_custom_request_parameters", res |-> ctl.op.res, op_id |-> ctl.op_id,
                   etag_op |-> IF matches THEN "IF_MATCH" ELSE "IGNORE",
                   etags |-> IF matches THEN <<ctl.etag[2]>> ELSE <<>>,
                   skip |-> page.skip, top |-> page.top], AfterSupply)

\* A lost response to the last part may mean that it is sent again.
AfterPart(c, rsp, last, len, again) ==
  CASE rsp.kind = "lost" /\ again -> [c EXCEPT !.repeated = @ \/ last]
    [] rsp.kind = "error" \/ (rsp.kind = "lost" /\ ~again) -> [c EXCEPT !.phase = "closing"]
    [] rsp.kind = "more" /\ rsp.transfer_op = "XFER_COMPLETE" -> [c EXCEPT !.phase = "polling", !.sent = 0]
    [] rsp.kind = "more" /\ rsp.transfer_op = "XFER_FIRST_PART" -> [c EXCEPT !.sent = 0]
    [] OTHER -> [c EXCEPT !.sent = @ + len]

\* A part of the payload.  The generator does not set the next handle of a last
\* part: the field holds what the request before left there.
SendPart ==
  \E leftover \in {0, ctl.sent}, again \in BOOLEAN :
    LET remain == Len(ctl.op.payload) - ctl.sent
        last == remain + CrcLen <= SendMax
        len == IF last \/ remain < SendMax THEN remain ELSE SendMax
        React(c, rsp) == AfterPart(c, rsp, last, len, again) IN
      /\ ctl.phase = "sending"
      /\ Exchange([cmd |-> "rde_multipart_send", op_id |-> ctl.op_id, handle |-> ctl.sent,
                   next |-> IF last THEN leftover ELSE ctl.sent + len, last |-> last,
                   data |-> SubSeq(ctl.op.payload, ctl.sent + 1, ctl.sent + len),
                   crc |-> ctl.op.payload], React)

\* Results come with the response, or a handle does.
AfterStatus(c, rsp) ==
  CASE rsp.kind = "lost" -> c
    [] rsp.kind = "status" /\ rsp.status = "HAVE_RESULTS" /\ rsp.payload = <<>> ->
         [c EXCEPT !.phase = "receiving", !.handle = rsp.handle]
    [] rsp.kind = "status" /\ rsp.status = "HAVE_RESULTS" /\ rsp.payload # <<>> ->
         [c EXCEPT !.phase = "closing",
                   !.read = [what |-> "result", dict |-> <<>>, data |-> rsp.payload,
                             good |-> TRUE, clean |-> TRUE]]
    [] OTHER -> [c EXCEPT !.phase = "closing"]

Poll ==
  /\ ctl.phase = "polling"
  /\ Exchange([cmd |-> "rde_operation_status", res |-> ctl.op.res, op_id |-> ctl.op_id], AfterStatus)

ReadResult ==
  LET React(c, rsp) == TakePart(c, rsp, "result", "closing") IN
    ctl.phase = "receiving" /\ Exchange(PartRequest(ctl.op_id), React)

\* An operation may be given up at any time.
GiveUp ==
  /\ ctl.phase \in {"custom", "sending", "polling", "receiving"}
  /\ ctl' = [ctl EXCEPT !.phase = "closing", !.read = NoRead, !.got = <<>>, !.handle = 0, !.sent = 0]
  /\ UNCHANGED <<rde, losses>>

\* What is not acknowledged is tried again.
Cleared(c) ==
  [c EXCEPT !.phase = "idle", !.op = NoOp, !.op_id = 0,
            !.etag = IF "custom" \in c.op.flags THEN <<>> ELSE @, !.sent = 0, !.stale = FALSE,
            !.repeated = FALSE, !.runs = 0, !.result = <<>>]

\* Refused is only what was never begun.
AfterComplete(c, rsp) ==
  CASE rsp.kind = "ok" -> Cleared(c)
    [] rsp.kind = "error" -> [Cleared(c) EXCEPT !.stale = c.stale]
    [] OTHER -> c

Complete ==
  /\ ctl.phase = "closing"
  /\ Exchange([cmd |-> "rde_operation_complete", res |-> ctl.op.res, op_id |-> ctl.op_id], AfterComplete)

\* A kill that is refused is followed by another one, or by complete.
AfterKill(c, rsp) == IF rsp.kind = "ok" THEN Cleared(c) ELSE c

Kill ==
  \E flg \in 1 .. 3 :
    /\ ctl.phase = "closing"
    /\ Exchange([cmd |-> "rde_operation_kill", res |-> ctl.op.res, op_id |-> ctl.op_id,
                 kill_flg |-> flg], AfterKill)

\* The commands that only report, and the size of the parts.
Ask ==
  \E req \in {[cmd |-> "rde_operation_enumerate"], [cmd |-> "get_registry_count"],
              [cmd |-> "get_registry_details", idx |-> 0], [cmd |-> "get_oem_name"],
              [cmd |-> "negotiate_redfish_parameters", concurrency |-> 1, bejRegistryItem |-> TRUE],
              [cmd |-> "retrieve_custom_response_parameters"]}
             \cup [cmd : {"negotiate_medium_parameters"}, chunk : Chunks]
             \cup [cmd : {"get_oem_count"}, res : ResourceIds]
             \cup [cmd : {"get_schema_uri"}, res : {1}, class : {"MAJOR", "OTHER"}, oem : {0}] :
    LET React(c, rsp) == c IN
      ctl.phase = "idle" /\ Exchange(req, React)

SessionNext ==
  \/ AskDictionary \/ ReadDictionary \/ LinkChanges \/ StartOperation \/ GetEtag \/ SupplyCustom
  \/ SendPart \/ Poll \/ ReadResult \/ GiveUp \/ Complete \/ Kill \/ Ask

\* The controller goes on with what it began.
SessionSpec ==
  /\ SessionInit /\ [][SessionNext]_vars
  /\ WF_vars(SupplyCustom) /\ WF_vars(SendPart) /\ WF_vars(Poll) /\ WF_vars(ReadResult)
  /\ WF_vars(ReadDictionary) /\ WF_vars(Complete)

(***************************************************************************)
(* Properties.                                                             *)
(***************************************************************************)
\* The status agrees with what the operation still waits for and with what there is:
\* it needs input as long as a flag is set, has results only when there are any, and
\* between two operations nothing is left of the first: of its data, its results,
\* its paging or its transfers.
StatusMatchesOperation ==
  /\ rde.status = "NEEDS_INPUT" <=> rde.op_flag # {}
  /\ rde.status = "HAVE_RESULTS" => rde.op_result # <<>>
  /\ rde.status \in {"INACTIVE", "NEEDS_INPUT"} => rde.op_result = <<>> /\ rde.buf # "result"
  /\ rde.status = "INACTIVE" => rde.op_data = <<>> /\ rde.send_next = 0 /\ rde.skip = 0 /\ rde.top = All

\* The controller is idle when the device is, and only then but for the moment an
\* operation is closed: a lost response, an operation that failed or was given up,
\* leave no operation behind that blocks the next one; and the operation that the
\* controller goes on with is the one the device has.
IdleTogether ==
  /\ ctl.phase \in {"idle", "dictionary"} => rde.status = "INACTIVE"
  /\ ctl.phase \in {"custom", "sending", "polling", "receiving"} =>
       /\ rde.status # "INACTIVE"
       /\ rde.prev = [resource_id |-> ctl.op.res, op_id |-> ctl.op_id]

Dictionary(d) == [i \in 1 .. Flash[d] |-> <<"dict", d, i>>]

\* What the controller puts together from the parts is the dictionary it asked for, or
\* the result of its operation, whole and in order, and the checksum agrees; unless a
\* read was broken off before, or a link changed during it.  Of the registry nothing is
\* said: get_msg_registry does not set where to read from.
ReadIsWhole ==
  /\ ctl.read.what # "nothing" /\ ctl.read.clean
  /\ ctl.read.what = "result" \/ ctl.read.dict[2] # "REGISTRY"
  =>
      /\ ctl.read.good
      /\ ctl.read.data = IF ctl.read.what = "result" THEN ctl.result ELSE Dictionary(ctl.read.dict)

\* An operation runs at most once, unless the last part of its payload was repeated: the
\* device then finds the payload twice, refuses it, and takes and runs it once more.
ExecutedOnce == ctl.repeated \/ ctl.runs <= 1

\* A resource changes only when the operation on it runs, and to what the controller
\* sent, all of it or, for REPLACE, all but the end that is cut off; and not when the
\* tag that the controller named is no longer that of the resource.
ChangesAreAsked ==
  [][\A p \in Places : rde'.body[p] # rde.body[p] =>
       /\ ctl'.op.op_type \in {"UPDATE", "REPLACE"} /\ bej_idx(ctl'.op.res) = p
       /\ "custom" \in ctl'.op.flags /\ ctl'.etag # <<>> /\ ctl'.etag[1] = ctl'.op.res
            => ctl'.etag[2] = rde.etag[p]
       /\ LET sent == SubSeq(ctl'.op.payload, BejHdr + 1, Len(ctl'.op.payload)) IN
            rde'.body[p] \in {sent, SubSeq(sent, 1, Len(sent) - BejHdr)}]_rde

\* An operation that was begun, and a dictionary, come to an end.
OperationEnds == ctl.phase # "idle" ~> ctl.phase = "idle"
=============================================================================
