------------------------------ MODULE PdrRepo ------------------------------
(***************************************************************************)
(* The repository of platform descriptor records (src/source/net/pldm/     *)
(* pdr.c) and the commands that change or read it (pldm_monitor.c).        *)
(*                                                                         *)
(* A record is a node of the sorted list `head', or, once deleted, of the  *)
(* list `deleted', where it waits to be needed again.  Memory comes from a *)
(* pool and is never returned.  The records of a port come and go with its *)
(* link; the others were loaded from flash.  Each change is announced by   *)
(* an event (PldmEvents takes it from there), unless the receiver disabled *)
(* them, which is left out here.                                           *)
(*                                                                         *)
(* Of the data of a record the model keeps the change number and what may  *)
(* differ between two versions: the thresholds of a temperature sensor,    *)
(* the addresses in the terminus locator.  A function of the C file is an  *)
(* operator from repositories to repositories, so that a handler is one    *)
(* step.  repo_state is set and reset within such a step: no packet is     *)
(* handled while an update is in progress.                                 *)
(***************************************************************************)
EXTENDS Integers, Sequences, FiniteSets, SequencesExt

CONSTANTS
  MAX_LAN_NUM,    \* ports
  NvmList,        \* handles of the records in flash, in their order
  Sizes,          \* size of the data of a record
  NodeSize,       \* sizeof(pldm_pdr_record_t)
  Alignment,      \* what the largest size is rounded up to: 64
  PDR_POOL_SIZE,
  Spares,         \* pool space taken by the rest of the flash area
  Limits,         \* thresholds a controller may set
  DefaultLimits,  \* thresholds of the hardware
  Tids, Eids,     \* addresses; BootTid and BootEid are those after reset
  BootTid, BootEid,
  MaxChange       \* bound: changes of a record

Ports == 0 .. MAX_LAN_NUM - 1

\* Record handles (pldm_monitor.h), where port is the number of a port.
TerminusLocator == 16
NicTemp == 1130
NcTemp == 1500
Temp(port) == 1800 + port
Speed(port) == 1300 + port
Power(port) == 1700 + port
Connector(port) == 3 + port
Plug(port) == 7 + port
CommChan(port) == 11 + port

numeric_sensors(port) == {Temp(port), Speed(port), Power(port)}
assoc_records(port) == {Connector(port), Plug(port), CommChan(port)}
PortRecords(port) == numeric_sensors(port) \cup assoc_records(port)
LinkRecords == UNION {PortRecords(port) : port \in Ports}
NvmRecords == ToSet(NvmList)
Handles == NvmRecords \cup LinkRecords
TempRecords == {NicTemp, NcTemp} \cup {Temp(port) : port \in Ports}

ASSUME PortsAssumption == MAX_LAN_NUM \in 1 .. 4
ASSUME SizesAssumption ==
  /\ Sizes \in [Handles -> Nat \ {0}]
  /\ NodeSize \in Nat \ {0} /\ Alignment \in Nat \ {0}
  /\ PDR_POOL_SIZE \in Nat /\ Spares \subseteq Nat /\ MaxChange \in Nat
\* pldm_largest_pdrsize_get runs off the end of a list without a descent of sizes.
ASSUME NvmAssumption ==
  /\ NvmList \in Seq(Nat \ {0}) /\ IsInjective(NvmList) /\ NvmRecords \cap LinkRecords = {}
  /\ \E g, h \in NvmRecords : g < h /\ Sizes[g] > Sizes[h]
ASSUME AddressAssumption == BootTid \in Tids /\ BootEid \in Eids

VARIABLES
  repo,         \* g_pldm_monitor_info.pldm_repo, its records, pool and monitors
  tid, eid,     \* of g_pldm_monitor_info and g_mctp_ctrl_info[1]
  op_cnt,       \* whether the links are up
  gs_find_pdr, gs_pdr_transfer_flag, gs_pdr_previous_data_transfer_handle,
  rsp           \* the response of the last GetPDR

transferVars == <<gs_find_pdr, gs_pdr_transfer_flag, gs_pdr_previous_data_transfer_handle>>
repoVars == <<repo, tid, eid, op_cnt, transferVars, rsp>>

NULL == 0
NoResponse == [cpl_code |-> "NONE"]
Address(t, e) == [tid |-> t, eid |-> e]

(***************************************************************************)
(* Lists and the pool.                                                     *)
(***************************************************************************)
\* LL_INSERT_INORDER as a bug would have it, with every record put in front.
InsertInOrder_prepends(list, h) == <<h>> \o list

\* LL_INSERT_INORDER with pldm_pdr_cmp: before the first record that is not smaller.
InsertInOrder(list, h) ==
  LET i == CHOOSE i \in 1 .. Len(list) + 1 :
             /\ \A j \in 1 .. i - 1 : list[j] < h
             /\ i <= Len(list) => list[i] >= h
  IN  InsertAt(list, i, h)

Place(list, h) == CHOOSE i \in DOMAIN list : list[i] = h

\* LL_DELETE
Without(list, h) == RemoveAt(list, Place(list, h))

Next_in(list, h) ==
  IF Place(list, h) < Len(list) THEN list[Place(list, h) + 1] ELSE NULL

AlignUp(n) == ((n + Alignment - 1) \div Alignment) * Alignment
Larger(m, n) == IF m > n THEN m ELSE n

InHead(r, h) == h \in ToSet(r.head)
InDeleted(r, h) == h \in ToSet(r.deleted)

Fits(r, n) == r.pool_wt + n < PDR_POOL_SIZE
pdr_malloc(r, n) == [r EXCEPT !.pool_wt = @ + n]

pldm_pdr_chg_event_generate(r, op, h) == [r EXCEPT !.events = Append(@, [op |-> op, record |-> h])]

\* pldm_largest_pdrsize_get: the scan steps to the next record when the record is
\* not smaller than those before, so it ends at the first descent.
Rising(list, k) == \A i \in 2 .. k : Sizes[list[i - 1]] <= Sizes[list[i]]
LargestScanned(list, count) ==
  LET scanned == {k \in DOMAIN list : k <= count /\ Rising(list, k)}
  IN  IF scanned = {} THEN 0 ELSE AlignUp(Sizes[list[Max(scanned)]])

\* A record that is in neither list gets a node, if there is room for one.
pldm_pdr_add(r, h) ==
  IF Fits(r, NodeSize)
  THEN [ pdr_malloc(r, NodeSize) EXCEPT
           !.head = InsertInOrder(@, h),
           !.record_count = @ + 1,
           !.size = @ + Sizes[h],
           !.largest_pdr_size = AlignUp(Larger(@, Sizes[h])) ]
  ELSE r

\* pldm_pdr_add and the event; without a node there is neither record nor event.
AddRecord(r, h) ==
  IF Fits(r, NodeSize)
  THEN pldm_pdr_chg_event_generate(pldm_pdr_add(r, h), "added", h)
  ELSE r

\* pldm_pdr_delete
pldm_pdr_delete(r, h) ==
  LET head == Without(r.head, h)
  IN  [ r EXCEPT
          !.data[h].change = 0,
          !.head = head,
          !.deleted = Append(@, h),
          !.size = @ - Sizes[h],
          !.largest_pdr_size = LargestScanned(head, r.record_count),
          !.record_count = @ - 1 ]

\* pldm_pdr_is_exist as a bug would have it, with the deleted records forgotten.
Exists_in_head(r, h) == InHead(r, h)

\* pldm_pdr_is_exist: a deleted record is put back first.
Exists(r, h) == InHead(r, h) \/ InDeleted(r, h)
\* A record put back without an event, as a bug would have it.
Restored_untold(r, h) ==
  LET head == InsertInOrder(r.head, h)
  IN  [ r EXCEPT
          !.deleted = Without(@, h),
          !.head = head,
          !.largest_pdr_size = LargestScanned(head, r.record_count),
          !.size = @ + Sizes[h],
          !.record_count = @ + 1 ]

Restored(r, h) ==
  LET head == InsertInOrder(r.head, h)
  IN  pldm_pdr_chg_event_generate(
        [ r EXCEPT
            !.deleted = Without(@, h),
            !.head = head,
            !.largest_pdr_size = LargestScanned(head, r.record_count),
            !.size = @ + Sizes[h],
            !.record_count = @ + 1 ],
        "added", h)
pldm_pdr_is_exist(r, h) ==
  IF ~InHead(r, h) /\ InDeleted(r, h) THEN Restored(r, h) ELSE r

(***************************************************************************)
(* The records of a link.                                                  *)
(***************************************************************************)
\* temp_sensor_monitor_handle
Monitored(r, h) == IF h \in TempRecords THEN [r EXCEPT !.monitored = @ \cup {h}] ELSE r
Unmonitored(r, h) == [r EXCEPT !.monitored = @ \ {h}]

\* The fill functions write everything but the change number.
Fill(r, h) == [r EXCEPT !.data[h].val = IF h \in TempRecords THEN DefaultLimits ELSE NULL]

pldm_add_numeric_sensor_pdr(r, h) ==
  LET found == pldm_pdr_is_exist(r, h)
  IN  IF Exists(r, h) THEN Monitored(Fill(found, h), h)
      ELSE IF Fits(r, Sizes[h])
      THEN AddRecord(Monitored(Fill(pdr_malloc(r, Sizes[h]), h), h), h)
      ELSE r

pldm_delete_numeric_sensor_pdr(r, h) ==
  IF InHead(r, h)
  THEN pldm_pdr_chg_event_generate(Unmonitored(pldm_pdr_delete(r, h), h), "deleted", h)
  ELSE r

pldm_add_assoc_pdr(r, h) ==
  IF Exists(r, h) THEN pldm_pdr_is_exist(r, h)
  ELSE IF Fits(r, Sizes[h]) THEN AddRecord(pdr_malloc(r, Sizes[h]), h)
  ELSE r

\* pldm_add_pluggable_module_assoc_pdr and pldm_add_comm_chan_assoc_pdr
AddContained(r, container, h) ==
  IF Exists(r, container)
  THEN pldm_add_assoc_pdr(pldm_pdr_is_exist(r, container), h)
  ELSE r

pldm_delete_assoc_pdr(r, h) ==
  IF InHead(r, h)
  THEN pldm_pdr_chg_event_generate(pldm_pdr_delete(r, h), "deleted", h)
  ELSE r

LinkUp(r, port) ==
  LET temp == pldm_add_numeric_sensor_pdr(r, Temp(port))
      speed == pldm_add_numeric_sensor_pdr(temp, Speed(port))
      power == pldm_add_numeric_sensor_pdr(speed, Power(port))
      connector == pldm_add_assoc_pdr(power, Connector(port))
      plug == AddContained(connector, Connector(port), Plug(port))
  IN  AddContained(plug, Plug(port), CommChan(port))

LinkDown(r, port) ==
  LET temp == pldm_delete_numeric_sensor_pdr(r, Temp(port))
      speed == pldm_delete_numeric_sensor_pdr(temp, Speed(port))
      power == pldm_delete_numeric_sensor_pdr(speed, Power(port))
      connector == pldm_delete_assoc_pdr(power, Connector(port))
      plug == pldm_delete_assoc_pdr(connector, Plug(port))
  IN  pldm_delete_assoc_pdr(plug, CommChan(port))

\* The signature is a checksum of the data: here it is the data.
Contents(r) == [i \in DOMAIN r.head |-> [record |-> r.head[i], data |-> r.data[r.head[i]]]]
pldm_monitor_update_repo_signature(r) == [r EXCEPT !.repo_signature = Contents(r)]

\* pldm_link_handle; the states of the sensors and their events are left out.
pldm_link_handle(r, port, up) ==
  pldm_monitor_update_repo_signature(IF up THEN LinkUp(r, port) ELSE LinkDown(r, port))

\* One port after the other.
LinkAll(r, up) ==
  LET handled[n \in 0 .. MAX_LAN_NUM] ==
        IF n = 0 THEN r ELSE pldm_link_handle(handled[n - 1], n - 1, up)
  IN  handled[MAX_LAN_NUM]

NoEvents(r) == [r EXCEPT !.events = <<>>]

(***************************************************************************)
(* Start-up: records from flash, then every link comes up.                 *)
(***************************************************************************)
\* The bytes of the data of some records, and how many they are.
BytesOf(records) == UNION {{h} \X (1 .. Sizes[h]) : h \in records}
SizesOf(records) == Cardinality(BytesOf(records))

\* pldm_pdr_init
pldm_pdr_init(locator) ==
  [ head |-> <<>>, deleted |-> <<>>, record_count |-> 0, size |-> 0,
    largest_pdr_size |-> 0, repo_signature |-> <<>>,
    data |-> [h \in Handles |-> [change |-> 0,
                val |-> IF h = TerminusLocator THEN locator
                        ELSE IF h \in TempRecords THEN DefaultLimits ELSE NULL]],
    pool_wt |-> 0, monitored |-> {}, events |-> <<>> ]

\* The flash area is one piece of the pool, with its records one after the other.
pldm_monitor_pdr_init(spare, locator) ==
  LET empty == pldm_pdr_init(locator)
      area == spare + SizesOf(NvmRecords)
      loaded[n \in 0 .. Len(NvmList)] ==
        IF n = 0 THEN pdr_malloc(empty, area) ELSE pldm_pdr_add(loaded[n - 1], NvmList[n])
  IN  IF Fits(empty, area) THEN loaded[Len(NvmList)] ELSE empty

Init ==
  /\ \E spare \in Spares, t \in Tids, e \in Eids :
       repo = NoEvents(LinkAll(pldm_monitor_pdr_init(spare, Address(t, e)), TRUE))
  /\ tid = BootTid /\ eid = BootEid /\ op_cnt = TRUE
  /\ gs_find_pdr = NULL /\ gs_pdr_transfer_flag = "START_AND_END"
  /\ gs_pdr_previous_data_transfer_handle = 0
  /\ rsp = NoResponse

(***************************************************************************)
(* What changes the records.                                               *)
(***************************************************************************)
\* The links of all ports go down, or come up (pldm_monitor_gen_recv_cmd_0b).
LinksChange ==
  /\ op_cnt' = ~op_cnt
  /\ repo' = LinkAll(NoEvents(repo), op_cnt')
  /\ rsp' = NoResponse
  /\ UNCHANGED <<tid, eid, transferVars>>

Modified(r, h, val) ==
  pldm_monitor_update_repo_signature(
    pldm_pdr_chg_event_generate(
      [r EXCEPT !.data[h] = [change |-> @.change + 1, val |-> val]], "modified", h))

\* pldm_monitor_set_sensor_thresholds; a sensor without a record is refused.
SetThresholds(h, limits) ==
  /\ InHead(repo, h) => repo.data[h].change < MaxChange
  /\ repo' = IF InHead(repo, h) THEN Modified(NoEvents(repo), h, limits) ELSE NoEvents(repo)
  /\ rsp' = NoResponse
  /\ UNCHANGED <<tid, eid, op_cnt, transferVars>>

terminus_locator_pdr_chg(r, t, e) ==
  IF InHead(r, TerminusLocator) /\ r.data[TerminusLocator].val # Address(t, e)
  THEN Modified(r, TerminusLocator, Address(t, e))
  ELSE r

\* pldm_ctrl_set_tid and mctp_set_eid, with an address that is accepted.
SetAddress(t, e) ==
  /\ t = tid \/ e = eid
  /\ InHead(repo, TerminusLocator) =>
       \/ repo.data[TerminusLocator].change < MaxChange
       \/ repo.data[TerminusLocator].val = Address(t, e)
  /\ tid' = t /\ eid' = e
  /\ repo' = terminus_locator_pdr_chg(NoEvents(repo), t, e)
  /\ rsp' = NoResponse
  /\ UNCHANGED <<op_cnt, transferVars>>

(***************************************************************************)
(* GetPDR: a record in parts.                                              *)
(***************************************************************************)
\* The record the request is about: a new one only when no transfer is under way.
Found(h) ==
  IF gs_pdr_transfer_flag \in {"START_AND_END", "END"}
  THEN IF InHead(repo, h) THEN h ELSE NULL
  ELSE gs_find_pdr

\* The check as a bug would have it, for first parts only.
WrongChange_first(op, rec, chg) == op = "FIRST" /\ chg # 0

\* The change number is that of the record for a next part, and 0 for a first one.
WrongChange(op, rec, chg) ==
  IF op = "NEXT" THEN chg # repo.data[rec].change ELSE chg # 0

CplCode(op, h, handle, chg) ==
  CASE Found(h) # h -> "INVALID_RECORD_HANDLE"
    [] handle # gs_pdr_previous_data_transfer_handle -> "INVALID_DATA_TRANSFER_HANDLE"
    [] WrongChange(op, h, chg) -> "INVALID_RECORD_CHANGE_NUMBER"
    [] OTHER -> "SUCCESS"

\* A deleted record keeps its place in the other list.
NextRecord(h) == Next_in(IF InHead(repo, h) THEN repo.head ELSE repo.deleted, h)

\* The response with at most cnt bytes of the record from handle on.
Part(op, h, handle, cnt) ==
  LET left == Sizes[h] - handle
      last == cnt >= left
      n == IF last THEN left ELSE cnt
  IN  [ cpl_code |-> "SUCCESS",
        transfer_flag |-> CASE last /\ op = "FIRST" -> "START_AND_END"
                            [] last /\ op = "NEXT" -> "END"
                            [] ~last /\ op = "FIRST" -> "START"
                            [] ~last /\ op = "NEXT" -> "MIDDLE",
        next_record_handle |-> IF last THEN NextRecord(h) ELSE h,
        next_data_transfer_handle |-> IF last THEN 0 ELSE handle + n,
        part |-> [record |-> h, from |-> handle, len |-> n, data |-> repo.data[h]] ]

pldm_monitor_get_pdr(op, h, handle, cnt, chg) ==
  /\ gs_find_pdr' = Found(h)
  /\ IF CplCode(op, h, handle, chg) = "SUCCESS"
     THEN /\ rsp' = Part(op, h, handle, cnt)
          /\ gs_pdr_transfer_flag' = rsp'.transfer_flag
          /\ gs_pdr_previous_data_transfer_handle' = rsp'.next_data_transfer_handle
     ELSE /\ rsp' = [cpl_code |-> CplCode(op, h, handle, chg)]
          /\ UNCHANGED <<gs_pdr_transfer_flag, gs_pdr_previous_data_transfer_handle>>
  /\ repo' = NoEvents(repo)
  /\ UNCHANGED <<tid, eid, op_cnt>>
=============================================================================
