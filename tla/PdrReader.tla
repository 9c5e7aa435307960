----------------------------- MODULE PdrReader -----------------------------
(***************************************************************************)
(* A controller that reads the repository of PdrRepo record by record, the *)
(* way the packet generator does (cmd_51 of pldm_monitor_gen.c and         *)
(* pldm_monitor_gen_recv.c): it starts with record 1, asks for the parts   *)
(* of a record and then for the record that the last part names.  A        *)
(* response may get lost, in which case it asks again; and it may give     *)
(* the walk up and start another one.                                      *)
(*                                                                         *)
(* With the next part of a record it sends the change number it found in   *)
(* the first part, as the command asks for, or 0, as the generator does.   *)
(***************************************************************************)
EXTENDS PdrRepo

CONSTANTS
  FirstRecord,  \* 1, where a walk starts
  Counts        \* how much is asked for at once

\* A walk begins at the lowest handle, and asks for at least a byte.
ASSUME ReaderAssumption ==
  /\ Counts \subseteq Nat \ {0} /\ FirstRecord \in Nat \ {0}
  /\ \A h \in Handles : FirstRecord <= h

VARIABLES
  next_record, next_handle,  \* of get_pdr_rsp_dat: what is asked for next
  parts,        \* the parts received of the record of the last response
  whole,        \* they are all of it
  moved,        \* it was deleted after the first of them
  visited,      \* the records received in this walk
  lasting,      \* the records that have been there since the walk began
  torn,         \* a record of this walk was deleted when its last part came
  waiting       \* the time of a transfer handle is over since the last part

readerVars == <<next_record, next_handle, parts, whole, moved, visited, lasting, torn, waiting>>
sessionVars == <<repoVars, readerVars>>

Records(r) == ToSet(r.head)

SessionInit ==
  /\ Init
  /\ next_record = FirstRecord /\ next_handle = 0
  /\ parts = <<>> /\ whole = FALSE /\ moved = FALSE
  /\ visited = {} /\ lasting = Records(repo) /\ torn = FALSE
  /\ waiting = FALSE

\* The walk is over, or given up: a new one.
StartsWalk ==
  /\ next_record # FirstRecord \/ next_handle # 0
  /\ next_record' = FirstRecord /\ next_handle' = 0
  /\ parts' = <<>> /\ whole' = FALSE /\ moved' = FALSE
  /\ visited' = {} /\ lasting' = Records(repo) /\ torn' = FALSE
  /\ repo' = NoEvents(repo) /\ rsp' = NoResponse
  /\ UNCHANGED <<tid, eid, op_cnt, transferVars, waiting>>

\* pldm_monitor_gen_recv_cmd_51, a response that is not an error.
Receives(op) ==
  LET last == rsp'.transfer_flag \in {"END", "START_AND_END"}
  IN  /\ next_record' = rsp'.next_record_handle
      /\ next_handle' = rsp'.next_data_transfer_handle
      /\ parts' = Append(IF op = "FIRST" THEN <<>> ELSE parts, rsp'.part)
      /\ whole' = last
      /\ moved' = (op = "NEXT" /\ moved)
      /\ visited' = IF last THEN visited \cup {next_record} ELSE visited
      /\ torn' = (torn \/ (last /\ ~InHead(repo, next_record)))
      /\ UNCHANGED lasting

\* pldm_monitor_gen_cmd_51
Asks(cnt, generator, lost) ==
  LET op == IF next_handle = 0 THEN "FIRST" ELSE "NEXT"
      chg == IF op = "FIRST" \/ generator THEN 0 ELSE parts[1].data.change
  IN  /\ next_record # NULL
      /\ pldm_monitor_get_pdr(op, next_record, next_handle, cnt, chg)
      /\ IF rsp'.cpl_code = "SUCCESS"
         THEN /\ waiting' = FALSE
              /\ IF lost THEN UNCHANGED <<next_record, next_handle, parts, whole, moved,
                                         visited, lasting, torn>>
                 ELSE Receives(op)
         ELSE UNCHANGED readerVars

\* The records change, and the walk goes on.
RecordsChange ==
  /\ \/ LinksChange
     \/ \E h \in TempRecords \cap Handles, limits \in Limits : SetThresholds(h, limits)
     \/ \E t \in Tids, e \in Eids : SetAddress(t, e)
  /\ lasting' = lasting \cap Records(repo')
  /\ moved' = (moved \/ (parts # <<>> /\ ~whole /\ ~InHead(repo', parts[1].record)))
  /\ UNCHANGED <<next_record, next_handle, parts, whole, visited, torn, waiting>>

\* data_transfer_handle_timeout is over.
TimePasses ==
  /\ gs_pdr_transfer_flag \in {"START", "MIDDLE"} /\ ~waiting
  /\ waiting' = TRUE
  /\ repo' = NoEvents(repo) /\ rsp' = NoResponse
  /\ UNCHANGED <<tid, eid, op_cnt, transferVars, next_record, next_handle, parts, whole,
                 moved, visited, lasting, torn>>

SessionNext ==
  \/ RecordsChange \/ StartsWalk \/ TimePasses
  \/ \E cnt \in Counts, generator \in BOOLEAN, lost \in BOOLEAN : Asks(cnt, generator, lost)

SessionSpec == SessionInit /\ [][SessionNext]_sessionVars

(***************************************************************************)
(* Properties.                                                             *)
(***************************************************************************)
\* The lists are sorted and share nothing, count and size are those of the list, the
\* pool has room for every record ever made and is not exceeded.
Made(r) == Records(r) \cup ToSet(r.deleted)
ListsAgree(r) ==
  /\ \A i, j \in DOMAIN r.head : i < j => r.head[i] < r.head[j]
  /\ IsInjective(r.deleted)
  /\ Records(r) \cap ToSet(r.deleted) = {}
  /\ r.record_count = Len(r.head)
  /\ r.size = SizesOf(Records(r))
  /\ r.pool_wt >= SizesOf(Made(r)) + NodeSize * Cardinality(Made(r))
  /\ r.pool_wt <= PDR_POOL_SIZE

\* An association has its container, and a port without a link has no record.
Linked(r, port) ==
  /\ InHead(r, CommChan(port)) => InHead(r, Plug(port))
  /\ InHead(r, Plug(port)) => InHead(r, Connector(port))
Unlinked(r, port) == PortRecords(port) \cap Records(r) = {}
LinksDecide(r, up) ==
  \A port \in Ports : IF up THEN Linked(r, port) ELSE Unlinked(r, port)

\* No deleted record is monitored or keeps a change number.
DeletedAreQuiet(r) ==
  \A h \in ToSet(r.deleted) : h \notin r.monitored /\ r.data[h].change = 0

\* GetPDR has a record, and bytes of it left, when the next part is to come.
TransferInRange ==
  gs_pdr_transfer_flag \in {"START", "MIDDLE"} =>
    /\ Exists(repo, gs_find_pdr)
    /\ gs_pdr_previous_data_transfer_handle \in 1 .. Sizes[gs_find_pdr] - 1

\* The signature a controller compares is that of the records as they are, after each
\* command (pldm_monitor_update_repo_signature).
SignatureIsCurrent == repo.repo_signature = Contents(repo)

\* Lists, counters, pool, monitors, signature and transfer agree, also when the pool is used up
\* in the middle of the records of a port (pdr.c, pldm_monitor_get_pdr).
RepoIsConsistent ==
  /\ ListsAgree(repo) /\ LinksDecide(repo, op_cnt) /\ DeletedAreQuiet(repo)
  /\ TransferInRange /\ SignatureIsCurrent

\* What a controller has of a list of records that applies the events in their order.
Told(records, events) ==
  {h \in Handles :
     \/ \E i \in DOMAIN events :
          /\ events[i] = [op |-> "added", record |-> h]
          /\ \A j \in i + 1 .. Len(events) : events[j] # [op |-> "deleted", record |-> h]
     \/ /\ h \in records
        /\ \A i \in DOMAIN events : events[i] # [op |-> "deleted", record |-> h]}

\* The events of a step take the old list of records to the new one, and tell of
\* every record whose data changed while it was there (pldm_pdr_chg_event_generate).
EventsTellTheChange ==
  [][ /\ Told(Records(repo), repo'.events) = Records(repo')
      /\ \A h \in Records(repo) \cap Records(repo') :
           repo'.data[h] # repo.data[h] =>
             \E event \in ToSet(repo'.events) : event.record = h ]_repo

\* The parts of a record are the whole record, without gap or overlap, and all of one
\* version, unless it was deleted and put back meanwhile: deleting it takes the change
\* number back to 0 (pldm_monitor_get_pdr, pldm_pdr_delete).
TransferIsOneVersion ==
  whole =>
    LET last == parts[Len(parts)]
    IN  /\ parts[1].from = 0 /\ last.from + last.len = Sizes[last.record]
        /\ \A i \in 2 .. Len(parts) :
             /\ parts[i].record = last.record
             /\ parts[i].from = parts[i - 1].from + parts[i - 1].len
             /\ moved \/ parts[i].data = last.data

\* A walk that comes to its end has seen every record that was there all the time,
\* though records came and went, unless a record was deleted under the reader: the
\* next one is then taken from the other list (pldm_monitor_get_pdr).
WalkVisitsEveryRecord == next_record = NULL /\ ~torn => lasting \subseteq visited

=============================================================================
