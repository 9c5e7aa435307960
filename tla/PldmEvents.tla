----------------------------- MODULE PldmEvents -----------------------------
(***************************************************************************)
(* The events of the PLDM terminus: the ring buffer they are kept in,      *)
(* src/source/net/pldm/pldm_monitor_event_rbuf.c, and their delivery, by   *)
(* messages of the terminus (asynchronous mode) or by the polls of the     *)
(* event receiver, src/source/net/pldm/pldm_monitor.c.                     *)
(*                                                                         *)
(* An event is a header and `size' bytes of data, both in the ring.  The   *)
(* read index moves in two steps: pldm_event_rbuf_try_read notes in try_rd *)
(* how far it read, pldm_event_rbuf_read_done makes that the read index    *)
(* when the receiver has acknowledged.  What was read in between, and      *)
(* whether the acknowledgement is about it, is for the callers to know.    *)
(*                                                                         *)
(* A byte in the ring is named by the event it was written for and its     *)
(* place in it, so that a header read off the boundary of an event, or a   *)
(* message that mixes two events, shows.                                   *)
(***************************************************************************)
EXTENDS Integers, Sequences, FiniteSets

CONSTANTS
  BufSize,        \* PLDM_TERMINUS_MAX_BUFFERSIZE
  HdrLen,         \* sizeof(pldm_event_data_t)
  CrcLen,         \* bytes of the DataIntegrityChecksum
  SyncField,      \* PLDM_SYNC_SEND_FIELD_LEN
  AsyncField,     \* PLDM_ASYNC_SEND_FIELD_LEN
  Backlog,        \* pending ids above which the receiver is told to poll (10)
  MinReceiver,    \* PLDM_EVENT_RECEIVER_MIN_BUFFERSIZE
  DefaultSize,    \* PLDM_TERMINUS_DEFAULT_BUFFERSIZE
  InitialSize,    \* terminus_max_buffersize before it is negotiated (24)
  ReceiverSizes,  \* buffer sizes a receiver may announce
  DataLens,       \* event_data_size values
  Eids,           \* event receivers; 0 stands for none
  MaxId           \* bound: the largest event id

ASSUME EventSizesAssumption ==
  /\ BufSize \in Nat /\ HdrLen \in Nat \ {0} /\ MaxId \in Nat \ {0}
  /\ DataLens \subseteq Nat /\ DataLens # {}
  /\ \A len \in DataLens : HdrLen + len < BufSize
ASSUME FieldsAssumption ==
  {CrcLen, SyncField, AsyncField, Backlog, MinReceiver, DefaultSize, InitialSize}
    \cup ReceiverSizes \cup Eids \subseteq Nat

VARIABLES
  ring,             \* gs_pldm_event_rbuf: buf, rd, wt, try_rd
  g_event_id,       \* id of the next event
  terminus_mode,
  max_buffersize,   \* terminus_max_buffersize
  event_receiver_eid,
  gs_event,         \* gs_pldm_event_data: header of the last polled event
  gs_data,          \* gs_entity_event_data: its data
  prev_handle,      \* gs_event_previous_data_transfer_handle
  transfer_flag,    \* gs_event_transfer_flag
  out               \* the message or poll response of the last step

pollVars == <<gs_event, gs_data, prev_handle, transfer_flag>>
eventVars == <<ring, g_event_id, terminus_mode, max_buffersize, event_receiver_eid,
               gs_event, gs_data, prev_handle, transfer_flag, out>>

Ids == 1 .. MaxId
EventSet == [id : Ids, size : DataLens]
NoEvent == [id |-> 0, size |-> 0]
NoMessage == [msg |-> "none"]
FOR_MIDDLE == 65535     \* EVENT_ID_FOR_MIDDLE
FOR_START == 0          \* EVENT_ID_FOR_START

Position == 0 .. BufSize - 1
EventLen(e) == HdrLen + e.size
ByteOf(e, k) == [event |-> e, at |-> k]
BytesOf(e) == [k \in 1 .. EventLen(e) |-> ByteOf(e, k - 1)]
DataOf(e) == [k \in 1 .. e.size |-> ByteOf(e, HdrLen + k - 1)]

(***************************************************************************)
(* The ring buffer.                                                        *)
(***************************************************************************)
pldm_event_rbuf_init ==
  [buf |-> [p \in Position |-> ByteOf(NoEvent, 0)], rd |-> 0, wt |-> 0, try_rd |-> 0]

ReadSize(rd, wt) == IF wt >= rd THEN wt - rd ELSE wt + BufSize - rd
pldm_event_rbuf_is_empty(r) == r.rd = r.wt

\* Mutant: a full ring counts as free.
ValidBytes_no_gap(rd, wt) == BufSize - ReadSize(rd, wt)

\* One byte stays free: a full ring is not an empty one.
ValidBytes(rd, wt) == BufSize - ReadSize(rd, wt) - 1

\* pldm_event_rbuf_try_read: the bytes it copies, and the index it leaves.
BytesAt(r, pos, len) == [k \in 1 .. len |-> r.buf[(pos + k - 1) % BufSize]]
pldm_event_rbuf_try_read(r, len, offset) ==
  [r EXCEPT !.try_rd = (((r.rd + offset) % BufSize) + len) % BufSize]

pldm_event_rbuf_read_done(r) == [r EXCEPT !.rd = r.try_rd]

\* The header a read at `pos' finds.  Off the boundary of an event the bytes spell
\* anything, here some event of the model.
HeaderAt(r, pos) ==
  LET e == r.buf[pos].event
  IN  IF /\ e \in EventSet
         /\ \A k \in 0 .. HdrLen - 1 : r.buf[(pos + k) % BufSize] = ByteOf(e, k)
      THEN e ELSE CHOOSE any \in EventSet : TRUE

\* Where the event after the first k from the read index on starts.
MostEvents == BufSize \div HdrLen
StartOf(r) ==
  LET after == [p \in Position |-> (p + EventLen(HeaderAt(r, p))) % BufSize]
      start[k \in 0 .. MostEvents] == IF k = 0 THEN r.rd ELSE after[start[k - 1]]
  IN  start

\* Deletes the oldest events until `len' bytes are free.
Evict(r, len) ==
  LET start == StartOf(r)
      enough == {k \in 0 .. MostEvents : ValidBytes(start[k], r.wt) >= len}
      k == CHOOSE k \in enough : \A j \in enough : k <= j
  IN  IF k = 0 THEN r ELSE [r EXCEPT !.rd = start[k], !.try_rd = start[k]]

pldm_event_rbuf_write(r, e) ==
  LET place(p) == (p - r.wt) % BufSize
  IN  [Evict(r, EventLen(e)) EXCEPT
         !.buf = [p \in Position |-> IF place(p) < EventLen(e) THEN ByteOf(e, place(p))
                                     ELSE r.buf[p]],
         !.wt = (r.wt + EventLen(e)) % BufSize]

(***************************************************************************)
(* pldm_monitor_init: asynchronous, with a receiver.                       *)
(***************************************************************************)
Init ==
  /\ ring = pldm_event_rbuf_init
  /\ g_event_id = 1
  /\ terminus_mode = "ASYNC"
  /\ max_buffersize = InitialSize
  /\ event_receiver_eid = CHOOSE eid \in Eids : eid # 0
  /\ gs_event = NoEvent /\ gs_data = <<>>
  /\ prev_handle = 0 /\ transfer_flag = "START_AND_END"
  /\ out = NoMessage

(***************************************************************************)
(* Events are made by the sensors, the PDR repository and the Redfish      *)
(* provider, never while the receiver has disabled them.                   *)
(***************************************************************************)
Silent == out' = NoMessage

GenerateEvent ==
  /\ terminus_mode # "DISABLE"
  /\ g_event_id <= MaxId
  /\ \E size \in DataLens :
       ring' = pldm_event_rbuf_write(ring, [id |-> g_event_id, size |-> size])
  /\ g_event_id' = g_event_id + 1
  /\ Silent
  /\ UNCHANGED <<terminus_mode, max_buffersize, event_receiver_eid, pollVars>>

\* pldm_redfish_msg_event_generate without room for the body: the id is spent.
EventIsNotBuilt ==
  /\ terminus_mode # "DISABLE"
  /\ g_event_id <= MaxId
  /\ g_event_id' = g_event_id + 1
  /\ Silent
  /\ UNCHANGED <<ring, terminus_mode, max_buffersize, event_receiver_eid, pollVars>>

(***************************************************************************)
(* pldm_event_send_handle: called from time to time.  The oldest event     *)
(* goes out, or the request to poll; nothing waits for an answer, and an   *)
(* event that is not acknowledged goes out again.                          *)
(***************************************************************************)
EventCnt(e) == (g_event_id - e.id) % 256

NeedsPoll(e) == EventCnt(e) > Backlog \/ e.size > max_buffersize - AsyncField

SendNothing ==
  /\ terminus_mode # "POLLING" /\ pldm_event_rbuf_is_empty(ring)
  /\ g_event_id' = 1
  /\ Silent
  /\ UNCHANGED <<ring, terminus_mode, max_buffersize, event_receiver_eid, pollVars>>

SendEvent ==
  /\ terminus_mode # "POLLING" /\ ~pldm_event_rbuf_is_empty(ring)
  /\ LET e == HeaderAt(ring, ring.rd) IN
       /\ event_receiver_eid # 0 /\ ~NeedsPoll(e)
       /\ ring' = pldm_event_rbuf_try_read(ring, e.size, HdrLen)
       /\ out' = [msg |-> "event", id |-> e.id,
                  data |-> BytesAt(ring, (ring.rd + HdrLen) % BufSize, e.size)]
  /\ UNCHANGED <<g_event_id, terminus_mode, max_buffersize, event_receiver_eid, pollVars>>

SendPollRequest ==
  /\ terminus_mode # "POLLING" /\ ~pldm_event_rbuf_is_empty(ring)
  /\ LET e == HeaderAt(ring, ring.rd) IN
       /\ event_receiver_eid # 0 /\ NeedsPoll(e)
       /\ out' = [msg |-> "poll", id |-> e.id]
  /\ ring' = pldm_event_rbuf_try_read(ring, HdrLen, 0)
  /\ terminus_mode' = "POLLING"
  /\ UNCHANGED <<g_event_id, max_buffersize, event_receiver_eid, pollVars>>

\* Without a receiver the header is read all the same.
SendToNobody ==
  /\ terminus_mode # "POLLING" /\ ~pldm_event_rbuf_is_empty(ring)
  /\ event_receiver_eid = 0
  /\ ring' = pldm_event_rbuf_try_read(ring, HdrLen, 0)
  /\ Silent
  /\ UNCHANGED <<g_event_id, terminus_mode, max_buffersize, event_receiver_eid, pollVars>>

pldm_event_send_handle == SendNothing \/ SendEvent \/ SendPollRequest \/ SendToNobody

(***************************************************************************)
(* Commands and answers of the event receiver.                             *)
(***************************************************************************)

\* Enabling events takes effect only for MCTP, a known mode and the sender's own
\* address; disabling always does.
pldm_monitor_set_event_receiver(mode, eid) ==
  /\ terminus_mode' = mode
  /\ event_receiver_eid' = IF mode = "DISABLE" THEN event_receiver_eid ELSE eid
  /\ Silent
  /\ UNCHANGED <<ring, g_event_id, max_buffersize, pollVars>>

pldm_monitor_event_msg_buffersize(size) ==
  /\ max_buffersize' = IF size < MinReceiver THEN DefaultSize
                       ELSE IF size <= BufSize THEN size ELSE BufSize
  /\ Silent
  /\ UNCHANGED <<ring, g_event_id, terminus_mode, event_receiver_eid, pollVars>>

\* The answer to a message of the terminus, to whichever one.
pldm_monitor_platform_event_msg_rsp(ok) ==
  /\ ring' = IF ok /\ terminus_mode = "ASYNC" THEN pldm_event_rbuf_read_done(ring) ELSE ring
  /\ Silent
  /\ UNCHANGED <<g_event_id, terminus_mode, max_buffersize, event_receiver_eid, pollVars>>

\* Leaves the poll state.
LeavePolling ==
  /\ terminus_mode' = "ASYNC"
  /\ prev_handle' = 0 /\ transfer_flag' = "END"

\* Mutant: room for the checksum is kept in every part.
PartSize_room_for_crc(remain, max) == IF remain + CrcLen <= max THEN remain ELSE max - CrcLen

\* The size of the next part: max_pkt_len is a u16, remain_bytes a u32.
PartSize(remain, max) == IF remain + CrcLen <= max \/ remain < max THEN remain ELSE max

\* Mutant: the checksum does not count for the part it is appended to.
SendPart_crc_beyond(e, op, handle) ==
  LET max == (max_buffersize - SyncField) % 65536
      remain == e.size - handle
      last == remain <= max
      len == IF remain <= max THEN remain ELSE max
      flag == IF last THEN (IF op = "FIRST" THEN "START_AND_END" ELSE "END")
              ELSE (IF op = "FIRST" THEN "START" ELSE "MIDDLE")
      next == IF last THEN 0 ELSE handle + len
  IN  /\ transfer_flag' = flag /\ prev_handle' = next
      /\ out' = [msg |-> "part", id |-> e.id, flag |-> flag, next |-> next, crc |-> last,
                 data |-> SubSeq(gs_data', handle + 1, handle + len)]

\* The part of the event that starts at `handle'.
SendPart(e, op, handle) ==
  LET max == (max_buffersize - SyncField) % 65536
      remain == e.size - handle
      last == remain + CrcLen <= max
      len == PartSize(remain, max)
      flag == IF last THEN (IF op = "FIRST" THEN "START_AND_END" ELSE "END")
              ELSE (IF op = "FIRST" THEN "START" ELSE "MIDDLE")
      next == IF last THEN 0 ELSE handle + len
  IN  /\ transfer_flag' = flag /\ prev_handle' = next
      /\ out' = [msg |-> "part", id |-> e.id, flag |-> flag, next |-> next, crc |-> last,
                 data |-> SubSeq(gs_data', handle + 1, handle + len)]

\* An acknowledgement takes the last event polled out of the ring when it names that
\* event, whatever was read since.
Acknowledged_whatever_id(ack) == pldm_event_rbuf_read_done(ring)
Acknowledged(ack) == IF gs_event.id = ack THEN pldm_event_rbuf_read_done(ring) ELSE ring

\* A new event is read unless parts of the last one are still to be sent.
ReadsNew == transfer_flag \in {"END", "START_AND_END"}

\* Mutant: the data is read for every part.
PolledData_every_time(r, e) == BytesAt(r, (r.rd + HdrLen) % BufSize, e.size)

PolledEvent(r) == IF ReadsNew THEN HeaderAt(r, r.rd) ELSE gs_event
PolledData(r, e) ==
  IF ReadsNew THEN BytesAt(r, (r.rd + HdrLen) % BufSize, e.size) ELSE gs_data

Refused(op, ack, handle) ==
  \/ op = "NEXT" /\ ack # FOR_MIDDLE
  \/ op = "FIRST" /\ ack = FOR_MIDDLE
  \/ handle # prev_handle

\* The acknowledgement is looked at first, and whatever is asked for, an event is
\* read.
pldm_monitor_poll_for_platform_event_msg(op, ack, handle) ==
  LET r == Acknowledged(ack)
      e == PolledEvent(r)
  IN  /\ UNCHANGED <<max_buffersize, event_receiver_eid>>
      /\ \/ /\ pldm_event_rbuf_is_empty(r)
            /\ ring' = r /\ g_event_id' = 1
            /\ LeavePolling
            /\ out' = [msg |-> "empty"]
            /\ UNCHANGED <<gs_event, gs_data>>
         \/ /\ ~pldm_event_rbuf_is_empty(r)
            /\ ring' = IF ReadsNew THEN pldm_event_rbuf_try_read(r, e.size, HdrLen) ELSE r
            /\ gs_event' = e /\ gs_data' = PolledData(r, e)
            /\ UNCHANGED g_event_id
            /\ \/ /\ op = "ACK_ONLY"
                  /\ LeavePolling
                  /\ out' = [msg |-> "acked"]
               \/ /\ op # "ACK_ONLY" /\ Refused(op, ack, handle)
                  /\ out' = [msg |-> "refused"]
                  /\ UNCHANGED <<terminus_mode, prev_handle, transfer_flag>>
               \/ /\ op # "ACK_ONLY" /\ ~Refused(op, ack, handle)
                  /\ SendPart(e, op, handle)
                  /\ UNCHANGED terminus_mode

=============================================================================
