------------------------- MODULE PldmEventsSession -------------------------
(***************************************************************************)
(* The events of PldmEvents and a receiver that works like the packet      *)
(* generator of the repository (pldm_monitor_gen.c and _gen_recv.c):       *)
(* it answers an event that was sent to it, and polls from the moment it   *)
(* is asked to until there is no event left, the parts of an event one by  *)
(* one, each acknowledgement with the next request.  A message or a        *)
(* response may get lost; after a lost response the receiver may ask for   *)
(* the part again, and gives the poll up with AcknowledgementOnly.         *)
(*                                                                         *)
(* The receiver does one thing at a time, but two of its messages may be    *)
(* taken for an acknowledgement that they are not: the first poll of a     *)
(* session, whose id the terminus compares with an event that it polled in *)
(* an earlier one, and an answer that is late or repeated.  From there on  *)
(* the events are `astray': the read index may stand in the middle of one, *)
(* where the bytes spell any header.  The model ends with that step.       *)
(***************************************************************************)
EXTENDS PldmEvents

VARIABLES
  todo,         \* gs_pldm_monitor_gen_state.event_id: what the receiver does next;
                \* "astray" once the terminus has misunderstood it
  mc_event_id,  \* get_pull_event_rsp_dat: event polled
  mc_next,      \* get_pull_event_rsp_dat: handle of its next part
  mc_first,     \* no poll has been sent since the receiver was asked to
  mc_data,      \* the parts received of that event
  queue,        \* the events in the ring, oldest first
  got           \* the first of them, once received whole

mcVars == <<todo, mc_event_id, mc_next, mc_first, mc_data>>
sessionVars == <<eventVars, mcVars, queue, got>>

NoAck == 65534

\* The ids of the events are none of the special values, and the receiver negotiates
\* sizes that leave room for the checksum behind the fields of a part.
NegotiatedSizes == {InitialSize, DefaultSize, BufSize} \cup {s \in ReceiverSizes : s >= MinReceiver}
ASSUME ReceiverAssumption ==
  /\ MaxId < NoAck /\ CrcLen # 0
  /\ NegotiatedSizes \subseteq SyncField + CrcLen .. 65535

\* What was read ahead is taken out of the ring for a message that did not mean it.
GoesAstray ==
  /\ todo' = "astray" /\ mc_first' = FALSE
  /\ UNCHANGED <<mc_event_id, mc_next, mc_data>>
OnTrack == todo # "astray"

\* The receiver has nothing to do, and no event half polled.
Idle ==
  /\ todo' = "none" /\ mc_event_id' = 0 /\ mc_next' = 0 /\ mc_first' = FALSE
  /\ mc_data' = <<>>

\* It polls, from the event `id' on.
StartsPolling(id) ==
  /\ todo' = "poll" /\ mc_event_id' = id /\ mc_next' = 0 /\ mc_first' = TRUE
  /\ mc_data' = <<>>

SessionInit ==
  /\ Init
  /\ todo = "none" /\ mc_event_id = 0 /\ mc_next = 0 /\ mc_first = FALSE
  /\ mc_data = <<>> /\ queue = <<>> /\ got = NoEvent

(***************************************************************************)
(* The events in the ring, as its headers tell them from rd to wt.         *)
(***************************************************************************)
Ends(r) ==
  LET start == StartOf(r)
  IN  {k \in 0 .. MostEvents : start[k] = r.wt /\ \A j \in 0 .. k - 1 : start[j] # r.wt}
Contents(r) ==
  LET start == StartOf(r)
      first == [n \in 0 .. MostEvents |-> [k \in 1 .. n |-> HeaderAt(r, start[k - 1])]]
  IN  IF Ends(r) = {} THEN <<>> ELSE first[CHOOSE k \in Ends(r) : TRUE]

\* `got' after a step is what the step brought when that is the oldest event, else
\* what was there before, unless the read index has moved.
Delivers(brought) ==
  /\ queue' = IF ring' = ring THEN queue ELSE Contents(ring')
  /\ got' = IF /\ brought # <<>> /\ queue' # <<>>
               /\ brought = <<queue'[1].id, DataOf(queue'[1])>>
            THEN queue'[1]
            ELSE IF ring'.rd = ring.rd THEN got ELSE NoEvent
NothingDelivered == UNCHANGED <<queue, got>>

(***************************************************************************)
(* The terminus by itself.                                                 *)
(***************************************************************************)
Events ==
  /\ OnTrack
  /\ GenerateEvent \/ EventIsNotBuilt
  /\ Delivers(<<>>)
  /\ UNCHANGED mcVars

SendsNothing ==
  /\ OnTrack
  /\ SendNothing \/ SendToNobody
  /\ UNCHANGED mcVars /\ NothingDelivered

\* pldm_monitor_gen_recv_cmd_0a
SendsEvent(lost) ==
  /\ OnTrack
  /\ SendEvent
  /\ todo' = IF lost THEN "none" ELSE "answer"
  /\ Delivers(IF lost THEN <<>> ELSE <<out'.id, out'.data>>)
  /\ UNCHANGED <<mc_event_id, mc_next, mc_first, mc_data>>

SendsPollRequest(lost) ==
  /\ OnTrack
  /\ SendPollRequest
  /\ IF lost THEN Idle ELSE StartsPolling(out'.id)
  /\ NothingDelivered

(***************************************************************************)
(* The receiver.                                                           *)
(***************************************************************************)
\* pldm_monitor_gen_cmd_0a
Answers(ok) ==
  /\ todo = "answer"
  /\ pldm_monitor_platform_event_msg_rsp(ok)
  /\ todo' = "none"
  /\ Delivers(<<>>)
  /\ UNCHANGED <<mc_event_id, mc_next, mc_first, mc_data>>

\* An answer that comes when none is due: late, or repeated by the link.  It names no
\* event, the terminus takes it for the answer to what it has sent last.
AnswersLate ==
  /\ OnTrack /\ todo # "answer"
  /\ pldm_monitor_platform_event_msg_rsp(TRUE)
  /\ IF terminus_mode = "ASYNC" /\ ring.try_rd # ring.rd THEN GoesAstray ELSE UNCHANGED mcVars
  /\ Delivers(<<>>)

\* What the first poll of a session acknowledges though nothing was polled yet: the
\* event that the poll request named (the generator), or the value that the header
\* has for it.
FirstAcks == {mc_event_id, FOR_START}

\* pldm_monitor_gen_cmd_0b: the first part of an event acknowledges the last one.
PollRequest(first) ==
  IF mc_next = 0
  THEN pldm_monitor_poll_for_platform_event_msg(
         "FIRST", IF mc_first THEN first ELSE mc_event_id, 0)
  ELSE pldm_monitor_poll_for_platform_event_msg("NEXT", FOR_MIDDLE, mc_next)

\* The terminus takes the first poll for an acknowledgement of what it has read ahead.
Misleads(first) == mc_first /\ gs_event.id = first /\ ring.try_rd # ring.rd

\* pldm_monitor_gen_recv_cmd_0b
Polls(first, lost) ==
  /\ todo = "poll"
  /\ PollRequest(first)
  /\ LET part == ~lost /\ out'.msg = "part"
         parts == IF mc_next = 0 THEN out'.data ELSE mc_data \o out'.data
     IN  /\ IF Misleads(first) THEN GoesAstray
            ELSE IF ~lost /\ out'.msg = "empty" THEN Idle
            ELSE /\ todo' = IF lost THEN "lost" ELSE "poll"
                 /\ mc_first' = FALSE
                 /\ mc_event_id' = IF part THEN out'.id ELSE mc_event_id
                 /\ mc_next' = IF part THEN out'.next ELSE mc_next
                 /\ mc_data' = IF part THEN parts ELSE mc_data
         /\ Delivers(IF part /\ out'.crc THEN <<out'.id, parts>> ELSE <<>>)

\* A part that did not come is asked for again, which the terminus refuses.
RetriesPart ==
  /\ todo = "lost" /\ mc_next # 0
  /\ pldm_monitor_poll_for_platform_event_msg("NEXT", FOR_MIDDLE, mc_next)
  /\ Delivers(<<>>)
  /\ UNCHANGED mcVars

GivesUpPoll ==
  /\ todo = "lost"
  /\ pldm_monitor_poll_for_platform_event_msg("ACK_ONLY", NoAck, 0)
  /\ Idle
  /\ Delivers(<<>>)

\* A receiver that asks for polling polls.
SetsEventReceiver ==
  /\ todo = "none"
  /\ \E mode \in {"DISABLE", "ASYNC", "POLLING"}, eid \in Eids :
       /\ pldm_monitor_set_event_receiver(mode, eid)
       /\ IF mode = "POLLING"
          THEN StartsPolling(0)
          ELSE UNCHANGED mcVars
  /\ NothingDelivered

SetsBufferSize ==
  /\ OnTrack
  /\ \E size \in ReceiverSizes : pldm_monitor_event_msg_buffersize(size)
  /\ UNCHANGED mcVars /\ NothingDelivered

Stops == ~OnTrack /\ UNCHANGED sessionVars

SessionNext ==
  \/ Events
  \/ SendsNothing
  \/ \E lost \in BOOLEAN : SendsEvent(lost) \/ SendsPollRequest(lost)
  \/ \E ok \in BOOLEAN : Answers(ok)
  \/ AnswersLate
  \/ \E first \in FirstAcks, lost \in BOOLEAN : Polls(first, lost)
  \/ RetriesPart
  \/ GivesUpPoll
  \/ SetsEventReceiver
  \/ SetsBufferSize
  \/ Stops

\* A receiver that has been asked to poll goes on polling.  Nothing makes the
\* terminus call pldm_event_send_handle.
SessionSpec ==
  /\ SessionInit /\ [][SessionNext]_sessionVars
  /\ WF_sessionVars(\E first \in FirstAcks : Polls(first, FALSE))
  /\ WF_sessionVars(GivesUpPoll)

(***************************************************************************)
(* Properties.                                                             *)
(***************************************************************************)

\* The bytes between two indices that were read and not acknowledged are none, the
\* oldest event, or, once the receiver has been told to poll (or there is none),
\* its header.
ReadAheadIsOldest ==
  LET ahead == ReadSize(ring.rd, ring.try_rd) IN
  \/ ahead = 0
  \/ ~pldm_event_rbuf_is_empty(ring) /\ ahead = EventLen(HeaderAt(ring, ring.rd))
  \/ ahead = HdrLen /\ todo # "answer"

\* Read index and write index enclose whole events, one behind the other, headers and
\* data intact, with growing ids: neither a wrap around, nor the deletion of old
\* events, nor an acknowledgement that comes in another mode or after a deletion ever
\* cuts one.  What is read ahead is the oldest of them.  Only a first poll or a late
\* answer that is taken for an acknowledgement of it can end that.
RingHoldsWholeEvents ==
  OnTrack =>
    LET start == StartOf(ring)
    IN  /\ Ends(ring) # {}
        /\ \A k \in 1 .. Len(queue) :
             /\ BytesAt(ring, start[k - 1], EventLen(queue[k])) = BytesOf(queue[k])
             /\ queue[k].id < g_event_id
             /\ k > 1 => queue[k - 1].id < queue[k].id
        /\ ReadAheadIsOldest

\* The parts a receiver has put together are the beginning of one event's data,
\* even when that event was deleted from the ring or the buffer size was
\* negotiated again between two of them; and the handle of the part that the terminus
\* expects next lies in the event polled, astray or not, or its remain_bytes would wrap
\* around.
PartsAreOneEvent ==
  /\ prev_handle \in 0 .. gs_event.size /\ Len(gs_data) = gs_event.size
  /\ todo = "poll" /\ mc_data # <<>> =>
       /\ mc_event_id = gs_event.id
       /\ mc_data = SubSeq(DataOf(gs_event), 1, Len(mc_data))
       /\ mc_next = 0 => mc_data = DataOf(gs_event)

\* A message of the terminus fits the size the receiver has negotiated, fields and
\* checksum included (the sizes smaller than the fields around a part are left out:
\* the code accepts them, and its sizes wrap around).
MessagesFit ==
  [][CASE out'.msg = "event" -> Len(out'.data) + AsyncField <= max_buffersize
       [] out'.msg = "part" -> Len(out'.data) + (IF out'.crc THEN CrcLen ELSE 0)
                                 + SyncField <= max_buffersize
       [] OTHER -> TRUE]_sessionVars

\* A poll that goes on ends, every event polled, provided that a part can hold the
\* checksum: a buffer between SyncField and SyncField + CrcLen would ask for empty
\* parts for ever.
PollEnds ==
  terminus_mode = "POLLING" /\ todo # "none" ~> terminus_mode # "POLLING" \/ ~OnTrack

\* Delivery is that of a queue: an event leaves the ring in its turn, received
\* whole and then acknowledged, or because the ring has no room.  The one step that
\* need not be one of the queue is the one that goes astray.
Delivery == INSTANCE EventQueue
  WITH Capacity <- BufSize - 1, Events <- EventSet, LengthOf <- EventLen,
       Nothing <- NoEvent, queue <- queue, got <- got

ImplementsEventQueue ==
  Delivery!QueueInit /\ [][Delivery!QueueNext \/ ~OnTrack']_<<queue, got>>

\* The first poll of a session takes no event out of the ring: the receiver has got
\* none yet, and EVENT_ID_FOR_START acknowledges nothing.  False of the code.
FirstPollTakesNothing == [][mc_first /\ ~mc_first' => queue' = queue]_sessionVars

=============================================================================
