# sideband_cmd: specifications, checks and proofs

`sideband_cmd` is the sideband-management firmware of a network card: an MCTP
endpoint with a PLDM terminus and an NC-SI package behind it, together with a
packet generator (`source/pkt_gen`) that plays the management controller.  It is
one single-threaded program (`source/app/main.c`): a command is read, the
generator builds a packet, the firmware handles it and answers.  There is no
preemption.  What makes it hard is the *order of packets*: the controller may
send any command in any state, answers come late, twice or not at all, and much
of the state is in file-static variables that several handlers share and nobody
resets.

All paths below are relative to `src/source/`.

## 1. Inventory

| component | state | operations | interacts with | what makes it correct |
|---|---|---|---|---|
| **Firmware update, device side** `net/pldm/pldm_fw_update.c` | `g_pldm_fwup_info` (state, previous state, update mode, images), `gs_event_id`, `gs_data_transfer_handle`, `gs_requestfwdata_once_size`, `gs_fw_data_buf`, the package data, the image file `pd`, the timer flags | one handler per command, one per answer to its own requests, the timer prologue, `pldm_fwup_state_machine_switch` and its table | PLDM dispatch, which calls handler, reply and switch; `pldm_msg_send` for its requests; the file | state, mode and events agree; a transfer that succeeded moved every byte in order; the two sides never wait for each other; nothing of one session reaches the next |
| **Events** `net/pldm/pldm_monitor_event_rbuf.c`, `pldm_monitor.c` | ring `gs_pldm_event_rbuf` (`rd`, `wt`, `try_rd`), `g_event_id`, `terminus_mode`, `terminus_max_buffersize`, the last polled event and its transfer handle | generate, send (`pldm_event_send_handle`), acknowledge, poll, set receiver, set buffer size | sensors generate events; the receiver answers and polls | events leave the ring whole, in order, acknowledged or for lack of room; a poll ends; messages fit the receiver's buffer |
| **Sensors and temperature monitor** `pldm_monitor.c` | tables of sensors, their enables, thresholds and last states | enable, set thresholds, read, the link of the port, the temperature monitor | the link moves them, they generate events | an event for each change, each beginning where the last one ended; the sensors of a port show its link |
| **PDR repository, GetPDR** `net/pldm/pdr.c`, `pldm_monitor.c` | sorted list of records, list of deleted ones, bump-allocated pool, count, sizes, signature; `gs_find_pdr` and the transfer flag | add, delete, find, link up/down, get a record in parts | events of repository changes; Redfish | count, size and largest record are those of the list; a transfer gives the bytes of one record |
| **PLDM dispatch and control** `net/pldm/pldm.c`, `pldm_control.c` | instance id, `g_pldm_need_rsp`, timer `g_cal_times` | dispatch by type, SetTID, GetTID, versions, commands | everything of PLDM | one reply per request, the timer runs only while an answer is due |
| **Redfish device enablement** `net/pldm/pldm_redfish.c` | `gs_op_info` (operation, its status, permissions), transfer handles, dictionaries | operation init / status / complete / kill, multipart send and receive | BEJ and JSON, files | the life cycle of an operation; a multipart transfer is one object |
| **FRU data** `net/pldm/pldm_fru_data.c` | transfer handle and flag of GetFRURecordTable | the table in parts | - | what a reader puts together is the table; without losses somebody can always go on |
| **MCTP packets** `net/mctp/mctp.c`, `mctp_frag.c`, `mctp_defrag.c` | one assembly buffer with tag, sequence number and length; message tag counter | assemble, split, dispatch | control, PLDM | what is delivered is one message that was sent |
| **MCTP control** `net/mctp/mctp_ctl.c` | endpoint id, discovered flag, instance id | set/get EID, discovery, versions, routing | `mctp_send_to` takes the EID | an owner that was answered is right about the endpoint; discovery ends |
| **NC-SI** `net/ncsi/ncsi.c` | per channel: ready, enabled, TX, AEN, link, VLAN and filter modes; package status; `gs_ncsi_current_chn`, `g_ncsi_port_bak` | select, enable, disable, reset, TX, AEN, filters, reports; status change messages | the controller; the links | what a controller has learnt of a setting stays true; a repeated command does no harm; the current channel is one that may transmit |
| **Packet generator** `pkt_gen/` | what the controller believes: `gs_pldm_monitor_gen_state`, counters of the update generator | builds packets, reads replies | the peer of everything above | - |
| **JSON, BEJ, CRC, application loop, scripts** | - | conversions, menus, offline image and dictionary building | - | - |

The behaviours that are hard to test, each at its line and with the properties
that are about it, are the `hazards` of `PROJECT.json`.  In short: the timer that
ends a session in the prologue of a packet whose handler then still runs; answers
that arrive in another state or in another session; transfer counters shared by
two commands or kept from one component to the next; the ring that is trimmed
while an event is being read, polled or acknowledged; acknowledgements that do not
say what they acknowledge; sizes that wrap around in 16 bits; one handle, one buffer or
one operation for everybody who reads or asks; commands that take effect although
their response refuses them; sensors that the link, the monitor and the controller move
in any order.

## 2. Plan

Most important behaviour first; each group is a component module, a session with
its peer, what it promises, the runs, then the proofs.

| step | modules | state |
|---|---|---|
| 1 | `PldmFwup` (device, any agent), `PldmFwupSession` (disciplined agent), `ImageTransfer` (abstract), `PldmFwupProofs` | done |
| 2 | `PldmEvents` (ring and delivery), `PldmEventsSession` (receiver, late answers, first acknowledgements), `EventQueue` (abstract), `PldmEventsProofs` | done |
| 3 | `MctpLink` (split, assemble, faulty link), `MctpProofs` | done |
| 4 | `PdrRepo` (lists, pool, links, thresholds, GetPDR), `PdrReader` (a controller that reads it), `PdrProofs` | done |
| 5 | `NcsiPackage` (the package), `NcsiController` (what a controller knows of it), `NcsiProofs` | done |
| 6 | `RdeDevice` (operations, dictionaries, transfers), `RdeSession` (one controller), `RdeProofs` | done |
| 7 | `PldmFru` (the table), `PldmFruSession` (its readers), `PldmFruProofs` | done |
| 8 | `Terminus` (MCTP and PLDM control), `TerminusDiscovery` (bus owners, controller), `MctpProofs` | done |
| 9 | `Sensors` (link, monitor, controller, events), `SensorsProofs` | done |
| 10 | the session invariants of firmware update and `ImplementsImageTransfer`, everything of Redfish but liveness, `RepeatIsHarmless` | done |
| 11 | the ring and its refinement of `EventQueue` | done |
| 12 | the repository and its reader: every safety property, for any records and pool | done |

Runs are few and each answers a question of its own; a property that several
conjuncts make up is stated once, with its parts named in the comment above it.

## 3. Firmware update

### PldmFwup

A step is one packet of PLDM type 5: the prologue of `pldm_fwup_process` (mode
test, timer, `need_rsp`), the handler, then `pldm_fwup_state_machine_switch`, which
runs after every packet whatever the reply was.  The C file's variables are the
fields of the record `fd`, so that a handler is an operator from records to
records and `Packet(handler(Prologue(cmd)))` is the composition the code executes.
`pldm_fwup_transforms` is the table, a set of rows.  Handlers keep their C names.

The agent is not constrained: any command, any answer, at any moment.  An answer
carries what the device looks at (success, next handle, whether the checksum of
the package data is right, where in the image its bytes come from).  The contents
of a packet are otherwise abstracted; image bytes are named by their offset, so that
a gap, an overlap or a stale byte in the file can be seen.  `TimePasses` makes the
15 minutes since the last request be over.

What TLC checks with any agent (run `fwup`):

* `NoPendingTransition`: the event is never consumed, yet no packet leaves one that
  would fire again by itself.
* `BuffersInBounds`: the block is never exceeded and no 16-bit difference wraps around.
* `NothingLeftInIdle`: nothing of a session is left when it is over.
* `SessionEndsOnlyBy`: a session ends by cancellation, activation or the timer, in the packet that
  brings it, and not otherwise.

### PldmFwupSession and ImageTransfer

The agent that answers what it was asked and nothing else, and may refuse, lose an
answer or cancel.  What the agent knows (the request it owes an answer, the size of
its image, the bytes it delivered) stands beside `fd`.  Run `fwup_session`:

* `DueMatchesState`, `NeverBothWait`: request and state belong together and, without a
  refusal or a loss, somebody always has something to do.
* `TransferredIsDelivered`, `FileIsInOrder`: a success means every byte was delivered, and the
  package data first; what the file holds is the image in order, in full blocks,
  and it is written only while it is open.
* `TransferEnds` (liveness): a transfer, and the package data before it, come to an end.
* `ImplementsImageTransfer`: the session refines `ImageTransfer`: an image is verified
  only when all of it has arrived, applied only when it was verified.

Fairness: `WF(AgentAnswers(TRUE, TRUE))` only.  The device acts within a packet, so it
needs none; the code has no retry, so nothing but the agent's answer can make
progress, and a theorem of progress needs an agent that answers.  Commands of the
agent, the clock, refusals and losses have no fairness.

Exclusions a reader should know: `TransferEnds` leaves out a maximum transfer size
of 0, which the code accepts and then asks for nothing for ever; `FileIsInOrder`
leaves out a second component (below); `DueMatchesState` and `TransferredIsDelivered` name the
sessions that the timer ended while an answer was on its way.

### What the code does otherwise than its comments

The run `fwup_tail` checks the comment "Transfer has completed without error": TLC finds
the behaviour in which the last, partial block is never written although the transfer is
reported complete (the first finding of `PROJECT.json`).  More differences are in the model
without a run of their own:

* the 15 minutes of a session are looked at only when an answer is due
  (`pldm_fw_update.c:722`, `787`): a session whose agent sends commands, or nothing, outlives them;
* the size of the last request of one component is that of the first one of the next
  (`384`, `421`), and a second component's first block can get the wrong bytes;
* package data in error are reported with the event number 3 instead of PACKAGE_DATA_ERROR
  (`289`, against the comment at 272);
* ACTIVATE is never passed: the row whose comment names it goes from READY XFER to IDLE (672).

### Bounds

`fwup`: a receive buffer of 2 bytes, transfer sizes 1 and 3 (smaller than the buffer,
and larger, which RequestUpdate cuts), images of 3 bytes (not a multiple of the buffer), package data of
0 or 2 bytes, one component; every handler branch and every row of the table is
taken.  `fwup_session`: buffer 3, image 4, transfer sizes 0, 2 and 4, so that one
block takes several answers, an answer straddles two blocks, and the last request
is shorter.  `MaxBlocks` bounds the file: two blocks are one transfer, the third lets
a second component write behind the first.

## 4. Events

### PldmEvents

The ring byte by byte: a position holds which byte of which event was written
there, so a header read in the middle of an event or a part that mixes two events
shows up.  Actions: an event is generated (the write deletes as many of the oldest
as it must, and takes the try-read index along if that pointed into them), or is
not built because it is larger than the receiver's buffer; `pldm_event_send_handle` sends the
oldest event, or asks the receiver to poll, or finds nothing to do; the receiver's
answer acknowledges what was sent last; a poll acknowledges, then reads the next
event or the next part; the receiver is set; the buffer size is negotiated.

### PldmEventsSession and EventQueue

The receiver of the generator: it answers what it gets before the next message
leaves, polls from the request until the ring is empty, acknowledging each event
with the next poll, may lose a response, ask again for the part, or give up.  Two of its messages
may be taken for an acknowledgement that they are not:

* the *first poll* of a session.  It has nothing to acknowledge and says what the generator says, the id that
  the poll request named (`pldm_monitor_gen.c:53`), or 0, which is `EVENT_ID_FOR_START` in
  `pldm_monitor.h:299` (`FirstAcks`).  The terminus compares it with the id in `gs_pldm_event_data`, which is 0 until
  an event was polled, and later that of the event polled last, in an earlier session perhaps
  (`pldm_monitor.c:131`).  When the ids are equal and something was read ahead, that is taken out of the ring (`Misleads`).
* a *late answer* (`AnswersLate`), or one that the link repeats: it names no event
  (`pldm_monitor.c:116`), and takes out what was read ahead for another message.

What was read ahead is the header alone, when a poll was asked for, or an event that has not arrived.  From that step
on the events are *astray*: the read index may stand in the middle of an event, and the
bytes there spell any header.  The step itself is in the model, with what it sends; what follows
it is not (`Stops`).  Every other step, and those first polls and late answers that do no harm, go on.  Run `events`:

* `RingHoldsWholeEvents`: from read to write index there are whole events with
  growing ids, wrap around and trimming notwithstanding, and what was read and not
  acknowledged is the oldest of them, unless astray.
* `PartsAreOneEvent`: the parts a receiver has put together are one event, even if it
  was deleted from the ring meanwhile; the handle of the next part lies in the event polled, astray or not.
* `MessagesFit`: what is sent fits the receiver's buffer, astray or not.
* `ImplementsEventQueue`: with the ring read as a queue of events, the session refines
  `EventQueue`: an event leaves in its turn after it was received whole, or because
  there is no room for a new one, and then no more are dropped than necessary.  The step that goes astray is the
  only one that need not be a step of the queue.
* `PollEnds` (liveness): the terminus leaves the polling mode, when the receiver goes on
  polling (`WF` on the receiver's poll and on giving up), unless it goes astray.  There is no fairness for
  `pldm_event_send_handle`: in this program only a command of the generator (0x54) calls it.

Run `events_ack` shows how a session goes astray.  `FirstPollTakesNothing`, that the first poll of a session takes no
event out of the ring, is what the comment of `EVENT_ID_FOR_START` says; TLC finds it violated in three steps: an
event is made, the receiver is asked to poll for it (which reads its header ahead), and the first poll,
with 0, moves the read index behind the header: the data that follow are read as the next header.  With the id that the
generator sends it takes an earlier session: the event is polled, the response gets lost, the receiver gives the poll
up, is asked to poll for the same event again, and its first poll acknowledges what it has never received.

The sizes are those of buffers that hold the fields of a part and its checksum (21
bytes): of the sizes the code accepts (from 14 on) those below 17 make the part size
wrap around, and the whole event is sent; from 17 to 20 no part can hold the checksum.

Bounds: a ring of 7 bytes with events of 3 and 4 bytes holds two events, wraps
around within each, and has to delete one for a new one; two ids, which begin again at 1 whenever a poll
finds the ring empty; one pending event is the backlog above which the receiver is told to
poll (10 in the code); sizes 3 and 4 announce buffers below and above what is
accepted; there is a receiver or none.  That a new event makes two old ones go takes a third id: the proofs
have that case, with every other number.  Assumption: ids do not wrap around 16 bits.

## 5. MCTP link

`MctpLink` is a sender (`mctp_send_to` and the loop of `mctp_defrag_process`), a link that
loses and repeats packets, and the receiver (`mctp_pkt_process`, `mctp_frag_process`).
`SinglePacket`, `FirstPacket`, `MiddlePacket`, `LastPacket` and `RefusedPacket` are the branches of
the receiver, errors included; the sequence number steps before it is compared, as
in the code.  A payload is named by its message and its place.  `hits` counts the faults (a packet lost or
repeated, `send_to` failing in the middle) since a split message arrived unharmed,
`spoiled` says whether the present message was hit.  Run `mctp_link`:

* `DeliveredIsSent`: with one fault, what is handed to the dispatcher is the message
  that is sent, whole and once, and what is appended fits the buffer.  The bound is sharp: with two
  faults (a repeated packet and a lost one, or the last packet of one message and the first of the
  next) the code can deliver a mixture.
* `UnharmedArrives`: after any faults, a message that is not hit arrives: what an unfinished one
  left behind is in nobody's way.

That no error is reported without a fault (`NoErrorUnlessHit`) and that the buffer holds
whatever is appended (`BufferHolds`) is proved and not a run's property.

Bounds: payloads of 2 bytes and messages of 2, 3 and 9 bytes are one, two and five
packets, so that the two-bit sequence number wraps around; the longest message fills the
buffer exactly; up to three faults before a split message arrives unharmed (the proofs have no such bound).
Assumptions: one sender at a time, as in this program: the assembly does not look at
endpoint ids, and two senders with equal tags would be mixed; packets are not
reordered; the packet size is 1 to 255 (the parameter of `mctp_defrag_process` is a u8).

## 6. PDR repository

### PdrRepo

The repository `g_pldm_monitor_info.pldm_repo` is the record `repo`: the sorted list `head`,
the list `deleted`, count, size, largest size, the signature, the write position
of the pool, the temperature sensors that are monitored, and the events of the
last step.  A C function on the repository is an operator from repositories to
repositories with the same name, so that `pldm_link_handle`, which calls some fifteen of
them, is one step.

* Start-up (`Init`): the records of the flash area, in their order (`NvmList`), are added one
  after the other, as far as the pool has room for their nodes, then each link comes up.  An area that
  does not fit the pool leaves the repository empty.
* `LinksChange`: all links go down or come up, as the generator's command does (its
  reply handler calls `pldm_link_handle` for each port).  Going down moves the
  records of the port to `deleted`; coming up takes them back, or makes them when
  the pool has room for the data and, separately, for the node.
* `SetThresholds`, `SetAddress` (SetTID, SetEndpointID): a record changes; the change number, the
  event and the signature follow.
* `pldm_monitor_get_pdr`: GetPDR with its checks in their order.  `Found` is the record the
  transfer variables point to, which stays the same record when it is deleted.

The data of a record are the change number and what tells two versions apart
(thresholds, addresses); the signature, a CRC-32 in the code, is the contents
themselves, so two different contents never collide.  `repo_state` is set and reset
within one packet and never seen by another.  Left out: sensor states and their
events (`Sensors` has them), the update time, the Redfish records, events disabled by the receiver.

### PdrReader

The generator's walk: record 1, its parts, the record named by the last part, and
so on.  A response may be lost, the walk may be given up, and the change number
of a next part is that of the first part, as the command asks for, or 0, as the
generator has it (with which a changed record cannot be read in parts).  Run `pdr`:

* `RepoIsConsistent`: lists sorted and disjoint, counters right, the pool within its
  bounds; an association only with its container; nothing of a port whose link is
  down; deleted records neither monitored nor with a change number; GetPDR in the
  middle of a transfer has a record and bytes left; the signature is that of the records.  All of it also when the
  pool is used up at any of the points the bounds reach.
* `EventsTellTheChange`: a controller that applies the events has the list of records,
  and hears of every change of data.
* `TransferIsOneVersion`: what the reader put together is the whole record in one
  version, unless the record was deleted in between: deletion takes the change
  number back to 0 and the check in the code does not see it.
* `WalkVisitsEveryRecord`: a walk that ends has seen all records that were there all the time,
  unless a record was deleted while it was read (the next handle then
  comes from the list of deleted records).

Two things the code does otherwise than one expects are in the model: the largest record
size is too small after a link went down (`pdr.c:204` steps to the next record only when the
record is the largest so far), and a transfer handle never expires (`pldm_monitor.c:759`, `776`), so
that an abandoned transfer keeps all other records from being read.

Bounds: one port (six records) and three records from flash, sizes 1 to 3, parts of
1 or 3 bytes, so that a record is one, two or three parts; one change of each record; a
pool of 28 units, of which the rest of the flash area takes 0 (all records fit), 8 (the
power sensor gets data and no node), 9 (no power sensor, and a connector without
what it contains), 15 (the temperature sensor gets data and no node), 20 (a record of the flash area gets no node)
or 22 (the area does not fit).  Ports do not interact but through the pool and the lists, which one port
with shared flash records exercises, and the proofs are for any number of them.
`NvmAssumption` asks for handles in flash that are not 0, differ from each other and are none of a port's (a
record that is in the list twice would be found once), and for two records with descending sizes: without
them the scan of `pldm_largest_pdrsize_get` would run off the list.  The image in flash is assumed to have
it.  `ReaderAssumption`: a walk begins at the lowest handle, as the generator's does with 1, and asks for
one byte at least: to a request for none the code answers a part without bytes that begins where the
last one did.  No fairness: nothing here must happen.

## 7. NC-SI

`NcsiPackage` is the package: the static variables of `ncsi.c` are the record `nc`, and each
handler of the dispatch table is an operator on it that also fills in the response.  A
command takes effect before its response is decided: the handlers that answer
CHANNEL_NOT_READY or INTERFACE_INIT_REQUIRED have already done what was asked.  Channel id 0x1F is
replaced by the first port whose link is up, or by the next port in turn.

`NcsiController` is a controller that sends any command to any channel and loses any response.  It
remembers one setting of one channel, any of them: what a report said of it, or what a command that
was accepted has set.  Run `ncsi`:

* `KnownIsReported`: what it remembers is what the package would report now, whatever
  commands to other channels, of other settings, refused, repeated or without a response came between.
* `RepeatIsHarmless`: a command that is repeated because its response got lost changes nothing more
  and is answered the same; but for 0x1F while no link is up, where the repetition goes to
  another port (`ncsi.c:44-58`).
* `CurrentTransmits`: `gs_ncsi_current_chn` and the TX bits, which different commands set, fit
  together: a new current channel may transmit, a channel that got its TX bit becomes the
  current one.  A reset and a new initial state clear the bits and do not look at the
  current channel (`ncsi.c:419`), which the property names.

Bounds: two ports.  The second one gets every command that sets or reports something, the first one
those that decide which port transmits, and those of the generator; a mode is 1, or 256 of which 8 bits are
nothing; at most one mode differs from its initial value at a time (no handler reads the mode of another).
The package status is written and never read, and the run leaves it as it is.

Worth knowing: `get_parameters` always answers NO_ERROR; the capabilities report flow control,
which `set_flow_control` refuses; a speed the code does not know is reported as 10BASE-T; modes are
cut to 8 bits but for the link; the AEN functions have no caller.

## 8. Redfish device enablement

`RdeDevice` is `pldm_redfish.c`: the negotiation, the registry, dictionaries, the life cycle of the one
operation (init, custom parameters, payload, execution, results, complete, kill, status) and the two
multipart transfers with their shared buffer and offset.  A resource, its tag and a result are sequences
of places; whether JSON and BEJ succeed is a choice.  `RdeSession` is a controller that runs operations and
reads dictionaries, loses responses, repeats parts, gives up, completes and kills.  Run `rde`:

* `StatusMatchesOperation`: the status agrees with what the operation waits for and with what there
  is, and between two operations nothing is left of the first.
* `IdleTogether`: the device is idle while the controller is, and an operation the controller goes on with
  is the one the device has.
* `ReadIsWhole`: what is read in parts is the dictionary or the result, whole, with its checksum.
* `ExecutedOnce`: an operation runs at most once.
* `ChangesAreAsked`: a resource changes only when an operation on it runs, to what was sent,
  and not with a tag that is no longer its own.
* `OperationEnds` (liveness): an operation that was begun comes to an end.  Fairness: the
  controller goes on with what it began (`WF` on each of its next steps); the device needs none.

Each exclusion in these properties is something the code does: the last part of a payload, when it
is repeated after a lost response, is appended again, refused for its checksum, and then taken and run a
second time (`:842`); a transfer that was broken off leaves its offset behind, and FIRST does not set it
back (`:889`); a link that changes during a dictionary read replaces the dictionary
(`pldm_monitor_event_rbuf.c:234`); `get_msg_registry` does not set where to read from; the result of REPLACE and
of an action loses its last bytes.  Without a property: the end of a dictionary transfer completes an operation
that waits with its results (`:910`); the identity of the last operation is never cleared, so that
the same id on the same resource is refused directly after it was completed; a failed operation reports 254
percent, against the comment near 484; inline results in a status response that gets lost are gone;
operation data are appended without a look at the buffer's size (`:826`); the dictionary of an unknown
resource is answered with success and no data; a REPLACE whose payload is shorter than two BEJ headers makes a length
wrap around (`:1283`), and is left out of the inputs; a result that fits into the status response is copied behind an etag whose
length is that of whatever the buffer held before (`:695`, set at `:730`), where the model has it in its place.

Bounds: an adapter, a collection, a resource that allows nothing and the annotations; reads, an
update and a replacement with custom parameters; bodies of 2 and 3 places, parts of 3 or 4, so that a result, a
payload and a dictionary take one, two or three parts; one lost response; one
operation id, which is refused twice in a row on one resource and accepted again after another one.

## 9. FRU table

`PldmFru` is `pldm_fru_data.c`: the table as record sets with their offsets, and the one static handle.
`PldmFruSession` is several readers of the kind the generator is, which lose answers, are reset, and do not
keep to the protocol.  Run `fru`:

* `ReadIsTheTable`: a reader that was told the end has the table, once and in order.
* `SomeoneMayGoOn`: as long as no answer is lost and no read given up, the handle is
  one that some reader holds.
* `ReadsGoOn` (liveness): as long as that is so, reads keep being finished.  Fairness: a reader that has
  started carries on, and is started again; it stands for the loop of the application, which takes
  one command after another.

An answer that is lost, or a read that is given up, can block the table for all others (`pldm_fru_data.c:60`):
the handle is compared for a first part too.  That is why both properties say "as long as".  Also:
line 74 compares the handle with an operation flag; the first part is flagged as a middle one; the serial
number is read uninitialised, which the model has as two lengths.

Bounds: two readers and the table of a card with four ports, whose serial number prints as nothing or as far as
it goes; record sets, not bytes, are the parts, as in the code.

## 10. Control and discovery

`Terminus` is `mctp_ctl.c` and `pldm_control.c`: per interface an address and a discovered flag, the
terminus id, the locator record that repeats both, and what every command that only reports
answers.  `TerminusDiscovery` has a bus owner on each interface, which prepares, discovers, assigns, repeats
what is not answered and may be reset, and a controller that asks for everything it is told of.  Run `control`:

* `OwnerIsRight`: an owner that was answered is right about the endpoint, whatever the others do.
* `LocatorIsRight`: the record in the repository has the id and the address that were set last; its
  address is that of interface 1 whichever was set.
* `AnnouncedIsAnswered`: what an answer announces is not refused.
* `DiscoveryEnds` (liveness): every owner ends with an endpoint that has an address, and the
  controller with nothing left to ask.  Fairness: a request that is repeated for ever is answered
  in the end (`SF` on the answered steps), and the controller goes on asking.

`mctp_ctl.c:209` and `222` tell the interfaces apart by `mctp_max_payload`, a field of the packet that nothing in the program
sets (`main.c:178` leaves it as the stack has it): `VdmPayload`, the interfaces whose packets have the value, is a
parameter, any set of interfaces for the proofs, one of the two for the run.  GetPLDMCommands
writes one to three of the eight words of its answer (`pldm_control.c:105`) into a buffer that is never cleared; the model
has what the device means to announce.

Answered is not served: the Redfish commands 0x0A and 0x0C are announced and mapped to
`pldm_unsupport_cmd` (`pldm_redfish.c:941`, `943`); ApplyComplete is handled and not announced; NC-SI and
vendor messages are announced as MCTP types and not served.  An unknown PLDM type is answered SUCCESS without
data (`pldm.c:112`).  When a handler returns FAILURE there is no answer, and the buffers of
the packet, which the application uses again, stay moved (`mctp_ctl.c:457`).

Bounds: two interfaces, one without discovery; two addresses, one id; two resets.

## 11. Sensors

`Sensors` has the sensors of the ports and of the board with everyone who moves them: the link (`pldm_link_handle`), the
temperature monitor, the controller that enables, disables and sets thresholds, and the receiver that
wants events or none.  A sensor is a record with its state, the state before, and both enables; an event is
what a step tells.  The records of the numeric sensors are made while there is room in the pool.  Run `sensors`:

* `EventsTellStates`: who follows the events knows the state of every sensor, but for changes that were
  made while events were not wanted, or of sensors without a record.
* `EventsAreAChain`: an event begins with the state that the one before it ended with.
* `LinkIsShown`: the sensors of a port show its link, and the monitor has nothing to say while it is down.

Exclusions that are the code's: a state sensor that is not enabled when the link changes keeps its
old state and shows it when it is enabled again (`pdr.c:743`); a numeric sensor without a record stays
with the monitor when the link goes down (`pdr.c:696`).

Worth knowing: CONFIG_CHG is set with each change of a link and never taken back, so only the first one makes an
event (`pdr.c:1481`); the enable overwrites `entity_type` where the event class is meant (`pldm_monitor.c:365`), so
that no change of the operational state makes an event; presence is reported as 13, the number of the state
set (`pdr.c:1329`); a controller that enables a sensor of a port that is down has an enabled sensor without a record, and
a link that comes up forgets that a sensor was disabled; `pldm_temp_monitor_handle` and `pldm_module_info_update` have
no caller in this program, and stand for the board's own task.

Bounds: one port (ports share nothing but the board's sensors); a temperature of 0 or 90 degrees, and
two sets of thresholds that judge 90 differently; all records made or none; two requests of the controller with three
combinations of enables.  No fairness: nothing here must happen.

## 12. Proofs

`PldmFwupProofs` proves, for every buffer size, all sets of sizes, images, handles and
component ids that satisfy the named assumptions of `PldmFwup`, and for an agent
that may send anything: `TypeCorrect`, `ModeAgreesWithState`, `NothingFiresTwice`,
`BuffersHold`, `AtMostOneRequest`, `SessionsStartClean`, and the action property
`SessionsEndProperly`: `SwitchKeeps` says that the switch clears the update mode behind one of three
events only, and `SessionStays`, with one step per packet, that every other packet leaves without one.

The checked invariants are not inductive by themselves.  The inductive one, `IInv`, adds
to the types that what is requested at once is at most the maximum transfer
size and that at most the buffer (without it the copy into the buffer is not
bounded), that both mode flags are equal, that in IDLE the lengths, sizes and the
new image are cleared, and that no row of the table matches (without
it an event left behind could move the device in the next packet).  Because a
packet is a composition, so is the proof: `Inv(s)` holds between packets, the
prologue preserves it (`PrologueInv`), each handler takes it to `Handled(s)` (one lemma
per handler), which differs in that RequestUpdate has already set the mode while
the state is still IDLE, and in that a handler that sent a request leaves nothing
for the switch to do; the switch takes `Handled` back to `Inv` (`SwitchInv`, one case per family of rows).

The second part of `PldmFwupProofs` proves that every behaviour of a session is a behaviour of the
device with an unconstrained agent (`SessionIsFwup`), so that the invariants hold in
sessions too (`SessionIsSafe`).  Beyond that it proves all safety properties of the session
(`DueBelongs`, `NobodyWaits`, `TransfersAreWhole`, `FilesAreInOrder`) and the refinement
(`SessionRefinesTransfer`): every step of a session is a step of `ImageTransfer` or a stutter.

None of these properties is inductive: they speak of the end of a transfer, and what makes
them true is how the counters move while it runs.  `SessionInv` adds: *Moving*, while data
are asked for, what was delivered is what the device counts, and the blocks of the file
together with the filled part of the buffer are the image so far (`Collected`); *Done*, once a success was
reported everything was delivered, the buffer is empty and the file closed, until the next
component begins (`Whole`); *Waiting*, in each state of a transfer which answer is due unless something
was refused or lost; *Package*, how announced and collected package data lead to a component table;
*Clearing*, what the end of a component and of a session leave for the next one.  A step of
the session is a whole packet (prologue, handler, switch), and the proof has three layers:
the *Effect* lemmas say what each handler and each row of the table does to the device; the *Keeps*
lemmas say that each kind of effect (nothing moves, a block is taken, a component begins, a session
ends, ...) keeps `SessionInv` and maps to a step of `ImageTransfer`; the last layer has a lemma per
action of the session, which finds its kind.

`RdeProofs` proves every safety property of Redfish (`StatusIsRight`, `BothIdle`,
`RunsAtMostOnce`, `ReadsAreWhole`) and the action property `ChangesAreAsked` (`OnlyAskedChanges`), for any
resources, values, dictionaries, operations and negotiated sizes, and any number of lost responses.  Again the
properties are what is seen at the end.  `SessionInv` has three parts.  `TypeInv`: device and controller keep
their types.  `DeviceInv`: status, result and identity of the operation belong together (`OperationHeld`,
`RunsKnown`), what is stored fits a word with its checksum (`Fit`, without which the length of the
last part could wrap around) and a collection always has its members (`CollectionsWhole`).  `PhaseInv` ties the phase of
the controller to the device: which input is still missing (`ParametersMissing`), that the tag that was checked at
the beginning is still the resource's when the payload runs (`TagKept`), and that what was received so far is the
beginning of the object, up to the very place the device sends next (`ResultSoFar`, `DictionarySoFar`,
`PartsBegin`).  `ReadsAreWhole` is then one step: the last part completes a beginning.  The proof takes an exchange
apart (*Opens*), says what each handler answers in the states that matter (*Answers*), and has one
*Keeps* lemma per action.  Sequences are handled by places (`BejHdr` and the chunks only move an index), so no
induction over data is needed.

The first part of `MctpProofs` proves all five properties of the link (`LinkTypeCorrect`, `WholeOrNothing`,
`UnharmedIsDelivered`, `NoFalseAlarm`, `AssemblyFits`) for messages of every length, every packet
size from 1 to 255 and any number of faults.  `DeliveredIsSent` is not inductive: it
says nothing of a message in transit.  The strengthening says where the assembly
stands relative to the sender: *in step* (it holds the prefix sent so far, expects
the next number, and its length is that of the prefix), *clear* (no tag), or *out of
step* (another sequence number; both sides step with each packet, so it stays
different until the next first packet).  An unspoiled message is in step; one with a
single fault is in one of the three; without a fault the assembly is clear between
messages.  `Reception` states what the arrival of the k-th packet does, and each step of
the link has a lemma (`NewMessageIInv`, `ArrivesIInv`, `OmissionIInv` for losses and failing sends,
`RepeatedIInv`).

`PldmEventsProofs` proves every safety property of the events and the refinement of
`EventQueue` (`RingAlwaysWhole`, `PartsAlwaysOneEvent`, `MessagesAlwaysFit`, `EventsAreDelivered`), for every
ring, event size, backlog and announced buffer size, whatever the first polls acknowledge and whenever answers
come.  As long as the session is on its track the invariant (`TrackInv`) has six parts: types; *QueueIsLaid*,
the bytes from `rd` to `wt` are the events of `queue` laid one after the other, modulo the size of
the ring, with growing ids; *ReadAhead*, the try-read index stands behind the first event or its header, or there is nothing read;
*PolledIsWhole*, the event that was polled last was copied whole and is the one that was read ahead, if that is still there;
*Turns* and *ReceiverFollows*, what the receiver was asked for and what it has of the polled event.  `IInv` is
that, and what holds astray too (`HandleInEvent`): the handle lies in the event polled, whatever bytes that was read
from, so that the part that is sent then still fits (`AstrayPollFits`).  `HarmlessAck` says of a first poll
that does not mislead that it takes nothing out, `LateAnswerKeeps` the same of late answers.  Where the
events of a queue begin is a recursive sum over their sizes: the proofs take the function of the
offsets as a witness, and induction over it is a statement about the least counterexample, which the
library's theorem about well-founded orders gives without an operator parameter (`Induction`, `IterationExists`).
`WriteLays` says that writing an event, with the deletions that make room for it, keeps the rest laid
(`EvictDropsFew`, which also bounds how many go), `ReadDoneTakes` that an acknowledgement takes the first, `BytesAreRead`
that a read finds the event.  `QueueFollows` turns that into a step of `EventQueue`; each action of the
session has a *Keeps* lemma.

`PdrProofs` proves every safety property of the repository and its reader (`RepositoryIsConsistent`,
`TransfersAreOneVersion`, `WalksVisitEveryRecord`) and the action property `EventsTellTheChange`
(`EventsTellEveryChange`), for up to four ports, any records in flash, any sizes of records, nodes, parts and pool.
`IInv` has five parts.  *RepoInv*: the repository is `Sound`, its signature current, and the links decide which
records of ports there are.  `Sound` is `ListsAgree` and `DeletedAreQuiet` with what makes them inductive: a
plug was never made without its connector, nor a channel without its plug (`MadeTogether`: a
container that is missing for lack of room keeps out what it contains, for ever), and only records of ports are ever
deleted.  *TransferInv*: the record of a transfer is in one of the lists.  *PartsInv*: what was received is
the beginning of the record, up to the handle that is asked for next.  *VersionInv*: the change number in the first part
is at most that of the record, and while they are equal so are the data; this is what the comparison in the
code relies on, and what deleting the record breaks.  *WalkInv*: what was there all the time and lies before
the record that is asked for next was visited, which the order of the list carries on (`NextInOrder`).

A handler is a composition of some fifteen operations on the repository, each of which may stop for
lack of room.  `Reaches(r, s, P)` says of one of them, or several, that `s` is sound, differs from `r` in the records
of `P` only, and that its events lead to its list; it composes (`ReachesOn`), so that each operation has one
lemma (`RecordAdded`, `RecordRestored`, `RecordDeleted`, `SensorAdded`, `ContainedAdded`, ...) and a link is their sum (`LinkComesUp`,
`LinkGoesDown`).  `LinksHandled` goes through the ports, and `FlashIsLoaded` through the records in flash, by induction, for which
`Induction` turns the least counterexample into the form the provers can use.  `Moves` sums up for the reader what a
command does; *Keeps* lemmas say that each of its steps keeps the invariant.  Sizes of sets of records are the
cardinality of the set of their bytes, so that the library's theorems about finite sets give the sums.

`PldmFruProofs` proves, for any table and any number of readers, that a read that ends has
the table (`WholeTable`), that a reader's checksum covers what is before its handle (`ChecksumFollows`), and that
without losses some reader can go on (`NobodyLockedOut`).  The invariant says that the device and every
reader hold the start of some record set; `RecordFound` and `NextHandle` turn offsets into record
sets, and `AnswerIsDue` says what an accepted request is answered with.

The second part of `MctpProofs` proves that a bus owner that was answered is right (`OwnersAreRight`), that the
locator record is (`LocatorFollows`), and that nothing that was announced is refused
(`NothingIsRefused`).  The first two are inductive with the types.  The third is about a
list of questions that grows with the answers: `Answered` is a finite set that holds every
question an answer can lead to; each of its members is answered with success, and its
follow-ups are in it again (`GeneralFine`, `RatesFine`, ..., `CommandsFine`).

`SensorsProofs` proves all three properties of the sensors (`EventsTell`, `LinksAreShown`, `EventsChain`).
`LinkIsShown` needs that the monitor has no port that is down unless its sensor never got a
record (`MonitoredIsUp`); `EventsTellStates` that every change is one the code generates an event
for, or one that is hidden by the enables (`TellKeeps`, with one lemma per actor that moves sensors).

`NcsiProofs` proves that a controller's knowledge stays right (`KnowledgeIsRight`), that the
current channel is one that may transmit (`CurrentChannelTransmits`), and the types (`NcsiTypeCorrect`).
The value of the remembered setting is a function of one channel and its link (`Val`); each handler has a step in
`HandlerGood` that says it leaves the other channels alone, keeps the current channel in order, and
either carries the command out or refuses it with the setting unchanged (`Good`).  `Learns`
puts that together with what the controller makes of the response, or of none.  That channel id 0x1F
reaches a port needs the first port of a set, which exists because the order of the
numbers is well founded (`FirstPort`).  `RepeatsAreHarmless` shows for every command that carrying it
out once more changes nothing and gives the same response (`HandlerTwice`, a step per handler), and that
the repetition reaches the same channel (`RequestTwice`).

Assumptions: `RecvBufMaxAssumption`, `SizesAssumption`, `CompIdsAssumption`, `CallbackAssumption` of
`PldmFwup`, `PayloadAssumption` and `LinkAssumption` of `MctpLink` (every message fits the
buffer by itself; `MCTP_RECV_BUF_SIZE` is chosen so), `FruAssumption` and `StartAssumption` of `PldmFru`
(where the record sets of a table start), `TerminusAssumption` (no reserved address or id is given),
`SensorsAssumption`, `PortsAssumption` and `ModesAssumption` of `NcsiPackage`, `RequestsAssumption`, `LinksAssumption` and
`WatchedAssumption` of `NcsiController`.  Of Redfish: `SizesAssumption` of `RdeDevice` (a part holds its header and its
checksum, because no packet is negotiated below `MINIMAL_MCTP_PACKET`, which is 64; a collection has a member per port),
and of `RdeSession` what its controller does: operation ids are those a controller chooses, from 0x8000 on
(`InputsAssumption`), a payload is sent only when it was announced (`OperationsAssumption`), dictionaries
are asked for by the name they have in flash (`DictionariesAssumption`), and objects fit a 32-bit
length (`LengthsAssumption`).  The generator does not keep to `DictionariesAssumption`: it asks for the dictionaries of the single ports,
functions and interfaces by their own numbers (101, 201, 301, 401), which the code turns into the number of the first.  The
device of the model does so too (`pldm_redfish_resource_id_to_base`), but what its reader then
gets is not compared with a dictionary.  All others hold of the constants of the C code and of what its generator
sends, and TLC evaluates all of them in every run of the modules.

Of the events: `EventSizesAssumption` and `FieldsAssumption` (an event fits the ring), and `ReceiverAssumption`
of the session: ids stay below the special ones, and negotiated buffers hold the fields of a poll response with its
checksum, which leaves out the announced sizes from 14 to 20 that the code accepts.  Nothing is assumed of what a
first poll acknowledges.

Of the repository: `PortsAssumption`, `SizesAssumption`, `NvmAssumption`, `AddressAssumption` and `ReaderAssumption` (section 6).

Only model-checked: liveness (`TransferEnds`, `PollEnds`, `OperationEnds`, `ReadsGoOn`, `DiscoveryEnds`), which is stated
under fairness and outside the prover.  Every other property of a passing run is a theorem.

## 13. What is not modelled

* JSON and BEJ (`pldm_cjson.c`, `pldm_bej_resolve.c`), resource strings and schema examples:
  trees of strings and their encoding, without control.  `RdeDevice` has their effect on an operation: success
  or failure, and how long the result is.
* CRC: `crc_ok` is a choice of the model; the data checksum of an event part is a
  length and a flag.
* Flash, the file system (but for the image file's open/closed state and blocks),
  menus and logging.
* `app/thread_main.c`, which is commented out; the Python scripts, which run offline;
  `utlist.h`, vendored.
* The PDR builders of the Redfish records and those whose calls are commented out in
  `pldm_monitor_init`; the readings of the sensors but for the temperature; statistics, versions and
  OEM answers of NC-SI; the layout of every message.
* Half of the source is declarations, tables of constants and formatting, which no definition
  stands for: the map names the code whose control the modules translate.
