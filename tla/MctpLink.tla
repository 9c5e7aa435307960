------------------------------ MODULE MctpLink ------------------------------
(***************************************************************************)
(* MCTP packets from one endpoint to another: mctp_send_to splits a        *)
(* message that is longer than a packet (src/source/net/mctp/mctp_defrag.c) *)
(* and mctp_pkt_process puts it together (mctp_frag.c).  Between them a    *)
(* packet may get lost or arrive twice, and send_to may fail, after which  *)
(* the rest of the message is not sent.                                    *)
(*                                                                         *)
(* There is one assembly buffer and no acknowledgement.  The assembly      *)
(* trusts two bits of sequence number, which it steps before it compares,  *)
(* and the tag of the first packet.  One sender uses the link at a time.   *)
(*                                                                         *)
(* A payload is named by its message and its place in it.                  *)
(***************************************************************************)
EXTENDS Integers, Sequences

CONSTANTS
  MaxPayload,   \* mctp_max_payload
  HdrLen,       \* hw_hdr_len + REAL_MCTP_HDR, kept in front of the payloads
  BufSize,      \* MCTP_RECV_BUF_SIZE
  Lens,         \* lengths of messages, without the headers
  Tags,         \* msg_tag values
  Names,        \* to tell messages apart
  MaxHits       \* bound: faults before a split message arrives unharmed

\* The parameter of mctp_defrag_process is a u8.
ASSUME PayloadAssumption == MaxPayload \in 1 .. 255
ASSUME LinkAssumption ==
  /\ HdrLen \in Nat /\ BufSize \in Nat /\ MaxHits \in Nat
  /\ Tags \subseteq 0 .. 7 /\ Lens \subseteq Nat \ {0}
  /\ \A len \in Lens : HdrLen + len <= BufSize

VARIABLES
  msg,              \* the message that is sent
  pos,              \* i: how many of its packets have been sent
  gs_pre_msg_tag, gs_pre_pkt_seq,
  gs_frag_buf,      \* gs_mctp_frag_buf: the payloads in it
  gs_buf_len,
  status,           \* gs_mctp_merge_status
  got,              \* what the dispatcher was handed since msg began
  handed,           \* how many times
  spoiled,          \* a packet of msg was lost or repeated, or send_to failed
  hits              \* such faults since a split message arrived unharmed

senderVars == <<msg, pos>>
assemblyVars == <<gs_pre_msg_tag, gs_pre_pkt_seq, gs_frag_buf, gs_buf_len, status>>
linkVars == <<senderVars, assemblyVars, got, handed, spoiled, hits>>

MERGEING == 1
MERGE_SUC == 0
TAG_ERR == -3
SEQ_ERR == -4
S1E0_S1E0_ERR == -5

Message == [name : Names, len : Lens, tag : Tags]

\* How many packets a message takes.
Count(m) == IF m.len > MaxPayload THEN (m.len + MaxPayload - 1) \div MaxPayload ELSE 1

Payload(m, i) == [name |-> m.name, at |-> i]
Bytes(i) == MaxPayload * i
PayloadLen(m, i) == IF i = Count(m) - 1 THEN m.len - Bytes(i) ELSE MaxPayload
Prefix(m, n) == [j \in 1 .. n |-> Payload(m, j - 1)]
Whole(m) == Prefix(m, Count(m))

\* mctp_send_to when one packet is enough, else a round of mctp_defrag_process.
Pkt(m, i) ==
  [ som |-> i = 0, eom |-> i = Count(m) - 1, pkt_seq |-> i % 4, msg_tag |-> m.tag,
    payload |-> Payload(m, i), len |-> PayloadLen(m, i) ]

(***************************************************************************)
(* The receiver.                                                           *)
(***************************************************************************)
mctp_clear_gs_param ==
  gs_pre_pkt_seq' = -1 /\ gs_pre_msg_tag' = -1 /\ gs_buf_len' = 0

\* The first packet is refused while a message is being assembled.
FirstPacket_refused(p) ==
  /\ p.som
  /\ IF gs_pre_msg_tag # -1
     THEN status' = S1E0_S1E0_ERR
            /\ UNCHANGED <<gs_pre_msg_tag, gs_pre_pkt_seq, gs_frag_buf, gs_buf_len>>
     ELSE /\ status' = MERGEING
          /\ gs_pre_msg_tag' = p.msg_tag /\ gs_pre_pkt_seq' = p.pkt_seq
          /\ gs_frag_buf' = <<p.payload>> /\ gs_buf_len' = HdrLen + p.len
  /\ UNCHANGED <<got, handed>>

\* A first packet takes the buffer over, whatever is in it.
FirstPacket(p) ==
  /\ p.som
  /\ status' = IF gs_pre_msg_tag # -1 THEN S1E0_S1E0_ERR ELSE MERGEING
  /\ gs_pre_msg_tag' = p.msg_tag /\ gs_pre_pkt_seq' = p.pkt_seq
  /\ gs_frag_buf' = <<p.payload>> /\ gs_buf_len' = HdrLen + p.len
  /\ UNCHANGED <<got, handed>>

\* Stepped by every packet that is not a first one, the refused ones included.
ExpectedSeq == (gs_pre_pkt_seq + 1) % 4

\* Only the tag is compared.
Follows_any_seq(p) == gs_pre_msg_tag = p.msg_tag

Follows(p) == ExpectedSeq = p.pkt_seq /\ gs_pre_msg_tag = p.msg_tag

RefusedPacket(p) ==
  /\ ~p.som /\ ~Follows(p)
  /\ gs_pre_pkt_seq' = ExpectedSeq
  /\ status' = IF ExpectedSeq # p.pkt_seq THEN SEQ_ERR ELSE TAG_ERR
  /\ UNCHANGED <<gs_pre_msg_tag, gs_frag_buf, gs_buf_len, got, handed>>

MiddlePacket(p) ==
  /\ ~p.som /\ Follows(p) /\ ~p.eom
  /\ gs_pre_pkt_seq' = ExpectedSeq
  /\ gs_frag_buf' = Append(gs_frag_buf, p.payload)
  /\ gs_buf_len' = gs_buf_len + p.len
  /\ status' = MERGEING
  /\ UNCHANGED <<gs_pre_msg_tag, got, handed>>

LastPacket(p) ==
  /\ ~p.som /\ Follows(p) /\ p.eom
  /\ gs_frag_buf' = Append(gs_frag_buf, p.payload)
  /\ mctp_clear_gs_param
  /\ status' = MERGE_SUC
  /\ got' = gs_frag_buf'
  /\ handed' = handed + 1

mctp_frag_process(p) ==
  FirstPacket(p) \/ RefusedPacket(p) \/ MiddlePacket(p) \/ LastPacket(p)

\* A message of one packet goes to the dispatcher past the assembly.
SinglePacket(p) ==
  /\ p.som /\ p.eom
  /\ got' = <<p.payload>>
  /\ handed' = handed + 1
  /\ UNCHANGED assemblyVars

mctp_pkt_process(p) ==
  SinglePacket(p) \/ (~(p.som /\ p.eom) /\ mctp_frag_process(p))

(***************************************************************************)
(* The sender and the link.                                                *)
(***************************************************************************)
Init ==
  /\ msg \in Message /\ pos = 0
  /\ gs_pre_msg_tag = -1 /\ gs_pre_pkt_seq = -1
  /\ gs_frag_buf = <<>> /\ gs_buf_len = 0 /\ status = MERGEING
  /\ got = <<>> /\ handed = 0 /\ spoiled = FALSE /\ hits = 0

\* The next message, with a name that is not in the buffer any more.
NewMessage ==
  /\ pos = Count(msg)
  /\ msg' \in {m \in Message : \A j \in 1 .. Len(gs_frag_buf) : gs_frag_buf[j].name # m.name}
  /\ pos' = 0
  /\ got' = <<>> /\ handed' = 0 /\ spoiled' = FALSE
  /\ UNCHANGED <<assemblyVars, hits>>

PacketArrives ==
  /\ pos < Count(msg)
  /\ mctp_pkt_process(Pkt(msg, pos))
  /\ pos' = pos + 1
  /\ hits' = IF pos + 1 = Count(msg) /\ Count(msg) > 1 /\ ~spoiled THEN 0 ELSE hits
  /\ UNCHANGED <<msg, spoiled>>

\* A fault.  What happens to messages of one packet does not concern the assembly:
\* it is not counted, and happens once a message.
Hit ==
  /\ spoiled' = TRUE
  /\ IF Count(msg) = 1 THEN ~spoiled /\ UNCHANGED hits
                       ELSE hits < MaxHits /\ hits' = hits + 1

PacketIsLost ==
  /\ pos < Count(msg)
  /\ Hit
  /\ pos' = pos + 1
  /\ UNCHANGED <<msg, assemblyVars, got, handed>>

\* The packet sent last arrives again (or, if it was lost, late).
PacketIsRepeated ==
  /\ pos > 0
  /\ Hit
  /\ mctp_pkt_process(Pkt(msg, pos - 1))
  /\ UNCHANGED senderVars

\* send_to returns an error: mctp_defrag_process leaves its loop.
SendFails ==
  /\ pos < Count(msg)
  /\ Hit
  /\ pos' = Count(msg)
  /\ UNCHANGED <<msg, assemblyVars, got, handed>>

Next == NewMessage \/ PacketArrives \/ PacketIsLost \/ PacketIsRepeated \/ SendFails

Spec == Init /\ [][Next]_linkVars

(***************************************************************************)
(* Properties.                                                             *)
(***************************************************************************)

\* The variables keep their types; the sequence number is two bits or cleared.
LinkTypeOK ==
  /\ msg \in Message /\ pos \in 0 .. Count(msg)
  /\ gs_pre_msg_tag \in Tags \cup {-1} /\ gs_pre_pkt_seq \in -1 .. 3
  /\ gs_frag_buf \in Seq([name : Names, at : Nat]) /\ gs_buf_len \in Nat
  /\ status \in {MERGEING, MERGE_SUC, TAG_ERR, SEQ_ERR, S1E0_S1E0_ERR}
  /\ got \in Seq([name : Names, at : Nat]) /\ handed \in Nat
  /\ spoiled \in BOOLEAN /\ hits \in Nat

\* The payloads fit the buffer, whose size the code never looks at, if each message
\* does: an unfinished message is not continued by the next one.
BufferHolds == hits <= 1 => gs_buf_len <= BufSize

\* One lost or repeated packet, or one send that fails, never makes the assembly
\* overrun its buffer, or hand on anything but the message that is sent, whole, and
\* never twice: in spite of two bits of sequence number and of tags that messages
\* share.  (Two faults may: a repeated and a lost packet cancel each other in the
\* sequence number.)
DeliveredIsSent ==
  /\ BufferHolds
  /\ hits <= 1 /\ handed > 0 =>
       /\ got = Whole(msg)
       /\ Count(msg) > 1 => handed = 1

\* Whatever happened before, a message none of whose packets is hit arrives: what
\* an unfinished message has left in the buffer is in nobody's way.
UnharmedArrives == pos = Count(msg) /\ ~spoiled => got = Whole(msg)

\* As long as nothing is hit the assembly reports no error: a message it has put
\* together leaves nothing that would make the next one look out of order.
NoErrorUnlessHit == hits = 0 => status \in {MERGEING, MERGE_SUC}

=============================================================================
