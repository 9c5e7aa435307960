----------------------------- MODULE MctpProofs -----------------------------
(***************************************************************************)
(* Proofs about the two models of MCTP: packets on a link, and discovery.  *)
(*                                                                         *)
(* The link, for messages of every length, packets of every size and       *)
(* faults without a bound (MaxHits is any natural number).                 *)
(*                                                                         *)
(* The argument follows the sequence number.  While a message that was not *)
(* hit is in transit the assembly is in step with it: it holds the prefix  *)
(* that has been sent.  After one fault it is in step (the first packet    *)
(* came twice), or it has no tag, or its sequence number differs from the  *)
(* sender's by one in the same direction until the next first packet, since *)
(* both step with every packet: nothing of the message is accepted then.   *)
(*                                                                         *)
(* Discovery, for any interfaces, addresses, ids and number of resets.     *)
(* What a bus owner and the record say follows from one step to the next   *)
(* as it stands.  What the device announces is about sequences of          *)
(* questions: every question that is ever on the controller's list is one  *)
(* of a finite set whose questions are all answered.                       *)
(***************************************************************************)
EXTENDS MctpLink, TerminusDiscovery, FiniteSetTheorems, TLAPS

Fragment == [name : Names, at : Nat]

Split == Count(msg) > 1
Middle == Split /\ 0 < pos /\ pos < Count(msg)

\* The assembly has no message.
Clear == gs_pre_msg_tag = -1

\* It holds what has been sent of msg and expects the next packet of it.
InStep ==
  /\ gs_pre_msg_tag = msg.tag
  /\ gs_pre_pkt_seq = (pos - 1) % 4
  /\ gs_frag_buf = Prefix(msg, pos)
  /\ gs_buf_len = HdrLen + Bytes(pos)

\* It expects another sequence number than the next packet has.
OutOfStep == gs_pre_pkt_seq \in 0 .. 3 /\ gs_pre_pkt_seq # (pos - 1) % 4

Once == handed = 1 /\ got = Whole(msg)

NotStarted == pos = 0 => handed = 0 /\ ~spoiled
UnharmedInStep == Middle /\ ~spoiled => InStep /\ handed = 0
Undisturbed ==
  hits = 0 => (Split => ~spoiled) /\ (~Middle => Clear)
OneFault ==
  hits <= 1 /\ Middle /\ spoiled => handed = 0 /\ (Clear \/ InStep \/ OutOfStep)
Finished ==
  hits <= 1 /\ Split /\ pos = Count(msg) => handed = 0 \/ (Once /\ Clear)
SingleIsWhole == ~Split /\ handed > 0 => got = Whole(msg)
Arrived == pos = Count(msg) /\ ~spoiled => got = Whole(msg) /\ handed > 0

IInv ==
  /\ LinkTypeOK
  /\ NotStarted /\ UnharmedInStep /\ Undisturbed /\ OneFault
  /\ Finished /\ SingleIsWhole /\ Arrived
  /\ NoErrorUnlessHit /\ BufferHolds

(***************************************************************************)
(* Messages and their packets.                                             *)
(***************************************************************************)

\* A message has at least one packet, and what precedes a packet is shorter.
LEMMA CountFacts ==
  ASSUME NEW m \in Message
  PROVE  /\ Count(m) \in Nat /\ Count(m) >= 1
         /\ m.len \in Nat /\ m.len > 0 /\ HdrLen + m.len <= BufSize
         /\ m.tag \in Tags /\ m.tag \in 0 .. 7 /\ m.name \in Names
         /\ \A i \in 0 .. Count(m) - 1 : Bytes(i) \in Nat /\ Bytes(i) < m.len
<1>0. m.len \in Lens /\ m.tag \in Tags /\ m.name \in Names
  BY DEF Message
<1>1. m.len \in Nat /\ m.len > 0 /\ HdrLen + m.len <= BufSize /\ m.tag \in 0 .. 7
  <2>1. \A len \in Lens : len \in Nat /\ len > 0 /\ HdrLen + len <= BufSize
    BY LinkAssumption
  <2>2. Tags \subseteq 0 .. 7
    BY LinkAssumption
  <2> QED BY <1>0, <2>1, <2>2
<1>2. MaxPayload \in Nat /\ MaxPayload > 0
  BY PayloadAssumption
<1>3. CASE m.len <= MaxPayload
  BY <1>0, <1>1, <1>2, <1>3 DEF Count, Bytes
<1>4. CASE m.len > MaxPayload
  <2> DEFINE x == m.len + MaxPayload - 1
             q == x \div MaxPayload
  <2>1. x \in Nat /\ x > MaxPayload
    BY <1>1, <1>2, <1>4
  <2>2. q \in Int /\ MaxPayload * q <= x /\ x < MaxPayload * q + MaxPayload
    BY <1>2, <2>1
  <2>3. q >= 1
    BY <1>2, <2>1, <2>2
  <2>4. ASSUME NEW i \in 0 .. q - 1 PROVE MaxPayload * i \in Nat /\ MaxPayload * i < m.len
    <3>1. MaxPayload * i <= MaxPayload * (q - 1)
      BY <1>2, <2>2
    <3>2. MaxPayload * (q - 1) = MaxPayload * q - MaxPayload
      BY <1>2, <2>2
    <3> QED BY <1>1, <1>2, <2>2, <3>1, <3>2
  <2> QED BY <1>0, <1>1, <1>4, <2>2, <2>3, <2>4 DEF Count, Bytes
<1> QED BY <1>1, <1>2, <1>3, <1>4

\* Bytes of one packet more.
LEMMA BytesFacts ==
  /\ MaxPayload \in Nat /\ MaxPayload > 0 /\ HdrLen \in Nat /\ BufSize \in Nat
  /\ Bytes(1) = MaxPayload
  /\ \A i \in Nat : Bytes(i + 1) = Bytes(i) + MaxPayload
BY PayloadAssumption, LinkAssumption DEF Bytes

\* The fields of a packet.
LEMMA PktFacts ==
  ASSUME NEW m \in Message, NEW i \in 0 .. Count(m) - 1
  PROVE  /\ (Pkt(m, i).som <=> i = 0) /\ (Pkt(m, i).eom <=> i = Count(m) - 1)
         /\ Pkt(m, i).pkt_seq = i % 4 /\ Pkt(m, i).msg_tag = m.tag
         /\ Pkt(m, i).payload = Payload(m, i) /\ Payload(m, i) \in Fragment
         /\ Pkt(m, i).len \in Nat
         /\ i # Count(m) - 1 => Pkt(m, i).len = MaxPayload
         /\ i % 4 \in 0 .. 3
<1>1. Bytes(i) \in Nat /\ Bytes(i) < m.len /\ m.len \in Nat /\ m.name \in Names
      /\ Count(m) \in Nat
  BY CountFacts
<1>2. (Pkt(m, i).som <=> i = 0) /\ (Pkt(m, i).eom <=> i = Count(m) - 1)
  BY Zenon DEF Pkt
<1>3. /\ Pkt(m, i).pkt_seq = i % 4 /\ Pkt(m, i).msg_tag = m.tag
      /\ Pkt(m, i).payload = Payload(m, i) /\ Pkt(m, i).len = PayloadLen(m, i)
  BY DEF Pkt
<1>4. PayloadLen(m, i) \in Nat /\ (i # Count(m) - 1 => PayloadLen(m, i) = MaxPayload)
  BY <1>1, BytesFacts DEF PayloadLen
<1> QED BY <1>1, <1>2, <1>3, <1>4 DEF Payload, Fragment

\* A prefix of the message and the next payload are a prefix.
LEMMA PrefixFacts ==
  ASSUME NEW m \in Message
  PROVE  /\ Prefix(m, 1) = <<Payload(m, 0)>>
         /\ \A n \in Nat : Prefix(m, n) \in Seq([name : Names, at : Nat])
                           /\ Append(Prefix(m, n), Payload(m, n)) = Prefix(m, n + 1)
<1>1. ASSUME NEW n \in Nat, NEW j \in 1 .. n PROVE Payload(m, j - 1) \in Fragment
  BY CountFacts DEF Payload, Fragment
<1>2. ASSUME NEW n \in Nat PROVE Prefix(m, n) \in Seq(Fragment) /\ Len(Prefix(m, n)) = n
  BY <1>1 DEF Prefix
<1>3. ASSUME NEW n \in Nat PROVE Append(Prefix(m, n), Payload(m, n)) = Prefix(m, n + 1)
  <2>1. Payload(m, n) \in Fragment
    BY CountFacts DEF Payload, Fragment
  <2> DEFINE a == Append(Prefix(m, n), Payload(m, n))
             b == Prefix(m, n + 1)
  <2>2. a \in Seq(Fragment) /\ b \in Seq(Fragment) /\ Len(a) = n + 1 /\ Len(b) = n + 1
    BY <1>2, <2>1
  <2>3. ASSUME NEW j \in 1 .. n + 1 PROVE a[j] = b[j]
    <3>1. b[j] = Payload(m, j - 1)
      BY DEF Prefix
    <3>2. CASE j = n + 1
      BY <1>2, <2>1, <3>1, <3>2
    <3>3. CASE j # n + 1
      <4>1. a[j] = Prefix(m, n)[j]
        BY <1>2, <2>1, <3>3
      <4>2. j \in 1 .. n
        BY <3>3
      <4> QED BY <3>1, <4>1, <4>2 DEF Prefix
    <3> QED BY <3>2, <3>3
  <2> QED BY <2>2, <2>3
<1>4. Prefix(m, 1) = <<Payload(m, 0)>>
  BY DEF Prefix
<1> QED BY <1>2, <1>3, <1>4 DEF Fragment

(***************************************************************************)
(* The steps.                                                              *)
(***************************************************************************)

LEMMA InitIInv == Init => IInv
<1> SUFFICES ASSUME Init PROVE IInv
  OBVIOUS
<1>1. Count(msg) \in Nat /\ Count(msg) >= 1 /\ BufSize \in Nat
  BY CountFacts, BytesFacts DEF Init
<1>2. LinkTypeOK
  <2>1. <<>> \in Seq([name : Names, at : Nat])
    OBVIOUS
  <2>2. msg \in Message /\ pos \in 0 .. Count(msg)
    BY <1>1 DEF Init
  <2>3. gs_pre_msg_tag \in Tags \cup {-1} /\ gs_pre_pkt_seq \in -1 .. 3
        /\ gs_buf_len \in Nat /\ handed \in Nat /\ hits \in Nat
    BY DEF Init
  <2>4. gs_frag_buf \in Seq([name : Names, at : Nat]) /\ got \in Seq([name : Names, at : Nat])
    BY <2>1 DEF Init
  <2>5. status \in {MERGEING, MERGE_SUC, TAG_ERR, SEQ_ERR, S1E0_S1E0_ERR}
        /\ spoiled \in BOOLEAN
    BY DEF Init
  <2> QED BY <2>2, <2>3, <2>4, <2>5 DEF LinkTypeOK
<1> QED
  BY <1>1, <1>2
     DEF Init, IInv, NotStarted, UnharmedInStep, Undisturbed, OneFault, Finished,
         SingleIsWhole, Arrived, NoErrorUnlessHit, BufferHolds, Middle, Split, Clear

LEMMA NewMessageIInv == ASSUME IInv, NewMessage PROVE IInv'
<1>1. msg' \in Message /\ Count(msg') \in Nat /\ Count(msg') >= 1
  BY CountFacts DEF NewMessage
<1>2. Count(msg)' = Count(msg')
  BY DEF Count
<1>3. LinkTypeOK'
  <2>1. <<>> \in Seq([name : Names, at : Nat])
    OBVIOUS
  <2>2. msg' \in Message /\ pos' \in 0 .. Count(msg)'
    BY <1>1, <1>2 DEF NewMessage
  <2> QED BY <2>1, <2>2 DEF NewMessage, IInv, LinkTypeOK, assemblyVars
<1>4. hits = 0 => Clear
  BY <1>1 DEF NewMessage, IInv, Undisturbed, Middle, LinkTypeOK
<1>5. NoErrorUnlessHit' /\ BufferHolds'
  BY DEF NewMessage, IInv, NoErrorUnlessHit, BufferHolds, assemblyVars
<1> QED
  BY <1>1, <1>2, <1>3, <1>4, <1>5
     DEF NewMessage, IInv, NotStarted, UnharmedInStep, Undisturbed, OneFault, Finished,
         SingleIsWhole, Arrived, Middle, Split, Clear, assemblyVars

\* The arithmetic of the sequence number, for a sender at its p-th packet.
LEMMA SeqFacts ==
  ASSUME NEW p \in Nat, p >= 1
  PROVE  /\ (p - 1) % 4 \in 0 .. 3
         /\ (((p - 1) % 4) + 1) % 4 = p % 4
         /\ (p - 1) % 4 # p % 4
         /\ \A s \in 0 .. 3 : s # (p - 1) % 4 => (s + 1) % 4 # p % 4
OBVIOUS

(***************************************************************************)
(* What the arrival of the k-th packet of msg does to the assembly.        *)
(***************************************************************************)
Bypasses ==
  /\ ~Split
  /\ got' = Whole(msg) /\ handed' = handed + 1 /\ UNCHANGED assemblyVars

Starts(k) ==
  /\ Split /\ k = 0
  /\ gs_pre_msg_tag' = msg.tag /\ gs_pre_pkt_seq' = 0
  /\ gs_frag_buf' = Prefix(msg, 1) /\ gs_buf_len' = HdrLen + Bytes(1)
  /\ status' = IF gs_pre_msg_tag # -1 THEN S1E0_S1E0_ERR ELSE MERGEING
  /\ UNCHANGED <<got, handed>>

Matches(k) == gs_pre_msg_tag = msg.tag /\ (gs_pre_pkt_seq + 1) % 4 = k % 4

Refuses(k) ==
  /\ Split /\ k > 0 /\ ~Matches(k)
  /\ gs_pre_pkt_seq' = (gs_pre_pkt_seq + 1) % 4
  /\ status' \in {SEQ_ERR, TAG_ERR}
  /\ UNCHANGED <<gs_pre_msg_tag, gs_frag_buf, gs_buf_len, got, handed>>

Continues(k) ==
  /\ Split /\ k > 0 /\ k < Count(msg) - 1 /\ Matches(k)
  /\ gs_pre_pkt_seq' = (gs_pre_pkt_seq + 1) % 4
  /\ gs_frag_buf' = Append(gs_frag_buf, Payload(msg, k))
  /\ gs_buf_len' = gs_buf_len + MaxPayload
  /\ status' = MERGEING
  /\ UNCHANGED <<gs_pre_msg_tag, got, handed>>

Completes(k) ==
  /\ Split /\ k > 0 /\ k = Count(msg) - 1 /\ Matches(k)
  /\ gs_pre_pkt_seq' = -1 /\ gs_pre_msg_tag' = -1 /\ gs_buf_len' = 0
  /\ gs_frag_buf' = Append(gs_frag_buf, Payload(msg, k)) /\ got' = gs_frag_buf'
  /\ handed' = handed + 1 /\ status' = MERGE_SUC

LEMMA Reception ==
  ASSUME LinkTypeOK, NEW k \in 0 .. Count(msg) - 1, mctp_pkt_process(Pkt(msg, k))
  PROVE  Bypasses \/ Starts(k) \/ Refuses(k) \/ Continues(k) \/ Completes(k)
<1> DEFINE p == Pkt(msg, k)
<1>0. msg \in Message /\ Count(msg) \in Nat /\ Count(msg) >= 1
  BY CountFacts DEF LinkTypeOK
<1>1. /\ (p.som <=> k = 0) /\ (p.eom <=> k = Count(msg) - 1) /\ p.pkt_seq = k % 4
      /\ p.msg_tag = msg.tag /\ p.payload = Payload(msg, k)
      /\ k # Count(msg) - 1 => p.len = MaxPayload
  BY <1>0, PktFacts
<1>2. CASE SinglePacket(p)
  <2>1. k = 0 /\ Count(msg) = 1
    BY <1>0, <1>1, <1>2 DEF SinglePacket
  <2>2. Whole(msg) = <<Payload(msg, 0)>>
    BY <1>0, <2>1, PrefixFacts DEF Whole
  <2> QED BY <1>1, <1>2, <2>1, <2>2 DEF SinglePacket, Bypasses, Split
<1>3. CASE ~(p.som /\ p.eom) /\ mctp_frag_process(p)
  <2>1. k = 0 => Count(msg) > 1
    BY <1>0, <1>1, <1>3
  <2>2. Split
    BY <1>0, <2>1 DEF Split
  <2>3. CASE FirstPacket(p)
    <3>1. k = 0 /\ p.len = MaxPayload
      BY <1>0, <1>1, <2>1, <2>3 DEF FirstPacket
    <3>2. Prefix(msg, 1) = <<Payload(msg, 0)>> /\ Bytes(1) = MaxPayload /\ 0 % 4 = 0
      BY <1>0, PrefixFacts, BytesFacts
    <3> QED BY <1>1, <2>2, <2>3, <3>1, <3>2 DEF FirstPacket, Starts
  <2>4. CASE RefusedPacket(p)
    <3>1. k > 0
      BY <1>1, <2>4 DEF RefusedPacket
    <3> QED BY <1>1, <2>2, <2>4, <3>1 DEF RefusedPacket, Refuses, Matches, Follows, ExpectedSeq
  <2>5. CASE MiddlePacket(p)
    <3>1. k > 0 /\ k < Count(msg) - 1 /\ p.len = MaxPayload
      BY <1>0, <1>1, <2>5 DEF MiddlePacket
    <3> QED BY <1>1, <2>2, <2>5, <3>1 DEF MiddlePacket, Continues, Matches, Follows, ExpectedSeq
  <2>6. CASE LastPacket(p)
    <3>1. k > 0 /\ k = Count(msg) - 1
      BY <1>0, <1>1, <2>6 DEF LastPacket
    <3> QED
      BY <1>1, <2>2, <2>6, <3>1
         DEF LastPacket, Completes, Matches, Follows, ExpectedSeq, mctp_clear_gs_param
  <2> QED BY <1>3, <2>3, <2>4, <2>5, <2>6 DEF mctp_frag_process
<1> QED BY <1>2, <1>3 DEF mctp_pkt_process

\* It keeps the types of the assembly.
LEMMA ReceptionTypes ==
  ASSUME LinkTypeOK, NEW k \in 0 .. Count(msg) - 1, mctp_pkt_process(Pkt(msg, k))
  PROVE  /\ gs_pre_msg_tag' \in Tags \cup {-1} /\ gs_pre_pkt_seq' \in -1 .. 3
         /\ gs_frag_buf' \in Seq([name : Names, at : Nat]) /\ gs_buf_len' \in Nat
         /\ status' \in {MERGEING, MERGE_SUC, TAG_ERR, SEQ_ERR, S1E0_S1E0_ERR}
         /\ got' \in Seq([name : Names, at : Nat]) /\ handed' \in Nat
<1>1. msg \in Message /\ msg.tag \in Tags /\ Payload(msg, k) \in [name : Names, at : Nat]
      /\ Count(msg) \in Nat
  BY CountFacts DEF LinkTypeOK, Payload
<1>2. \A n \in Nat : Prefix(msg, n) \in Seq([name : Names, at : Nat])
  BY <1>1, PrefixFacts
<1>3. Append(gs_frag_buf, Payload(msg, k)) \in Seq([name : Names, at : Nat])
  BY <1>1 DEF LinkTypeOK
<1>4. Whole(msg) \in Seq([name : Names, at : Nat])
  BY <1>1, <1>2 DEF Whole
<1>5. (gs_pre_pkt_seq + 1) % 4 \in 0 .. 3
  BY DEF LinkTypeOK
<1>6. Bytes(1) \in Nat /\ MaxPayload \in Nat /\ HdrLen \in Nat
  BY BytesFacts
<1>7. CASE Bypasses
  BY <1>4, <1>7 DEF Bypasses, LinkTypeOK, assemblyVars
<1>8. CASE Starts(k)
  <2>1. gs_frag_buf' \in Seq([name : Names, at : Nat])
    BY <1>2, <1>8 DEF Starts
  <2>2. status' \in {MERGEING, MERGE_SUC, TAG_ERR, SEQ_ERR, S1E0_S1E0_ERR}
    BY <1>8 DEF Starts
  <2>3. gs_buf_len' \in Nat
    BY <1>6, <1>8 DEF Starts
  <2> QED BY <1>1, <1>8, <2>1, <2>2, <2>3 DEF Starts, LinkTypeOK
<1>9. CASE Refuses(k)
  BY <1>5, <1>9 DEF Refuses, LinkTypeOK
<1>10. CASE Continues(k)
  BY <1>3, <1>5, <1>6, <1>10 DEF Continues, LinkTypeOK
<1>11. CASE Completes(k)
  BY <1>3, <1>11 DEF Completes, LinkTypeOK
<1> QED BY Reception, <1>7, <1>8, <1>9, <1>10, <1>11

(***************************************************************************)
(* The steps that involve the link.                                        *)
(***************************************************************************)

\* What every step of the sender keeps.
LEMMA Kept ==
  ASSUME IInv, msg' = msg
  PROVE  /\ Count(msg)' = Count(msg) /\ Split' = Split
         /\ msg \in Message /\ Count(msg) \in Nat /\ Count(msg) >= 1
         /\ pos \in 0 .. Count(msg) /\ hits \in Nat /\ handed \in Nat
         /\ Whole(msg)' = Whole(msg)
         /\ MERGEING # S1E0_S1E0_ERR
BY CountFacts
   DEF IInv, LinkTypeOK, Count, Split, Whole, Prefix, Payload, MERGEING, S1E0_S1E0_ERR

\* A step that spoils the message and leaves the assembly alone, with the packets
\* that are left out counted as sent.
LEMMA OmissionIInv ==
  ASSUME IInv, Hit, pos < Count(msg), pos' = pos + 1 \/ pos' = Count(msg),
         UNCHANGED <<msg, assemblyVars, got, handed>>
  PROVE  IInv'
<1>1. /\ Count(msg)' = Count(msg) /\ Split' = Split /\ Whole(msg)' = Whole(msg)
      /\ Count(msg) \in Nat /\ pos \in 0 .. Count(msg) /\ hits \in Nat
  BY Kept
<1>2. pos' \in 1 .. Count(msg) /\ spoiled' = TRUE
  BY <1>1 DEF Hit
<1>3. IF Split THEN hits' = hits + 1 ELSE hits' = hits
  BY <1>1 DEF Hit, Split
<1>4. LinkTypeOK'
  BY <1>1, <1>2, <1>3 DEF IInv, LinkTypeOK, assemblyVars
<1>5. NotStarted' /\ UnharmedInStep' /\ Arrived'
  BY <1>1, <1>2 DEF NotStarted, UnharmedInStep, Arrived
<1>6. Undisturbed'
  <2>1. hits' = 0 => ~Split /\ hits = 0
    BY <1>1, <1>3
  <2>2. ~Split => ~Middle
    BY DEF Middle
  <2> QED BY <1>1, <2>1, <2>2 DEF IInv, Undisturbed, Middle, Clear, assemblyVars
<1>7. Split /\ hits' <= 1 => handed = 0 /\ (Middle => InStep) /\ (~Middle => Clear)
  <2>1. Split /\ hits' <= 1 => hits = 0
    BY <1>1, <1>3
  <2>2. Split /\ hits = 0 /\ ~Middle => pos = 0
    BY <1>1 DEF Middle
  <2> QED BY <2>1, <2>2 DEF IInv, Undisturbed, UnharmedInStep, NotStarted
<1>8. OneFault'
  <2> SUFFICES ASSUME hits' <= 1, Middle' PROVE handed' = 0 /\ (Clear' \/ OutOfStep')
    BY DEF OneFault
  <2>1. Split /\ pos' = pos + 1 /\ handed' = 0
    BY <1>1, <1>7 DEF Middle
  <2>2. CASE Middle
    <3>1. gs_pre_pkt_seq = (pos - 1) % 4 /\ pos \in Nat /\ pos >= 1
      BY <1>1, <1>7, <2>1, <2>2 DEF InStep, Middle
    <3>2. (pos - 1) % 4 \in 0 .. 3 /\ (pos - 1) % 4 # pos % 4
      BY <3>1, SeqFacts
    <3>3. pos' - 1 = pos
      BY <2>1, <3>1
    <3> QED BY <2>1, <3>1, <3>2, <3>3 DEF OutOfStep, assemblyVars
  <2>3. CASE ~Middle
    BY <1>7, <2>1, <2>3 DEF Clear, assemblyVars
  <2> QED BY <2>2, <2>3
<1>9. Finished'
  BY <1>1, <1>7 DEF Finished
<1>10. SingleIsWhole'
  BY <1>1 DEF IInv, SingleIsWhole
<1>11. hits' >= hits
  BY <1>1, <1>3
<1>12. NoErrorUnlessHit' /\ BufferHolds'
  BY <1>1, <1>3, <1>11, <1>4
     DEF IInv, NoErrorUnlessHit, BufferHolds, assemblyVars, LinkTypeOK
<1> QED BY <1>4, <1>5, <1>6, <1>8, <1>9, <1>10, <1>12 DEF IInv

\* In step with the message, the assembly accepts its next packet and stays so.
LEMMA StaysInStep ==
  ASSUME LinkTypeOK, NEW k \in Nat, k = pos, k > 0, k < Count(msg), InStep
  PROVE  /\ Matches(k)
         /\ (gs_pre_pkt_seq + 1) % 4 = ((k + 1) - 1) % 4
         /\ Append(gs_frag_buf, Payload(msg, k)) = Prefix(msg, k + 1)
         /\ gs_buf_len + MaxPayload = HdrLen + Bytes(k + 1)
         /\ k + 1 < Count(msg) => HdrLen + Bytes(k + 1) <= BufSize
<1>1. /\ msg \in Message /\ Count(msg) \in Nat /\ HdrLen + msg.len <= BufSize
      /\ msg.len \in Nat
      /\ \A i \in 0 .. Count(msg) - 1 : Bytes(i) \in Nat /\ Bytes(i) < msg.len
  BY CountFacts DEF LinkTypeOK
<1>2. gs_pre_pkt_seq = (k - 1) % 4 /\ (((k - 1) % 4) + 1) % 4 = k % 4 /\ (k + 1) - 1 = k
  BY SeqFacts DEF InStep
<1>3. Append(gs_frag_buf, Payload(msg, k)) = Prefix(msg, k + 1)
  BY <1>1, PrefixFacts DEF InStep
<1>4. gs_buf_len = HdrLen + Bytes(k) /\ Bytes(k + 1) = Bytes(k) + MaxPayload
      /\ Bytes(k) \in Nat /\ HdrLen \in Nat /\ MaxPayload \in Nat /\ BufSize \in Nat
  BY <1>1, BytesFacts DEF InStep
<1>5. k + 1 < Count(msg) => HdrLen + Bytes(k + 1) <= BufSize
  <2> SUFFICES ASSUME k + 1 < Count(msg) PROVE HdrLen + Bytes(k + 1) <= BufSize
    OBVIOUS
  <2>1. k + 1 \in 0 .. Count(msg) - 1
    BY <1>1
  <2> QED BY <1>1, <1>4, <2>1
<1> QED BY <1>2, <1>3, <1>4, <1>5 DEF InStep, Matches

\* Out of step with it, it refuses the next packet.
LEMMA StaysOutOfStep ==
  ASSUME NEW k \in Nat, k = pos, k > 0, OutOfStep
  PROVE  /\ (gs_pre_pkt_seq + 1) % 4 \in 0 .. 3
         /\ (gs_pre_pkt_seq + 1) % 4 # k % 4
         /\ ~Matches(k)
<1>1. \A s \in 0 .. 3 : s # (k - 1) % 4 => (s + 1) % 4 # k % 4
  <2>1. k >= 1
    OBVIOUS
  <2> QED BY <2>1, SeqFacts
<1>2. gs_pre_pkt_seq \in 0 .. 3 /\ gs_pre_pkt_seq # (k - 1) % 4
  BY DEF OutOfStep
<1>3. (gs_pre_pkt_seq + 1) % 4 # k % 4
  BY <1>1, <1>2
<1>4. (gs_pre_pkt_seq + 1) % 4 \in 0 .. 3
  BY <1>2
<1> QED BY <1>3, <1>4 DEF Matches

\* A first packet puts the assembly in step.
LEMMA StartsInStep ==
  ASSUME LinkTypeOK, Starts(0), pos' = 1, msg' = msg
  PROVE  InStep' /\ gs_buf_len' <= BufSize
<1>1. /\ msg \in Message /\ Count(msg) \in Nat /\ HdrLen + msg.len <= BufSize
      /\ msg.len \in Nat
      /\ \A i \in 0 .. Count(msg) - 1 : Bytes(i) \in Nat /\ Bytes(i) < msg.len
  BY CountFacts DEF LinkTypeOK
<1>2. Bytes(1) \in Nat /\ Bytes(1) < msg.len
  BY <1>1 DEF Starts, Split
<1>3. gs_buf_len' <= BufSize
  BY <1>1, <1>2, BytesFacts DEF Starts
<1>4. Prefix(msg, 1)' = Prefix(msg, 1)
  BY DEF Prefix, Payload
<1>5. (pos' - 1) % 4 = 0 /\ Bytes(pos)' = Bytes(1) /\ Prefix(msg, pos)' = Prefix(msg, 1)
  BY <1>4 DEF Bytes, Prefix, Payload
<1> QED BY <1>3, <1>5 DEF Starts, InStep

LEMMA ArrivesIInv == ASSUME IInv, PacketArrives PROVE IInv'
<1>1. /\ Count(msg)' = Count(msg) /\ Split' = Split /\ Whole(msg)' = Whole(msg)
      /\ msg \in Message /\ Count(msg) \in Nat /\ hits \in Nat /\ handed \in Nat
      /\ MERGEING # S1E0_S1E0_ERR
  BY Kept DEF PacketArrives
<1>2. /\ LinkTypeOK /\ pos \in 0 .. Count(msg) - 1 /\ pos' = pos + 1 /\ msg' = msg
      /\ spoiled' = spoiled /\ mctp_pkt_process(Pkt(msg, pos))
  BY <1>1 DEF IInv, LinkTypeOK, PacketArrives
<1>3. hits' = IF pos + 1 = Count(msg) /\ Split /\ ~spoiled THEN 0 ELSE hits
  BY DEF PacketArrives, Split
<1>4. hits' \in Nat /\ hits' <= hits
  BY <1>1, <1>3
<1>5. LinkTypeOK'
  <2>1. msg' \in Message /\ pos' \in 0 .. Count(msg)'
    BY <1>1, <1>2
  <2>2. spoiled' \in BOOLEAN
    BY <1>2 DEF LinkTypeOK
  <2> QED BY <1>2, <1>4, <2>1, <2>2, ReceptionTypes DEF LinkTypeOK
<1>6. NotStarted'
  BY <1>2 DEF NotStarted
<1>7. Clear => ~Matches(pos)
  BY <1>1, CountFacts DEF Clear, Matches
<1>8. OutOfStep /\ pos > 0 => ~Matches(pos) /\ (gs_pre_pkt_seq + 1) % 4 \in 0 .. 3
  BY <1>1, <1>2, StaysOutOfStep
<1>9. pos > 0 /\ Split => Middle
  BY <1>1, <1>2 DEF Middle
<1>10. CASE Bypasses
  <2>1. hits' = hits /\ ~Middle /\ ~Middle'
    BY <1>1, <1>3, <1>10 DEF Bypasses, Middle
  <2>2. Undisturbed'
    BY <1>1, <1>10, <2>1 DEF IInv, Undisturbed, Clear, Bypasses, assemblyVars
  <2>3. NoErrorUnlessHit' /\ BufferHolds'
    BY <1>10, <2>1 DEF IInv, NoErrorUnlessHit, BufferHolds, Bypasses, assemblyVars
  <2>4. Arrived' /\ SingleIsWhole'
    BY <1>1, <1>10 DEF Arrived, SingleIsWhole, Bypasses
  <2> QED
    BY <1>1, <1>5, <1>6, <1>10, <2>1, <2>2, <2>3, <2>4
       DEF IInv, UnharmedInStep, OneFault, Finished, Bypasses
<1>11. CASE Starts(pos)
  <2>1. pos = 0 /\ Split /\ pos' = 1 /\ pos + 1 < Count(msg) /\ handed' = handed
    BY <1>1, <1>2, <1>11 DEF Starts, Split
  <2>2. InStep' /\ gs_buf_len' <= BufSize
    BY <1>2, <1>11, <2>1, StartsInStep
  <2>3. hits' = hits /\ handed = 0 /\ ~spoiled /\ ~Middle
    BY <1>1, <1>3, <2>1 DEF IInv, NotStarted, Middle
  <2>4. NoErrorUnlessHit'
    BY <1>11, <2>3 DEF IInv, Undisturbed, Clear, Starts, NoErrorUnlessHit
  <2>5. Middle' /\ pos' # Count(msg)'
    BY <1>1, <2>1 DEF Middle
  <2> QED
    BY <1>1, <1>2, <1>5, <1>6, <2>1, <2>2, <2>3, <2>4, <2>5
       DEF IInv, UnharmedInStep, Undisturbed, OneFault, Finished, SingleIsWhole, Arrived,
           BufferHolds
<1>12. CASE Refuses(pos)
  <2>1. Middle /\ Split /\ pos > 0 /\ ~Matches(pos)
    BY <1>9, <1>12 DEF Refuses
  <2>2. ~InStep
    BY <1>2, <2>1, StaysInStep DEF Middle
  <2>3. spoiled /\ hits # 0 /\ hits' = hits
    BY <1>3, <2>1, <2>2 DEF IInv, UnharmedInStep, Undisturbed
  <2>4. hits <= 1 => handed = 0 /\ (Clear \/ OutOfStep)
    BY <2>1, <2>2, <2>3 DEF IInv, OneFault
  <2>5. Clear => Clear'
    BY <1>12 DEF Clear, Refuses
  <2>6. OutOfStep => OutOfStep'
    <3>1. pos' - 1 = pos /\ gs_pre_pkt_seq' = (gs_pre_pkt_seq + 1) % 4
      BY <1>2, <1>12 DEF Refuses
    <3>2. OutOfStep => (gs_pre_pkt_seq + 1) % 4 # pos % 4
      BY <1>1, <1>2, <2>1, StaysOutOfStep
    <3> QED BY <1>8, <2>1, <3>1, <3>2 DEF OutOfStep
  <2>7. BufferHolds'
    BY <1>12, <2>3 DEF IInv, BufferHolds, Refuses
  <2> QED
    BY <1>1, <1>2, <1>5, <1>6, <1>12, <2>1, <2>3, <2>4, <2>5, <2>6, <2>7
       DEF IInv, UnharmedInStep, Undisturbed, OneFault, Finished, SingleIsWhole, Arrived,
           NoErrorUnlessHit, Refuses
<1>13. ASSUME Split, pos > 0, Matches(pos), hits <= 1 \/ ~spoiled
       PROVE  InStep /\ handed = 0
  BY <1>7, <1>8, <1>9, <1>13 DEF IInv, UnharmedInStep, OneFault
<1>14. CASE Continues(pos)
  <2>1. Split /\ pos > 0 /\ Matches(pos) /\ pos + 1 < Count(msg) /\ handed' = handed
    BY <1>1, <1>2, <1>14 DEF Continues
  <2>2. hits' = hits
    BY <1>1, <1>2, <1>3, <2>1
  <2>3. ASSUME InStep PROVE InStep' /\ gs_buf_len' <= BufSize
    <3>1. /\ (gs_pre_pkt_seq + 1) % 4 = ((pos + 1) - 1) % 4
          /\ Append(gs_frag_buf, Payload(msg, pos)) = Prefix(msg, pos + 1)
          /\ gs_buf_len + MaxPayload = HdrLen + Bytes(pos + 1)
          /\ HdrLen + Bytes(pos + 1) <= BufSize
      BY <1>1, <1>2, <2>1, <2>3, StaysInStep
    <3>2. Prefix(msg, pos)' = Prefix(msg, pos + 1) /\ Bytes(pos)' = Bytes(pos + 1)
      BY <1>2 DEF Prefix, Payload, Bytes
    <3> QED BY <1>2, <1>14, <2>3, <3>1, <3>2 DEF InStep, Continues
  <2>4. BufferHolds'
    BY <1>13, <2>1, <2>2, <2>3 DEF BufferHolds
  <2>5. NoErrorUnlessHit'
    BY <1>14 DEF Continues, NoErrorUnlessHit
  <2>6. Middle' /\ pos' # Count(msg)'
    BY <1>1, <1>2, <2>1 DEF Middle
  <2>7. hits = 0 => ~spoiled
    BY <2>1 DEF IInv, Undisturbed
  <2> QED
    BY <1>1, <1>2, <1>5, <1>6, <1>13, <2>1, <2>2, <2>3, <2>4, <2>5, <2>6, <2>7
       DEF IInv, UnharmedInStep, Undisturbed, OneFault, Finished, SingleIsWhole, Arrived
<1>15. CASE Completes(pos)
  <2>1. Split /\ pos > 0 /\ Matches(pos) /\ pos + 1 = Count(msg)
    BY <1>1, <1>2, <1>15 DEF Completes
  <2>2. Clear' /\ handed' = handed + 1
    BY <1>15 DEF Completes, Clear
  <2>3. ASSUME hits <= 1 \/ ~spoiled PROVE Once'
    <3>1. InStep /\ handed = 0
      BY <1>13, <2>1, <2>3
    <3>2. Append(gs_frag_buf, Payload(msg, pos)) = Whole(msg)
      BY <1>2, <2>1, <3>1, StaysInStep DEF Whole
    <3> QED BY <1>1, <1>15, <2>2, <3>1, <3>2 DEF Once, Completes
  <2>4. BufferHolds' /\ NoErrorUnlessHit'
    BY <1>15, BytesFacts DEF BufferHolds, NoErrorUnlessHit, Completes
  <2>5. ~Middle' /\ (~spoiled => hits' = 0) /\ (spoiled => hits' = hits)
    BY <1>1, <1>2, <1>3, <2>1 DEF Middle
  <2>6. hits = 0 => ~spoiled
    BY <2>1 DEF IInv, Undisturbed
  <2>7. Finished' /\ Arrived'
    BY <1>1, <1>2, <2>2, <2>3, <2>5 DEF Finished, Arrived, Once
  <2>8. Undisturbed'
    BY <1>1, <1>2, <2>2, <2>5, <2>6 DEF Undisturbed
  <2> QED
    BY <1>1, <1>5, <1>6, <2>1, <2>4, <2>5, <2>7, <2>8
       DEF IInv, UnharmedInStep, OneFault, SingleIsWhole
<1> QED BY <1>2, <1>10, <1>11, <1>12, <1>14, <1>15, Reception

LEMMA RepeatedIInv == ASSUME IInv, PacketIsRepeated PROVE IInv'
<1>1. /\ Count(msg)' = Count(msg) /\ Split' = Split /\ Whole(msg)' = Whole(msg)
      /\ msg \in Message /\ Count(msg) \in Nat /\ Count(msg) >= 1
      /\ hits \in Nat /\ handed \in Nat
  BY Kept DEF PacketIsRepeated, senderVars
<1>2. /\ LinkTypeOK /\ pos \in 1 .. Count(msg) /\ pos' = pos /\ msg' = msg
      /\ spoiled' = TRUE /\ mctp_pkt_process(Pkt(msg, pos - 1))
  BY <1>1 DEF IInv, LinkTypeOK, PacketIsRepeated, senderVars, Hit
<1>3. IF Split THEN hits' = hits + 1 ELSE hits' = hits
  BY <1>1 DEF PacketIsRepeated, Hit, Split
<1>4. pos - 1 \in 0 .. Count(msg) - 1
  BY <1>1, <1>2
<1>5. LinkTypeOK'
  <2>1. msg' \in Message /\ pos' \in 0 .. Count(msg)' /\ hits' \in Nat
    BY <1>1, <1>2, <1>3
  <2> QED BY <1>2, <1>4, <2>1, ReceptionTypes DEF LinkTypeOK
<1>6. NotStarted' /\ UnharmedInStep' /\ Arrived'
  BY <1>1, <1>2 DEF NotStarted, UnharmedInStep, Arrived
<1>7. CASE Bypasses
  <2>1. hits' = hits /\ ~Middle /\ ~Middle'
    BY <1>1, <1>3, <1>7 DEF Bypasses, Middle
  <2>2. Undisturbed'
    BY <1>1, <1>7, <2>1 DEF IInv, Undisturbed, Clear, Bypasses, assemblyVars
  <2>3. NoErrorUnlessHit' /\ BufferHolds'
    BY <1>7, <2>1 DEF IInv, NoErrorUnlessHit, BufferHolds, Bypasses, assemblyVars
  <2>4. SingleIsWhole'
    BY <1>1, <1>7 DEF SingleIsWhole, Bypasses
  <2> QED
    BY <1>1, <1>5, <1>6, <1>7, <2>1, <2>2, <2>3, <2>4 DEF IInv, OneFault, Finished, Bypasses
<1>8. ASSUME Split
      PROVE  /\ hits' # 0 /\ (hits' <= 1 => hits = 0)
             /\ Undisturbed' /\ SingleIsWhole' /\ NoErrorUnlessHit'
             /\ hits = 0 /\ Middle => InStep /\ handed = 0
             /\ hits = 0 /\ pos = Count(msg) => Once /\ Clear
  <2>1. hits' # 0 /\ (hits' <= 1 => hits = 0)
    BY <1>1, <1>3, <1>8
  <2>2. hits = 0 => ~spoiled
    BY <1>8 DEF IInv, Undisturbed
  <2>3. hits = 0 /\ Middle => InStep /\ handed = 0
    BY <2>2 DEF IInv, UnharmedInStep
  <2>4. hits = 0 /\ pos = Count(msg) => Once /\ Clear
    BY <1>1, <1>8, <2>2 DEF IInv, Arrived, Finished
  <2> QED
    BY <1>1, <1>8, <2>1, <2>3, <2>4 DEF Undisturbed, SingleIsWhole, NoErrorUnlessHit
<1>9. CASE Starts(pos - 1)
  <2>1. pos = 1 /\ Split /\ Middle /\ handed' = handed /\ Starts(0)
    BY <1>1, <1>2, <1>9 DEF Starts, Split, Middle
  <2>2. InStep' /\ gs_buf_len' <= BufSize
    BY <1>2, <2>1, StartsInStep
  <2>3. pos' # Count(msg)'
    BY <1>1, <1>2, <2>1 DEF Middle
  <2> QED
    BY <1>5, <1>6, <1>8, <2>1, <2>2, <2>3 DEF IInv, OneFault, Finished, BufferHolds
<1>10. CASE Refuses(pos - 1)
  <2>1. /\ Split /\ pos > 1 /\ handed' = handed /\ got' = got
        /\ gs_pre_pkt_seq' = (gs_pre_pkt_seq + 1) % 4
        /\ gs_pre_msg_tag' = gs_pre_msg_tag /\ gs_buf_len' = gs_buf_len
    BY <1>2, <1>10 DEF Refuses
  <2>2. ASSUME hits = 0, Middle PROVE OutOfStep' /\ handed = 0
    <3>1. InStep /\ handed = 0
      BY <1>8, <2>1, <2>2
    <3>2. pos \in Nat /\ pos >= 1
      BY <1>2
    <3>3. gs_pre_pkt_seq' = pos % 4 /\ (pos - 1) % 4 # pos % 4 /\ pos % 4 \in 0 .. 3
      BY <2>1, <3>1, <3>2, SeqFacts DEF InStep
    <3> QED BY <1>2, <3>1, <3>3 DEF OutOfStep
  <2>3. OneFault'
    BY <1>1, <1>2, <1>8, <2>1, <2>2 DEF OneFault, Middle
  <2>4. Finished'
    BY <1>1, <1>2, <1>8, <2>1 DEF Finished, Once, Clear
  <2>5. BufferHolds'
    BY <1>8, <2>1 DEF IInv, BufferHolds
  <2> QED BY <1>5, <1>6, <1>8, <2>1, <2>3, <2>4, <2>5 DEF IInv
\* A packet that is accepted once more: not with one fault.
<1>11. ASSUME Split, pos > 1, Matches(pos - 1) PROVE hits # 0
  <2> SUFFICES ASSUME hits = 0 PROVE FALSE
    OBVIOUS
  <2>1. CASE Middle
    <3>1. pos \in Nat /\ pos >= 1
      BY <1>2
    <3>2. gs_pre_pkt_seq = (pos - 1) % 4
      BY <1>8, <1>11, <2>1 DEF InStep
    <3> QED BY <1>11, <3>1, <3>2, SeqFacts DEF Matches
  <2>2. CASE pos = Count(msg)
    BY <1>1, <1>8, <1>11, <2>2, CountFacts DEF Clear, Matches
  <2> QED BY <1>1, <1>2, <1>11, <2>1, <2>2 DEF Middle
<1>12. CASE Continues(pos - 1) \/ Completes(pos - 1)
  <2>1. Split /\ hits # 0
    BY <1>2, <1>11, <1>12 DEF Continues, Completes
  <2>2. ~(hits' <= 1)
    BY <1>8, <2>1
  <2> QED BY <1>5, <1>6, <1>8, <2>1, <2>2 DEF IInv, OneFault, Finished, BufferHolds
<1> QED BY <1>2, <1>4, <1>7, <1>9, <1>10, <1>12, Reception

(***************************************************************************)
(* The theorems.                                                           *)
(***************************************************************************)

LEMMA NextIInv == IInv /\ [Next]_linkVars => IInv'
<1> SUFFICES ASSUME IInv, [Next]_linkVars PROVE IInv'
  OBVIOUS
<1>1. CASE NewMessage
  BY <1>1, NewMessageIInv
<1>2. CASE PacketArrives
  BY <1>2, ArrivesIInv
<1>3. CASE PacketIsLost
  BY <1>3, OmissionIInv DEF PacketIsLost
<1>4. CASE PacketIsRepeated
  BY <1>4, RepeatedIInv
<1>5. CASE SendFails
  BY <1>5, OmissionIInv DEF SendFails
<1>6. CASE UNCHANGED linkVars
  <2>1. UNCHANGED <<msg, pos, gs_pre_msg_tag, gs_pre_pkt_seq, gs_frag_buf, gs_buf_len,
                    status, got, handed, spoiled, hits>>
    BY <1>6 DEF linkVars, senderVars, assemblyVars
  <2> QED
    BY <2>1
       DEF IInv, LinkTypeOK, NotStarted, UnharmedInStep, Undisturbed, OneFault, Finished,
           SingleIsWhole, Arrived, NoErrorUnlessHit, BufferHolds, Split, Middle, Clear,
           InStep, OutOfStep, Once, Count, Prefix, Payload, Whole, Bytes
<1> QED BY <1>1, <1>2, <1>3, <1>4, <1>5, <1>6 DEF Next

\* The strengthening of the properties of the link is inductive.
THEOREM LinkInvariant == Spec => []IInv
BY InitIInv, NextIInv, PTL DEF Spec

\* The variables of the assembly keep their types.
THEOREM LinkTypeCorrect == Spec => []LinkTypeOK
<1>1. IInv => LinkTypeOK
  BY DEF IInv
<1> QED BY <1>1, LinkInvariant, PTL

\* With one fault since the last message that arrived unharmed, what the assembly
\* hands on is the message that is sent, once, however long it is.
THEOREM WholeOrNothing == Spec => []DeliveredIsSent
<1>1. IInv => DeliveredIsSent
  <2> SUFFICES ASSUME IInv, hits <= 1, handed > 0
               PROVE  got = Whole(msg) /\ (Count(msg) > 1 => handed = 1)
    BY DEF DeliveredIsSent, IInv
  <2>1. msg \in Message /\ pos \in 0 .. Count(msg) /\ Count(msg) \in Nat
    BY CountFacts DEF IInv, LinkTypeOK
  <2>2. CASE ~Split
    BY <2>2 DEF IInv, SingleIsWhole, Split
  <2>3. CASE Split /\ pos = Count(msg)
    BY <2>3 DEF IInv, Finished, Once
  <2>4. CASE Split /\ pos < Count(msg)
    BY <2>1, <2>4 DEF IInv, NotStarted, UnharmedInStep, OneFault, Middle
  <2> QED BY <2>1, <2>2, <2>3, <2>4
<1> QED BY <1>1, LinkInvariant, PTL

\* Whatever the faults before it, a message that is not hit arrives.
THEOREM UnharmedIsDelivered == Spec => []UnharmedArrives
<1>1. IInv => UnharmedArrives
  BY DEF IInv, Arrived, UnharmedArrives
<1> QED BY <1>1, LinkInvariant, PTL

\* An undisturbed link sees no error.
THEOREM NoFalseAlarm == Spec => []NoErrorUnlessHit
<1>1. IInv => NoErrorUnlessHit
  BY DEF IInv
<1> QED BY <1>1, LinkInvariant, PTL

\* The assembly buffer holds what is put into it, if it holds each message.
THEOREM AssemblyFits == Spec => []BufferHolds
<1>1. IInv => BufferHolds
  BY DEF IInv
<1> QED BY <1>1, LinkInvariant, PTL

(***************************************************************************)
(* Discovery.                                                              *)
(***************************************************************************)
\* Every question that an answer leads to, and those the controller starts with.
PldmTypes == {CONTROL, MONITOR, FRU_DATA, UPDATE, REDFISH}

General == {<<"eid">>, <<"tid">>, <<"interfaces">>, <<"message types">>, <<"rate">>, <<"types">>}

\* A limit is asked for only where the device has one.
Rates == {<<"update">>} \cup (IF Via = 0 THEN {} ELSE {<<"limit">>})

MessageVersions == {<<"message version", t>> : t \in {"PLDM", "NCSI", "VDPCI"}} \cup {<<"vendor", 0>>}

Versions == {<<"version", t>> : t \in PldmTypes}

Commands == {<<"commands", t, PLDM_TYPE_VERSION[t]>> : t \in PldmTypes}

Answered == General \cup Rates \cup MessageVersions \cup Versions \cup Commands

Asking == todo \in Seq(Answered) /\ refused = {}

DiscoveryInv == ControlTypeOK /\ OwnerIsRight /\ LocatorIsRight

LEMMA Codes ==
  /\ 0 \notin Eids /\ 255 \notin Eids /\ 0 \notin Tids /\ 255 \notin Tids
  /\ 1 \in Interfaces
  BY TerminusAssumption

(***************************************************************************)
(* Addresses and the record.                                               *)
(***************************************************************************)
LEMMA SixInSeq ==
  ASSUME NEW S, NEW a \in S, NEW b \in S, NEW c \in S, NEW d \in S, NEW e \in S, NEW f \in S
  PROVE  <<a, b, c, d, e, f>> \in Seq(S)
  OBVIOUS

LEMMA InitDiscovery == DiscoveryInit => DiscoveryInv /\ Asking
<1> SUFFICES ASSUME DiscoveryInit PROVE DiscoveryInv /\ Asking
  OBVIOUS
<1>1. ControlTypeOK
  BY DEF DiscoveryInit, mctp_ctrl_init, ControlTypeOK, MCTP_EID_NULL
<1>2. OwnerIsRight
  BY DEF DiscoveryInit, OwnerIsRight
<1>3. LocatorIsRight
  BY DEF DiscoveryInit, LocatorIsRight
<1>4. Asking
  <2>1. /\ <<"eid">> \in Answered /\ <<"tid">> \in Answered /\ <<"interfaces">> \in Answered
        /\ <<"message types">> \in Answered /\ <<"rate">> \in Answered /\ <<"types">> \in Answered
    BY DEF Answered, General
  <2>2. FirstQuestions \in Seq(Answered)
    BY <2>1, SixInSeq DEF FirstQuestions
  <2> QED BY <2>2 DEF DiscoveryInit, Asking
<1> QED BY <1>1, <1>2, <1>3, <1>4 DEF DiscoveryInv

\* The bus owner of an interface.
LEMMA PrepareKeeps ==
  ASSUME DiscoveryInv, NEW h \in Interfaces, NEW answered \in BOOLEAN, Prepare(h, answered)
  PROVE  DiscoveryInv'
<1>1. ControlTypeOK /\ OwnerIsRight /\ LocatorIsRight
  BY DEF DiscoveryInv
<1>2. /\ UNCHANGED <<tid, locator, known>>
      /\ g_mctp_ctrl_info' = IF OverVdm(h) THEN Undiscovered(h) ELSE g_mctp_ctrl_info
      /\ owner' = IF ~answered THEN owner
                  ELSE [owner EXCEPT ![h] = [at |-> IF OverVdm(h) THEN "prepared" ELSE "found",
                                             eid |-> MCTP_EID_NULL]]
      /\ owner[h].at = "idle"
  BY DEF Prepare, mctp_prepare_for_eid_discovery, OwnerGets, SUCCESS, Refused
<1>3. ControlTypeOK'
  <2>1. owner' \in [Interfaces -> [at : {"idle", "prepared", "found", "assigned"},
                                   eid : Eids \cup {MCTP_EID_NULL}]]
    BY <1>1, <1>2 DEF ControlTypeOK
  <2>2. g_mctp_ctrl_info' \in
          [Interfaces -> [discovered : BOOLEAN, dev_eid : Eids \cup {MCTP_EID_NULL}]]
    <3>1. CASE OverVdm(h)
      BY <1>1, <1>2, <3>1 DEF ControlTypeOK, Undiscovered
    <3>2. CASE ~OverVdm(h)
      BY <1>1, <1>2, <3>2 DEF ControlTypeOK
    <3> QED BY <3>1, <3>2
  <2> QED BY <1>1, <1>2, <2>1, <2>2 DEF ControlTypeOK
<1>4. OwnerIsRight'
  BY <1>1, <1>2 DEF ControlTypeOK, OwnerIsRight, Undiscovered, OverVdm, mctp_get_eid,
                    mctp_query_supported_interfaces, SUCCESS
<1>5. LocatorIsRight'
  BY <1>1, <1>2, Codes DEF ControlTypeOK, LocatorIsRight, Undiscovered
<1> QED BY <1>3, <1>4, <1>5 DEF DiscoveryInv

LEMMA DiscoverKeeps ==
  ASSUME DiscoveryInv, NEW h \in Interfaces, NEW answered \in BOOLEAN, Discover(h, answered)
  PROVE  DiscoveryInv'
<1>1. /\ UNCHANGED <<g_mctp_ctrl_info, tid, locator, known>>
      /\ \/ owner' = owner
         \/ owner' = [owner EXCEPT ![h] = [at |-> "found", eid |-> MCTP_EID_NULL]]
  BY DEF Discover, mctp_eid_discovery, OwnerGets
<1>2. ControlTypeOK'
  BY <1>1 DEF DiscoveryInv, ControlTypeOK
<1>3. OwnerIsRight'
  BY <1>1 DEF DiscoveryInv, ControlTypeOK, OwnerIsRight, mctp_get_eid,
              mctp_query_supported_interfaces, SUCCESS
<1> QED BY <1>1, <1>2, <1>3 DEF DiscoveryInv, LocatorIsRight

\* What an accepted SetEndpointID does, whoever sends it.
LEMMA Addressing ==
  ASSUME ControlTypeOK, NEW h \in Interfaces, NEW op \in {SET_EID, FORCE_EID, SET_DISC_FLAG},
         NEW e, op = SET_DISC_FLAG \/ e \in Eids, mctp_set_eid(h, op, e)
  PROVE  \E a \in Eids \cup {MCTP_EID_NULL} :
           /\ op # SET_DISC_FLAG => a = e
           /\ op = SET_DISC_FLAG => a = g_mctp_ctrl_info[h].dev_eid
           /\ g_mctp_ctrl_info' = [g_mctp_ctrl_info EXCEPT ![h] = [discovered |-> TRUE, dev_eid |-> a]]
           /\ rsp' = SUCCESS(a)
           /\ tid' = tid
           /\ locator' = terminus_locator_pdr_chg(tid, g_mctp_ctrl_info'[1].dev_eid)
<1> DEFINE a == IF op = SET_DISC_FLAG THEN g_mctp_ctrl_info[h].dev_eid ELSE e
<1>1. a \in Eids \cup {MCTP_EID_NULL}
  BY DEF ControlTypeOK
<1>2. op # RESET_EID /\ (op \in {SET_EID, FORCE_EID} => e \notin {MCTP_EID_NULL, MCTP_EID_BROADCAST})
  BY Codes DEF SET_EID, FORCE_EID, SET_DISC_FLAG, RESET_EID, MCTP_EID_NULL, MCTP_EID_BROADCAST
<1>3. g_mctp_ctrl_info' = [g_mctp_ctrl_info EXCEPT ![h] = [discovered |-> TRUE, dev_eid |-> a]]
  BY <1>2 DEF mctp_set_eid, Addressed
<1>4. rsp' = SUCCESS(a)
  <2>1. g_mctp_ctrl_info'[h].dev_eid = a
    BY <1>3 DEF ControlTypeOK
  <2> QED BY <1>2, <2>1 DEF mctp_set_eid
<1> QED BY <1>1, <1>2, <1>3, <1>4 DEF mctp_set_eid, SET_EID, FORCE_EID, SET_DISC_FLAG

\* The address and the record change together.
LEMMA AddressedKeeps ==
  ASSUME DiscoveryInv, NEW h \in Interfaces, NEW a \in Eids \cup {MCTP_EID_NULL},
         g_mctp_ctrl_info' = [g_mctp_ctrl_info EXCEPT ![h] = [discovered |-> TRUE, dev_eid |-> a]],
         tid' = tid,
         locator' = terminus_locator_pdr_chg(tid, g_mctp_ctrl_info'[1].dev_eid),
         \/ owner' = owner /\ owner[h].at = "assigned" /\ a = owner[h].eid
         \/ owner' = owner /\ owner[h].at = "found"
         \/ owner' = [owner EXCEPT ![h] = [at |-> "assigned", eid |-> a]]
  PROVE  DiscoveryInv'
<1>1. ControlTypeOK /\ OwnerIsRight
  BY DEF DiscoveryInv
<1>2. 1 \in Interfaces /\ g_mctp_ctrl_info'[1].dev_eid \in Eids \cup {MCTP_EID_NULL}
  BY <1>1, Codes DEF ControlTypeOK
<1>3. ControlTypeOK'
  BY <1>1, <1>2 DEF ControlTypeOK, terminus_locator_pdr_chg
<1>4. OwnerIsRight'
  BY <1>1 DEF ControlTypeOK, OwnerIsRight, mctp_get_eid, mctp_query_supported_interfaces, SUCCESS
<1>5. LocatorIsRight'
  BY <1>1, <1>2 DEF LocatorIsRight, terminus_locator_pdr_chg
<1> QED BY <1>3, <1>4, <1>5 DEF DiscoveryInv

LEMMA AssignKeeps ==
  ASSUME DiscoveryInv, NEW h \in Interfaces, NEW answered \in BOOLEAN, Assign(h, answered)
  PROVE  DiscoveryInv'
<1>1. PICK op \in {SET_EID, FORCE_EID}, e \in Eids : mctp_set_eid(h, op, e)
  BY DEF Assign
<1>2. PICK a \in Eids \cup {MCTP_EID_NULL} :
        /\ g_mctp_ctrl_info' = [g_mctp_ctrl_info EXCEPT ![h] = [discovered |-> TRUE, dev_eid |-> a]]
        /\ rsp' = SUCCESS(a)
        /\ tid' = tid
        /\ locator' = terminus_locator_pdr_chg(tid, g_mctp_ctrl_info'[1].dev_eid)
  BY <1>1, Addressing DEF DiscoveryInv
<1>3. \/ owner' = owner /\ owner[h].at = "found"
      \/ owner' = [owner EXCEPT ![h] = [at |-> "assigned", eid |-> a]]
  BY <1>2 DEF Assign, OwnerGets, SUCCESS
<1> QED BY <1>2, <1>3, AddressedKeeps

LEMMA SetFlagKeeps ==
  ASSUME DiscoveryInv, NEW h \in Interfaces, SetFlag(h)
  PROVE  DiscoveryInv'
<1>1. mctp_set_eid(h, SET_DISC_FLAG, MCTP_EID_NULL) /\ owner' = owner /\ owner[h].at = "assigned"
  BY DEF SetFlag
<1>2. PICK a \in Eids \cup {MCTP_EID_NULL} :
        /\ a = g_mctp_ctrl_info[h].dev_eid
        /\ g_mctp_ctrl_info' = [g_mctp_ctrl_info EXCEPT ![h] = [discovered |-> TRUE, dev_eid |-> a]]
        /\ tid' = tid
        /\ locator' = terminus_locator_pdr_chg(tid, g_mctp_ctrl_info'[1].dev_eid)
  BY <1>1, Addressing DEF DiscoveryInv
<1>3. a = owner[h].eid
  BY <1>1, <1>2 DEF DiscoveryInv, OwnerIsRight, mctp_query_supported_interfaces, SUCCESS
<1> QED BY <1>1, <1>2, <1>3, AddressedKeeps

\* Everything else leaves the addresses alone.
LEMMA RefusedKeeps ==
  ASSUME DiscoveryInv, NEW h \in Interfaces, SendRefused(h)
  PROVE  DiscoveryInv'
<1>1. UNCHANGED <<g_mctp_ctrl_info, tid, locator, owner, known>>
  <2>1. CASE mctp_set_eid(h, RESET_EID, MCTP_EID_NULL)
    BY <2>1 DEF SendRefused, mctp_set_eid, SET_EID, FORCE_EID, RESET_EID, SET_DISC_FLAG
  <2>2. CASE \E e \in {MCTP_EID_NULL, MCTP_EID_BROADCAST} : mctp_set_eid(h, SET_EID, e)
    BY <2>2 DEF SendRefused, mctp_set_eid, SET_EID, FORCE_EID, RESET_EID, SET_DISC_FLAG
  <2>3. CASE \E t \in {PLDM_TID_UNASSIGN, PLDM_TID_RSVD} : pldm_ctrl_set_tid(t)
    BY <2>3 DEF SendRefused, pldm_ctrl_set_tid
  <2> QED BY <2>1, <2>2, <2>3 DEF SendRefused
<1>2. ControlTypeOK'
  BY <1>1 DEF DiscoveryInv, ControlTypeOK
<1>3. OwnerIsRight'
  BY <1>1 DEF DiscoveryInv, ControlTypeOK, OwnerIsRight, mctp_get_eid,
              mctp_query_supported_interfaces, SUCCESS
<1> QED BY <1>1, <1>2, <1>3 DEF DiscoveryInv, LocatorIsRight

LEMMA SetTidKeeps ==
  ASSUME DiscoveryInv, NEW t \in Tids, SetTid(t)
  PROVE  DiscoveryInv'
<1>1. /\ UNCHANGED <<g_mctp_ctrl_info, owner>>
      /\ tid' = t
      /\ locator' = terminus_locator_pdr_chg(t, g_mctp_ctrl_info[1].dev_eid)
  BY Codes DEF SetTid, pldm_ctrl_set_tid, PLDM_TID_UNASSIGN, PLDM_TID_RSVD
<1>2. 1 \in Interfaces /\ g_mctp_ctrl_info[1].dev_eid \in Eids \cup {MCTP_EID_NULL}
  BY Codes DEF DiscoveryInv, ControlTypeOK
<1> QED BY <1>1, <1>2 DEF DiscoveryInv, ControlTypeOK, OwnerIsRight, LocatorIsRight, mctp_get_eid,
                          mctp_query_supported_interfaces, SUCCESS, terminus_locator_pdr_chg

LEMMA OthersKeep ==
  ASSUME DiscoveryInv, Stray \/ Ask \/ (\E h \in Interfaces : ResetOwner(h)) \/ UNCHANGED vars
  PROVE  DiscoveryInv'
<1>1. /\ UNCHANGED <<g_mctp_ctrl_info, tid, locator, known>>
      /\ \/ owner' = owner
         \/ \E h \in Interfaces : owner' = [owner EXCEPT ![h] = [at |-> "idle", eid |-> MCTP_EID_NULL]]
  BY DEF Stray, Ask, ResetOwner, OwnerGets, vars, terminusVars
<1>2. ControlTypeOK'
  BY <1>1 DEF DiscoveryInv, ControlTypeOK
<1>3. OwnerIsRight'
  BY <1>1 DEF DiscoveryInv, ControlTypeOK, OwnerIsRight, mctp_get_eid,
              mctp_query_supported_interfaces, SUCCESS
<1> QED BY <1>1, <1>2, <1>3 DEF DiscoveryInv, LocatorIsRight

(***************************************************************************)
(* Questions.                                                              *)
(***************************************************************************)
\* A finite set as a sequence, which has its elements only.
LEMMA SequenceOfSet ==
  ASSUME NEW S, NEW T, IsFiniteSet(S), S \subseteq T
  PROVE  SetToSeq(S) \in Seq(T)
<1>1. Cardinality(S) \in Nat /\ ExistsBijection(1 .. Cardinality(S), S)
  BY FS_CardinalityType
<1>2. \E f \in [1 .. Cardinality(S) -> S] : IsInjective(f)
  BY <1>1 DEF ExistsBijection, Bijection, Injection, IsInjective
<1>3. SetToSeq(S) \in [1 .. Cardinality(S) -> S]
  BY <1>2 DEF SetToSeq
<1>4. SetToSeq(S) \in [1 .. Cardinality(S) -> T]
  BY <1>3
<1> QED BY <1>1, <1>4

LEMMA FewAreFinite ==
  ASSUME NEW a, NEW b, NEW c, NEW d, NEW e
  PROVE  IsFiniteSet({a, b, c, d, e})
<1>1. IsFiniteSet({})
  BY FS_EmptySet
<1>2. IsFiniteSet({} \cup {a})
  BY <1>1, FS_AddElement
<1>3. IsFiniteSet(({} \cup {a}) \cup {b})
  BY <1>2, FS_AddElement
<1>4. IsFiniteSet((({} \cup {a}) \cup {b}) \cup {c})
  BY <1>3, FS_AddElement
<1>5. IsFiniteSet(((({} \cup {a}) \cup {b}) \cup {c}) \cup {d})
  BY <1>4, FS_AddElement
<1>6. IsFiniteSet((((({} \cup {a}) \cup {b}) \cup {c}) \cup {d}) \cup {e})
  BY <1>5, FS_AddElement
<1>7. (((({} \cup {a}) \cup {b}) \cup {c}) \cup {d}) \cup {e} = {a, b, c, d, e}
  OBVIOUS
<1> QED BY <1>6, <1>7

\* What an answer to a question on the list looks like.
Fine(q) == /\ AnswerTo(q).code = "SUCCESS"
           /\ FollowUps(q, AnswerTo(q)) \subseteq Answered
           /\ IsFiniteSet(FollowUps(q, AnswerTo(q)))

LEMMA NoFollowUps ==
  ASSUME NEW q, AnswerTo(q).code = "SUCCESS", FollowUps(q, AnswerTo(q)) = {}
  PROVE  Fine(q)
  BY FS_EmptySet DEF Fine

LEMMA GeneralFine == ASSUME NEW q \in General PROVE Fine(q)
<1>1. CASE q = <<"eid">>
  BY <1>1, NoFollowUps DEF AnswerTo, FollowUps, mctp_get_eid, SUCCESS
<1>2. CASE q = <<"tid">>
  BY <1>2, NoFollowUps DEF AnswerTo, FollowUps, pldm_ctrl_get_tid, SUCCESS
<1>3. CASE q = <<"interfaces">>
  BY <1>3, NoFollowUps DEF AnswerTo, FollowUps, mctp_query_supported_interfaces, SUCCESS
<1>4. CASE q = <<"message types">>
  <2> DEFINE a == AnswerTo(q)
  <2>1. a = SUCCESS({"PLDM", "NCSI", "VDPCI"})
    BY <1>4 DEF AnswerTo, mctp_get_msg_type_sup
  <2>0. q[1] = "message types" /\ a.code = "SUCCESS" /\ a.val = {"PLDM", "NCSI", "VDPCI"}
    <3>1. q[1] = "message types"
      BY <1>4
    <3>2. a = [code |-> "SUCCESS", val |-> {"PLDM", "NCSI", "VDPCI"}]
      BY <2>1, Zenon DEF SUCCESS
    <3> HIDE DEF a
    <3> QED BY <3>1, <3>2
  <2>2. FollowUps(q, a) = {<<"message version", t>> : t \in {"PLDM", "NCSI", "VDPCI"}}
                            \cup {<<"vendor", 0>>}
    <3> HIDE DEF a
    <3> QED BY <2>0 DEF FollowUps
  <2>4. IsFiniteSet(FollowUps(q, a))
    <3> DEFINE v1 == <<"message version", "PLDM">>
               v2 == <<"message version", "NCSI">>
               v3 == <<"message version", "VDPCI">>
               v4 == <<"vendor", 0>>
    <3>1. FollowUps(q, a) = {v1, v2, v3, v4, v4}
      BY <2>2
    <3> HIDE DEF a, v1, v2, v3, v4
    <3>2. IsFiniteSet({v1, v2, v3, v4, v4})
      BY FewAreFinite
    <3> QED BY <3>1, <3>2
  <2>5. FollowUps(q, a) \subseteq Answered
    BY <2>2 DEF Answered, MessageVersions
  <2> QED BY <2>0, <2>4, <2>5 DEF Fine
<1>5. CASE q = <<"rate">>
  <2> DEFINE a == AnswerTo(q)
  <2>1. a = SUCCESS(Via # 0)
    BY <1>5 DEF AnswerTo, mctp_query_rate_limit
  <2>0. q[1] = "rate" /\ a.code = "SUCCESS" /\ a.val = (Via # 0)
    BY <1>5, <2>1 DEF SUCCESS
  <2>4. FollowUps(q, a) = IF Via # 0 THEN {<<"limit">>, <<"update">>} ELSE {}
    <3> HIDE DEF a
    <3> QED BY <2>0, Zenon DEF FollowUps
  <2>2. CASE Via = 0
    <3>1. FollowUps(q, a) = {}
      BY <2>2, <2>4
    <3> QED BY <2>1, <3>1, NoFollowUps DEF SUCCESS
  <2>3. CASE Via # 0
    <3>1. FollowUps(q, a) = {<<"limit">>, <<"update">>}
      BY <2>3, <2>4
    <3>3. IsFiniteSet(FollowUps(q, a))
      <4> DEFINE v1 == <<"limit">>
                 v2 == <<"update">>
      <4>1. FollowUps(q, a) = {v1, v2, v2, v2, v2}
        BY <3>1
      <4> HIDE DEF a, v1, v2
      <4>2. IsFiniteSet({v1, v2, v2, v2, v2})
        BY FewAreFinite
      <4> QED BY <4>1, <4>2
    <3>4. FollowUps(q, a) \subseteq Answered
      BY <2>3, <3>1 DEF Answered, Rates
    <3> QED BY <2>0, <3>3, <3>4 DEF Fine
  <2> QED BY <2>2, <2>3
<1>6. CASE q = <<"types">>
  <2> DEFINE a == AnswerTo(q)
  <2>1. a = SUCCESS(PldmTypes)
    BY <1>6 DEF AnswerTo, pldm_ctrl_get_type, PldmTypes
  <2>2. FollowUps(q, a) = {<<"version", t>> : t \in PldmTypes}
    BY <1>6, <2>1 DEF FollowUps, SUCCESS
  <2>4. IsFiniteSet(FollowUps(q, a))
    <3> DEFINE v1 == <<"version", CONTROL>>
               v2 == <<"version", MONITOR>>
               v3 == <<"version", FRU_DATA>>
               v4 == <<"version", UPDATE>>
               v5 == <<"version", REDFISH>>
    <3>1. FollowUps(q, a) = {v1, v2, v3, v4, v5}
      BY <2>2 DEF PldmTypes
    <3> HIDE DEF a, v1, v2, v3, v4, v5
    <3>2. IsFiniteSet({v1, v2, v3, v4, v5})
      BY FewAreFinite
    <3> QED BY <3>1, <3>2
  <2>5. FollowUps(q, a) \subseteq Answered
    BY <2>2 DEF Answered, Versions
  <2>6. a.code = "SUCCESS"
    BY <2>1 DEF SUCCESS
  <2> QED BY <2>4, <2>5, <2>6 DEF Fine
<1> QED BY <1>1, <1>2, <1>3, <1>4, <1>5, <1>6 DEF General

LEMMA RatesFine == ASSUME NEW q \in Rates PROVE Fine(q)
<1>1. CASE q = <<"update">>
  BY <1>1, NoFollowUps DEF AnswerTo, FollowUps, mctp_update_rate_limit, SUCCESS
<1>2. CASE q = <<"limit">> /\ Via # 0
  BY <1>2, NoFollowUps DEF AnswerTo, FollowUps, mctp_request_tx_rate_limit, SUCCESS
<1> QED BY <1>1, <1>2 DEF Rates

LEMMA MessageVersionsFine == ASSUME NEW q \in MessageVersions PROVE Fine(q)
<1>1. CASE q \in {<<"message version", t>> : t \in {"PLDM", "NCSI", "VDPCI"}}
  <2>1. PICK t \in {"PLDM", "NCSI", "VDPCI"} : q = <<"message version", t>>
    BY <1>1
  <2>2. q[1] = "message version" /\ q[2] = t
    BY <2>1
  <2>3. AnswerTo(q) = mctp_get_ver_sup(t)
    BY <2>2 DEF AnswerTo
  <2>4. mctp_get_ver_sup(t).code = "SUCCESS"
    BY <2>1 DEF mctp_get_ver_sup, SUCCESS
  <2> QED BY <2>2, <2>3, <2>4, NoFollowUps DEF FollowUps
<1>2. CASE q = <<"vendor", 0>>
  <2>1. q[1] = "vendor" /\ q[2] = 0
    BY <1>2
  <2>2. AnswerTo(q) = SUCCESS(255)
    BY <2>1 DEF AnswerTo, mctp_get_vendor_defined_msg_sup
  <2> DEFINE a == AnswerTo(q)
  <2>3. a.code = "SUCCESS" /\ a.val = 255
    BY <2>2 DEF SUCCESS
  <2>4. FollowUps(q, a) = {}
    <3> HIDE DEF a
    <3> QED BY <2>1, <2>3 DEF FollowUps
  <2> QED BY <2>3, <2>4, NoFollowUps
<1> QED BY <1>1, <1>2 DEF MessageVersions

LEMMA VersionsFine == ASSUME NEW q \in Versions PROVE Fine(q)
<1>1. PICK t \in PldmTypes : q = <<"version", t>>
  BY DEF Versions
<1>2. q[1] = "version" /\ q[2] = t
  BY <1>1
<1>3. AnswerTo(q) = SUCCESS(PLDM_TYPE_VERSION[t])
  BY <1>2 DEF AnswerTo, pldm_ctrl_get_ver, PLDM_TYPE_VERSION, PldmTypes
<1>4. FollowUps(q, AnswerTo(q)) = {<<"commands", t, PLDM_TYPE_VERSION[t]>>}
  BY <1>2, <1>3 DEF FollowUps, SUCCESS
<1> DEFINE c == <<"commands", t, PLDM_TYPE_VERSION[t]>>
<1>5. FollowUps(q, AnswerTo(q)) = {c, c, c, c, c}
  BY <1>4
<1>6. c \in Commands
  BY DEF Commands
<1>7. IsFiniteSet(FollowUps(q, AnswerTo(q)))
  BY <1>5, FewAreFinite
<1>8. FollowUps(q, AnswerTo(q)) \subseteq Answered
  BY <1>4, <1>6 DEF Answered
<1>9. AnswerTo(q).code = "SUCCESS"
  BY <1>3 DEF SUCCESS
<1> QED BY <1>7, <1>8, <1>9 DEF Fine

LEMMA CommandsFine == ASSUME NEW q \in Commands PROVE Fine(q)
<1>1. PICK t \in PldmTypes : q = <<"commands", t, PLDM_TYPE_VERSION[t]>>
  BY DEF Commands
<1>2. q[1] = "commands" /\ q[2] = t /\ q[3] = PLDM_TYPE_VERSION[t]
  BY <1>1
<1>3. t \in DOMAIN pldm_cmd
  BY DEF pldm_cmd, PldmTypes
<1>4. AnswerTo(q) = SUCCESS(pldm_cmd[t])
  BY <1>2, <1>3 DEF AnswerTo, pldm_ctrl_get_cmd
<1> DEFINE a == AnswerTo(q)
<1>5. a.code = "SUCCESS"
  BY <1>4 DEF SUCCESS
<1>6. FollowUps(q, a) = {}
  <2> HIDE DEF a
  <2> QED BY <1>2, <1>5 DEF FollowUps
<1> QED BY <1>5, <1>6, NoFollowUps

LEMMA AskKeeps == ASSUME Asking, Ask PROVE Asking'
<1> DEFINE q == Head(todo)
           a == AnswerTo(q)
<1>1. q \in Answered /\ Tail(todo) \in Seq(Answered)
  BY DEF Asking, Ask
<1>2. Fine(q)
  BY <1>1, GeneralFine, RatesFine, MessageVersionsFine, VersionsFine, CommandsFine DEF Answered
<1>3. SetToSeq(FollowUps(q, a)) \in Seq(Answered)
  BY <1>2, SequenceOfSet DEF Fine
<1>4. todo' = Tail(todo) \o SetToSeq(FollowUps(q, a))
  BY DEF Ask
<1>5. todo' \in Seq(Answered)
  BY <1>1, <1>3, <1>4
<1>6. refused' = refused
  BY <1>2 DEF Ask, Fine
<1>7. Answered' = Answered
  BY DEF Answered, General, Rates, MessageVersions, Versions, Commands, PldmTypes
<1> QED BY <1>5, <1>6, <1>7 DEF Asking

(***************************************************************************)
(* The theorems.                                                           *)
(***************************************************************************)
LEMMA DiscoveryStep == DiscoveryInv /\ [DiscoveryNext]_vars => DiscoveryInv'
  BY PrepareKeeps, DiscoverKeeps, AssignKeeps, SetFlagKeeps, RefusedKeeps, SetTidKeeps, OthersKeep
     DEF DiscoveryNext

LEMMA AskingStep == Asking /\ [DiscoveryNext]_vars => Asking'
<1> SUFFICES ASSUME Asking, [DiscoveryNext]_vars PROVE Asking'
  OBVIOUS
<1>1. CASE Ask
  BY <1>1, AskKeeps
<1>2. CASE UNCHANGED <<todo, refused>>
  BY <1>2 DEF Asking
<1>3. ASSUME [DiscoveryNext]_vars, ~Ask PROVE UNCHANGED <<todo, refused>>
  BY <1>3 DEF DiscoveryNext, vars, explorerVars, Prepare, Discover, Assign, SetFlag, SendRefused, ResetOwner,
              SetTid, Stray
<1> QED BY <1>1, <1>2, <1>3

\* Discovery, addressing, resets and losses keep owners, device and record in step.
THEOREM DiscoveryInvariant == DiscoverySpec => []DiscoveryInv
  BY InitDiscovery, DiscoveryStep, PTL DEF DiscoverySpec

\* A bus owner that has an answer is right about the endpoint of its interface.
THEOREM OwnersAreRight == DiscoverySpec => []OwnerIsRight
<1>1. DiscoveryInv => OwnerIsRight
  BY DEF DiscoveryInv
<1> QED BY <1>1, DiscoveryInvariant, PTL

\* The locator record follows both protocols that change what it says.
THEOREM LocatorFollows == DiscoverySpec => []LocatorIsRight
<1>1. DiscoveryInv => LocatorIsRight
  BY DEF DiscoveryInv
<1> QED BY <1>1, DiscoveryInvariant, PTL

\* No question that an answer led to is refused, on whatever interface.
THEOREM NothingIsRefused == DiscoverySpec => []AnnouncedIsAnswered
<1>1. Asking => AnnouncedIsAnswered
  BY DEF Asking, AnnouncedIsAnswered
<1> QED BY <1>1, InitDiscovery, AskingStep, PTL DEF DiscoverySpec
=============================================================================
