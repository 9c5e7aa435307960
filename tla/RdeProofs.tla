----------------------------- MODULE RdeProofs -----------------------------
(***************************************************************************)
(* Proofs about the Redfish device and the controller that uses it, for any *)
(* resources, operations, dictionaries, sizes and lost responses.  One      *)
(* inductive invariant, SessionInv, relates the phase of the controller to  *)
(* the status of the device, to what the operation still waits for, to how  *)
(* often it ran, and to the bytes of a transfer.  First it is shown what    *)
(* the handlers do to the device, then what an action of the session does   *)
(* to both.                                                                *)
(***************************************************************************)
EXTENDS RdeSession, SequenceTheorems, TLAPS

(***************************************************************************)
(* What the device and the controller are made of.                         *)
(***************************************************************************)
\* What a transfer carries.
Octets == Units \cup ({"dict"} \X (DOMAIN Flash) \X Nat) \cup ({"undefined"} \X Int)
Flags == {"payload", "custom"}

\* The device between two requests.
Device ==
  [status : Statuses, op_type : OpTypes, op_flag : SUBSET Flags, skip : Nat, top : Nat,
   recv_next : Nat, send_first : Nat, send_next : Nat, buf : {"none", "needed", "result"},
   buf_len : Nat, op_data : Seq(Units), op_result : Seq(Units),
   needed : {<<>>} \cup DOMAIN Flash, chunk : MinChunk .. DevChunk,
   prev : [resource_id : ResourceIds \cup {0}, op_id : OpIds \cup {0}],
   body : [Places -> Seq(Units)], etag : [Places -> Seq(Units)], ran : BOOLEAN, rsp : {NoResponse}]

Phases == {"idle", "dictionary", "custom", "sending", "polling", "receiving", "closing"}
Ops == [res : ResourceIds \cup {0}, op_type : OpTypes, flags : SUBSET Flags, payload : Seq(Units)]
Reads == {NoRead} \cup [what : {"dictionary", "result"}, dict : {<<>>} \cup Dictionaries,
                        data : Seq(Octets), good : BOOLEAN, clean : BOOLEAN]
Controller ==
  [phase : Phases, op : Ops, op_id : OpIds \cup {0}, etag : {<<>>} \cup (ResourceIds \X Seq(Units)),
   sent : Nat, handle : Nat, dict : {<<>>} \cup Dictionaries, got : Seq(Octets), read : Reads,
   stale : BOOLEAN, mixed : BOOLEAN, repeated : BOOLEAN, runs : Nat, result : Seq(Units)]

TypeInv == rde \in Device /\ ctl \in Controller

(***************************************************************************)
(* What the handlers do.                                                   *)
(***************************************************************************)
Quiet(s) == [s EXCEPT !.ran = FALSE]
Heard(t) == [t EXCEPT !.rsp = NoResponse]

LEMMA BodyUnits == \A v \in Values : Body(v) \in Seq(Units) /\ Len(Body(v)) = Size[v]
  BY SizesAssumption DEF Body, Units

LEMMA HeaderUnits == BejHeader \in Seq(Units) /\ Len(BejHeader) = BejHdr
  BY SizesAssumption DEF BejHeader, Units

LEMMA InitialUnits == \A p : InitialBody(p) \in Seq(Units) /\ BejHdr + Len(InitialBody(p)) + CrcLen < WordSize
  BY BodyUnits, SizesAssumption, LengthsAssumption DEF InitialBody

LEMMA InitIsDevice == pldm_redfish_init \in Device
<1>1. [p \in Places |-> InitialBody(p)] \in [Places -> Seq(Units)]
  BY InitialUnits
<1>2. DevChunk \in MinChunk .. DevChunk
  BY SizesAssumption
<1>3. <<>> \in Seq(Units)
  OBVIOUS
<1> QED BY <1>1, <1>2, <1>3, SizesAssumption
      DEF pldm_redfish_init, Device, Statuses, OpTypes, Flags, All

LEMMA AnswerFacts ==
  ASSUME NEW s \in Device, NEW r
  PROVE  /\ Answer(s, r).rsp = r /\ Heard(Answer(s, r)) = s
         /\ Answer(s, r).ran = s.ran /\ Answer(s, r).op_result = s.op_result
  BY DEF Answer, Heard, Device

(***************************************************************************)
(* Places: a collection is stored where nothing else is.                   *)
(***************************************************************************)
IsCollection(id) == resource_id_to_resource_identity(id) \in Collections

LEMMA PlaceRange ==
  ASSUME NEW id \in Int, HasEtag(id)
  PROVE  /\ IsCollection(id) => bej_idx(id) \in {3, 5, 4 * MaxLanNum + 6}
         /\ ~IsCollection(id) => bej_idx(id) \notin {3, 5, 4 * MaxLanNum + 6}
<1> DEFINE n == resource_id_to_resource_identity(id)
           off == id - pldm_redfish_resource_id_to_base(id)
<1>0. MaxLanNum \in 1 .. 9
  BY SizesAssumption
<1>1. CASE id \in {1, 3, 5, 10, 30, 20, 40}
  <2>1. off = 0
    BY <1>1 DEF pldm_redfish_resource_id_to_base
  <2> QED BY <1>0, <1>1, <2>1
       DEF bej_idx, HasEtag, IsCollection, Collections, resource_id_to_resource_identity, AllSchema
<1>2. CASE FuncBase(id)
  <2>0. id \in 200 .. 200 + MaxLanNum - 1 \/ id \in 210 .. 210 + MaxLanNum - 1
    BY <1>0, <1>2 DEF FuncBase
  <2>1. n = 10
    BY <1>0, <2>0
       DEF resource_id_to_resource_identity, FuncBase, PortBase, EthBase, AllSchema
  <2>2. off \in 0 .. MaxLanNum - 1
    BY <1>0, <2>0 DEF pldm_redfish_resource_id_to_base
  <2> QED BY <1>0, <2>1, <2>2 DEF bej_idx, IsCollection, Collections
<1>3. CASE PortBase(id)
  <2>0. id \in 100 .. 100 + MaxLanNum - 1 \/ id \in 110 .. 110 + MaxLanNum - 1
    BY <1>0, <1>3 DEF PortBase
  <2>1. n = 11
    BY <1>0, <2>0
       DEF resource_id_to_resource_identity, FuncBase, PortBase, EthBase, AllSchema
  <2>2. off \in 0 .. MaxLanNum - 1
    BY <1>0, <2>0 DEF pldm_redfish_resource_id_to_base
  <2> QED BY <1>0, <2>1, <2>2 DEF bej_idx, IsCollection, Collections
<1>4. CASE id \in 300 .. 299 + MaxLanNum
  <2>0. id \in 300 .. 300 + MaxLanNum - 1
    BY <1>0, <1>4
  <2>1. n = 12
    BY <1>0, <2>0
       DEF resource_id_to_resource_identity, FuncBase, PortBase, EthBase, AllSchema
  <2>2. off \in 0 .. MaxLanNum - 1
    BY <1>0, <2>0 DEF pldm_redfish_resource_id_to_base
  <2> QED BY <1>0, <2>1, <2>2 DEF bej_idx, IsCollection, Collections
<1>5. CASE EthBase(id)
  <2>0. id \in 400 .. 400 + MaxLanNum - 1 \/ id \in 410 .. 410 + MaxLanNum - 1
    BY <1>0, <1>5 DEF EthBase
  <2>1. n = 13
    BY <1>0, <2>0
       DEF resource_id_to_resource_identity, FuncBase, PortBase, EthBase, AllSchema
  <2>2. off \in 0 .. MaxLanNum - 1
    BY <1>0, <2>0 DEF pldm_redfish_resource_id_to_base
  <2> QED BY <1>0, <2>1, <2>2 DEF bej_idx, IsCollection, Collections
<1> QED BY <1>0, <1>1, <1>2, <1>3, <1>4, <1>5
     DEF HasEtag, resource_id_to_resource_identity, NoResource, ALL_SCHEMA

\* A page of the members, and everything else that is read, is units, and not longer.
LEMMA ReadUnits ==
  ASSUME NEW q \in Seq(Units), NEW isColl \in BOOLEAN, NEW skip \in Nat, NEW top \in Nat,
         isColl => Len(q) = MaxLanNum
  PROVE  /\ pldm_cjson_read(q, isColl, skip, top) \in Seq(Units)
         /\ Len(pldm_cjson_read(q, isColl, skip, top)) <= Len(q)
<1> DEFINE n == IF MaxLanNum - skip <= top THEN MaxLanNum - skip ELSE top
<1>0. MaxLanNum \in 1 .. 9
  BY SizesAssumption
<1>1. CASE ~isColl \/ (skip = 0 /\ top = All)
  BY <1>1 DEF pldm_cjson_read
<1>2. CASE ~(~isColl \/ (skip = 0 /\ top = All)) /\ (top = 0 \/ skip >= MaxLanNum)
  <2>1. pldm_cjson_read(q, isColl, skip, top) = <<>>
    BY <1>2 DEF pldm_cjson_read
  <2> QED BY <2>1
<1>3. CASE ~(~isColl \/ (skip = 0 /\ top = All)) /\ ~(top = 0 \/ skip >= MaxLanNum)
  <2>1. pldm_cjson_read(q, isColl, skip, top) = SubSeq(q, skip + 1, skip + n)
    BY <1>3 DEF pldm_cjson_read
  <2>2. n \in Nat /\ skip + n <= Len(q)
    BY <1>0, <1>3
  <2>3. \A i \in skip + 1 .. skip + n : q[i] \in Units
    BY <2>2
  <2> HIDE DEF n
  <2>4. SubSeq(q, skip + 1, skip + n) \in Seq(Units) /\ Len(SubSeq(q, skip + 1, skip + n)) = n
    BY <2>2, <2>3, SubSeqProperties
  <2> QED BY <2>1, <2>2, <2>4
<1> QED BY <1>1, <1>2, <1>3

\* What is cut out of a payload.
LEMMA CutUnits ==
  ASSUME NEW q \in Seq(Units), NEW k \in Nat, NEW m \in Nat
  PROVE  /\ SubSeq(q, k + 1, Len(q) - m) \in Seq(Units)
         /\ Len(SubSeq(q, k + 1, Len(q) - m)) = IF k + m <= Len(q) THEN Len(q) - k - m ELSE 0
<1>1. \A i \in k + 1 .. Len(q) - m : q[i] \in Units
  OBVIOUS
<1>2. k + 1 \in Int /\ Len(q) - m \in Int
  OBVIOUS
<1> HIDE <1>1
<1>3. /\ SubSeq(q, k + 1, Len(q) - m) \in Seq(Units)
      /\ Len(SubSeq(q, k + 1, Len(q) - m)) =
           IF k + 1 <= Len(q) - m THEN (Len(q) - m) - (k + 1) + 1 ELSE 0
  BY <1>1, <1>2, SubSeqProperties
<1> QED BY <1>3

(***************************************************************************)
(* Executing the operation.                                                *)
(***************************************************************************)
\* What is transferred and stored fits into a word.
Stored(s) == \A p \in Places : BejHdr + Len(s.body[p]) + CrcLen < WordSize
Fit(s) == Len(s.op_result) + CrcLen < WordSize /\ Stored(s)

CollectionsWhole(s) ==
  \A id \in ResourceIds : HasEtag(id) /\ IsCollection(id) => Len(s.body[bej_idx(id)]) = MaxLanNum

\* What the operation of s leaves of it.
Cut(data) == SubSeq(data, BejHdr + 1, Len(data) - BejHdr)

Updated(s, u) ==
  LET p == bej_idx(s.prev.resource_id)
      v == ValueOf(s.op_data) IN
    /\ s.op_type = "UPDATE" /\ v # NoValue /\ ~IsCollection(s.prev.resource_id)
    /\ u.body = [s.body EXCEPT ![p] = Body(v)] /\ u.etag = [s.etag EXCEPT ![p] = Body(v)]

Overwritten(s, u) ==
  LET p == bej_idx(s.prev.resource_id) IN
    /\ s.op_type = "REPLACE" /\ u.etag = s.etag
    /\ u.body = [s.body EXCEPT ![p] = Cut(s.op_data)]

Unchanged(s, u) == u.body = s.body /\ u.etag = s.etag

\* u is what is left when the operation of s ran.
SameRequest(s, u) ==
  /\ u.prev = s.prev /\ u.op_type = s.op_type /\ u.op_flag = s.op_flag /\ u.recv_next = s.recv_next

Ran(s, u) ==
  /\ u \in Device /\ u.ran = TRUE /\ u.status \in Triggered
  /\ u.status = "HAVE_RESULTS" => u.op_result # <<>>
  /\ SameRequest(s, u)
  /\ Unchanged(s, u) \/ (HasEtag(s.prev.resource_id) /\ (Updated(s, u) \/ Overwritten(s, u)))
  /\ Stored(s) /\ Len(s.op_data) + CrcLen < WordSize => Fit(u)

\* An operation may run on a device like this.
Runnable(s) ==
  /\ s \in Device /\ s.prev.resource_id \in ResourceIds
  /\ IsCollection(s.prev.resource_id) => s.op_type \in {"READ", "HEAD"}
  /\ CollectionsWhole(s)

\* What was transferred as a whole is the encoding of one value.
LEMMA ValueFound ==
  ASSUME NEW data, ValueOf(data) # NoValue
  PROVE  ValueOf(data) \in Values /\ data = Encoded(ValueOf(data))
  BY DEF ValueOf

Resulting(s, q, u) ==
  /\ u \in Device /\ u.ran = TRUE /\ u.status \in Triggered
  /\ u.status = "HAVE_RESULTS" => u.op_result # <<>>
  /\ SameRequest(s, u) /\ u.op_result = q
  /\ u.body = s.body /\ u.etag = s.etag

LEMMA ResultSet ==
  ASSUME NEW s \in Device, NEW q \in Seq(Units), s.ran = TRUE
  PROVE  Resulting(s, q, WithResult(s, q))
  BY DEF WithResult, Device, Triggered, Statuses, SameRequest, Resulting

LEMMA FailureRuns ==
  ASSUME NEW s \in Device, s.ran = TRUE, s.op_result = <<>>
  PROVE  Ran(s, Failed(s))
<1> DEFINE u == Failed(s)
<1>1. u \in Device /\ u.ran = TRUE /\ u.status = "FAILED" /\ u.op_result = <<>>
  BY DEF Failed, Device, Statuses
<1>2. SameRequest(s, u) /\ Unchanged(s, u)
  BY DEF Failed, Device, SameRequest, Unchanged
<1>3. Stored(s) => Fit(u)
  <2>1. CrcLen < WordSize
    BY SizesAssumption, LengthsAssumption
  <2> QED BY <1>1, <1>2, <2>1, SizesAssumption DEF Fit, Stored, Unchanged
<1> QED BY <1>1, <1>2, <1>3 DEF Ran, Triggered

\* What is written in one place fits, and nothing else changes.
LEMMA StoredKept ==
  ASSUME NEW f \in [Places -> Seq(Units)], NEW q \in Seq(Units), NEW p,
         \A x \in Places : BejHdr + Len(f[x]) + CrcLen < WordSize,
         BejHdr + Len(q) + CrcLen < WordSize
  PROVE  /\ [f EXCEPT ![p] = q] \in [Places -> Seq(Units)]
         /\ \A x \in Places : BejHdr + Len([f EXCEPT ![p] = q][x]) + CrcLen < WordSize
  OBVIOUS

LEMMA PlaceKnown ==
  ASSUME NEW id \in ResourceIds, HasEtag(id)
  PROVE  bej_idx(id) \in Places
  BY DEF Places

\* What is executed leaves the device as Ran says.
LEMMA ExecuteRuns ==
  ASSUME NEW s, Runnable(s), NEW d \in BOOLEAN, s.ran = TRUE, s.op_result = <<>>,
         HasEtag(s.prev.resource_id)
  PROVE  Ran(s, Execute(s, bej_idx(s.prev.resource_id), IsCollection(s.prev.resource_id), d))
<1> DEFINE id == s.prev.resource_id
           p == bej_idx(id)
           coll == IsCollection(id)
           u == Execute(s, p, coll, d)
           read == IF s.op_type = "HEAD" THEN s.body[p]
                   ELSE pldm_cjson_read(s.body[p], coll, s.skip, s.top)
<1>0. /\ s \in Device /\ p \in Places /\ id \in ResourceIds /\ coll \in BOOLEAN
      /\ s.body \in [Places -> Seq(Units)] /\ s.etag \in [Places -> Seq(Units)]
      /\ s.op_data \in Seq(Units) /\ s.skip \in Nat /\ s.top \in Nat /\ s.op_type \in OpTypes
  BY PlaceKnown DEF Runnable, Device, IsCollection
<1>1. CASE s.op_type # "REPLACE" /\ ~Undamaged(s.body[p]) /\ ~d
  <2>1. u = Failed(s)
    BY <1>1 DEF Execute
  <2> QED BY <1>0, <2>1, FailureRuns
<1> DEFINE goes == ~(s.op_type # "REPLACE" /\ ~Undamaged(s.body[p]) /\ ~d)
<1>2. CASE goes /\ s.op_type \in {"READ", "HEAD"}
  <2>1. u = WithResult(s, BejHeader \o read)
    BY <1>2 DEF Execute
  <2>2. s.body[p] \in Seq(Units)
    BY <1>0
  <2>3. coll => Len(s.body[p]) = MaxLanNum
    BY <1>0 DEF Runnable, CollectionsWhole
  <2>4. read \in Seq(Units) /\ Len(read) <= Len(s.body[p])
    <3> HIDE DEF p, coll
    <3> QED BY <1>0, <2>2, <2>3, ReadUnits
  <2> HIDE DEF read
  <2>5. BejHeader \o read \in Seq(Units) /\ Len(BejHeader \o read) = BejHdr + Len(read)
    BY <2>4, HeaderUnits
  <2>a. Resulting(s, BejHeader \o read, WithResult(s, BejHeader \o read))
    BY <1>0, <2>1, <2>5, ResultSet
  <2>6. /\ u \in Device /\ u.ran = TRUE /\ u.status \in Triggered
        /\ u.status = "HAVE_RESULTS" => u.op_result # <<>>
        /\ SameRequest(s, u) /\ u.op_result = BejHeader \o read
        /\ u.body = s.body /\ u.etag = s.etag
    BY <2>1, <2>a DEF Resulting
  <2>7. Stored(s) => Fit(u)
    <3> HIDE DEF u
    <3> QED BY <1>0, <2>2, <2>4, <2>5, <2>6, SizesAssumption DEF Fit, Stored
  <2> HIDE DEF u
  <2> QED BY <2>6, <2>7 DEF Ran, Unchanged, u
<1>3. CASE goes /\ s.op_type = "UPDATE" /\ (ValueOf(s.op_data) = NoValue \/ coll)
  <2>1. u = Failed(s)
    BY <1>3 DEF Execute
  <2> QED BY <1>0, <2>1, FailureRuns
<1>4. CASE goes /\ s.op_type = "UPDATE" /\ ~(ValueOf(s.op_data) = NoValue \/ coll)
  <2> DEFINE v == ValueOf(s.op_data)
             t == [s EXCEPT !.body[p] = Body(v), !.etag[p] = Body(v)]
  <2>1. u = WithResult(t, s.op_data)
    BY <1>4 DEF Execute
  <2>2. v \in Values /\ s.op_data = Encoded(v)
    BY <1>4, ValueFound
  <2>3. Body(v) \in Seq(Units) /\ Len(Body(v)) = Size[v]
    BY <2>2, BodyUnits
  <2> HIDE DEF v, p, coll
  <2>4. /\ t.body = [s.body EXCEPT ![p] = Body(v)] /\ t.etag = [s.etag EXCEPT ![p] = Body(v)]
        /\ t.ran = TRUE /\ SameRequest(s, t) /\ t.op_result = <<>> /\ t.op_type = s.op_type
    BY <1>0 DEF Device, SameRequest
  <2>5. t \in Device
    <3>1. /\ [s.body EXCEPT ![p] = Body(v)] \in [Places -> Seq(Units)]
          /\ [s.etag EXCEPT ![p] = Body(v)] \in [Places -> Seq(Units)]
      BY <1>0, <2>3
    <3> QED BY <1>0, <2>4, <3>1 DEF Device
  <2> HIDE DEF t
  <2>a. Resulting(t, s.op_data, WithResult(t, s.op_data))
    BY <1>0, <2>1, <2>4, <2>5, ResultSet
  <2>6. /\ u \in Device /\ u.ran = TRUE /\ u.status \in Triggered
        /\ u.status = "HAVE_RESULTS" => u.op_result # <<>>
        /\ SameRequest(t, u) /\ u.op_result = s.op_data
        /\ u.body = t.body /\ u.etag = t.etag
    BY <2>1, <2>a DEF Resulting
  <2> HIDE DEF u
  <2>7. Updated(s, u)
    BY <1>4, <2>4, <2>6 DEF Updated, v, p, coll
  <2>8. Stored(s) /\ Len(s.op_data) + CrcLen < WordSize => Fit(u)
    BY <1>0, <2>2, <2>3, <2>4, <2>6, StoredKept, LengthsAssumption DEF Fit, Stored
  <2>9. SameRequest(s, u)
    BY <2>4, <2>6 DEF SameRequest
  <2> QED BY <2>6, <2>7, <2>8, <2>9 DEF Ran, u, p, coll
<1>5. CASE goes /\ s.op_type = "REPLACE"
  <2> DEFINE q == Cut(s.op_data)
             t == [s EXCEPT !.body[p] = q]
  <2>1. u = WithResult(t, Copied(s.op_data))
    BY <1>5 DEF Execute, Cut
  <2>2. q \in Seq(Units) /\ Len(q) = IF BejHdr + BejHdr <= Len(s.op_data)
                                     THEN Len(s.op_data) - BejHdr - BejHdr ELSE 0
    BY <1>0, CutUnits, SizesAssumption DEF Cut
  <2>3. Copied(s.op_data) \in Seq(Units) /\ Len(Copied(s.op_data)) <= Len(s.op_data)
    <3>1. SubSeq(s.op_data, 0 + 1, Len(s.op_data) - BejHdr) \in Seq(Units)
          /\ Len(SubSeq(s.op_data, 0 + 1, Len(s.op_data) - BejHdr)) =
               IF 0 + BejHdr <= Len(s.op_data) THEN Len(s.op_data) - 0 - BejHdr ELSE 0
      BY <1>0, CutUnits, SizesAssumption
    <3>2. Copied(s.op_data) = SubSeq(s.op_data, 0 + 1, Len(s.op_data) - BejHdr)
      BY DEF Copied
    <3> QED BY <1>0, <3>1, <3>2, SizesAssumption
  <2> HIDE DEF q, p, coll
  <2>4. /\ t.body = [s.body EXCEPT ![p] = q] /\ t.etag = s.etag
        /\ t.ran = TRUE /\ SameRequest(s, t) /\ t.op_type = s.op_type
    BY <1>0 DEF Device, SameRequest
  <2>5. t \in Device
    <3>1. [s.body EXCEPT ![p] = q] \in [Places -> Seq(Units)]
      BY <1>0, <2>2
    <3> QED BY <1>0, <2>4, <3>1 DEF Device
  <2> HIDE DEF t
  <2>a. Resulting(t, Copied(s.op_data), WithResult(t, Copied(s.op_data)))
    BY <1>0, <2>1, <2>3, <2>4, <2>5, ResultSet
  <2>6. /\ u \in Device /\ u.ran = TRUE /\ u.status \in Triggered
        /\ u.status = "HAVE_RESULTS" => u.op_result # <<>>
        /\ SameRequest(t, u) /\ u.op_result = Copied(s.op_data)
        /\ u.body = t.body /\ u.etag = t.etag
    BY <2>1, <2>a DEF Resulting
  <2> HIDE DEF u
  <2>7. Overwritten(s, u)
    BY <1>5, <2>4, <2>6 DEF Overwritten, p, q
  <2>8. Stored(s) /\ Len(s.op_data) + CrcLen < WordSize => Fit(u)
    <3>1. SUFFICES ASSUME Stored(s), Len(s.op_data) + CrcLen < WordSize PROVE Fit(u)
      OBVIOUS
    <3>2. BejHdr + Len(q) + CrcLen < WordSize
      <4>1. BejHdr + CrcLen < WordSize
        BY SizesAssumption, LengthsAssumption
      <4> QED BY <1>0, <2>2, <3>1, <4>1, SizesAssumption
    <3>3. \A x \in Places : BejHdr + Len(t.body[x]) + CrcLen < WordSize
      BY <1>0, <2>2, <2>4, <3>1, <3>2, StoredKept DEF Stored
    <3>4. Len(u.op_result) + CrcLen < WordSize
      BY <1>0, <2>3, <2>6, <3>1, SizesAssumption
    <3> QED BY <2>6, <3>3, <3>4 DEF Fit, Stored
  <2>9. SameRequest(s, u)
    BY <2>4, <2>6 DEF SameRequest
  <2> QED BY <2>6, <2>7, <2>8, <2>9 DEF Ran, u, p, coll
<1>6. CASE goes /\ s.op_type = "ACTION"
  <2>1. u = WithResult(s, Copied(s.op_data))
    BY <1>6 DEF Execute
  <2>3. Copied(s.op_data) \in Seq(Units) /\ Len(Copied(s.op_data)) <= Len(s.op_data)
    <3>1. SubSeq(s.op_data, 0 + 1, Len(s.op_data) - BejHdr) \in Seq(Units)
          /\ Len(SubSeq(s.op_data, 0 + 1, Len(s.op_data) - BejHdr)) =
               IF 0 + BejHdr <= Len(s.op_data) THEN Len(s.op_data) - 0 - BejHdr ELSE 0
      BY <1>0, CutUnits, SizesAssumption
    <3>2. Copied(s.op_data) = SubSeq(s.op_data, 0 + 1, Len(s.op_data) - BejHdr)
      BY DEF Copied
    <3> QED BY <1>0, <3>1, <3>2, SizesAssumption
  <2>a. Resulting(s, Copied(s.op_data), WithResult(s, Copied(s.op_data)))
    BY <1>0, <2>1, <2>3, ResultSet
  <2>6. /\ u \in Device /\ u.ran = TRUE /\ u.status \in Triggered
        /\ u.status = "HAVE_RESULTS" => u.op_result # <<>>
        /\ SameRequest(s, u) /\ u.op_result = Copied(s.op_data)
        /\ u.body = s.body /\ u.etag = s.etag
    BY <2>1, <2>a DEF Resulting
  <2>7. Stored(s) /\ Len(s.op_data) + CrcLen < WordSize => Fit(u)
    <3> HIDE DEF u
    <3> QED BY <1>0, <2>3, <2>6, SizesAssumption DEF Fit, Stored
  <2> HIDE DEF u
  <2> QED BY <2>6, <2>7 DEF Ran, Unchanged, u
<1>7. CASE goes /\ s.op_type \notin {"READ", "HEAD", "UPDATE", "REPLACE", "ACTION"}
  <2>1. u = Failed(s)
    BY <1>7 DEF Execute
  <2> QED BY <1>0, <2>1, FailureRuns
<1> QED BY <1>1, <1>2, <1>3, <1>4, <1>5, <1>6, <1>7

\* t is s, ready to run.
Prepared(s, t) ==
  /\ t \in Device /\ t.ran = TRUE /\ t.op_result = <<>> /\ SameRequest(s, t)
  /\ t.body = s.body /\ t.etag = s.etag /\ t.op_data = s.op_data

LEMMA PreparedRuns ==
  ASSUME NEW s, NEW t, NEW u, Prepared(s, t), Ran(t, u)
  PROVE  Ran(s, u)
  BY DEF Prepared, Ran, SameRequest, Unchanged, Updated, Overwritten, Stored

Ready(s) == [s EXCEPT !.op_result = <<>>, !.ran = TRUE]

LEMMA ReadyIsPrepared ==
  ASSUME NEW s \in Device
  PROVE  Prepared(s, Ready(s))
<1>1. /\ Ready(s).ran = TRUE /\ Ready(s).op_result = <<>>
      /\ Ready(s).body = s.body /\ Ready(s).etag = s.etag /\ Ready(s).op_data = s.op_data
  BY DEF Ready, Device
<1>2. SameRequest(s, Ready(s))
  BY DEF Ready, Device, SameRequest
<1>3. Ready(s) \in Device
  <2>1. <<>> \in Seq(Units) /\ TRUE \in BOOLEAN
    OBVIOUS
  <2> QED BY <2>1 DEF Ready, Device
<1> QED BY <1>1, <1>2, <1>3 DEF Prepared

\* A dictionary replaces what the device held of dictionaries, and nothing else.
SameButNeeded(s, u) ==
  /\ u.status = s.status /\ u.op_type = s.op_type /\ u.op_flag = s.op_flag /\ u.skip = s.skip
  /\ u.top = s.top /\ u.recv_next = s.recv_next /\ u.send_next = s.send_next /\ u.buf = s.buf
  /\ u.buf_len = s.buf_len /\ u.op_data = s.op_data /\ u.op_result = s.op_result
  /\ u.prev = s.prev /\ u.body = s.body /\ u.etag = s.etag /\ u.ran = s.ran

LEMMA DictionaryFetched ==
  ASSUME NEW s \in Device, NEW id, NEW class
  PROVE  /\ pldm_redfish_get_dict_data(s, id, class) \in Device
         /\ SameButNeeded(s, pldm_redfish_get_dict_data(s, id, class))
         /\ InFlash(id, class) =>
              pldm_redfish_get_dict_data(s, id, class).needed =
                <<pldm_redfish_resource_id_to_base(id), class>>
  BY DEF pldm_redfish_get_dict_data, InFlash, Device, SameButNeeded

LEMMA OperationRuns ==
  ASSUME NEW s, Runnable(s), NEW d \in BOOLEAN
  PROVE  Ran(s, pldm_redfish_op(s, d))
<1> DEFINE id == s.prev.resource_id
           e == [s EXCEPT !.op_result = <<>>, !.ran = TRUE]
           g == pldm_redfish_get_dict_data(s, id, "MAJOR")
           t == [g EXCEPT !.op_result = <<>>, !.ran = TRUE]
<1>0. s \in Device
  BY DEF Runnable
<1>1. Prepared(s, e)
  BY <1>0, ReadyIsPrepared DEF Ready
<1>2. Prepared(s, t)
  <2>1. SameButNeeded(s, g)
    BY <1>0, DictionaryFetched
  <2>2. g \in Device
    BY <1>0, DictionaryFetched
  <2> HIDE DEF g
  <2>3. Prepared(g, t)
    BY <2>2, ReadyIsPrepared DEF Ready
  <2> QED BY <2>1, <2>3 DEF Prepared, SameButNeeded, SameRequest
<1> HIDE DEF e, t
<1>3. CASE ~HasEtag(id)
  <2>1. pldm_redfish_op(s, d) = Failed(e)
    BY <1>3 DEF pldm_redfish_op, e
  <2>2. Ran(e, Failed(e))
    BY <1>1, FailureRuns DEF Prepared
  <2> QED BY <1>1, <2>1, <2>2, PreparedRuns
<1>4. CASE HasEtag(id) /\ ~InFlash(id, "MAJOR")
  <2>1. pldm_redfish_op(s, d) = Failed(t)
    BY <1>4 DEF pldm_redfish_op, t
  <2>2. Ran(t, Failed(t))
    BY <1>2, FailureRuns DEF Prepared
  <2> QED BY <1>2, <2>1, <2>2, PreparedRuns
<1>5. CASE HasEtag(id) /\ InFlash(id, "MAJOR")
  <2>1. t.prev = s.prev /\ t.op_type = s.op_type /\ t.body = s.body /\ t \in Device
        /\ t.ran = TRUE /\ t.op_result = <<>>
    BY <1>2 DEF Prepared, SameRequest
  <2>2. pldm_redfish_op(s, d) = Execute(t, bej_idx(t.prev.resource_id), IsCollection(t.prev.resource_id), d)
    BY <1>5, <2>1 DEF pldm_redfish_op, IsCollection, t
  <2>3. Runnable(t)
    BY <2>1 DEF Runnable, CollectionsWhole
  <2>4. Ran(t, Execute(t, bej_idx(t.prev.resource_id), IsCollection(t.prev.resource_id), d))
    BY <1>5, <2>1, <2>3, ExecuteRuns
  <2> QED BY <1>2, <2>2, <2>4, PreparedRuns
<1> QED BY <1>3, <1>4, <1>5

\* What runs leaves the collections whole.
LEMMA RunsKeepCollections ==
  ASSUME NEW s, NEW u, Runnable(s), Ran(s, u)
  PROVE  CollectionsWhole(u)
<1> DEFINE id == s.prev.resource_id
<1>0. s \in Device /\ id \in ResourceIds /\ ResourceIds \subseteq Int
  BY SizesAssumption DEF Runnable
<1>1. CASE Unchanged(s, u)
  BY <1>1 DEF Unchanged, Runnable, CollectionsWhole
<1>2. CASE HasEtag(id) /\ (Updated(s, u) \/ Overwritten(s, u))
  <2>1. ~IsCollection(id)
    BY <1>2 DEF Runnable, Updated, Overwritten
  <2>2. \A c \in ResourceIds : HasEtag(c) /\ IsCollection(c) => bej_idx(c) # bej_idx(id)
    BY <1>0, <1>2, <2>1, PlaceRange
  <2>3. \A p \in Places : p # bej_idx(id) => u.body[p] = s.body[p]
    BY <1>0, <1>2 DEF Updated, Overwritten, Device
  <2> QED BY <2>2, <2>3, PlaceKnown DEF CollectionsWhole, Runnable
<1> QED BY <1>1, <1>2 DEF Ran

(***************************************************************************)
(* One exchange, taken apart: the device answers t, and the controller,     *)
(* having noted whether the operation ran, hears it or does not.            *)
(***************************************************************************)
Answered(req, t) ==
  \E d \in BOOLEAN :
  \E allowed \in IF req.cmd = "rde_operation_init"
                 THEN AllowedOps(resource_id_to_resource_identity(req.res)) ELSE {{}} :
    t = pldm_redfish_process(rde, req, allowed, d)

Noted(t) == [ctl EXCEPT !.read = NoRead, !.runs = IF t.ran THEN @ + 1 ELSE @,
                        !.result = IF t.ran THEN t.op_result ELSE @]
Reply(lost, r) == IF lost THEN [kind |-> "lost"] ELSE r

StatusRequest == [cmd |-> "rde_operation_status", res |-> ctl.op.res, op_id |-> ctl.op_id]
CompleteRequest == [cmd |-> "rde_operation_complete", res |-> ctl.op.res, op_id |-> ctl.op_id]
KillRequest(flg) ==
  [cmd |-> "rde_operation_kill", res |-> ctl.op.res, op_id |-> ctl.op_id, kill_flg |-> flg]
InitRequest(op, id) ==
  [cmd |-> "rde_operation_init", res |-> op.res, op_id |-> id, op_type |-> op.op_type,
   flags |-> op.flags, handle |-> 0, payload |-> IF Inline(op) THEN op.payload ELSE <<>>]
EtagRequest(op) == [cmd |-> "get_resource_etag", res |-> op.res]
TagKnown == ctl.etag # <<>> /\ ctl.etag[1] = ctl.op.res
SupplyRequest(page) ==
  [cmd |-> "supply_custom_request_parameters", res |-> ctl.op.res, op_id |-> ctl.op_id,
   etag_op |-> IF TagKnown THEN "IF_MATCH" ELSE "IGNORE",
   etags |-> IF TagKnown THEN <<ctl.etag[2]>> ELSE <<>>, skip |-> page.skip, top |-> page.top]
Remain == Len(ctl.op.payload) - ctl.sent
LastPart == Remain + CrcLen <= SendMax
PartLen == IF LastPart \/ Remain < SendMax THEN Remain ELSE SendMax
SendRequest(leftover) ==
  [cmd |-> "rde_multipart_send", op_id |-> ctl.op_id, handle |-> ctl.sent,
   next |-> IF LastPart THEN leftover ELSE ctl.sent + PartLen, last |-> LastPart,
   data |-> SubSeq(ctl.op.payload, ctl.sent + 1, ctl.sent + PartLen), crc |-> ctl.op.payload]

LEMMA PollOpens ==
  ASSUME Poll
  PROVE  /\ ctl.phase = "polling"
         /\ \E lost \in BOOLEAN : \E t : /\ Answered(StatusRequest, t) /\ rde' = Heard(t)
                                         /\ ctl' = AfterStatus(Noted(t), Reply(lost, t.rsp))
  BY DEF Poll, Exchange, Answered, Noted, Reply, Heard, StatusRequest

LEMMA CompleteOpens ==
  ASSUME Complete
  PROVE  /\ ctl.phase = "closing"
         /\ \E lost \in BOOLEAN : \E t : /\ Answered(CompleteRequest, t) /\ rde' = Heard(t)
                                         /\ ctl' = AfterComplete(Noted(t), Reply(lost, t.rsp))
  BY DEF Complete, Exchange, Answered, Noted, Reply, Heard, CompleteRequest

LEMMA KillOpens ==
  ASSUME Kill
  PROVE  /\ ctl.phase = "closing"
         /\ \E flg \in 1 .. 3, lost \in BOOLEAN : \E t :
              /\ Answered(KillRequest(flg), t) /\ rde' = Heard(t)
              /\ ctl' = AfterKill(Noted(t), Reply(lost, t.rsp))
<1>1. PICK flg \in 1 .. 3 : ctl.phase = "closing" /\ Exchange(KillRequest(flg), AfterKill)
  BY DEF Kill, KillRequest
<1>2. \E lost \in BOOLEAN : \E t :
              /\ Answered(KillRequest(flg), t) /\ rde' = Heard(t)
              /\ ctl' = AfterKill(Noted(t), Reply(lost, t.rsp))
  BY <1>1 DEF Exchange, Answered, Noted, Reply, Heard
<1> QED BY <1>1, <1>2

LEMMA StartOpens ==
  ASSUME StartOperation
  PROVE  /\ ctl.phase = "idle"
         /\ \E op \in Operations, id \in OpIds, lost \in BOOLEAN : \E t :
              /\ Answered(InitRequest(op, id), t) /\ rde' = Heard(t)
              /\ ctl' = AfterInit(Noted(t), Reply(lost, t.rsp), op, id)
<1>1. PICK op \in Operations, id \in OpIds :
        LET React(c, rsp) == AfterInit(c, rsp, op, id) IN
          ctl.phase = "idle" /\ Exchange(InitRequest(op, id), React)
  BY DEF StartOperation, InitRequest
<1>2. \E lost \in BOOLEAN : \E t :
        /\ Answered(InitRequest(op, id), t) /\ rde' = Heard(t)
        /\ ctl' = AfterInit(Noted(t), Reply(lost, t.rsp), op, id)
  BY <1>1 DEF Exchange, Answered, Noted, Reply, Heard
<1> QED BY <1>1, <1>2

LEMMA SupplyOpens ==
  ASSUME SupplyCustom
  PROVE  /\ ctl.phase = "custom"
         /\ \E page \in Pages, lost \in BOOLEAN : \E t :
              /\ Answered(SupplyRequest(page), t) /\ rde' = Heard(t)
              /\ ctl' = AfterSupply(Noted(t), Reply(lost, t.rsp))
<1>1. PICK page \in Pages :
        ctl.phase = "custom" /\ Exchange(SupplyRequest(page), AfterSupply)
  BY DEF SupplyCustom, SupplyRequest, TagKnown
<1>2. \E lost \in BOOLEAN : \E t :
        /\ Answered(SupplyRequest(page), t) /\ rde' = Heard(t)
        /\ ctl' = AfterSupply(Noted(t), Reply(lost, t.rsp))
  BY <1>1 DEF Exchange, Answered, Noted, Reply, Heard
<1> QED BY <1>1, <1>2

LEMMA SendOpens ==
  ASSUME SendPart
  PROVE  /\ ctl.phase = "sending"
         /\ \E leftover \in {0, ctl.sent}, again \in BOOLEAN, lost \in BOOLEAN : \E t :
              /\ Answered(SendRequest(leftover), t) /\ rde' = Heard(t)
              /\ ctl' = AfterPart(Noted(t), Reply(lost, t.rsp), LastPart, PartLen, again)
<1>1. PICK leftover \in {0, ctl.sent}, again \in BOOLEAN :
        LET React(c, rsp) == AfterPart(c, rsp, LastPart, PartLen, again) IN
          ctl.phase = "sending" /\ Exchange(SendRequest(leftover), React)
  BY DEF SendPart, SendRequest, Remain, LastPart, PartLen
<1>2. \E lost \in BOOLEAN : \E t :
        /\ Answered(SendRequest(leftover), t) /\ rde' = Heard(t)
        /\ ctl' = AfterPart(Noted(t), Reply(lost, t.rsp), LastPart, PartLen, again)
  BY <1>1 DEF Exchange, Answered, Noted, Reply, Heard
<1> QED BY <1>1, <1>2

LEMMA GetEtagOpens ==
  ASSUME GetEtag
  PROVE  /\ ctl.phase = "idle"
         /\ \E op \in Operations, lost \in BOOLEAN : \E t :
              /\ Answered(EtagRequest(op), t) /\ rde' = Heard(t)
              /\ ctl' = AfterEtag(Noted(t), Reply(lost, t.rsp), op.res)
<1>1. PICK op \in Operations :
        LET React(c, rsp) == AfterEtag(c, rsp, op.res) IN
          ctl.phase = "idle" /\ Exchange(EtagRequest(op), React)
  BY DEF GetEtag, EtagRequest
<1>2. \E lost \in BOOLEAN : \E t :
        /\ Answered(EtagRequest(op), t) /\ rde' = Heard(t)
        /\ ctl' = AfterEtag(Noted(t), Reply(lost, t.rsp), op.res)
  BY <1>1 DEF Exchange, Answered, Noted, Reply, Heard
<1> QED BY <1>1, <1>2

LEMMA AskDictionaryOpens ==
  ASSUME AskDictionary
  PROVE  /\ ctl.phase = "idle"
         /\ \E dict \in Dictionaries, lost \in BOOLEAN : \E t :
              /\ Answered(AskFor(dict), t) /\ rde' = Heard(t)
              /\ ctl' = AfterAsking(Noted(t), Reply(lost, t.rsp), dict)
<1>1. PICK dict \in Dictionaries :
        LET React(c, rsp) == AfterAsking(c, rsp, dict) IN
          ctl.phase = "idle" /\ Exchange(AskFor(dict), React)
  BY DEF AskDictionary
<1>2. \E lost \in BOOLEAN : \E t :
        /\ Answered(AskFor(dict), t) /\ rde' = Heard(t)
        /\ ctl' = AfterAsking(Noted(t), Reply(lost, t.rsp), dict)
  BY <1>1 DEF Exchange, Answered, Noted, Reply, Heard
<1> QED BY <1>1, <1>2

LEMMA ReadDictionaryOpens ==
  ASSUME ReadDictionary
  PROVE  /\ ctl.phase = "dictionary"
         /\ \E lost \in BOOLEAN : \E t :
              /\ Answered(PartRequest(0), t) /\ rde' = Heard(t)
              /\ ctl' = TakePart(Noted(t), Reply(lost, t.rsp), "dictionary", "idle")
  BY DEF ReadDictionary, Exchange, Answered, Noted, Reply, Heard

LEMMA ReadResultOpens ==
  ASSUME ReadResult
  PROVE  /\ ctl.phase = "receiving"
         /\ \E lost \in BOOLEAN : \E t :
              /\ Answered(PartRequest(ctl.op_id), t) /\ rde' = Heard(t)
              /\ ctl' = TakePart(Noted(t), Reply(lost, t.rsp), "result", "closing")
  BY DEF ReadResult, Exchange, Answered, Noted, Reply, Heard

Asks ==
  {[cmd |-> "rde_operation_enumerate"], [cmd |-> "get_registry_count"],
   [cmd |-> "get_registry_details", idx |-> 0], [cmd |-> "get_oem_name"],
   [cmd |-> "negotiate_redfish_parameters", concurrency |-> 1, bejRegistryItem |-> TRUE],
   [cmd |-> "retrieve_custom_response_parameters"]}
  \cup [cmd : {"negotiate_medium_parameters"}, chunk : Chunks]
  \cup [cmd : {"get_oem_count"}, res : ResourceIds]
  \cup [cmd : {"get_schema_uri"}, res : {1}, class : {"MAJOR", "OTHER"}, oem : {0}]

LEMMA AskOpens ==
  ASSUME Ask
  PROVE  /\ ctl.phase = "idle"
         /\ \E req \in Asks : \E t : Answered(req, t) /\ rde' = Heard(t) /\ ctl' = Noted(t)
<1>1. PICK req \in Asks :
        LET React(c, rsp) == c IN
          ctl.phase = "idle" /\ Exchange(req, React)
  BY DEF Ask, Asks
<1>2. \E t : Answered(req, t) /\ rde' = Heard(t) /\ ctl' = Noted(t)
  BY <1>1 DEF Exchange, Answered, Noted, Heard
<1> QED BY <1>1, <1>2

LEMMA HeardAnswer ==
  ASSUME NEW x \in Device, NEW r, NEW t, t = Answer(x, r)
  PROVE  Heard(t) = x /\ t.rsp = r /\ Noted(t) = Noted(x)
<1>1. /\ Heard(t) = x /\ t.rsp = r /\ t.ran = x.ran /\ t.op_result = x.op_result
  BY AnswerFacts
<1> QED BY <1>1 DEF Noted

\* What the controller has noted of an answer.
SameController(c) ==
  /\ c.phase = ctl.phase /\ c.op = ctl.op /\ c.op_id = ctl.op_id /\ c.etag = ctl.etag
  /\ c.sent = ctl.sent /\ c.handle = ctl.handle /\ c.dict = ctl.dict /\ c.got = ctl.got
  /\ c.stale = ctl.stale /\ c.mixed = ctl.mixed /\ c.repeated = ctl.repeated

LEMMA NotedFacts ==
  ASSUME TypeInv, NEW x \in Device
  PROVE  /\ Noted(x) \in Controller /\ SameController(Noted(x)) /\ Noted(x).read = NoRead
         /\ x.ran = FALSE => Noted(x).runs = ctl.runs /\ Noted(x).result = ctl.result
         /\ x.ran = TRUE => Noted(x).runs = ctl.runs + 1 /\ Noted(x).result = x.op_result
<1>1. x.ran \in BOOLEAN /\ x.op_result \in Seq(Units) /\ NoRead \in Reads
  BY DEF Device, Reads
<1>2. /\ SameController(Noted(x)) /\ Noted(x).read = NoRead
      /\ Noted(x).runs = IF x.ran THEN ctl.runs + 1 ELSE ctl.runs
      /\ Noted(x).result = IF x.ran THEN x.op_result ELSE ctl.result
  BY DEF Noted, SameController, TypeInv, Controller
<1>3. Noted(x) \in Controller
  <2> DEFINE n == IF x.ran THEN ctl.runs + 1 ELSE ctl.runs
             q == IF x.ran THEN x.op_result ELSE ctl.result
  <2>1. n \in Nat /\ q \in Seq(Units)
    BY <1>1 DEF TypeInv, Controller
  <2>2. Noted(x) = [ctl EXCEPT !.read = NoRead, !.runs = n, !.result = q]
    BY DEF Noted
  <2> HIDE DEF n, q
  <2> QED BY <1>1, <2>1, <2>2 DEF TypeInv, Controller
<1> QED BY <1>1, <1>2, <1>3

\* What a transfer and a poll leave of an operation.
SameOperation(s, u) ==
  /\ u.op_type = s.op_type /\ u.op_flag = s.op_flag /\ u.skip = s.skip /\ u.top = s.top
  /\ u.send_next = s.send_next /\ u.op_data = s.op_data /\ u.op_result = s.op_result
  /\ u.prev = s.prev /\ u.body = s.body /\ u.etag = s.etag /\ u.ran = FALSE
SameTransfer(s, u) ==
  u.recv_next = s.recv_next /\ u.buf = s.buf /\ u.buf_len = s.buf_len /\ u.needed = s.needed
Same(s, u) == SameOperation(s, u) /\ SameTransfer(s, u) /\ u.status = s.status

LEMMA QuietSame == ASSUME TypeInv PROVE Quiet(rde) \in Device /\ Same(rde, Quiet(rde))
  BY DEF TypeInv, Quiet, Device, Same, SameOperation, SameTransfer

\* A request that is refused leaves the device as it was.
Refused(x, r) == Same(rde, x) /\ r.kind = "error"

LEMMA RefuseAnswers ==
  ASSUME TypeInv, NEW code
  PROVE  \E x \in Device : \E r : Refuse(Quiet(rde), code) = Answer(x, r) /\ Refused(x, r)
<1> DEFINE r == [kind |-> "error", code |-> code, status |-> Quiet(rde).status]
<1>1. Refuse(Quiet(rde), code) = Answer(Quiet(rde), r) /\ r.kind = "error"
  BY DEF Refuse
<1> HIDE DEF r
<1> QED BY <1>1, QuietSame DEF Refused

StatusEffect(x, r) ==
  /\ SameOperation(rde, x) /\ SameTransfer(rde, x)
  /\ r.kind = "status" /\ r.status = rde.status /\ r.handle = 0
  /\ \/ x.status = rde.status /\ r.payload = <<>>
     \/ rde.status = "HAVE_RESULTS" /\ x.status = "COMPLETED" /\ r.payload = rde.op_result

LEMMA StatusAnswers ==
  ASSUME TypeInv, NEW t, Answered(StatusRequest, t)
  PROVE  \E x \in Device : \E r : t = Answer(x, r) /\ (Refused(x, r) \/ StatusEffect(x, r))
<1> DEFINE s == Quiet(rde)
           req == StatusRequest
           fits == s.status = "HAVE_RESULTS" /\ Len(s.op_result) <= s.chunk
           x == [s EXCEPT !.status = IF fits THEN "COMPLETED" ELSE @]
           r == [kind |-> "status", code |-> "SUCCESS", status |-> s.status,
                 payload |-> IF fits THEN s.op_result ELSE <<>>, handle |-> FirstHandle]
<1>0. s \in Device /\ Same(rde, s)
  BY QuietSame
<1>1. t = pldm_redfish_rde_operation_status(s, req)
  BY DEF Answered, StatusRequest, pldm_redfish_process, Quiet
<1> HIDE DEF s
<1>2. CASE \E code : t = Refuse(s, code)
  BY <1>2, RefuseAnswers DEF s
<1>3. CASE t = Answer(x, r)
  <2>1. x \in Device
    BY <1>0 DEF Device, Statuses
  <2>2. /\ SameOperation(rde, x) /\ SameTransfer(rde, x)
        /\ x.status = IF fits THEN "COMPLETED" ELSE rde.status
    BY <1>0 DEF Device, Same, SameOperation, SameTransfer
  <2>3. /\ r.kind = "status" /\ r.status = rde.status /\ r.handle = 0
        /\ r.payload = IF fits THEN rde.op_result ELSE <<>>
    BY <1>0 DEF FirstHandle, Same, SameOperation
  <2>4. fits => rde.status = "HAVE_RESULTS"
    BY <1>0 DEF Same
  <2> HIDE DEF x, r, fits
  <2> QED BY <1>3, <2>1, <2>2, <2>3, <2>4 DEF StatusEffect
<1> QED BY <1>1, <1>2, <1>3 DEF pldm_redfish_rde_operation_status

\* The operation is over, and nothing is left of it.
ClearedDevice(x) ==
  /\ x.status = "INACTIVE" /\ x.op_flag = {} /\ x.skip = 0 /\ x.top = All /\ x.recv_next = 0
  /\ x.send_next = 0 /\ x.buf = "none" /\ x.op_data = <<>> /\ x.op_result = <<>>
  /\ x.prev = rde.prev /\ x.body = rde.body /\ x.etag = rde.etag /\ x.ran = FALSE

LEMMA ClearingClears ==
  ASSUME TypeInv
  PROVE  /\ pldm_redfish_clear_op_param(Quiet(rde)) \in Device
         /\ ClearedDevice(pldm_redfish_clear_op_param(Quiet(rde)))
<1> DEFINE s == Quiet(rde)
           x == pldm_redfish_clear_op_param(s)
           i == pldm_redfish_init
<1>1. s \in Device /\ Same(rde, s)
  BY QuietSame
<1>2. i \in Device
  BY InitIsDevice
<1> HIDE DEF s
<1>3. x = [status |-> i.status, op_type |-> i.op_type, op_flag |-> i.op_flag, skip |-> i.skip,
           top |-> i.top, recv_next |-> i.recv_next, send_first |-> i.send_first,
           send_next |-> i.send_next, buf |-> i.buf, buf_len |-> i.buf_len, op_data |-> i.op_data,
           op_result |-> i.op_result, needed |-> s.needed, chunk |-> s.chunk, prev |-> s.prev,
           body |-> s.body, etag |-> s.etag, ran |-> s.ran, rsp |-> s.rsp]
  BY <1>1 DEF pldm_redfish_clear_op_param, Device, OpFields
<1>4. x \in Device
  <2> HIDE DEF x, i
  <2> QED BY <1>1, <1>2, <1>3 DEF Device
<1>5. /\ i.status = "INACTIVE" /\ i.op_flag = {} /\ i.skip = 0 /\ i.top = All /\ i.recv_next = 0
      /\ i.send_next = 0 /\ i.buf = "none" /\ i.op_data = <<>> /\ i.op_result = <<>>
  BY DEF pldm_redfish_init
<1>6. ClearedDevice(x)
  <2> HIDE DEF x, i
  <2> QED BY <1>1, <1>3, <1>5 DEF ClearedDevice, Same, SameOperation
<1> QED BY <1>4, <1>6 DEF s

\* A request that ends the operation: nothing of it is left, or it was refused.
EndEffect(x, r) == ClearedDevice(x) /\ r.kind = "ok"

LEMMA OkAnswers ==
  ASSUME NEW x
  PROVE  \E r : Ok(x) = Answer(x, r) /\ r.kind = "ok"
<1> DEFINE r == [kind |-> "ok", code |-> "SUCCESS"]
<1>1. Ok(x) = Answer(x, r) /\ r.kind = "ok"
  BY DEF Ok
<1> QED BY <1>1

\* Complete is refused only when the device does not hold the operation.
LEMMA CompleteAnswers ==
  ASSUME TypeInv, NEW t, Answered(CompleteRequest, t)
  PROVE  \E x \in Device : \E r :
           /\ t = Answer(x, r)
           /\ \/ EndEffect(x, r)
              \/ /\ Refused(x, r)
                 /\ \/ resource_id_to_resource_identity(ctl.op.res) = NoResource
                    \/ rde.prev # [resource_id |-> ctl.op.res, op_id |-> ctl.op_id]
<1> DEFINE s == Quiet(rde)
           req == CompleteRequest
<1>0. s \in Device /\ Same(rde, s)
  BY QuietSame
<1>1. t = pldm_redfish_rde_operation_complete(s, req)
  BY DEF Answered, CompleteRequest, pldm_redfish_process, Quiet
<1>2. req.res = ctl.op.res /\ req.op_id = ctl.op_id
  BY DEF CompleteRequest
<1> HIDE DEF s, req
<1>3. CASE ~Known(req) \/ ~Current(s, req)
  <2>1. \E code : t = Refuse(s, code)
    BY <1>1, <1>3 DEF pldm_redfish_rde_operation_complete
  <2>2. \/ resource_id_to_resource_identity(ctl.op.res) = NoResource
        \/ rde.prev # [resource_id |-> ctl.op.res, op_id |-> ctl.op_id]
    BY <1>0, <1>2, <1>3 DEF Known, Current, Same, SameOperation
  <2> QED BY <2>1, <2>2, RefuseAnswers DEF s
<1>4. CASE ~(~Known(req) \/ ~Current(s, req))
  <2>1. t = Ok(pldm_redfish_clear_op_param(s))
    BY <1>1, <1>4 DEF pldm_redfish_rde_operation_complete
  <2> QED BY <2>1, OkAnswers, ClearingClears DEF EndEffect, s
<1> QED BY <1>3, <1>4

LEMMA KillAnswers ==
  ASSUME TypeInv, NEW flg, NEW t, Answered(KillRequest(flg), t)
  PROVE  \E x \in Device : \E r : t = Answer(x, r) /\ (Refused(x, r) \/ EndEffect(x, r))
<1> DEFINE s == Quiet(rde)
           req == KillRequest(flg)
<1>1. t = pldm_redfish_rde_operation_kill(s, req)
  BY DEF Answered, KillRequest, pldm_redfish_process, Quiet
<1> HIDE DEF s, req
<1>2. (\E code : t = Refuse(s, code)) \/ t = Ok(pldm_redfish_clear_op_param(s))
  BY <1>1 DEF pldm_redfish_rde_operation_kill
<1> QED BY <1>2, RefuseAnswers, OkAnswers, ClearingClears DEF EndEffect, s

\* The tag of a resource, or a refusal.
EtagEffect(op, x, r) ==
  Same(rde, x) /\ r.kind = "etag" /\ r.etag = rde.etag[bej_idx(op.res)] /\ r.etag \in Seq(Units)

LEMMA EtagAnswers ==
  ASSUME TypeInv, NEW op \in Operations, NEW t, Answered(EtagRequest(op), t)
  PROVE  \E x \in Device : \E r : t = Answer(x, r) /\ (Refused(x, r) \/ EtagEffect(op, x, r))
<1> DEFINE s == Quiet(rde)
           req == EtagRequest(op)
           r == [kind |-> "etag", code |-> "SUCCESS", etag |-> s.etag[bej_idx(op.res)]]
<1>0. s \in Device /\ Same(rde, s) /\ op.res \in ResourceIds
  BY QuietSame, OperationsAssumption
<1>1. t = pldm_redfish_get_resource_etag(s, req)
  BY DEF Answered, EtagRequest, pldm_redfish_process, Quiet
<1>2. req.res = op.res
  BY DEF EtagRequest
<1> HIDE DEF s, req
<1>3. CASE ~HasEtag(op.res)
  <2>1. \E code : t = Refuse(s, code)
    BY <1>1, <1>2, <1>3 DEF pldm_redfish_get_resource_etag
  <2> QED BY <2>1, RefuseAnswers DEF s
<1>4. CASE HasEtag(op.res)
  <2>1. t = Answer(s, r)
    BY <1>1, <1>2, <1>4 DEF pldm_redfish_get_resource_etag
  <2>2. r.kind = "etag" /\ r.etag = rde.etag[bej_idx(op.res)]
    BY <1>0 DEF Same, SameOperation
  <2>3. r.etag \in Seq(Units)
    BY <1>0, <1>4, <2>2, PlaceKnown DEF TypeInv, Device
  <2> HIDE DEF r
  <2> QED BY <1>0, <2>1, <2>2, <2>3 DEF EtagEffect
<1> QED BY <1>3, <1>4

\* Commands that only report leave the operation, and its transfers, alone.
LEMMA AskAnswers ==
  ASSUME TypeInv, NEW req \in Asks, NEW t, Answered(req, t)
  PROVE  \E x \in Device : \E r : t = Answer(x, r) /\ Same(rde, x)
<1> DEFINE s == Quiet(rde)
<1>0. s \in Device /\ Same(rde, s)
  BY QuietSame
<1>1. (\E r : t = Answer(s, r)) => \E x \in Device : \E r : t = Answer(x, r) /\ Same(rde, x)
  BY <1>0
<1>2. \A code : \E r : Refuse(s, code) = Answer(s, r)
  BY DEF Refuse
<1>3. \E r : Ok(s) = Answer(s, r)
  BY DEF Ok
<1>4. PICK d, allowed : d \in BOOLEAN /\ t = pldm_redfish_process(rde, req, allowed, d)
  BY DEF Answered
<1>d. d \in BOOLEAN
  BY <1>4
<1> USE <1>d
<1>5. CASE req.cmd = "rde_operation_enumerate"
  <2>1. t = pldm_redfish_rde_operation_enumerate(s, req)
    BY <1>4, <1>5 DEF pldm_redfish_process, Quiet
  <2> HIDE DEF s
  <2>2. \E r : t = Answer(s, r)
    BY <2>1 DEF pldm_redfish_rde_operation_enumerate
  <2> QED BY <1>1, <2>2
<1>6. CASE req.cmd = "negotiate_medium_parameters"
  <2>1. t = pldm_redfish_negotiate_medium_parameters(s, req)
    BY <1>4, <1>6 DEF pldm_redfish_process, Quiet
  <2>2. req.chunk \in Nat
    <3>1. req \in [cmd : {"negotiate_medium_parameters"}, chunk : Chunks]
      <4>1. req \notin [cmd : {"get_oem_count"}, res : ResourceIds]
        BY <1>6
      <4>2. req \notin [cmd : {"get_schema_uri"}, res : {1}, class : {"MAJOR", "OTHER"}, oem : {0}]
        BY <1>6
      <4> QED BY <1>6, <4>1, <4>2 DEF Asks
    <3>2. req.chunk \in Chunks
      BY <3>1
    <3> QED BY <3>2, InputsAssumption
  <2> DEFINE n == IF req.chunk < s.chunk THEN req.chunk ELSE s.chunk
             x == [s EXCEPT !.chunk = n]
  <2> HIDE DEF s
  <2>3. CASE req.chunk < MinChunk
    BY <1>1, <1>2, <2>1, <2>3 DEF pldm_redfish_negotiate_medium_parameters
  <2>4. CASE ~(req.chunk < MinChunk)
    <3>1. t = Ok(x)
      BY <1>0, <2>1, <2>4 DEF pldm_redfish_negotiate_medium_parameters, Device
    <3>2. s.chunk \in MinChunk .. DevChunk
      BY <1>0 DEF Device
    <3>3. n \in MinChunk .. DevChunk
      BY <2>2, <2>4, <3>2, SizesAssumption
    <3> HIDE DEF n
    <3>4. x \in Device
      BY <1>0, <3>3 DEF Device
    <3>5. Same(rde, x)
      BY <1>0 DEF Device, Same, SameOperation, SameTransfer
    <3> QED BY <3>1, <3>4, <3>5, OkAnswers
  <2> QED BY <2>3, <2>4
<1>7. CASE req.cmd \notin {"rde_operation_enumerate", "negotiate_medium_parameters"}
  <2>1. (\E code : t = Refuse(s, code)) \/ t = Ok(s)
    <3>1. req.cmd \in {"get_registry_count", "get_registry_details", "get_oem_name",
                       "negotiate_redfish_parameters", "retrieve_custom_response_parameters",
                       "get_oem_count", "get_schema_uri"}
      BY <1>7 DEF Asks
    <3>2. pldm_redfish_process(rde, req, allowed, d) \in
            {Ok(s), Refuse(s, "INVALID_DATA"), Refuse(s, "UNSUPPORTED"),
             pldm_redfish_negotiate_redfish_parameters(s, req), pldm_redfish_get_schema_uri(s, req),
             pldm_redfish_get_oem_count(s, req), pldm_redfish_get_registry_details(s, req)}
      BY <3>1 DEF pldm_redfish_process, Quiet
    <3> HIDE DEF s
    <3> QED BY <1>4, <3>2 DEF pldm_redfish_negotiate_redfish_parameters, pldm_redfish_get_schema_uri,
                 pldm_redfish_get_oem_count, pldm_redfish_get_registry_details
  <2> QED BY <1>1, <1>2, <1>3, <2>1
<1> QED BY <1>5, <1>6, <1>7

\* The dictionary that is asked for is where the next parts are read from, but for the
\* registry.
DictionaryEffect(dict, x, r) ==
  /\ SameOperation(rde, x) /\ x.status = rde.status /\ x.recv_next = rde.recv_next
  /\ r.kind = "handle" /\ r.handle = 0
  /\ x.buf \in {rde.buf, "needed"}
  /\ dict[2] # "REGISTRY" => x.buf = "needed" /\ x.needed = dict /\ x.buf_len = Flash[dict]

LEMMA LengthKnown ==
  ASSUME NEW id, NEW class
  PROVE  LoadedLen(id, class) \in Nat
  BY SizesAssumption DEF LoadedLen, pldm_redfish_get_dict_len

LEMMA DictionaryAnswers ==
  ASSUME TypeInv, NEW dict \in Dictionaries, NEW t, Answered(AskFor(dict), t)
  PROVE  \E x \in Device : \E r : t = Answer(x, r) /\ (Refused(x, r) \/ DictionaryEffect(dict, x, r))
<1> DEFINE s == Quiet(rde)
           req == AskFor(dict)
           r == [kind |-> "handle", code |-> "SUCCESS", handle |-> FirstHandle]
<1>0. s \in Device /\ Same(rde, s)
  BY QuietSame
<1>1. dict = <<dict[1], dict[2]>> /\ dict \in DOMAIN Flash
  BY DictionariesAssumption, SizesAssumption
<1>2. r.kind = "handle" /\ r.handle = 0
  BY DEF FirstHandle
<1>3. CASE dict[2] = "REGISTRY"
  <2> DEFINE g == pldm_redfish_get_dict_data(s, AllSchema, "REGISTRY")
             n == LoadedLen(AllSchema, "REGISTRY")
             x == [g EXCEPT !.buf_len = n]
  <2>1. t = Answer(x, r)
    BY <1>3 DEF Answered, AskFor, pldm_redfish_process, Quiet, pldm_redfish_get_msg_registry
  <2>2. g \in Device /\ SameButNeeded(s, g) /\ n \in Nat
    BY <1>0, DictionaryFetched, LengthKnown
  <2> HIDE DEF s, g, n, r
  <2>3. x \in Device
    BY <2>2 DEF Device
  <2>4. /\ x.op_type = g.op_type /\ x.op_flag = g.op_flag /\ x.skip = g.skip /\ x.top = g.top
        /\ x.send_next = g.send_next /\ x.op_data = g.op_data /\ x.op_result = g.op_result
        /\ x.prev = g.prev /\ x.body = g.body /\ x.etag = g.etag /\ x.ran = g.ran
        /\ x.status = g.status /\ x.recv_next = g.recv_next /\ x.buf = g.buf
    BY <2>2 DEF Device
  <2> HIDE DEF x
  <2>5. DictionaryEffect(dict, x, r)
    BY <1>0, <1>2, <1>3, <2>2, <2>4 DEF DictionaryEffect, SameOperation, Same, SameButNeeded, SameTransfer
  <2> QED BY <2>1, <2>3, <2>5
<1>4. CASE dict[2] # "REGISTRY"
  <2> DEFINE g == pldm_redfish_get_dict_data(s, dict[1], dict[2])
             n == LoadedLen(dict[1], dict[2])
             x == [g EXCEPT !.buf = "needed", !.buf_len = n]
             code == schema_transfer_handle_get(dict[1], dict[2])
  <2>1. t = IF code # "SUCCESS" THEN Refuse(s, code) ELSE Answer(x, r)
    BY <1>4 DEF Answered, AskFor, pldm_redfish_process, Quiet, pldm_redfish_get_schema_dictionary
  <2>2. g \in Device /\ SameButNeeded(s, g) /\ n \in Nat
    BY <1>0, DictionaryFetched, LengthKnown
  <2>3. pldm_redfish_resource_id_to_base(dict[1]) = dict[1] /\ (dict[1] # AllSchema => dict[2] = "MAJOR")
    BY <1>4, DictionariesAssumption
  <2>a. InFlash(dict[1], dict[2])
    BY <1>1, <2>3 DEF InFlash
  <2>4. g.needed = dict
    BY <1>0, <1>1, <2>3, <2>a, DictionaryFetched
  <2>5. n = Flash[dict]
    BY <1>1, <2>3, <2>a DEF LoadedLen, pldm_redfish_get_dict_len
  <2> HIDE DEF g, n, r
  <2>6. x \in Device
    BY <2>2 DEF Device
  <2>7. /\ x.op_type = g.op_type /\ x.op_flag = g.op_flag /\ x.skip = g.skip /\ x.top = g.top
        /\ x.send_next = g.send_next /\ x.op_data = g.op_data /\ x.op_result = g.op_result
        /\ x.prev = g.prev /\ x.body = g.body /\ x.etag = g.etag /\ x.ran = g.ran
        /\ x.status = g.status /\ x.recv_next = g.recv_next /\ x.buf = "needed"
        /\ x.needed = g.needed /\ x.buf_len = n
    BY <2>2 DEF Device
  <2> HIDE DEF s, x, code
  <2>8. DictionaryEffect(dict, x, r)
    BY <1>0, <1>2, <2>2, <2>4, <2>5, <2>7
       DEF DictionaryEffect, SameOperation, Same, SameButNeeded, SameTransfer
  <2> QED BY <2>1, <2>6, <2>8, RefuseAnswers DEF s
<1> QED BY <1>3, <1>4

(***************************************************************************)
(* Parts.                                                                  *)
(***************************************************************************)
LEMMA ByteIsOctet ==
  ASSUME NEW s \in Device, NEW i \in Nat \ {0}
  PROVE  ByteAt(s, i) \in Octets
<1>1. CASE s.buf = "needed" /\ s.needed # <<>> /\ i <= Flash[s.needed]
  <2>1. ByteAt(s, i) = <<"dict", s.needed, i>>
    BY <1>1 DEF ByteAt
  <2>2. s.needed \in DOMAIN Flash
    BY <1>1 DEF Device
  <2> QED BY <2>1, <2>2 DEF Octets
<1>2. CASE s.buf = "result" /\ i <= Len(s.op_result)
  <2>1. ByteAt(s, i) = s.op_result[i]
    BY <1>2 DEF ByteAt
  <2>2. s.op_result[i] \in Units
    BY <1>2 DEF Device
  <2> QED BY <2>1, <2>2 DEF Octets
<1>3. CASE /\ ~(s.buf = "needed" /\ s.needed # <<>> /\ i <= Flash[s.needed])
           /\ ~(s.buf = "result" /\ i <= Len(s.op_result))
  <2>1. ByteAt(s, i) = <<"undefined", i>>
    BY <1>3 DEF ByteAt
  <2> QED BY <2>1 DEF Octets
<1> QED BY <1>1, <1>2, <1>3

LEMMA BytesAreOctets ==
  ASSUME NEW s \in Device, NEW from \in Nat, NEW len \in Nat
  PROVE  Bytes(s, from, len) \in Seq(Octets) /\ Len(Bytes(s, from, len)) = len
<1>1. \A i \in 1 .. len : ByteAt(s, from + i) \in Octets
  BY ByteIsOctet
<1> QED BY <1>1 DEF Bytes

\* The bytes of a result, and of a dictionary, are those.
Holds(s, w) ==
  \/ s.buf = "result" /\ w = s.op_result
  \/ s.buf = "needed" /\ s.needed \in DOMAIN Flash /\ w = Dictionary(s.needed)

LEMMA BytesHeld ==
  ASSUME NEW s \in Device, NEW w \in Seq(Octets), Holds(s, w), NEW from \in Nat, NEW len \in Nat,
         from + len <= Len(w)
  PROVE  Bytes(s, from, len) = SubSeq(w, from + 1, from + len)
<1>1. \A i \in 1 .. len : ByteAt(s, from + i) = w[from + i]
  <2>1. SUFFICES ASSUME NEW i \in 1 .. len PROVE ByteAt(s, from + i) = w[from + i]
    OBVIOUS
  <2>2. CASE s.buf = "result" /\ w = s.op_result
    BY <2>2 DEF ByteAt
  <2>3. CASE s.buf = "needed" /\ s.needed \in DOMAIN Flash /\ w = Dictionary(s.needed)
    <3>0. s.needed \in Int \X STRING
      BY <2>3, SizesAssumption
    <3>a. Flash[s.needed] \in Nat
      BY <2>3, SizesAssumption
    <3>b. s.needed # <<>>
      <4>1. s.needed = <<s.needed[1], s.needed[2]>>
        BY <3>0
      <4>2. \A a, b : <<a, b>> # <<>>
        OBVIOUS
      <4> QED BY <4>1, <4>2
    <3>1. Flash[s.needed] \in Nat /\ s.needed # <<>>
      BY <3>a, <3>b
    <3>2. Len(w) = Flash[s.needed] /\ from + i \in 1 .. Flash[s.needed]
      BY <2>3, <3>1 DEF Dictionary
    <3>3. w[from + i] = <<"dict", s.needed, from + i>>
      BY <2>3, <3>2 DEF Dictionary
    <3> QED BY <2>3, <3>1, <3>2, <3>3 DEF ByteAt
  <2> QED BY <2>2, <2>3 DEF Holds
<1>2. /\ SubSeq(w, from + 1, from + len) \in Seq(Octets)
      /\ Len(SubSeq(w, from + 1, from + len)) =
           IF from + 1 <= from + len THEN (from + len) - (from + 1) + 1 ELSE 0
      /\ \A i \in 1 .. (from + len) - (from + 1) + 1 :
           SubSeq(w, from + 1, from + len)[i] = w[(from + 1) + i - 1]
  <2>1. from + 1 \in Int /\ from + len \in Int /\ \A i \in from + 1 .. from + len : w[i] \in Octets
    OBVIOUS
  <2> HIDE <1>1
  <2> QED BY <2>1, SubSeqProperties
<1> DEFINE q == SubSeq(w, from + 1, from + len)
<1>3. q \in Seq(Octets) /\ Len(q) = len /\ \A i \in 1 .. len : q[i] = w[from + i]
  BY <1>2
<1>4. Bytes(s, from, len) \in Seq(Octets) /\ Len(Bytes(s, from, len)) = len
  BY BytesAreOctets
<1>5. \A i \in 1 .. len : Bytes(s, from, len)[i] = w[from + i]
  BY <1>1 DEF Bytes
<1> HIDE DEF q
<1>6. Bytes(s, from, len) = q
  BY <1>3, <1>4, <1>5
<1> QED BY <1>6 DEF q

\* A part in the right place: the next bytes of w, and behind the last its checksum.
InOrder(w, h, x, r) ==
  /\ r.kind = "part"
  /\ \E len \in Nat :
       /\ h + len <= Len(w) /\ r.data = SubSeq(w, h + 1, h + len)
       /\ \/ r.next = 0 /\ h + len = Len(w) /\ r.crc = w
          \/ r.next = h + len /\ r.next # 0

\* What a part leaves alone.
PartEffect(s, x, r) ==
  /\ SameOperation(s, x) /\ x.needed = s.needed /\ x.buf = s.buf /\ x.buf_len = s.buf_len
  /\ \/ x.status = s.status
     \/ s.status = "HAVE_RESULTS" /\ x.status = "COMPLETED"
  /\ \/ r.kind = "overrun"
     \/ /\ r.kind = "part" /\ r.next \in Nat /\ x.recv_next = r.next /\ r.data \in Seq(Octets)

LEMMA Remainder ==
  ASSUME NEW a \in Nat, NEW m \in Nat, a < m
  PROVE  a % m = a
  OBVIOUS

LEMMA RemainderIsNatural ==
  ASSUME NEW a \in Int, NEW m \in Nat \ {0}
  PROVE  a % m \in Nat
  OBVIOUS

LEMMA PartTaken ==
  ASSUME NEW s \in Device, s.ran = FALSE, NEW req, req.handle \in Nat
  PROVE  \E x \in Device : \E r :
           /\ PartOf(s, req) = Answer(x, r) /\ PartEffect(s, x, r)
           /\ \A w \in Seq(Octets) :
                /\ Holds(s, w) /\ s.recv_next = req.handle /\ req.handle <= Len(w)
                /\ s.buf_len = Len(w) /\ Len(w) + CrcLen < WordSize
                => InOrder(w, req.handle, x, r)
<1> DEFINE h == req.handle
           max == s.chunk - RecvFieldLen
           remain == (s.buf_len - s.recv_next) % WordSize
           last == (remain + CrcLen) % WordSize <= max
           len == IF last \/ remain < max THEN remain ELSE max
           next == IF last THEN 0 ELSE h + len
           st == IF last /\ s.status = "HAVE_RESULTS" THEN "COMPLETED" ELSE s.status
           y == [s EXCEPT !.recv_next = next, !.status = st]
           data == Bytes(s, s.recv_next, len)
           crc == IF last THEN Bytes(s, 0, s.buf_len) ELSE <<>>
           q == [kind |-> "part", code |-> "SUCCESS", data |-> data, next |-> next, crc |-> crc]
           o == [kind |-> "overrun", code |-> "SUCCESS"]
<1>0. /\ s.recv_next \in Nat /\ s.buf_len \in Nat /\ s.chunk \in MinChunk .. DevChunk
      /\ s.status \in Statuses
  BY DEF Device
<1>1. /\ max \in Nat /\ CrcLen <= max /\ max < WordSize /\ WordSize \in Nat /\ CrcLen \in Nat \ {0}
  BY <1>0, SizesAssumption
<1>2. remain \in Nat
  BY <1>0, <1>1, RemainderIsNatural
<1> HIDE DEF max, remain
<1>3. len \in Nat /\ next \in Nat
  BY <1>1, <1>2
<1>4. PartOf(s, req) = IF len > max THEN Answer(s, o) ELSE Answer(y, q)
  BY DEF PartOf, max, remain
<1>5. \A w \in Seq(Octets) :
        /\ Holds(s, w) /\ s.recv_next = h /\ h <= Len(w)
        /\ s.buf_len = Len(w) /\ Len(w) + CrcLen < WordSize
        => ~(len > max) /\ InOrder(w, h, y, q)
  <2>1. SUFFICES ASSUME NEW w \in Seq(Octets), Holds(s, w), s.recv_next = h, h <= Len(w),
                        s.buf_len = Len(w), Len(w) + CrcLen < WordSize
                 PROVE  ~(len > max) /\ InOrder(w, h, y, q)
    OBVIOUS
  <2>2. remain = Len(w) - h
    <3>1. Len(w) - h \in Nat /\ Len(w) - h < WordSize
      BY <2>1, <1>1
    <3>2. (Len(w) - h) % WordSize = Len(w) - h
      BY <3>1, <1>1, Remainder
    <3> QED BY <2>1, <3>2 DEF remain
  <2>3. last <=> remain + CrcLen <= max
    <3>1. remain + CrcLen \in Nat /\ remain + CrcLen < WordSize
      BY <2>1, <2>2, <1>1, <1>2
    <3>2. (remain + CrcLen) % WordSize = remain + CrcLen
      BY <3>1, <1>1, Remainder
    <3> QED BY <3>2
  <2>4. /\ ~(len > max) /\ h + len <= Len(w)
        /\ last => next = 0 /\ h + len = Len(w)
        /\ ~last => next = h + len /\ next # 0
    <3> HIDE DEF last
    <3> QED BY <1>1, <1>2, <2>1, <2>2, <2>3
  <2> HIDE DEF len, next, last
  <2>5. data = SubSeq(w, h + 1, h + len)
    <3>1. Bytes(s, h, len) = SubSeq(w, h + 1, h + len)
      BY <1>3, <2>1, <2>4, BytesHeld
    <3> QED BY <2>1, <3>1
  <2>6. last => crc = w
    <3>1. Bytes(s, 0, Len(w)) = SubSeq(w, 0 + 1, 0 + Len(w))
      BY <2>1, BytesHeld
    <3>2. SubSeq(w, 1, Len(w)) = w
      BY SubSeqFull
    <3> QED BY <2>1, <3>1, <3>2
  <2>7. q.kind = "part" /\ q.data = data /\ q.next = next /\ q.crc = crc
    OBVIOUS
  <2> HIDE DEF q, data, crc, y
  <2> QED BY <1>3, <2>4, <2>5, <2>6, <2>7 DEF InOrder
<1> HIDE DEF len, next, last
<1>6. CASE len > max
  <2>1. SameOperation(s, s)
    BY DEF SameOperation
  <2>2. o.kind = "overrun"
    OBVIOUS
  <2> HIDE DEF o
  <2>3. PartEffect(s, s, o)
    BY <2>1, <2>2 DEF PartEffect
  <2> QED BY <1>4, <1>5, <1>6, <2>3
<1>7. CASE ~(len > max)
  <2>1. y \in Device
    BY <1>0, <1>3 DEF Device, Statuses
  <2>2. /\ SameOperation(s, y) /\ y.needed = s.needed /\ y.buf = s.buf /\ y.buf_len = s.buf_len
        /\ y.recv_next = next /\ y.status = st
    BY DEF Device, SameOperation
  <2>3. data \in Seq(Octets)
    BY <1>0, <1>3, BytesAreOctets
  <2>4. q.kind = "part" /\ q.next = next /\ q.data = data
    OBVIOUS
  <2> HIDE DEF y, q, data, crc
  <2>5. PartEffect(s, y, q)
    BY <1>3, <2>2, <2>3, <2>4 DEF PartEffect
  <2> QED BY <1>4, <1>5, <1>7, <2>1, <2>5
<1> QED BY <1>6, <1>7

\* What is read, the result of the operation or, for operation id 0, what was there, is
\* read from its beginning on, or goes on where the last part ended.
Placed(op_id, w) ==
  /\ rde.recv_next = ctl.handle /\ ctl.handle <= Len(w) /\ Len(w) + CrcLen < WordSize
  /\ op_id = 0 \/ ctl.handle # 0 => Holds(rde, w) /\ rde.buf_len = Len(w)
  /\ op_id # 0 => w = rde.op_result

ReceiveEffect(op_id, x, r) ==
  /\ SameOperation(rde, x) /\ x.needed = rde.needed
  /\ \/ x.status = rde.status
     \/ rde.status = "HAVE_RESULTS" /\ x.status = "COMPLETED"
  /\ IF op_id # 0 /\ ctl.handle = 0
     THEN x.buf = "result" /\ x.buf_len = Len(rde.op_result)
     ELSE x.buf = rde.buf /\ x.buf_len = rde.buf_len
  /\ \/ r.kind = "overrun"
     \/ r.kind = "part" /\ r.next \in Nat /\ x.recv_next = r.next /\ r.data \in Seq(Octets)
  /\ \A w \in Seq(Octets) : Placed(op_id, w) => InOrder(w, ctl.handle, x, r)

LEMMA ReceiveAnswers ==
  ASSUME TypeInv, NEW op_id, NEW t, Answered(PartRequest(op_id), t)
  PROVE  \E x \in Device : \E r : t = Answer(x, r) /\ (Refused(x, r) \/ ReceiveEffect(op_id, x, r))
<1> DEFINE s == Quiet(rde)
           req == PartRequest(op_id)
           first == ctl.handle = 0 /\ op_id # 0
           s1 == IF first THEN AtResult(s) ELSE s
<1>0. s \in Device /\ Same(rde, s)
  BY QuietSame
<1>1. t = pldm_redfish_rde_multipart_receive(s, req)
  BY DEF Answered, PartRequest, pldm_redfish_process, Quiet
<1>2. /\ req.handle = ctl.handle /\ req.op_id = op_id
      /\ req.transfer_op = "XFER_FIRST_PART" <=> ctl.handle = 0
  BY DEF PartRequest
<1>3. ctl.handle \in Nat
  BY DEF TypeInv, Controller
<1> HIDE DEF s, req
<1>4. (\E code : t = Refuse(s, code)) \/ t = PartOf(s1, req)
  BY <1>1, <1>2 DEF pldm_redfish_rde_multipart_receive
<1>5. CASE \E code : t = Refuse(s, code)
  BY <1>5, RefuseAnswers DEF s
<1>6. CASE t = PartOf(s1, req)
  <2>1. AtResult(s) \in Device
    <3>1. Len(s.op_result) \in Nat
      BY <1>0 DEF Device
    <3> QED BY <1>0, <3>1 DEF AtResult, Device
  <2>2. /\ SameOperation(s, AtResult(s)) /\ AtResult(s).needed = s.needed
        /\ AtResult(s).status = s.status /\ AtResult(s).recv_next = s.recv_next
        /\ AtResult(s).buf = "result" /\ AtResult(s).buf_len = Len(s.op_result)
    BY <1>0 DEF AtResult, Device, SameOperation, Same
  <2>3. /\ s1 \in Device /\ s1.ran = FALSE
    BY <1>0, <2>1, <2>2 DEF SameOperation, Same
  <2>4. /\ SameOperation(rde, s1) /\ s1.needed = rde.needed /\ s1.status = rde.status
        /\ s1.recv_next = rde.recv_next
        /\ IF first THEN s1.buf = "result" /\ s1.buf_len = Len(rde.op_result)
                    ELSE s1.buf = rde.buf /\ s1.buf_len = rde.buf_len
    BY <1>0, <2>2 DEF SameOperation, Same, SameTransfer
  <2> HIDE DEF s1
  <2>5. PICK x, r :
           /\ x \in Device
           /\ PartOf(s1, req) = Answer(x, r) /\ PartEffect(s1, x, r)
           /\ \A w \in Seq(Octets) :
                /\ Holds(s1, w) /\ s1.recv_next = req.handle /\ req.handle <= Len(w)
                /\ s1.buf_len = Len(w) /\ Len(w) + CrcLen < WordSize
                => InOrder(w, req.handle, x, r)
    BY <1>2, <1>3, <2>3, PartTaken
  <2>d. x \in Device
    BY <2>5
  <2> USE <2>d
  <2>6. \A w \in Seq(Octets) : Placed(op_id, w) => InOrder(w, ctl.handle, x, r)
    <3>1. SUFFICES ASSUME NEW w \in Seq(Octets), Placed(op_id, w)
                   PROVE  InOrder(w, ctl.handle, x, r)
      OBVIOUS
    <3>2. Holds(s1, w) /\ s1.buf_len = Len(w)
      BY <2>4, <3>1 DEF Placed, Holds, SameOperation
    <3> QED BY <1>2, <2>4, <2>5, <3>1, <3>2 DEF Placed
  <2>7. ReceiveEffect(op_id, x, r)
    BY <2>4, <2>5, <2>6 DEF ReceiveEffect, PartEffect, SameOperation
  <2> QED BY <1>6, <2>5, <2>7
<1> QED BY <1>4, <1>5, <1>6

(***************************************************************************)
(* Beginning an operation, and what it waits for.                          *)
(***************************************************************************)
\* The payload comes with the request.
Whole(op) == Inline(op) /\ op.payload # <<>>
StillMissing(op) == IF Whole(op) THEN op.flags \ {"payload"} ELSE op.flags

\* b holds the operation op, the id id, and nothing of it has run.
Holding(op, id, b) ==
  /\ b \in Device /\ b.prev = [resource_id |-> op.res, op_id |-> id] /\ b.op_type = op.op_type
  /\ b.op_flag = StillMissing(op) /\ b.op_data = IF Whole(op) THEN op.payload ELSE rde.op_data
  /\ b.body = rde.body /\ b.etag = rde.etag /\ b.op_result = rde.op_result
  /\ b.recv_next = rde.recv_next /\ b.buf = rde.buf /\ b.ran = FALSE

BeginEffect(op, id, x, r) ==
  /\ r.kind = "ok" /\ rde.status = "INACTIVE"
  /\ resource_id_to_resource_identity(op.res) # NoResource
  /\ IsCollection(op.res) => op.op_type \in {"READ", "HEAD"}
  /\ \/ StillMissing(op) # {} /\ x.status = "NEEDS_INPUT" /\ Holding(op, id, x)
     \/ /\ StillMissing(op) = {}
        /\ \E b \in Device : Holding(op, id, b) /\ Runnable(b) /\ Ran(b, x)

LEMMA CollectionsAreRead ==
  ASSUME NEW id, IsCollection(id), NEW allowed \in AllowedOps(resource_id_to_resource_identity(id))
  PROVE  allowed = {"READ", "HEAD"}
  BY DEF IsCollection, Collections, AllowedOps, ALL_SCHEMA

LEMMA OperationShape ==
  ASSUME NEW op \in Operations
  PROVE  /\ op.res \in ResourceIds /\ op.op_type \in OpTypes /\ op.flags \in SUBSET Flags
         /\ op.payload \in Seq(Units) /\ op \in Ops
         /\ "payload" \notin op.flags => op.payload = <<>>
         /\ Len(op.payload) + CrcLen < WordSize
<1>1. op \in [res : ResourceIds, op_type : OpTypes, flags : SUBSET {"payload", "custom"}, payload : Seq(Units)]
  BY OperationsAssumption
<1>2. /\ op.res \in ResourceIds /\ op.op_type \in OpTypes /\ op.flags \in SUBSET Flags
      /\ op.payload \in Seq(Units) /\ op \in Ops
  BY <1>1 DEF Flags, Ops
<1> QED BY <1>2, OperationsAssumption, LengthsAssumption

LEMMA BeginAnswers ==
  ASSUME TypeInv, CollectionsWhole(rde), NEW op \in Operations, NEW id \in OpIds, NEW t,
         Answered(InitRequest(op, id), t)
  PROVE  \E x \in Device : \E r : t = Answer(x, r) /\ (Refused(x, r) \/ BeginEffect(op, id, x, r))
<1> DEFINE s == Quiet(rde)
           req == InitRequest(op, id)
           b == Started(s, req)
           w == [b EXCEPT !.status = "NEEDS_INPUT"]
<1>0. s \in Device /\ Same(rde, s)
  BY QuietSame
<1>1. PICK d \in BOOLEAN, allowed \in AllowedOps(resource_id_to_resource_identity(op.res)) :
        t = pldm_redfish_rde_operation_init(s, req, allowed, d)
  BY DEF Answered, InitRequest, pldm_redfish_process, Quiet
<1>2. /\ req.res = op.res /\ req.op_id = id /\ req.op_type = op.op_type /\ req.flags = op.flags
      /\ req.handle = 0 /\ req.payload = IF Inline(op) THEN op.payload ELSE <<>>
  BY DEF InitRequest
<1> HIDE DEF s, req
<1>3. CASE \E code : t = Refuse(s, code)
  BY <1>3, RefuseAnswers DEF s
<1>4. /\ op.res \in ResourceIds /\ op.op_type \in OpTypes /\ op.flags \in SUBSET Flags
      /\ op.payload \in Seq(Units)
  BY OperationShape
<1>5. Holding(op, id, b) /\ b.status = s.status
  <2> DEFINE sends == "payload" \in op.flags
             inline == sends /\ req.payload # <<>>
             fl == IF inline THEN op.flags \ {"payload"} ELSE op.flags
             dat == IF inline THEN op.payload ELSE s.op_data
             sf == IF sends /\ ~inline THEN 0 ELSE s.send_first
             sn == IF sends /\ ~inline THEN 0 ELSE s.send_next
             pv == [resource_id |-> op.res, op_id |-> id]
  <2>1. inline <=> Whole(op)
    BY <1>2 DEF Whole, Inline
  <2>2. b = [s EXCEPT !.prev = pv, !.op_type = op.op_type, !.op_flag = fl, !.op_data = dat,
                      !.send_first = sf, !.send_next = sn]
    BY <1>2, <2>1 DEF Started, Whole
  <2>3. /\ fl \in SUBSET Flags /\ dat \in Seq(Units) /\ sf \in Nat /\ sn \in Nat
        /\ pv \in [resource_id : ResourceIds \cup {0}, op_id : OpIds \cup {0}]
    BY <1>0, <1>4 DEF Device
  <2>4. fl = StillMissing(op) /\ dat = IF Whole(op) THEN op.payload ELSE s.op_data
    BY <2>1 DEF StillMissing
  <2> HIDE DEF b, sends, inline, fl, dat, sf, sn
  <2>5. /\ b.prev = pv /\ b.op_type = op.op_type /\ b.op_flag = fl /\ b.op_data = dat
        /\ b.body = s.body /\ b.etag = s.etag /\ b.op_result = s.op_result
        /\ b.recv_next = s.recv_next /\ b.buf = s.buf /\ b.ran = s.ran /\ b.status = s.status
    BY <1>0, <2>2 DEF Device
  <2>6. b \in Device
    BY <1>0, <1>4, <2>2, <2>3 DEF Device
  <2> QED BY <1>0, <2>4, <2>5, <2>6 DEF Holding, Same, SameOperation, SameTransfer
<1>6. CASE /\ s.status = "INACTIVE" /\ Known(req) /\ op.op_type \in allowed
           /\ t = IF MissingInput(b) # {} THEN Ok(w) ELSE Ok(pldm_redfish_op(b, d))
  <2>1. /\ rde.status = "INACTIVE" /\ resource_id_to_resource_identity(op.res) # NoResource
        /\ IsCollection(op.res) => op.op_type \in {"READ", "HEAD"}
    BY <1>0, <1>1, <1>2, <1>6, CollectionsAreRead DEF Known, Same
  <2> HIDE DEF b
  <2>2. CASE StillMissing(op) # {}
    <3>1. t = Ok(w)
      BY <1>5, <1>6, <2>2 DEF MissingInput, Holding
    <3>2. w \in Device /\ w.status = "NEEDS_INPUT"
      BY <1>5 DEF Holding, Device, Statuses
    <3>3. Holding(op, id, w)
      BY <1>5, <3>2 DEF Holding, Device
    <3> HIDE DEF w
    <3>4. PICK r : Ok(w) = Answer(w, r) /\ r.kind = "ok"
      BY OkAnswers
    <3> QED BY <2>1, <2>2, <3>1, <3>2, <3>3, <3>4 DEF BeginEffect
  <2>3. CASE StillMissing(op) = {}
    <3> DEFINE u == pldm_redfish_op(b, d)
    <3>1. t = Ok(u)
      BY <1>5, <1>6, <2>3 DEF MissingInput, Holding
    <3>2. Runnable(b)
      BY <1>4, <1>5, <2>1 DEF Runnable, Holding, CollectionsWhole
    <3>3. Ran(b, u)
      BY <3>2, OperationRuns
    <3> HIDE DEF u
    <3>4. PICK r : Ok(u) = Answer(u, r) /\ r.kind = "ok"
      BY OkAnswers
    <3>5. u \in Device /\ b \in Device
      BY <1>5, <3>3 DEF Ran, Holding
    <3> QED BY <1>5, <2>1, <2>3, <3>1, <3>2, <3>3, <3>4, <3>5 DEF BeginEffect
  <2> QED BY <2>2, <2>3
<1> QED BY <1>1, <1>2, <1>3, <1>6 DEF pldm_redfish_rde_operation_init

\* b is the operation with another page, and with what it still waits for.
Waits(b, flags) ==
  /\ b \in Device /\ b.prev = rde.prev /\ b.op_type = rde.op_type /\ b.op_flag = flags
  /\ b.op_data = rde.op_data /\ b.op_result = rde.op_result /\ b.body = rde.body /\ b.etag = rde.etag
  /\ b.recv_next = rde.recv_next /\ b.buf = rde.buf /\ b.status = rde.status /\ b.ran = FALSE

\* The parameters are there; without a payload to come, the operation runs.  The tag
\* that the controller named is that of the resource.
SupplyEffect(x, r) ==
  /\ r.kind = "ok" /\ "custom" \in rde.op_flag
  /\ TagKnown => ctl.etag[2] = rde.etag[bej_idx(ctl.op.res)]
  /\ LET left == rde.op_flag \ {"custom"} IN
       \/ "payload" \in left /\ Waits(x, left)
       \/ "payload" \notin left /\ \E b \in Device : Waits(b, left) /\ Runnable(b) /\ Ran(b, x)

\* Refused for its page: the page is kept.
PageRefused(x, r) == r.kind = "error" /\ "custom" \in rde.op_flag /\ Waits(x, rde.op_flag)

LEMMA SupplyAnswers ==
  ASSUME TypeInv, CollectionsWhole(rde), ctl.op \in Operations,
         IsCollection(ctl.op.res) => rde.op_type \in {"READ", "HEAD"},
         NEW page \in Pages, NEW t, Answered(SupplyRequest(page), t)
  PROVE  \E x \in Device : \E r :
           t = Answer(x, r) /\ (Refused(x, r) \/ PageRefused(x, r) \/ SupplyEffect(x, r))
<1> DEFINE s == Quiet(rde)
           req == SupplyRequest(page)
           left == rde.op_flag \ {"custom"}
           g == Paged(s, req)
           b == [g EXCEPT !.op_flag = @ \ {"custom"}]
<1>0. s \in Device /\ Same(rde, s)
  BY QuietSame
<1>1. PICK d \in BOOLEAN : t = pldm_redfish_supply_custom_request_parameters(s, req, d)
  BY DEF Answered, SupplyRequest, pldm_redfish_process, Quiet
<1>2. /\ req.res = ctl.op.res /\ req.op_id = ctl.op_id
      /\ req.etag_op = IF TagKnown THEN "IF_MATCH" ELSE "IGNORE"
      /\ req.etags = IF TagKnown THEN <<ctl.etag[2]>> ELSE <<>>
      /\ req.skip \in Nat /\ req.top \in Nat
  BY InputsAssumption DEF SupplyRequest
<1> HIDE DEF s, req
<1>3. Waits(g, rde.op_flag)
  <2>1. CASE s.op_type = "READ"
    <3>1. g = [s EXCEPT !.skip = req.skip, !.top = req.top]
      BY <2>1 DEF Paged
    <3>2. g \in Device
      BY <1>0, <1>2, <3>1 DEF Device
    <3> QED BY <1>0, <3>1, <3>2 DEF Waits, Device, Same, SameOperation, SameTransfer
  <2>2. CASE s.op_type # "READ"
    <3>1. g = s
      BY <2>2 DEF Paged
    <3> QED BY <1>0, <3>1 DEF Waits, Same, SameOperation, SameTransfer
  <2> QED BY <2>1, <2>2
<1> HIDE DEF g
<1>4. Waits(b, left)
  <2>1. g \in Device /\ g.op_flag = rde.op_flag
    BY <1>3 DEF Waits
  <2>2. b \in Device
    BY <2>1 DEF Device
  <2>3. /\ b.prev = g.prev /\ b.op_type = g.op_type /\ b.op_flag = left
        /\ b.op_data = g.op_data /\ b.op_result = g.op_result /\ b.body = g.body /\ b.etag = g.etag
        /\ b.recv_next = g.recv_next /\ b.buf = g.buf /\ b.status = g.status /\ b.ran = g.ran
    BY <2>1 DEF Device
  <2> HIDE DEF b
  <2> QED BY <1>3, <2>2, <2>3 DEF Waits
<1>5. CASE \E code : t = Refuse(s, code)
  BY <1>5, RefuseAnswers DEF s
<1>6. CASE "custom" \in s.op_flag /\ t = Refuse(g, "OPERATION_FAILED")
  <2> DEFINE r == [kind |-> "error", code |-> "OPERATION_FAILED", status |-> g.status]
  <2>1. t = Answer(g, r) /\ r.kind = "error"
    BY <1>6 DEF Refuse
  <2> HIDE DEF r
  <2>2. "custom" \in rde.op_flag
    BY <1>0, <1>6 DEF Same, SameOperation
  <2> QED BY <1>3, <2>1, <2>2 DEF PageRefused, Waits
<1>7. CASE /\ Current(s, req) /\ "custom" \in s.op_flag /\ EtagHolds(s, req)
           /\ t = IF "payload" \in b.op_flag THEN Ok(b) ELSE Ok(pldm_redfish_op(b, d))
  <2>1. "custom" \in rde.op_flag
    BY <1>0, <1>7 DEF Same, SameOperation
  <2>2. TagKnown => ctl.etag[2] = rde.etag[bej_idx(ctl.op.res)]
    BY <1>0, <1>2, <1>7 DEF EtagHolds, Same, SameOperation
  <2> HIDE DEF b
  <2>3. CASE "payload" \in left
    <3>1. t = Ok(b)
      BY <1>4, <1>7, <2>3 DEF Waits
    <3>2. PICK r : Ok(b) = Answer(b, r) /\ r.kind = "ok"
      BY OkAnswers
    <3>3. b \in Device
      BY <1>4 DEF Waits
    <3> QED BY <1>4, <2>1, <2>2, <2>3, <3>1, <3>2, <3>3 DEF SupplyEffect
  <2>4. CASE "payload" \notin left
    <3> DEFINE u == pldm_redfish_op(b, d)
    <3>1. t = Ok(u)
      BY <1>4, <1>7, <2>4 DEF Waits
    <3>2. Runnable(b)
      <4>1. b.prev.resource_id = ctl.op.res
        BY <1>0, <1>2, <1>4, <1>7 DEF Current, Waits, Same, SameOperation
      <4> QED BY <1>4, <4>1, OperationShape DEF Runnable, Waits, CollectionsWhole
    <3>3. Ran(b, u)
      BY <3>2, OperationRuns
    <3> HIDE DEF u
    <3>4. PICK r : Ok(u) = Answer(u, r) /\ r.kind = "ok"
      BY OkAnswers
    <3>5. u \in Device /\ b \in Device
      BY <1>4, <3>3 DEF Ran, Waits
    <3> QED BY <1>4, <2>1, <2>2, <2>4, <3>1, <3>2, <3>3, <3>4, <3>5 DEF SupplyEffect
  <2> QED BY <2>3, <2>4
<1> QED BY <1>1, <1>5, <1>6, <1>7 DEF pldm_redfish_supply_custom_request_parameters, g

\* A part was taken: the operation is the same, with more data.
Carried(b, flags) ==
  /\ b \in Device /\ b.prev = rde.prev /\ b.op_type = rde.op_type /\ b.op_flag = flags
  /\ b.op_result = rde.op_result /\ b.body = rde.body /\ b.etag = rde.etag
  /\ b.recv_next = rde.recv_next /\ b.buf = rde.buf /\ b.status = rde.status /\ b.ran = FALSE

\* Behind the last part the payload is whole, or it is asked for again.
SendEffect(x, r) ==
  /\ r.kind = "more"
  /\ LET left == rde.op_flag \ {"payload"} IN
       \/ ~LastPart /\ r.transfer_op = "XFER_NEXT_PART" /\ Carried(x, rde.op_flag)
       \/ LastPart /\ r.transfer_op = "XFER_FIRST_PART" /\ Carried(x, rde.op_flag)
       \/ /\ LastPart /\ r.transfer_op = "XFER_COMPLETE"
          /\ \/ "custom" \in left /\ Carried(x, left)
             \/ /\ "custom" \notin left
                /\ \E b \in Device : /\ Carried(b, left) /\ b.op_data = ctl.op.payload
                                     /\ Runnable(b) /\ Ran(b, x)

LEMMA PartLength ==
  ASSUME TypeInv
  PROVE  /\ PartLen \in Int /\ ctl.sent + PartLen <= Len(ctl.op.payload)
         /\ ~LastPart => PartLen \in Nat
<1> DEFINE n == Len(ctl.op.payload)
           m == ctl.sent
<1>1. n \in Nat /\ m \in Nat
  <2>1. ctl.op \in Ops /\ ctl.sent \in Nat
    BY DEF TypeInv, Controller
  <2>2. ctl.op.payload \in Seq(Units)
    BY <2>1 DEF Ops
  <2>3. QED
    BY <2>1, <2>2
<1>2. Remain = n - m
  BY DEF Remain
<1>3. SendMax \in Nat /\ CrcLen \in Nat /\ SendMax > CrcLen
  BY SessionAssumption, SizesAssumption
<1> HIDE DEF n, m
<1>4. PartLen \in Int /\ m + PartLen <= n /\ (~LastPart => PartLen \in Nat)
  BY <1>1, <1>2, <1>3 DEF PartLen, LastPart
<1>5. QED
  BY <1>4 DEF n, m

LEMMA SendAnswers ==
  ASSUME TypeInv, CollectionsWhole(rde), rde.prev.resource_id \in ResourceIds,
         IsCollection(rde.prev.resource_id) => rde.op_type \in {"READ", "HEAD"},
         NEW leftover \in {0, ctl.sent}, NEW t, Answered(SendRequest(leftover), t)
  PROVE  \E x \in Device : \E r : t = Answer(x, r) /\ (Refused(x, r) \/ SendEffect(x, r))
<1> DEFINE s == Quiet(rde)
           req == SendRequest(leftover)
           left == rde.op_flag \ {"payload"}
           data == s.op_data \o req.data
           c == [s EXCEPT !.send_next = req.next, !.op_data = data]
           a == [c EXCEPT !.send_next = s.send_first, !.op_data = <<>>]
           b == [c EXCEPT !.op_flag = @ \ {"payload"}]
           m(op) == [kind |-> "more", code |-> "SUCCESS", transfer_op |-> op]
           f == [kind |-> "more", code |-> "BAD_CHECKSUM", transfer_op |-> "XFER_FIRST_PART"]
<1>0. s \in Device /\ Same(rde, s)
  BY QuietSame
<1>1. PICK d \in BOOLEAN : t = pldm_redfish_rde_multipart_send(s, req, d)
  BY DEF Answered, SendRequest, pldm_redfish_process, Quiet
<1>2. /\ req.last = LastPart /\ req.crc = ctl.op.payload
      /\ req.next = IF LastPart THEN leftover ELSE ctl.sent + PartLen
      /\ req.data = SubSeq(ctl.op.payload, ctl.sent + 1, ctl.sent + PartLen)
  BY DEF SendRequest
<1> HIDE DEF s, req
<1>3. req.next \in Nat
  BY <1>2, PartLength DEF TypeInv, Controller
<1>4. data \in Seq(Units)
  <2>1. ctl.op.payload \in Seq(Units) /\ ctl.sent \in Nat
    BY DEF TypeInv, Controller, Ops
  <2>2. PartLen \in Int /\ ctl.sent + PartLen <= Len(ctl.op.payload)
    BY PartLength
  <2>3. \A i \in ctl.sent + 1 .. ctl.sent + PartLen : ctl.op.payload[i] \in Units
    BY <2>1, <2>2
  <2>4. ctl.sent + 1 \in Int /\ ctl.sent + PartLen \in Int
    BY <2>1, <2>2
  <2>5. req.data \in Seq(Units)
    BY <1>2, <2>3, <2>4, SubSeqProperties
  <2>6. s.op_data \in Seq(Units)
    BY <1>0 DEF Device
  <2> QED BY <2>5, <2>6
<1> HIDE DEF data
<1>5. Carried(c, rde.op_flag) /\ c.op_data = data /\ c.op_flag = rde.op_flag
  <2>1. c \in Device
    BY <1>0, <1>3, <1>4 DEF Device
  <2>2. /\ c.prev = s.prev /\ c.op_type = s.op_type /\ c.op_flag = s.op_flag
        /\ c.op_result = s.op_result /\ c.body = s.body /\ c.etag = s.etag
        /\ c.recv_next = s.recv_next /\ c.buf = s.buf /\ c.status = s.status /\ c.ran = s.ran
        /\ c.op_data = data
    BY <1>0 DEF Device
  <2> HIDE DEF c
  <2> QED BY <1>0, <2>1, <2>2 DEF Carried, Same, SameOperation, SameTransfer
<1> HIDE DEF c
<1>6. Carried(a, rde.op_flag)
  <2>0. c \in Device
    BY <1>5 DEF Carried
  <2>1. a \in Device
    <3>1. <<>> \in Seq(Units) /\ s.send_first \in Nat
      BY <1>0 DEF Device
    <3> QED BY <2>0, <3>1 DEF Device
  <2>2. /\ a.prev = c.prev /\ a.op_type = c.op_type /\ a.op_flag = c.op_flag
        /\ a.op_result = c.op_result /\ a.body = c.body /\ a.etag = c.etag
        /\ a.recv_next = c.recv_next /\ a.buf = c.buf /\ a.status = c.status /\ a.ran = c.ran
    BY <2>0 DEF Device
  <2> HIDE DEF a
  <2> QED BY <1>5, <2>1, <2>2 DEF Carried
<1>7. Carried(b, left) /\ b.op_data = data /\ b.op_flag = left
  <2>0. c \in Device
    BY <1>5 DEF Carried
  <2>1. b \in Device
    BY <2>0 DEF Device
  <2>2. /\ b.prev = c.prev /\ b.op_type = c.op_type /\ b.op_flag = c.op_flag \ {"payload"}
        /\ b.op_result = c.op_result /\ b.body = c.body /\ b.etag = c.etag
        /\ b.recv_next = c.recv_next /\ b.buf = c.buf /\ b.status = c.status /\ b.ran = c.ran
        /\ b.op_data = c.op_data
    BY <2>0 DEF Device
  <2> HIDE DEF b
  <2> QED BY <1>5, <2>1, <2>2 DEF Carried
<1> HIDE DEF a, b
<1>8. CASE \E code : t = Refuse(s, code)
  BY <1>8, RefuseAnswers DEF s
<1>9. CASE ~LastPart /\ t = Answer(c, m("XFER_NEXT_PART"))
  BY <1>5, <1>9 DEF SendEffect, Carried
<1>10. CASE LastPart /\ t = Answer(a, f)
  BY <1>6, <1>10 DEF SendEffect, Carried
<1>11. CASE /\ LastPart /\ data = ctl.op.payload
            /\ t = Answer(IF "custom" \in b.op_flag THEN b ELSE pldm_redfish_op(b, d), m("XFER_COMPLETE"))
  <2>1. CASE "custom" \in left
    BY <1>7, <1>11, <2>1 DEF SendEffect, Carried
  <2>2. CASE "custom" \notin left
    <3> DEFINE u == pldm_redfish_op(b, d)
    <3>1. t = Answer(u, m("XFER_COMPLETE"))
      BY <1>7, <1>11, <2>2
    <3>2. Runnable(b)
      BY <1>7 DEF Runnable, Carried, CollectionsWhole
    <3>3. Ran(b, u)
      BY <3>2, OperationRuns
    <3> HIDE DEF u
    <3>4. u \in Device /\ b \in Device
      BY <1>7, <3>3 DEF Ran, Carried
    <3>5. b.op_data = ctl.op.payload
      BY <1>7, <1>11
    <3> DEFINE r == m("XFER_COMPLETE")
    <3>6. r.kind = "more" /\ r.transfer_op = "XFER_COMPLETE"
      OBVIOUS
    <3> HIDE DEF r
    <3>7. SendEffect(u, r)
      <4>1. Carried(b, left) /\ b.op_data = ctl.op.payload /\ Runnable(b) /\ Ran(b, u)
        BY <1>7, <3>2, <3>3, <3>5
      <4> QED BY <1>11, <2>2, <3>4, <3>6, <4>1 DEF SendEffect
    <3> QED BY <3>1, <3>4, <3>7 DEF r
  <2> QED BY <2>1, <2>2
<1> QED BY <1>1, <1>2, <1>8, <1>9, <1>10, <1>11
     DEF pldm_redfish_rde_multipart_send, Checksummed, a, b, c, data

(***************************************************************************)
(* The inductive invariant.                                                *)
(***************************************************************************)
\* The operation that the device holds is the controller's.
OperationHeld ==
  rde.status # "INACTIVE" =>
    /\ rde.prev = [resource_id |-> ctl.op.res, op_id |-> ctl.op_id]
    /\ resource_id_to_resource_identity(ctl.op.res) # NoResource
    /\ ctl.op \in Operations /\ ctl.op_id \in OpIds /\ rde.op_type = ctl.op.op_type
    /\ IsCollection(ctl.op.res) => ctl.op.op_type \in {"READ", "HEAD"}

\* It has not run while it waits, and its result is that of its last run.
RunsKnown ==
  /\ rde.status = "NEEDS_INPUT" => ctl.runs = 0
  /\ rde.status \in Triggered => ctl.result = rde.op_result

DeviceInv ==
  StatusMatchesOperation /\ OperationHeld /\ RunsKnown /\ Fit(rde) /\ CollectionsWhole(rde)

\* What the device has come to when the controller is in a phase.
PhaseMatches ==
  /\ ctl.phase \in {"idle", "dictionary"} => rde.status = "INACTIVE" /\ ctl.runs = 0
  /\ ctl.phase \in {"custom", "sending", "polling", "receiving"} => rde.status # "INACTIVE"
  /\ ctl.phase = "custom" => rde.status = "NEEDS_INPUT"
  /\ ctl.phase = "sending" /\ ~ctl.repeated => rde.status = "NEEDS_INPUT"
  /\ ctl.phase = "receiving" => rde.status \in {"HAVE_RESULTS", "COMPLETED"}

\* What a conditional operation waits for; a payload that came along is there.
ParametersMissing ==
  ctl.phase = "custom" =>
    /\ rde.op_flag = StillMissing(ctl.op)
    /\ "payload" \notin rde.op_flag => rde.op_data = ctl.op.payload

\* While the payload is sent the named tag stays that of the resource, until the
\* operation itself has replaced what is there.
Rewritten ==
  /\ ctl.op.op_type = "UPDATE" /\ ValueOf(ctl.op.payload) # NoValue
  /\ rde.body[bej_idx(ctl.op.res)] = Body(ValueOf(ctl.op.payload))
TagKept ==
  ctl.phase = "sending" /\ "custom" \in ctl.op.flags /\ TagKnown
    => ctl.etag[2] = rde.etag[bej_idx(ctl.op.res)] \/ Rewritten

\* Where the next part is read from, and what was read so far.
PartsBegin ==
  /\ ctl.phase \notin {"dictionary", "receiving"} => ctl.got = <<>>
  /\ ctl.phase # "dictionary" => ~ctl.mixed
  /\ ~ctl.stale =>
       /\ ctl.phase \in {"idle", "custom", "sending", "polling"} => rde.recv_next = 0
       /\ ctl.phase = "closing" /\ rde.status = "INACTIVE" => rde.recv_next = 0
       /\ ctl.phase \in {"dictionary", "receiving"} => rde.recv_next = ctl.handle
SoFar(w) == ctl.handle <= Len(w) /\ ctl.got = SubSeq(w, 1, ctl.handle)
ResultSoFar ==
  ctl.phase = "receiving" /\ ~ctl.stale =>
    /\ SoFar(rde.op_result)
    /\ ctl.handle # 0 => rde.buf = "result" /\ rde.buf_len = Len(rde.op_result)
DictionarySoFar ==
  ctl.phase = "dictionary" =>
    /\ ctl.dict \in Dictionaries
    /\ ~ctl.stale /\ ~ctl.mixed /\ ctl.dict[2] # "REGISTRY" =>
         /\ SoFar(Dictionary(ctl.dict))
         /\ rde.buf = "needed" /\ rde.needed = ctl.dict /\ rde.buf_len = Flash[ctl.dict]

PhaseInv ==
  /\ PhaseMatches /\ ParametersMissing /\ TagKept
  /\ PartsBegin /\ ResultSoFar /\ DictionarySoFar

SessionInv == TypeInv /\ DeviceInv /\ PhaseInv /\ ExecutedOnce /\ ReadIsWhole

THEOREM SessionInitially == SessionInit => SessionInv
<1> SUFFICES ASSUME SessionInit PROVE SessionInv
  OBVIOUS
<1>1. rde \in Device
  BY InitIsDevice DEF SessionInit
<1>2. /\ rde.status = "INACTIVE" /\ rde.op_flag = {} /\ rde.op_result = <<>> /\ rde.buf = "none"
      /\ rde.op_data = <<>> /\ rde.send_next = 0 /\ rde.skip = 0 /\ rde.top = All /\ rde.recv_next = 0
      /\ rde.body = [p \in Places |-> InitialBody(p)]
  BY DEF SessionInit, pldm_redfish_init
<1>3. /\ ctl.phase = "idle" /\ ctl.got = <<>> /\ ctl.mixed = FALSE /\ ctl.runs = 0 /\ ctl.read = NoRead
  BY DEF SessionInit
<1>4. ctl \in Controller
  <2>1. NoOp \in Ops
    BY DEF NoOp, Ops, OpTypes
  <2> QED BY <2>1 DEF SessionInit, Controller, Phases, Reads
<1>5. Fit(rde)
  <2>1. 0 + CrcLen < WordSize
    BY SizesAssumption, LengthsAssumption
  <2> QED BY <1>2, <2>1, InitialUnits DEF Fit, Stored
<1>6. CollectionsWhole(rde)
  <2>1. SUFFICES ASSUME NEW id \in ResourceIds, HasEtag(id), IsCollection(id)
                 PROVE  Len(rde.body[bej_idx(id)]) = MaxLanNum
    BY DEF CollectionsWhole
  <2>2. bej_idx(id) \in Places
    BY <2>1, PlaceKnown
  <2>3. InitialBody(bej_idx(id)) = Body("members")
    BY <2>1 DEF InitialBody, IsCollection
  <2> QED BY <1>2, <2>2, <2>3, BodyUnits, SizesAssumption
<1>7. DeviceInv
  BY <1>2, <1>5, <1>6 DEF DeviceInv, StatusMatchesOperation, OperationHeld, RunsKnown, Triggered
<1>8. PhaseInv
  BY <1>2, <1>3 DEF PhaseInv, PhaseMatches, ParametersMissing, TagKept, PartsBegin, ResultSoFar, DictionarySoFar
<1>9. ExecutedOnce /\ ReadIsWhole
  BY <1>3 DEF ExecutedOnce, ReadIsWhole, NoRead
<1> QED BY <1>1, <1>4, <1>7, <1>8, <1>9 DEF SessionInv, TypeInv

(***************************************************************************)
(* What a step leaves of the part of the device.                           *)
(***************************************************************************)
SameOp == ctl'.op = ctl.op /\ ctl'.op_id = ctl.op_id
SameRuns == ctl'.runs = ctl.runs /\ ctl'.result = ctl.result

\* The operation goes on as it is; only its results may have been handed out.
HeldOn ==
  /\ rde' \in Device
  /\ rde'.status = rde.status \/ (rde.status = "HAVE_RESULTS" /\ rde'.status = "COMPLETED")
  /\ rde'.op_type = rde.op_type /\ rde'.op_flag = rde.op_flag /\ rde'.op_result = rde.op_result
  /\ rde'.body = rde.body /\ rde'.etag = rde.etag /\ rde'.prev = rde.prev
  /\ \/ rde.status # "INACTIVE"
     \/ /\ rde'.op_data = rde.op_data /\ rde'.send_next = rde.send_next
        /\ rde'.skip = rde.skip /\ rde'.top = rde.top
  /\ \/ rde'.buf # "result" \/ rde'.buf = rde.buf
     \/ rde.status \notin {"INACTIVE", "NEEDS_INPUT"}

LEMMA HeldOnKeeps ==
  ASSUME TypeInv, DeviceInv, HeldOn, rde.status = "INACTIVE" \/ (SameOp /\ SameRuns)
  PROVE  DeviceInv'
<1>0. rde.status \in Statuses
  BY DEF TypeInv, Device
<1>1. StatusMatchesOperation'
  BY <1>0 DEF DeviceInv, StatusMatchesOperation, HeldOn, Statuses
<1>2. OperationHeld'
  BY <1>0 DEF DeviceInv, OperationHeld, HeldOn, SameOp, Statuses
<1>3. RunsKnown'
  BY <1>0 DEF DeviceInv, RunsKnown, HeldOn, SameRuns, Statuses, Triggered
<1>4. Fit(rde)' /\ CollectionsWhole(rde)'
  BY DEF DeviceInv, Fit, Stored, CollectionsWhole, HeldOn
<1> QED BY <1>1, <1>2, <1>3, <1>4 DEF DeviceInv

LEMMA ClearedKeeps ==
  ASSUME DeviceInv, ClearedDevice(rde')
  PROVE  DeviceInv'
<1>1. Fit(rde)'
  <2>1. 0 + CrcLen < WordSize
    BY SizesAssumption, LengthsAssumption
  <2> QED BY <2>1 DEF DeviceInv, Fit, Stored, ClearedDevice
<1>2. StatusMatchesOperation'
  BY DEF StatusMatchesOperation, ClearedDevice
<1>3. OperationHeld' /\ RunsKnown'
  BY DEF OperationHeld, RunsKnown, ClearedDevice, Triggered
<1>4. CollectionsWhole(rde)'
  BY DEF DeviceInv, CollectionsWhole, ClearedDevice
<1> QED BY <1>1, <1>2, <1>3, <1>4 DEF DeviceInv

\* It waits for more.
LEMMA WaitingKeeps ==
  ASSUME DeviceInv, rde' \in Device, rde'.status = "NEEDS_INPUT", rde'.op_flag # {},
         rde'.op_result = <<>>, rde'.buf # "result", rde'.body = rde.body, ctl'.runs = 0,
         OperationHeld'
  PROVE  DeviceInv'
<1>1. Fit(rde)'
  <2>1. 0 + CrcLen < WordSize
    BY SizesAssumption, LengthsAssumption
  <2> QED BY <2>1 DEF DeviceInv, Fit, Stored
<1>2. StatusMatchesOperation'
  BY DEF StatusMatchesOperation
<1>3. RunsKnown'
  BY DEF RunsKnown, Triggered
<1>4. CollectionsWhole(rde)'
  BY DEF DeviceInv, CollectionsWhole
<1> QED BY <1>1, <1>2, <1>3, <1>4 DEF DeviceInv

\* It has run.
LEMMA RanKeeps ==
  ASSUME DeviceInv, NEW b, Runnable(b), Ran(b, rde'), b.op_flag = {}, b.body = rde.body,
         Len(b.op_data) + CrcLen < WordSize, ctl'.result = rde'.op_result,
         OperationHeld'
  PROVE  DeviceInv'
<1>1. Fit(rde)'
  BY DEF DeviceInv, Fit, Stored, Ran
<1>2. StatusMatchesOperation'
  BY DEF StatusMatchesOperation, Ran, SameRequest, Triggered
<1>3. RunsKnown'
  BY DEF RunsKnown, Ran, Triggered
<1>4. CollectionsWhole(rde)'
  BY RunsKeepCollections DEF CollectionsWhole
<1> QED BY <1>1, <1>2, <1>3, <1>4 DEF DeviceInv

(***************************************************************************)
(* What a step leaves of the part of the controller.                       *)
(***************************************************************************)
\* Neither goes on.
Unmoved ==
  /\ ctl'.phase = ctl.phase /\ SameOp /\ SameRuns /\ ctl'.read = NoRead
  /\ ctl'.got = ctl.got /\ ctl'.stale = ctl.stale /\ ctl'.handle = ctl.handle /\ ctl'.dict = ctl.dict
  /\ ctl'.mixed = ctl.mixed \/ (ctl.phase = "dictionary" /\ ctl'.mixed = TRUE)
  /\ ctl'.etag = ctl.etag \/ ctl.phase = "idle"
  /\ ctl'.repeated = ctl.repeated \/ ctl'.repeated = TRUE
  /\ rde'.recv_next = rde.recv_next
  /\ ctl.phase = "custom" => rde'.op_data = rde.op_data
  /\ ctl.phase = "receiving" => rde'.buf = rde.buf /\ rde'.buf_len = rde.buf_len
  /\ ctl.phase = "dictionary" => ctl'.mixed = TRUE

LEMMA NothingRead ==
  ASSUME ctl'.read = NoRead
  PROVE  ReadIsWhole'
  BY DEF ReadIsWhole, NoRead

LEMMA UnmovedKeeps ==
  ASSUME SessionInv, HeldOn, ctl' \in Controller, Unmoved
  PROVE  SessionInv'
<1>0. ctl.phase \in Phases /\ rde.status \in Statuses
  BY DEF SessionInv, TypeInv, Controller, Device
<1>1. DeviceInv'
  BY HeldOnKeeps DEF SessionInv, Unmoved
<1>2. PhaseMatches'
  BY DEF SessionInv, PhaseInv, PhaseMatches, HeldOn, Unmoved, SameRuns
<1>3. ParametersMissing'
  BY DEF SessionInv, PhaseInv, ParametersMissing, HeldOn, Unmoved, SameOp
<1>4. TagKept'
  BY DEF SessionInv, PhaseInv, TagKept, TagKnown, Rewritten, HeldOn, Unmoved, SameOp
<1>5. PartsBegin'
  BY <1>0 DEF SessionInv, PhaseInv, PartsBegin, HeldOn, Unmoved, Statuses
<1>6. ResultSoFar'
  BY DEF SessionInv, PhaseInv, ResultSoFar, SoFar, HeldOn, Unmoved
<1>7. DictionarySoFar'
  BY DEF SessionInv, PhaseInv, DictionarySoFar, HeldOn, Unmoved
<1>8. ExecutedOnce'
  BY DEF SessionInv, ExecutedOnce, Unmoved, SameRuns
<1>9. ReadIsWhole'
  BY NothingRead DEF Unmoved
<1> QED BY <1>1, <1>2, <1>3, <1>4, <1>5, <1>6, <1>7, <1>8, <1>9
     DEF SessionInv, PhaseInv, TypeInv, HeldOn

\* The operation is given up, or over, or was perhaps never begun.
Closes ==
  /\ ctl'.phase = "closing" /\ ctl'.got = <<>> /\ ~ctl'.mixed
  /\ ~ctl'.stale /\ rde'.status = "INACTIVE" => rde'.recv_next = 0

LEMMA ClosesKeeps ==
  ASSUME TypeInv', DeviceInv', Closes, ExecutedOnce', ReadIsWhole'
  PROVE  SessionInv'
<1>1. PhaseMatches' /\ ParametersMissing' /\ TagKept'
  BY DEF Closes, PhaseMatches, ParametersMissing, TagKept
<1>2. PartsBegin' /\ ResultSoFar' /\ DictionarySoFar'
  BY DEF Closes, PartsBegin, ResultSoFar, DictionarySoFar
<1> QED BY <1>1, <1>2 DEF SessionInv, PhaseInv

\* An answer that changes nothing of the operation.
LEMMA SameHeldOn ==
  ASSUME TypeInv, rde' \in Device, Same(rde, rde')
  PROVE  HeldOn
  BY DEF HeldOn, Same, SameOperation, SameTransfer

LEMMA AskKeeps ==
  ASSUME SessionInv, Ask
  PROVE  SessionInv'
<1>0. TypeInv /\ ctl.phase = "idle"
  BY AskOpens DEF SessionInv
<1>1. PICK req, t : req \in Asks /\ Answered(req, t) /\ rde' = Heard(t) /\ ctl' = Noted(t)
  BY AskOpens
<1>2. PICK x, r : x \in Device /\ t = Answer(x, r) /\ Same(rde, x)
  BY <1>0, <1>1, AskAnswers
<1>d. req \in Asks /\ x \in Device
  BY <1>1, <1>2
<1> USE <1>d
<1>3. rde' = x /\ ctl' = Noted(x)
  BY <1>1, <1>2, HeardAnswer
<1>4. /\ ctl' \in Controller /\ SameController(ctl') /\ ctl'.read = NoRead /\ SameRuns
  BY <1>0, <1>2, <1>3, NotedFacts DEF Same, SameOperation, SameRuns
<1>5. HeldOn
  BY <1>0, <1>2, <1>3, SameHeldOn
<1>6. Unmoved
  BY <1>0, <1>2, <1>3, <1>4 DEF Unmoved, SameController, SameOp, Same, SameOperation, SameTransfer
<1> QED BY <1>4, <1>5, <1>6, UnmovedKeeps

\* Lost, or not: what the controller hears.
LEMMA ReplyCases ==
  ASSUME NEW lost \in BOOLEAN, NEW r
  PROVE  Reply(lost, r) = r \/ Reply(lost, r).kind = "lost"
  BY DEF Reply

LEMMA GetEtagKeeps ==
  ASSUME SessionInv, GetEtag
  PROVE  SessionInv'
<1>0. TypeInv /\ ctl.phase = "idle"
  BY GetEtagOpens DEF SessionInv
<1>1. PICK op, lost, t :
        /\ op \in Operations /\ lost \in BOOLEAN
        /\ Answered(EtagRequest(op), t) /\ rde' = Heard(t)
        /\ ctl' = AfterEtag(Noted(t), Reply(lost, t.rsp), op.res)
  BY GetEtagOpens
<1>2. PICK x, r : x \in Device /\ t = Answer(x, r) /\ (Refused(x, r) \/ EtagEffect(op, x, r))
  BY <1>0, <1>1, EtagAnswers
<1>d. op \in Operations /\ lost \in BOOLEAN /\ x \in Device
  BY <1>1, <1>2
<1> USE <1>d
<1> DEFINE c == Noted(x)
           rsp == Reply(lost, r)
<1>3. rde' = x /\ ctl' = AfterEtag(c, rsp, op.res)
  BY <1>1, <1>2, HeardAnswer
<1>4. /\ c \in Controller /\ SameController(c) /\ c.read = NoRead
      /\ c.runs = ctl.runs /\ c.result = ctl.result
  BY <1>0, <1>2, NotedFacts DEF Refused, EtagEffect, Same, SameOperation
<1>5. rsp.kind = "etag" => rsp.etag \in Seq(Units)
  BY <1>2, ReplyCases DEF Refused, EtagEffect
<1>6. HeldOn
  BY <1>0, <1>2, <1>3, SameHeldOn DEF Refused, EtagEffect
<1> HIDE DEF c, rsp
<1>7. /\ ctl' \in Controller /\ ctl'.phase = c.phase /\ ctl'.op = c.op /\ ctl'.op_id = c.op_id
      /\ ctl'.runs = c.runs /\ ctl'.result = c.result /\ ctl'.read = c.read /\ ctl'.got = c.got
      /\ ctl'.stale = c.stale /\ ctl'.handle = c.handle /\ ctl'.dict = c.dict
      /\ ctl'.mixed = c.mixed /\ ctl'.repeated = c.repeated
  <2>1. op.res \in ResourceIds
    BY OperationShape
  <2>2. CASE rsp.kind # "etag"
    BY <1>3, <1>4, <2>2 DEF AfterEtag
  <2>3. CASE rsp.kind = "etag"
    <3>1. ctl' = [c EXCEPT !.etag = <<op.res, rsp.etag>>]
      BY <1>3, <2>3 DEF AfterEtag
    <3>2. <<op.res, rsp.etag>> \in ResourceIds \X Seq(Units)
      BY <1>5, <2>1, <2>3
    <3> QED BY <1>4, <3>1, <3>2 DEF Controller
  <2> QED BY <2>2, <2>3
<1>8. Unmoved
  BY <1>0, <1>2, <1>3, <1>4, <1>7
     DEF Unmoved, SameController, SameOp, SameRuns, Refused, EtagEffect, Same, SameOperation, SameTransfer
<1> QED BY <1>6, <1>7, <1>8, UnmovedKeeps

LEMMA UnitsAreOctets == \A q \in Seq(Units) : q \in Seq(Octets)
  BY DEF Octets

\* What is left when only the phase of the controller changed, and what it read.
OnlyPhase(c) ==
  /\ SameOp /\ SameRuns /\ ctl'.etag = c.etag /\ ctl'.stale = c.stale /\ ctl'.mixed = c.mixed
  /\ ctl'.repeated = c.repeated /\ ctl'.got = c.got /\ ctl'.dict = c.dict

LEMMA PollKeeps ==
  ASSUME SessionInv, Poll
  PROVE  SessionInv'
<1>0. /\ TypeInv /\ DeviceInv /\ ctl.phase = "polling" /\ rde.status # "INACTIVE" /\ ctl.got = <<>>
      /\ ~ctl.mixed /\ rde.status \in Statuses
  BY PollOpens DEF SessionInv, PhaseInv, PhaseMatches, PartsBegin, TypeInv, Device
<1>1. PICK lost, t :
        /\ lost \in BOOLEAN
        /\ Answered(StatusRequest, t) /\ rde' = Heard(t)
        /\ ctl' = AfterStatus(Noted(t), Reply(lost, t.rsp))
  BY PollOpens
<1>2. PICK x, r : x \in Device /\ t = Answer(x, r) /\ (Refused(x, r) \/ StatusEffect(x, r))
  BY <1>0, <1>1, StatusAnswers
<1>d. lost \in BOOLEAN /\ x \in Device
  BY <1>1, <1>2
<1> USE <1>d
<1> DEFINE c == Noted(x)
           rsp == Reply(lost, r)
<1>3. rde' = x /\ ctl' = AfterStatus(c, rsp)
  BY <1>1, <1>2, HeardAnswer
<1>4. /\ c \in Controller /\ SameController(c) /\ c.read = NoRead
      /\ c.runs = ctl.runs /\ c.result = ctl.result
  BY <1>0, <1>2, NotedFacts DEF Refused, StatusEffect, Same, SameOperation
<1>5. rsp.kind = "status" => rsp = r /\ StatusEffect(x, r)
  BY <1>2, ReplyCases DEF Refused
<1>6. HeldOn
  BY <1>0, <1>2, <1>3 DEF HeldOn, Refused, StatusEffect, Same, SameOperation, SameTransfer
<1>7. rde'.recv_next = rde.recv_next /\ rde'.status # "INACTIVE" /\ ctl.op_id = c.op_id
  BY <1>0, <1>2, <1>3, <1>4 DEF Refused, StatusEffect, Same, SameTransfer, SameController
<1> HIDE DEF c, rsp
<1>8. CASE rsp.kind = "lost"
  <2>1. ctl' = c
    BY <1>3, <1>8 DEF AfterStatus
  <2>2. Unmoved
    BY <1>0, <1>4, <1>7, <2>1 DEF Unmoved, SameController, SameOp, SameRuns
  <2> QED BY <1>4, <1>6, <2>1, <2>2, UnmovedKeeps
<1> DEFINE results == rsp.kind = "status" /\ rsp.status = "HAVE_RESULTS"
<1>9. CASE results /\ rsp.payload = <<>>
  <2>1. ctl' = [c EXCEPT !.phase = "receiving", !.handle = rsp.handle]
    BY <1>3, <1>9 DEF AfterStatus
  <2>2. rsp.handle = 0 /\ rde'.status = "HAVE_RESULTS" /\ rde'.op_result = rde.op_result
    BY <1>0, <1>3, <1>5, <1>9 DEF StatusEffect, DeviceInv, StatusMatchesOperation, SameOperation
  <2>3. /\ ctl' \in Controller /\ ctl'.phase = "receiving" /\ ctl'.handle = 0 /\ ctl'.read = NoRead
        /\ OnlyPhase(c)
    <3>1. ctl' = [c EXCEPT !.phase = "receiving", !.handle = 0]
      BY <2>1, <2>2
    <3>2. 0 \in Nat /\ "receiving" \in Phases
      BY DEF Phases
    <3>3. ctl' \in Controller
      BY <1>4, <3>1, <3>2 DEF Controller
    <3> QED BY <1>4, <3>1, <3>3 DEF Controller, OnlyPhase, SameController, SameOp, SameRuns
  <2>4. DeviceInv'
    BY <1>0, <1>6, <2>3, HeldOnKeeps DEF OnlyPhase
  <2>5. PhaseMatches' /\ ParametersMissing' /\ TagKept'
    BY <2>2, <2>3 DEF PhaseMatches, ParametersMissing, TagKept
  <2>6. PartsBegin' /\ DictionarySoFar'
    BY <1>0, <1>4, <1>7, <2>3
       DEF SessionInv, PhaseInv, PartsBegin, DictionarySoFar, OnlyPhase, SameController
  <2>7. ResultSoFar'
    <3>1. rde.op_result \in Seq(Units)
      BY <1>0 DEF TypeInv, Device
    <3>2. Len(rde.op_result) \in Nat /\ SubSeq(rde.op_result, 1, 0) = <<>>
      BY <3>1
    <3>3. ctl'.got = <<>>
      BY <1>0, <1>4, <2>3 DEF OnlyPhase, SameController
    <3> QED BY <2>2, <2>3, <3>2, <3>3 DEF ResultSoFar, SoFar
  <2>8. ExecutedOnce' /\ ReadIsWhole'
    BY <1>4, <2>3, NothingRead DEF SessionInv, ExecutedOnce, OnlyPhase, SameRuns, SameController
  <2> QED BY <1>6, <2>3, <2>4, <2>5, <2>6, <2>7, <2>8 DEF SessionInv, PhaseInv, TypeInv, HeldOn
<1>10. CASE results /\ rsp.payload # <<>>
  <2> DEFINE read == [what |-> "result", dict |-> <<>>, data |-> rsp.payload, good |-> TRUE, clean |-> TRUE]
  <2>1. ctl' = [c EXCEPT !.phase = "closing", !.read = read]
    BY <1>3, <1>10 DEF AfterStatus
  <2>2. rsp.payload = rde.op_result /\ rde.status \in Triggered
    BY <1>0, <1>5, <1>10 DEF StatusEffect, Triggered
  <2>3. rsp.payload \in Seq(Octets)
    BY <1>0, <2>2, UnitsAreOctets DEF TypeInv, Device
  <2>4. /\ read \in Reads /\ read.what = "result" /\ read.good = TRUE /\ read.data = rsp.payload
    BY <2>3 DEF Reads
  <2> HIDE DEF read
  <2>5. ctl' \in Controller /\ ctl'.phase = "closing" /\ ctl'.read = read /\ OnlyPhase(c)
    BY <1>4, <2>1, <2>4 DEF Controller, Phases, OnlyPhase, SameController, SameOp, SameRuns
  <2>6. ReadIsWhole'
    BY <1>0, <2>2, <2>4, <2>5 DEF ReadIsWhole, DeviceInv, RunsKnown, OnlyPhase, SameRuns
  <2>7. Closes
    BY <1>0, <1>4, <1>7, <2>5 DEF Closes, OnlyPhase, SameController
  <2>8. ExecutedOnce'
    BY <1>4, <2>5 DEF SessionInv, ExecutedOnce, OnlyPhase, SameRuns, SameController
  <2>9. DeviceInv'
    BY <1>0, <1>6, <2>5, HeldOnKeeps DEF OnlyPhase
  <2> QED BY <1>6, <2>5, <2>6, <2>7, <2>8, <2>9, ClosesKeeps DEF TypeInv, HeldOn
<1>11. CASE rsp.kind # "lost" /\ ~results
  <2>1. ctl' = [c EXCEPT !.phase = "closing"]
    BY <1>3, <1>11 DEF AfterStatus
  <2>2. ctl' \in Controller /\ ctl'.phase = "closing" /\ ctl'.read = NoRead /\ OnlyPhase(c)
    BY <1>4, <2>1 DEF Controller, Phases, OnlyPhase, SameController, SameOp, SameRuns
  <2>3. Closes
    BY <1>0, <1>4, <1>7, <2>2 DEF Closes, OnlyPhase, SameController
  <2>4. ExecutedOnce' /\ ReadIsWhole'
    BY <1>4, <2>2, NothingRead DEF SessionInv, ExecutedOnce, OnlyPhase, SameRuns, SameController
  <2>5. DeviceInv'
    BY <1>0, <1>6, <2>2, HeldOnKeeps DEF OnlyPhase
  <2> QED BY <1>6, <2>2, <2>3, <2>4, <2>5, ClosesKeeps DEF TypeInv, HeldOn
<1> QED BY <1>8, <1>9, <1>10, <1>11

LEMMA DictionaryBytes ==
  ASSUME NEW d \in Dictionaries
  PROVE  /\ d \in DOMAIN Flash /\ Flash[d] \in Nat
         /\ Dictionary(d) \in Seq(Octets) /\ Len(Dictionary(d)) = Flash[d]
         /\ Flash[d] + CrcLen < WordSize
<1>1. d \in DOMAIN Flash /\ Flash[d] \in Nat
  BY DictionariesAssumption, SizesAssumption
<1>2. \A i \in 1 .. Flash[d] : <<"dict", d, i>> \in Octets
  BY <1>1 DEF Octets
<1> QED BY <1>1, <1>2, LengthsAssumption DEF Dictionary

LEMMA NothingSoFar ==
  ASSUME NEW w, Len(w) \in Nat
  PROVE  0 <= Len(w) /\ SubSeq(w, 1, 0) = <<>>
  OBVIOUS

LEMMA AskDictionaryKeeps ==
  ASSUME SessionInv, AskDictionary
  PROVE  SessionInv'
<1>0. /\ TypeInv /\ DeviceInv /\ ctl.phase = "idle" /\ rde.status = "INACTIVE" /\ ctl.runs = 0
      /\ ctl.got = <<>> /\ ~ctl.mixed
  BY AskDictionaryOpens DEF SessionInv, PhaseInv, PhaseMatches, PartsBegin
<1>1. PICK d, lost, t :
        /\ d \in Dictionaries /\ lost \in BOOLEAN
        /\ Answered(AskFor(d), t) /\ rde' = Heard(t)
        /\ ctl' = AfterAsking(Noted(t), Reply(lost, t.rsp), d)
  BY AskDictionaryOpens
<1>2. PICK x, r : x \in Device /\ t = Answer(x, r) /\ (Refused(x, r) \/ DictionaryEffect(d, x, r))
  BY <1>0, <1>1, DictionaryAnswers
<1>d. d \in Dictionaries /\ lost \in BOOLEAN /\ x \in Device
  BY <1>1, <1>2
<1> USE <1>d
<1> DEFINE c == Noted(x)
           rsp == Reply(lost, r)
<1>3. rde' = x /\ ctl' = AfterAsking(c, rsp, d)
  BY <1>1, <1>2, HeardAnswer
<1>4. /\ c \in Controller /\ SameController(c) /\ c.read = NoRead
      /\ c.runs = ctl.runs /\ c.result = ctl.result
  BY <1>0, <1>2, NotedFacts DEF Refused, DictionaryEffect, Same, SameOperation
<1>5. rsp.kind = "handle" => rsp = r /\ DictionaryEffect(d, x, r)
  BY <1>2, ReplyCases DEF Refused
<1>6. HeldOn /\ rde'.recv_next = rde.recv_next
  BY <1>0, <1>2, <1>3 DEF HeldOn, Refused, DictionaryEffect, Same, SameOperation, SameTransfer
<1> HIDE DEF c, rsp
<1>7. CASE rsp.kind # "handle"
  <2>1. ctl' = c
    BY <1>3, <1>7 DEF AfterAsking
  <2>2. Unmoved
    BY <1>0, <1>4, <1>6, <2>1 DEF Unmoved, SameController, SameOp, SameRuns
  <2> QED BY <1>4, <1>6, <2>1, <2>2, UnmovedKeeps
<1>8. CASE rsp.kind = "handle"
  <2>1. ctl' = [c EXCEPT !.phase = "dictionary", !.dict = d, !.handle = 0]
    BY <1>3, <1>5, <1>8 DEF AfterAsking, DictionaryEffect
  <2>2. 0 \in Nat /\ "dictionary" \in Phases
    BY DEF Phases
  <2>3. ctl' \in Controller
    BY <1>4, <2>1, <2>2 DEF Controller
  <2>4. /\ ctl'.phase = "dictionary" /\ ctl'.dict = d /\ ctl'.handle = 0 /\ ctl'.read = NoRead
        /\ SameRuns /\ ctl'.repeated = ctl.repeated /\ ctl'.got = ctl.got /\ ctl'.stale = ctl.stale
    BY <1>4, <2>1 DEF Controller, SameController, SameRuns
  <2>5. DeviceInv'
    BY <1>0, <1>6, HeldOnKeeps
  <2>6. PhaseMatches' /\ ParametersMissing' /\ TagKept'
    BY <1>0, <1>6, <2>4 DEF PhaseMatches, ParametersMissing, TagKept, HeldOn, SameRuns
  <2>7. PartsBegin' /\ ResultSoFar'
    BY <1>0, <1>6, <2>4 DEF SessionInv, PhaseInv, PartsBegin, ResultSoFar
  <2>8. DictionarySoFar'
    <3>1. Len(Dictionary(d)) \in Nat
      BY DictionaryBytes
    <3>2. d[2] # "REGISTRY" => rde'.buf = "needed" /\ rde'.needed = d /\ rde'.buf_len = Flash[d]
      BY <1>3, <1>5, <1>8 DEF DictionaryEffect
    <3> QED BY <1>0, <2>4, <3>1, <3>2, NothingSoFar DEF DictionarySoFar, SoFar
  <2>9. ExecutedOnce' /\ ReadIsWhole'
    BY <2>4, NothingRead DEF SessionInv, ExecutedOnce, SameRuns
  <2> QED BY <1>6, <2>3, <2>5, <2>6, <2>7, <2>8, <2>9 DEF SessionInv, PhaseInv, TypeInv, HeldOn
<1> QED BY <1>7, <1>8

(***************************************************************************)
(* The parts of a transfer.                                                *)
(***************************************************************************)
\* A part in order continues what was read so far, or completes it.
LEMMA PartJoins ==
  ASSUME TypeInv, NEW w \in Seq(Octets), SoFar(w), NEW x, NEW r, InOrder(w, ctl.handle, x, r)
  PROVE  /\ r.next # 0 => r.next <= Len(w) /\ ctl.got \o r.data = SubSeq(w, 1, r.next)
         /\ r.next = 0 => ctl.got \o r.data = w /\ r.crc = w
<1>1. PICK len \in Nat :
        /\ ctl.handle + len <= Len(w) /\ r.data = SubSeq(w, ctl.handle + 1, ctl.handle + len)
        /\ \/ r.next = 0 /\ ctl.handle + len = Len(w) /\ r.crc = w
           \/ r.next = ctl.handle + len /\ r.next # 0
  BY DEF InOrder
<1> DEFINE h == ctl.handle
<1>2. h \in Nat /\ Len(w) \in Nat /\ ctl.got = SubSeq(w, 1, h)
  BY DEF TypeInv, Controller, SoFar
<1> HIDE DEF h
<1>3. SubSeq(w, 1, h) \o SubSeq(w, h + 1, h + len) = SubSeq(w, 1, h + len)
  <2>1. 1 \in 1 .. Len(w) + 1 /\ h \in 1 - 1 .. Len(w) /\ h + len \in h .. Len(w)
    BY <1>1, <1>2 DEF h
  <2> QED BY <2>1, ConcatAdjacentSubSeq
<1>4. SubSeq(w, 1, Len(w)) = w
  BY SubSeqFull
<1> QED BY <1>1, <1>2, <1>3, <1>4 DEF h

\* What the controller does with a part: the next one, the end, or an end without it.
Broken ==
  /\ ctl'.got = <<>> /\ ctl'.stale = TRUE /\ ctl'.mixed = FALSE /\ ctl'.read = NoRead
Continued(c, r) ==
  /\ ctl'.phase = c.phase /\ ctl'.handle = r.next /\ ctl'.got = c.got \o r.data /\ ctl'.read = NoRead
  /\ ctl'.stale = c.stale /\ ctl'.mixed = c.mixed /\ ctl'.dict = c.dict
Ended(c, r, what) ==
  /\ ctl'.got = <<>> /\ ctl'.handle = 0 /\ ctl'.mixed = FALSE /\ ctl'.stale = c.stale
  /\ ctl'.read.what = what /\ ctl'.read.dict = c.dict /\ ctl'.read.data = c.got \o r.data
  /\ ctl'.read.good <=> c.got \o r.data = r.crc
  /\ ctl'.read.clean <=> ~c.stale /\ ~c.mixed

LEMMA PartCases ==
  ASSUME NEW c \in Controller, c.read = NoRead, NEW rsp, NEW what \in {"dictionary", "result"},
         NEW then \in Phases, rsp.kind = "part" => rsp.next \in Nat /\ rsp.data \in Seq(Octets),
         ctl' = TakePart(c, rsp, what, then)
  PROVE  /\ ctl' \in Controller /\ ctl'.op = c.op /\ ctl'.op_id = c.op_id /\ ctl'.etag = c.etag
         /\ ctl'.sent = c.sent /\ ctl'.repeated = c.repeated /\ ctl'.runs = c.runs
         /\ ctl'.result = c.result
         /\ \/ rsp.kind # "part" /\ ctl'.phase = then /\ Broken
            \/ rsp.kind = "part" /\ rsp.next # 0 /\ Continued(c, rsp)
            \/ rsp.kind = "part" /\ rsp.next = 0 /\ ctl'.phase = then /\ Ended(c, rsp, what)
<1> DEFINE none == <<>>
           yes == TRUE
           no == FALSE
<1>0. /\ none \in Seq(Octets) /\ none \in {<<>>} \cup Dictionaries /\ 0 \in Nat
      /\ yes \in BOOLEAN /\ no \in BOOLEAN
  OBVIOUS
<1>1. CASE rsp.kind # "part"
  <2>1. ctl' = [c EXCEPT !.phase = then, !.got = <<>>, !.handle = 0, !.stale = TRUE, !.dict = <<>>,
                         !.mixed = FALSE]
    BY <1>1 DEF TakePart
  <2>2. ctl' \in Controller
    <3>1. ctl' = [c EXCEPT !.phase = then, !.got = none, !.handle = 0, !.stale = yes, !.dict = none,
                           !.mixed = no]
      BY <2>1
    <3> HIDE DEF none, yes, no
    <3> QED BY <1>0, <3>1 DEF Controller
  <2>3. /\ ctl'.op = c.op /\ ctl'.op_id = c.op_id /\ ctl'.etag = c.etag /\ ctl'.sent = c.sent
        /\ ctl'.repeated = c.repeated /\ ctl'.runs = c.runs /\ ctl'.result = c.result
        /\ ctl'.phase = then /\ ctl'.got = <<>> /\ ctl'.stale = TRUE /\ ctl'.mixed = FALSE
        /\ ctl'.read = c.read
    BY <2>1 DEF Controller
  <2> QED BY <1>1, <2>2, <2>3 DEF Broken
<1>2. CASE rsp.kind = "part" /\ rsp.next # 0
  <2> DEFINE q == c.got \o rsp.data
             next == rsp.next
  <2>1. ctl' = [c EXCEPT !.handle = next, !.got = q]
    BY <1>2 DEF TakePart
  <2>2. q \in Seq(Octets) /\ next \in Nat
    BY <1>2 DEF Controller
  <2>3. Continued(c, rsp)
    BY <2>1 DEF Controller, Continued
  <2> HIDE DEF q, next
  <2> QED BY <1>2, <2>1, <2>2, <2>3 DEF Controller
<1>3. CASE rsp.kind = "part" /\ rsp.next = 0
  <2> DEFINE q == c.got \o rsp.data
             good == q = rsp.crc
             clean == ~c.stale /\ ~c.mixed
             read == [what |-> what, dict |-> c.dict, data |-> q, good |-> good, clean |-> clean]
  <2>1. ctl' = [c EXCEPT !.phase = then, !.got = <<>>, !.handle = 0, !.dict = <<>>, !.mixed = FALSE,
                         !.read = read]
    BY <1>3 DEF TakePart
  <2>2. q \in Seq(Octets) /\ good \in BOOLEAN /\ clean \in BOOLEAN /\ c.dict \in {<<>>} \cup Dictionaries
    BY <1>3 DEF Controller
  <2>3. /\ read.what = what /\ read.dict = c.dict /\ read.data = q
        /\ (read.good <=> good) /\ (read.clean <=> clean)
    OBVIOUS
  <2>4. read \in Reads
    <3> HIDE DEF q, good, clean
    <3> QED BY <2>2 DEF Reads
  <2> HIDE DEF read
  <2>5. ctl' \in Controller
    <3>1. ctl' = [c EXCEPT !.phase = then, !.got = none, !.handle = 0, !.dict = none, !.mixed = no,
                           !.read = read]
      BY <2>1
    <3> HIDE DEF none, yes, no
    <3> QED BY <1>0, <2>4, <3>1 DEF Controller
  <2>6. /\ ctl'.op = c.op /\ ctl'.op_id = c.op_id /\ ctl'.etag = c.etag
        /\ ctl'.sent = c.sent /\ ctl'.repeated = c.repeated /\ ctl'.runs = c.runs
        /\ ctl'.result = c.result /\ ctl'.phase = then /\ ctl'.read = read
        /\ ctl'.got = <<>> /\ ctl'.handle = 0 /\ ctl'.mixed = FALSE /\ ctl'.stale = c.stale
    BY <2>1 DEF Controller
  <2> QED BY <1>3, <2>3, <2>5, <2>6 DEF Ended
<1> QED BY <1>1, <1>2, <1>3

LEMMA ReadDictionaryKeeps ==
  ASSUME SessionInv, ReadDictionary
  PROVE  SessionInv'
<1>0. /\ TypeInv /\ DeviceInv /\ ctl.phase = "dictionary" /\ rde.status = "INACTIVE" /\ ctl.runs = 0
      /\ ctl.dict \in Dictionaries
  BY ReadDictionaryOpens DEF SessionInv, PhaseInv, PhaseMatches, DictionarySoFar
<1>1. PICK lost, t :
        /\ lost \in BOOLEAN
        /\ Answered(PartRequest(0), t) /\ rde' = Heard(t)
        /\ ctl' = TakePart(Noted(t), Reply(lost, t.rsp), "dictionary", "idle")
  BY ReadDictionaryOpens
<1>2. PICK x, r : x \in Device /\ t = Answer(x, r) /\ (Refused(x, r) \/ ReceiveEffect(0, x, r))
  BY <1>0, <1>1, ReceiveAnswers
<1>d. lost \in BOOLEAN /\ x \in Device
  BY <1>1, <1>2
<1> USE <1>d
<1> DEFINE c == Noted(x)
           rsp == Reply(lost, r)
           w == Dictionary(ctl.dict)
<1>3. rde' = x /\ ctl' = TakePart(c, rsp, "dictionary", "idle")
  BY <1>1, <1>2, HeardAnswer
<1>4. /\ c \in Controller /\ SameController(c) /\ c.read = NoRead
      /\ c.runs = ctl.runs /\ c.result = ctl.result
  BY <1>0, <1>2, NotedFacts DEF Refused, ReceiveEffect, Same, SameOperation
<1>5. rsp.kind = "part" => rsp = r /\ ReceiveEffect(0, x, r)
  BY <1>2, ReplyCases DEF Refused
<1>6. HeldOn
  BY <1>0, <1>2, <1>3 DEF HeldOn, Refused, ReceiveEffect, Same, SameOperation, SameTransfer
<1> HIDE DEF c, rsp
<1>7. rsp.kind = "part" => rsp.next \in Nat /\ rsp.data \in Seq(Octets) /\ x.recv_next = rsp.next
  BY <1>5 DEF ReceiveEffect
<1>8. /\ ctl' \in Controller /\ ctl'.op = c.op /\ ctl'.op_id = c.op_id /\ ctl'.etag = c.etag
      /\ ctl'.sent = c.sent /\ ctl'.repeated = c.repeated /\ ctl'.runs = c.runs
      /\ ctl'.result = c.result
      /\ \/ rsp.kind # "part" /\ ctl'.phase = "idle" /\ Broken
         \/ rsp.kind = "part" /\ rsp.next # 0 /\ Continued(c, rsp)
         \/ rsp.kind = "part" /\ rsp.next = 0 /\ ctl'.phase = "idle" /\ Ended(c, rsp, "dictionary")
  <2>1. "idle" \in Phases
    BY DEF Phases
  <2> QED BY <1>3, <1>4, <1>7, <2>1, PartCases
<1>9. DeviceInv' /\ rde'.status = "INACTIVE" /\ ctl'.runs = 0 /\ ExecutedOnce'
  BY <1>0, <1>4, <1>6, <1>8, HeldOnKeeps DEF HeldOn, ExecutedOnce
\* The dictionary is where it is read from.
<1>10. ASSUME rsp.kind = "part", ~ctl.stale, ~ctl.mixed, ctl.dict[2] # "REGISTRY"
       PROVE  /\ w \in Seq(Octets) /\ SoFar(w) /\ InOrder(w, ctl.handle, x, rsp)
              /\ rde'.buf = "needed" /\ rde'.needed = ctl.dict /\ rde'.buf_len = Flash[ctl.dict]
  <2>1. /\ w \in Seq(Octets) /\ Len(w) = Flash[ctl.dict] /\ Len(w) + CrcLen < WordSize
        /\ ctl.dict \in DOMAIN Flash
    BY <1>0, DictionaryBytes
  <2>2. /\ SoFar(w) /\ rde.buf = "needed" /\ rde.needed = ctl.dict /\ rde.buf_len = Flash[ctl.dict]
        /\ rde.recv_next = ctl.handle
    BY <1>0, <1>10 DEF SessionInv, PhaseInv, DictionarySoFar, PartsBegin
  <2> HIDE DEF w
  <2>3. Placed(0, w)
    BY <2>1, <2>2 DEF Placed, Holds, SoFar, w
  <2>4. InOrder(w, ctl.handle, x, rsp)
    BY <1>5, <1>10, <2>1, <2>3 DEF ReceiveEffect
  <2>5. rde'.buf = rde.buf /\ rde'.needed = rde.needed /\ rde'.buf_len = rde.buf_len
    BY <1>3, <1>5, <1>10 DEF ReceiveEffect
  <2> QED BY <2>1, <2>2, <2>4, <2>5
<1>11. CASE rsp.kind # "part" /\ ctl'.phase = "idle" /\ Broken
  <2>1. PhaseInv'
    BY <1>9, <1>11 DEF Broken, PhaseInv, PhaseMatches, ParametersMissing, TagKept, PartsBegin,
                       ResultSoFar, DictionarySoFar
  <2>2. ReadIsWhole'
    BY <1>11, NothingRead DEF Broken
  <2> QED BY <1>6, <1>8, <1>9, <2>1, <2>2 DEF SessionInv, TypeInv, HeldOn
<1>12. CASE rsp.kind = "part" /\ rsp.next # 0 /\ Continued(c, rsp)
  <2>1. /\ ctl'.phase = "dictionary" /\ ctl'.handle = rsp.next /\ ctl'.got = ctl.got \o rsp.data
        /\ ctl'.stale = ctl.stale /\ ctl'.mixed = ctl.mixed /\ ctl'.dict = ctl.dict
    BY <1>0, <1>4, <1>12 DEF Continued, SameController
  <2>2. DictionarySoFar'
    <3>1. ~ctl.stale /\ ~ctl.mixed /\ ctl.dict[2] # "REGISTRY" =>
            /\ rsp.next <= Len(w) /\ ctl.got \o rsp.data = SubSeq(w, 1, rsp.next)
            /\ rde'.buf = "needed" /\ rde'.needed = ctl.dict /\ rde'.buf_len = Flash[ctl.dict]
      <4> HIDE DEF w
      <4> QED BY <1>0, <1>10, <1>12, PartJoins
    <3> QED BY <1>0, <2>1, <3>1 DEF DictionarySoFar, SoFar
  <2>3. PhaseMatches' /\ ParametersMissing' /\ TagKept' /\ PartsBegin' /\ ResultSoFar'
    BY <1>3, <1>7, <1>9, <1>12, <2>1 DEF PhaseMatches, ParametersMissing, TagKept, PartsBegin, ResultSoFar
  <2>4. ReadIsWhole'
    BY <1>12, NothingRead DEF Continued
  <2> QED BY <1>6, <1>8, <1>9, <2>2, <2>3, <2>4 DEF SessionInv, PhaseInv, TypeInv, HeldOn
<1>13. CASE rsp.kind = "part" /\ rsp.next = 0 /\ ctl'.phase = "idle" /\ Ended(c, rsp, "dictionary")
  <2>1. PhaseInv'
    BY <1>3, <1>7, <1>9, <1>13 DEF Ended, PhaseInv, PhaseMatches, ParametersMissing, TagKept,
                                   PartsBegin, ResultSoFar, DictionarySoFar
  <2>2. /\ ctl'.read.dict = ctl.dict /\ ctl'.read.data = ctl.got \o rsp.data
        /\ ctl'.read.what = "dictionary" /\ (ctl'.read.good <=> ctl.got \o rsp.data = rsp.crc)
        /\ (ctl'.read.clean <=> ~ctl.stale /\ ~ctl.mixed)
    BY <1>4, <1>13 DEF Ended, SameController
  <2>3. ~ctl.stale /\ ~ctl.mixed /\ ctl.dict[2] # "REGISTRY" =>
          ctl.got \o rsp.data = w /\ rsp.crc = w
    <3> HIDE DEF w
    <3> QED BY <1>0, <1>10, <1>13, PartJoins
  <2>4. ReadIsWhole'
    BY <2>2, <2>3 DEF ReadIsWhole
  <2> QED BY <1>6, <1>8, <1>9, <2>1, <2>4 DEF SessionInv, TypeInv, HeldOn
<1> QED BY <1>8, <1>11, <1>12, <1>13

LEMMA ReadResultKeeps ==
  ASSUME SessionInv, ReadResult
  PROVE  SessionInv'
<1>0. /\ TypeInv /\ DeviceInv /\ ctl.phase = "receiving" /\ rde.status \in {"HAVE_RESULTS", "COMPLETED"}
      /\ ctl.op_id \in OpIds /\ ctl.result = rde.op_result
  BY ReadResultOpens
     DEF SessionInv, PhaseInv, PhaseMatches, DeviceInv, OperationHeld, RunsKnown, Triggered
<1>1. PICK lost, t :
        /\ lost \in BOOLEAN
        /\ Answered(PartRequest(ctl.op_id), t) /\ rde' = Heard(t)
        /\ ctl' = TakePart(Noted(t), Reply(lost, t.rsp), "result", "closing")
  BY ReadResultOpens
<1>2. PICK x, r : x \in Device /\ t = Answer(x, r) /\ (Refused(x, r) \/ ReceiveEffect(ctl.op_id, x, r))
  BY <1>0, <1>1, ReceiveAnswers
<1>d. lost \in BOOLEAN /\ x \in Device
  BY <1>1, <1>2
<1> USE <1>d
<1> DEFINE c == Noted(x)
           rsp == Reply(lost, r)
           w == rde.op_result
<1>3. rde' = x /\ ctl' = TakePart(c, rsp, "result", "closing")
  BY <1>1, <1>2, HeardAnswer
<1>4. /\ c \in Controller /\ SameController(c) /\ c.read = NoRead
      /\ c.runs = ctl.runs /\ c.result = ctl.result
  BY <1>0, <1>2, NotedFacts DEF Refused, ReceiveEffect, Same, SameOperation
<1>5. rsp.kind = "part" => rsp = r /\ ReceiveEffect(ctl.op_id, x, r)
  BY <1>2, ReplyCases DEF Refused
<1>6. HeldOn /\ rde'.status \in {"HAVE_RESULTS", "COMPLETED"} /\ rde'.op_result = rde.op_result
  BY <1>0, <1>2, <1>3 DEF HeldOn, Refused, ReceiveEffect, Same, SameOperation, SameTransfer
<1> HIDE DEF c, rsp
<1>7. rsp.kind = "part" => rsp.next \in Nat /\ rsp.data \in Seq(Octets) /\ x.recv_next = rsp.next
  BY <1>5 DEF ReceiveEffect
<1>8. /\ ctl' \in Controller /\ ctl'.op = c.op /\ ctl'.op_id = c.op_id /\ ctl'.etag = c.etag
      /\ ctl'.sent = c.sent /\ ctl'.repeated = c.repeated /\ ctl'.runs = c.runs
      /\ ctl'.result = c.result
      /\ \/ rsp.kind # "part" /\ ctl'.phase = "closing" /\ Broken
         \/ rsp.kind = "part" /\ rsp.next # 0 /\ Continued(c, rsp)
         \/ rsp.kind = "part" /\ rsp.next = 0 /\ ctl'.phase = "closing" /\ Ended(c, rsp, "result")
  <2>1. "closing" \in Phases
    BY DEF Phases
  <2> QED BY <1>3, <1>4, <1>7, <2>1, PartCases
<1>9. DeviceInv' /\ ExecutedOnce'
  <2>1. SameOp /\ SameRuns /\ ctl'.repeated = ctl.repeated
    BY <1>4, <1>8 DEF SameController, SameOp, SameRuns
  <2> QED BY <1>0, <1>6, <2>1, HeldOnKeeps DEF SessionInv, ExecutedOnce, SameRuns
\* The result is what is read.
<1>10. ASSUME rsp.kind = "part", ~ctl.stale
       PROVE  /\ w \in Seq(Octets) /\ SoFar(w) /\ InOrder(w, ctl.handle, x, rsp)
              /\ rde'.buf = "result" /\ rde'.buf_len = Len(w)
  <2>1. w \in Seq(Octets) /\ Len(w) + CrcLen < WordSize
    BY <1>0, UnitsAreOctets DEF TypeInv, Device, DeviceInv, Fit
  <2>2. /\ SoFar(w) /\ rde.recv_next = ctl.handle
        /\ ctl.handle # 0 => rde.buf = "result" /\ rde.buf_len = Len(w)
    BY <1>0, <1>10 DEF SessionInv, PhaseInv, ResultSoFar, PartsBegin
  <2>3. ctl.op_id # 0
    BY <1>0, InputsAssumption
  <2>4. Placed(ctl.op_id, w)
    BY <2>1, <2>2, <2>3 DEF Placed, Holds, SoFar
  <2>5. InOrder(w, ctl.handle, x, rsp)
    BY <1>5, <1>10, <2>1, <2>4 DEF ReceiveEffect
  <2>6. rde'.buf = "result" /\ rde'.buf_len = Len(w)
    BY <1>3, <1>5, <1>10, <2>2, <2>3 DEF ReceiveEffect
  <2> QED BY <2>1, <2>2, <2>5, <2>6
<1>11. CASE rsp.kind # "part" /\ ctl'.phase = "closing" /\ Broken
  <2>1. Closes
    BY <1>11 DEF Closes, Broken
  <2>2. ReadIsWhole'
    BY <1>11, NothingRead DEF Broken
  <2> QED BY <1>6, <1>8, <1>9, <2>1, <2>2, ClosesKeeps DEF TypeInv, HeldOn
<1>12. CASE rsp.kind = "part" /\ rsp.next # 0 /\ Continued(c, rsp)
  <2>1. /\ ctl'.phase = "receiving" /\ ctl'.handle = rsp.next /\ ctl'.got = ctl.got \o rsp.data
        /\ ctl'.stale = ctl.stale /\ ctl'.mixed = ctl.mixed
    BY <1>0, <1>4, <1>12 DEF Continued, SameController
  <2>2. ResultSoFar'
    <3>1. ~ctl.stale =>
            /\ rsp.next <= Len(w) /\ ctl.got \o rsp.data = SubSeq(w, 1, rsp.next)
            /\ rde'.buf = "result" /\ rde'.buf_len = Len(w)
      <4> HIDE DEF w
      <4> QED BY <1>0, <1>10, <1>12, PartJoins
    <3> QED BY <1>6, <2>1, <3>1 DEF ResultSoFar, SoFar
  <2>3. PhaseMatches' /\ ParametersMissing' /\ TagKept' /\ PartsBegin' /\ DictionarySoFar'
    BY <1>0, <1>3, <1>6, <1>7, <1>12, <2>1
       DEF SessionInv, PhaseInv, PhaseMatches, ParametersMissing, TagKept, PartsBegin, DictionarySoFar
  <2>4. ReadIsWhole'
    BY <1>12, NothingRead DEF Continued
  <2> QED BY <1>6, <1>8, <1>9, <2>2, <2>3, <2>4 DEF SessionInv, PhaseInv, TypeInv, HeldOn
<1>13. CASE rsp.kind = "part" /\ rsp.next = 0 /\ ctl'.phase = "closing" /\ Ended(c, rsp, "result")
  <2>1. Closes
    BY <1>6, <1>13 DEF Closes, Ended
  <2>2. /\ ctl'.read.data = ctl.got \o rsp.data /\ ctl'.read.what = "result"
        /\ (ctl'.read.good <=> ctl.got \o rsp.data = rsp.crc)
        /\ (ctl'.read.clean <=> ~ctl.stale /\ ~ctl.mixed)
    BY <1>4, <1>13 DEF Ended, SameController
  <2>3. ~ctl.stale => ctl.got \o rsp.data = w /\ rsp.crc = w
    <3> HIDE DEF w
    <3> QED BY <1>0, <1>10, <1>13, PartJoins
  <2>4. ctl'.result = w
    BY <1>0, <1>4, <1>8
  <2>5. ReadIsWhole'
    BY <2>2, <2>3, <2>4 DEF ReadIsWhole
  <2> QED BY <1>6, <1>8, <1>9, <2>1, <2>5, ClosesKeeps DEF TypeInv, HeldOn
<1> QED BY <1>8, <1>11, <1>12, <1>13

\* A link that changes takes the place of a dictionary, of nothing else.
LEMMA LinkChangesKeeps ==
  ASSUME SessionInv, LinkChanges
  PROVE  SessionInv'
<1> DEFINE g == pldm_redfish_get_dict_data(rde, AllSchema, "EVENT")
           mixed == ctl.mixed \/ ctl.phase = "dictionary"
<1>0. TypeInv /\ rde \in Device /\ ctl \in Controller
  BY DEF SessionInv, TypeInv
<1>1. g \in Device /\ SameButNeeded(rde, g)
  BY <1>0, DictionaryFetched
<1>2. rde' = [g EXCEPT !.ran = FALSE] /\ ctl' = [ctl EXCEPT !.read = NoRead, !.mixed = mixed]
  BY DEF LinkChanges, pldm_redfish_msg_event_generate
<1>3. mixed \in BOOLEAN /\ NoRead \in Reads
  BY <1>0 DEF Controller, Reads
<1>4. mixed = ctl.mixed \/ (ctl.phase = "dictionary" /\ mixed = TRUE)
  BY <1>0 DEF Controller
<1>5. ctl.phase = "dictionary" => mixed = TRUE
  OBVIOUS
<1> HIDE DEF g, mixed
<1>6. rde' \in Device /\ SameButNeeded([rde EXCEPT !.ran = FALSE], rde')
  BY <1>0, <1>1, <1>2 DEF Device, SameButNeeded
<1>7. HeldOn
  BY <1>0, <1>6 DEF HeldOn, SameButNeeded, Device
<1>8. ctl' \in Controller
  BY <1>0, <1>2, <1>3 DEF Controller
<1>9. Unmoved
  BY <1>0, <1>2, <1>4, <1>5, <1>6 DEF Unmoved, SameOp, SameRuns, SameButNeeded, Device, Controller
<1> QED BY <1>7, <1>8, <1>9, UnmovedKeeps

LEMMA GiveUpKeeps ==
  ASSUME SessionInv, GiveUp
  PROVE  SessionInv'
<1>0. /\ TypeInv /\ DeviceInv /\ rde \in Device /\ ctl \in Controller /\ rde.status # "INACTIVE"
      /\ rde' = rde /\ ~ctl.mixed
  BY DEF GiveUp, SessionInv, TypeInv, PhaseInv, PhaseMatches, PartsBegin
<1> DEFINE none == <<>>
<1>1. /\ none \in Seq(Octets) /\ "closing" \in Phases /\ NoRead \in Reads
  BY DEF Phases, Reads
<1>2. ctl' = [ctl EXCEPT !.phase = "closing", !.read = NoRead, !.got = none, !.handle = 0, !.sent = 0]
  BY DEF GiveUp
<1>3. ctl'.got = <<>>
  BY <1>0, <1>2 DEF Controller
<1> HIDE DEF none
<1>4. ctl' \in Controller
  BY <1>0, <1>1, <1>2 DEF Controller
<1>5. /\ SameOp /\ SameRuns /\ ctl'.phase = "closing" /\ ctl'.mixed = ctl.mixed /\ ctl'.read = NoRead
      /\ ctl'.repeated = ctl.repeated
  BY <1>0, <1>2 DEF Controller, SameOp, SameRuns
<1>6. HeldOn
  BY <1>0 DEF HeldOn
<1>7. DeviceInv'
  BY <1>0, <1>5, <1>6, HeldOnKeeps
<1>8. Closes
  BY <1>0, <1>3, <1>5 DEF Closes
<1>9. ExecutedOnce' /\ ReadIsWhole'
  BY <1>5, NothingRead DEF SessionInv, ExecutedOnce, SameRuns
<1> QED BY <1>0, <1>4, <1>7, <1>8, <1>9, ClosesKeeps DEF TypeInv

\* The operation is over for both.
Idles ==
  /\ ctl'.phase = "idle" /\ ctl'.runs = 0 /\ ctl'.got = <<>> /\ ~ctl'.mixed /\ ctl'.read = NoRead
  /\ rde'.status = "INACTIVE"
  /\ ~ctl'.stale => rde'.recv_next = 0

LEMMA IdlesKeeps ==
  ASSUME TypeInv', DeviceInv', Idles
  PROVE  SessionInv'
<1>1. PhaseInv'
  BY DEF Idles, PhaseInv, PhaseMatches, ParametersMissing, TagKept, PartsBegin, ResultSoFar,
         DictionarySoFar
<1>2. ExecutedOnce' /\ ReadIsWhole'
  BY NothingRead DEF Idles, ExecutedOnce
<1> QED BY <1>1, <1>2 DEF SessionInv

LEMMA ControllerCleared ==
  ASSUME NEW c \in Controller, NEW u, u = Cleared(c) \/ u = [Cleared(c) EXCEPT !.stale = c.stale]
  PROVE  /\ u \in Controller /\ u.phase = "idle" /\ u.runs = 0 /\ u.got = c.got
         /\ u.mixed = c.mixed /\ u.read = c.read
<1> DEFINE none == <<>>
           tag == IF "custom" \in c.op.flags THEN none ELSE c.etag
           no == FALSE
<1>1. /\ none \in Seq(Units) /\ tag \in {<<>>} \cup (ResourceIds \X Seq(Units)) /\ no \in BOOLEAN
      /\ NoOp \in Ops /\ "idle" \in Phases /\ 0 \in Nat
  BY DEF Controller, NoOp, Ops, OpTypes, Phases
<1>2. Cleared(c) = [c EXCEPT !.phase = "idle", !.op = NoOp, !.op_id = 0, !.etag = tag, !.sent = 0,
                             !.stale = no, !.repeated = no, !.runs = 0, !.result = none]
  BY DEF Cleared
<1>3. no = FALSE /\ none = <<>>
  OBVIOUS
<1> HIDE DEF none, tag, no
<1>4. Cleared(c) \in Controller
  BY <1>1, <1>2 DEF Controller
<1>5. /\ Cleared(c).phase = "idle" /\ Cleared(c).runs = 0 /\ Cleared(c).got = c.got
      /\ Cleared(c).mixed = c.mixed /\ Cleared(c).read = c.read /\ Cleared(c).stale = FALSE
  BY <1>2, <1>3 DEF Controller
<1> HIDE DEF Cleared
<1>6. CASE u = Cleared(c)
  BY <1>4, <1>5, <1>6
<1>7. CASE u = [Cleared(c) EXCEPT !.stale = c.stale]
  BY <1>4, <1>5, <1>7 DEF Controller
<1> QED BY <1>6, <1>7

LEMMA CompleteKeeps ==
  ASSUME SessionInv, Complete
  PROVE  SessionInv'
<1>0. /\ TypeInv /\ DeviceInv /\ ctl.phase = "closing" /\ ctl.got = <<>> /\ ~ctl.mixed
      /\ ~ctl.stale /\ rde.status = "INACTIVE" => rde.recv_next = 0
  BY CompleteOpens DEF SessionInv, PhaseInv, PartsBegin
<1>1. PICK lost, t :
        /\ lost \in BOOLEAN
        /\ Answered(CompleteRequest, t) /\ rde' = Heard(t)
        /\ ctl' = AfterComplete(Noted(t), Reply(lost, t.rsp))
  BY CompleteOpens
<1>2. PICK x, r :
        /\ x \in Device
        /\ t = Answer(x, r)
        /\ \/ EndEffect(x, r)
           \/ /\ Refused(x, r)
              /\ \/ resource_id_to_resource_identity(ctl.op.res) = NoResource
                 \/ rde.prev # [resource_id |-> ctl.op.res, op_id |-> ctl.op_id]
  BY <1>0, <1>1, CompleteAnswers
<1>d. lost \in BOOLEAN /\ x \in Device
  BY <1>1, <1>2
<1> USE <1>d
<1> DEFINE c == Noted(x)
           rsp == Reply(lost, r)
<1>3. rde' = x /\ ctl' = AfterComplete(c, rsp)
  BY <1>1, <1>2, HeardAnswer
<1>4. /\ c \in Controller /\ SameController(c) /\ c.read = NoRead
      /\ c.runs = ctl.runs /\ c.result = ctl.result
  BY <1>0, <1>2, NotedFacts DEF Refused, EndEffect, ClearedDevice, Same, SameOperation
<1>5. CASE EndEffect(x, r)
  <2>1. DeviceInv'
    BY <1>0, <1>3, <1>5, ClearedKeeps DEF EndEffect
  <2>2. rde'.status = "INACTIVE" /\ rde'.recv_next = 0
    BY <1>3, <1>5 DEF EndEffect, ClearedDevice
  <2>3. rsp.kind \in {"lost", "ok"}
    BY <1>5, ReplyCases DEF EndEffect
  <2> HIDE DEF c, rsp
  <2>4. CASE rsp.kind = "lost"
    <3>1. ctl' = c
      BY <1>3, <2>4 DEF AfterComplete
    <3>2. Closes
      BY <1>0, <1>4, <2>2, <3>1 DEF Closes, SameController
    <3>3. ExecutedOnce' /\ ReadIsWhole'
      BY <1>4, <3>1, NothingRead DEF SessionInv, ExecutedOnce, SameController
    <3> QED BY <1>3, <1>4, <2>1, <3>1, <3>2, <3>3, ClosesKeeps DEF TypeInv
  <2>5. CASE rsp.kind = "ok"
    <3>1. ctl' = Cleared(c)
      BY <1>3, <2>5 DEF AfterComplete
    <3>2. /\ ctl' \in Controller /\ ctl'.phase = "idle" /\ ctl'.runs = 0 /\ ctl'.got = c.got
          /\ ctl'.mixed = c.mixed /\ ctl'.read = c.read
      BY <1>4, <3>1, ControllerCleared
    <3>3. Idles
      BY <1>0, <1>4, <2>2, <3>2 DEF Idles, SameController
    <3> QED BY <1>3, <2>1, <3>2, <3>3, IdlesKeeps DEF TypeInv
  <2> QED BY <2>3, <2>4, <2>5
<1>6. CASE /\ Refused(x, r)
           /\ \/ resource_id_to_resource_identity(ctl.op.res) = NoResource
              \/ rde.prev # [resource_id |-> ctl.op.res, op_id |-> ctl.op_id]
  <2>1. rde.status = "INACTIVE"
    BY <1>0, <1>6 DEF DeviceInv, OperationHeld
  <2>2. HeldOn /\ rde'.recv_next = rde.recv_next /\ rde'.status = "INACTIVE"
    BY <1>0, <1>3, <1>6, <2>1, SameHeldOn DEF Refused, Same, SameTransfer
  <2>3. rsp.kind \in {"lost", "error"}
    BY <1>6, ReplyCases DEF Refused
  <2> HIDE DEF c, rsp
  <2>4. CASE rsp.kind = "lost"
    <3>1. ctl' = c
      BY <1>3, <2>4 DEF AfterComplete
    <3>2. Unmoved
      BY <1>0, <1>4, <2>2, <3>1 DEF Unmoved, SameController, SameOp, SameRuns
    <3> QED BY <1>4, <2>2, <3>1, <3>2, UnmovedKeeps
  <2>5. CASE rsp.kind = "error"
    <3>1. ctl' = [Cleared(c) EXCEPT !.stale = c.stale]
      BY <1>3, <2>5 DEF AfterComplete
    <3>2. /\ ctl' \in Controller /\ ctl'.phase = "idle" /\ ctl'.runs = 0 /\ ctl'.got = c.got
          /\ ctl'.mixed = c.mixed /\ ctl'.read = c.read
      BY <1>4, <3>1, ControllerCleared
    <3>3. ctl'.stale = c.stale
      <4>1. Cleared(c) \in Controller
        BY <1>4, ControllerCleared
      <4> QED BY <3>1, <4>1 DEF Controller
    <3>4. Idles
      BY <1>0, <1>4, <2>1, <2>2, <3>2, <3>3 DEF Idles, SameController
    <3>5. DeviceInv'
      BY <1>0, <2>1, <2>2, HeldOnKeeps
    <3> QED BY <2>2, <3>2, <3>4, <3>5, IdlesKeeps DEF TypeInv, HeldOn
  <2> QED BY <2>3, <2>4, <2>5
<1> QED BY <1>2, <1>5, <1>6

LEMMA KillKeeps ==
  ASSUME SessionInv, Kill
  PROVE  SessionInv'
<1>0. /\ TypeInv /\ DeviceInv /\ ctl.phase = "closing" /\ ctl.got = <<>> /\ ~ctl.mixed
  BY KillOpens DEF SessionInv, PhaseInv, PartsBegin
<1>1. PICK flg, lost, t :
        /\ flg \in 1 .. 3 /\ lost \in BOOLEAN
        /\ Answered(KillRequest(flg), t) /\ rde' = Heard(t)
        /\ ctl' = AfterKill(Noted(t), Reply(lost, t.rsp))
  BY KillOpens
<1>2. PICK x, r : x \in Device /\ t = Answer(x, r) /\ (Refused(x, r) \/ EndEffect(x, r))
  BY <1>0, <1>1, KillAnswers
<1>d. flg \in 1 .. 3 /\ lost \in BOOLEAN /\ x \in Device
  BY <1>1, <1>2
<1> USE <1>d
<1> DEFINE c == Noted(x)
           rsp == Reply(lost, r)
<1>3. rde' = x /\ ctl' = AfterKill(c, rsp)
  BY <1>1, <1>2, HeardAnswer
<1>4. /\ c \in Controller /\ SameController(c) /\ c.read = NoRead
      /\ c.runs = ctl.runs /\ c.result = ctl.result
  BY <1>0, <1>2, NotedFacts DEF Refused, EndEffect, ClearedDevice, Same, SameOperation
<1>5. rsp.kind = "ok" => EndEffect(x, r)
  BY <1>2, ReplyCases DEF Refused
<1> HIDE DEF c, rsp
<1>6. CASE rsp.kind = "ok"
  <2>1. DeviceInv'
    BY <1>0, <1>3, <1>5, <1>6, ClearedKeeps DEF EndEffect
  <2>2. ctl' = Cleared(c)
    BY <1>3, <1>6 DEF AfterKill
  <2>3. /\ ctl' \in Controller /\ ctl'.phase = "idle" /\ ctl'.runs = 0 /\ ctl'.got = c.got
        /\ ctl'.mixed = c.mixed /\ ctl'.read = c.read
    BY <1>4, <2>2, ControllerCleared
  <2>4. Idles
    BY <1>0, <1>3, <1>4, <1>5, <1>6, <2>3 DEF Idles, SameController, EndEffect, ClearedDevice
  <2> QED BY <1>3, <2>1, <2>3, <2>4, IdlesKeeps DEF TypeInv
<1>7. CASE rsp.kind # "ok"
  <2>1. ctl' = c
    BY <1>3, <1>7 DEF AfterKill
  <2>2. CASE Refused(x, r)
    <3>1. HeldOn /\ rde'.recv_next = rde.recv_next
      BY <1>0, <1>3, <2>2, SameHeldOn DEF Refused, Same, SameTransfer
    <3>2. Unmoved
      BY <1>0, <1>4, <2>1, <3>1 DEF Unmoved, SameController, SameOp, SameRuns
    <3> QED BY <1>4, <2>1, <3>1, <3>2, UnmovedKeeps
  <2>3. CASE EndEffect(x, r)
    <3>1. DeviceInv'
      BY <1>0, <1>3, <2>3, ClearedKeeps DEF EndEffect
    <3>2. Closes
      BY <1>0, <1>3, <1>4, <2>1, <2>3 DEF Closes, SameController, EndEffect, ClearedDevice
    <3>3. ExecutedOnce' /\ ReadIsWhole'
      BY <1>4, <2>1, NothingRead DEF SessionInv, ExecutedOnce, SameController
    <3> QED BY <1>3, <1>4, <2>1, <3>1, <3>2, <3>3, ClosesKeeps DEF TypeInv
  <2> QED BY <1>2, <2>2, <2>3
<1> QED BY <1>6, <1>7

(***************************************************************************)
(* An operation begins.                                                    *)
(***************************************************************************)
\* The controller takes the operation up, in the phase that the answer calls for.
TakesUp(c, op, id, rsp) ==
  /\ ctl' \in Controller /\ ctl'.op = op /\ ctl'.op_id = id /\ ctl'.repeated = FALSE
  /\ ctl'.runs = c.runs /\ ctl'.result = c.result /\ ctl'.got = c.got /\ ctl'.mixed = c.mixed
  /\ ctl'.read = c.read /\ ctl'.stale = c.stale
  /\ \/ rsp.kind = "lost" /\ ctl'.phase = "closing"
     \/ /\ rsp.kind = "ok"
        /\ ctl'.phase = IF "custom" \in op.flags THEN "custom" ELSE AfterParameters(op)

LEMMA OperationTakenUp ==
  ASSUME NEW c \in Controller, NEW op \in Operations, NEW id \in OpIds, NEW rsp,
         rsp.kind \in {"lost", "ok"}, ctl' = AfterInit(c, rsp, op, id)
  PROVE  TakesUp(c, op, id, rsp)
<1> DEFINE ph == CASE rsp.kind = "lost" -> "closing"
                   [] rsp.kind = "ok" /\ "custom" \in op.flags -> "custom"
                   [] OTHER -> AfterParameters(op)
           no == FALSE
<1>1. \/ rsp.kind = "lost" /\ ph = "closing"
      \/ rsp.kind = "ok" /\ ph = IF "custom" \in op.flags THEN "custom" ELSE AfterParameters(op)
  OBVIOUS
<1>2. ph \in Phases
  BY <1>1 DEF Phases, AfterParameters
<1>3. ctl' = [c EXCEPT !.op = op, !.op_id = id, !.sent = 0, !.repeated = no, !.phase = ph]
  BY DEF AfterInit
<1>4. op \in Ops /\ no \in BOOLEAN /\ no = FALSE /\ 0 \in Nat
  BY OperationShape
<1> HIDE DEF ph, no
<1>5. ctl' \in Controller
  BY <1>2, <1>3, <1>4 DEF Controller
<1>6. /\ ctl'.op = op /\ ctl'.op_id = id /\ ctl'.repeated = FALSE
      /\ ctl'.runs = c.runs /\ ctl'.result = c.result /\ ctl'.got = c.got /\ ctl'.mixed = c.mixed
      /\ ctl'.read = c.read /\ ctl'.stale = c.stale /\ ctl'.phase = ph
  BY <1>3, <1>4 DEF Controller
<1> QED BY <1>1, <1>5, <1>6 DEF TakesUp

LEMMA StartKeeps ==
  ASSUME SessionInv, StartOperation
  PROVE  SessionInv'
<1>0. /\ TypeInv /\ DeviceInv /\ ctl.phase = "idle" /\ rde.status = "INACTIVE" /\ ctl.runs = 0
      /\ ctl.got = <<>> /\ ~ctl.mixed /\ CollectionsWhole(rde)
      /\ ~ctl.stale => rde.recv_next = 0
  BY StartOpens DEF SessionInv, PhaseInv, PhaseMatches, PartsBegin, DeviceInv
<1>1. PICK op, id, lost, t :
        /\ op \in Operations /\ id \in OpIds /\ lost \in BOOLEAN
        /\ Answered(InitRequest(op, id), t) /\ rde' = Heard(t)
        /\ ctl' = AfterInit(Noted(t), Reply(lost, t.rsp), op, id)
  BY StartOpens
<1>2. PICK x, r : x \in Device /\ t = Answer(x, r) /\ (Refused(x, r) \/ BeginEffect(op, id, x, r))
  BY <1>0, <1>1, BeginAnswers
<1>d. op \in Operations /\ id \in OpIds /\ lost \in BOOLEAN /\ x \in Device
  BY <1>1, <1>2
<1> USE <1>d
<1> DEFINE c == Noted(x)
           rsp == Reply(lost, r)
<1>3. rde' = x /\ ctl' = AfterInit(c, rsp, op, id)
  BY <1>1, <1>2, HeardAnswer
<1>4. /\ c \in Controller /\ SameController(c) /\ c.read = NoRead
      /\ x.ran = FALSE => c.runs = ctl.runs /\ c.result = ctl.result
      /\ x.ran = TRUE => c.runs = ctl.runs + 1 /\ c.result = x.op_result
  BY <1>0, <1>2, NotedFacts
<1>5. /\ op \in Ops /\ op.flags \in SUBSET Flags /\ Len(op.payload) + CrcLen < WordSize
      /\ op.payload \in Seq(Units)
      /\ "payload" \notin op.flags => op.payload = <<>>
  BY OperationShape
<1>6. rsp = r \/ rsp.kind = "lost"
  BY ReplyCases
<1> HIDE DEF c, rsp
<1>7. CASE Refused(x, r)
  <2>1. HeldOn /\ rde'.recv_next = rde.recv_next /\ rde'.status = "INACTIVE"
    BY <1>0, <1>3, <1>7, SameHeldOn DEF Refused, Same, SameTransfer
  <2>2. c.runs = ctl.runs /\ c.result = ctl.result
    BY <1>4, <1>7 DEF Refused, Same, SameOperation
  <2>3. CASE rsp.kind = "error"
    <3>1. ctl' = c
      BY <1>3, <2>3 DEF AfterInit
    <3>2. Unmoved
      BY <1>0, <1>4, <2>1, <2>2, <3>1 DEF Unmoved, SameController, SameOp, SameRuns
    <3> QED BY <1>4, <2>1, <3>1, <3>2, UnmovedKeeps
  <2>4. CASE rsp.kind = "lost"
    <3>1. TakesUp(c, op, id, rsp)
      BY <1>3, <1>4, <2>4, OperationTakenUp
    <3>2. Closes
      BY <1>0, <1>4, <2>1, <2>4, <3>1 DEF Closes, TakesUp, SameController
    <3>3. ExecutedOnce' /\ ReadIsWhole'
      BY <1>0, <1>4, <2>2, <3>1, NothingRead DEF TakesUp, ExecutedOnce
    <3>4. DeviceInv'
      BY <1>0, <2>1, HeldOnKeeps
    <3> QED BY <2>1, <3>1, <3>2, <3>3, <3>4, ClosesKeeps DEF TakesUp, TypeInv, HeldOn
  <2> QED BY <1>6, <1>7, <2>3, <2>4 DEF Refused
<1>8. CASE BeginEffect(op, id, x, r)
  <2>0. rsp.kind \in {"lost", "ok"}
    BY <1>6, <1>8 DEF BeginEffect
  <2>1. TakesUp(c, op, id, rsp)
    BY <1>3, <1>4, <2>0, OperationTakenUp
  <2>2. /\ rde.op_data = <<>> /\ rde.op_result = <<>> /\ rde.buf # "result"
    BY <1>0 DEF DeviceInv, StatusMatchesOperation
  <2>3. x.prev = [resource_id |-> op.res, op_id |-> id] /\ x.op_type = op.op_type => OperationHeld'
    BY <1>3, <1>8, <2>1 DEF BeginEffect, TakesUp, OperationHeld
\* It waits for more, or it ran; in either case it is held.
  <2>4. /\ DeviceInv' /\ rde'.status # "INACTIVE" /\ rde'.recv_next = rde.recv_next
        /\ ctl'.runs <= 1
        /\ StillMissing(op) # {} =>
             /\ rde'.status = "NEEDS_INPUT" /\ rde'.op_flag = StillMissing(op)
             /\ "payload" \notin rde'.op_flag => rde'.op_data = op.payload
    <3>1. CASE StillMissing(op) # {} /\ x.status = "NEEDS_INPUT" /\ Holding(op, id, x)
      <4>1. /\ OperationHeld' /\ rde' \in Device /\ rde'.op_flag = StillMissing(op)
            /\ rde'.op_result = <<>> /\ rde'.buf # "result" /\ rde'.body = rde.body
            /\ rde'.recv_next = rde.recv_next /\ rde'.status = "NEEDS_INPUT"
            /\ rde'.op_data = IF Whole(op) THEN op.payload ELSE <<>>
        BY <1>3, <2>2, <2>3, <3>1 DEF Holding
      <4>2. ctl'.runs = 0
        BY <1>0, <1>4, <2>1, <3>1 DEF TakesUp, Holding
      <4>3. "payload" \notin rde'.op_flag => rde'.op_data = op.payload
        BY <1>5, <4>1 DEF StillMissing, Whole
      <4>4. DeviceInv'
        BY <1>0, <3>1, <4>1, <4>2, WaitingKeeps
      <4> QED BY <4>1, <4>2, <4>3, <4>4
    <3>2. CASE StillMissing(op) = {} /\ \E b \in Device : Holding(op, id, b) /\ Runnable(b) /\ Ran(b, x)
      <4>1. PICK b \in Device : Holding(op, id, b) /\ Runnable(b) /\ Ran(b, x)
        BY <3>2
      <4>2. /\ OperationHeld' /\ rde'.recv_next = rde.recv_next /\ rde'.status \in Triggered
            /\ x.ran = TRUE
        BY <1>3, <2>3, <4>1 DEF Holding, Ran, SameRequest
      <4>3. ctl'.runs = 1 /\ ctl'.result = rde'.op_result
        BY <1>0, <1>3, <1>4, <2>1, <4>2 DEF TakesUp
      <4>4. Len(b.op_data) + CrcLen < WordSize
        <5>1. 0 + CrcLen < WordSize
          BY SizesAssumption, LengthsAssumption
        <5> QED BY <1>5, <2>2, <4>1, <5>1 DEF Holding
      <4>5. b.op_flag = {} /\ b.body = rde.body
        BY <3>2, <4>1 DEF Holding
      <4>6. DeviceInv'
        BY <1>0, <1>3, <4>1, <4>2, <4>3, <4>4, <4>5, RanKeeps
      <4> QED BY <3>2, <4>2, <4>3, <4>6 DEF Triggered
    <3> QED BY <1>8, <3>1, <3>2 DEF BeginEffect
  <2>5. ExecutedOnce' /\ ReadIsWhole'
    BY <1>4, <2>1, <2>4, NothingRead DEF TakesUp, ExecutedOnce
  <2>6. CASE rsp.kind = "lost"
    <3>1. Closes
      BY <1>0, <1>4, <2>1, <2>4, <2>6 DEF Closes, TakesUp, SameController
    <3> QED BY <1>3, <2>1, <2>4, <2>5, <3>1, ClosesKeeps DEF TakesUp, TypeInv
  <2>7. CASE rsp.kind = "ok"
    <3>1. ctl'.phase = IF "custom" \in op.flags THEN "custom" ELSE AfterParameters(op)
      BY <2>1, <2>7 DEF TakesUp
    <3>2. ctl'.phase \in {"custom", "sending"} => StillMissing(op) # {}
      BY <3>1 DEF AfterParameters, StillMissing, Whole
    <3>3. ctl'.phase \in {"custom", "sending", "polling"}
      BY <3>1 DEF AfterParameters
    <3>4. ctl'.phase = "sending" => "custom" \notin op.flags
      BY <3>1
    <3>5. PhaseMatches' /\ ParametersMissing' /\ TagKept'
      BY <2>1, <2>4, <3>2, <3>3, <3>4 DEF PhaseMatches, ParametersMissing, TagKept, TakesUp
    <3>6. PartsBegin' /\ ResultSoFar' /\ DictionarySoFar'
      BY <1>0, <1>4, <2>1, <2>4, <3>3
         DEF PartsBegin, ResultSoFar, DictionarySoFar, TakesUp, SameController
    <3> QED BY <1>3, <2>1, <2>4, <2>5, <3>5, <3>6 DEF SessionInv, PhaseInv, TakesUp, TypeInv
  <2> QED BY <2>0, <2>6, <2>7
<1> QED BY <1>2, <1>7, <1>8

(***************************************************************************)
(* Its parameters arrive, and its payload.                                 *)
(***************************************************************************)
\* The controller goes on to another phase with what it has.
GoesTo(c, phase) ==
  /\ ctl' \in Controller /\ ctl'.phase = phase /\ ctl'.op = c.op /\ ctl'.op_id = c.op_id
  /\ ctl'.etag = c.etag /\ ctl'.got = c.got /\ ctl'.read = c.read /\ ctl'.stale = c.stale
  /\ ctl'.mixed = c.mixed /\ ctl'.repeated = c.repeated /\ ctl'.runs = c.runs /\ ctl'.result = c.result

LEMMA SuppliedTo ==
  ASSUME NEW c \in Controller, NEW rsp, ctl' = AfterSupply(c, rsp)
  PROVE  GoesTo(c, IF rsp.kind = "ok" THEN AfterParameters(c.op) ELSE "closing")
<1> DEFINE ph == IF rsp.kind = "ok" THEN AfterParameters(c.op) ELSE "closing"
<1>1. ph \in Phases
  BY DEF Phases, AfterParameters
<1>2. ctl' = [c EXCEPT !.phase = ph]
  BY DEF AfterSupply
<1> HIDE DEF ph
<1>3. GoesTo(c, ph)
  BY <1>1, <1>2 DEF GoesTo, Controller
<1> QED BY <1>3 DEF ph

\* The controller gives up on an operation that the device still holds, or has run.
LEMMA ClosingKeeps ==
  ASSUME NEW c, SameController(c), c.read = NoRead, GoesTo(c, "closing"), ctl.got = <<>>, ~ctl.mixed,
         rde' \in Device, DeviceInv', rde'.status # "INACTIVE", ctl.repeated \/ c.runs <= 1
  PROVE  SessionInv'
<1>1. Closes
  BY DEF Closes, GoesTo, SameController
<1>2. ExecutedOnce' /\ ReadIsWhole'
  BY NothingRead DEF GoesTo, SameController, ExecutedOnce
<1> QED BY <1>1, <1>2, ClosesKeeps DEF TypeInv, GoesTo

LEMMA SupplyKeeps ==
  ASSUME SessionInv, SupplyCustom
  PROVE  SessionInv'
<1>0. /\ TypeInv /\ DeviceInv /\ ctl.phase = "custom" /\ rde.status = "NEEDS_INPUT" /\ ctl.runs = 0
      /\ ctl.got = <<>> /\ ~ctl.mixed /\ CollectionsWhole(rde)
      /\ ~ctl.stale => rde.recv_next = 0
  BY SupplyOpens DEF SessionInv, PhaseInv, PhaseMatches, PartsBegin, DeviceInv, RunsKnown
<1>1. PICK page, lost, t :
        /\ page \in Pages /\ lost \in BOOLEAN
        /\ Answered(SupplyRequest(page), t) /\ rde' = Heard(t)
        /\ ctl' = AfterSupply(Noted(t), Reply(lost, t.rsp))
  BY SupplyOpens
<1>d. page \in Pages /\ lost \in BOOLEAN
  BY <1>1
<1> USE <1>d
<1>a. /\ ctl.op \in Operations /\ rde.prev = [resource_id |-> ctl.op.res, op_id |-> ctl.op_id]
      /\ IsCollection(ctl.op.res) => rde.op_type \in {"READ", "HEAD"}
  BY <1>0 DEF DeviceInv, OperationHeld
<1>b. /\ rde.op_flag = StillMissing(ctl.op) /\ rde.op_result = <<>> /\ rde.buf # "result"
      /\ "payload" \notin rde.op_flag => rde.op_data = ctl.op.payload
  BY <1>0 DEF SessionInv, PhaseInv, ParametersMissing, DeviceInv, StatusMatchesOperation
<1>2. PICK x, r : x \in Device /\
        t = Answer(x, r) /\ (Refused(x, r) \/ PageRefused(x, r) \/ SupplyEffect(x, r))
  BY <1>0, <1>1, <1>a, SupplyAnswers
<1>e. x \in Device
  BY <1>2
<1> USE <1>e
<1> DEFINE c == Noted(x)
           rsp == Reply(lost, r)
<1>3. rde' = x /\ ctl' = AfterSupply(c, rsp)
  BY <1>1, <1>2, HeardAnswer
<1>4. /\ c \in Controller /\ SameController(c) /\ c.read = NoRead
      /\ x.ran = FALSE => c.runs = ctl.runs /\ c.result = ctl.result
      /\ x.ran = TRUE => c.runs = ctl.runs + 1 /\ c.result = x.op_result
  BY <1>0, <1>2, NotedFacts
<1>5. /\ ctl.op.flags \in SUBSET Flags /\ Len(ctl.op.payload) + CrcLen < WordSize
  BY <1>a, OperationShape
<1>6. rsp = r \/ rsp.kind = "lost"
  BY ReplyCases
<1>7. GoesTo(c, IF rsp.kind = "ok" THEN AfterParameters(ctl.op) ELSE "closing")
  BY <1>3, <1>4, SuppliedTo DEF SameController
<1> HIDE DEF c, rsp
<1>8. CASE Refused(x, r) \/ PageRefused(x, r)
  <2>1. HeldOn /\ rde'.status # "INACTIVE"
    <3>1. CASE Refused(x, r)
      BY <1>0, <1>3, <3>1, SameHeldOn DEF Refused, Same
    <3>2. CASE PageRefused(x, r)
      BY <1>0, <1>3, <3>2 DEF PageRefused, Waits, HeldOn
    <3> QED BY <1>8, <3>1, <3>2
  <2>2. c.runs = ctl.runs /\ c.result = ctl.result
    BY <1>4, <1>8 DEF Refused, PageRefused, Waits, Same, SameOperation
  <2>3. rsp.kind # "ok"
    BY <1>6, <1>8 DEF Refused, PageRefused
  <2>4. GoesTo(c, "closing")
    BY <1>7, <2>3
  <2>5. DeviceInv'
    BY <1>0, <1>4, <2>1, <2>2, <2>4, HeldOnKeeps DEF GoesTo, SameController, SameOp, SameRuns
  <2> QED BY <1>0, <1>4, <2>1, <2>2, <2>4, <2>5, ClosingKeeps DEF HeldOn
<1>9. CASE SupplyEffect(x, r)
  <2> DEFINE left == rde.op_flag \ {"custom"}
  <2>1. x.prev = rde.prev /\ x.op_type = rde.op_type => OperationHeld'
    BY <1>0, <1>3, <1>4, <1>7 DEF GoesTo, SameController, DeviceInv, OperationHeld
\* It waits for the payload, or it ran.
  <2>2. /\ DeviceInv' /\ rde'.status # "INACTIVE" /\ rde'.recv_next = rde.recv_next /\ c.runs <= 1
        /\ "payload" \in left => rde'.status = "NEEDS_INPUT" /\ rde'.etag = rde.etag
    <3>1. CASE "payload" \in left /\ Waits(x, left)
      <4>1. /\ OperationHeld' /\ rde' \in Device /\ rde'.op_flag # {}
            /\ rde'.op_result = <<>> /\ rde'.buf # "result" /\ rde'.body = rde.body
            /\ rde'.recv_next = rde.recv_next /\ rde'.status = "NEEDS_INPUT" /\ rde'.etag = rde.etag
        BY <1>0, <1>3, <1>b, <2>1, <3>1 DEF Waits
      <4>2. c.runs = 0 /\ ctl'.runs = 0
        BY <1>0, <1>4, <1>7, <3>1 DEF GoesTo, Waits
      <4>3. DeviceInv'
        BY <1>0, <4>1, <4>2, WaitingKeeps
      <4> QED BY <4>1, <4>2, <4>3
    <3>2. CASE "payload" \notin left /\ \E b \in Device : Waits(b, left) /\ Runnable(b) /\ Ran(b, x)
      <4>1. PICK b \in Device : Waits(b, left) /\ Runnable(b) /\ Ran(b, x)
        BY <3>2
      <4>2. /\ OperationHeld' /\ rde'.recv_next = rde.recv_next /\ rde'.status \in Triggered
            /\ x.ran = TRUE
        BY <1>3, <2>1, <4>1 DEF Waits, Ran, SameRequest
      <4>3. c.runs = 1 /\ ctl'.result = rde'.op_result
        BY <1>0, <1>3, <1>4, <1>7, <4>2 DEF GoesTo
      <4>4. Len(b.op_data) + CrcLen < WordSize
        BY <1>5, <1>b, <3>2, <4>1 DEF Waits
      <4>5. b.op_flag = {} /\ b.body = rde.body
        <5>1. rde.op_flag \in SUBSET Flags
          BY <1>0 DEF TypeInv, Device
        <5> QED BY <3>2, <4>1, <5>1 DEF Waits, Flags
      <4>6. DeviceInv'
        BY <1>0, <1>3, <4>1, <4>2, <4>3, <4>4, <4>5, RanKeeps
      <4> QED BY <3>2, <4>2, <4>3, <4>6 DEF Triggered
    <3> QED BY <1>9, <3>1, <3>2 DEF SupplyEffect
  <2>3. CASE rsp.kind # "ok"
    <3>1. GoesTo(c, "closing")
      BY <1>7, <2>3
    <3> QED BY <1>0, <1>3, <1>4, <2>2, <3>1, ClosingKeeps
  <2>4. CASE rsp.kind = "ok"
    <3>1. GoesTo(c, AfterParameters(ctl.op))
      BY <1>7, <2>4
    <3>2. ctl'.phase \in {"sending", "polling"} /\ (ctl'.phase = "sending" => "payload" \in left)
      BY <1>b, <3>1 DEF GoesTo, AfterParameters, StillMissing, Whole
    <3>3. PhaseMatches' /\ ParametersMissing'
      BY <2>2, <3>2 DEF PhaseMatches, ParametersMissing
    <3>4. TagKept'
      BY <1>4, <1>9, <2>2, <3>1, <3>2 DEF SupplyEffect, TagKept, TagKnown, GoesTo, SameController
    <3>5. PartsBegin' /\ ResultSoFar' /\ DictionarySoFar'
      BY <1>0, <1>4, <2>2, <3>1, <3>2 DEF PartsBegin, ResultSoFar, DictionarySoFar, GoesTo, SameController
    <3>6. ExecutedOnce' /\ ReadIsWhole'
      BY <1>4, <2>2, <3>1, NothingRead DEF GoesTo, ExecutedOnce
    <3> QED BY <1>3, <2>2, <3>1, <3>3, <3>4, <3>5, <3>6 DEF SessionInv, PhaseInv, TypeInv, GoesTo
  <2> QED BY <2>3, <2>4
<1> QED BY <1>2, <1>8, <1>9

\* What the controller does with the answer to a part of the payload.
PartSent(c, rsp) ==
  /\ ctl' \in Controller /\ ctl'.op = c.op /\ ctl'.op_id = c.op_id /\ ctl'.etag = c.etag
  /\ ctl'.got = c.got /\ ctl'.read = c.read /\ ctl'.stale = c.stale /\ ctl'.mixed = c.mixed
  /\ ctl'.runs = c.runs /\ ctl'.result = c.result
  /\ \/ rsp.kind = "lost" /\ ctl'.phase = c.phase /\ (ctl'.repeated <=> c.repeated \/ LastPart)
     \/ ctl'.phase \in {"closing", "polling"} /\ ctl'.repeated = c.repeated
     \/ /\ rsp.kind = "more" /\ rsp.transfer_op # "XFER_COMPLETE"
        /\ ctl'.phase = c.phase /\ ctl'.repeated = c.repeated

LEMMA PartIsSent ==
  ASSUME TypeInv, NEW c \in Controller, NEW rsp, rsp.kind \in {"lost", "error", "more"},
         rsp.kind = "more" /\ rsp.transfer_op \notin {"XFER_COMPLETE", "XFER_FIRST_PART"} => PartLen \in Nat,
         NEW again \in BOOLEAN, ctl' = AfterPart(c, rsp, LastPart, PartLen, again)
  PROVE  PartSent(c, rsp)
<1> DEFINE repeated == c.repeated \/ LastPart
           n == c.sent + PartLen
<1>0. "closing" \in Phases /\ "polling" \in Phases /\ repeated \in BOOLEAN /\ 0 \in Nat
  BY DEF Phases, Controller
<1>1. CASE rsp.kind = "lost" /\ again
  <2>1. ctl' = [c EXCEPT !.repeated = repeated]
    BY <1>1 DEF AfterPart
  <2>2. repeated <=> c.repeated \/ LastPart
    OBVIOUS
  <2> HIDE DEF repeated
  <2>3. ctl' \in Controller
    BY <1>0, <2>1 DEF Controller
  <2> QED BY <1>1, <2>1, <2>2, <2>3 DEF Controller, PartSent
<1>2. CASE rsp.kind = "error" \/ (rsp.kind = "lost" /\ ~again)
  <2>1. ctl' = [c EXCEPT !.phase = "closing"]
    BY <1>2 DEF AfterPart
  <2> QED BY <1>0, <2>1 DEF Controller, PartSent
<1>3. CASE rsp.kind = "more" /\ rsp.transfer_op = "XFER_COMPLETE"
  <2>1. ctl' = [c EXCEPT !.phase = "polling", !.sent = 0]
    BY <1>3 DEF AfterPart
  <2>2. ctl' \in Controller
    BY <1>0, <2>1 DEF Controller
  <2> QED BY <2>1, <2>2 DEF Controller, PartSent
<1>4. CASE rsp.kind = "more" /\ rsp.transfer_op = "XFER_FIRST_PART"
  <2>1. ctl' = [c EXCEPT !.sent = 0]
    BY <1>4 DEF AfterPart
  <2>2. ctl' \in Controller
    BY <1>0, <2>1 DEF Controller
  <2> QED BY <1>4, <2>1, <2>2 DEF Controller, PartSent
<1>5. CASE rsp.kind = "more" /\ rsp.transfer_op \notin {"XFER_COMPLETE", "XFER_FIRST_PART"}
  <2>1. ctl' = [c EXCEPT !.sent = n]
    BY <1>5 DEF AfterPart
  <2>2. n \in Nat
    BY <1>5 DEF Controller
  <2> HIDE DEF n
  <2>3. ctl' \in Controller
    BY <2>1, <2>2 DEF Controller
  <2> QED BY <1>5, <2>1, <2>3 DEF Controller, PartSent
<1> QED BY <1>1, <1>2, <1>3, <1>4, <1>5

\* The tag that was named still is that of the resource, or the operation replaced it.
TagHolds(s) ==
  "custom" \in ctl.op.flags /\ TagKnown =>
    \/ ctl.etag[2] = s.etag[bej_idx(ctl.op.res)]
    \/ /\ ctl.op.op_type = "UPDATE" /\ ValueOf(ctl.op.payload) # NoValue
       /\ s.body[bej_idx(ctl.op.res)] = Body(ValueOf(ctl.op.payload))

\* An operation that runs once more leaves it so.
LEMMA RunKeepsTag ==
  ASSUME TypeInv, TagHolds(rde), rde.op_type = ctl.op.op_type, rde.prev.resource_id = ctl.op.res,
         ctl.op.res \in ResourceIds,
         NEW b \in Device, Carried(b, rde.op_flag \ {"payload"}), b.op_data = ctl.op.payload,
         NEW x, Ran(b, x)
  PROVE  TagHolds(x)
<1> DEFINE p == bej_idx(ctl.op.res)
<1>1. b.body = rde.body /\ b.etag = rde.etag /\ b.op_type = ctl.op.op_type /\ b.prev.resource_id = ctl.op.res
  BY DEF Carried
<1>2. CASE Unchanged(b, x)
  BY <1>1, <1>2 DEF Unchanged, TagHolds
<1>3. CASE HasEtag(ctl.op.res) /\ Updated(b, x)
  <2>1. p \in Places /\ b.body \in [Places -> Seq(Units)]
    BY <1>3, PlaceKnown DEF Device
  <2>2. x.body[p] = Body(ValueOf(ctl.op.payload))
    BY <1>1, <1>3, <2>1 DEF Updated
  <2> QED BY <1>1, <1>3, <2>2 DEF Updated, TagHolds
<1>4. CASE Overwritten(b, x)
  BY <1>1, <1>4 DEF Overwritten, TagHolds
<1> QED BY <1>1, <1>2, <1>3, <1>4 DEF Ran

LEMMA SendKeeps ==
  ASSUME SessionInv, SendPart
  PROVE  SessionInv'
<1>0. /\ TypeInv /\ DeviceInv /\ ctl.phase = "sending" /\ rde.status # "INACTIVE"
      /\ ~ctl.repeated => rde.status = "NEEDS_INPUT" /\ ctl.runs = 0
      /\ ctl.got = <<>> /\ ~ctl.mixed /\ CollectionsWhole(rde) /\ rde.status \in Statuses
      /\ ~ctl.stale => rde.recv_next = 0
      /\ ctl.repeated \/ ctl.runs <= 1
  BY SendOpens DEF SessionInv, PhaseInv, PhaseMatches, PartsBegin, DeviceInv, RunsKnown, TypeInv, Device,
                   ExecutedOnce
<1>1. PICK leftover, again, lost, t :
        /\ leftover \in {0, ctl.sent} /\ again \in BOOLEAN /\ lost \in BOOLEAN
        /\ Answered(SendRequest(leftover), t) /\ rde' = Heard(t)
        /\ ctl' = AfterPart(Noted(t), Reply(lost, t.rsp), LastPart, PartLen, again)
  BY SendOpens
<1>d. leftover \in {0, ctl.sent} /\ again \in BOOLEAN /\ lost \in BOOLEAN
  BY <1>1
<1> USE <1>d
<1>a. /\ ctl.op \in Operations /\ rde.prev = [resource_id |-> ctl.op.res, op_id |-> ctl.op_id]
      /\ rde.op_type = ctl.op.op_type
      /\ IsCollection(ctl.op.res) => rde.op_type \in {"READ", "HEAD"}
  BY <1>0 DEF DeviceInv, OperationHeld
<1>b. /\ rde.prev.resource_id = ctl.op.res /\ ctl.op.res \in ResourceIds
      /\ Len(ctl.op.payload) + CrcLen < WordSize
  BY <1>a, OperationShape
<1>2. PICK x, r : x \in Device /\ t = Answer(x, r) /\ (Refused(x, r) \/ SendEffect(x, r))
  BY <1>0, <1>1, <1>a, <1>b, SendAnswers
<1>e. x \in Device
  BY <1>2
<1> USE <1>e
<1> DEFINE c == Noted(x)
           rsp == Reply(lost, r)
<1>3. rde' = x /\ ctl' = AfterPart(c, rsp, LastPart, PartLen, again)
  BY <1>1, <1>2, HeardAnswer
<1>4. /\ c \in Controller /\ SameController(c) /\ c.read = NoRead
      /\ x.ran = FALSE => c.runs = ctl.runs /\ c.result = ctl.result
      /\ x.ran = TRUE => c.runs = ctl.runs + 1 /\ c.result = x.op_result
  BY <1>0, <1>2, NotedFacts
<1>6. rsp = r \/ rsp.kind = "lost"
  BY ReplyCases
<1> HIDE DEF c, rsp
<1>7. PartSent(c, rsp)
  <2>1. rsp.kind \in {"lost", "error", "more"}
    BY <1>2, <1>6 DEF Refused, SendEffect
  <2>2. rsp.kind = "more" /\ rsp.transfer_op \notin {"XFER_COMPLETE", "XFER_FIRST_PART"} => PartLen \in Nat
    BY <1>0, <1>2, <1>6, PartLength DEF Refused, SendEffect
  <2> QED BY <1>0, <1>3, <1>4, <2>1, <2>2, PartIsSent
<1>8. TagHolds(rde)
  BY <1>0 DEF SessionInv, PhaseInv, TagKept, TagHolds, Rewritten
<1>9. x.prev = rde.prev /\ x.op_type = rde.op_type => OperationHeld'
  BY <1>0, <1>3, <1>4, <1>7 DEF PartSent, SameController, DeviceInv, OperationHeld
<1> DEFINE Went == /\ DeviceInv' /\ rde'.status # "INACTIVE" /\ rde'.recv_next = rde.recv_next
                   /\ TagHolds(x) /\ (ctl.repeated \/ c.runs <= 1)
                   /\ ctl.repeated \/ rde'.status = "NEEDS_INPUT"
                        \/ (LastPart /\ r.kind = "more" /\ r.transfer_op = "XFER_COMPLETE")
<1>10. ASSUME Refused(x, r) \/ (SendEffect(x, r) /\ Carried(x, rde.op_flag)) PROVE Went
  <2>1. /\ HeldOn /\ rde'.status = rde.status /\ rde'.recv_next = rde.recv_next
        /\ rde'.body = rde.body /\ rde'.etag = rde.etag
    <3>1. CASE Refused(x, r)
      BY <1>0, <1>3, <3>1, SameHeldOn DEF Refused, Same, SameOperation, SameTransfer
    <3>2. CASE Carried(x, rde.op_flag)
      BY <1>0, <1>3, <3>2 DEF Carried, HeldOn
    <3> QED BY <1>10, <3>1, <3>2
  <2>2. c.runs = ctl.runs /\ c.result = ctl.result
    BY <1>4, <1>10 DEF Refused, Carried, Same, SameOperation
  <2>3. SameOp /\ SameRuns
    BY <1>4, <1>7, <2>2 DEF PartSent, SameController, SameOp, SameRuns
  <2>4. TagHolds(x)
    BY <1>3, <1>8, <2>1 DEF TagHolds
  <2> QED BY <1>0, <2>1, <2>2, <2>3, <2>4, HeldOnKeeps
<1> DEFINE left == rde.op_flag \ {"payload"}
           done == LastPart /\ r.kind = "more" /\ r.transfer_op = "XFER_COMPLETE"
<1>11. ASSUME done, "custom" \in left, Carried(x, left) PROVE Went
  <2>1. rde.status = "NEEDS_INPUT" /\ rde.op_result = <<>> /\ rde.buf # "result"
    BY <1>0, <1>11 DEF DeviceInv, StatusMatchesOperation
  <2>2. /\ OperationHeld' /\ rde' \in Device /\ rde'.op_flag # {}
        /\ rde'.op_result = <<>> /\ rde'.buf # "result" /\ rde'.body = rde.body
        /\ rde'.recv_next = rde.recv_next /\ rde'.status = "NEEDS_INPUT" /\ rde'.etag = rde.etag
    BY <1>3, <1>9, <1>11, <2>1 DEF Carried
  <2>3. c.runs = 0 /\ ctl'.runs = 0
    BY <1>0, <1>4, <1>7, <1>11, <2>1 DEF PartSent, Carried, DeviceInv, RunsKnown
  <2>4. DeviceInv'
    BY <1>0, <2>2, <2>3, WaitingKeeps
  <2>5. TagHolds(x)
    BY <1>3, <1>8, <2>2 DEF TagHolds
  <2> QED BY <2>2, <2>3, <2>4, <2>5
<1>12. ASSUME done, "custom" \notin left,
              \E b \in Device : /\ Carried(b, left) /\ b.op_data = ctl.op.payload
                                /\ Runnable(b) /\ Ran(b, x)
       PROVE  Went
  <2>1. PICK b \in Device : /\ Carried(b, left) /\ b.op_data = ctl.op.payload
                            /\ Runnable(b) /\ Ran(b, x)
    BY <1>12
  <2>2. /\ OperationHeld' /\ rde'.recv_next = rde.recv_next /\ rde'.status \in Triggered
        /\ x.ran = TRUE
    BY <1>3, <1>9, <2>1 DEF Carried, Ran, SameRequest
  <2>3. c.runs = ctl.runs + 1 /\ ctl'.result = rde'.op_result
    BY <1>3, <1>4, <1>7, <2>2 DEF PartSent
  <2>4. b.op_flag = {} /\ b.body = rde.body
    <3>1. rde.op_flag \in SUBSET Flags
      BY <1>0 DEF TypeInv, Device
    <3> QED BY <1>12, <2>1, <3>1 DEF Carried, Flags
  <2>5. DeviceInv'
    BY <1>0, <1>3, <1>b, <2>1, <2>2, <2>3, <2>4, RanKeeps
  <2>6. TagHolds(x)
    BY <1>0, <1>8, <1>a, <1>b, <2>1, RunKeepsTag
  <2>7. ctl.repeated \/ c.runs <= 1
    BY <1>0, <2>3
  <2> QED BY <1>12, <2>2, <2>5, <2>6, <2>7 DEF Triggered
<1>13. Went
  <2>1. CASE Refused(x, r)
    BY <1>10, <2>1
  <2>2. CASE SendEffect(x, r)
    <3> HIDE DEF Went
    <3> QED BY <1>10, <1>11, <1>12, <2>2 DEF SendEffect
  <2> QED BY <1>2, <2>1, <2>2
<1>14. rde' \in Device /\ ctl' \in Controller /\ ctl'.got = <<>> /\ ~ctl'.mixed /\ ctl'.read = NoRead
       /\ ctl'.stale = ctl.stale /\ ctl'.runs = c.runs
  BY <1>0, <1>3, <1>4, <1>7 DEF PartSent, SameController
<1>15. ExecutedOnce' /\ ReadIsWhole'
  <2>1. ctl.repeated => ctl'.repeated
    BY <1>4, <1>7 DEF PartSent, SameController
  <2> QED BY <1>13, <1>14, <2>1, NothingRead DEF ExecutedOnce
<1>16. CASE ctl'.phase = "closing"
  <2>1. Closes
    BY <1>13, <1>14, <1>16 DEF Closes
  <2> QED BY <1>13, <1>14, <1>15, <2>1, ClosesKeeps DEF TypeInv
<1>17. CASE ctl'.phase \in {"polling", "sending"}
  <2>1. ctl'.phase = "sending" /\ ~ctl'.repeated => rde'.status = "NEEDS_INPUT"
    BY <1>4, <1>6, <1>7, <1>13 DEF PartSent, SameController
  <2>2. PhaseMatches' /\ ParametersMissing'
    BY <1>13, <1>17, <2>1 DEF PhaseMatches, ParametersMissing
  <2>3. TagKept'
    BY <1>3, <1>4, <1>7, <1>13 DEF TagKept, TagKnown, Rewritten, TagHolds, PartSent, SameController
  <2>4. PartsBegin' /\ ResultSoFar' /\ DictionarySoFar'
    BY <1>0, <1>13, <1>14, <1>17 DEF PartsBegin, ResultSoFar, DictionarySoFar
  <2> QED BY <1>13, <1>14, <1>15, <2>2, <2>3, <2>4 DEF SessionInv, PhaseInv, TypeInv
<1> QED BY <1>0, <1>4, <1>7, <1>16, <1>17 DEF PartSent, SameController

(***************************************************************************)
(* The inductive invariant holds.                                          *)
(***************************************************************************)
LEMMA StutterKeeps ==
  ASSUME SessionInv, UNCHANGED vars
  PROVE  SessionInv'
<1>1. rde' = rde /\ ctl' = ctl
  BY DEF vars
<1>2. TypeInv' /\ ExecutedOnce' /\ ReadIsWhole'
  BY <1>1 DEF SessionInv, TypeInv, ExecutedOnce, ReadIsWhole
<1>3. DeviceInv'
  <2>1. HeldOn /\ SameOp /\ SameRuns
    BY <1>1 DEF SessionInv, TypeInv, HeldOn, SameOp, SameRuns
  <2> QED BY <2>1, HeldOnKeeps DEF SessionInv
<1>4. PhaseMatches' /\ ParametersMissing' /\ TagKept' /\ PartsBegin'
  BY <1>1 DEF SessionInv, PhaseInv, PhaseMatches, ParametersMissing, TagKept, TagKnown, Rewritten, PartsBegin
<1>5. ResultSoFar' /\ DictionarySoFar'
  BY <1>1 DEF SessionInv, PhaseInv, ResultSoFar, DictionarySoFar, SoFar
<1> QED BY <1>2, <1>3, <1>4, <1>5 DEF SessionInv, PhaseInv

THEOREM SessionStep == SessionInv /\ [SessionNext]_vars => SessionInv'
<1> SUFFICES ASSUME SessionInv, [SessionNext]_vars PROVE SessionInv'
  OBVIOUS
<1> QED BY AskDictionaryKeeps, ReadDictionaryKeeps, LinkChangesKeeps, StartKeeps, GetEtagKeeps,
           SupplyKeeps, SendKeeps, PollKeeps, ReadResultKeeps, GiveUpKeeps, CompleteKeeps, KillKeeps,
           AskKeeps, StutterKeeps DEF SessionNext

\* The invariant of the session: what the device and the controller have come to, in
\* every phase of an operation, whatever is lost.
THEOREM SessionInductive == SessionSpec => []SessionInv
<1> QED BY SessionInitially, SessionStep, PTL DEF SessionSpec

\* The status agrees with what the operation waits for, with its result, and with what
\* is left of it.
THEOREM StatusIsRight == SessionSpec => []StatusMatchesOperation
<1>1. SessionInv => StatusMatchesOperation
  BY DEF SessionInv, DeviceInv
<1> QED BY <1>1, SessionInductive, PTL

\* While the controller is idle so is the device, and what the controller goes on with is
\* the operation the device has, whatever responses were lost.
THEOREM BothIdle == SessionSpec => []IdleTogether
<1>1. SessionInv => IdleTogether
  BY DEF SessionInv, DeviceInv, OperationHeld, PhaseInv, PhaseMatches, IdleTogether
<1> QED BY <1>1, SessionInductive, PTL

\* An operation runs at most once, unless the last part of its payload was repeated.
THEOREM RunsAtMostOnce == SessionSpec => []ExecutedOnce
<1>1. SessionInv => ExecutedOnce
  BY DEF SessionInv
<1> QED BY <1>1, SessionInductive, PTL

\* A dictionary, or a result, that was put together from parts is what the device held.
THEOREM ReadsAreWhole == SessionSpec => []ReadIsWhole
<1>1. SessionInv => ReadIsWhole
  BY DEF SessionInv
<1> QED BY <1>1, SessionInductive, PTL

(***************************************************************************)
(* What changes a resource.                                                *)
(***************************************************************************)
\* What was sent, without the header of its encoding.
Sent(payload) == SubSeq(payload, BejHdr + 1, Len(payload))

LEMMA UpdatedToSent ==
  ASSUME NEW v \in Values
  PROVE  Sent(Encoded(v)) = Body(v)
<1>1. BejHeader \in Seq(Units) /\ Len(BejHeader) = BejHdr /\ Body(v) \in Seq(Units)
  BY HeaderUnits, BodyUnits
<1> DEFINE h == BejHeader
           q == Body(v)
<1> HIDE DEF h, q
<1>2. SubSeq(h \o q, Len(h) + 1, Len(h \o q)) = q
  BY <1>1 DEF h, q
<1> QED BY <1>1, <1>2 DEF Sent, Encoded, h, q

LEMMA CutFromSent ==
  ASSUME NEW payload \in Seq(Units)
  PROVE  Cut(payload) = SubSeq(Sent(payload), 1, Len(Sent(payload)) - BejHdr)
  BY SizesAssumption DEF Cut, Sent

\* What the operation of the controller may do to a place.
Asked(p) ==
  /\ ctl'.op.op_type \in {"UPDATE", "REPLACE"} /\ bej_idx(ctl'.op.res) = p
  /\ "custom" \in ctl'.op.flags /\ ctl'.etag # <<>> /\ ctl'.etag[1] = ctl'.op.res
       => ctl'.etag[2] = rde.etag[p]
  /\ LET sent == SubSeq(ctl'.op.payload, BejHdr + 1, Len(ctl'.op.payload)) IN
       rde'.body[p] \in {sent, SubSeq(sent, 1, Len(sent) - BejHdr)}

TagNamed == "custom" \in ctl'.op.flags /\ ctl'.etag # <<>> /\ ctl'.etag[1] = ctl'.op.res
Rewrites ==
  /\ ctl'.op.op_type = "UPDATE" /\ ValueOf(ctl'.op.payload) # NoValue
  /\ rde.body[bej_idx(ctl'.op.res)] = Body(ValueOf(ctl'.op.payload))

LEMMA RunChanges ==
  ASSUME NEW b, Ran(b, rde'), b.body = rde.body, rde.body \in [Places -> Seq(Units)],
         b.op_type = ctl'.op.op_type, b.prev.resource_id = ctl'.op.res, ctl'.op.res \in ResourceIds,
         b.op_data = ctl'.op.payload, ctl'.op.payload \in Seq(Units),
         TagNamed => ctl'.etag[2] = rde.etag[bej_idx(ctl'.op.res)] \/ Rewrites
  PROVE  \A p \in Places : rde'.body[p] # rde.body[p] => Asked(p)
<1> SUFFICES ASSUME NEW p \in Places, rde'.body[p] # rde.body[p] PROVE Asked(p)
  OBVIOUS
<1> DEFINE op == ctl'.op
           payload == ctl'.op.payload
<1>1. HasEtag(op.res) /\ (Updated(b, rde') \/ Overwritten(b, rde'))
  BY DEF Ran, Unchanged
<1>2. CASE Updated(b, rde')
  <2> DEFINE v == ValueOf(payload)
  <2>1. op.op_type = "UPDATE" /\ v # NoValue /\ rde'.body = [rde.body EXCEPT ![bej_idx(op.res)] = Body(v)]
    BY <1>2 DEF Updated
  <2>2. p = bej_idx(op.res) /\ rde'.body[p] = Body(v)
    BY <2>1
  <2>3. v \in Values /\ payload = Encoded(v)
    BY <2>1, ValueFound
  <2>4. rde'.body[p] = Sent(payload)
    BY <2>2, <2>3, UpdatedToSent
  <2>5. TagNamed => ctl'.etag[2] = rde.etag[p]
    BY <2>2 DEF Rewrites
  <2> QED BY <2>1, <2>2, <2>4, <2>5 DEF Asked, Sent, TagNamed
<1>3. CASE Overwritten(b, rde')
  <2>1. op.op_type = "REPLACE" /\ rde'.body = [rde.body EXCEPT ![bej_idx(op.res)] = Cut(payload)]
    BY <1>3 DEF Overwritten
  <2>2. p = bej_idx(op.res) /\ rde'.body[p] = Cut(payload)
    BY <2>1
  <2>3. Cut(payload) = SubSeq(Sent(payload), 1, Len(Sent(payload)) - BejHdr)
    BY CutFromSent
  <2>4. TagNamed => ctl'.etag[2] = rde.etag[p]
    BY <2>1, <2>2 DEF Rewrites
  <2> QED BY <2>1, <2>2, <2>3, <2>4 DEF Asked, Sent, TagNamed
<1> QED BY <1>1, <1>2, <1>3

LEMMA StartChanges ==
  ASSUME SessionInv, StartOperation, NEW p \in Places, rde'.body[p] # rde.body[p]
  PROVE  Asked(p)
<1>0. TypeInv /\ DeviceInv /\ CollectionsWhole(rde) /\ rde.op_data = <<>> /\ rde.body \in [Places -> Seq(Units)]
  BY StartOpens DEF SessionInv, PhaseInv, PhaseMatches, DeviceInv, StatusMatchesOperation, TypeInv, Device
<1>1. PICK op, id, lost, t :
        /\ op \in Operations /\ id \in OpIds /\ lost \in BOOLEAN
        /\ Answered(InitRequest(op, id), t) /\ rde' = Heard(t)
        /\ ctl' = AfterInit(Noted(t), Reply(lost, t.rsp), op, id)
  BY StartOpens
<1>2. PICK x, r : x \in Device /\ t = Answer(x, r) /\ (Refused(x, r) \/ BeginEffect(op, id, x, r))
  BY <1>0, <1>1, BeginAnswers
<1>d. op \in Operations /\ id \in OpIds /\ lost \in BOOLEAN /\ x \in Device
  BY <1>1, <1>2
<1> USE <1>d
<1>3. rde' = x /\ ctl' = AfterInit(Noted(x), Reply(lost, r), op, id)
  BY <1>1, <1>2, HeardAnswer
<1>4. BeginEffect(op, id, x, r)
  BY <1>2, <1>3 DEF Refused, Same, SameOperation
<1>5. StillMissing(op) = {} /\ \E b \in Device : Holding(op, id, b) /\ Runnable(b) /\ Ran(b, x)
  BY <1>3, <1>4 DEF BeginEffect, Holding
<1>6. PICK b \in Device : Holding(op, id, b) /\ Ran(b, x)
  BY <1>5
<1>7. Noted(x) \in Controller /\ Reply(lost, r).kind \in {"lost", "ok"}
  BY <1>0, <1>4, NotedFacts, ReplyCases DEF BeginEffect
<1>8. ctl'.op = op
  <2>1. TakesUp(Noted(x), op, id, Reply(lost, r))
    BY <1>3, <1>7, OperationTakenUp
  <2> QED BY <2>1 DEF TakesUp
<1>9. op.res \in ResourceIds /\ op.payload \in Seq(Units) /\ ("payload" \notin op.flags => op.payload = <<>>)
  BY OperationShape
<1>10. b.op_data = op.payload /\ "custom" \notin op.flags
  BY <1>0, <1>5, <1>6, <1>9 DEF Holding, StillMissing, Whole
<1> QED BY <1>0, <1>3, <1>6, <1>8, <1>9, <1>10, RunChanges DEF Holding, TagNamed

LEMMA SupplyChanges ==
  ASSUME SessionInv, SupplyCustom, NEW p \in Places, rde'.body[p] # rde.body[p]
  PROVE  Asked(p)
<1>0. /\ TypeInv /\ DeviceInv /\ ctl.phase = "custom" /\ rde.status = "NEEDS_INPUT"
      /\ CollectionsWhole(rde) /\ rde.body \in [Places -> Seq(Units)]
      /\ "payload" \notin rde.op_flag => rde.op_data = ctl.op.payload
  BY SupplyOpens DEF SessionInv, PhaseInv, PhaseMatches, DeviceInv, ParametersMissing, TypeInv, Device
<1>1. PICK page, lost, t :
        /\ page \in Pages /\ lost \in BOOLEAN
        /\ Answered(SupplyRequest(page), t) /\ rde' = Heard(t)
        /\ ctl' = AfterSupply(Noted(t), Reply(lost, t.rsp))
  BY SupplyOpens
<1>d. page \in Pages /\ lost \in BOOLEAN
  BY <1>1
<1> USE <1>d
<1>2. /\ ctl.op \in Operations /\ rde.prev = [resource_id |-> ctl.op.res, op_id |-> ctl.op_id]
      /\ rde.op_type = ctl.op.op_type
      /\ IsCollection(ctl.op.res) => rde.op_type \in {"READ", "HEAD"}
  BY <1>0 DEF DeviceInv, OperationHeld
<1>3. PICK x, r : x \in Device /\
        t = Answer(x, r) /\ (Refused(x, r) \/ PageRefused(x, r) \/ SupplyEffect(x, r))
  BY <1>0, <1>1, <1>2, SupplyAnswers
<1>e. x \in Device
  BY <1>3
<1> USE <1>e
<1>4. rde' = x /\ ctl' = AfterSupply(Noted(x), Reply(lost, r))
  BY <1>1, <1>3, HeardAnswer
<1>5. SupplyEffect(x, r)
  BY <1>3, <1>4 DEF Refused, PageRefused, Waits, Same, SameOperation
<1> DEFINE left == rde.op_flag \ {"custom"}
<1>6. "payload" \notin left /\ \E b \in Device : Waits(b, left) /\ Runnable(b) /\ Ran(b, x)
  BY <1>4, <1>5 DEF SupplyEffect, Waits
<1>7. PICK b \in Device : Waits(b, left) /\ Ran(b, x)
  BY <1>6
<1>8. Noted(x) \in Controller /\ SameController(Noted(x))
  BY <1>0, NotedFacts
<1>9. ctl'.op = ctl.op /\ ctl'.etag = ctl.etag
  BY <1>4, <1>8, SuppliedTo DEF GoesTo, SameController
<1>10. ctl.op.res \in ResourceIds /\ ctl.op.payload \in Seq(Units)
  BY <1>2, OperationShape
<1>11. TagNamed => ctl'.etag[2] = rde.etag[bej_idx(ctl'.op.res)]
  BY <1>5, <1>9 DEF SupplyEffect, TagKnown, TagNamed
<1>12. b.op_data = ctl.op.payload
  BY <1>0, <1>6, <1>7 DEF Waits
<1> QED BY <1>0, <1>2, <1>4, <1>7, <1>9, <1>10, <1>11, <1>12, RunChanges DEF Waits

LEMMA SendChanges ==
  ASSUME SessionInv, SendPart, NEW p \in Places, rde'.body[p] # rde.body[p]
  PROVE  Asked(p)
<1>0. /\ TypeInv /\ DeviceInv /\ ctl.phase = "sending" /\ rde.status # "INACTIVE"
      /\ CollectionsWhole(rde) /\ rde.body \in [Places -> Seq(Units)] /\ TagKept
  BY SendOpens DEF SessionInv, PhaseInv, PhaseMatches, DeviceInv, TypeInv, Device
<1>1. PICK leftover, again, lost, t :
        /\ leftover \in {0, ctl.sent} /\ again \in BOOLEAN /\ lost \in BOOLEAN
        /\ Answered(SendRequest(leftover), t) /\ rde' = Heard(t)
        /\ ctl' = AfterPart(Noted(t), Reply(lost, t.rsp), LastPart, PartLen, again)
  BY SendOpens
<1>d. leftover \in {0, ctl.sent} /\ again \in BOOLEAN /\ lost \in BOOLEAN
  BY <1>1
<1> USE <1>d
<1>2. /\ ctl.op \in Operations /\ rde.prev.resource_id = ctl.op.res /\ rde.op_type = ctl.op.op_type
      /\ IsCollection(ctl.op.res) => rde.op_type \in {"READ", "HEAD"}
  BY <1>0 DEF DeviceInv, OperationHeld
<1>3. ctl.op.res \in ResourceIds /\ ctl.op.payload \in Seq(Units)
  BY <1>2, OperationShape
<1>4. PICK x, r : x \in Device /\ t = Answer(x, r) /\ (Refused(x, r) \/ SendEffect(x, r))
  BY <1>0, <1>1, <1>2, <1>3, SendAnswers
<1>e. x \in Device
  BY <1>4
<1> USE <1>e
<1>5. rde' = x /\ ctl' = AfterPart(Noted(x), Reply(lost, r), LastPart, PartLen, again)
  BY <1>1, <1>4, HeardAnswer
<1>6. SendEffect(x, r)
  BY <1>4, <1>5 DEF Refused, Same, SameOperation
<1> DEFINE left == rde.op_flag \ {"payload"}
<1>7. /\ r.transfer_op = "XFER_COMPLETE"
      /\ \E b \in Device : /\ Carried(b, left) /\ b.op_data = ctl.op.payload
                           /\ Runnable(b) /\ Ran(b, x)
  BY <1>5, <1>6 DEF SendEffect, Carried
<1>8. PICK b \in Device : Carried(b, left) /\ b.op_data = ctl.op.payload /\ Ran(b, x)
  BY <1>7
<1>9. Noted(x) \in Controller /\ SameController(Noted(x))
  BY <1>0, NotedFacts
<1>10. ctl'.op = ctl.op /\ ctl'.etag = ctl.etag
  <2> DEFINE rsp == Reply(lost, r)
  <2>1. /\ rsp.kind \in {"lost", "error", "more"}
        /\ rsp.kind = "more" /\ rsp.transfer_op \notin {"XFER_COMPLETE", "XFER_FIRST_PART"} => PartLen \in Nat
    BY <1>6, <1>7, ReplyCases DEF SendEffect
  <2>2. PartSent(Noted(x), rsp)
    <3> HIDE DEF rsp
    <3>1. ctl' = AfterPart(Noted(x), rsp, LastPart, PartLen, again)
      BY <1>5 DEF rsp
    <3> QED BY <1>0, <1>9, <2>1, <3>1, PartIsSent
  <2> QED BY <1>9, <2>2 DEF PartSent, SameController
<1>11. TagNamed => ctl'.etag[2] = rde.etag[bej_idx(ctl'.op.res)] \/ Rewrites
  BY <1>0, <1>10 DEF TagKept, TagKnown, TagNamed, Rewritten, Rewrites
<1> QED BY <1>0, <1>2, <1>3, <1>5, <1>8, <1>10, <1>11, RunChanges DEF Carried

\* Everything else leaves the resources alone.
LEMMA OthersChangeNothing ==
  ASSUME SessionInv, SessionNext, ~StartOperation, ~SupplyCustom, ~SendPart
  PROVE  rde'.body = rde.body
<1>0. TypeInv
  BY DEF SessionInv
<1>1. CASE AskDictionary
  <2>1. PICK d, t : d \in Dictionaries /\ Answered(AskFor(d), t) /\ rde' = Heard(t)
    BY <1>1, AskDictionaryOpens
  <2>2. PICK x, r : x \in Device /\ t = Answer(x, r) /\ (Refused(x, r) \/ DictionaryEffect(d, x, r))
    BY <1>0, <2>1, DictionaryAnswers
  <2>d. d \in Dictionaries /\ x \in Device
    BY <2>1, <2>2
  <2> USE <2>d
  <2> QED BY <2>1, <2>2, HeardAnswer DEF Refused, DictionaryEffect, Same, SameOperation
<1>2. CASE ReadDictionary \/ ReadResult
  <2>1. PICK id, t : Answered(PartRequest(id), t) /\ rde' = Heard(t)
    BY <1>2, ReadDictionaryOpens, ReadResultOpens
  <2>2. PICK x, r : x \in Device /\ t = Answer(x, r) /\ (Refused(x, r) \/ ReceiveEffect(id, x, r))
    BY <1>0, <2>1, ReceiveAnswers
  <2>d. x \in Device
    BY <2>2
  <2> USE <2>d
  <2> QED BY <2>1, <2>2, HeardAnswer DEF Refused, ReceiveEffect, Same, SameOperation
<1>3. CASE LinkChanges
  <2> DEFINE g == pldm_redfish_get_dict_data(rde, AllSchema, "EVENT")
  <2>1. g \in Device /\ g.body = rde.body
    BY <1>0, DictionaryFetched DEF TypeInv, SameButNeeded
  <2>2. rde' = [g EXCEPT !.ran = FALSE]
    BY <1>3 DEF LinkChanges, pldm_redfish_msg_event_generate
  <2> HIDE DEF g
  <2> QED BY <2>1, <2>2 DEF Device
<1>4. CASE GetEtag
  <2>1. PICK op, t : op \in Operations /\ Answered(EtagRequest(op), t) /\ rde' = Heard(t)
    BY <1>4, GetEtagOpens
  <2>2. PICK x, r : x \in Device /\ t = Answer(x, r) /\ (Refused(x, r) \/ EtagEffect(op, x, r))
    BY <1>0, <2>1, EtagAnswers
  <2>d. op \in Operations /\ x \in Device
    BY <2>1, <2>2
  <2> USE <2>d
  <2> QED BY <2>1, <2>2, HeardAnswer DEF Refused, EtagEffect, Same, SameOperation
<1>5. CASE Poll
  <2>1. PICK t : Answered(StatusRequest, t) /\ rde' = Heard(t)
    BY <1>5, PollOpens
  <2>2. PICK x, r : x \in Device /\ t = Answer(x, r) /\ (Refused(x, r) \/ StatusEffect(x, r))
    BY <1>0, <2>1, StatusAnswers
  <2>d. x \in Device
    BY <2>2
  <2> USE <2>d
  <2> QED BY <2>1, <2>2, HeardAnswer DEF Refused, StatusEffect, Same, SameOperation
<1>6. CASE Complete
  <2>1. PICK t : Answered(CompleteRequest, t) /\ rde' = Heard(t)
    BY <1>6, CompleteOpens
  <2>2. PICK x, r : x \in Device /\ t = Answer(x, r) /\ (EndEffect(x, r) \/ Refused(x, r))
    BY <1>0, <2>1, CompleteAnswers
  <2>d. x \in Device
    BY <2>2
  <2> USE <2>d
  <2> QED BY <2>1, <2>2, HeardAnswer DEF Refused, EndEffect, ClearedDevice, Same, SameOperation
<1>7. CASE Kill
  <2>1. PICK flg, t : Answered(KillRequest(flg), t) /\ rde' = Heard(t)
    BY <1>7, KillOpens
  <2>2. PICK x, r : x \in Device /\ t = Answer(x, r) /\ (Refused(x, r) \/ EndEffect(x, r))
    BY <1>0, <2>1, KillAnswers
  <2>d. x \in Device
    BY <2>2
  <2> USE <2>d
  <2> QED BY <2>1, <2>2, HeardAnswer DEF Refused, EndEffect, ClearedDevice, Same, SameOperation
<1>8. CASE Ask
  <2>1. PICK req, t : req \in Asks /\ Answered(req, t) /\ rde' = Heard(t)
    BY <1>8, AskOpens
  <2>2. PICK x, r : x \in Device /\ t = Answer(x, r) /\ Same(rde, x)
    BY <1>0, <2>1, AskAnswers
  <2>d. req \in Asks /\ x \in Device
    BY <2>1, <2>2
  <2> USE <2>d
  <2> QED BY <2>1, <2>2, HeardAnswer DEF Same, SameOperation
<1>9. CASE GiveUp
  BY <1>9 DEF GiveUp
<1> QED BY <1>1, <1>2, <1>3, <1>4, <1>5, <1>6, <1>7, <1>8, <1>9 DEF SessionNext

\* A resource changes only to what the operation on it was sent, and not when the tag
\* that was named is no longer its own.
THEOREM OnlyAskedChanges == SessionSpec => ChangesAreAsked
<1>1. SessionInv /\ [SessionNext]_vars => [\A p \in Places : rde'.body[p] # rde.body[p] => Asked(p)]_rde
  <2> SUFFICES ASSUME SessionInv, SessionNext, NEW p \in Places, rde'.body[p] # rde.body[p]
               PROVE  Asked(p)
    BY DEF vars
  <2> QED BY OthersChangeNothing, StartChanges, SupplyChanges, SendChanges
<1> QED BY <1>1, SessionInductive, PTL DEF SessionSpec, ChangesAreAsked, Asked
=============================================================================
