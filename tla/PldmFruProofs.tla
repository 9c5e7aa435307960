--------------------------- MODULE PldmFruProofs ---------------------------
(***************************************************************************)
(* Proofs about reading the FRU record table, for any number of ports,     *)
(* controllers and lost answers.  All of them rest on one invariant: the   *)
(* device and every controller hold the start of some record set, and the  *)
(* checksum of a controller covers what is before it.  The record sets     *)
(* themselves enter by StartAssumption alone.                              *)
(***************************************************************************)
EXTENDS PldmFruSession, TLAPS

Shape ==
  /\ vpd \in VpdLens
  /\ \E i \in Records : gs_prev_transfer_hdl = Start(vpd, i)
  /\ next_data_transfer_hdl \in [Controllers -> {Start(vpd, i) : i \in Records}]
  /\ DOMAIN cal_crc32 = Controllers /\ DOMAIN result = Controllers
  /\ cal_crc32 = [c \in Controllers |-> cal_crc32[c]]
  /\ result = [c \in Controllers |-> result[c]]
  /\ reading \in [Controllers -> BOOLEAN]
  /\ broken \in BOOLEAN

FruInv == Shape /\ ChecksumMatchesHandle /\ ReadIsTheTable /\ SomeoneMayGoOn

\* What StartAssumption says of one table.
LEMMA Starts_ascend ==
  ASSUME NEW v \in VpdLens
  PROVE  /\ Start(v, 1) = 0
         /\ \A i \in Records : Start(v, i) \in Nat /\ Size(v, i) \in Nat \ {0, 1}
         /\ \A i \in Records : Start(v, i + 1) = Start(v, i) + Size(v, i)
         /\ fru_table_len(v) \in Nat
         /\ \A i, j \in 1 .. Count + 1 : i < j => Start(v, i) < Start(v, j)
  BY StartAssumption DEF fru_table_len

LEMMA Counting == Count \in Nat \ {0} /\ 1 \in Records
  BY FruAssumption DEF Count, Records

\* A record set is found by its start.
LEMMA RecordFound ==
  ASSUME NEW v \in VpdLens, NEW i \in Records
  PROVE  RecordAt(v, Start(v, i)) = i
<1>1. \A j \in Records : Start(v, j) = Start(v, i) => j = i
  <2>1. SUFFICES ASSUME NEW j \in Records, Start(v, j) = Start(v, i), j # i PROVE FALSE
    OBVIOUS
  <2>2. i \in 1 .. Count + 1 /\ j \in 1 .. Count + 1 /\ (i < j \/ j < i)
    BY <2>1, Counting DEF Records
  <2>3. Start(v, i) \in Nat /\ Start(v, j) \in Nat
    BY Starts_ascend
  <2> QED BY <2>1, <2>2, <2>3, Starts_ascend
<1> QED BY <1>1 DEF RecordAt

\* The handle behind a record set: the start of the next, or 0 behind the last.
LEMMA NextHandle ==
  ASSUME NEW v \in VpdLens, NEW i \in Records
  PROVE  /\ i = Count => Next_hdl(v, Start(v, i)) = 0
         /\ i # Count => /\ i + 1 \in Records
                         /\ Next_hdl(v, Start(v, i)) = Start(v, i + 1)
                         /\ Start(v, i + 1) # 0
<1> DEFINE e == fru_table_len(v)
<1>1. pldm_fru_find_next_fru_data(v, Start(v, i)) = Start(v, i + 1)
  BY RecordFound, Starts_ascend DEF pldm_fru_find_next_fru_data
<1>2. CASE i = Count
  <2>1. Start(v, i + 1) = e
    BY <1>2 DEF fru_table_len
  <2>2. e \in Nat
    BY Starts_ascend
  <2>3. e >= e - 1
    BY <2>2
  <2> QED BY <1>1, <1>2, <2>1, <2>3 DEF Next_hdl
<1>3. CASE i # Count
  <2>1. i + 1 \in Records /\ i \in 1 .. Count + 1 /\ Count \in Records
    BY <1>3, Counting DEF Records
  <2>2. Start(v, i) \in Nat /\ Start(v, i + 1) \in Nat /\ Start(v, i) < Start(v, i + 1)
    BY <2>1, Starts_ascend, Counting DEF Records
  <2>3. Start(v, Count) \in Nat /\ Size(v, Count) \in Nat \ {0, 1} /\ e = Start(v, Count) + Size(v, Count)
    BY <2>1, Starts_ascend DEF fru_table_len
  <2>4. Start(v, i + 1) <= Start(v, Count)
    <3>1. i + 1 = Count \/ i + 1 < Count
      BY <2>1, Counting DEF Records
    <3>2. i + 1 \in 1 .. Count + 1 /\ Count \in 1 .. Count + 1
      BY <2>1, Counting DEF Records
    <3> QED BY <3>1, <3>2, <2>2, <2>3, Starts_ascend
  <2>5. ~ (Start(v, i + 1) >= e - 1)
    BY <2>2, <2>3, <2>4
  <2> QED BY <1>1, <1>3, <2>1, <2>2, <2>5 DEF Next_hdl
<1> QED BY <1>2, <1>3

\* An answer with data has the record set that was asked for, and says what
\* comes next; only the last one says that it is.
LEMMA AnswerIsDue ==
  ASSUME vpd \in VpdLens, NEW req, Answer(req).code = "SUCCESS",
         \E i \in Records : gs_prev_transfer_hdl = Start(vpd, i)
  PROVE  \E i \in Records :
           /\ data_transfer_hdl(req) = Start(vpd, i)
           /\ Answer(req).part = i
           /\ i = Count => Answer(req).next = 0 /\ IsEnd(Answer(req))
           /\ i # Count => /\ i + 1 \in Records
                           /\ Answer(req).next = Start(vpd, i + 1)
                           /\ ~IsEnd(Answer(req))
<1> DEFINE hdl == data_transfer_hdl(req)
<1>1. hdl = gs_prev_transfer_hdl /\ Answer(req) = Portion(vpd, req, hdl)
  BY DEF Answer, Refusal
<1>2. PICK i \in Records : hdl = Start(vpd, i)
  BY <1>1
<1>3. /\ Answer(req).part = RecordAt(vpd, hdl)
      /\ Answer(req).next = Next_hdl(vpd, hdl)
      /\ Answer(req).flag = transfer_flg(vpd, req, hdl)
  BY <1>1 DEF Portion
<1>4. RecordAt(vpd, hdl) = i
  BY <1>2, RecordFound
<1>5. CASE i = Count
  <2>1. Next_hdl(vpd, hdl) = 0
    BY <1>2, <1>5, NextHandle
  <2>2. transfer_flg(vpd, req, hdl) \in {START_AND_END, END_FLG}
    BY <2>1 DEF transfer_flg
  <2> QED BY <1>2, <1>3, <1>4, <1>5, <2>1, <2>2 DEF IsEnd
<1>6. CASE i # Count
  <2>1. i + 1 \in Records /\ Next_hdl(vpd, hdl) = Start(vpd, i + 1) /\ Start(vpd, i + 1) # 0
    BY <1>2, <1>6, NextHandle
  <2>2. transfer_flg(vpd, req, hdl) = MIDDLE_FLG
    BY <2>1 DEF transfer_flg
  <2>3. ~IsEnd(Answer(req))
    BY <2>2, <1>3 DEF IsEnd, MIDDLE_FLG, START_AND_END, END_FLG
  <2> QED BY <1>2, <1>3, <1>4, <1>6, <2>1, <2>3
<1> QED BY <1>5, <1>6

\* A request of any kind leaves the device at the start of a record set.
LEMMA DeviceStays ==
  ASSUME vpd \in VpdLens, \E i \in Records : gs_prev_transfer_hdl = Start(vpd, i),
         NEW req, pldm_fru_get_fru_record_table(req)
  PROVE  /\ vpd' = vpd
         /\ \E i \in Records : gs_prev_transfer_hdl' = Start(vpd, i)
         /\ rsp' = Answer(req)
         /\ gs_prev_transfer_hdl' =
              IF rsp'.code = "SUCCESS" THEN rsp'.next ELSE gs_prev_transfer_hdl
<1>1. rsp' = Answer(req) /\ vpd' = vpd
  BY DEF pldm_fru_get_fru_record_table
<1>2. gs_prev_transfer_hdl' =
        IF rsp'.code = "SUCCESS" THEN rsp'.next ELSE gs_prev_transfer_hdl
  BY DEF pldm_fru_get_fru_record_table, Expected
<1>3. CASE Answer(req).code = "SUCCESS"
  <2>1. Answer(req).next = 0 \/ \E i \in Records : Answer(req).next = Start(vpd, i)
    BY <1>3, AnswerIsDue
  <2>2. Start(vpd, 1) = 0 /\ 1 \in Records
    BY Starts_ascend, Counting
  <2> QED BY <1>1, <1>2, <1>3, <2>1, <2>2
<1>4. CASE Answer(req).code # "SUCCESS"
  BY <1>1, <1>2, <1>4
<1> QED BY <1>3, <1>4

\* It is true at the start.
LEMMA InitHolds == Init => FruInv
<1> SUFFICES ASSUME Init PROVE FruInv
  OBVIOUS
<1>1. vpd \in VpdLens /\ gs_prev_transfer_hdl = 0
  BY DEF Init, pldm_fru_init
<1>2. Start(vpd, 1) = 0 /\ 1 \in Records
  BY <1>1, Starts_ascend, Counting
<1>3. Shape
  BY <1>1, <1>2 DEF Init, Shape
<1>4. ChecksumMatchesHandle
  <2>1. Upto(1 - 1) = << >>
    BY DEF Upto
  <2>2. SUFFICES ASSUME NEW c \in Controllers
                 PROVE next_data_transfer_hdl[c] = Start(vpd, 1) /\ cal_crc32[c] = Upto(1 - 1)
    BY <1>2 DEF ChecksumMatchesHandle
  <2> QED BY <1>2, <2>1 DEF Init
<1>5. ReadIsTheTable /\ SomeoneMayGoOn
  BY <1>1 DEF Init, ReadIsTheTable, SomeoneMayGoOn
<1> QED BY <1>3, <1>4, <1>5 DEF FruInv

\* An answer that arrives: the one step that moves handle and checksum.
LEMMA ReadKeeps ==
  ASSUME FruInv, NEW c \in Controllers, Read(c)
  PROVE  FruInv'
<1> DEFINE req == Request(c)
<1>1. /\ vpd \in VpdLens /\ \E i \in Records : gs_prev_transfer_hdl = Start(vpd, i)
      /\ pldm_fru_get_fru_record_table(req) /\ Receive(c) /\ broken' = broken
  BY DEF FruInv, Shape, Read
<1>2. /\ vpd' = vpd
      /\ \E i \in Records : gs_prev_transfer_hdl' = Start(vpd, i)
      /\ rsp' = Answer(req)
      /\ gs_prev_transfer_hdl' =
           IF rsp'.code = "SUCCESS" THEN rsp'.next ELSE gs_prev_transfer_hdl
  BY <1>1, DeviceStays
<1>3. CASE rsp'.code # "SUCCESS"
  <2>1. /\ UNCHANGED <<next_data_transfer_hdl, cal_crc32, result, broken, gs_prev_transfer_hdl, vpd>>
        /\ reading' = [reading EXCEPT ![c] = FALSE]
    BY <1>1, <1>2, <1>3 DEF Receive
  <2>2. Shape'
    BY <2>1 DEF FruInv, Shape
  <2> QED BY <2>1, <2>2 DEF FruInv, ChecksumMatchesHandle, ReadIsTheTable, SomeoneMayGoOn
<1>4. CASE rsp'.code = "SUCCESS"
  <2>1. PICK k \in Records :
          /\ data_transfer_hdl(req) = Start(vpd, k)
          /\ rsp'.part = k
          /\ k = Count => rsp'.next = 0 /\ IsEnd(rsp')
          /\ k # Count => k + 1 \in Records /\ rsp'.next = Start(vpd, k + 1) /\ ~IsEnd(rsp')
    BY <1>1, <1>2, <1>4, AnswerIsDue
  <2>2. PICK i \in Records : next_data_transfer_hdl[c] = Start(vpd, i) /\ cal_crc32[c] = Upto(i - 1)
    BY DEF FruInv, ChecksumMatchesHandle
  <2>3. data_transfer_hdl(req) = Start(vpd, i)
    BY <2>2 DEF data_transfer_hdl, Request, GET_FIRST_PART, GET_NEXT_PART
  <2>4. i = k
    BY <2>1, <2>3, <1>1, RecordFound
  <2>5. Append(cal_crc32[c], rsp'.part) = Upto(k)
    <3>1. k \in Nat \ {0}
      BY Counting DEF Records
    <3>2. Append(Upto(k - 1), k) = Upto(k)
      BY <3>1 DEF Upto
    <3> QED BY <2>1, <2>2, <2>4, <3>2
  <2>6. /\ next_data_transfer_hdl' = [next_data_transfer_hdl EXCEPT ![c] = rsp'.next]
        /\ cal_crc32' = [cal_crc32 EXCEPT ![c] = Covered(c)]
        /\ reading' = [reading EXCEPT ![c] = ~IsEnd(rsp')]
        /\ result' = [result EXCEPT ![c] = IF IsEnd(rsp') THEN Append(cal_crc32[c], rsp'.part) ELSE @]
    BY <1>1, <1>4 DEF Receive
  <2>7. \E j \in Records : rsp'.next = Start(vpd, j) /\ Covered(c) = Upto(j - 1)
    <3>1. CASE k = Count
      <4>1. rsp'.next = Start(vpd, 1) /\ 1 \in Records
        BY <1>1, <2>1, <3>1, Starts_ascend, Counting
      <4>2. Covered(c) = << >>
        BY <2>1, <3>1 DEF Covered
      <4>3. Upto(1 - 1) = << >>
        BY DEF Upto
      <4> QED BY <4>1, <4>2, <4>3
    <3>2. CASE k # Count
      <4>1. Covered(c) = Upto(k)
        BY <2>1, <2>5, <3>2 DEF Covered
      <4>2. (k + 1) - 1 = k
        BY Counting DEF Records
      <4> QED BY <2>1, <3>2, <4>1, <4>2
    <3> QED BY <3>1, <3>2
  <2>8. Shape'
    <3>1. next_data_transfer_hdl' \in [Controllers -> {Start(vpd, j) : j \in Records}]
      BY <2>6, <2>7 DEF FruInv, Shape
    <3>2. reading' \in [Controllers -> BOOLEAN]
      BY <2>6 DEF FruInv, Shape, IsEnd
    <3>3. /\ DOMAIN cal_crc32' = Controllers /\ DOMAIN result' = Controllers
          /\ cal_crc32' = [d \in Controllers |-> cal_crc32'[d]]
          /\ result' = [d \in Controllers |-> result'[d]]
      BY <2>6 DEF FruInv, Shape
    <3>4. vpd' = vpd /\ vpd' \in VpdLens /\ broken' \in BOOLEAN
      BY <1>1, <1>2 DEF FruInv, Shape
    <3>5. \E j \in Records : gs_prev_transfer_hdl' = Start(vpd', j)
      BY <1>2
    <3>6. next_data_transfer_hdl' \in [Controllers -> {Start(vpd', j) : j \in Records}]
      BY <3>1, <3>4
    <3> QED BY <3>2, <3>3, <3>4, <3>5, <3>6 DEF Shape
  <2>9. ChecksumMatchesHandle'
    <3>1. SUFFICES ASSUME NEW d \in Controllers
                   PROVE \E j \in Records : next_data_transfer_hdl'[d] = Start(vpd, j)
                                            /\ cal_crc32'[d] = Upto(j - 1)
      BY <1>2 DEF ChecksumMatchesHandle
    <3>2. CASE d = c
      BY <2>6, <2>7, <3>2 DEF FruInv, Shape
    <3>3. CASE d # c
      BY <2>6, <3>3 DEF FruInv, Shape, ChecksumMatchesHandle
    <3> QED BY <3>2, <3>3
  <2>10. ReadIsTheTable'
    <3>1. IsEnd(rsp') => Append(cal_crc32[c], rsp'.part) = metadata_checksum
      <4>1. IsEnd(rsp') => k = Count
        BY <2>1
      <4>2. Upto(Count) = metadata_checksum
        BY DEF Upto, metadata_checksum, Records
      <4> QED BY <2>5, <4>1, <4>2
    <3> QED BY <2>6, <3>1 DEF FruInv, Shape, ReadIsTheTable
  <2>11. SomeoneMayGoOn'
    <3>1. next_data_transfer_hdl'[c] = gs_prev_transfer_hdl'
      BY <1>2, <1>4, <2>6 DEF FruInv, Shape
    <3> QED BY <3>1 DEF SomeoneMayGoOn
  <2> QED BY <2>8, <2>9, <2>10, <2>11 DEF FruInv
<1> QED BY <1>3, <1>4

\* The steps that keep the handles of the controllers, but for one set to 0.
LEMMA OthersKeep ==
  ASSUME FruInv, NEW c \in Controllers,
         pldm_fru_gen(c) \/ LoseAnswer(c) \/ Reset(c) \/ Stray(c)
  PROVE  FruInv'
<1>1. vpd \in VpdLens /\ \E i \in Records : gs_prev_transfer_hdl = Start(vpd, i)
  BY DEF FruInv, Shape
<1>2. CASE pldm_fru_gen(c)
  <2>1. Shape'
    BY <1>2 DEF pldm_fru_gen, fruVars, FruInv, Shape
  <2> QED BY <1>2, <2>1 DEF pldm_fru_gen, fruVars, FruInv, ChecksumMatchesHandle,
                             ReadIsTheTable, SomeoneMayGoOn
<1>3. CASE LoseAnswer(c) \/ Stray(c)
  <2>1. PICK req : pldm_fru_get_fru_record_table(req)
    BY <1>3 DEF LoseAnswer, Stray
  <2>2. vpd' = vpd /\ \E i \in Records : gs_prev_transfer_hdl' = Start(vpd, i)
    BY <1>1, <2>1, DeviceStays
  <2>3. UNCHANGED <<next_data_transfer_hdl, cal_crc32, result>> /\ broken' = TRUE
    BY <1>3 DEF LoseAnswer, Stray
  <2>4. reading' \in [Controllers -> BOOLEAN]
    BY <1>3 DEF LoseAnswer, Stray, FruInv, Shape
  <2>5. Shape'
    BY <2>2, <2>3, <2>4 DEF FruInv, Shape
  <2> QED BY <2>2, <2>3, <2>5 DEF FruInv, ChecksumMatchesHandle, ReadIsTheTable, SomeoneMayGoOn
<1>4. CASE Reset(c)
  <2>1. Start(vpd, 1) = 0 /\ 1 \in Records /\ Upto(1 - 1) = << >>
    BY <1>1, Starts_ascend, Counting DEF Upto
  <2>2. UNCHANGED <<vpd, gs_prev_transfer_hdl, result>> /\ broken' = TRUE
    BY <1>4 DEF Reset, fruVars
  <2>3. Shape'
    <3>1. next_data_transfer_hdl' \in [Controllers -> {Start(vpd, j) : j \in Records}]
      BY <1>4, <2>1 DEF Reset, FruInv, Shape
    <3> QED BY <1>4, <2>2, <3>1 DEF Reset, FruInv, Shape
  <2>4. ChecksumMatchesHandle'
    <3>1. SUFFICES ASSUME NEW d \in Controllers
                   PROVE \E j \in Records : next_data_transfer_hdl'[d] = Start(vpd, j)
                                            /\ cal_crc32'[d] = Upto(j - 1)
      BY <2>2 DEF ChecksumMatchesHandle
    <3>2. CASE d = c
      BY <1>4, <2>1, <3>2 DEF Reset, FruInv, Shape
    <3>3. CASE d # c
      BY <1>4, <3>3 DEF Reset, FruInv, Shape, ChecksumMatchesHandle
    <3> QED BY <3>2, <3>3
  <2> QED BY <2>2, <2>3, <2>4 DEF FruInv, ReadIsTheTable, SomeoneMayGoOn
<1> QED BY <1>2, <1>3, <1>4

LEMMA StutterKeeps == FruInv /\ UNCHANGED vars => FruInv'
<1> SUFFICES ASSUME FruInv, UNCHANGED vars PROVE FruInv'
  OBVIOUS
<1>1. Shape'
  BY DEF FruInv, Shape, vars, fruVars, genVars
<1> QED BY <1>1 DEF vars, fruVars, genVars, FruInv, ChecksumMatchesHandle, ReadIsTheTable, SomeoneMayGoOn

\* Every step of every controller keeps handles and checksums together.
THEOREM FruInvariant == Spec => []FruInv
<1>1. FruInv /\ [Next]_vars => FruInv'
  BY ReadKeeps, OthersKeep, StutterKeeps DEF Next
<1> QED BY <1>1, InitHolds, PTL DEF Spec

\* The variables keep their types: the device never expects a handle that is
\* not the start of a record set.
THEOREM FruTypeCorrect == Spec => []FruTypeOK
<1>1. FruInv => FruTypeOK
  BY DEF FruInv, Shape, FruTypeOK
<1> QED BY <1>1, FruInvariant, PTL

\* A read that ends has the whole table, whatever happened in between.
THEOREM WholeTable == Spec => []ReadIsTheTable
<1>1. FruInv => ReadIsTheTable
  BY DEF FruInv
<1> QED BY <1>1, FruInvariant, PTL

\* A controller's checksum always covers what is before its handle.
THEOREM ChecksumFollows == Spec => []ChecksumMatchesHandle
<1>1. FruInv => ChecksumMatchesHandle
  BY DEF FruInv
<1> QED BY <1>1, FruInvariant, PTL

\* Only a loss or a read given up can leave the device waiting for nobody.
THEOREM NobodyLockedOut == Spec => []SomeoneMayGoOn
<1>1. FruInv => SomeoneMayGoOn
  BY DEF FruInv
<1> QED BY <1>1, FruInvariant, PTL
=============================================================================
