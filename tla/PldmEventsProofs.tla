-------------------------- MODULE PldmEventsProofs --------------------------
(***************************************************************************)
(* Proofs about PldmEvents and PldmEventsSession.                          *)
(***************************************************************************)
EXTENDS PldmEventsSession, WellFoundedInduction, TLAPS

(***************************************************************************)
(* Induction over the naturals, by least elements: the theorems of the     *)
(* library that name the property to prove by an operator cannot be used.  *)
(***************************************************************************)
Less == {pair \in Nat \X Nat : pair[1] < pair[2]}

\* Less is the relation of the library's theorem about the naturals.
LEMMA LessIsWellFounded == IsWellFoundedOn(Less, Nat)
<1>1. OpToRel(<, Nat) = Less
  BY Zenon DEF OpToRel, Less
<1>2. QED
  BY <1>1, NatLessThanWellFounded

\* A set of naturals that holds a number has a least one.
LEMMA LeastElement ==
  ASSUME NEW S \in SUBSET Nat, S # {}
  PROVE  \E x \in S : \A y \in S : x <= y
<1>1. PICK x \in S : \A y \in S : <<y, x>> \notin Less
  BY LessIsWellFounded, WFMin
<1>2. ASSUME NEW y \in S
      PROVE  x <= y
  <2>1. x \in Nat /\ y \in Nat
    OBVIOUS
  <2>2. ~(y < x)
    BY <1>1, <2>1 DEF Less
  <2>3. QED
    BY <2>1, <2>2
<1>3. QED
  BY <1>2

\* A set that holds 0, and n + 1 with every n, holds every number.
LEMMA Induction ==
  ASSUME NEW S, 0 \in S, \A n \in Nat : n \in S => n + 1 \in S
  PROVE  \A n \in Nat : n \in S
<1> DEFINE Others == {n \in Nat : n \notin S}
<1>1. Others = {}
  <2> SUFFICES ASSUME Others # {}
               PROVE  FALSE
    OBVIOUS
  <2>1. PICK x \in Others : \A y \in Others : x <= y
    <3>1. Others \in SUBSET Nat
      OBVIOUS
    <3>2. QED
      BY <3>1, LeastElement
  <2>2. x \in Nat /\ x \notin S /\ x # 0
    OBVIOUS
  <2>3. x - 1 \in Nat /\ ~(x <= x - 1)
    BY <2>2
  <2>4. x - 1 \in S
    BY <2>1, <2>3
  <2>5. (x - 1) + 1 \in S
    BY <2>3, <2>4
  <2>6. QED
    BY <2>2, <2>5
<1>2. QED
  BY <1>1

\* f tells what iterating g from a gives.
Iterates(f, N, a, g) == f = [k \in 0 .. N |-> IF k = 0 THEN a ELSE g[f[k - 1]]]

\* A function that iterates another one from a first value exists.
LEMMA IterationExists ==
  ASSUME NEW N \in Nat, NEW a, NEW g
  PROVE  \E f : Iterates(f, N, a, g)
<1> DEFINE S == {n \in Nat : \E f : f = [k \in 0 .. n |-> IF k = 0 THEN a ELSE g[f[k - 1]]]}
<1>1. 0 \in S
  <2> DEFINE f == [k \in 0 .. 0 |-> a]
  <2>1. f = [k \in 0 .. 0 |-> IF k = 0 THEN a ELSE g[f[k - 1]]]
    OBVIOUS
  <2>2. QED
    BY <2>1
<1>2. ASSUME NEW n \in Nat, n \in S
      PROVE  n + 1 \in S
  <2>1. PICK f : f = [k \in 0 .. n |-> IF k = 0 THEN a ELSE g[f[k - 1]]]
    BY <1>2
  <2> DEFINE h == [k \in 0 .. n + 1 |-> IF k <= n THEN f[k] ELSE g[f[n]]]
  <2>2. ASSUME NEW k \in 0 .. n + 1
        PROVE  h[k] = IF k = 0 THEN a ELSE g[h[k - 1]]
    <3>1. CASE k <= n
      <4>1. k \in 0 .. n /\ (k # 0 => k - 1 \in 0 .. n + 1 /\ k - 1 <= n)
        BY <3>1
      <4>2. f[k] = IF k = 0 THEN a ELSE g[f[k - 1]]
        BY <2>1, <4>1
      <4>3. h[k] = f[k] /\ (k # 0 => h[k - 1] = f[k - 1])
        BY <3>1, <4>1
      <4>4. QED
        BY <4>2, <4>3
    <3>2. CASE k = n + 1
      <4>1. h[k] = g[f[n]] /\ n \in 0 .. n + 1 /\ k # 0 /\ k - 1 = n
        BY <3>2
      <4>2. h[n] = f[n]
        BY <4>1
      <4>3. QED
        BY <4>1, <4>2
    <3>3. QED
      BY <3>1, <3>2
  <2>3. h = [k \in 0 .. n + 1 |-> IF k = 0 THEN a ELSE g[h[k - 1]]]
    BY <2>2
  <2>4. n + 1 \in Nat /\ \E fn : fn = [k \in 0 .. n + 1 |-> IF k = 0 THEN a ELSE g[fn[k - 1]]]
    <3> HIDE DEF h
    <3>1. QED
      BY <2>3
  <2>5. QED
    BY <2>4
<1>3. N \in S
  BY <1>1, <1>2, Induction
<1>4. QED
  BY <1>3 DEF Iterates

(***************************************************************************)
(* The events in the ring, laid out from the read index on.                *)
(***************************************************************************)
\* off[k] is where the event after the first k of q starts, counted from the first.
Offsets(q, off) ==
  /\ off \in [0 .. Len(q) -> 0 .. BufSize - 1]
  /\ off[0] = 0
  /\ \A k \in 1 .. Len(q) : off[k] = off[k - 1] + EventLen(q[k])

\* The bytes of the events of q, one behind the other, from the read index to the
\* write index.
Laid(r, q, off) ==
  /\ Offsets(q, off)
  /\ r.wt = (r.rd + off[Len(q)]) % BufSize
  /\ \A k \in 1 .. Len(q) : \A j \in 0 .. EventLen(q[k]) - 1 :
       r.buf[(r.rd + off[k - 1] + j) % BufSize] = ByteOf(q[k], j)

Bytes == [event : EventSet \cup {NoEvent}, at : Nat]
Rings == [buf : [Position -> Bytes], rd : Position, wt : Position, try_rd : Position]

\* The ring holds at least an event: a header and its data are smaller than it.
LEMMA BufSizeFact == BufSize \in Nat \ {0, 1} /\ 0 \in Position
<1>1. PICK len \in DataLens : HdrLen + len < BufSize
  BY EventSizesAssumption
<1>2. len \in Nat /\ HdrLen \in Nat \ {0} /\ BufSize \in Nat
  BY EventSizesAssumption
<1>3. QED
  BY <1>1, <1>2 DEF Position

\* Two positions of the ring add up to one below twice its size.
LEMMA Wrap ==
  ASSUME NEW x \in Nat, x < 2 * BufSize
  PROVE  /\ x % BufSize = IF x < BufSize THEN x ELSE x - BufSize
         /\ x % BufSize \in Position
<1>1. BufSize \in Nat \ {0}
  BY BufSizeFact
<1>2. CASE x < BufSize
  <2>1. x % BufSize = x
    BY <1>1, <1>2
  <2>2. QED
    BY <1>1, <1>2, <2>1 DEF Position
<1>3. CASE x >= BufSize
  <2> DEFINE y == x - BufSize
  <2>1. y \in Nat /\ y < BufSize /\ x = y + BufSize
    BY <1>1, <1>3
  <2>2. x % BufSize = y
    BY <1>1, <2>1
  <2>3. QED
    BY <1>1, <1>3, <2>1, <2>2 DEF Position
<1>4. QED
  BY <1>1, <1>2, <1>3

\* An event takes its header and its data, less than the ring.
LEMMA EventLens ==
  ASSUME NEW e \in EventSet
  PROVE  /\ EventLen(e) \in Nat /\ EventLen(e) >= HdrLen /\ EventLen(e) < BufSize
         /\ HdrLen \in Nat \ {0} /\ e.size \in Nat /\ EventLen(e) = HdrLen + e.size
         /\ e.id \in Nat \ {0} /\ e.id <= MaxId /\ e.size \in DataLens
<1>1. e.id \in 1 .. MaxId /\ e.size \in DataLens
  BY DEF EventSet, Ids
<1>2. /\ MaxId \in Nat /\ HdrLen \in Nat \ {0} /\ BufSize \in Nat /\ DataLens \subseteq Nat
      /\ \A len \in DataLens : HdrLen + len < BufSize
  BY EventSizesAssumption
<1>3. HdrLen + e.size < BufSize /\ e.size \in Nat
  BY <1>1, <1>2
<1>4. QED
  BY <1>1, <1>2, <1>3 DEF EventLen

\* The step of StartOf is a function of the positions, and StartOf iterates it.
LEMMA StartOfIterates ==
  ASSUME NEW r
  PROVE  /\ MostEvents \in Nat
         /\ StartOf(r)[0] = r.rd
         /\ \A k \in 1 .. MostEvents : StartOf(r)[k - 1] \in Position =>
              StartOf(r)[k] = (StartOf(r)[k - 1] + EventLen(HeaderAt(r, StartOf(r)[k - 1]))) % BufSize
<1> DEFINE after == [p \in Position |-> (p + EventLen(HeaderAt(r, p))) % BufSize]
           Step(f) == [k \in 0 .. MostEvents |-> IF k = 0 THEN r.rd ELSE after[f[k - 1]]]
<1>1. MostEvents \in Nat
  BY EventSizesAssumption DEF MostEvents
<1>2. StartOf(r) = Step(StartOf(r))
  <2>1. \E f : f = Step(f)
    <3> HIDE DEF after
    <3>1. \E f : Iterates(f, MostEvents, r.rd, after)
      BY <1>1, IterationExists
    <3>2. PICK f : Iterates(f, MostEvents, r.rd, after)
      BY <3>1
    <3>3. f = Step(f)
      BY <3>2 DEF Iterates
    <3>4. QED
      BY <3>3
  <2>2. StartOf(r) = CHOOSE f : f = Step(f)
    BY DEF StartOf
  <2> HIDE DEF Step
  <2>3. QED
    BY <2>1, <2>2
<1>3. \A k \in 1 .. MostEvents : k \in 0 .. MostEvents /\ k # 0
  BY <1>1
<1>4. 0 \in 0 .. MostEvents
  BY <1>1
<1>5. \A k \in 1 .. MostEvents : StartOf(r)[k] = after[StartOf(r)[k - 1]]
  <2> HIDE DEF after
  <2>1. QED
    BY <1>2, <1>3
<1>6. QED
  BY <1>1, <1>2, <1>4, <1>5

\* What lies in the ring begins at growing offsets, and there is no more of it than
\* headers fit into the ring.
LEMMA OffsetsGrow ==
  ASSUME NEW q \in Seq(EventSet), NEW off, Offsets(q, off)
  PROVE  /\ Len(q) \in 0 .. MostEvents /\ MostEvents \in Nat
         /\ \A k \in 0 .. Len(q) : off[k] \in Nat /\ off[k] < BufSize
         /\ \A k \in 1 .. Len(q) : /\ q[k] \in EventSet
                                   /\ off[k] = off[k - 1] + EventLen(q[k])
         /\ \A i, j \in 0 .. Len(q) : i < j => off[i] < off[j]
<1>1. /\ Len(q) \in Nat /\ BufSize \in Nat /\ HdrLen \in Nat \ {0}
      /\ \A k \in 1 .. Len(q) : q[k] \in EventSet
  BY EventSizesAssumption
<1>2. ASSUME NEW k \in 0 .. Len(q)
      PROVE  off[k] \in Nat /\ off[k] < BufSize
  BY <1>1 DEF Offsets
<1>3. ASSUME NEW k \in 1 .. Len(q)
      PROVE  /\ q[k] \in EventSet /\ off[k] = off[k - 1] + EventLen(q[k])
             /\ EventLen(q[k]) \in Nat /\ EventLen(q[k]) >= HdrLen
  BY <1>1, EventLens DEF Offsets
<1>4. ASSUME NEW i \in 0 .. Len(q), NEW j \in 0 .. Len(q), i < j
      PROVE  off[i] < off[j]
  <2> DEFINE S == {n \in Nat : i + n + 1 <= Len(q) => off[i] < off[i + n + 1]}
  <2>1. 0 \in S
    <3>1. i + 1 <= Len(q) => i + 1 \in 1 .. Len(q) /\ (i + 1) - 1 = i
      BY <1>1
    <3>2. QED
      BY <1>1, <1>2, <1>3, <3>1
  <2>2. ASSUME NEW n \in Nat, n \in S
        PROVE  n + 1 \in S
    <3> SUFFICES ASSUME i + (n + 1) + 1 <= Len(q)
                 PROVE  off[i] < off[i + (n + 1) + 1]
      OBVIOUS
    <3>1. off[i] < off[i + n + 1]
      BY <2>2, <1>1
    <3>2. /\ i + (n + 1) + 1 \in 1 .. Len(q) /\ (i + (n + 1) + 1) - 1 = i + n + 1
          /\ i + n + 1 \in 0 .. Len(q)
      BY <1>1
    <3>3. off[i + (n + 1) + 1] = off[i + n + 1] + EventLen(q[i + (n + 1) + 1])
      BY <1>3, <3>2
    <3>4. QED
      BY <1>1, <1>2, <1>3, <3>1, <3>2, <3>3
  <2>3. j - i - 1 \in S
    <3>1. j - i - 1 \in Nat
      BY <1>1, <1>4
    <3>2. QED
      BY <2>1, <2>2, <3>1, Induction
  <2>4. i + (j - i - 1) + 1 = j
    BY <1>1
  <2>5. QED
    BY <1>1, <2>3, <2>4
<1>5. Len(q) <= MostEvents /\ MostEvents \in Nat
  <2> DEFINE S == {n \in Nat : n <= Len(q) => n * HdrLen <= off[n]}
  <2>1. 0 \in S
    BY <1>1 DEF Offsets
  <2>2. ASSUME NEW n \in Nat, n \in S
        PROVE  n + 1 \in S
    <3> SUFFICES ASSUME n + 1 <= Len(q)
                 PROVE  (n + 1) * HdrLen <= off[n + 1]
      OBVIOUS
    <3>1. n * HdrLen <= off[n]
      BY <2>2, <1>1
    <3>2. n + 1 \in 1 .. Len(q) /\ (n + 1) - 1 = n /\ n \in 0 .. Len(q)
      BY <1>1
    <3>3. off[n + 1] = off[n] + EventLen(q[n + 1]) /\ EventLen(q[n + 1]) >= HdrLen
      BY <1>3, <3>2
    <3>4. (n + 1) * HdrLen = n * HdrLen + HdrLen
      BY <1>1
    <3>5. off[n] \in Nat /\ EventLen(q[n + 1]) \in Nat /\ n * HdrLen \in Nat
      BY <1>1, <1>2, <1>3, <3>2
    <3>6. QED
      BY <1>1, <3>1, <3>3, <3>4, <3>5
  <2>3. Len(q) * HdrLen <= off[Len(q)]
    <3>1. Len(q) \in S
      <4> HIDE DEF S
      <4>1. QED
        BY <1>1, <2>1, <2>2, Induction
    <3>2. QED
      BY <1>1, <3>1
  <2>4. Len(q) * HdrLen <= BufSize
    BY <1>1, <1>2, <2>3
  <2>5. BufSize \div HdrLen \in Nat /\ (BufSize \div HdrLen + 1) * HdrLen > BufSize
    BY <1>1
  <2>6. QED
    BY <1>1, <2>4, <2>5 DEF MostEvents
<1>6. QED
  BY <1>1, <1>2, <1>3, <1>4, <1>5

\* The byte j behind a position is that position, counted around the ring.
LEMMA WrapTwice ==
  ASSUME NEW x \in Nat, NEW j \in Nat, x + j < 2 * BufSize
  PROVE  ((x % BufSize) + j) % BufSize = (x + j) % BufSize
<1>1. BufSize \in Nat \ {0}
  BY BufSizeFact
<1>2. x % BufSize = IF x < BufSize THEN x ELSE x - BufSize
  BY <1>1, Wrap
<1>3. CASE x < BufSize
  BY <1>2, <1>3
<1>4. CASE x >= BufSize
  <2>1. x % BufSize = x - BufSize /\ (x - BufSize) + j \in Nat /\ (x - BufSize) + j < BufSize
    BY <1>1, <1>2, <1>4
  <2>2. ((x - BufSize) + j) % BufSize = (x - BufSize) + j
    BY <1>1, <2>1, Wrap
  <2>3. (x + j) % BufSize = x + j - BufSize
    BY <1>1, <1>4, Wrap
  <2>4. QED
    BY <1>1, <2>1, <2>2, <2>3
<1>5. QED
  BY <1>1, <1>3, <1>4

\* A whole header is read where an event lies.
LEMMA HeaderIsRead ==
  ASSUME NEW r, NEW pos \in Nat, pos < 2 * BufSize - HdrLen, NEW e \in EventSet,
         \A j \in 0 .. EventLen(e) - 1 : r.buf[(pos + j) % BufSize] = ByteOf(e, j)
  PROVE  HeaderAt(r, pos % BufSize) = e
<1> DEFINE at == pos % BufSize
<1>1. /\ HdrLen \in Nat \ {0} /\ EventLen(e) \in Nat /\ EventLen(e) >= HdrLen
      /\ BufSize \in Nat \ {0}
  BY EventLens, BufSizeFact
<1>2. \A j \in 0 .. HdrLen - 1 : r.buf[(at + j) % BufSize] = ByteOf(e, j)
  <2> SUFFICES ASSUME NEW j \in 0 .. HdrLen - 1
               PROVE  r.buf[(at + j) % BufSize] = ByteOf(e, j)
    OBVIOUS
  <2>1. (at + j) % BufSize = (pos + j) % BufSize
    <3>1. j \in Nat /\ pos + j < 2 * BufSize
      BY <1>1
    <3>2. QED
      BY <3>1, WrapTwice
  <2>2. j \in 0 .. EventLen(e) - 1
    BY <1>1
  <2>3. QED
    BY <2>1, <2>2
<1>3. r.buf[at] = ByteOf(e, 0)
  <2>1. at \in Position /\ pos < 2 * BufSize
    BY <1>1, Wrap
  <2>2. 0 \in 0 .. HdrLen - 1 /\ at + 0 = at /\ at \in Nat /\ at < 2 * BufSize /\ at < BufSize
    BY <1>1, <2>1 DEF Position
  <2>3. at % BufSize = at
    BY <2>2, Wrap
  <2>4. QED
    BY <1>2, <2>2, <2>3
<1> HIDE DEF at
<1>4. r.buf[at].event = e
  BY <1>3 DEF ByteOf
<1>5. QED
  BY <1>2, <1>4 DEF HeaderAt, at

\* The headers are found one behind the other, from the read index to the write index.
LEMMA StartsAreOffsets ==
  ASSUME NEW r \in Rings, NEW q \in Seq(EventSet), NEW off, Laid(r, q, off)
  PROVE  /\ \A k \in 0 .. Len(q) : /\ StartOf(r)[k] = (r.rd + off[k]) % BufSize
                                   /\ StartOf(r)[k] \in Position
         /\ \A k \in 1 .. Len(q) : HeaderAt(r, StartOf(r)[k - 1]) = q[k]
<1>1. /\ BufSize \in Nat \ {0} /\ r.rd \in Nat /\ r.rd < BufSize
      /\ Len(q) \in Nat /\ Offsets(q, off)
  BY BufSizeFact DEF Rings, Position, Laid
<1>2. /\ Len(q) \in 0 .. MostEvents /\ MostEvents \in Nat
      /\ \A k \in 0 .. Len(q) : off[k] \in Nat /\ off[k] < BufSize
      /\ \A k \in 1 .. Len(q) : q[k] \in EventSet /\ off[k] = off[k - 1] + EventLen(q[k])
  BY <1>1, OffsetsGrow
<1>3. ASSUME NEW k \in 1 .. Len(q)
      PROVE  HeaderAt(r, (r.rd + off[k - 1]) % BufSize) = q[k]
  <2> DEFINE pos == r.rd + off[k - 1]
  <2>1. k - 1 \in 0 .. Len(q) /\ k \in 0 .. Len(q)
    BY <1>1
  <2>2. /\ q[k] \in EventSet /\ EventLen(q[k]) >= HdrLen /\ off[k - 1] + EventLen(q[k]) < BufSize
        /\ HdrLen \in Nat /\ EventLen(q[k]) \in Nat /\ off[k - 1] \in Nat
    BY <1>2, <2>1, EventLens
  <2>3. pos \in Nat /\ pos < 2 * BufSize - HdrLen
    BY <1>1, <2>2
  <2>4. \A j \in 0 .. EventLen(q[k]) - 1 : r.buf[(pos + j) % BufSize] = ByteOf(q[k], j)
    BY DEF Laid
  <2> HIDE DEF pos
  <2>5. HeaderAt(r, pos % BufSize) = q[k]
    BY <2>2, <2>3, <2>4, HeaderIsRead
  <2>6. QED
    BY <2>5 DEF pos
<1>4. ASSUME NEW k \in 0 .. Len(q)
      PROVE  (r.rd + off[k]) % BufSize \in Position
  <2>1. r.rd + off[k] \in Nat /\ r.rd + off[k] < 2 * BufSize
    BY <1>1, <1>2
  <2>2. QED
    BY <2>1, Wrap
<1> DEFINE S == {n \in Nat : n <= Len(q) => StartOf(r)[n] = (r.rd + off[n]) % BufSize}
<1>5. 0 \in S
  <2>1. off[0] = 0 /\ StartOf(r)[0] = r.rd
    BY <1>1, StartOfIterates DEF Offsets
  <2>2. r.rd % BufSize = r.rd
    BY <1>1
  <2>3. QED
    BY <1>1, <2>1, <2>2
<1>6. ASSUME NEW n \in Nat, n \in S
      PROVE  n + 1 \in S
  <2> SUFFICES ASSUME n + 1 <= Len(q)
               PROVE  StartOf(r)[n + 1] = (r.rd + off[n + 1]) % BufSize
    OBVIOUS
  <2>1. /\ n + 1 \in 1 .. Len(q) /\ (n + 1) - 1 = n /\ n \in 0 .. Len(q) /\ n + 1 \in 1 .. MostEvents
        /\ n + 1 \in 0 .. Len(q)
    BY <1>1, <1>2
  <2>2. StartOf(r)[n] = (r.rd + off[n]) % BufSize
    BY <1>6, <2>1
  <2>3. StartOf(r)[n] \in Position /\ HeaderAt(r, StartOf(r)[n]) = q[n + 1]
    BY <1>3, <1>4, <2>1, <2>2
  <2>4. StartOf(r)[n + 1] = (StartOf(r)[n] + EventLen(q[n + 1])) % BufSize
    BY <2>1, <2>3, StartOfIterates
  <2>5. /\ q[n + 1] \in EventSet /\ off[n + 1] = off[n] + EventLen(q[n + 1])
        /\ EventLen(q[n + 1]) \in Nat /\ off[n] \in Nat /\ off[n + 1] \in Nat /\ off[n + 1] < BufSize
    BY <1>2, <2>1, EventLens
  <2>6. (((r.rd + off[n]) % BufSize) + EventLen(q[n + 1])) % BufSize
          = (r.rd + off[n] + EventLen(q[n + 1])) % BufSize
    <3>1. r.rd + off[n] \in Nat
      BY <1>1, <2>5
    <3>2. off[n] + EventLen(q[n + 1]) < BufSize
      BY <2>5
    <3>3. r.rd + off[n] + EventLen(q[n + 1]) < 2 * BufSize
      BY <1>1, <2>5, <3>2
    <3>4. QED
      BY <2>5, <3>1, <3>3, WrapTwice
  <2>7. r.rd + off[n] + EventLen(q[n + 1]) = r.rd + off[n + 1]
    BY <1>1, <2>5
  <2>8. QED
    BY <2>2, <2>4, <2>6, <2>7
<1>7. \A k \in 0 .. Len(q) : StartOf(r)[k] = (r.rd + off[k]) % BufSize
  <2>1. \A k \in Nat : k \in S
    <3> HIDE DEF S
    <3>1. QED
      BY <1>5, <1>6, Induction
  <2>2. QED
    BY <1>1, <2>1
<1>8. ASSUME NEW k \in 1 .. Len(q)
      PROVE  HeaderAt(r, StartOf(r)[k - 1]) = q[k]
  BY <1>1, <1>3, <1>7
<1>9. QED
  BY <1>4, <1>7, <1>8

\* Counted from an index, the bytes between two positions of the ring are those
\* between their offsets.
LEMMA WrapDistance ==
  ASSUME NEW rd \in Position, NEW x \in Nat, NEW y \in Nat, x <= y, y < BufSize
  PROVE  /\ ReadSize((rd + x) % BufSize, (rd + y) % BufSize) = y - x
         /\ (rd + x) % BufSize = (rd + y) % BufSize => x = y
         /\ (rd + x) % BufSize \in Position
<1>1. BufSize \in Nat \ {0} /\ rd \in Nat /\ rd < BufSize
  BY BufSizeFact DEF Position
<1>2. /\ (rd + x) % BufSize = IF rd + x < BufSize THEN rd + x ELSE rd + x - BufSize
      /\ (rd + x) % BufSize \in Position
  <2>1. rd + x \in Nat /\ rd + x < 2 * BufSize
    BY <1>1
  <2>2. (rd + x) % BufSize = IF rd + x < BufSize THEN rd + x ELSE rd + x - BufSize
    BY <1>1, <2>1, Wrap
  <2>3. (rd + x) % BufSize \in Position
    BY <2>1, Wrap
  <2>4. QED
    BY <2>2, <2>3
<1>3. (rd + y) % BufSize = IF rd + y < BufSize THEN rd + y ELSE rd + y - BufSize
  <2>1. rd + y \in Nat /\ rd + y < 2 * BufSize
    BY <1>1
  <2>2. (rd + y) % BufSize = IF rd + y < BufSize THEN rd + y ELSE rd + y - BufSize
    BY <1>1, <2>1, Wrap
  <2>3. (rd + y) % BufSize \in Position
    BY <2>1, Wrap
  <2>4. QED
    BY <2>2, <2>3
<1> DEFINE a == (rd + x) % BufSize
           b == (rd + y) % BufSize
<1>4. /\ a = IF rd + x < BufSize THEN rd + x ELSE rd + x - BufSize
      /\ b = IF rd + y < BufSize THEN rd + y ELSE rd + y - BufSize
  BY <1>2, <1>3
<1> HIDE DEF a, b
<1>5. ReadSize(a, b) = y - x /\ (a = b => x = y)
  BY <1>1, <1>4 DEF ReadSize
<1>6. QED
  BY <1>2, <1>5 DEF a, b

\* The headers from the read index to the write index are those of the events in the
\* ring, in their order.
LEMMA ContentsAreLaid ==
  ASSUME NEW r \in Rings, NEW q \in Seq(EventSet), NEW off, Laid(r, q, off)
  PROVE  Contents(r) = q /\ Ends(r) # {}
<1> DEFINE n == Len(q)
           start == StartOf(r)
<1>1. /\ n \in Nat /\ n \in 0 .. MostEvents /\ MostEvents \in Nat
      /\ \A k \in 0 .. n : off[k] \in Nat /\ off[k] < BufSize
      /\ \A i, j \in 0 .. n : i < j => off[i] < off[j]
  BY OffsetsGrow DEF Laid
<1>2. /\ \A k \in 0 .. n : start[k] = (r.rd + off[k]) % BufSize
      /\ \A k \in 1 .. n : HeaderAt(r, start[k - 1]) = q[k]
  BY StartsAreOffsets
<1>3. start[n] = r.wt
  BY <1>1, <1>2 DEF Laid
<1>4. ASSUME NEW k \in 0 .. n - 1
      PROVE  start[k] # r.wt
  <2>1. k \in 0 .. n /\ n \in 0 .. n /\ k < n
    BY <1>1
  <2>2. off[k] < off[n] /\ off[k] \in Nat /\ off[n] \in Nat /\ off[n] < BufSize
    BY <1>1, <2>1
  <2>3. r.rd \in Position
    BY DEF Rings
  <2>4. (r.rd + off[k]) % BufSize # (r.rd + off[n]) % BufSize
    BY <2>2, <2>3, WrapDistance
  <2>5. QED
    BY <1>2, <1>3, <2>1, <2>4
<1> HIDE DEF n, start
<1>5. Ends(r) = {n}
  <2>1. Ends(r) = {k \in 0 .. MostEvents : start[k] = r.wt /\ \A j \in 0 .. k - 1 : start[j] # r.wt}
    BY DEF Ends, start
  <2>2. n \in Ends(r)
    BY <1>1, <1>3, <1>4, <2>1
  <2>3. ASSUME NEW k \in Ends(r)
        PROVE  k = n
    <3>1. k \in 0 .. MostEvents /\ start[k] = r.wt /\ \A j \in 0 .. k - 1 : start[j] # r.wt
      BY <2>1
    <3>2. ~(k < n)
      BY <1>1, <1>4, <3>1
    <3>3. ~(n < k)
      BY <1>1, <1>3, <3>1
    <3>4. QED
      BY <1>1, <3>1, <3>2, <3>3
  <2>4. QED
    BY <2>2, <2>3
<1>6. Contents(r) = [k \in 1 .. n |-> HeaderAt(r, start[k - 1])]
  <2> DEFINE first == [m \in 0 .. MostEvents |-> [k \in 1 .. m |-> HeaderAt(r, start[k - 1])]]
  <2>1. Contents(r) = first[CHOOSE k \in Ends(r) : TRUE]
    BY <1>5 DEF Contents, start
  <2>2. (CHOOSE k \in Ends(r) : TRUE) = n
    BY <1>5
  <2>3. QED
    BY <1>1, <2>1, <2>2
<1>7. [k \in 1 .. n |-> HeaderAt(r, start[k - 1])] = q
  BY <1>2 DEF n
<1>8. QED
  BY <1>5, <1>6, <1>7

\* The other way around the ring.
LEMMA WrapBack ==
  ASSUME NEW rd \in Position, NEW x \in Nat, NEW y \in Nat, x < y, y < BufSize
  PROVE  ReadSize((rd + y) % BufSize, (rd + x) % BufSize) = BufSize - (y - x)
<1>1. BufSize \in Nat \ {0} /\ rd \in Nat /\ rd < BufSize
  BY BufSizeFact DEF Position
<1>2. (rd + x) % BufSize = IF rd + x < BufSize THEN rd + x ELSE rd + x - BufSize
  <2>1. rd + x \in Nat /\ rd + x < 2 * BufSize
    BY <1>1
  <2>2. QED
    BY <1>1, <2>1, Wrap
<1>3. (rd + y) % BufSize = IF rd + y < BufSize THEN rd + y ELSE rd + y - BufSize
  <2>1. rd + y \in Nat /\ rd + y < 2 * BufSize
    BY <1>1
  <2>2. QED
    BY <1>1, <2>1, Wrap
<1> DEFINE a == (rd + x) % BufSize
           b == (rd + y) % BufSize
<1>4. /\ a = IF rd + x < BufSize THEN rd + x ELSE rd + x - BufSize
      /\ b = IF rd + y < BufSize THEN rd + y ELSE rd + y - BufSize
  BY <1>2, <1>3
<1> HIDE DEF a, b
<1>5. ReadSize(b, a) = BufSize - (y - x)
  BY <1>1, <1>4 DEF ReadSize
<1>6. QED
  BY <1>5 DEF a, b

\* The place of a byte behind the write index.
LEMMA PlaceIsReadSize ==
  ASSUME NEW p \in Position, NEW w \in Position
  PROVE  (p - w) % BufSize = ReadSize(w, p)
<1>1. BufSize \in Nat \ {0} /\ p \in 0 .. BufSize - 1 /\ w \in 0 .. BufSize - 1
  BY BufSizeFact DEF Position
<1>2. CASE p >= w
  <2>1. p - w \in Nat /\ p - w < BufSize
    BY <1>1, <1>2
  <2>2. QED
    BY <1>1, <1>2, <2>1 DEF ReadSize
<1>3. CASE p < w
  <2> DEFINE y == p + BufSize - w
  <2>1. y \in Nat /\ y < BufSize /\ p - w = y + (-1) * BufSize
    BY <1>1, <1>3
  <2>2. (p - w) % BufSize = y
    BY <1>1, <2>1
  <2>3. QED
    BY <1>1, <1>3, <2>2 DEF ReadSize
<1>4. QED
  BY <1>1, <1>2, <1>3

\* As few of the oldest events are deleted as make room.
Dropped(q, off, len, d) ==
  /\ d \in 0 .. Len(q)
  /\ BufSize - (off[Len(q)] - off[d]) - 1 >= len
  /\ \A j \in 0 .. d - 1 : BufSize - (off[Len(q)] - off[j]) - 1 < len

Evicted(r, off, d) ==
  [ buf |-> r.buf, rd |-> (r.rd + off[d]) % BufSize, wt |-> r.wt,
    try_rd |-> IF d = 0 THEN r.try_rd ELSE (r.rd + off[d]) % BufSize ]

\* Making room deletes the fewest of the oldest events that must go, and nothing else.
LEMMA EvictDropsFew ==
  ASSUME NEW r \in Rings, NEW q \in Seq(EventSet), NEW off, Laid(r, q, off),
         NEW len \in Nat, len < BufSize
  PROVE  \E d \in 0 .. Len(q) : Dropped(q, off, len, d) /\ Evict(r, len) = Evicted(r, off, d)
<1> DEFINE n == Len(q)
           start == StartOf(r)
           enough == {k \in 0 .. MostEvents : ValidBytes(start[k], r.wt) >= len}
<1>1. /\ n \in Nat /\ n \in 0 .. MostEvents /\ MostEvents \in Nat
      /\ \A k \in 0 .. n : off[k] \in Nat /\ off[k] < BufSize
      /\ \A i, j \in 0 .. n : i < j => off[i] < off[j]
      /\ off[0] = 0 /\ r.wt = (r.rd + off[n]) % BufSize
      /\ r.rd \in Position /\ BufSize \in Nat \ {0}
  <2>1. Offsets(q, off) /\ off[0] = 0 /\ r.wt = (r.rd + off[n]) % BufSize
    BY DEF Laid, Offsets
  <2>2. r.rd \in Position /\ BufSize \in Nat \ {0}
    BY BufSizeFact DEF Rings
  <2>3. n \in Nat
    OBVIOUS
  <2>4. QED
    BY <2>1, <2>2, <2>3, OffsetsGrow
<1>2. \A k \in 0 .. n : start[k] = (r.rd + off[k]) % BufSize
  BY StartsAreOffsets
<1> HIDE DEF n, start
<1>3. ASSUME NEW k \in 0 .. n
      PROVE  ValidBytes(start[k], r.wt) = BufSize - (off[n] - off[k]) - 1
  <2>1. off[k] \in Nat /\ off[n] \in Nat /\ off[n] < BufSize /\ off[k] <= off[n]
    <3>1. n \in 0 .. n /\ (k < n \/ k = n)
      BY <1>1
    <3>2. QED
      BY <1>1, <3>1
  <2>2. ReadSize(start[k], r.wt) = off[n] - off[k]
    BY <1>1, <1>2, <2>1, WrapDistance
  <2>3. QED
    BY <2>2 DEF ValidBytes
<1>4. n \in enough
  <2>1. ValidBytes(start[n], r.wt) = BufSize - (off[n] - off[n]) - 1
    BY <1>1, <1>3
  <2>2. off[n] \in Nat
    BY <1>1
  <2>3. QED
    BY <1>1, <2>1, <2>2
<1>5. PICK d \in enough : \A j \in enough : d <= j
  <2>1. enough \in SUBSET Nat /\ enough # {}
    BY <1>1, <1>4
  <2> HIDE DEF enough
  <2>2. QED
    BY <2>1, LeastElement
<1>6. d \in 0 .. n
  BY <1>1, <1>4, <1>5
<1>7. Dropped(q, off, len, d)
  <2>1. BufSize - (off[n] - off[d]) - 1 >= len
    BY <1>3, <1>5, <1>6
  <2>2. ASSUME NEW j \in 0 .. d - 1
        PROVE  BufSize - (off[n] - off[j]) - 1 < len
    <3>1. j \in 0 .. n /\ j \in 0 .. MostEvents /\ ~(d <= j)
      BY <1>1, <1>6
    <3>2. ~(ValidBytes(start[j], r.wt) >= len)
      BY <1>5, <3>1
    <3>3. off[j] \in Nat /\ off[n] \in Nat
      BY <1>1, <3>1
    <3>4. QED
      BY <1>1, <1>3, <3>1, <3>2, <3>3
  <2>3. QED
    BY <1>6, <2>1, <2>2 DEF Dropped, n
<1>8. (CHOOSE k \in enough : \A j \in enough : k <= j) = d
  <2>1. \A k \in enough : k \in Nat
    BY <1>1
  <2> HIDE DEF enough
  <2>2. \A k \in enough : (\A j \in enough : k <= j) => k = d
    BY <1>5, <2>1
  <2>3. QED
    BY <1>5, <2>2
<1>9. Evict(r, len) = IF d = 0 THEN r ELSE [r EXCEPT !.rd = start[d], !.try_rd = start[d]]
  <2>1. Evict(r, len) = LET k == CHOOSE k \in enough : \A j \in enough : k <= j
                        IN  IF k = 0 THEN r
                            ELSE [r EXCEPT !.rd = start[k], !.try_rd = start[k]]
    BY DEF Evict, start
  <2> HIDE DEF enough
  <2>2. QED
    BY <1>8, <2>1
<1>10. r.rd % BufSize = r.rd
  <2>1. r.rd \in Nat /\ r.rd < BufSize /\ BufSize \in Nat \ {0}
    BY <1>1 DEF Position
  <2>2. QED
    BY <2>1
<1>11. CASE d = 0
  <2>1. r.rd + off[d] = r.rd
    BY <1>1, <1>11 DEF Position
  <2>2. r = Evicted(r, off, d)
    BY <1>10, <1>11, <2>1 DEF Evicted, Rings
  <2>3. QED
    BY <1>6, <1>7, <1>9, <1>11, <2>2 DEF n
<1>12. CASE d # 0
  <2>1. Evicted(r, off, d) = [buf |-> r.buf, rd |-> start[d], wt |-> r.wt, try_rd |-> start[d]]
    BY <1>2, <1>6, <1>12 DEF Evicted
  <2>3. Evict(r, len) = [r EXCEPT !.rd = start[d], !.try_rd = start[d]]
    BY <1>9, <1>12
  <2>4. Evict(r, len) = [buf |-> r.buf, rd |-> start[d], wt |-> r.wt, try_rd |-> start[d]]
    BY <2>3 DEF Rings
  <2>5. QED
    BY <1>6, <1>7, <2>1, <2>4 DEF n
<1>13. QED
  BY <1>11, <1>12

\* The offsets of what is left when the first d events are gone.
LEMMA OffsetsOfRest ==
  ASSUME NEW q \in Seq(EventSet), NEW off, Offsets(q, off), NEW d \in 0 .. Len(q)
  PROVE  /\ SubSeq(q, d + 1, Len(q)) \in Seq(EventSet)
         /\ Len(SubSeq(q, d + 1, Len(q))) = Len(q) - d
         /\ \A k \in 1 .. Len(q) - d : SubSeq(q, d + 1, Len(q))[k] = q[d + k]
         /\ Offsets(SubSeq(q, d + 1, Len(q)), [k \in 0 .. Len(q) - d |-> off[d + k] - off[d]])
<1> DEFINE n == Len(q)
           rest == SubSeq(q, d + 1, n)
           offr == [k \in 0 .. n - d |-> off[d + k] - off[d]]
<1>1. /\ n \in Nat /\ d \in Nat /\ d <= n /\ BufSize \in Nat
      /\ \A k \in 1 .. n : q[k] \in EventSet
  BY BufSizeFact
<1>2. rest = [k \in 1 .. n - d |-> q[d + k]]
  <2>1. rest = [k \in 1 .. (n - (d + 1) + 1) |-> q[(d + 1) + k - 1]]
    OBVIOUS
  <2>2. n - (d + 1) + 1 = n - d /\ \A k \in 1 .. n - d : (d + 1) + k - 1 = d + k
    BY <1>1
  <2>3. QED
    BY <2>1, <2>2
<1>3. \A k \in 1 .. n - d : q[d + k] \in EventSet
  BY <1>1
<1>4. rest \in Seq(EventSet) /\ Len(rest) = n - d /\ \A k \in 1 .. n - d : rest[k] = q[d + k]
  <2>1. n - d \in Nat
    BY <1>1
  <2>2. rest \in [1 .. n - d -> EventSet]
    BY <1>2, <1>3
  <2> HIDE DEF rest
  <2>3. rest \in Seq(EventSet) /\ Len(rest) = n - d
    BY <2>1, <2>2
  <2>4. QED
    BY <1>2, <2>3
<1>5. /\ \A k \in 0 .. n : off[k] \in Nat /\ off[k] < BufSize
      /\ \A k \in 1 .. n : off[k] = off[k - 1] + EventLen(q[k])
      /\ \A i, j \in 0 .. n : i < j => off[i] < off[j]
  BY OffsetsGrow
<1> HIDE DEF n, rest
<1>6. Offsets(rest, offr)
  <2>1. ASSUME NEW k \in 0 .. n - d
        PROVE  offr[k] \in 0 .. BufSize - 1
    <3>1. d + k \in 0 .. n /\ d \in 0 .. n /\ (d < d + k \/ d = d + k)
      BY <1>1
    <3>2. off[d + k] \in Nat /\ off[d + k] < BufSize /\ off[d] \in Nat /\ off[d] <= off[d + k]
      BY <1>5, <3>1
    <3>3. QED
      BY <1>1, <3>2
  <2>2. offr[0] = 0
    <3>1. 0 \in 0 .. n - d /\ d + 0 = d /\ d \in 0 .. n
      BY <1>1
    <3>2. off[d] \in Nat
      BY <1>5, <3>1
    <3>3. QED
      BY <3>1, <3>2
  <2>3. ASSUME NEW k \in 1 .. n - d
        PROVE  offr[k] = offr[k - 1] + EventLen(rest[k])
    <3>1. /\ d + k \in 1 .. n /\ d + k \in 0 .. n /\ (d + k) - 1 = d + (k - 1) /\ d + (k - 1) \in 0 .. n
          /\ k \in 0 .. n - d /\ k - 1 \in 0 .. n - d /\ d \in 0 .. n
      BY <1>1
    <3>2. off[d + k] = off[d + (k - 1)] + EventLen(q[d + k])
      BY <1>5, <3>1
    <3>3. /\ off[d + k] \in Nat /\ off[d + (k - 1)] \in Nat /\ off[d] \in Nat
          /\ EventLen(q[d + k]) \in Nat
      BY <1>3, <1>5, <3>1, EventLens
    <3>4. rest[k] = q[d + k]
      BY <1>4
    <3>5. offr[k] = off[d + k] - off[d] /\ offr[k - 1] = off[d + (k - 1)] - off[d]
      BY <3>1
    <3> HIDE DEF offr
    <3>6. QED
      BY <3>2, <3>3, <3>4, <3>5
  <2>4. QED
    BY <1>4, <2>1, <2>2, <2>3 DEF Offsets
<1>7. QED
  BY <1>4, <1>6 DEF n, rest

\* Writing an event deletes as few of the oldest as it must and puts the new one
\* behind the others.  If one is deleted nothing is read ahead any more.
LEMMA WriteLays ==
  ASSUME NEW r \in Rings, NEW q \in Seq(EventSet), NEW off, Laid(r, q, off), NEW e \in EventSet
  PROVE  LET w == pldm_event_rbuf_write(r, e) IN
         /\ w \in Rings
         /\ \E d \in 0 .. Len(q) :
              /\ Dropped(q, off, EventLen(e), d)
              /\ \E offw : Laid(w, Append(SubSeq(q, d + 1, Len(q)), e), offw)
              /\ IF d = 0 THEN w.rd = r.rd /\ w.try_rd = r.try_rd
                          ELSE w.rd # r.rd /\ w.try_rd = w.rd
<1> DEFINE w == pldm_event_rbuf_write(r, e)
           n == Len(q)
           len == EventLen(e)
<1>1. /\ n \in Nat /\ BufSize \in Nat \ {0} /\ len \in Nat \ {0} /\ len < BufSize
      /\ r.rd \in Position /\ r.wt \in Position /\ r.try_rd \in Position
      /\ r.buf \in [Position -> Bytes]
  BY BufSizeFact, EventLens DEF Rings
<1>2. /\ Offsets(q, off) /\ r.wt = (r.rd + off[n]) % BufSize
      /\ \A k \in 1 .. n : \A j \in 0 .. EventLen(q[k]) - 1 :
           r.buf[(r.rd + off[k - 1] + j) % BufSize] = ByteOf(q[k], j)
  BY DEF Laid
<1>3. /\ \A k \in 0 .. n : off[k] \in Nat /\ off[k] < BufSize
      /\ \A k \in 1 .. n : q[k] \in EventSet /\ off[k] = off[k - 1] + EventLen(q[k])
      /\ \A i, j \in 0 .. n : i < j => off[i] < off[j]
      /\ off[0] = 0
  BY <1>2, OffsetsGrow DEF Offsets
<1>4. PICK d \in 0 .. n : Dropped(q, off, len, d) /\ Evict(r, len) = Evicted(r, off, d)
  <2>1. len \in Nat /\ len < BufSize
    BY <1>1
  <2> HIDE DEF len, w
  <2>2. QED
    BY <2>1, EvictDropsFew
<1> DEFINE u == (r.rd + off[d]) % BufSize
           used == off[n] - off[d]
<1>5. /\ off[d] \in Nat /\ off[n] \in Nat /\ off[d] <= off[n] /\ off[n] < BufSize
      /\ used \in Nat /\ used + len < BufSize
  <2>1. d \in 0 .. n /\ n \in 0 .. n /\ (d < n \/ d = n)
    BY <1>1
  <2>2. BufSize - used - 1 >= len
    BY <1>4 DEF Dropped
  <2>3. off[d] \in Nat /\ off[n] \in Nat /\ off[d] <= off[n] /\ off[n] < BufSize
    BY <1>3, <2>1
  <2>4. QED
    BY <1>1, <2>2, <2>3
<1>6. u \in Position
  <2>1. r.rd + off[d] \in Nat /\ r.rd + off[d] < 2 * BufSize
    BY <1>1, <1>5 DEF Position
  <2>2. QED
    BY <2>1, Wrap
<1>7. ASSUME NEW x \in Nat, off[d] + x < BufSize
      PROVE  (u + x) % BufSize = (r.rd + (off[d] + x)) % BufSize
  <2>1. r.rd + off[d] \in Nat /\ (r.rd + off[d]) + x < 2 * BufSize /\ r.rd \in Nat
    <3>1. r.rd \in Nat /\ r.rd < BufSize /\ BufSize \in Nat
      BY <1>1 DEF Position
    <3> DEFINE rd == r.rd
               start == off[d]
    <3>2. start \in Nat /\ start + x < BufSize /\ rd \in Nat /\ rd < BufSize /\ BufSize \in Nat
      BY <1>5, <1>7, <3>1
    <3> HIDE DEF rd, start
    <3>3. rd + start \in Nat /\ (rd + start) + x < 2 * BufSize
      BY <3>2
    <3>4. QED
      BY <3>1, <3>3 DEF rd, start
  <2>2. (u + x) % BufSize = ((r.rd + off[d]) + x) % BufSize
    BY <2>1, WrapTwice
  <2>3. (r.rd + off[d]) + x = r.rd + (off[d] + x)
    BY <1>5, <2>1
  <2>4. QED
    BY <2>2, <2>3
<1>8. r.wt = (u + used) % BufSize
  <2>1. off[d] + used = off[n]
    BY <1>5
  <2>2. QED
    BY <1>2, <1>5, <1>7, <2>1
<1>9. w = [ buf |-> [p \in Position |-> IF (p - r.wt) % BufSize < len
                                        THEN ByteOf(e, (p - r.wt) % BufSize) ELSE r.buf[p]],
            rd |-> u, wt |-> (r.wt + len) % BufSize,
            try_rd |-> IF d = 0 THEN r.try_rd ELSE u ]
  <2> DEFINE bytes == [p \in Position |-> IF (p - r.wt) % BufSize < len
                                          THEN ByteOf(e, (p - r.wt) % BufSize) ELSE r.buf[p]]
  <2>1. w = [Evict(r, len) EXCEPT !.buf = bytes, !.wt = (r.wt + len) % BufSize]
    BY DEF pldm_event_rbuf_write
  <2>2. Evict(r, len) = [ buf |-> r.buf, rd |-> u, wt |-> r.wt,
                          try_rd |-> IF d = 0 THEN r.try_rd ELSE u ]
    BY <1>4 DEF Evicted
  <2> DEFINE tr == IF d = 0 THEN r.try_rd ELSE u
             wt == (r.wt + len) % BufSize
  <2>3. w = [[buf |-> r.buf, rd |-> u, wt |-> r.wt, try_rd |-> tr] EXCEPT !.buf = bytes, !.wt = wt]
    BY <2>1, <2>2
  <2> HIDE DEF bytes, u, len, w, tr, wt
  <2>5. w = [buf |-> bytes, rd |-> u, wt |-> wt, try_rd |-> tr]
    BY <2>3
  <2>6. w = [ buf |-> bytes, rd |-> u, wt |-> (r.wt + len) % BufSize,
              try_rd |-> IF d = 0 THEN r.try_rd ELSE u ]
    BY <2>5 DEF tr, wt
  <2>4. QED
    BY <2>6 DEF bytes
<1> HIDE DEF u, used, len, w
<1>10. w.buf = [p \in Position |-> IF (p - r.wt) % BufSize < len
                                  THEN ByteOf(e, (p - r.wt) % BufSize) ELSE r.buf[p]]
  BY <1>9
<1>11. /\ w.rd = u /\ w.wt = (r.wt + len) % BufSize
       /\ w.try_rd = IF d = 0 THEN r.try_rd ELSE u
  BY <1>9
<1>12. w.wt = (u + (used + len)) % BufSize
  <2>1. /\ u + used \in Nat /\ u + used + len < 2 * BufSize /\ u \in Nat
        /\ (u + used) + len = u + (used + len)
    BY <1>1, <1>5, <1>6 DEF Position
  <2>2. (((u + used) % BufSize) + len) % BufSize = ((u + used) + len) % BufSize
    BY <1>1, <2>1, WrapTwice
  <2>3. QED
    BY <1>8, <1>11, <2>1, <2>2
<1>13. w \in Rings
  <2>1. \A p \in Position : (p - r.wt) % BufSize \in Nat
    BY <1>1 DEF Position
  <2>2. w.buf \in [Position -> Bytes]
    <3>1. ASSUME NEW p \in Position
          PROVE  w.buf[p] \in Bytes
      <4>1. ByteOf(e, (p - r.wt) % BufSize) \in Bytes
        BY <2>1 DEF ByteOf, Bytes
      <4>2. QED
        BY <1>1, <1>10, <4>1
    <3>2. QED
      BY <1>10, <3>1
  <2>3. w.wt \in Position
    <3>1. r.wt + len \in Nat /\ r.wt + len < 2 * BufSize
      BY <1>1 DEF Position
    <3>2. QED
      BY <1>11, <3>1, Wrap
  <2>4. w.rd \in Position /\ w.try_rd \in Position
    BY <1>1, <1>6, <1>11
  <2>5. w = [buf |-> w.buf, rd |-> w.rd, wt |-> w.wt, try_rd |-> w.try_rd]
    BY <1>9
  <2>6. QED
    BY <2>2, <2>3, <2>4, <2>5 DEF Rings
\* The new bytes lie behind the old ones.
<1>14. ASSUME NEW x \in Nat, x < used
       PROVE  w.buf[(u + x) % BufSize] = r.buf[(u + x) % BufSize]
  <2>1. (u + x) % BufSize \in Position
    <3>1. u + x \in Nat /\ u + x < 2 * BufSize
      BY <1>1, <1>5, <1>6, <1>14 DEF Position
    <3>2. QED
      BY <3>1, Wrap
  <2>2. used < BufSize
    BY <1>1, <1>5
  <2>3. ReadSize((u + used) % BufSize, (u + x) % BufSize) = BufSize - (used - x)
    BY <1>5, <1>6, <1>14, <2>2, WrapBack
  <2>4. (((u + x) % BufSize) - r.wt) % BufSize = BufSize - (used - x)
    BY <1>1, <1>8, <2>1, <2>3, PlaceIsReadSize
  <2>5. ~(BufSize - (used - x) < len)
    BY <1>1, <1>5, <1>14
  <2>6. QED
    BY <1>10, <2>1, <2>4, <2>5
<1>15. ASSUME NEW j \in 0 .. len - 1
       PROVE  w.buf[(u + (used + j)) % BufSize] = ByteOf(e, j)
  <2>1. /\ used + j \in Nat /\ used <= used + j /\ used + j < BufSize /\ j < len
        /\ (used + j) - used = j
    BY <1>1, <1>5
  <2>2. (u + (used + j)) % BufSize \in Position
    <3>1. u + (used + j) \in Nat /\ u + (used + j) < 2 * BufSize
      BY <1>1, <1>6, <2>1 DEF Position
    <3>2. QED
      BY <3>1, Wrap
  <2> DEFINE y == used + j
  <2>3. ReadSize((u + used) % BufSize, (u + y) % BufSize) = y - used
    <3> HIDE DEF y
    <3>1. used <= y /\ y < BufSize /\ y \in Nat
      BY <2>1 DEF y
    <3>2. QED
      BY <1>5, <1>6, <3>1, WrapDistance
  <2>4. (((u + (used + j)) % BufSize) - r.wt) % BufSize = j
    BY <1>1, <1>8, <2>1, <2>2, <2>3, PlaceIsReadSize
  <2>5. QED
    BY <1>10, <2>1, <2>2, <2>4
\* What is left of the old events lies where it was.
<1> DEFINE rest == SubSeq(q, d + 1, n)
           offr == [k \in 0 .. n - d |-> off[d + k] - off[d]]
           offw == [k \in 0 .. (n - d) + 1 |-> IF k <= n - d THEN offr[k] ELSE used + len]
           qw == Append(rest, e)
<1>16. /\ rest \in Seq(EventSet) /\ Len(rest) = n - d /\ n - d \in Nat
       /\ \A k \in 1 .. n - d : rest[k] = q[d + k]
       /\ offr \in [0 .. n - d -> 0 .. BufSize - 1] /\ offr[0] = 0 /\ offr[n - d] = used
       /\ \A k \in 1 .. n - d : offr[k] = offr[k - 1] + EventLen(rest[k])
  <2>1. /\ rest \in Seq(EventSet) /\ Len(rest) = n - d
        /\ \A k \in 1 .. n - d : rest[k] = q[d + k] /\ Offsets(rest, offr)
    BY <1>2, OffsetsOfRest DEF n
  <2>2. Offsets(rest, offr)
    BY <1>2, OffsetsOfRest DEF n
  <2>3. n - d \in Nat /\ n - d \in 0 .. n - d /\ d + (n - d) = n
    BY <1>1
  <2>4. offr[n - d] = used
    BY <2>3 DEF used
  <2> HIDE DEF rest, offr
  <2>5. QED
    BY <2>1, <2>2, <2>3, <2>4 DEF Offsets
<1>17. ASSUME NEW k \in 1 .. n - d, NEW j \in 0 .. EventLen(rest[k]) - 1
       PROVE  w.buf[(u + (offr[k - 1] + j)) % BufSize] = ByteOf(rest[k], j)
  <2>1. /\ d + k \in 1 .. n /\ d + k \in 0 .. n /\ (d + k) - 1 = d + (k - 1) /\ d + (k - 1) \in 0 .. n
        /\ k - 1 \in 0 .. n - d /\ d \in 0 .. n /\ n \in 0 .. n
    BY <1>1
  <2>2. rest[k] = q[d + k] /\ q[d + k] \in EventSet
    BY <1>3, <1>16, <2>1
  <2>3. r.buf[(r.rd + off[d + (k - 1)] + j) % BufSize] = ByteOf(rest[k], j)
    BY <1>2, <2>1, <2>2
  <2>4. /\ off[d + (k - 1)] \in Nat /\ off[d + k] = off[d + (k - 1)] + EventLen(q[d + k])
        /\ off[d] \in Nat /\ off[n] \in Nat /\ off[d + k] \in Nat /\ off[d + k] < BufSize
    BY <1>3, <2>1
  <2>5. off[d + k] <= off[n] /\ off[d] <= off[d + (k - 1)]
    <3>1. \A i \in 0 .. n : off[i] \in Nat
      BY <1>3
    <3>2. \A i, j1 \in 0 .. n : i < j1 => off[i] < off[j1]
      BY <1>3
    <3>3. ASSUME NEW i \in 0 .. n, NEW j1 \in 0 .. n, i <= j1
          PROVE  off[i] <= off[j1]
      <4>1. off[i] \in Nat /\ off[j1] \in Nat
        BY <3>1
      <4>2. CASE i = j1
        BY <4>1, <4>2
      <4>3. CASE i # j1
        <5>1. i < j1
          BY <3>3, <4>3
        <5>2. off[i] < off[j1]
          BY <3>2, <5>1
        <5>3. QED
          BY <4>1, <5>2
      <4>4. QED
        BY <4>2, <4>3
    <3> DEFINE top == d + k
               m == d + (k - 1)
    <3>4. top \in 0 .. n /\ top <= n /\ m \in 0 .. n /\ d <= m /\ d \in 0 .. n /\ n \in 0 .. n
      BY <1>1, <2>1
    <3> HIDE DEF top, m
    <3>5. off[top] <= off[n]
      BY <3>3, <3>4
    <3>6. off[d] <= off[m]
      BY <3>3, <3>4
    <3>7. QED
      BY <3>5, <3>6 DEF top, m
  <2> DEFINE a == off[d + (k - 1)]
             x == (a - off[d]) + j
             L == EventLen(q[d + k])
  <2>6. L \in Nat /\ j \in Nat /\ j < L
    BY <2>2, EventLens
  <2>7. x \in Nat /\ x < used /\ off[d] + x = a + j /\ off[d] + x < BufSize /\ offr[k - 1] + j = x
    <3>1. offr[k - 1] = a - off[d]
      BY <2>1
    <3> HIDE DEF offr, L
    <3>2. a \in Nat /\ a + L <= off[n] /\ off[d] <= a
      BY <2>4, <2>5 DEF L
    <3>3. off[d] \in Nat /\ off[n] \in Nat /\ off[n] < BufSize /\ used = off[n] - off[d]
      BY <1>5 DEF used
    <3> HIDE DEF a
    <3> DEFINE b == off[d]
               c == off[n]
    <3> HIDE DEF b, c
    <3>4. x = (a - b) + j /\ b \in Nat /\ c \in Nat /\ c < BufSize /\ used = c - b /\ a \in Nat
          /\ a + L <= c /\ b <= a
      BY <3>2, <3>3 DEF b, c
    <3> HIDE DEF x
    <3>5. x \in Nat /\ x < used /\ b + x = a + j /\ b + x < BufSize
      BY <1>1, <2>6, <3>4
    <3>6. x \in Nat /\ x < used /\ off[d] + x = a + j /\ off[d] + x < BufSize
      BY <3>5 DEF b
    <3>7. QED
      BY <3>1, <3>6 DEF x, b
  <2> HIDE DEF offr, L, x, rest
  <2>8. (u + x) % BufSize = (r.rd + (off[d] + x)) % BufSize
    BY <1>7, <2>7
  <2>9. r.rd + (off[d] + x) = r.rd + a + j
    <3>1. r.rd \in Nat /\ a \in Nat
      BY <1>1, <2>4 DEF Position
    <3> HIDE DEF a
    <3>2. QED
      BY <2>6, <2>7, <3>1
  <2>10. w.buf[(u + x) % BufSize] = ByteOf(rest[k], j)
    BY <1>14, <2>3, <2>7, <2>8, <2>9
  <2>11. QED
    BY <2>7, <2>10
<1> HIDE DEF rest, offr
<1>18. /\ Len(qw) = (n - d) + 1 /\ qw \in Seq(EventSet)
       /\ \A k \in 1 .. n - d : qw[k] = rest[k]
       /\ qw[(n - d) + 1] = e
  BY <1>16
<1> HIDE DEF qw
<1>19. /\ \A k \in 0 .. n - d : offw[k] = offr[k]
       /\ offw[(n - d) + 1] = used + len
       /\ offw \in [0 .. (n - d) + 1 -> 0 .. BufSize - 1]
  <2>1. /\ \A k \in 0 .. n - d : k \in 0 .. (n - d) + 1 /\ k <= n - d
        /\ (n - d) + 1 \in 0 .. (n - d) + 1 /\ ~((n - d) + 1 <= n - d)
        /\ \A k \in 0 .. (n - d) + 1 : k <= n - d => k \in 0 .. n - d
    BY <1>16
  <2>2. used + len \in 0 .. BufSize - 1
    BY <1>1, <1>5
  <2>3. QED
    BY <1>16, <2>1, <2>2
<1> HIDE DEF offw
<1>20. Offsets(qw, offw)
  <2>1. offw[0] = 0
    BY <1>16, <1>19
  <2>2. ASSUME NEW k \in 1 .. (n - d) + 1
        PROVE  offw[k] = offw[k - 1] + EventLen(qw[k])
    <3>1. CASE k \in 1 .. n - d
      <4>1. k \in 0 .. n - d /\ k - 1 \in 0 .. n - d
        BY <1>16, <3>1
      <4>2. QED
        BY <1>16, <1>18, <1>19, <3>1, <4>1
    <3>2. CASE k = (n - d) + 1
      <4>1. k - 1 = n - d /\ n - d \in 0 .. n - d
        BY <1>16, <3>2
      <4>2. offw[k - 1] = used /\ offw[k] = used + len /\ qw[k] = e
        BY <1>16, <1>18, <1>19, <3>2, <4>1
      <4>3. QED
        BY <4>2 DEF len
    <3>3. QED
      BY <1>16, <3>1, <3>2
  <2>3. QED
    BY <1>18, <1>19, <2>1, <2>2 DEF Offsets
<1>21. Laid(w, qw, offw)
  <2>1. w.wt = (w.rd + offw[Len(qw)]) % BufSize
    BY <1>11, <1>12, <1>18, <1>19
  <2>2. ASSUME NEW k \in 1 .. (n - d) + 1, NEW j \in 0 .. EventLen(qw[k]) - 1
        PROVE  w.buf[(w.rd + offw[k - 1] + j) % BufSize] = ByteOf(qw[k], j)
    <3>1. CASE k \in 1 .. n - d
      <4>1. k - 1 \in 0 .. n - d
        BY <1>16, <3>1
      <4>2. offw[k - 1] = offr[k - 1] /\ offr[k - 1] \in 0 .. BufSize - 1 /\ qw[k] = rest[k]
        BY <1>16, <1>18, <1>19, <3>1, <4>1
      <4>3. rest[k] \in EventSet
        BY <1>16, <3>1
      <4>4. EventLen(rest[k]) \in Nat
        BY <4>3, EventLens
      <4>5. j \in 0 .. EventLen(rest[k]) - 1 /\ j \in Nat
        BY <4>2, <4>4
      <4>6. w.buf[(u + (offr[k - 1] + j)) % BufSize] = ByteOf(rest[k], j)
        BY <1>17, <3>1, <4>5
      <4>7. w.rd + offw[k - 1] + j = u + (offr[k - 1] + j)
        BY <1>1, <1>6, <1>11, <4>2, <4>5 DEF Position
      <4>8. QED
        BY <4>2, <4>6, <4>7
    <3>2. CASE k = (n - d) + 1
      <4>1. k - 1 = n - d /\ n - d \in 0 .. n - d
        BY <1>16, <3>2
      <4>2. offw[k - 1] = used /\ qw[k] = e
        BY <1>16, <1>18, <1>19, <3>2, <4>1
      <4>3. j \in 0 .. len - 1 /\ j \in Nat
        BY <1>1, <4>2 DEF len
      <4>4. w.rd + offw[k - 1] + j = u + (used + j)
        BY <1>1, <1>5, <1>6, <1>11, <4>2, <4>3 DEF Position
      <4>5. QED
        BY <1>15, <4>2, <4>3, <4>4
    <3>3. k \in 1 .. n - d \/ k = (n - d) + 1
      BY <1>16
    <3>4. QED
      BY <3>1, <3>2, <3>3, Zenon
  <2>3. QED
    BY <1>18, <1>20, <2>1, <2>2 DEF Laid
<1>22. IF d = 0 THEN w.rd = r.rd /\ w.try_rd = r.try_rd
                ELSE w.rd # r.rd /\ w.try_rd = w.rd
  <2>1. CASE d = 0
    <3>1. r.rd + off[d] = r.rd /\ r.rd \in Nat /\ r.rd < BufSize
      BY <1>1, <1>3, <2>1 DEF Position
    <3>2. u = r.rd
      BY <1>1, <3>1 DEF u
    <3>3. QED
      BY <1>11, <2>1, <3>2
  <2>2. CASE d # 0
    <3>1. 0 \in 0 .. n /\ 0 < d /\ (r.rd + 0) % BufSize = r.rd
      BY <1>1, <2>2 DEF Position
    <3>2. 0 <= off[d] /\ off[d] # 0
      BY <1>3, <3>1
    <3>3. (r.rd + 0) % BufSize # (r.rd + off[d]) % BufSize
      BY <1>1, <1>5, <3>2, WrapDistance
    <3>4. w.rd # r.rd
      BY <1>11, <3>1, <3>3 DEF u
    <3>5. QED
      BY <1>11, <2>2, <3>4
  <2>3. QED
    BY <2>1, <2>2
<1>23. QED
  <2>1. Dropped(q, off, EventLen(e), d) /\ d \in 0 .. Len(q)
    BY <1>4 DEF len
  <2>2. \E offx : Laid(w, Append(SubSeq(q, d + 1, Len(q)), e), offx)
    BY <1>21 DEF qw, rest
  <2>3. QED
    BY <1>13, <1>22, <2>1, <2>2 DEF w

\* Reading moves only the index that tells how far was read.
LEMMA TryReadKeeps ==
  ASSUME NEW r \in Rings, NEW q \in Seq(EventSet), NEW off, Laid(r, q, off),
         NEW offset \in Nat, NEW len \in Nat, offset + len < BufSize
  PROVE  LET w == pldm_event_rbuf_try_read(r, len, offset) IN
         /\ w \in Rings /\ Laid(w, q, off) /\ w.rd = r.rd /\ w.wt = r.wt
         /\ w.try_rd = (r.rd + (offset + len)) % BufSize
<1> DEFINE w == pldm_event_rbuf_try_read(r, len, offset)
           to == (((r.rd + offset) % BufSize) + len) % BufSize
<1>1. BufSize \in Nat \ {0} /\ r.rd \in Nat /\ r.rd < BufSize
  BY BufSizeFact DEF Rings, Position
<1>2. to = (r.rd + (offset + len)) % BufSize /\ to \in Position
  <2>1. /\ r.rd + offset \in Nat /\ (r.rd + offset) + len < 2 * BufSize
        /\ (r.rd + offset) + len = r.rd + (offset + len) /\ r.rd + (offset + len) \in Nat
        /\ r.rd + (offset + len) < 2 * BufSize
    BY <1>1
  <2>2. to = ((r.rd + offset) + len) % BufSize
    BY <2>1, WrapTwice
  <2>3. (r.rd + (offset + len)) % BufSize \in Position
    BY <2>1, Wrap
  <2>4. QED
    BY <2>1, <2>2, <2>3
<1>3. w = [r EXCEPT !.try_rd = to]
  BY DEF pldm_event_rbuf_try_read
<1> HIDE DEF w, to
<1>4. w \in Rings /\ w.buf = r.buf /\ w.rd = r.rd /\ w.wt = r.wt /\ w.try_rd = to
  BY <1>2, <1>3 DEF Rings
<1>5. Laid(w, q, off)
  BY <1>4 DEF Laid
<1>6. QED
  BY <1>2, <1>4, <1>5 DEF w

\* Acknowledging the oldest event, when it was read, takes it away.
LEMMA ReadDoneTakes ==
  ASSUME NEW r \in Rings, NEW q \in Seq(EventSet), NEW off, Laid(r, q, off), q # <<>>,
         r.try_rd = (r.rd + EventLen(q[1])) % BufSize
  PROVE  LET w == pldm_event_rbuf_read_done(r) IN
         /\ w \in Rings /\ \E offw : Laid(w, Tail(q), offw)
         /\ w.try_rd = w.rd /\ w.rd # r.rd
<1> DEFINE w == pldm_event_rbuf_read_done(r)
           n == Len(q)
           offr == [k \in 0 .. n - 1 |-> off[1 + k] - off[1]]
<1>1. /\ BufSize \in Nat \ {0} /\ r.rd \in Nat /\ r.rd < BufSize /\ r.rd \in Position
      /\ n \in Nat \ {0} /\ 1 \in 0 .. n /\ 1 \in 1 .. n /\ n \in 0 .. n
  BY BufSizeFact DEF Rings, Position
<1>2. /\ w \in Rings /\ w.buf = r.buf /\ w.rd = r.try_rd /\ w.try_rd = r.try_rd /\ w.wt = r.wt
  BY DEF pldm_event_rbuf_read_done, Rings
<1>3. /\ Offsets(q, off) /\ r.wt = (r.rd + off[n]) % BufSize
      /\ \A k \in 1 .. n : \A j \in 0 .. EventLen(q[k]) - 1 :
           r.buf[(r.rd + off[k - 1] + j) % BufSize] = ByteOf(q[k], j)
  BY DEF Laid
<1>4. /\ \A k \in 0 .. n : off[k] \in Nat /\ off[k] < BufSize
      /\ \A k \in 1 .. n : q[k] \in EventSet /\ off[k] = off[k - 1] + EventLen(q[k])
      /\ \A i, j \in 0 .. n : i < j => off[i] < off[j]
      /\ off[0] = 0
  BY <1>3, OffsetsGrow DEF Offsets
<1>5. off[1] = EventLen(q[1]) /\ off[1] \in Nat \ {0} /\ off[1] < BufSize
  <2>1. q[1] \in EventSet /\ off[1] = 0 + EventLen(q[1])
    BY <1>1, <1>4
  <2>2. EventLen(q[1]) \in Nat /\ EventLen(q[1]) >= HdrLen /\ HdrLen \in Nat \ {0}
    BY <2>1, EventLens
  <2>3. QED
    BY <1>1, <1>4, <2>1, <2>2
<1>6. w.rd = (r.rd + off[1]) % BufSize /\ w.rd \in Position
  BY <1>2, <1>5 DEF Rings
<1>7. w.rd # r.rd
  <2>1. (r.rd + 0) % BufSize # (r.rd + off[1]) % BufSize
    <3>1. 0 <= off[1] /\ 0 # off[1]
      BY <1>5
    <3>2. QED
      BY <1>1, <1>5, <3>1, WrapDistance
  <2>2. (r.rd + 0) % BufSize = r.rd
    BY <1>1
  <2>3. QED
    BY <1>6, <2>1, <2>2
<1>8. ASSUME NEW x \in Nat, off[1] + x < BufSize
      PROVE  (w.rd + x) % BufSize = (r.rd + (off[1] + x)) % BufSize
  <2>1. /\ r.rd + off[1] \in Nat
        /\ (r.rd + off[1]) + x < 2 * BufSize
        /\ (r.rd + off[1]) + x = r.rd + (off[1] + x)
    <3> DEFINE a == off[1]
               b == r.rd
    <3>1. a \in Nat /\ b \in Nat /\ b < BufSize /\ a + x < BufSize /\ BufSize \in Nat
      BY <1>1, <1>5, <1>8
    <3> HIDE DEF a, b
    <3>2. b + a \in Nat /\ (b + a) + x < 2 * BufSize /\ (b + a) + x = b + (a + x)
      BY <3>1
    <3>3. QED
      BY <3>2 DEF a, b
  <2>2. (((r.rd + off[1]) % BufSize) + x) % BufSize = ((r.rd + off[1]) + x) % BufSize
    BY <2>1, WrapTwice
  <2>3. QED
    BY <1>6, <2>1, <2>2
<1> HIDE DEF w
<1>9. /\ Tail(q) \in Seq(EventSet) /\ Len(Tail(q)) = n - 1
      /\ \A k \in 1 .. n - 1 : Tail(q)[k] = q[k + 1]
  BY <1>1
<1>10. Tail(q) = SubSeq(q, 1 + 1, n)
  OBVIOUS
<1>11. Offsets(Tail(q), offr)
  <2> DEFINE d == 1
  <2>1. d \in 0 .. Len(q)
    BY <1>1
  <2> HIDE DEF d
  <2>2. Offsets(SubSeq(q, d + 1, Len(q)), [k \in 0 .. Len(q) - d |-> off[d + k] - off[d]])
    BY <1>3, <2>1, OffsetsOfRest
  <2>3. QED
    BY <1>10, <2>2 DEF d
<1>12. \A k \in 0 .. n - 1 : offr[k] = off[k + 1] - off[1]
  BY <1>1
<1> HIDE DEF offr, n
<1>13. w.wt = (w.rd + offr[n - 1]) % BufSize
  <2>1. off[n] \in Nat /\ off[n] < BufSize /\ (1 < n \/ 1 = n)
    BY <1>1, <1>4
  <2>2. off[1] <= off[n]
    BY <1>1, <1>4, <1>5, <2>1
  <2> DEFINE x == off[n] - off[1]
  <2>3. x \in Nat /\ off[1] + x = off[n]
    BY <1>5, <2>1, <2>2
  <2>4. offr[n - 1] = x
    <3>1. n - 1 \in 0 .. n - 1 /\ (n - 1) + 1 = n
      BY <1>1
    <3>2. QED
      BY <1>12, <3>1
  <2> HIDE DEF x
  <2>5. (w.rd + x) % BufSize = (r.rd + off[n]) % BufSize
    BY <1>8, <2>1, <2>3
  <2>6. QED
    BY <1>2, <1>3, <2>4, <2>5
<1>14. ASSUME NEW k \in 1 .. n - 1, NEW j \in 0 .. EventLen(Tail(q)[k]) - 1
       PROVE  w.buf[(w.rd + offr[k - 1] + j) % BufSize] = ByteOf(Tail(q)[k], j)
  <2>1. /\ k \in 0 .. n /\ k + 1 \in 0 .. n /\ k + 1 \in 1 .. n /\ (k + 1) - 1 = k
        /\ k - 1 \in 0 .. n - 1 /\ (k - 1) + 1 = k /\ (1 < k \/ 1 = k)
    BY <1>1
  <2>2. Tail(q)[k] = q[k + 1] /\ q[k + 1] \in EventSet
    BY <1>4, <1>9, <2>1
  <2> DEFINE a == off[k]
             L == EventLen(q[k + 1])
             x == (a - off[1]) + j
  <2>3. L \in Nat /\ j \in Nat /\ j < L
    <3> DEFINE e == q[k + 1]
    <3>1. j \in 0 .. EventLen(e) - 1
      BY <2>2, Zenon
    <3> HIDE DEF e
    <3>2. EventLen(e) \in Nat
      BY <2>2, EventLens DEF e
    <3>3. QED
      BY <3>1, <3>2 DEF e
  <2>4. a \in Nat /\ a + L < BufSize /\ off[1] <= a
    <3>1. a \in Nat /\ off[k + 1] = a + L /\ off[k + 1] < BufSize
      BY <1>4, <2>1
    <3>2. off[1] <= a
      BY <1>1, <1>4, <1>5, <2>1, <3>1
    <3>3. QED
      BY <3>1, <3>2
  <2>5. offr[k - 1] = a - off[1]
    BY <1>12, <2>1
  <2>6. r.buf[(r.rd + a + j) % BufSize] = ByteOf(q[k + 1], j)
    BY <1>3, <2>1, <2>2
  <2> HIDE DEF a, L
  <2>7. x \in Nat /\ off[1] + x = a + j /\ off[1] + x < BufSize
    BY <1>1, <1>5, <2>3, <2>4
  <2>8. w.rd + offr[k - 1] + j = w.rd + x /\ r.rd + a + j = r.rd + (off[1] + x)
    BY <1>1, <1>5, <1>6, <2>3, <2>4, <2>5, <2>7 DEF Position
  <2> HIDE DEF x
  <2>9. (w.rd + x) % BufSize = (r.rd + (off[1] + x)) % BufSize
    BY <1>8, <2>7
  <2>10. QED
    BY <1>2, <2>2, <2>6, <2>8, <2>9
<1>15. Laid(w, Tail(q), offr)
  BY <1>9, <1>11, <1>13, <1>14 DEF Laid
<1>16. QED
  BY <1>2, <1>7, <1>15 DEF w

\* What is read at the place of an event is the event: its header and data, and its
\* data alone behind the header.
LEMMA BytesAreRead ==
  ASSUME NEW r \in Rings, NEW q \in Seq(EventSet), NEW off, Laid(r, q, off),
         NEW k \in 1 .. Len(q)
  PROVE  /\ BytesAt(r, StartOf(r)[k - 1], EventLen(q[k])) = BytesOf(q[k])
         /\ BytesAt(r, (StartOf(r)[k - 1] + HdrLen) % BufSize, q[k].size) = DataOf(q[k])
<1> DEFINE pos == r.rd + off[k - 1]
           e == q[k]
<1>1. /\ BufSize \in Nat \ {0} /\ r.rd \in Nat /\ r.rd < BufSize /\ Offsets(q, off)
      /\ k \in 0 .. Len(q) /\ k - 1 \in 0 .. Len(q)
  BY BufSizeFact DEF Rings, Position, Laid
<1>2. /\ e \in EventSet /\ off[k] = off[k - 1] + EventLen(e) /\ off[k] < BufSize
      /\ off[k - 1] \in Nat /\ off[k] \in Nat
  BY <1>1, OffsetsGrow
<1>3. /\ EventLen(e) \in Nat /\ HdrLen \in Nat \ {0} /\ e.size \in Nat /\ EventLen(e) = HdrLen + e.size
      /\ EventLen(e) < BufSize
  BY <1>2, EventLens
<1>4. pos \in Nat /\ pos + EventLen(e) < 2 * BufSize
  <2> DEFINE o == off[k - 1]
             L == EventLen(e)
             b == r.rd
  <2>1. o \in Nat /\ o + L < BufSize /\ L \in Nat /\ b \in Nat /\ b < BufSize /\ BufSize \in Nat
    BY <1>1, <1>2, <1>3
  <2> HIDE DEF o, L, b
  <2>2. b + o \in Nat /\ (b + o) + L < 2 * BufSize
    BY <2>1
  <2>3. QED
    BY <2>2 DEF o, L, b
<1>5. StartOf(r)[k - 1] = pos % BufSize
  BY <1>1, StartsAreOffsets
<1>6. \A j \in 0 .. EventLen(e) - 1 : r.buf[(pos + j) % BufSize] = ByteOf(e, j)
  BY DEF Laid
<1> HIDE DEF pos, e
<1>7. ASSUME NEW j \in 0 .. EventLen(e) - 1
      PROVE  r.buf[((pos % BufSize) + j) % BufSize] = ByteOf(e, j)
  <2>1. j \in Nat /\ pos + j < 2 * BufSize
    BY <1>1, <1>3, <1>4
  <2>2. ((pos % BufSize) + j) % BufSize = (pos + j) % BufSize
    BY <1>4, <2>1, WrapTwice
  <2>3. QED
    BY <1>6, <2>2
<1> DEFINE at == pos % BufSize
<1>8. at \in Nat /\ at < BufSize
  <2>1. pos < 2 * BufSize
    BY <1>1, <1>3, <1>4
  <2>2. at \in Position
    BY <1>4, <2>1, Wrap
  <2>3. QED
    BY <1>1, <2>2 DEF Position
<1>9. \A j \in 0 .. EventLen(e) - 1 : r.buf[(at + j) % BufSize] = ByteOf(e, j)
  BY <1>7
<1> HIDE DEF at
<1>10. BytesAt(r, at, EventLen(e)) = BytesOf(e)
  <2>1. ASSUME NEW i \in 1 .. EventLen(e)
        PROVE  r.buf[(at + i - 1) % BufSize] = ByteOf(e, i - 1)
    <3>1. i - 1 \in 0 .. EventLen(e) - 1 /\ at + i - 1 = at + (i - 1)
      BY <1>3, <1>8
    <3>2. QED
      BY <1>9, <3>1
  <2>2. QED
    BY <2>1 DEF BytesAt, BytesOf
<1>11. BytesAt(r, (at + HdrLen) % BufSize, e.size) = DataOf(e)
  <2>1. ASSUME NEW i \in 1 .. e.size
        PROVE  r.buf[(((at + HdrLen) % BufSize) + i - 1) % BufSize] = ByteOf(e, HdrLen + i - 1)
    <3> DEFINE j == i - 1
    <3>1. /\ HdrLen + j \in 0 .. EventLen(e) - 1 /\ j \in Nat /\ at + HdrLen \in Nat
          /\ (at + HdrLen) + j < 2 * BufSize /\ (at + HdrLen) + j = at + (HdrLen + j)
      BY <1>1, <1>2, <1>3, <1>8
    <3>2. (((at + HdrLen) % BufSize) + j) % BufSize = (at + (HdrLen + j)) % BufSize
      <4> HIDE DEF j
      <4>1. QED
        BY <3>1, WrapTwice
    <3>3. r.buf[(at + (HdrLen + j)) % BufSize] = ByteOf(e, HdrLen + j)
      BY <1>9, <3>1
    <3>4. (at + HdrLen) % BufSize \in Nat
      BY <1>1, <3>1
    <3>5. ((at + HdrLen) % BufSize) + i - 1 = ((at + HdrLen) % BufSize) + j /\ HdrLen + i - 1 = HdrLen + j
      BY <1>3, <3>4
    <3>6. QED
      BY <3>2, <3>3, <3>5
  <2>2. QED
    BY <2>1 DEF BytesAt, DataOf
<1>12. QED
  BY <1>5, <1>10, <1>11 DEF at, e

\* The sum of the lengths of the events in the queue is the last offset.
LEMMA TotalIsOffset ==
  ASSUME NEW q \in Seq(EventSet), NEW off, Offsets(q, off)
  PROVE  Delivery!Total(q) = off[Len(q)]
<1> DEFINE n == Len(q)
           Sums(f) == f = [k \in 0 .. n |-> IF k = 0 THEN 0 ELSE f[k - 1] + EventLen(q[k])]
           sum == CHOOSE f : Sums(f)
<1>1. Delivery!Total(q) = sum[n]
  BY DEF Delivery!Total
<1>2. n \in Nat
  OBVIOUS
<1>3. Sums(off)
  BY DEF Offsets
<1>4. Sums(sum)
  <2> HIDE DEF Sums
  <2>1. QED
    BY <1>3
<1> DEFINE S == {k \in Nat : k <= n => sum[k] = off[k]}
<1>5. 0 \in S
  <2>1. 0 \in 0 .. n
    BY <1>2
  <2> HIDE DEF sum
  <2>2. sum[0] = 0
    BY <1>4, <2>1
  <2>3. QED
    BY <2>2 DEF Offsets
<1>6. ASSUME NEW k \in Nat, k \in S
      PROVE  k + 1 \in S
  <2> SUFFICES ASSUME k + 1 <= n
               PROVE  sum[k + 1] = off[k + 1]
    OBVIOUS
  <2>1. k + 1 \in 0 .. n /\ (k + 1) - 1 = k /\ k + 1 # 0 /\ k + 1 \in 1 .. n /\ k <= n
    BY <1>2
  <2>2. sum[k] = off[k]
    BY <1>6, <2>1
  <2> HIDE DEF sum
  <2>3. sum[k + 1] = sum[k] + EventLen(q[k + 1])
    BY <1>4, <2>1
  <2>4. off[k + 1] = off[k] + EventLen(q[k + 1])
    BY <2>1 DEF Offsets
  <2>5. QED
    BY <2>2, <2>3, <2>4
<1>7. n \in S
  <2> HIDE DEF S, n
  <2>1. QED
    BY <1>2, <1>5, <1>6, Induction
<1>8. QED
  BY <1>1, <1>2, <1>7

\* As few are deleted as the abstract queue drops.
LEMMA DroppedFits ==
  ASSUME NEW q \in Seq(EventSet), NEW off, Offsets(q, off), NEW e \in EventSet,
         NEW d \in 0 .. Len(q), Dropped(q, off, EventLen(e), d)
  PROVE  /\ Delivery!Fits(Delivery!DropFirst(q, d), e)
         /\ \A j \in 0 .. d - 1 : ~Delivery!Fits(Delivery!DropFirst(q, j), e)
<1>1. ASSUME NEW j \in 0 .. Len(q)
      PROVE  Delivery!Total(Delivery!DropFirst(q, j)) = off[Len(q)] - off[j]
  <2> DEFINE rest == SubSeq(q, j + 1, Len(q))
             offr == [k \in 0 .. Len(q) - j |-> off[j + k] - off[j]]
  <2>1. rest \in Seq(EventSet) /\ Len(rest) = Len(q) - j /\ Offsets(rest, offr)
    BY OffsetsOfRest
  <2>2. offr[Len(q) - j] = off[Len(q)] - off[j]
    <3>1. Len(q) - j \in 0 .. Len(q) - j /\ j + (Len(q) - j) = Len(q)
      OBVIOUS
    <3>2. QED
      BY <3>1
  <2>3. Delivery!DropFirst(q, j) = rest
    BY DEF Delivery!DropFirst
  <2> HIDE DEF rest, offr
  <2>4. Delivery!Total(rest) = offr[Len(rest)]
    BY <2>1, TotalIsOffset
  <2>5. QED
    BY <2>1, <2>2, <2>3, <2>4
<1>2. /\ EventLen(e) \in Nat /\ BufSize \in Nat
      /\ \A k \in 0 .. Len(q) : off[k] \in Nat
  BY EventLens, BufSizeFact, OffsetsGrow
<1>3. Delivery!Fits(Delivery!DropFirst(q, d), e)
  <2>1. off[d] \in Nat /\ off[Len(q)] \in Nat
    BY <1>2
  <2>2. BufSize - (off[Len(q)] - off[d]) - 1 >= EventLen(e)
    BY DEF Dropped
  <2>3. (off[Len(q)] - off[d]) + EventLen(e) <= BufSize - 1
    BY <1>2, <2>1, <2>2
  <2>4. QED
    BY <1>1, <2>3 DEF Delivery!Fits
<1>4. ASSUME NEW j \in 0 .. d - 1
      PROVE  ~Delivery!Fits(Delivery!DropFirst(q, j), e)
  <2>1. j \in 0 .. Len(q) /\ off[j] \in Nat /\ off[Len(q)] \in Nat
    BY <1>2
  <2>2. BufSize - (off[Len(q)] - off[j]) - 1 < EventLen(e)
    BY DEF Dropped
  <2>3. ~((off[Len(q)] - off[j]) + EventLen(e) <= BufSize - 1)
    BY <1>2, <2>1, <2>2
  <2>4. QED
    BY <1>1, <2>1, <2>3 DEF Delivery!Fits
<1>5. QED
  BY <1>3, <1>4

\* The ring is empty when no event is in it; else the oldest is read at the read index.
LEMMA HeadIsRead ==
  ASSUME NEW r \in Rings, NEW q \in Seq(EventSet), NEW off, Laid(r, q, off)
  PROVE  /\ q = <<>> => pldm_event_rbuf_is_empty(r)
         /\ q # <<>> => /\ ~pldm_event_rbuf_is_empty(r)
                        /\ q[1] \in EventSet /\ HeaderAt(r, r.rd) = q[1]
                        /\ BytesAt(r, (r.rd + HdrLen) % BufSize, q[1].size) = DataOf(q[1])
<1>1. /\ BufSize \in Nat \ {0} /\ r.rd \in Nat /\ r.rd < BufSize /\ r.rd \in Position
      /\ Offsets(q, off) /\ off[0] = 0 /\ r.wt = (r.rd + off[Len(q)]) % BufSize
      /\ Len(q) \in Nat
  BY BufSizeFact DEF Rings, Position, Laid, Offsets
<1>2. (r.rd + 0) % BufSize = r.rd
  BY <1>1
<1>3. CASE q = <<>>
  <2>1. off[Len(q)] = 0
    BY <1>1, <1>3
  <2>2. QED
    BY <1>1, <1>2, <1>3, <2>1 DEF pldm_event_rbuf_is_empty
<1>4. CASE q # <<>>
  <2>1. Len(q) \in Nat \ {0} /\ 0 \in 0 .. Len(q) /\ Len(q) \in 0 .. Len(q) /\ 1 \in 1 .. Len(q)
    BY <1>1, <1>4
  <2>2. off[Len(q)] \in Nat /\ off[Len(q)] < BufSize /\ off[0] < off[Len(q)]
    BY <1>1, <2>1, OffsetsGrow
  <2>3. r.rd # r.wt
    <3>1. 0 <= off[Len(q)] /\ off[Len(q)] # 0
      BY <1>1, <2>2
    <3>2. (r.rd + 0) % BufSize # (r.rd + off[Len(q)]) % BufSize
      BY <1>1, <2>2, <3>1, WrapDistance
    <3>3. QED
      BY <1>1, <1>2, <3>2
  <2>4. StartOf(r)[0] = r.rd
    BY StartOfIterates
  <2> DEFINE one == 1
  <2>5. one \in 1 .. Len(q) /\ one - 1 = 0
    BY <2>1
  <2> HIDE DEF one
  <2>6. /\ HeaderAt(r, StartOf(r)[one - 1]) = q[one]
        /\ BytesAt(r, (StartOf(r)[one - 1] + HdrLen) % BufSize, q[one].size) = DataOf(q[one])
    BY <2>5, StartsAreOffsets, BytesAreRead
  <2>7. QED
    BY <1>4, <2>1, <2>3, <2>4, <2>5, <2>6 DEF one, pldm_event_rbuf_is_empty
<1>5. QED
  BY <1>3, <1>4

(***************************************************************************)
(* The inductive invariant, as long as the events are on track.            *)
(***************************************************************************)
EventTypes ==
  /\ ring \in Rings /\ queue \in Seq(EventSet)
  /\ g_event_id \in Nat \ {0} /\ max_buffersize \in NegotiatedSizes
  /\ todo \in {"none", "answer", "poll", "lost"} /\ mc_first \in BOOLEAN

\* The queue lies in the ring, its ids grow, and the event got is its first.
QueueIsLaid ==
  /\ \E off : Laid(ring, queue, off)
  /\ \A k \in 1 .. Len(queue) : /\ queue[k].id < g_event_id
                                /\ k > 1 => queue[k - 1].id < queue[k].id
  /\ got = NoEvent \/ (queue # <<>> /\ got = queue[1])

\* What is read ahead: nothing, the oldest event, or its header.  When an
\* acknowledgement is about to come the event was received whole.
ReadAhead ==
  \/ ring.try_rd = ring.rd
  \/ /\ queue # <<>> /\ ring.try_rd = (ring.rd + EventLen(queue[1])) % BufSize
     /\ todo = "answer" => got = queue[1]
     /\ todo = "poll" /\ ~mc_first => /\ gs_event = queue[1]
                                      /\ prev_handle = 0 => got = queue[1]
  \/ /\ queue # <<>> /\ ring.try_rd = (ring.rd + HdrLen) % BufSize
     /\ todo # "answer" /\ (todo = "poll" => mc_first)

\* The event polled is whole, and a part of it is still to be sent just when the
\* receiver polls and has not got it all.
PolledIsWhole ==
  /\ gs_event \in EventSet \cup {NoEvent} /\ gs_data = DataOf(gs_event)
  /\ prev_handle \in 0 .. gs_event.size
  /\ prev_handle = 0 <=> ReadsNew

Turns ==
  /\ todo \in {"none", "answer"} \/ terminus_mode # "POLLING" \/ (todo = "poll" /\ mc_first)
       => prev_handle = 0
  /\ todo = "poll" => terminus_mode = "POLLING"
  /\ todo = "answer" => event_receiver_eid # 0

ReceiverFollows ==
  /\ todo = "poll" /\ mc_first => mc_next = 0 /\ mc_data = <<>> /\ mc_event_id # FOR_MIDDLE
  /\ todo = "poll" /\ ~mc_first =>
       /\ gs_event \in EventSet /\ mc_event_id = gs_event.id /\ mc_next = prev_handle
       /\ mc_data = SubSeq(DataOf(gs_event), 1, IF prev_handle = 0 THEN gs_event.size ELSE prev_handle)

TrackInv ==
  EventTypes /\ QueueIsLaid /\ ReadAhead /\ PolledIsWhole /\ Turns /\ ReceiverFollows

Abstract == [Delivery!QueueNext]_<<queue, got>>

(***************************************************************************)
(* What the steps have in common.                                          *)
(***************************************************************************)
\* The negotiated sizes leave room for the fields and the checksum.
LEMMA RoomForParts ==
  ASSUME EventTypes
  PROVE  /\ max_buffersize \in Nat /\ SyncField \in Nat /\ CrcLen \in Nat \ {0}
         /\ (max_buffersize - SyncField) % 65536 = max_buffersize - SyncField
         /\ max_buffersize - SyncField >= CrcLen
<1>1. max_buffersize \in SyncField + CrcLen .. 65535 /\ CrcLen # 0
  BY ReceiverAssumption DEF EventTypes
<1>2. SyncField \in Nat /\ CrcLen \in Nat
  BY FieldsAssumption
<1> DEFINE m == max_buffersize - SyncField
<1>3. m \in Nat /\ m < 65536 /\ m >= CrcLen /\ max_buffersize \in Nat
  BY <1>1, <1>2
<1> HIDE DEF m
<1>4. m % 65536 = m
  BY <1>3
<1>5. QED
  BY <1>1, <1>2, <1>3, <1>4 DEF m

\* The queue goes with the ring: it is what lies between the indices.
LEMMA QueueFollows ==
  ASSUME TrackInv, NEW brought, Delivers(brought), ring' \in Rings,
         NEW q \in Seq(EventSet), NEW off, Laid(ring', q, off)
  PROVE  /\ queue' = q
         /\ got' = IF brought # <<>> /\ q # <<>> /\ brought = <<q[1].id, DataOf(q[1])>>
                   THEN q[1] ELSE IF ring'.rd = ring.rd THEN got ELSE NoEvent
<1>1. Contents(ring') = q
  BY ContentsAreLaid
<1>2. CASE ring' = ring
  <2>1. PICK offq : Laid(ring, queue, offq)
    BY DEF TrackInv, QueueIsLaid
  <2>2. Contents(ring) = queue
    BY <2>1, ContentsAreLaid DEF TrackInv, EventTypes
  <2>3. QED
    BY <1>1, <1>2, <2>2 DEF Delivers
<1>3. CASE ring' # ring
  BY <1>1, <1>3 DEF Delivers
<1>4. QED
  BY <1>2, <1>3

\* The part of an event that is sent, and what is noted for the next one.
LEMMA PartIsSent ==
  ASSUME EventTypes, NEW e \in EventSet, NEW handle \in 0 .. e.size, NEW op,
         SendPart(e, op, handle)
  PROVE  \E len \in Nat :
           /\ handle + len <= e.size
           /\ out'.msg = "part" /\ out'.id = e.id /\ out'.next = prev_handle'
           /\ out'.data = SubSeq(gs_data', handle + 1, handle + len)
           /\ len + (IF out'.crc THEN CrcLen ELSE 0) + SyncField <= max_buffersize
           /\ out'.crc \in BOOLEAN
           /\ IF out'.crc
              THEN /\ handle + len = e.size /\ prev_handle' = 0
                   /\ transfer_flag' \in {"END", "START_AND_END"}
              ELSE /\ prev_handle' = handle + len /\ prev_handle' # 0
                   /\ transfer_flag' \notin {"END", "START_AND_END"}
<1> DEFINE max == (max_buffersize - SyncField) % 65536
           remain == e.size - handle
           last == remain + CrcLen <= max
           len == PartSize(remain, max)
           flag == IF last THEN (IF op = "FIRST" THEN "START_AND_END" ELSE "END")
                   ELSE (IF op = "FIRST" THEN "START" ELSE "MIDDLE")
           next == IF last THEN 0 ELSE handle + len
<1>1. /\ max_buffersize \in Nat /\ SyncField \in Nat /\ CrcLen \in Nat \ {0} /\ max >= CrcLen
      /\ max = max_buffersize - SyncField /\ max \in Nat
  BY RoomForParts
<1>2. e.size \in Nat /\ handle \in Nat /\ handle <= e.size /\ remain \in Nat
  BY EventLens
<1>3. /\ transfer_flag' = flag /\ prev_handle' = next
      /\ out' = [msg |-> "part", id |-> e.id, flag |-> flag, next |-> next, crc |-> last,
                 data |-> SubSeq(gs_data', handle + 1, handle + len)]
  BY DEF SendPart
<1>4. /\ len \in Nat /\ len <= remain
      /\ len + (IF last THEN CrcLen ELSE 0) <= max
      /\ last => len = remain
      /\ ~last => handle + len # 0
  BY <1>1, <1>2 DEF PartSize
<1> HIDE DEF max, remain, last, len, flag, next
<1>5. /\ out'.msg = "part" /\ out'.id = e.id /\ out'.next = next /\ out'.crc = last
      /\ out'.data = SubSeq(gs_data', handle + 1, handle + len)
  BY <1>3
<1>6. handle + len <= e.size /\ (last => handle + len = e.size)
  BY <1>2, <1>4 DEF remain
<1>7. len + (IF last THEN CrcLen ELSE 0) + SyncField <= max_buffersize /\ last \in BOOLEAN
  BY <1>1, <1>4 DEF last
<1>8. /\ last => next = 0 /\ flag \in {"END", "START_AND_END"}
      /\ ~last => next = handle + len /\ flag \notin {"END", "START_AND_END"}
  BY DEF next, flag
<1>9. QED
  BY <1>3, <1>4, <1>5, <1>6, <1>7, <1>8

\* The ring as it was, or without its oldest event, which was got whole.
Remains(r, q) ==
  \/ r = ring /\ q = queue
  \/ /\ queue # <<>> /\ got = queue[1] /\ q = Tail(queue)
     /\ r.rd # ring.rd /\ r.try_rd = r.rd

\* An acknowledgement takes away at most the oldest event, once it was got whole.
LEMMA AcknowledgedRemains ==
  ASSUME TrackInv, NEW ack,
         gs_event.id = ack => todo = "poll" /\ ~mc_first /\ prev_handle = 0
  PROVE  /\ Acknowledged(ack) \in Rings
         /\ \E q \in Seq(EventSet) : /\ Remains(Acknowledged(ack), q)
                                     /\ \E off : Laid(Acknowledged(ack), q, off)
         /\ gs_event.id = ack => Acknowledged(ack).try_rd = Acknowledged(ack).rd
<1>1. ring \in Rings /\ queue \in Seq(EventSet) /\ \E off : Laid(ring, queue, off)
  BY DEF TrackInv, EventTypes, QueueIsLaid
<1>2. CASE gs_event.id # ack
  BY <1>1, <1>2 DEF Acknowledged, Remains
<1>3. CASE gs_event.id = ack
  <2>1. Acknowledged(ack) = pldm_event_rbuf_read_done(ring)
    BY <1>3 DEF Acknowledged
  <2>2. CASE ring.try_rd = ring.rd
    <3>1. pldm_event_rbuf_read_done(ring) = ring
      BY <1>1, <2>2 DEF pldm_event_rbuf_read_done, Rings
    <3>2. QED
      BY <1>1, <2>1, <2>2, <3>1 DEF Remains
  <2>3. CASE ring.try_rd # ring.rd
    <3>1. /\ queue # <<>> /\ ring.try_rd = (ring.rd + EventLen(queue[1])) % BufSize
          /\ got = queue[1]
      BY <1>3, <2>3 DEF TrackInv, ReadAhead
    <3>2. PICK off : Laid(ring, queue, off)
      BY <1>1
    <3> DEFINE w == pldm_event_rbuf_read_done(ring)
    <3>3. /\ w \in Rings /\ \E offw : Laid(w, Tail(queue), offw)
          /\ w.try_rd = w.rd /\ w.rd # ring.rd
      BY <1>1, <3>1, <3>2, ReadDoneTakes
    <3>4. Tail(queue) \in Seq(EventSet)
      BY <1>1, <3>1
    <3> HIDE DEF w
    <3>5. Remains(w, Tail(queue))
      BY <3>1, <3>3 DEF Remains
    <3>6. Acknowledged(ack) = w
      BY <2>1 DEF w
    <3>7. QED
      BY <3>3, <3>4, <3>5, <3>6
  <2>4. QED
    BY <2>2, <2>3
<1>4. QED
  BY <1>2, <1>3

\* What a poll leaves, told by the events in the ring.
PollReads(r, q, op, ack, handle) ==
  /\ UNCHANGED <<max_buffersize, event_receiver_eid>>
  /\ ring' \in Rings /\ ring'.rd = r.rd
  /\ q = <<>> =>
       /\ ring' = r /\ g_event_id' = 1 /\ LeavePolling /\ out' = [msg |-> "empty"]
       /\ UNCHANGED <<gs_event, gs_data>>
  /\ q # <<>> =>
       /\ g_event_id' = g_event_id /\ gs_data' = DataOf(gs_event')
       /\ q[1] \in EventSet
       /\ IF ReadsNew
          THEN gs_event' = q[1] /\ ring'.try_rd = (r.rd + EventLen(q[1])) % BufSize
          ELSE gs_event' = gs_event /\ ring' = r
       /\ \/ op = "ACK_ONLY" /\ LeavePolling /\ out' = [msg |-> "acked"]
          \/ /\ op # "ACK_ONLY" /\ Refused(op, ack, handle) /\ out' = [msg |-> "refused"]
             /\ UNCHANGED <<terminus_mode, prev_handle, transfer_flag>>
          \/ /\ op # "ACK_ONLY" /\ ~Refused(op, ack, handle)
             /\ SendPart(gs_event', op, handle) /\ UNCHANGED terminus_mode

\* A poll reads the oldest event that the acknowledgement has left, or sends on from the
\* one polled.
LEMMA PollStep ==
  ASSUME TrackInv, NEW op, NEW ack, NEW handle,
         pldm_monitor_poll_for_platform_event_msg(op, ack, handle),
         NEW q \in Seq(EventSet), NEW off, Laid(Acknowledged(ack), q, off),
         Acknowledged(ack) \in Rings
  PROVE  /\ PollReads(Acknowledged(ack), q, op, ack, handle)
         /\ Laid(ring', q, off)
<1> DEFINE r == Acknowledged(ack)
           e == PolledEvent(r)
<1>1. /\ r \in Rings /\ Laid(r, q, off)
      /\ UNCHANGED <<max_buffersize, event_receiver_eid>>
      /\ \/ /\ pldm_event_rbuf_is_empty(r)
            /\ ring' = r /\ g_event_id' = 1
            /\ LeavePolling
            /\ out' = [msg |-> "empty"]
            /\ UNCHANGED <<gs_event, gs_data>>
         \/ /\ ~pldm_event_rbuf_is_empty(r)
            /\ ring' = IF ReadsNew THEN pldm_event_rbuf_try_read(r, e.size, HdrLen) ELSE r
            /\ gs_event' = e /\ gs_data' = PolledData(r, e)
            /\ UNCHANGED g_event_id
            /\ \/ /\ op = "ACK_ONLY"
                  /\ LeavePolling
                  /\ out' = [msg |-> "acked"]
               \/ /\ op # "ACK_ONLY" /\ Refused(op, ack, handle)
                  /\ out' = [msg |-> "refused"]
                  /\ UNCHANGED <<terminus_mode, prev_handle, transfer_flag>>
               \/ /\ op # "ACK_ONLY" /\ ~Refused(op, ack, handle)
                  /\ SendPart(e, op, handle)
                  /\ UNCHANGED terminus_mode
  BY DEF pldm_monitor_poll_for_platform_event_msg
<1> HIDE DEF r
<1>2. CASE q = <<>>
  <2>1. pldm_event_rbuf_is_empty(r)
    BY <1>1, <1>2, HeadIsRead
  <2>2. ring' = r
    BY <1>1, <2>1
  <2>3. PollReads(r, q, op, ack, handle)
    BY <1>1, <1>2, <2>1 DEF PollReads
  <2>4. QED
    BY <1>1, <2>2, <2>3 DEF r
<1>3. CASE q # <<>>
  <2>1. /\ ~pldm_event_rbuf_is_empty(r) /\ q[1] \in EventSet /\ HeaderAt(r, r.rd) = q[1]
        /\ BytesAt(r, (r.rd + HdrLen) % BufSize, q[1].size) = DataOf(q[1])
    BY <1>1, <1>3, HeadIsRead
  <2>2. /\ ring' \in Rings /\ ring'.rd = r.rd /\ Laid(ring', q, off)
        /\ IF ReadsNew
           THEN e = q[1] /\ ring'.try_rd = (r.rd + EventLen(q[1])) % BufSize
           ELSE e = gs_event /\ ring' = r
    <3>1. CASE ReadsNew
      <4>1. e = q[1] /\ ring' = pldm_event_rbuf_try_read(r, q[1].size, HdrLen)
        BY <1>1, <2>1, <3>1 DEF PolledEvent
      <4>2. q[1].size \in Nat /\ HdrLen \in Nat /\ HdrLen + q[1].size < BufSize
            /\ EventLen(q[1]) = HdrLen + q[1].size
        BY <2>1, EventLens
      <4>3. /\ ring' \in Rings /\ Laid(ring', q, off) /\ ring'.rd = r.rd
            /\ ring'.try_rd = (r.rd + (HdrLen + q[1].size)) % BufSize
        BY <1>1, <4>1, <4>2, TryReadKeeps
      <4>4. QED
        BY <3>1, <4>1, <4>2, <4>3
    <3>2. CASE ~ReadsNew
      BY <1>1, <2>1, <3>2 DEF PolledEvent
    <3>3. QED
      BY <3>1, <3>2
  <2>3. gs_event' = e /\ gs_data' = DataOf(e)
    <3>1. gs_event' = e /\ gs_data' = PolledData(r, e)
      BY <1>1, <2>1
    <3>2. CASE ReadsNew
      <4>1. PolledData(r, e) = DataOf(e)
        BY <2>1, <2>2, <3>2 DEF PolledData
      <4>2. QED
        BY <3>1, <4>1
    <3>3. CASE ~ReadsNew
      <4>1. PolledData(r, e) = gs_data /\ e = gs_event
        BY <2>2, <3>3 DEF PolledData
      <4>2. QED
        BY <3>1, <4>1 DEF TrackInv, PolledIsWhole
    <3>4. QED
      BY <3>2, <3>3
  <2> HIDE DEF e
  <2>4. PollReads(r, q, op, ack, handle)
    BY <1>1, <1>3, <2>1, <2>2, <2>3 DEF PollReads
  <2>5. QED
    BY <2>2, <2>4 DEF r
<1>4. QED
  BY <1>2, <1>3

\* What MessagesFit says of a step.
Fits ==
  CASE out'.msg = "event" -> Len(out'.data) + AsyncField <= max_buffersize
    [] out'.msg = "part" -> Len(out'.data) + (IF out'.crc THEN CrcLen ELSE 0)
                              + SyncField <= max_buffersize
    [] OTHER -> TRUE

\* What the receiver has got after a step that brings it something.
GotAfter(brought, q) ==
  IF brought # <<>> /\ q # <<>> /\ brought = <<q[1].id, DataOf(q[1])>>
  THEN q[1] ELSE IF ring'.rd = ring.rd THEN got ELSE NoEvent

\* The ids in the queue grow up to the next one.
IdsGrow(q, next) ==
  \A k \in 1 .. Len(q) : /\ q[k].id < next
                         /\ k > 1 => q[k - 1].id < q[k].id

\* When the ring is left as it is, or without the oldest event that was got whole, the
\* step is one of the abstract queue.
LEMMA RemainsStep ==
  ASSUME TrackInv, NEW r, NEW q \in Seq(EventSet), Remains(r, q), NEW brought, Delivers(brought),
         ring' \in Rings, ring'.rd = r.rd, \E off : Laid(ring', q, off),
         g_event_id' = g_event_id \/ q = <<>>
  PROVE  queue' = q /\ got' = GotAfter(brought, q) /\ QueueIsLaid' /\ Abstract
<1>1. PICK off : Laid(ring', q, off)
  OBVIOUS
<1>2. queue' = q /\ got' = GotAfter(brought, q)
  BY <1>1, QueueFollows DEF GotAfter
<1>3. /\ queue \in Seq(EventSet) /\ IdsGrow(queue, g_event_id)
      /\ got = NoEvent \/ (queue # <<>> /\ got = queue[1])
  BY DEF TrackInv, EventTypes, QueueIsLaid, IdsGrow
<1>4. CASE r = ring /\ q = queue
  <2>1. got' = got \/ (queue # <<>> /\ got' = queue[1])
    BY <1>2, <1>4 DEF GotAfter
  <2>2. IdsGrow(queue', g_event_id')
    BY <1>2, <1>3, <1>4 DEF IdsGrow
  <2>3. QueueIsLaid'
    BY <1>1, <1>2, <1>3, <1>4, <2>1, <2>2 DEF QueueIsLaid, IdsGrow
  <2>4. Abstract
    <3>1. CASE got' = got
      BY <1>2, <1>4, <3>1 DEF Abstract
    <3>2. CASE queue # <<>> /\ got' = queue[1]
      BY <1>2, <1>4, <3>2 DEF Abstract, Delivery!QueueNext, Delivery!Receive
    <3>3. QED
      BY <2>1, <3>1, <3>2
  <2>5. QED
    BY <1>2, <2>3, <2>4
<1>5. CASE queue # <<>> /\ got = queue[1] /\ q = Tail(queue) /\ ring'.rd # ring.rd
  <2>1. got' = NoEvent \/ (q # <<>> /\ got' = q[1])
    BY <1>2, <1>5 DEF GotAfter
  <2>2. IdsGrow(queue', g_event_id')
    <3>1. CASE q = <<>>
      BY <1>2, <3>1 DEF IdsGrow
    <3>2. CASE g_event_id' = g_event_id
      <4>1. /\ Len(q) = Len(queue) - 1 /\ Len(queue) \in Nat \ {0}
            /\ \A k \in 1 .. Len(q) : q[k] = queue[k + 1]
        BY <1>3, <1>5
      <4>2. ASSUME NEW k \in 1 .. Len(q)
            PROVE  q[k].id < g_event_id /\ (k > 1 => q[k - 1].id < q[k].id)
        <5> DEFINE i == k + 1
        <5>1. i \in 1 .. Len(queue) /\ i > 1 /\ i - 1 = k /\ q[k] = queue[i]
          BY <4>1
        <5>2. k > 1 => q[k - 1] = queue[k]
          <6>1. k > 1 => k - 1 \in 1 .. Len(q) /\ (k - 1) + 1 = k
            BY <4>1
          <6>2. QED
            BY <4>1, <6>1
        <5> HIDE DEF i
        <5>3. queue[i].id < g_event_id /\ queue[i - 1].id < queue[i].id
          BY <1>3, <5>1 DEF IdsGrow
        <5>4. QED
          BY <5>1, <5>2, <5>3
      <4>3. QED
        BY <1>2, <3>2, <4>2 DEF IdsGrow
    <3>3. QED
      BY <3>1, <3>2
  <2>3. QueueIsLaid'
    BY <1>1, <1>2, <2>1, <2>2 DEF QueueIsLaid, IdsGrow
  <2>4. Delivery!Take
    BY <1>2, <1>5, <2>1 DEF Delivery!Take
  <2>5. QED
    BY <1>2, <2>3, <2>4 DEF Abstract, Delivery!QueueNext
<1>6. QED
  BY <1>4, <1>5 DEF Remains

\* The special values of an acknowledgement name no event.
LEMMA NoSuchId ==
  ASSUME TrackInv
  PROVE  /\ gs_event.id \in Nat /\ gs_event.id <= MaxId /\ MaxId \in Nat /\ MaxId < NoAck
         /\ gs_event.id # NoAck /\ gs_event.id # FOR_MIDDLE
         /\ NoAck # FOR_MIDDLE /\ NoAck \in Nat /\ NoAck < FOR_MIDDLE
<1>1. MaxId \in Nat /\ MaxId < NoAck
  BY EventSizesAssumption, ReceiverAssumption
<1>2. gs_event.id \in Nat /\ gs_event.id <= MaxId
  <2>1. CASE gs_event \in EventSet
    BY <2>1, EventLens
  <2>2. CASE gs_event = NoEvent
    BY <1>1, <2>2 DEF NoEvent
  <2>3. QED
    BY <2>1, <2>2 DEF TrackInv, PolledIsWhole
<1>3. QED
  BY <1>1, <1>2 DEF NoAck, FOR_MIDDLE

\* A step that delivers nothing and leaves the events in the ring.
LEMMA QueueStands ==
  ASSUME TrackInv, UNCHANGED <<queue, got>>, \E off : Laid(ring', queue, off),
         g_event_id' = g_event_id \/ queue = <<>>
  PROVE  queue' \in Seq(EventSet) /\ QueueIsLaid' /\ Abstract
<1>1. /\ queue \in Seq(EventSet) /\ IdsGrow(queue, g_event_id)
      /\ got = NoEvent \/ (queue # <<>> /\ got = queue[1])
  BY DEF TrackInv, EventTypes, QueueIsLaid, IdsGrow
<1>2. IdsGrow(queue', g_event_id')
  BY <1>1 DEF IdsGrow
<1>3. QED
  BY <1>1, <1>2 DEF QueueIsLaid, IdsGrow, Abstract

\* The commands that set the receiver and the size change neither ring nor queue.
LEMMA SettingsKeep ==
  ASSUME TrackInv, SetsEventReceiver \/ SetsBufferSize
  PROVE  TrackInv' /\ Abstract /\ Fits
<1>1. /\ UNCHANGED <<ring, g_event_id, pollVars>> /\ UNCHANGED <<queue, got>> /\ out' = NoMessage
  BY DEF SetsEventReceiver, SetsBufferSize, pldm_monitor_set_event_receiver,
         pldm_monitor_event_msg_buffersize, NothingDelivered, Silent
<1>2. queue' \in Seq(EventSet) /\ QueueIsLaid' /\ Abstract
  <2>1. \E off : Laid(ring', queue, off)
    BY <1>1 DEF TrackInv, QueueIsLaid
  <2>2. QED
    BY <1>1, <2>1, QueueStands
<1>3. Fits
  BY <1>1 DEF Fits, NoMessage
<1>4. PolledIsWhole'
  BY <1>1 DEF TrackInv, PolledIsWhole, pollVars, ReadsNew
<1>5. CASE SetsEventReceiver
  <2>1. todo = "none" /\ prev_handle = 0
    BY <1>5 DEF SetsEventReceiver, TrackInv, Turns
  <2>2. PICK mode \in {"DISABLE", "ASYNC", "POLLING"} :
          /\ terminus_mode' = mode /\ max_buffersize' = max_buffersize
          /\ IF mode = "POLLING" THEN StartsPolling(0) ELSE UNCHANGED mcVars
    BY <1>5 DEF SetsEventReceiver, pldm_monitor_set_event_receiver
  <2>3. CASE mode = "POLLING"
    <3>1. /\ todo' = "poll" /\ mc_first' = TRUE /\ mc_next' = 0 /\ mc_data' = <<>>
          /\ mc_event_id' # FOR_MIDDLE
      BY <2>2, <2>3 DEF StartsPolling, FOR_MIDDLE
    <3>2. EventTypes'
      BY <1>1, <1>2, <2>2, <3>1 DEF TrackInv, EventTypes
    <3>3. ReadAhead'
      BY <1>1, <3>1 DEF TrackInv, ReadAhead
    <3>4. Turns' /\ ReceiverFollows'
      BY <1>1, <2>1, <2>2, <2>3, <3>1 DEF Turns, ReceiverFollows, pollVars
    <3>5. QED
      BY <1>2, <1>3, <1>4, <3>2, <3>3, <3>4 DEF TrackInv
  <2>4. CASE mode # "POLLING"
    <3>1. UNCHANGED <<todo, mc_first>> /\ todo' = "none"
      BY <2>1, <2>2, <2>4 DEF mcVars
    <3>2. EventTypes'
      BY <1>1, <1>2, <2>2, <3>1 DEF TrackInv, EventTypes
    <3>3. ReadAhead'
      BY <1>1, <3>1 DEF TrackInv, ReadAhead
    <3>4. Turns' /\ ReceiverFollows'
      BY <1>1, <2>1, <3>1 DEF Turns, ReceiverFollows, pollVars
    <3>5. QED
      BY <1>2, <1>3, <1>4, <3>2, <3>3, <3>4 DEF TrackInv
  <2>5. QED
    BY <2>3, <2>4
<1>6. CASE SetsBufferSize
  <2>1. PICK size \in ReceiverSizes :
          max_buffersize' = IF size < MinReceiver THEN DefaultSize
                            ELSE IF size <= BufSize THEN size ELSE BufSize
    BY <1>6 DEF SetsBufferSize, pldm_monitor_event_msg_buffersize
  <2>2. size \in Nat /\ MinReceiver \in Nat
    BY FieldsAssumption
  <2>3. max_buffersize' \in NegotiatedSizes
    BY <2>1, <2>2 DEF NegotiatedSizes
  <2>4. UNCHANGED <<terminus_mode, event_receiver_eid>> /\ UNCHANGED mcVars
    BY <1>6 DEF SetsBufferSize, pldm_monitor_event_msg_buffersize
  <2>5. EventTypes'
    BY <1>1, <1>2, <2>3, <2>4 DEF TrackInv, EventTypes, mcVars
  <2>6. ReadAhead'
    BY <1>1, <2>4 DEF TrackInv, ReadAhead, mcVars, pollVars
  <2>7. Turns' /\ ReceiverFollows'
    BY <1>1, <2>4 DEF TrackInv, Turns, ReceiverFollows, mcVars, pollVars
  <2>8. QED
    BY <1>2, <1>3, <1>4, <2>5, <2>6, <2>7 DEF TrackInv
<1>7. QED
  BY <1>5, <1>6

\* A header or an event that is read ahead leaves the queue as it is.
LEMMA HeadReadAhead ==
  ASSUME TrackInv, NEW off, Laid(ring, queue, off), ~pldm_event_rbuf_is_empty(ring)
  PROVE  /\ queue # <<>> /\ queue[1] \in EventSet /\ HeaderAt(ring, ring.rd) = queue[1]
         /\ BytesAt(ring, (ring.rd + HdrLen) % BufSize, queue[1].size) = DataOf(queue[1])
         /\ LET w == pldm_event_rbuf_try_read(ring, HdrLen, 0)
            IN  /\ w \in Rings /\ Laid(w, queue, off) /\ w.rd = ring.rd
                /\ w.try_rd = (ring.rd + HdrLen) % BufSize
         /\ LET w == pldm_event_rbuf_try_read(ring, queue[1].size, HdrLen)
            IN  /\ w \in Rings /\ Laid(w, queue, off) /\ w.rd = ring.rd
                /\ w.try_rd = (ring.rd + EventLen(queue[1])) % BufSize
<1>1. ring \in Rings /\ queue \in Seq(EventSet)
  BY DEF TrackInv, EventTypes
<1>2. /\ queue # <<>> /\ queue[1] \in EventSet /\ HeaderAt(ring, ring.rd) = queue[1]
      /\ BytesAt(ring, (ring.rd + HdrLen) % BufSize, queue[1].size) = DataOf(queue[1])
  BY <1>1, HeadIsRead
<1> DEFINE e == queue[1]
<1>3. /\ HdrLen \in Nat /\ e.size \in Nat /\ HdrLen + e.size < BufSize /\ BufSize \in Nat
      /\ EventLen(e) = HdrLen + e.size
  BY <1>2, EventLens, BufSizeFact
<1>4. LET w == pldm_event_rbuf_try_read(ring, e.size, HdrLen)
      IN  /\ w \in Rings /\ Laid(w, queue, off) /\ w.rd = ring.rd
          /\ w.try_rd = (ring.rd + EventLen(e)) % BufSize
  BY <1>1, <1>3, TryReadKeeps
<1> DEFINE zero == 0
<1>5. zero \in Nat /\ zero + HdrLen < BufSize /\ zero + HdrLen = HdrLen
  BY <1>3
<1> HIDE DEF zero
<1>6. LET w == pldm_event_rbuf_try_read(ring, HdrLen, zero)
      IN  /\ w \in Rings /\ Laid(w, queue, off) /\ w.rd = ring.rd
          /\ w.try_rd = (ring.rd + HdrLen) % BufSize
  <2>1. (ring.rd + (zero + HdrLen)) % BufSize = (ring.rd + HdrLen) % BufSize
    BY <1>5
  <2>2. QED
    BY <1>1, <1>3, <1>5, <2>1, TryReadKeeps
<1>7. QED
  BY <1>2, <1>4, <1>6 DEF zero

\* Nothing to send, or nobody to send it to.
LEMMA SendsNothingKeeps ==
  ASSUME TrackInv, SendsNothing
  PROVE  TrackInv' /\ Abstract /\ Fits
<1>1. PICK off : Laid(ring, queue, off)
  BY DEF TrackInv, QueueIsLaid
<1>2. /\ UNCHANGED <<terminus_mode, max_buffersize, event_receiver_eid, pollVars>>
      /\ UNCHANGED mcVars /\ UNCHANGED <<queue, got>> /\ out' = NoMessage
      /\ terminus_mode # "POLLING"
  BY DEF SendsNothing, SendNothing, SendToNobody, NothingDelivered, Silent
<1>3. Fits
  BY <1>2 DEF Fits, NoMessage
<1>4. PolledIsWhole' /\ Turns' /\ ReceiverFollows'
  BY <1>2 DEF TrackInv, PolledIsWhole, Turns, ReceiverFollows, mcVars, pollVars, ReadsNew
<1>5. CASE SendNothing
  <2>1. ring' = ring /\ g_event_id' = 1 /\ pldm_event_rbuf_is_empty(ring)
    BY <1>5 DEF SendNothing
  <2>2. queue = <<>>
    BY <1>1, <2>1, HeadIsRead DEF TrackInv, EventTypes
  <2>3. queue' \in Seq(EventSet) /\ QueueIsLaid' /\ Abstract
    BY <1>1, <1>2, <2>1, <2>2, QueueStands
  <2>4. EventTypes'
    BY <1>2, <2>1, <2>3 DEF TrackInv, EventTypes, mcVars
  <2>5. ReadAhead'
    BY <1>2, <2>1 DEF TrackInv, ReadAhead, mcVars, pollVars
  <2>6. QED
    BY <1>3, <1>4, <2>3, <2>4, <2>5 DEF TrackInv
<1>6. CASE SendToNobody
  <2>1. /\ ring' = pldm_event_rbuf_try_read(ring, HdrLen, 0) /\ g_event_id' = g_event_id
        /\ ~pldm_event_rbuf_is_empty(ring) /\ event_receiver_eid = 0
    BY <1>6 DEF SendToNobody
  <2>2. /\ queue # <<>> /\ ring' \in Rings /\ Laid(ring', queue, off) /\ ring'.rd = ring.rd
        /\ ring'.try_rd = (ring.rd + HdrLen) % BufSize
    BY <1>1, <2>1, HeadReadAhead
  <2>3. queue' \in Seq(EventSet) /\ QueueIsLaid' /\ Abstract
    BY <1>2, <2>1, <2>2, QueueStands
  <2>4. EventTypes'
    BY <1>2, <2>1, <2>2, <2>3 DEF TrackInv, EventTypes, mcVars
  <2>5. todo # "answer" /\ todo # "poll"
    BY <1>2, <2>1 DEF TrackInv, Turns
  <2>6. ReadAhead'
    BY <1>2, <2>2, <2>5 DEF ReadAhead, mcVars
  <2>7. QED
    BY <1>3, <1>4, <2>3, <2>4, <2>6 DEF TrackInv
<1>7. QED
  BY <1>5, <1>6 DEF SendsNothing

\* The oldest event goes out whole.
LEMMA SendsEventKeeps ==
  ASSUME TrackInv, NEW lost \in BOOLEAN, SendsEvent(lost)
  PROVE  TrackInv' /\ Abstract /\ Fits
<1>1. PICK off : Laid(ring, queue, off)
  BY DEF TrackInv, QueueIsLaid
<1> DEFINE e == HeaderAt(ring, ring.rd)
           brought == IF lost THEN <<>> ELSE <<out'.id, out'.data>>
<1>2. /\ terminus_mode # "POLLING" /\ ~pldm_event_rbuf_is_empty(ring)
      /\ event_receiver_eid # 0 /\ ~NeedsPoll(e)
      /\ ring' = pldm_event_rbuf_try_read(ring, e.size, HdrLen)
      /\ out' = [msg |-> "event", id |-> e.id,
                 data |-> BytesAt(ring, (ring.rd + HdrLen) % BufSize, e.size)]
      /\ UNCHANGED <<g_event_id, terminus_mode, max_buffersize, event_receiver_eid, pollVars>>
      /\ todo' = IF lost THEN "none" ELSE "answer"
      /\ UNCHANGED <<mc_event_id, mc_next, mc_first, mc_data>>
      /\ Delivers(brought)
  BY DEF SendsEvent, SendEvent
<1> HIDE DEF e, brought
<1>3. /\ queue # <<>> /\ queue[1] \in EventSet /\ e = queue[1]
      /\ BytesAt(ring, (ring.rd + HdrLen) % BufSize, e.size) = DataOf(e)
      /\ ring' \in Rings /\ Laid(ring', queue, off) /\ ring'.rd = ring.rd
      /\ ring'.try_rd = (ring.rd + EventLen(queue[1])) % BufSize
  BY <1>1, <1>2, HeadReadAhead DEF e
<1>4. out'.msg = "event" /\ out'.id = e.id /\ out'.data = DataOf(e)
  BY <1>2, <1>3
<1>5. Fits
  <2>1. e.size \in Nat /\ AsyncField \in Nat /\ max_buffersize \in Nat
    BY <1>3, EventLens, FieldsAssumption, RoomForParts DEF TrackInv
  <2>2. Len(DataOf(e)) = e.size
    BY <2>1 DEF DataOf
  <2>3. e.size <= max_buffersize - AsyncField
    BY <1>2, <2>1 DEF NeedsPoll
  <2>4. Len(out'.data) + AsyncField <= max_buffersize
    BY <1>4, <2>1, <2>2, <2>3
  <2>5. QED
    BY <1>4, <2>4 DEF Fits
<1>6. queue \in Seq(EventSet) /\ Remains(ring, queue)
  BY DEF TrackInv, EventTypes, Remains
<1>7. queue' = queue /\ got' = GotAfter(brought, queue) /\ QueueIsLaid' /\ Abstract
  BY <1>2, <1>3, <1>6, RemainsStep
<1>8. todo' = "answer" => got' = queue[1]
  BY <1>2, <1>3, <1>4, <1>7 DEF GotAfter, brought
<1>9. todo' \in {"none", "answer"}
  BY <1>2
<1>10. EventTypes'
  BY <1>2, <1>3, <1>6, <1>7, <1>9 DEF TrackInv, EventTypes
<1>11. ReadAhead'
  BY <1>3, <1>7, <1>8, <1>9 DEF ReadAhead
<1>12. PolledIsWhole' /\ Turns' /\ ReceiverFollows'
  BY <1>2, <1>9 DEF TrackInv, PolledIsWhole, Turns, ReceiverFollows, pollVars, ReadsNew
<1>13. QED
  BY <1>5, <1>7, <1>10, <1>11, <1>12 DEF TrackInv

\* The receiver is asked to poll.
LEMMA SendsPollRequestKeeps ==
  ASSUME TrackInv, NEW lost \in BOOLEAN, SendsPollRequest(lost)
  PROVE  TrackInv' /\ Abstract /\ Fits
<1>1. PICK off : Laid(ring, queue, off)
  BY DEF TrackInv, QueueIsLaid
<1>2. /\ terminus_mode # "POLLING" /\ ~pldm_event_rbuf_is_empty(ring)
      /\ ring' = pldm_event_rbuf_try_read(ring, HdrLen, 0)
      /\ out' = [msg |-> "poll", id |-> HeaderAt(ring, ring.rd).id]
      /\ terminus_mode' = "POLLING" /\ event_receiver_eid # 0
      /\ UNCHANGED <<g_event_id, max_buffersize, event_receiver_eid, pollVars>>
      /\ UNCHANGED <<queue, got>>
  BY DEF SendsPollRequest, SendPollRequest, NothingDelivered
<1>3. \/ todo' = "none" /\ mc_first' = FALSE
      \/ /\ todo' = "poll" /\ mc_first' = TRUE /\ mc_next' = 0 /\ mc_data' = <<>>
         /\ mc_event_id' # FOR_MIDDLE
  <2>1. IF lost THEN Idle ELSE StartsPolling(out'.id)
    BY DEF SendsPollRequest
  <2>2. out'.id # FOR_MIDDLE
    <3>1. HeaderAt(ring, ring.rd) \in EventSet
      BY <1>1, <1>2, HeadReadAhead
    <3>2. out'.id = HeaderAt(ring, ring.rd).id
      BY <1>2
    <3>3. QED
      BY <3>1, <3>2, NoSuchId, EventLens
  <2>3. QED
    BY <2>1, <2>2 DEF Idle, StartsPolling
<1>4. /\ queue # <<>> /\ ring' \in Rings /\ Laid(ring', queue, off) /\ ring'.rd = ring.rd
      /\ ring'.try_rd = (ring.rd + HdrLen) % BufSize
  BY <1>1, <1>2, HeadReadAhead
<1>5. queue' \in Seq(EventSet) /\ QueueIsLaid' /\ Abstract
  BY <1>2, <1>4, QueueStands
<1>6. Fits
  BY <1>2 DEF Fits
<1>7. EventTypes'
  BY <1>2, <1>3, <1>4, <1>5 DEF TrackInv, EventTypes
<1>8. ReadAhead'
  BY <1>2, <1>3, <1>4 DEF ReadAhead
<1>9. PolledIsWhole'
  BY <1>2 DEF TrackInv, PolledIsWhole, pollVars, ReadsNew
<1>10. prev_handle' = 0
  BY <1>2 DEF TrackInv, Turns, pollVars
<1>11. Turns' /\ ReceiverFollows'
  BY <1>2, <1>3, <1>10 DEF Turns, ReceiverFollows
<1>12. QED
  BY <1>5, <1>6, <1>7, <1>8, <1>9, <1>11 DEF TrackInv

\* An answer acknowledges the event that was sent, got whole.
LEMMA AnswersKeeps ==
  ASSUME TrackInv, NEW ok \in BOOLEAN, Answers(ok)
  PROVE  TrackInv' /\ Abstract /\ Fits
<1>1. /\ todo = "answer" /\ todo' = "none" /\ out' = NoMessage /\ Delivers(<<>>)
      /\ ring' = ring \/ ring' = pldm_event_rbuf_read_done(ring)
      /\ UNCHANGED <<g_event_id, terminus_mode, max_buffersize, event_receiver_eid, pollVars>>
      /\ UNCHANGED <<mc_event_id, mc_next, mc_first, mc_data>>
  BY DEF Answers, pldm_monitor_platform_event_msg_rsp, Silent
<1>2. PICK off : Laid(ring, queue, off)
  BY DEF TrackInv, QueueIsLaid
<1>3. ring \in Rings /\ queue \in Seq(EventSet)
  BY DEF TrackInv, EventTypes
<1>4. \E q \in Seq(EventSet) :
        /\ Remains(ring', q) /\ ring' \in Rings /\ \E offw : Laid(ring', q, offw)
        /\ \/ q = queue /\ ring' = ring
           \/ ring'.try_rd = ring'.rd
  <2>1. CASE ring' = ring
    BY <1>2, <1>3, <2>1 DEF Remains
  <2>2. CASE ring' # ring
    <3>1. ring' = pldm_event_rbuf_read_done(ring)
      BY <1>1, <2>2
    <3>2. ring.try_rd # ring.rd
      <4>1. ring.try_rd = ring.rd => pldm_event_rbuf_read_done(ring) = ring
        BY <1>3 DEF pldm_event_rbuf_read_done, Rings
      <4>2. QED
        BY <2>2, <3>1, <4>1
    <3>3. /\ queue # <<>> /\ ring.try_rd = (ring.rd + EventLen(queue[1])) % BufSize
          /\ got = queue[1]
      BY <1>1, <3>2 DEF TrackInv, ReadAhead
    <3>4. /\ ring' \in Rings /\ \E offw : Laid(ring', Tail(queue), offw)
          /\ ring'.try_rd = ring'.rd /\ ring'.rd # ring.rd
      BY <1>2, <1>3, <3>1, <3>3, ReadDoneTakes
    <3>5. Tail(queue) \in Seq(EventSet)
      BY <1>3, <3>3
    <3>6. QED
      BY <3>3, <3>4, <3>5 DEF Remains
  <2>3. QED
    BY <2>1, <2>2
<1>5. PICK q \in Seq(EventSet) :
        /\ Remains(ring', q) /\ ring' \in Rings /\ \E offw : Laid(ring', q, offw)
        /\ \/ q = queue /\ ring' = ring
           \/ ring'.try_rd = ring'.rd
  BY <1>4
<1>6. queue' = q /\ QueueIsLaid' /\ Abstract
  BY <1>1, <1>5, RemainsStep
<1>7. Fits
  BY <1>1 DEF Fits, NoMessage
<1>8. EventTypes'
  BY <1>1, <1>5, <1>6 DEF TrackInv, EventTypes
<1>9. ReadAhead'
  BY <1>1, <1>5, <1>6 DEF TrackInv, ReadAhead
<1>10. PolledIsWhole' /\ Turns' /\ ReceiverFollows'
  BY <1>1 DEF TrackInv, PolledIsWhole, Turns, ReceiverFollows, pollVars, ReadsNew
<1>11. QED
  BY <1>6, <1>7, <1>8, <1>9, <1>10 DEF TrackInv

\* A new event takes its place behind the others, the oldest make room for it.
LEMMA EventsKeeps ==
  ASSUME TrackInv, Events
  PROVE  TrackInv' /\ Abstract /\ Fits
<1>1. /\ UNCHANGED <<terminus_mode, max_buffersize, event_receiver_eid, pollVars>>
      /\ UNCHANGED mcVars /\ Delivers(<<>>) /\ out' = NoMessage
      /\ g_event_id' = g_event_id + 1 /\ g_event_id <= MaxId
  BY DEF Events, GenerateEvent, EventIsNotBuilt, Silent
<1>2. PICK off : Laid(ring, queue, off)
  BY DEF TrackInv, QueueIsLaid
<1>3. /\ ring \in Rings /\ queue \in Seq(EventSet) /\ g_event_id \in Nat \ {0} /\ MaxId \in Nat
      /\ IdsGrow(queue, g_event_id)
      /\ got = NoEvent \/ (queue # <<>> /\ got = queue[1])
  BY EventSizesAssumption DEF TrackInv, EventTypes, QueueIsLaid, IdsGrow
<1>4. Fits
  BY <1>1 DEF Fits, NoMessage
<1>5. PolledIsWhole' /\ Turns' /\ ReceiverFollows'
  BY <1>1 DEF TrackInv, PolledIsWhole, Turns, ReceiverFollows, mcVars, pollVars, ReadsNew
<1>6. CASE EventIsNotBuilt
  <2>1. ring' = ring
    BY <1>6 DEF EventIsNotBuilt
  <2>2. queue' = queue /\ got' = GotAfter(<<>>, queue)
    BY <1>1, <1>2, <1>3, <2>1, QueueFollows DEF GotAfter
  <2>3. got' = got
    BY <2>1, <2>2 DEF GotAfter
  <2>4. IdsGrow(queue, g_event_id')
    <3>1. ASSUME NEW k \in 1 .. Len(queue)
          PROVE  queue[k].id < g_event_id'
      <4>1. queue[k] \in EventSet /\ queue[k].id < g_event_id
        BY <1>3 DEF IdsGrow
      <4>2. queue[k].id \in Nat
        BY <4>1, EventLens
      <4>3. QED
        BY <1>1, <1>3, <4>1, <4>2
    <3>2. QED
      BY <1>3, <3>1 DEF IdsGrow
  <2>5. QueueIsLaid'
    BY <1>2, <1>3, <2>1, <2>2, <2>3, <2>4 DEF QueueIsLaid, IdsGrow
  <2>6. EventTypes'
    BY <1>1, <1>3, <2>1, <2>2 DEF TrackInv, EventTypes, mcVars
  <2>7. ReadAhead'
    BY <1>1, <2>1, <2>2, <2>3 DEF TrackInv, ReadAhead, mcVars, pollVars
  <2>8. Abstract
    BY <2>2, <2>3 DEF Abstract
  <2>9. QED
    BY <1>4, <1>5, <2>5, <2>6, <2>7, <2>8 DEF TrackInv
<1>7. CASE GenerateEvent
  <2>1. PICK size \in DataLens :
          ring' = pldm_event_rbuf_write(ring, [id |-> g_event_id, size |-> size])
    BY <1>7 DEF GenerateEvent
  <2> DEFINE e == [id |-> g_event_id, size |-> size]
             n == Len(queue)
  <2>2. e \in EventSet /\ e.id = g_event_id
    BY <1>1, <1>3 DEF EventSet, Ids
  <2>3. ring' = pldm_event_rbuf_write(ring, e)
    BY <2>1
  <2> HIDE DEF e
  <2>4. PICK d \in 0 .. n :
          /\ ring' \in Rings
          /\ Dropped(queue, off, EventLen(e), d)
          /\ \E offw : Laid(ring', Append(SubSeq(queue, d + 1, n), e), offw)
          /\ IF d = 0 THEN ring'.rd = ring.rd /\ ring'.try_rd = ring.try_rd
                      ELSE ring'.rd # ring.rd /\ ring'.try_rd = ring'.rd
    BY <1>2, <1>3, <2>2, <2>3, WriteLays
  <2> DEFINE rest == SubSeq(queue, d + 1, n)
             q == Append(rest, e)
  <2>5. /\ rest \in Seq(EventSet) /\ Len(rest) = n - d /\ n - d \in Nat
        /\ \A k \in 1 .. n - d : rest[k] = queue[d + k]
    <3>1. Offsets(queue, off)
      BY <1>2 DEF Laid
    <3>2. n - d \in Nat
      BY <1>3
    <3>3. QED
      BY <1>3, <3>1, <3>2, OffsetsOfRest
  <2> HIDE DEF rest
  <2>6. /\ q \in Seq(EventSet) /\ Len(q) = (n - d) + 1 /\ q # <<>>
        /\ \A k \in 1 .. n - d : q[k] = queue[d + k]
        /\ q[(n - d) + 1] = e
    BY <2>2, <2>5
  <2> HIDE DEF q
  <2>7. PICK offw : Laid(ring', q, offw)
    BY <2>4 DEF q, rest
  <2>8. queue' = q /\ got' = GotAfter(<<>>, q)
    BY <1>1, <2>4, <2>6, <2>7, QueueFollows DEF GotAfter
  <2>9. got' = IF d = 0 THEN got ELSE NoEvent
    BY <2>4, <2>8 DEF GotAfter
  <2>10. d = 0 /\ queue # <<>> => q[1] = queue[1]
    <3> SUFFICES ASSUME d = 0, queue # <<>>
                 PROVE  q[1] = queue[1]
      OBVIOUS
    <3> DEFINE one == 1
    <3>1. one \in 1 .. n - d /\ d + one = one
      BY <1>3
    <3> HIDE DEF one
    <3>2. q[one] = queue[one]
      BY <2>6, <3>1
    <3>3. QED
      BY <3>2 DEF one
  <2>11. IdsGrow(q, g_event_id')
    <3>1. ASSUME NEW k \in 1 .. n - d
          PROVE  q[k].id < g_event_id /\ q[k].id < g_event_id' /\ (k > 1 => q[k - 1].id < q[k].id)
      <4> DEFINE i == d + k
      <4>1. i \in 1 .. n /\ (k > 1 => i > 1 /\ k - 1 \in 1 .. n - d /\ d + (k - 1) = i - 1)
        BY <1>3, <2>5
      <4>2. q[k] = queue[i] /\ (k > 1 => q[k - 1] = queue[i - 1])
        BY <2>6, <4>1
      <4> HIDE DEF i
      <4>3. queue[i].id < g_event_id /\ (i > 1 => queue[i - 1].id < queue[i].id)
        BY <1>3, <4>1 DEF IdsGrow
      <4>4. queue[i].id \in Nat
        <5>1. queue[i] \in EventSet
          BY <1>3, <4>1
        <5>2. QED
          BY <5>1, EventLens
      <4>5. queue[i].id < g_event_id'
        BY <1>1, <1>3, <4>3, <4>4
      <4>6. QED
        BY <4>1, <4>2, <4>3, <4>5
    <3>2. ASSUME NEW k \in 1 .. Len(q)
          PROVE  q[k].id < g_event_id' /\ (k > 1 => q[k - 1].id < q[k].id)
      <4>1. CASE k \in 1 .. n - d
        BY <3>1, <4>1
      <4>2. CASE k = (n - d) + 1
        <5>1. q[k].id = g_event_id /\ g_event_id < g_event_id'
          BY <1>1, <1>3, <2>2, <2>6, <4>2
        <5>2. k > 1 => k - 1 \in 1 .. n - d
          BY <2>5, <4>2
        <5>3. k > 1 => q[k - 1].id < g_event_id
          BY <3>1, <5>2
        <5>4. QED
          BY <5>1, <5>3
      <4>3. QED
        BY <2>5, <2>6, <4>1, <4>2
    <3>3. QED
      BY <3>2 DEF IdsGrow
  <2>12. got' = NoEvent \/ (queue' # <<>> /\ got' = queue'[1])
    BY <1>3, <2>6, <2>8, <2>9, <2>10
  <2>13. QueueIsLaid'
    BY <2>7, <2>8, <2>11, <2>12 DEF QueueIsLaid, IdsGrow
  <2>14. EventTypes'
    BY <1>1, <1>3, <2>4, <2>6, <2>8 DEF TrackInv, EventTypes, mcVars
  <2>15. ReadAhead'
    <3>1. CASE d = 0
      <4>1. ring'.rd = ring.rd /\ ring'.try_rd = ring.try_rd /\ got' = got
        BY <2>4, <2>9, <3>1
      <4>2. queue # <<>> => queue' # <<>> /\ queue'[1] = queue[1]
        BY <2>6, <2>8, <2>10, <3>1
      <4>3. UNCHANGED <<todo, mc_first, gs_event, prev_handle>>
        BY <1>1 DEF mcVars, pollVars
      <4>4. QED
        BY <4>1, <4>2, <4>3 DEF TrackInv, ReadAhead
    <3>2. CASE d # 0
      BY <2>4, <3>2 DEF ReadAhead
    <3>3. QED
      BY <3>1, <3>2
  <2>16. Delivery!Put
    <3>1. rest = Delivery!DropFirst(queue, d)
      BY DEF rest, Delivery!DropFirst
    <3>2. queue' = Append(Delivery!DropFirst(queue, d), e)
      BY <2>8, <3>1 DEF q
    <3>3. /\ Delivery!Fits(Delivery!DropFirst(queue, d), e)
          /\ \A j \in 0 .. d - 1 : ~Delivery!Fits(Delivery!DropFirst(queue, j), e)
      BY <1>2, <1>3, <2>2, <2>4, DroppedFits DEF Laid
    <3>4. got' = IF d > 0 THEN NoEvent ELSE got
      BY <1>3, <2>9
    <3>5. QED
      BY <2>2, <3>2, <3>3, <3>4 DEF Delivery!Put
  <2>17. Abstract
    BY <2>16 DEF Abstract, Delivery!QueueNext
  <2>18. QED
    BY <1>4, <1>5, <2>13, <2>14, <2>15, <2>17 DEF TrackInv
<1>8. QED
  BY <1>6, <1>7 DEF Events

\* Two parts of a sequence, one behind the other.
LEMMA PartsJoin ==
  ASSUME NEW T, NEW s \in Seq(T), NEW a \in Nat, NEW len \in Nat, a + len <= Len(s)
  PROVE  /\ Len(SubSeq(s, a + 1, a + len)) = len
         /\ SubSeq(s, 1, a) \o SubSeq(s, a + 1, a + len) = SubSeq(s, 1, a + len)
         /\ SubSeq(s, 1, Len(s)) = s
<1>1. Len(s) \in Nat /\ s = [k \in 1 .. Len(s) |-> s[k]]
  OBVIOUS
<1>2. \A k \in 1 .. Len(s) : s[k] \in T
  OBVIOUS
<1> DEFINE x == [k \in 1 .. a |-> s[k]]
           y == [k \in 1 .. len |-> s[a + k]]
           z == [k \in 1 .. a + len |-> s[k]]
<1>3. SubSeq(s, 1, a) = x /\ x \in Seq(T) /\ Len(x) = a
  <2>1. SubSeq(s, 1, a) = [k \in 1 .. (a - 1 + 1) |-> s[1 + k - 1]]
    OBVIOUS
  <2>2. a - 1 + 1 = a /\ \A k \in 1 .. a : 1 + k - 1 = k
    OBVIOUS
  <2>3. x \in [1 .. a -> T]
    BY <1>1, <1>2
  <2>4. QED
    BY <2>1, <2>2, <2>3
<1>4. SubSeq(s, a + 1, a + len) = y /\ y \in Seq(T) /\ Len(y) = len
  <2>1. SubSeq(s, a + 1, a + len) = [k \in 1 .. ((a + len) - (a + 1) + 1) |-> s[(a + 1) + k - 1]]
    OBVIOUS
  <2>2. (a + len) - (a + 1) + 1 = len /\ \A k \in 1 .. len : (a + 1) + k - 1 = a + k
    OBVIOUS
  <2>3. y \in [1 .. len -> T]
    <3>1. \A k \in 1 .. len : a + k \in 1 .. Len(s)
      BY <1>1
    <3>2. QED
      BY <1>2, <3>1
  <2>4. QED
    BY <2>1, <2>2, <2>3
<1>5. SubSeq(s, 1, a + len) = z /\ z \in Seq(T) /\ Len(z) = a + len
  <2>1. SubSeq(s, 1, a + len) = [k \in 1 .. ((a + len) - 1 + 1) |-> s[1 + k - 1]]
    OBVIOUS
  <2>2. (a + len) - 1 + 1 = a + len /\ \A k \in 1 .. a + len : 1 + k - 1 = k
    OBVIOUS
  <2>3. z \in [1 .. a + len -> T]
    BY <1>1, <1>2
  <2>4. QED
    BY <2>1, <2>2, <2>3
<1>6. x \o y = z
  <2>1. \A k \in 1 .. a : x[k] = s[k]
    OBVIOUS
  <2>2. \A k \in 1 .. len : y[k] = s[a + k]
    OBVIOUS
  <2>3. \A k \in 1 .. a + len : z[k] = s[k]
    OBVIOUS
  <2> HIDE DEF x, y, z
  <2> DEFINE xy == x \o y
  <2>4. /\ xy \in Seq(T) /\ Len(xy) = a + len
        /\ \A k \in 1 .. a + len : xy[k] = IF k <= a THEN x[k] ELSE y[k - a]
    BY <1>3, <1>4
  <2> HIDE DEF xy
  <2>5. \A k \in 1 .. a + len : (IF k <= a THEN x[k] ELSE y[k - a]) = s[k]
    <3> SUFFICES ASSUME NEW k \in 1 .. a + len
                 PROVE  (IF k <= a THEN x[k] ELSE y[k - a]) = s[k]
      OBVIOUS
    <3>1. CASE k <= a
      <4>1. k \in 1 .. a
        BY <3>1
      <4>2. QED
        BY <2>1, <3>1, <4>1
    <3>2. CASE ~(k <= a)
      <4>1. k - a \in 1 .. len /\ a + (k - a) = k
        BY <3>2
      <4>2. QED
        BY <2>2, <3>2, <4>1
    <3>3. QED
      BY <3>1, <3>2
  <2>6. \A k \in 1 .. a + len : xy[k] = z[k]
    BY <2>3, <2>4, <2>5
  <2>7. xy = z
    BY <1>5, <2>4, <2>6
  <2>8. QED
    BY <2>7 DEF xy
<1>7. SubSeq(s, 1, Len(s)) = s
  BY <1>1
<1>8. QED
  BY <1>3, <1>4, <1>5, <1>6, <1>7

\* The data of an event is a sequence of as many bytes as it has.
LEMMA DataIsBytes ==
  ASSUME NEW e \in EventSet
  PROVE  DataOf(e) \in Seq(Bytes) /\ Len(DataOf(e)) = e.size
<1>1. e.size \in Nat /\ HdrLen \in Nat
  BY EventLens
<1>2. \A k \in 1 .. e.size : ByteOf(e, HdrLen + k - 1) \in Bytes
  BY <1>1 DEF ByteOf, Bytes
<1>3. DataOf(e) \in [1 .. e.size -> Bytes]
  BY <1>2 DEF DataOf
<1> DEFINE d == DataOf(e)
           n == e.size
<1>4. d \in [1 .. n -> Bytes] /\ n \in Nat
  BY <1>1, <1>3
<1> HIDE DEF d, n
<1>5. d \in Seq(Bytes) /\ Len(d) = n
  BY <1>4
<1>6. QED
  BY <1>5 DEF d, n

\* The part of an event that a response carries.
IsSent(e, handle, len) ==
  /\ len \in Nat /\ handle + len <= e.size
  /\ out'.msg = "part" /\ out'.id = e.id /\ out'.next = prev_handle'
  /\ out'.data = SubSeq(DataOf(e), handle + 1, handle + len)
  /\ out'.crc \in BOOLEAN
  /\ IF out'.crc THEN handle + len = e.size /\ prev_handle' = 0
                 ELSE prev_handle' = handle + len /\ prev_handle' # 0

\* Whatever is polled, the event polled stays whole, the handle of its next part lies in
\* it, and the part that is sent fits.
LEMMA PolledStaysWhole ==
  ASSUME TrackInv, NEW r, NEW q, NEW op, NEW ack, NEW handle, PollReads(r, q, op, ack, handle)
  PROVE  /\ PolledIsWhole' /\ Fits
         /\ q # <<>> => gs_event' \in EventSet
         /\ q # <<>> /\ op # "ACK_ONLY" /\ ~Refused(op, ack, handle) =>
              \E len : IsSent(gs_event', prev_handle, len)
<1>1. /\ gs_event \in EventSet \cup {NoEvent} /\ gs_data = DataOf(gs_event)
      /\ prev_handle \in 0 .. gs_event.size /\ (prev_handle = 0 <=> ReadsNew)
  BY DEF TrackInv, PolledIsWhole
<1>2. CASE q = <<>>
  <2>1. LeavePolling /\ out' = [msg |-> "empty"] /\ UNCHANGED <<gs_event, gs_data>>
    BY <1>2 DEF PollReads
  <2>2. prev_handle' = 0 /\ transfer_flag' = "END" /\ gs_event.size \in Nat
    <3>1. gs_event.size \in Nat
      <4>1. CASE gs_event \in EventSet
        BY <4>1, EventLens
      <4>2. CASE gs_event = NoEvent
        BY <4>2 DEF NoEvent
      <4>3. QED
        BY <1>1, <4>1, <4>2
    <3>2. QED
      BY <2>1, <3>1 DEF LeavePolling
  <2>3. PolledIsWhole'
    BY <1>1, <2>1, <2>2 DEF PolledIsWhole, ReadsNew
  <2>4. Fits
    BY <2>1 DEF Fits
  <2>5. QED
    BY <1>2, <2>3, <2>4
<1>3. CASE q # <<>>
  <2>1. /\ gs_data' = DataOf(gs_event') /\ q[1] \in EventSet
        /\ IF ReadsNew THEN gs_event' = q[1] ELSE gs_event' = gs_event
    BY <1>3 DEF PollReads
  <2>2. gs_event' \in EventSet /\ prev_handle \in 0 .. gs_event'.size /\ gs_event'.size \in Nat
    <3>1. CASE ReadsNew
      <4>1. gs_event' \in EventSet /\ prev_handle = 0
        BY <1>1, <2>1, <3>1
      <4>2. gs_event'.size \in Nat
        BY <4>1, EventLens
      <4>3. QED
        BY <4>1, <4>2
    <3>2. CASE ~ReadsNew
      <4>1. prev_handle # 0 /\ gs_event' = gs_event
        BY <1>1, <2>1, <3>2
      <4>2. gs_event # NoEvent
        BY <1>1, <4>1 DEF NoEvent
      <4>3. gs_event' \in EventSet
        BY <1>1, <4>1, <4>2
      <4>4. gs_event'.size \in Nat
        BY <4>3, EventLens
      <4>5. QED
        BY <1>1, <4>1, <4>3, <4>4
    <3>3. QED
      BY <3>1, <3>2
  <2>3. CASE op = "ACK_ONLY"
    <3>1. LeavePolling /\ out' = [msg |-> "acked"]
      BY <1>3, <2>3 DEF PollReads
    <3>2. prev_handle' = 0 /\ transfer_flag' = "END"
      BY <3>1 DEF LeavePolling
    <3>3. PolledIsWhole'
      BY <2>1, <2>2, <3>2 DEF PolledIsWhole, ReadsNew
    <3>4. Fits
      BY <3>1 DEF Fits
    <3>5. QED
      BY <2>2, <2>3, <3>3, <3>4
  <2>4. CASE op # "ACK_ONLY" /\ Refused(op, ack, handle)
    <3>1. out' = [msg |-> "refused"] /\ UNCHANGED <<prev_handle, transfer_flag>>
      BY <1>3, <2>4 DEF PollReads
    <3>2. PolledIsWhole'
      BY <1>1, <2>1, <2>2, <3>1 DEF PolledIsWhole, ReadsNew
    <3>3. Fits
      BY <3>1 DEF Fits
    <3>4. QED
      BY <2>2, <2>4, <3>2, <3>3
  <2>5. CASE op # "ACK_ONLY" /\ ~Refused(op, ack, handle)
    <3> DEFINE e == gs_event'
    <3>1. SendPart(e, op, handle) /\ handle = prev_handle
      BY <1>3, <2>5 DEF PollReads, Refused
    <3>2. gs_data' = DataOf(e) /\ e \in EventSet /\ handle \in 0 .. e.size /\ e.size \in Nat
      BY <2>1, <2>2, <3>1
    <3> HIDE DEF e
    <3>3. PICK len \in Nat :
           /\ handle + len <= e.size
           /\ out'.msg = "part" /\ out'.id = e.id /\ out'.next = prev_handle'
           /\ out'.data = SubSeq(DataOf(e), handle + 1, handle + len)
           /\ len + (IF out'.crc THEN CrcLen ELSE 0) + SyncField <= max_buffersize
           /\ out'.crc \in BOOLEAN
           /\ IF out'.crc
              THEN /\ handle + len = e.size /\ prev_handle' = 0
                   /\ transfer_flag' \in {"END", "START_AND_END"}
              ELSE /\ prev_handle' = handle + len /\ prev_handle' # 0
                   /\ transfer_flag' \notin {"END", "START_AND_END"}
      BY <3>1, <3>2, PartIsSent DEF TrackInv
    <3>4. IsSent(e, prev_handle, len)
      BY <3>1, <3>3 DEF IsSent
    <3>5. Len(out'.data) = len
      <4>1. DataOf(e) \in Seq(Bytes) /\ Len(DataOf(e)) = e.size
        BY <3>2, DataIsBytes
      <4>2. handle \in Nat /\ handle + len <= Len(DataOf(e))
        BY <3>2, <3>3, <4>1
      <4>3. QED
        BY <3>3, <4>1, <4>2, PartsJoin
    <3>6. Fits
      BY <3>3, <3>5 DEF Fits
    <3>7. prev_handle' \in 0 .. e.size /\ (prev_handle' = 0 <=> ReadsNew')
      BY <3>2, <3>3 DEF ReadsNew
    <3>8. PolledIsWhole'
      BY <3>2, <3>7 DEF PolledIsWhole, e
    <3>9. QED
      BY <3>2, <3>4, <3>6, <3>8 DEF e
  <2>6. QED
    BY <2>3, <2>4, <2>5
<1>4. QED
  BY <1>2, <1>3

\* What is read ahead after a poll: nothing, the event just polled, or what was.
PolledAhead(q) ==
  \/ ring'.try_rd = ring'.rd
  \/ /\ q # <<>> /\ ReadsNew /\ gs_event' = q[1]
     /\ ring'.try_rd = (ring'.rd + EventLen(q[1])) % BufSize
  \/ /\ q # <<>> /\ ~ReadsNew /\ gs_event' = gs_event
     /\ ring' = ring /\ q = queue

\* A poll that acknowledges an event only when that was received whole leaves the ring
\* and the queue together.
LEMMA PollKeepsQueue ==
  ASSUME TrackInv, NEW op, NEW ack, NEW handle,
         pldm_monitor_poll_for_platform_event_msg(op, ack, handle),
         gs_event.id = ack => todo = "poll" /\ ~mc_first /\ prev_handle = 0,
         NEW brought, Delivers(brought)
  PROVE  /\ QueueIsLaid' /\ Abstract
         /\ ring' \in Rings /\ g_event_id' \in Nat \ {0} /\ max_buffersize' = max_buffersize
         /\ event_receiver_eid' = event_receiver_eid
         /\ \E r, q : /\ PollReads(r, q, op, ack, handle) /\ PolledAhead(q)
                      /\ queue' = q /\ q \in Seq(EventSet) /\ got' = GotAfter(brought, q)
<1> DEFINE r == Acknowledged(ack)
<1>1. /\ r \in Rings
      /\ \E q \in Seq(EventSet) : Remains(r, q) /\ \E off : Laid(r, q, off)
      /\ gs_event.id = ack => r.try_rd = r.rd
  BY AcknowledgedRemains
<1>2. PICK q \in Seq(EventSet) : Remains(r, q) /\ \E off : Laid(r, q, off)
  BY <1>1
<1>3. PICK off : Laid(r, q, off)
  BY <1>2
<1>4. PollReads(r, q, op, ack, handle) /\ Laid(ring', q, off)
  BY <1>1, <1>3, PollStep
<1>5. ring' \in Rings /\ ring'.rd = r.rd /\ (g_event_id' = g_event_id \/ q = <<>>)
  BY <1>4 DEF PollReads
<1>6. queue' = q /\ got' = GotAfter(brought, q) /\ QueueIsLaid' /\ Abstract
  BY <1>2, <1>4, <1>5, RemainsStep
<1>7. g_event_id' \in Nat \ {0}
  <2>1. g_event_id' = g_event_id \/ g_event_id' = 1
    BY <1>4 DEF PollReads
  <2>2. QED
    BY <2>1 DEF TrackInv, EventTypes
<1>8. max_buffersize' = max_buffersize /\ event_receiver_eid' = event_receiver_eid
  BY <1>4 DEF PollReads
<1>9. gs_event.id # ack => r = ring
  BY DEF Acknowledged
<1>10. PolledAhead(q)
  <2>1. CASE q = <<>>
    <3>1. ring' = r
      BY <1>4, <2>1 DEF PollReads
    <3>2. r.try_rd = r.rd
      <4>1. CASE gs_event.id = ack
        BY <1>1, <4>1
      <4>2. CASE gs_event.id # ack
        <5>1. r = ring /\ queue = <<>>
          BY <1>2, <1>9, <2>1, <4>2 DEF Remains
        <5>2. QED
          BY <5>1 DEF TrackInv, ReadAhead
      <4>3. QED
        BY <4>1, <4>2
    <3>3. QED
      BY <3>1, <3>2 DEF PolledAhead
  <2>2. CASE q # <<>> /\ ReadsNew
    BY <1>4, <2>2 DEF PollReads, PolledAhead
  <2>3. CASE q # <<>> /\ ~ReadsNew
    <3>1. gs_event' = gs_event /\ ring' = r
      BY <1>4, <2>3 DEF PollReads
    <3>2. gs_event.id # ack
      BY <2>3 DEF TrackInv, PolledIsWhole
    <3>3. r = ring /\ q = queue
      BY <1>2, <1>9, <3>2 DEF Remains
    <3>4. QED
      BY <2>3, <3>1, <3>3 DEF PolledAhead
  <2>4. QED
    BY <2>1, <2>2, <2>3
<1>11. QED
  BY <1>4, <1>5, <1>6, <1>7, <1>8, <1>10

\* A poll after which the receiver neither polls on nor answers, and that acknowledges
\* nothing.
LEMMA LastPollKeeps ==
  ASSUME TrackInv, NEW op, NEW ack, NEW handle,
         pldm_monitor_poll_for_platform_event_msg(op, ack, handle),
         gs_event.id # ack, Delivers(<<>>),
         todo' \in {"none", "lost"}, mc_first' \in BOOLEAN,
         op = "ACK_ONLY" \/ (todo' = "lost" /\ handle # 0)
  PROVE  TrackInv' /\ Abstract /\ Fits
<1>1. PICK r, q :
        /\ PollReads(r, q, op, ack, handle) /\ PolledAhead(q)
        /\ queue' = q /\ q \in Seq(EventSet) /\ got' = GotAfter(<<>>, q)
  BY PollKeepsQueue
<1>2. /\ QueueIsLaid' /\ Abstract
      /\ ring' \in Rings /\ g_event_id' \in Nat \ {0} /\ max_buffersize' = max_buffersize
  BY PollKeepsQueue
<1>3. PolledIsWhole' /\ Fits
  BY <1>1, PolledStaysWhole
<1>4. EventTypes'
  BY <1>1, <1>2 DEF TrackInv, EventTypes
<1>5. ReadAhead'
  BY <1>1 DEF TrackInv, ReadAhead, PolledAhead
<1>6. Turns'
  <2>1. CASE q = <<>> \/ op = "ACK_ONLY"
    <3>1. LeavePolling
      BY <1>1, <2>1 DEF PollReads
    <3>2. QED
      BY <3>1 DEF LeavePolling, Turns
  <2>2. CASE q # <<>> /\ op # "ACK_ONLY"
    <3>1. todo' = "lost" /\ handle # 0 /\ terminus_mode' = terminus_mode
      BY <1>1, <2>2 DEF PollReads
    <3>2. prev_handle' = prev_handle \/ handle = prev_handle
      BY <1>1, <2>2 DEF PollReads, Refused
    <3>3. terminus_mode # "POLLING" => prev_handle = 0
      BY DEF TrackInv, Turns
    <3>4. QED
      BY <3>1, <3>2, <3>3 DEF Turns
  <2>3. QED
    BY <2>1, <2>2
<1>7. ReceiverFollows'
  BY DEF ReceiverFollows
<1>8. QED
  BY <1>2, <1>3, <1>4, <1>5, <1>6, <1>7 DEF TrackInv

\* A part that was lost is asked for once more, or the poll is given up.
LEMMA RetriesKeeps ==
  ASSUME TrackInv, RetriesPart \/ GivesUpPoll
  PROVE  TrackInv' /\ Abstract /\ Fits
<1>1. CASE RetriesPart
  <2>1. /\ todo = "lost" /\ mc_next # 0 /\ Delivers(<<>>) /\ todo' = todo /\ mc_first' = mc_first
        /\ pldm_monitor_poll_for_platform_event_msg("NEXT", FOR_MIDDLE, mc_next)
    BY <1>1 DEF RetriesPart, mcVars
  <2>2. gs_event.id # FOR_MIDDLE /\ mc_first \in BOOLEAN
    BY NoSuchId DEF TrackInv, EventTypes
  <2>3. QED
    BY <2>1, <2>2, LastPollKeeps
<1>2. CASE GivesUpPoll
  <2>1. /\ pldm_monitor_poll_for_platform_event_msg("ACK_ONLY", NoAck, 0)
        /\ Delivers(<<>>) /\ todo' = "none" /\ mc_first' = FALSE
    BY <1>2 DEF GivesUpPoll, Idle
  <2>2. gs_event.id # NoAck
    BY NoSuchId
  <2>3. QED
    BY <2>1, <2>2, LastPollKeeps
<1>3. QED
  BY <1>1, <1>2

\* What the receiver puts together is the beginning of the event polled, all of it when
\* the last part has come.
LEMMA PartsFollow ==
  ASSUME NEW e \in EventSet, NEW handle \in Nat, NEW len, IsSent(e, handle, len),
         NEW parts,
         parts = IF handle = 0 THEN out'.data
                 ELSE SubSeq(DataOf(e), 1, handle) \o out'.data
  PROVE  /\ parts = SubSeq(DataOf(e), 1, IF prev_handle' = 0 THEN e.size ELSE prev_handle')
         /\ out'.crc => parts = DataOf(e)
<1>1. DataOf(e) \in Seq(Bytes) /\ Len(DataOf(e)) = e.size /\ e.size \in Nat
  BY DataIsBytes, EventLens
<1>2. /\ len \in Nat /\ handle + len <= e.size
      /\ out'.data = SubSeq(DataOf(e), handle + 1, handle + len)
      /\ out'.crc \in BOOLEAN
      /\ IF out'.crc THEN handle + len = e.size /\ prev_handle' = 0
                     ELSE prev_handle' = handle + len /\ prev_handle' # 0
  BY DEF IsSent
<1>3. /\ SubSeq(DataOf(e), 1, handle) \o out'.data = SubSeq(DataOf(e), 1, handle + len)
      /\ SubSeq(DataOf(e), 1, e.size) = DataOf(e)
  BY <1>1, <1>2, PartsJoin
<1>4. parts = SubSeq(DataOf(e), 1, handle + len)
  <2>1. CASE handle = 0
    <3>1. handle + 1 = 1
      BY <2>1
    <3>2. QED
      BY <1>2, <2>1, <3>1
  <2>2. CASE handle # 0
    BY <1>3, <2>2
  <2>3. QED
    BY <2>1, <2>2
<1>5. (IF prev_handle' = 0 THEN e.size ELSE prev_handle') = handle + len
  BY <1>2
<1>6. out'.crc => handle + len = e.size
  BY <1>2
<1>7. QED
  BY <1>3, <1>4, <1>5, <1>6

\* A first poll that the terminus takes for no acknowledgement, or with nothing read
\* ahead, is as good as one with an id that no event has.
LEMMA HarmlessAck ==
  ASSUME TrackInv, NEW first, first # FOR_MIDDLE, NEW handle,
         gs_event.id = first => ring.try_rd = ring.rd,
         pldm_monitor_poll_for_platform_event_msg("FIRST", first, handle)
  PROVE  pldm_monitor_poll_for_platform_event_msg("FIRST", NoAck, handle)
<1>1. ring \in Rings /\ gs_event.id # NoAck /\ NoAck # FOR_MIDDLE
  BY NoSuchId DEF TrackInv, EventTypes
<1>2. ring.try_rd = ring.rd => pldm_event_rbuf_read_done(ring) = ring
  BY <1>1 DEF pldm_event_rbuf_read_done, Rings
<1>3. Acknowledged(first) = Acknowledged(NoAck)
  BY <1>1, <1>2 DEF Acknowledged
<1>4. Refused("FIRST", first, handle) <=> Refused("FIRST", NoAck, handle)
  BY <1>1 DEF Refused
<1>5. QED
  BY <1>3, <1>4 DEF pldm_monitor_poll_for_platform_event_msg

\* The poll of a receiver that acknowledges the event it has got, and whose first poll
\* is not mistaken.
LEMMA PollsKeeps ==
  ASSUME TrackInv, NEW first \in FirstAcks, NEW lost \in BOOLEAN, Polls(first, lost),
         ~Misleads(first)
  PROVE  TrackInv' /\ Abstract /\ Fits
<1> DEFINE part == ~lost /\ out'.msg = "part"
           parts == IF mc_next = 0 THEN out'.data ELSE mc_data \o out'.data
           brought == IF part /\ out'.crc THEN <<out'.id, parts>> ELSE <<>>
<1>1. /\ todo = "poll" /\ PollRequest(first)
      /\ IF ~lost /\ out'.msg = "empty" THEN Idle
         ELSE /\ todo' = IF lost THEN "lost" ELSE "poll"
              /\ mc_first' = FALSE
              /\ mc_event_id' = IF part THEN out'.id ELSE mc_event_id
              /\ mc_next' = IF part THEN out'.next ELSE mc_next
              /\ mc_data' = IF part THEN parts ELSE mc_data
      /\ Delivers(brought)
  BY DEF Polls
<1> HIDE DEF part, parts, brought
<1>2. /\ terminus_mode = "POLLING" /\ mc_first \in BOOLEAN
      /\ mc_first => /\ mc_next = 0 /\ mc_data = <<>> /\ prev_handle = 0
                     /\ mc_event_id # FOR_MIDDLE
      /\ ~mc_first =>
           /\ gs_event \in EventSet /\ mc_event_id = gs_event.id /\ mc_next = prev_handle
           /\ mc_data = SubSeq(DataOf(gs_event), 1,
                               IF prev_handle = 0 THEN gs_event.size ELSE prev_handle)
  BY <1>1 DEF TrackInv, EventTypes, Turns, ReceiverFollows
<1>3. mc_next = prev_handle
  BY <1>2
<1>4. PICK op, ack :
        /\ op # "ACK_ONLY" /\ pldm_monitor_poll_for_platform_event_msg(op, ack, prev_handle)
        /\ ~Refused(op, ack, prev_handle)
        /\ gs_event.id = ack => todo = "poll" /\ ~mc_first /\ prev_handle = 0
  <2>1. CASE mc_first
    <3>1. pldm_monitor_poll_for_platform_event_msg("FIRST", first, prev_handle)
      BY <1>1, <1>2, <2>1 DEF PollRequest
    <3>2. first # FOR_MIDDLE
      BY <1>2, <2>1 DEF FirstAcks, FOR_START, FOR_MIDDLE
    <3>3. gs_event.id = first => ring.try_rd = ring.rd
      BY <2>1 DEF Misleads
    <3>4. pldm_monitor_poll_for_platform_event_msg("FIRST", NoAck, prev_handle)
      BY <3>1, <3>2, <3>3, HarmlessAck
    <3>5. NoAck # FOR_MIDDLE /\ gs_event.id # NoAck
      BY NoSuchId
    <3>6. QED
      BY <3>4, <3>5 DEF Refused
  <2>2. CASE ~mc_first /\ prev_handle = 0
    <3>1. pldm_monitor_poll_for_platform_event_msg("FIRST", gs_event.id, prev_handle)
      BY <1>1, <1>2, <2>2 DEF PollRequest
    <3>2. gs_event.id # FOR_MIDDLE
      BY NoSuchId
    <3>3. QED
      BY <1>1, <2>2, <3>1, <3>2 DEF Refused
  <2>3. CASE ~mc_first /\ prev_handle # 0
    <3>1. pldm_monitor_poll_for_platform_event_msg("NEXT", FOR_MIDDLE, prev_handle)
      BY <1>1, <1>2, <2>3 DEF PollRequest
    <3>2. gs_event.id # FOR_MIDDLE
      BY NoSuchId
    <3>3. QED
      BY <3>1, <3>2 DEF Refused
  <2>4. QED
    BY <1>2, <2>1, <2>2, <2>3
<1>5. PICK r, q :
        /\ PollReads(r, q, op, ack, prev_handle) /\ PolledAhead(q)
        /\ queue' = q /\ q \in Seq(EventSet) /\ got' = GotAfter(brought, q)
  BY <1>1, <1>4, PollKeepsQueue
<1>6. /\ QueueIsLaid' /\ Abstract
      /\ ring' \in Rings /\ g_event_id' \in Nat \ {0} /\ max_buffersize' = max_buffersize
  BY <1>1, <1>4, PollKeepsQueue
<1>7. /\ PolledIsWhole' /\ Fits /\ (q # <<>> => gs_event' \in EventSet)
      /\ q # <<>> => \E len : IsSent(gs_event', prev_handle, len)
  BY <1>4, <1>5, PolledStaysWhole
<1>8. /\ todo' \in {"none", "lost", "poll"} /\ mc_first' = FALSE
      /\ todo' = "lost" <=> lost
      /\ q = <<>> => todo' # "poll"
  <2>1. q = <<>> => out'.msg = "empty"
    BY <1>5 DEF PollReads
  <2>2. QED
    BY <1>1, <2>1 DEF Idle
<1>9. EventTypes'
  BY <1>5, <1>6, <1>8 DEF TrackInv, EventTypes
<1>10. CASE todo' # "poll"
  <2>1. ReadAhead'
    BY <1>1, <1>2, <1>5, <1>8, <1>10 DEF TrackInv, ReadAhead, PolledAhead
  <2>2. Turns'
    <3>1. CASE q = <<>>
      <4>1. prev_handle' = 0
        BY <1>5, <3>1 DEF PollReads, LeavePolling
      <4>2. QED
        BY <1>8, <1>10, <4>1 DEF Turns
    <3>2. CASE q # <<>>
      <4>1. terminus_mode' = "POLLING" /\ out'.msg = "part"
        BY <1>2, <1>4, <1>5, <1>7, <3>2 DEF PollReads, IsSent
      <4>2. todo' = "lost"
        BY <1>1, <1>10, <4>1
      <4>3. QED
        BY <4>1, <4>2 DEF Turns
    <3>3. QED
      BY <3>1, <3>2
  <2>3. ReceiverFollows'
    BY <1>10 DEF ReceiverFollows
  <2>4. QED
    BY <1>6, <1>7, <1>9, <2>1, <2>2, <2>3 DEF TrackInv
<1>11. CASE todo' = "poll"
  <2>1. q # <<>> /\ ~lost /\ terminus_mode' = "POLLING"
    BY <1>2, <1>4, <1>5, <1>8, <1>11 DEF PollReads
  <2> DEFINE e == gs_event'
  <2>2. PICK len : IsSent(e, prev_handle, len)
    BY <1>7, <2>1
  <2>3. out'.msg = "part" /\ out'.id = e.id /\ out'.next = prev_handle' /\ e \in EventSet
    BY <1>7, <2>1, <2>2 DEF IsSent
  <2>4. part /\ mc_event_id' = e.id /\ mc_next' = prev_handle' /\ mc_data' = parts
    BY <1>1, <1>11, <2>1, <2>3 DEF part, Idle
  <2>5. prev_handle # 0 => gs_event' = gs_event
    <3>1. prev_handle # 0 => ~ReadsNew
      BY DEF TrackInv, PolledIsWhole
    <3>2. QED
      BY <1>5, <2>1, <3>1 DEF PollReads
  <2>6. prev_handle \in Nat
    <3>1. CASE mc_first
      BY <1>2, <3>1
    <3>2. CASE ~mc_first
      <4>1. gs_event.size \in Nat
        BY <1>2, <3>2, EventLens
      <4>2. QED
        BY <4>1 DEF TrackInv, PolledIsWhole
    <3>3. QED
      BY <1>2, <3>1, <3>2
  <2>7. parts = IF prev_handle = 0 THEN out'.data
                ELSE SubSeq(DataOf(e), 1, prev_handle) \o out'.data
    BY <1>2, <1>3, <2>5 DEF parts
  <2> HIDE DEF e
  <2>8. /\ parts = SubSeq(DataOf(e), 1, IF prev_handle' = 0 THEN e.size ELSE prev_handle')
        /\ out'.crc => parts = DataOf(e)
    BY <2>2, <2>3, <2>6, <2>7, PartsFollow
  <2>9. ReceiverFollows'
    BY <1>8, <2>3, <2>4, <2>8 DEF ReceiverFollows, e
  <2>10. Turns'
    BY <1>8, <1>11, <2>1 DEF Turns
  <2>11. prev_handle' = 0 /\ e = q[1] => got' = q[1]
    <3> SUFFICES ASSUME prev_handle' = 0, e = q[1]
                 PROVE  got' = q[1]
      OBVIOUS
    <3>1. out'.crc
      BY <2>2 DEF IsSent
    <3>2. brought = <<q[1].id, DataOf(q[1])>>
      BY <2>3, <2>4, <2>8, <3>1 DEF brought
    <3>3. QED
      BY <1>5, <2>1, <3>2 DEF GotAfter
  <2>12. ReadAhead'
    <3>1. CASE ring'.try_rd = ring'.rd
      BY <3>1 DEF ReadAhead
    <3>2. CASE /\ ReadsNew /\ gs_event' = q[1]
               /\ ring'.try_rd = (ring'.rd + EventLen(q[1])) % BufSize
      BY <1>5, <1>11, <2>1, <2>11, <3>2 DEF ReadAhead, e
    <3>3. CASE ~ReadsNew /\ gs_event' = gs_event /\ ring' = ring /\ q = queue
      <4>1. ~mc_first
        BY <1>2, <3>3 DEF TrackInv, PolledIsWhole
      <4>2. \/ ring.try_rd = ring.rd
            \/ ring.try_rd = (ring.rd + EventLen(queue[1])) % BufSize /\ gs_event = queue[1]
        BY <1>1, <4>1 DEF TrackInv, ReadAhead
      <4>3. QED
        BY <1>5, <1>11, <2>1, <2>11, <3>3, <4>2 DEF ReadAhead, e
    <3>4. QED
      BY <1>5, <3>1, <3>2, <3>3 DEF PolledAhead
  <2>13. QED
    BY <1>6, <1>7, <1>9, <2>9, <2>10, <2>12 DEF TrackInv
<1>12. QED
  BY <1>10, <1>11

(***************************************************************************)
(* The messages that are taken for an acknowledgement they are not.        *)
(***************************************************************************)
\* The next part starts in the event polled, and all of its data was read: that holds
\* astray too.
HandleInEvent == prev_handle \in 0 .. gs_event.size /\ Len(gs_data) = gs_event.size

IInv == HandleInEvent /\ (OnTrack => TrackInv)

\* While the session is on its track the handle lies in the event polled.
LEMMA HandleIsInEvent ==
  ASSUME TrackInv
  PROVE  HandleInEvent
<1>1. /\ gs_event \in EventSet \cup {NoEvent} /\ gs_data = DataOf(gs_event)
      /\ prev_handle \in 0 .. gs_event.size
  BY DEF TrackInv, PolledIsWhole
<1>2. Len(gs_data) = gs_event.size
  <2>1. CASE gs_event \in EventSet
    BY <1>1, <2>1, DataIsBytes
  <2>2. CASE gs_event = NoEvent
    BY <1>1, <2>2 DEF NoEvent, DataOf
  <2>3. QED
    BY <1>1, <2>1, <2>2
<1>3. QED
  BY <1>1, <1>2 DEF HandleInEvent

\* Wherever a header is read, the model takes some event to be there.
LEMMA SomeHeader ==
  ASSUME NEW r, NEW pos
  PROVE  HeaderAt(r, pos) \in EventSet
<1>1. \E any : any \in EventSet
  <2>1. PICK len \in DataLens : TRUE
    BY EventSizesAssumption
  <2>2. 1 \in Ids
    BY EventSizesAssumption DEF Ids
  <2>3. [id |-> 1, size |-> len] \in EventSet
    BY <2>1, <2>2 DEF EventSet
  <2>4. QED
    BY <2>3
<1>2. (CHOOSE any \in EventSet : TRUE) \in EventSet
  BY <1>1
<1>3. QED
  BY <1>2 DEF HeaderAt

\* As many bytes are read as are asked for.
LEMMA BytesReadAre ==
  ASSUME NEW r \in Rings, NEW pos \in Nat, NEW n \in Nat
  PROVE  BytesAt(r, pos, n) \in Seq(Bytes) /\ Len(BytesAt(r, pos, n)) = n
<1>1. \A k \in 1 .. n : (pos + k - 1) % BufSize \in Position
  BY BufSizeFact DEF Position
<1>2. BytesAt(r, pos, n) \in [1 .. n -> Bytes]
  BY <1>1 DEF BytesAt, Rings
<1> DEFINE d == BytesAt(r, pos, n)
<1>3. d \in [1 .. n -> Bytes]
  BY <1>2
<1> HIDE DEF d
<1>4. d \in Seq(Bytes) /\ Len(d) = n
  BY <1>3
<1>5. QED
  BY <1>4 DEF d

\* The same behind a step.
LEMMA HandleStaysInEvent == TrackInv' => HandleInEvent'
<1>1. TrackInv => HandleInEvent
  BY HandleIsInEvent
<1>2. QED
  BY <1>1, PTL

\* A first poll that is taken for an acknowledgement moves the read index anywhere; but
\* what it sends fits, and the handle stays in the event it has read.
LEMMA AstrayPollFits ==
  ASSUME TrackInv, NEW first, NEW lost, Polls(first, lost), Misleads(first)
  PROVE  IInv' /\ ~OnTrack' /\ Fits
<1>1. /\ todo = "poll" /\ PollRequest(first) /\ mc_first /\ gs_event.id = first
      /\ todo' = "astray"
  BY DEF Polls, Misleads, GoesAstray
<1>2. /\ EventTypes /\ ring \in Rings /\ mc_next = 0 /\ prev_handle = 0 /\ ReadsNew
      /\ HandleInEvent
  BY <1>1, HandleIsInEvent
  DEF TrackInv, EventTypes, Turns, ReceiverFollows, PolledIsWhole
<1>3. first # FOR_MIDDLE
  BY <1>1, NoSuchId
<1> DEFINE r == Acknowledged(first)
           e == PolledEvent(r)
<1>4. \/ LeavePolling /\ out' = [msg |-> "empty"] /\ UNCHANGED <<gs_event, gs_data>>
      \/ gs_event' = e /\ gs_data' = PolledData(r, e) /\ SendPart(e, "FIRST", 0)
  <2>1. pldm_monitor_poll_for_platform_event_msg("FIRST", first, 0)
    BY <1>1, <1>2 DEF PollRequest
  <2>2. ~Refused("FIRST", first, 0)
    BY <1>2, <1>3 DEF Refused
  <2>3. QED
    BY <2>1, <2>2 DEF pldm_monitor_poll_for_platform_event_msg
<1>5. r \in Rings
  BY <1>1, <1>2 DEF Acknowledged, pldm_event_rbuf_read_done, Rings
<1>6. HandleInEvent' /\ Fits
  <2>1. CASE LeavePolling /\ out' = [msg |-> "empty"] /\ UNCHANGED <<gs_event, gs_data>>
    <3>1. prev_handle' = 0 /\ 0 \in 0 .. gs_event.size
      BY <1>2, <2>1 DEF LeavePolling, HandleInEvent
    <3>2. HandleInEvent'
      BY <1>2, <2>1, <3>1 DEF HandleInEvent
    <3>3. Fits
      BY <2>1 DEF Fits
    <3>4. QED
      BY <3>2, <3>3
  <2>2. CASE gs_event' = e /\ gs_data' = PolledData(r, e) /\ SendPart(e, "FIRST", 0)
    <3>1. e \in EventSet
      BY <1>2, SomeHeader DEF PolledEvent
    <3>2. e.size \in Nat /\ HdrLen \in Nat /\ BufSize \in Nat \ {0} /\ r.rd \in Nat
      BY <1>5, <3>1, EventLens, BufSizeFact DEF Rings, Position
    <3>3. gs_data' = BytesAt(r, (r.rd + HdrLen) % BufSize, e.size)
      BY <1>2, <2>2 DEF PolledData
    <3>4. (r.rd + HdrLen) % BufSize \in Nat
      BY <3>2
    <3> HIDE DEF r, e
    <3>5. gs_data' \in Seq(Bytes) /\ Len(gs_data') = e.size
      BY <1>5, <3>2, <3>3, <3>4, BytesReadAre
    <3> DEFINE zero == 0
    <3>6. zero \in 0 .. e.size /\ SendPart(e, "FIRST", zero)
      BY <2>2, <3>2
    <3> HIDE DEF zero
    <3>7. PICK len \in Nat :
            /\ zero + len <= e.size
            /\ out'.msg = "part" /\ out'.data = SubSeq(gs_data', zero + 1, zero + len)
            /\ len + (IF out'.crc THEN CrcLen ELSE 0) + SyncField <= max_buffersize
            /\ out'.crc \in BOOLEAN
            /\ prev_handle' = 0 \/ prev_handle' = zero + len
      BY <1>2, <3>1, <3>6, PartIsSent
    <3>8. zero + 1 = 1 /\ zero + len = len
      BY DEF zero
    <3>9. len <= Len(gs_data') /\ out'.data = SubSeq(gs_data', 1, len)
      BY <3>5, <3>7, <3>8
    <3>10. Len(out'.data) = len
      BY <3>5, <3>9
    <3>11. Fits
      BY <3>7, <3>10 DEF Fits
    <3>12. prev_handle' \in 0 .. e.size
      BY <3>2, <3>7, <3>8
    <3>13. QED
      BY <2>2, <3>5, <3>11, <3>12 DEF HandleInEvent
  <2>3. QED
    BY <1>4, <2>1, <2>2
<1>7. ~OnTrack'
  BY <1>1 DEF OnTrack
<1>8. QED
  BY <1>6, <1>7 DEF IInv

\* A late answer changes nothing, unless it is taken for the one to the last message.
LEMMA LateAnswerKeeps ==
  ASSUME TrackInv, AnswersLate
  PROVE  /\ Fits
         /\ \/ TrackInv' /\ Abstract
            \/ IInv' /\ ~OnTrack'
<1>1. /\ todo # "answer" /\ out' = NoMessage /\ Delivers(<<>>)
      /\ ring' = IF terminus_mode = "ASYNC" THEN pldm_event_rbuf_read_done(ring) ELSE ring
      /\ UNCHANGED <<g_event_id, terminus_mode, max_buffersize, event_receiver_eid, pollVars>>
      /\ IF terminus_mode = "ASYNC" /\ ring.try_rd # ring.rd THEN GoesAstray ELSE UNCHANGED mcVars
  BY DEF AnswersLate, pldm_monitor_platform_event_msg_rsp, Silent
<1>2. Fits
  BY <1>1 DEF Fits, NoMessage
<1>3. CASE terminus_mode = "ASYNC" /\ ring.try_rd # ring.rd
  <2>1. ~OnTrack'
    BY <1>1, <1>3 DEF GoesAstray, OnTrack
  <2>2. HandleInEvent'
    BY <1>1, HandleIsInEvent DEF HandleInEvent, pollVars
  <2>3. QED
    BY <1>2, <2>1, <2>2 DEF IInv
<1>4. CASE ~(terminus_mode = "ASYNC" /\ ring.try_rd # ring.rd)
  <2>1. ring' = ring
    <3>1. ring \in Rings
      BY DEF TrackInv, EventTypes
    <3>2. ring.try_rd = ring.rd => pldm_event_rbuf_read_done(ring) = ring
      BY <3>1 DEF pldm_event_rbuf_read_done, Rings
    <3>3. QED
      BY <1>1, <1>4, <3>2
  <2>2. UNCHANGED <<queue, got>> /\ UNCHANGED mcVars
    <3>1. queue' = queue
      BY <1>1, <2>1 DEF Delivers
    <3>2. got' = got
      BY <1>1, <2>1 DEF Delivers
    <3>3. QED
      BY <1>1, <1>4, <3>1, <3>2
  <2>3. TrackInv'
    BY <1>1, <2>1, <2>2
    DEF TrackInv, EventTypes, QueueIsLaid, ReadAhead, PolledIsWhole, Turns, ReceiverFollows,
        ReadsNew, pollVars, mcVars
  <2>4. QED
    BY <1>2, <2>2, <2>3 DEF Abstract
<1>5. QED
  BY <1>3, <1>4

(***************************************************************************)
(* The theorems, for every first acknowledgement and with late answers.    *)
(***************************************************************************)
\* The ring and the receiver start empty.
LEMMA InitIsEmpty == SessionInit => IInv /\ Delivery!QueueInit
<1> SUFFICES ASSUME SessionInit
             PROVE  IInv /\ Delivery!QueueInit
  OBVIOUS
<1>1. /\ ring = pldm_event_rbuf_init /\ queue = <<>> /\ got = NoEvent /\ g_event_id = 1
      /\ max_buffersize = InitialSize /\ todo = "none" /\ mc_first = FALSE
      /\ gs_event = NoEvent /\ gs_data = <<>> /\ prev_handle = 0
      /\ transfer_flag = "START_AND_END"
  BY DEF SessionInit, Init
<1>2. ring \in Rings /\ ring.rd = 0 /\ ring.wt = 0 /\ ring.try_rd = 0
  BY <1>1, BufSizeFact DEF pldm_event_rbuf_init, Rings, Bytes, ByteOf
<1>3. Laid(ring, queue, [k \in 0 .. 0 |-> 0])
  <2> DEFINE off == [k \in 0 .. 0 |-> 0]
  <2>1. Len(queue) = 0 /\ off[0] = 0 /\ off \in [0 .. 0 -> 0 .. BufSize - 1]
        /\ 1 .. 0 = {} /\ 0 % BufSize = 0
    BY <1>1, BufSizeFact DEF Position
  <2> HIDE DEF off
  <2>2. Offsets(queue, off)
    BY <2>1 DEF Offsets
  <2>3. ring.wt = (ring.rd + off[Len(queue)]) % BufSize
    BY <1>2, <2>1
  <2>4. QED
    BY <2>1, <2>2, <2>3 DEF Laid, off
<1>4. EventTypes /\ QueueIsLaid /\ ReadAhead
  <2>1. EventTypes
    <3>1. queue \in Seq(EventSet)
      BY <1>1
    <3>2. max_buffersize \in NegotiatedSizes
      BY <1>1, Zenon DEF NegotiatedSizes
    <3>3. g_event_id \in Nat \ {0}
      BY <1>1
    <3>4. todo \in {"none", "answer", "poll", "lost"} /\ mc_first \in BOOLEAN
      BY <1>1, Zenon
    <3>5. QED
      BY <1>2, <3>1, <3>2, <3>3, <3>4, Zenon DEF EventTypes
  <2>2. QueueIsLaid
    <3>1. \E off : Laid(ring, queue, off)
      BY <1>3
    <3>2. queue \in Seq(EventSet) /\ Len(queue) = 0 /\ 1 .. Len(queue) = {}
      BY <1>1
    <3>3. QED
      BY <1>1, <3>1, <3>2 DEF QueueIsLaid
  <2>3. ReadAhead
    BY <1>2 DEF ReadAhead
  <2>4. QED
    BY <2>1, <2>2, <2>3
<1>5. DataOf(NoEvent) = <<>>
  BY DEF DataOf, NoEvent
<1>6. PolledIsWhole /\ Turns /\ ReceiverFollows
  BY <1>1, <1>5 DEF PolledIsWhole, Turns, ReceiverFollows, NoEvent, ReadsNew
<1>7. TrackInv
  BY <1>4, <1>6 DEF TrackInv
<1>8. QED
  BY <1>1, <1>7, HandleIsInEvent DEF IInv, Delivery!QueueInit

\* Every step on track keeps the invariant and is a step of the abstract queue, or goes
\* astray; in any case it sends nothing that does not fit.
LEMMA StepKeeps ==
  ASSUME IInv, [SessionNext]_sessionVars
  PROVE  IInv' /\ (Abstract \/ ~OnTrack') /\ [Fits]_sessionVars
<1>1. CASE UNCHANGED sessionVars
  <2>1. /\ UNCHANGED <<ring, g_event_id, terminus_mode, max_buffersize, event_receiver_eid,
                       gs_event, gs_data, prev_handle, transfer_flag>>
        /\ UNCHANGED <<todo, mc_event_id, mc_next, mc_first, mc_data, queue, got>>
    BY <1>1 DEF sessionVars, eventVars, mcVars
  <2>2. HandleInEvent' /\ (OnTrack' <=> OnTrack)
    BY <2>1 DEF IInv, HandleInEvent, OnTrack
  <2>3. TrackInv => TrackInv'
    BY <2>1 DEF TrackInv, EventTypes, QueueIsLaid, ReadAhead, PolledIsWhole, Turns,
                ReceiverFollows, ReadsNew
  <2>4. Abstract
    BY <2>1 DEF Abstract
  <2>5. QED
    BY <1>1, <2>2, <2>3, <2>4 DEF IInv
<1>2. CASE Stops
  BY <1>1, <1>2 DEF Stops
<1>3. ASSUME SessionNext, ~Stops
      PROVE  /\ TrackInv
             /\ Fits
             /\ \/ TrackInv' /\ Abstract
                \/ IInv' /\ ~OnTrack'
  <2>1. OnTrack
    BY <1>3 DEF SessionNext, Events, SendsNothing, SendsEvent, SendsPollRequest, Answers,
                AnswersLate, Polls, RetriesPart, GivesUpPoll, SetsEventReceiver,
                SetsBufferSize, OnTrack
  <2>2. TrackInv
    BY <2>1 DEF IInv
  <2>3. CASE Events
    BY <2>2, <2>3, EventsKeeps
  <2>4. CASE SendsNothing
    BY <2>2, <2>4, SendsNothingKeeps
  <2>5. CASE \E lost \in BOOLEAN : SendsEvent(lost)
    BY <2>2, <2>5, SendsEventKeeps
  <2>6. CASE \E lost \in BOOLEAN : SendsPollRequest(lost)
    BY <2>2, <2>6, SendsPollRequestKeeps
  <2>7. CASE \E ok \in BOOLEAN : Answers(ok)
    BY <2>2, <2>7, AnswersKeeps
  <2>8. CASE AnswersLate
    BY <2>2, <2>8, LateAnswerKeeps
  <2>9. CASE \E first \in FirstAcks, lost \in BOOLEAN : Polls(first, lost)
    <3>1. PICK first \in FirstAcks, lost \in BOOLEAN : Polls(first, lost)
      BY <2>9
    <3>2. CASE Misleads(first)
      BY <2>2, <3>1, <3>2, AstrayPollFits
    <3>3. CASE ~Misleads(first)
      BY <2>2, <3>1, <3>3, PollsKeeps
    <3>4. QED
      BY <3>2, <3>3
  <2>10. CASE RetriesPart \/ GivesUpPoll
    BY <2>2, <2>10, RetriesKeeps
  <2>11. CASE SetsEventReceiver \/ SetsBufferSize
    BY <2>2, <2>11, SettingsKeep
  <2>12. QED
    BY <1>3, <2>3, <2>4, <2>5, <2>6, <2>7, <2>8, <2>9, <2>10, <2>11 DEF SessionNext
<1>4. TrackInv' => IInv'
  BY HandleStaysInEvent DEF IInv
<1>5. QED
  BY <1>1, <1>2, <1>3, <1>4

\* As long as no message was mistaken for an acknowledgement, the events lie in the ring
\* as the queue has them, and the receiver holds the beginning of the event that the
\* terminus polls.
THEOREM EventsInvariant == SessionSpec => []IInv
<1>1. SessionInit => IInv
  BY InitIsEmpty
<1>2. IInv /\ [SessionNext]_sessionVars => IInv'
  BY StepKeeps
<1>3. QED
  BY <1>1, <1>2, PTL DEF SessionSpec

\* As long as no message was mistaken for an acknowledgement, the indices of the ring
\* enclose whole events with growing ids, and what is read ahead of an acknowledgement is
\* the oldest of them.
THEOREM RingAlwaysWhole == SessionSpec => []RingHoldsWholeEvents
<1>1. ASSUME IInv
      PROVE  RingHoldsWholeEvents
  <2> SUFFICES ASSUME TrackInv
               PROVE  RingHoldsWholeEvents
    BY <1>1 DEF IInv, RingHoldsWholeEvents
  <2> DEFINE start == StartOf(ring)
  <2>1. ring \in Rings /\ queue \in Seq(EventSet) /\ ring.rd \in Position
    BY DEF TrackInv, EventTypes, Rings
  <2>2. PICK off : Laid(ring, queue, off)
    BY DEF TrackInv, QueueIsLaid
  <2>3. Ends(ring) # {}
    BY <2>1, <2>2, ContentsAreLaid
  <2>4. \A k \in 1 .. Len(queue) :
          BytesAt(ring, start[k - 1], EventLen(queue[k])) = BytesOf(queue[k])
    BY <2>1, <2>2, BytesAreRead
  <2>5. ReadAheadIsOldest
    <3>1. BufSize \in Nat \ {0} /\ ring.rd \in Nat /\ ring.rd < BufSize
      BY <2>1, BufSizeFact DEF Position
    <3>2. ring.try_rd = ring.rd => ReadSize(ring.rd, ring.try_rd) = 0
      BY <3>1 DEF ReadSize
    <3>3. ASSUME NEW len \in Nat, len < BufSize, ring.try_rd = (ring.rd + len) % BufSize
          PROVE  ReadSize(ring.rd, ring.try_rd) = len
      <4>1. (ring.rd + 0) % BufSize = ring.rd /\ 0 <= len
        BY <3>1
      <4> DEFINE zero == 0
      <4>2. zero \in Nat /\ zero <= len /\ (ring.rd + zero) % BufSize = ring.rd /\ len - zero = len
        BY <4>1
      <4> HIDE DEF zero
      <4>3. ReadSize((ring.rd + zero) % BufSize, (ring.rd + len) % BufSize) = len - zero
        BY <2>1, <3>3, <4>2, WrapDistance
      <4>4. QED
        BY <3>3, <4>2, <4>3
    <3>4. queue # <<>> =>
            /\ ~pldm_event_rbuf_is_empty(ring) /\ HeaderAt(ring, ring.rd) = queue[1]
            /\ queue[1] \in EventSet
      BY <2>1, <2>2, HeadIsRead
    <3>5. queue # <<>> => /\ EventLen(queue[1]) \in Nat /\ EventLen(queue[1]) < BufSize
                          /\ HdrLen \in Nat /\ HdrLen < BufSize
      <4>1. \A e \in EventSet : /\ EventLen(e) \in Nat /\ EventLen(e) < BufSize
                                /\ HdrLen \in Nat /\ HdrLen <= EventLen(e)
        BY EventLens
      <4>2. QED
        BY <3>1, <3>4, <4>1
    <3>6. QED
      BY <3>2, <3>3, <3>4, <3>5 DEF TrackInv, ReadAhead, ReadAheadIsOldest
  <2>6. \A k \in 1 .. Len(queue) : /\ queue[k].id < g_event_id
                                   /\ k > 1 => queue[k - 1].id < queue[k].id
    BY DEF TrackInv, QueueIsLaid
  <2>7. QED
    BY <2>3, <2>4, <2>5, <2>6 DEF RingHoldsWholeEvents
<1>2. QED
  BY <1>1, EventsInvariant, PTL

\* The parts a receiver puts together are the beginning of one event's data, and the
\* handle of the next lies in that event.
THEOREM PartsAlwaysOneEvent == SessionSpec => []PartsAreOneEvent
<1>1. ASSUME IInv
      PROVE  PartsAreOneEvent
  <2>1. HandleInEvent
    BY <1>1 DEF IInv
  <2>2. ASSUME todo = "poll", mc_data # <<>>
        PROVE  /\ mc_event_id = gs_event.id
               /\ mc_data = SubSeq(DataOf(gs_event), 1, Len(mc_data))
               /\ mc_next = 0 => mc_data = DataOf(gs_event)
    <3> DEFINE m == IF prev_handle = 0 THEN gs_event.size ELSE prev_handle
    <3>1. /\ gs_event \in EventSet /\ mc_event_id = gs_event.id /\ mc_next = prev_handle
          /\ mc_data = SubSeq(DataOf(gs_event), 1, m)
      BY <1>1, <2>2 DEF IInv, OnTrack, TrackInv, EventTypes, ReceiverFollows
    <3>2. /\ DataOf(gs_event) \in Seq(Bytes) /\ Len(DataOf(gs_event)) = gs_event.size
          /\ gs_event.size \in Nat
      BY <3>1, DataIsBytes, EventLens
    <3>3. m \in Nat /\ m <= Len(DataOf(gs_event)) /\ (prev_handle = 0 => m = gs_event.size)
      BY <2>1, <3>2 DEF HandleInEvent
    <3> HIDE DEF m
    <3>4. Len(SubSeq(DataOf(gs_event), 1, m)) = m
      BY <3>2, <3>3
    <3>5. SubSeq(DataOf(gs_event), 1, gs_event.size) = DataOf(gs_event)
      BY <3>2, <3>3, PartsJoin
    <3>6. QED
      BY <3>1, <3>3, <3>4, <3>5
  <2>3. QED
    BY <2>1, <2>2 DEF HandleInEvent, PartsAreOneEvent
<1>2. QED
  BY <1>1, EventsInvariant, PTL

\* No message is longer than the size negotiated with the receiver.
THEOREM MessagesAlwaysFit == SessionSpec => MessagesFit
<1>1. IInv /\ [SessionNext]_sessionVars => [Fits]_sessionVars
  BY StepKeeps
<1>2. QED
  BY <1>1, EventsInvariant, PTL DEF SessionSpec, MessagesFit, Fits

\* The ring, the messages and the polls deliver the events as the abstract queue does:
\* in their turn, whole, and dropping as few as they must.  The step in which a message is
\* mistaken for an acknowledgement is the only one that the queue need not have.
THEOREM EventsAreDelivered == SessionSpec => ImplementsEventQueue
<1>1. SessionInit => Delivery!QueueInit
  BY InitIsEmpty
<1>2. IInv /\ [SessionNext]_sessionVars => [Delivery!QueueNext \/ ~OnTrack']_<<queue, got>>
  BY StepKeeps DEF Abstract
<1>3. QED
  BY <1>1, <1>2, EventsInvariant, PTL DEF SessionSpec, ImplementsEventQueue
=============================================================================
