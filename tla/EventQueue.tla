----------------------------- MODULE EventQueue -----------------------------
(***************************************************************************)
(* What the delivery of events promises, without the ring, the messages    *)
(* and the polls: a queue of events that makes room for a new one by       *)
(* dropping as few of the oldest as it must, and an event that leaves it   *)
(* otherwise only in its turn, when the receiver has got all of it.        *)
(***************************************************************************)
EXTENDS Integers, Sequences

CONSTANTS
  Capacity,       \* what the queue may hold, in bytes
  Events,
  LengthOf(_),    \* of an event, in bytes
  Nothing         \* the receiver has got nothing it has not acknowledged

VARIABLES
  queue,
  got     \* the event the receiver has got, while it is at the head of the queue

queueVars == <<queue, got>>

Total(q) ==
  LET sum[k \in 0 .. Len(q)] == IF k = 0 THEN 0 ELSE sum[k - 1] + LengthOf(q[k])
  IN  sum[Len(q)]

Fits(q, e) == Total(q) + LengthOf(e) <= Capacity

DropFirst(q, k) == SubSeq(q, k + 1, Len(q))

QueueInit == queue = <<>> /\ got = Nothing

Put ==
  \E e \in Events, k \in 0 .. Len(queue) :
    /\ queue' = Append(DropFirst(queue, k), e)
    /\ Fits(DropFirst(queue, k), e)
    /\ \A j \in 0 .. k - 1 : ~Fits(DropFirst(queue, j), e)
    /\ got' = IF k > 0 THEN Nothing ELSE got

\* The receiver gets the event at the head, whole.
Receive ==
  /\ queue # <<>>
  /\ got' = Head(queue)
  /\ UNCHANGED queue

\* It acknowledges it and may get the next one with the same message.
Take ==
  /\ queue # <<>> /\ got = Head(queue)
  /\ queue' = Tail(queue)
  /\ got' = Nothing \/ (queue' # <<>> /\ got' = Head(queue'))

QueueNext == Put \/ Receive \/ Take

QueueSpec == QueueInit /\ [][QueueNext]_queueVars

=============================================================================
