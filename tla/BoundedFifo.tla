---------------------------- MODULE BoundedFifo ----------------------------
(***************************************************************************)
(* What queue/queue.h promises its callers: a bounded first-in first-out   *)
(* queue of packets, each operation taking effect at one instant.          *)
(*                                                                         *)
(* There is no ring, no mutex and no condition variable here.  `items` is  *)
(* the queue's content, oldest first, and `ret` is the latest result a     *)
(* call produced: for which thread, the byte count or status in `size`,    *)
(* and the packet copied to the caller's buffer in `data`.                 *)
(*                                                                         *)
(* PacketQueue, the model of queue.c, implements this specification.       *)
(***************************************************************************)
EXTENDS Integers, Sequences

CONSTANTS Threads,   \* the threads that share the queue
          Packets,   \* the packets it can hold: records with data and size
          Capacity,  \* how many packets fit
          NoThread,  \* the thread of the result before the first call
          NoData     \* the content of a buffer nothing was copied to

VARIABLES items, ret

fifoVars == <<items, ret>>

Status(n) == [size |-> n, data |-> NoData]

Returns(t, r) == ret' = [thread |-> t, result |-> r]

Init ==
  /\ items = <<>>
  /\ ret = [thread |-> NoThread, result |-> Status(0)]
-----------------------------------------------------------------------------
(* push: a packet that fits is appended; on a full queue nothing happens   *)
(* and the call reports 0 bytes.                                           *)
Put(t, p) ==
  /\ Len(items) < Capacity
  /\ items' = Append(items, p)
  /\ Returns(t, Status(p.size))

PutFull(t) ==
  /\ Len(items) = Capacity
  /\ Returns(t, Status(0))
  /\ UNCHANGED items

(* push of a packet whose size is 0 or beyond the maximum.                 *)
PutRefused(t) ==
  /\ \E n \in {-1, 0} : Returns(t, Status(n))
  /\ UNCHANGED items

(* pop: the oldest packet is removed and handed over.  It has no outcome   *)
(* on an empty queue other than an error.                                  *)
Take(t) ==
  /\ items # <<>>
  /\ Returns(t, Head(items))
  /\ items' = Tail(items)

(* remove_front: the oldest packet is dropped.                             *)
DropFront(t) ==
  /\ items # <<>>
  /\ items' = Tail(items)
  /\ UNCHANGED ret

(* front and back: a copy of the oldest or of the newest packet.           *)
PeekFront(t) ==
  /\ items # <<>>
  /\ Returns(t, Head(items))
  /\ UNCHANGED items

PeekBack(t) ==
  /\ items # <<>>
  /\ Returns(t, items[Len(items)])
  /\ UNCHANGED items

(* front, back, or a pop whose wait failed, on an empty queue.             *)
FoundEmpty(t) ==
  /\ items = <<>>
  /\ Returns(t, Status(-1))
  /\ UNCHANGED items

Next ==
  \E t \in Threads :
     \/ \E p \in Packets : Put(t, p)
     \/ PutFull(t)
     \/ PutRefused(t)
     \/ Take(t)
     \/ DropFront(t)
     \/ PeekFront(t)
     \/ PeekBack(t)
     \/ FoundEmpty(t)

Spec == Init /\ [][Next]_fifoVars
=============================================================================
