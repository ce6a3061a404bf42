---------------------------- MODULE PacketQueue ----------------------------
(***************************************************************************)
(* The packet queue of queue/queue.c: a ring of Q_SIZE slots guarded by    *)
(* one mutex and one condition variable, used by any number of threads.    *)
(*                                                                         *)
(* The ring keeps no count of its elements.  A slot is free exactly when   *)
(* its entry of `sizes` is 0, so is_full looks at sizes[rear] and is_empty *)
(* at sizes[front]; that these two tests are right is an invariant, not a  *)
(* definition (RingWindow).                                                *)
(*                                                                         *)
(* A call is a sequence of steps of its thread, so the calls of different  *)
(* threads interleave between any two of them.  pc[t] is the step t is at, *)
(* op[t] the function it is in, arg[t] the packet it pushes and buff[t]    *)
(* the bytes it has read.  ret is the latest result any call has produced. *)
(***************************************************************************)
EXTENDS Integers, Sequences, FiniteSets

CONSTANTS Threads,       \* the threads that use the queue
          Calls,         \* Calls[t]: the functions of queue.h that t calls
          Q_SIZE,        \* slots of the ring (1000 in queue.h)
          MAX_PKG_SIZE,  \* largest packet a slot holds (1522 in queue.h)
          Data,          \* packet contents
          Sizes,         \* the sizes callers pass to push
          NoData,        \* a buffer nothing has been copied to
          NoThread       \* the holder of a free mutex

QueueFunctions == {"push", "pop", "remove_front", "front", "back",
                   "send_signal_queue"}

(* The largest uint16_t.                                                   *)
UINT16_MAX == 65535

ASSUME QueueAssumption ==
  /\ Q_SIZE \in 1..UINT16_MAX
  /\ MAX_PKG_SIZE \in Nat \ {0}
  /\ Sizes \subseteq Nat
  /\ IsFiniteSet(Threads)
  /\ Calls \in [Threads -> SUBSET QueueFunctions]
  /\ NoThread \notin Threads
  /\ NoData \notin Data

VARIABLES queue,       \* queue[k]: the bytes in slot k
          sizes,       \* sizes[k]: how many of them are a packet, 0 if free
          front,       \* the slot of the oldest packet
          rear,        \* the slot the next packet goes to
          cond_mutex,  \* the thread that holds the mutex, or NoThread
          waiting,     \* the threads asleep on the condition variable
          pc, op, arg, buff, ret

ring == <<queue, sizes, front, rear>>
lock == <<cond_mutex, waiting>>
vars == <<queue, sizes, front, rear, cond_mutex, waiting,
          pc, op, arg, buff, ret>>

Slots == 0..(Q_SIZE - 1)
PacketSizes == 1..MAX_PKG_SIZE
Packets == [data : Data, size : PacketSizes]
Results == [data : Data \cup {NoData}, size : {-1, 0} \cup PacketSizes]

(* A result that is a byte count or an error code and no packet.           *)
Status(n) == [size |-> n, data |-> NoData]

Steps == {"idle", "lock", "test", "copy", "publish", "signal", "wait",
          "asleep", "advance", "unlock"}

(* The steps at which a thread owns the mutex.                             *)
Critical == {"test", "copy", "publish", "signal", "wait", "advance", "unlock"}
-----------------------------------------------------------------------------
(* next(): the slot after k, wrapping at the end of the array.             *)
next(k) == IF k = Q_SIZE - 1 THEN 0 ELSE k + 1

(* The slot before rear, where back() reads.                               *)
last(k) == IF k = 0 THEN Q_SIZE - 1 ELSE k - 1

is_full == sizes[rear] # 0
is_empty == sizes[front] = 0

Goto(t, step) == pc' = [pc EXCEPT ![t] = step]
Returns(t, r) == ret' = [thread |-> t, result |-> r]

(* The call returns and its locals are gone.                               *)
Leave(t) ==
  /\ Goto(t, "idle")
  /\ op' = [op EXCEPT ![t] = "none"]
  /\ arg' = [arg EXCEPT ![t] = Status(0)]
  /\ buff' = [buff EXCEPT ![t] = NoData]

(* pthread_cond_signal: one sleeping thread, if there is one, is released. *)
CondSignal ==
  IF waiting = {}
  THEN UNCHANGED waiting
  ELSE \E w \in waiting : waiting' = waiting \ {w}

(* init(): an empty ring, a free mutex and nobody waiting.                 *)
Init ==
  /\ queue = [k \in Slots |-> NoData]
  /\ sizes = [k \in Slots |-> 0]
  /\ front = 0
  /\ rear = 0
  /\ cond_mutex = NoThread
  /\ waiting = {}
  /\ pc = [t \in Threads |-> "idle"]
  /\ op = [t \in Threads |-> "none"]
  /\ arg = [t \in Threads |-> Status(0)]
  /\ buff = [t \in Threads |-> NoData]
  /\ ret = [thread |-> NoThread, result |-> Status(0)]
-----------------------------------------------------------------------------
(* Calls, up to the point where the mutex is requested.                    *)

(* push() refuses a packet that is too large (-1) and ignores an empty one *)
(* (0), both before it takes the mutex.                                    *)
PushRefuse(t, n) ==
  /\ pc[t] = "idle"
  /\ \/ /\ n > MAX_PKG_SIZE
        /\ Returns(t, Status(-1))
     \/ /\ n = 0
        /\ Returns(t, Status(0))
  /\ UNCHANGED <<ring, lock, pc, op, arg, buff>>

PushCall_NoSizeCheck(t, d, n) ==
  /\ pc[t] = "idle"
  /\ op' = [op EXCEPT ![t] = "push"]
  /\ arg' = [arg EXCEPT ![t] = [size |-> n, data |-> d]]
  /\ Goto(t, "lock")
  /\ UNCHANGED <<ring, lock, buff, ret>>

PushCall(t, d, n) ==
  /\ pc[t] = "idle"
  /\ n \in PacketSizes
  /\ op' = [op EXCEPT ![t] = "push"]
  /\ arg' = [arg EXCEPT ![t] = [size |-> n, data |-> d]]
  /\ Goto(t, "lock")
  /\ UNCHANGED <<ring, lock, buff, ret>>

ReadCall(t, f) ==
  /\ pc[t] = "idle"
  /\ f \in {"pop", "remove_front", "front", "back"}
  /\ op' = [op EXCEPT ![t] = f]
  /\ Goto(t, "lock")
  /\ UNCHANGED <<ring, lock, arg, buff, ret>>

(* send_signal_queue() signals without the mutex and touches nothing else. *)
send_signal_queue(t) ==
  /\ pc[t] = "idle"
  /\ CondSignal
  /\ UNCHANGED <<ring, cond_mutex, pc, op, arg, buff, ret>>

Call(t) ==
  \/ /\ "push" \in Calls[t]
     /\ \E n \in Sizes : PushRefuse(t, n) \/ \E d \in Data : PushCall(t, d, n)
  \/ \E f \in Calls[t] : ReadCall(t, f)
  \/ /\ "send_signal_queue" \in Calls[t]
     /\ send_signal_queue(t)
-----------------------------------------------------------------------------
(* The mutex and the condition variable.                                   *)

Lock_Unguarded(t) ==
  /\ pc[t] = "lock"
  /\ cond_mutex' = t
  /\ Goto(t, "test")
  /\ UNCHANGED <<ring, waiting, op, arg, buff, ret>>

Lock(t) ==
  /\ pc[t] = "lock"
  /\ cond_mutex = NoThread
  /\ cond_mutex' = t
  /\ Goto(t, "test")
  /\ UNCHANGED <<ring, waiting, op, arg, buff, ret>>

Unlock(t) ==
  /\ pc[t] = "unlock"
  /\ cond_mutex' = NoThread
  /\ Leave(t)
  /\ UNCHANGED <<ring, waiting, ret>>

(* pthread_cond_wait: the mutex is released and the thread falls asleep in *)
(* one step.                                                               *)
CondWait(t) ==
  /\ pc[t] = "wait"
  /\ cond_mutex' = NoThread
  /\ waiting' = waiting \cup {t}
  /\ Goto(t, "asleep")
  /\ UNCHANGED <<ring, op, arg, buff, ret>>

(* pthread_cond_wait fails: pop gives up with -1.                          *)
CondWaitFails(t) ==
  /\ pc[t] = "wait"
  /\ Returns(t, Status(-1))
  /\ Goto(t, "unlock")
  /\ UNCHANGED <<ring, lock, op, arg, buff>>

(* A thread that is no longer asleep takes the mutex back and, since the   *)
(* wait is in a while loop, tests the queue again.                         *)
Wake_NoRetest(t) ==
  /\ pc[t] = "asleep"
  /\ t \notin waiting
  /\ cond_mutex = NoThread
  /\ cond_mutex' = t
  /\ Goto(t, "copy")
  /\ UNCHANGED <<ring, waiting, op, arg, buff, ret>>

Wake(t) ==
  /\ pc[t] = "asleep"
  /\ t \notin waiting
  /\ cond_mutex = NoThread
  /\ cond_mutex' = t
  /\ Goto(t, "test")
  /\ UNCHANGED <<ring, waiting, op, arg, buff, ret>>

(* POSIX lets a thread return from pthread_cond_wait with no signal.       *)
SpuriousWakeup(t) ==
  /\ t \in waiting
  /\ waiting' = waiting \ {t}
  /\ UNCHANGED <<ring, cond_mutex, pc, op, arg, buff, ret>>
-----------------------------------------------------------------------------
(* push(), with the mutex held.                                            *)

PushTest(t) ==
  /\ pc[t] = "test"
  /\ op[t] = "push"
  /\ \/ /\ is_full
        /\ Returns(t, Status(0))
        /\ Goto(t, "unlock")
     \/ /\ ~is_full
        /\ Goto(t, "copy")
        /\ UNCHANGED ret
  /\ UNCHANGED <<ring, lock, op, arg, buff>>

PushCopy(t) ==
  /\ pc[t] = "copy"
  /\ op[t] = "push"
  /\ queue' = [queue EXCEPT ![rear] = arg[t].data]
  /\ Goto(t, "publish")
  /\ UNCHANGED <<sizes, front, rear, lock, op, arg, buff, ret>>

PushPublish(t) ==
  /\ pc[t] = "publish"
  /\ sizes' = [sizes EXCEPT ![rear] = arg[t].size]
  /\ rear' = next(rear)
  /\ Returns(t, Status(arg[t].size))
  /\ Goto(t, "signal")
  /\ UNCHANGED <<queue, front, lock, op, arg, buff>>

PushSignal_OnlyWhenFirst(t) ==
  /\ pc[t] = "signal"
  /\ IF next(front) = rear THEN CondSignal ELSE UNCHANGED waiting
  /\ Goto(t, "unlock")
  /\ UNCHANGED <<ring, cond_mutex, op, arg, buff, ret>>

PushSignal(t) ==
  /\ pc[t] = "signal"
  /\ CondSignal
  /\ Goto(t, "unlock")
  /\ UNCHANGED <<ring, cond_mutex, op, arg, buff, ret>>
-----------------------------------------------------------------------------
(* pop(), remove_front(), front() and back(), with the mutex held.         *)

PopTest(t) ==
  /\ pc[t] = "test"
  /\ op[t] = "pop"
  /\ Goto(t, IF is_empty THEN "wait" ELSE "copy")
  /\ UNCHANGED <<ring, lock, op, arg, buff, ret>>

RemoveTest(t) ==
  /\ pc[t] = "test"
  /\ op[t] = "remove_front"
  /\ Goto(t, IF is_empty THEN "unlock" ELSE "advance")
  /\ UNCHANGED <<ring, lock, op, arg, buff, ret>>

PeekTest(t) ==
  /\ pc[t] = "test"
  /\ op[t] \in {"front", "back"}
  /\ \/ /\ is_empty
        /\ Returns(t, Status(-1))
        /\ Goto(t, "unlock")
     \/ /\ ~is_empty
        /\ Goto(t, "copy")
        /\ UNCHANGED ret
  /\ UNCHANGED <<ring, lock, op, arg, buff>>

PopCopy(t) ==
  /\ pc[t] = "copy"
  /\ op[t] = "pop"
  /\ buff' = [buff EXCEPT ![t] = queue[front]]
  /\ Goto(t, "advance")
  /\ UNCHANGED <<ring, lock, op, arg, ret>>

PeekCopy(t) ==
  /\ pc[t] = "copy"
  /\ op[t] \in {"front", "back"}
  /\ LET k == IF op[t] = "front" THEN front ELSE last(rear)
     IN /\ buff' = [buff EXCEPT ![t] = queue[k]]
        /\ Returns(t, [size |-> sizes[k], data |-> queue[k]])
  /\ Goto(t, "unlock")
  /\ UNCHANGED <<ring, lock, op, arg>>

(* The slot is freed.  pop() returns the size read just before; the other  *)
(* caller, remove_front(), returns nothing.                                *)
Advance_SlotNotFreed(t) ==
  /\ pc[t] = "advance"
  /\ front' = next(front)
  /\ IF op[t] = "pop"
     THEN Returns(t, [size |-> sizes[front], data |-> buff[t]])
     ELSE UNCHANGED ret
  /\ Goto(t, "unlock")
  /\ UNCHANGED <<queue, sizes, rear, lock, op, arg, buff>>

Advance(t) ==
  /\ pc[t] = "advance"
  /\ sizes' = [sizes EXCEPT ![front] = 0]
  /\ front' = next(front)
  /\ IF op[t] = "pop"
     THEN Returns(t, [size |-> sizes[front], data |-> buff[t]])
     ELSE UNCHANGED ret
  /\ Goto(t, "unlock")
  /\ UNCHANGED <<queue, rear, lock, op, arg, buff>>
-----------------------------------------------------------------------------
(* The steps a thread takes by itself once it has made a call.             *)
Step(t) ==
  \/ Lock(t) \/ Unlock(t)
  \/ CondWait(t) \/ CondWaitFails(t) \/ Wake(t)
  \/ PushTest(t) \/ PushCopy(t) \/ PushPublish(t) \/ PushSignal(t)
  \/ PopTest(t) \/ RemoveTest(t) \/ PeekTest(t)
  \/ PopCopy(t) \/ PeekCopy(t) \/ Advance(t)

Next == \E t \in Threads : Call(t) \/ Step(t) \/ SpuriousWakeup(t)

Spec == Init /\ [][Next]_vars

(* A thread inside a call is eventually scheduled.  Nothing obliges it to  *)
(* make another call, and the mutex is not assumed to be fair.             *)
FairSpec == Spec /\ \A t \in Threads : WF_vars(Step(t))
-----------------------------------------------------------------------------
(* Properties.                                                             *)

(* The number of packets in the ring: the distance from front to rear,     *)
(* where equal indices mean empty or full depending on the slot's size.    *)
Count ==
  IF sizes[front] = 0 THEN 0
  ELSE IF rear > front THEN rear - front
  ELSE Q_SIZE - front + rear

(* The slot i places after front, and how many places slot k is after it.  *)
SlotAt(i) == IF front + i < Q_SIZE THEN front + i ELSE front + i - Q_SIZE
Offset(k) == IF k >= front THEN k - front ELSE k - front + Q_SIZE

(* The queue's content, oldest packet first.                               *)
Content ==
  [i \in 1..Count |-> [data |-> queue[SlotAt(i - 1)],
                       size |-> sizes[SlotAt(i - 1)]]]

(* Every variable keeps its type: in particular no slot ever claims more   *)
(* bytes than MAX_PKG_SIZE and both indices stay inside the arrays.        *)
TypeOK ==
  /\ queue \in [Slots -> Data \cup {NoData}]
  /\ sizes \in [Slots -> 0..MAX_PKG_SIZE]
  /\ front \in Slots
  /\ rear \in Slots
  /\ cond_mutex \in Threads \cup {NoThread}
  /\ waiting \subseteq Threads
  /\ pc \in [Threads -> Steps]
  /\ op \in [Threads -> {"none", "push", "pop", "remove_front", "front", "back"}]
  /\ arg \in [Threads -> Packets \cup {Status(0)}]
  /\ buff \in [Threads -> Data \cup {NoData}]
  /\ ret \in [thread : Threads \cup {NoThread}, result : Results]

(* The occupied slots are exactly the Count slots from front on, they end  *)
(* just before rear, and each holds a packet that was copied in.  This is  *)
(* what makes is_full's look at sizes[rear] and is_empty's at sizes[front] *)
(* right although the ring keeps no element count.                         *)
RingWindow ==
  /\ rear = SlotAt(Count)
  /\ \A k \in Slots : sizes[k] # 0 <=> Offset(k) < Count
  /\ \A k \in Slots : sizes[k] # 0 => queue[k] # NoData

(* What a thread found out by is_full or is_empty is still so when it acts *)
(* on it, several steps later: the slot it fills is free and holds its own *)
(* bytes when published, the slot it frees is the one it read, and it goes *)
(* to sleep only on an empty queue.                                        *)
TestsStayTrue ==
  \A t \in Threads :
     /\ pc[t] = "copy" => IF op[t] = "push" THEN ~is_full ELSE ~is_empty
     /\ pc[t] = "publish" => ~is_full /\ queue[rear] = arg[t].data
     /\ pc[t] = "advance" =>
          ~is_empty /\ (op[t] = "pop" => buff[t] = queue[front])
     /\ pc[t] = "wait" => is_empty

Fifo == INSTANCE BoundedFifo WITH items <- Content, Capacity <- Q_SIZE

(* The queue of queue.c is a bounded FIFO: every step of a call is a step  *)
(* of BoundedFifo on Content or changes nothing a caller can see.  Packets *)
(* come out once each, in order, with the bytes and size they went in      *)
(* with; 0 from push means full; front and back show the two ends.         *)
FifoSpec == Fifo!Spec

(* A thread in pop() that is up and will look at the queue.                *)
Popping(t) ==
  /\ op[t] = "pop"
  /\ \/ pc[t] \in {"lock", "test", "copy", "advance"}
     \/ pc[t] = "asleep" /\ t \notin waiting

(* No wakeup is lost: while a thread sleeps in pop(), every packet in the  *)
(* queue has a popper on its way to it or a pusher about to signal.  One   *)
(* pthread_cond_signal per push is enough for any number of poppers.       *)
NoLostWakeup ==
  waiting # {} =>
    Count <= Cardinality({t \in Threads : Popping(t)})
               + Cardinality({t \in Threads : pc[t] = "signal"})

OnlyPops == \A t \in Threads : op[t] \in {"none", "pop"}

(* If from some point on nothing but pop() is called, then from some point *)
(* on no thread stays in pop() while the queue holds a packet: the backlog *)
(* is drained or nobody asks for it.  (The mutex is not fair, so a thread  *)
(* that keeps peeking could hold the poppers up for ever.)                 *)
Drained ==
  <>[]OnlyPops => <>[](Count = 0 \/ \A t \in Threads : op[t] # "pop")
=============================================================================
