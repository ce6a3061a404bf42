------------------------- MODULE PacketQueueProofs -------------------------
(***************************************************************************)
(* Proofs about PacketQueue, for any number of threads, any ring size and  *)
(* any packets: its invariants, and that it implements BoundedFifo.        *)
(***************************************************************************)
EXTENDS PacketQueue, FiniteSetTheorems, TLAPS

(* The mutex is held by the one thread that is inside a critical section.  *)
MutexHeld == \A t \in Threads : pc[t] \in Critical <=> cond_mutex = t

(* The step a thread is at belongs to the function it is in.               *)
StepOfCall ==
  /\ \A t \in Threads :
       /\ pc[t] # "idle" => op[t] # "none"
       /\ op[t] = "push" => arg[t] \in Packets
       /\ pc[t] \in {"publish", "signal"} => op[t] = "push"
       /\ pc[t] \in {"wait", "asleep"} => op[t] = "pop"
       /\ pc[t] = "copy" => op[t] \in {"push", "pop", "front", "back"}
       /\ pc[t] = "advance" => op[t] \in {"pop", "remove_front"}
  /\ \A t \in waiting : pc[t] = "asleep"

(* The inductive invariant.  RingWindow alone is not inductive: a push or  *)
(* a pop keeps it only if the slot tested earlier is still free or still   *)
(* occupied, which needs TestsStayTrue, which in turn needs MutexHeld.     *)
QueueInv == TypeOK /\ MutexHeld /\ StepOfCall /\ TestsStayTrue /\ RingWindow
-----------------------------------------------------------------------------
(* The ring has at least one slot.                                         *)
LEMMA QSizeNat == Q_SIZE \in Nat /\ Q_SIZE >= 1
  BY QueueAssumption

(* A free mutex has no holder.                                             *)
LEMMA NoThreadIsNoThread == NoThread \notin Threads
  BY QueueAssumption

(* A slot's capacity is a number of bytes.                                 *)
LEMMA MaxSizeNat == MAX_PKG_SIZE \in Nat
  BY QueueAssumption

(* The bytes of a packet differ from an unwritten buffer.                  *)
LEMMA NoDataIsNoData == NoData \notin Data
  BY QueueAssumption

(* The wrap-around successor of a slot is a slot.                          *)
LEMMA NextIsSlot == ASSUME NEW k \in Slots PROVE next(k) \in Slots
  BY QSizeNat DEF next, Slots

(* The predecessor that back() computes is a slot.                         *)
LEMMA LastIsSlot == ASSUME NEW k \in Slots PROVE last(k) \in Slots
  BY QSizeNat DEF last, Slots

(* A status is a result: -1 and 0 from every function, a size from push.   *)
LEMMA StatusIsResult ==
  ASSUME NEW n \in {-1, 0} \cup PacketSizes
  PROVE  Status(n) \in Results
  BY DEF Status, Results

(* The state init() leaves satisfies the invariant.                        *)
LEMMA InitInv == Init => QueueInv
  <1> SUFFICES ASSUME Init PROVE QueueInv
    OBVIOUS
  <1> USE DEF Init
  <1>1. TypeOK
    <2>1. Status(0) \in Results
      BY StatusIsResult
    <2>2. 0 \in Slots /\ 0 \in 0..MAX_PKG_SIZE
      BY QSizeNat, QueueAssumption DEF Slots
    <2> QED
      BY <2>1, <2>2 DEF TypeOK, Steps
  <1>2. MutexHeld
    BY QueueAssumption DEF MutexHeld, Critical
  <1>3. StepOfCall
    BY DEF StepOfCall
  <1>4. TestsStayTrue
    BY DEF TestsStayTrue
  <1>5. RingWindow
    <2>1. 0 \in Slots /\ sizes[0] = 0
      BY QSizeNat DEF Slots
    <2>2. Count = 0
      BY <2>1 DEF Count
    <2>3. \A k \in Slots : sizes[k] = 0 /\ ~(Offset(k) < 0)
      BY DEF Slots, Offset
    <2> QED
      BY <2>2, <2>3, QSizeNat DEF RingWindow, SlotAt
  <1> QED
    BY <1>1, <1>2, <1>3, <1>4, <1>5 DEF QueueInv
-----------------------------------------------------------------------------
(* Each conjunct of the invariant is kept by every step, one action at a   *)
(* time: the five of them together are QueueInv's induction step.          *)

(* The variables keep their types; sizes stay within the slot.             *)
LEMMA TypeStep ==
  ASSUME TypeOK, StepOfCall, [Next]_vars
  PROVE  TypeOK'
  <1> USE DEF TypeOK, Steps, Goto, ring, lock
  <1>1. CASE UNCHANGED vars
    BY <1>1 DEF vars
  <1>2. ASSUME NEW t \in Threads, Call(t) \/ Step(t) \/ SpuriousWakeup(t)
        PROVE  TypeOK'
    <2>1. ASSUME NEW n \in Sizes, PushRefuse(t, n) PROVE TypeOK'
      BY <2>1, StatusIsResult DEF PushRefuse, Returns
    <2>2. ASSUME NEW n \in Sizes, NEW d \in Data, PushCall(t, d, n) PROVE TypeOK'
      BY <2>2 DEF PushCall, Packets
    <2>3. ASSUME NEW f \in Calls[t], ReadCall(t, f) PROVE TypeOK'
      BY <2>3 DEF ReadCall
    <2>4. CASE send_signal_queue(t)
      BY <2>4 DEF send_signal_queue, CondSignal
    <2>5. CASE Lock(t)
      BY <2>5 DEF Lock
    <2>6. CASE Unlock(t)
      BY <2>6 DEF Unlock, Leave, Status
    <2>7. CASE CondWait(t)
      BY <2>7 DEF CondWait
    <2>8. CASE CondWaitFails(t)
      BY <2>8, StatusIsResult DEF CondWaitFails, Returns
    <2>9. CASE Wake(t)
      BY <2>9 DEF Wake
    <2>10. CASE SpuriousWakeup(t)
      BY <2>10 DEF SpuriousWakeup
    <2>11. CASE PushTest(t)
      BY <2>11, StatusIsResult DEF PushTest, Returns
    <2>12. CASE PushCopy(t)
      BY <2>12 DEF PushCopy, StepOfCall, Packets
    <2>13. CASE PushPublish(t)
      BY <2>13, NextIsSlot, StatusIsResult
         DEF PushPublish, Returns, StepOfCall, Packets, PacketSizes
    <2>14. CASE PushSignal(t)
      BY <2>14 DEF PushSignal, CondSignal
    <2>15. CASE PopTest(t)
      BY <2>15 DEF PopTest
    <2>16. CASE RemoveTest(t)
      BY <2>16 DEF RemoveTest
    <2>17. CASE PeekTest(t)
      BY <2>17, StatusIsResult DEF PeekTest, Returns
    <2>18. CASE PopCopy(t)
      BY <2>18 DEF PopCopy
    <2>19. CASE PeekCopy(t)
      BY <2>19, LastIsSlot DEF PeekCopy, Returns, Results, PacketSizes
    <2>20. CASE Advance(t)
      <3>1. sizes[front] \in {-1, 0} \cup PacketSizes
        BY MaxSizeNat DEF PacketSizes
      <3>2. ret' \in [thread : Threads \cup {NoThread}, result : Results]
        BY <2>20, <3>1 DEF Advance, Returns, Results
      <3>3. sizes' \in [Slots -> 0..MAX_PKG_SIZE]
        BY <2>20, MaxSizeNat DEF Advance
      <3> QED
        BY <2>20, <3>2, <3>3, NextIsSlot DEF Advance
    <2> QED
      BY <1>2, <2>1, <2>2, <2>3, <2>4, <2>5, <2>6, <2>7, <2>8,
         <2>9, <2>10, <2>11, <2>12, <2>13, <2>14, <2>15, <2>16,
         <2>17, <2>18, <2>19, <2>20 DEF Call, Step
  <1> QED
    BY <1>1, <1>2 DEF Next

(* Whoever enters a critical section finds the mutex free, and whoever     *)
(* leaves one, pthread_cond_wait included, gives the mutex back.           *)
LEMMA MutexStep ==
  ASSUME TypeOK, MutexHeld, [Next]_vars
  PROVE  MutexHeld'
  <1> USE DEF TypeOK, MutexHeld, Critical, Goto, ring, lock
  <1>1. CASE UNCHANGED vars
    BY <1>1 DEF vars
  <1>2. ASSUME NEW t \in Threads, Call(t) \/ Step(t) \/ SpuriousWakeup(t)
        PROVE  MutexHeld'
    <2>1. ASSUME NEW n \in Sizes, PushRefuse(t, n) PROVE MutexHeld'
      BY <2>1, NoThreadIsNoThread DEF PushRefuse, Returns
    <2>2. ASSUME NEW n \in Sizes, NEW d \in Data, PushCall(t, d, n) PROVE MutexHeld'
      BY <2>2, NoThreadIsNoThread DEF PushCall
    <2>3. ASSUME NEW f \in Calls[t], ReadCall(t, f) PROVE MutexHeld'
      BY <2>3, NoThreadIsNoThread DEF ReadCall
    <2>4. CASE send_signal_queue(t)
      BY <2>4, NoThreadIsNoThread DEF send_signal_queue, CondSignal
    <2>5. CASE Lock(t)
      BY <2>5, NoThreadIsNoThread DEF Lock
    <2>6. CASE Unlock(t)
      BY <2>6, NoThreadIsNoThread DEF Unlock, Leave
    <2>7. CASE CondWait(t)
      BY <2>7, NoThreadIsNoThread DEF CondWait
    <2>8. CASE CondWaitFails(t)
      BY <2>8, NoThreadIsNoThread DEF CondWaitFails, Returns
    <2>9. CASE Wake(t)
      BY <2>9, NoThreadIsNoThread DEF Wake
    <2>10. CASE SpuriousWakeup(t)
      BY <2>10, NoThreadIsNoThread DEF SpuriousWakeup
    <2>11. CASE PushTest(t)
      BY <2>11, NoThreadIsNoThread DEF PushTest, Returns
    <2>12. CASE PushCopy(t)
      BY <2>12, NoThreadIsNoThread DEF PushCopy
    <2>13. CASE PushPublish(t)
      BY <2>13, NoThreadIsNoThread DEF PushPublish, Returns
    <2>14. CASE PushSignal(t)
      BY <2>14, NoThreadIsNoThread DEF PushSignal, CondSignal
    <2>15. CASE PopTest(t)
      BY <2>15, NoThreadIsNoThread DEF PopTest
    <2>16. CASE RemoveTest(t)
      BY <2>16, NoThreadIsNoThread DEF RemoveTest
    <2>17. CASE PeekTest(t)
      BY <2>17, NoThreadIsNoThread DEF PeekTest, Returns
    <2>18. CASE PopCopy(t)
      BY <2>18, NoThreadIsNoThread DEF PopCopy
    <2>19. CASE PeekCopy(t)
      BY <2>19, NoThreadIsNoThread DEF PeekCopy, Returns
    <2>20. CASE Advance(t)
      BY <2>20, NoThreadIsNoThread DEF Advance, Returns
    <2> QED
      BY <1>2, <2>1, <2>2, <2>3, <2>4, <2>5, <2>6, <2>7, <2>8,
         <2>9, <2>10, <2>11, <2>12, <2>13, <2>14, <2>15, <2>16,
         <2>17, <2>18, <2>19, <2>20 DEF Call, Step
  <1> QED
    BY <1>1, <1>2 DEF Next

(* A thread stays inside the code of the function it called.               *)
LEMMA StepOfCallStep ==
  ASSUME TypeOK, StepOfCall, [Next]_vars
  PROVE  StepOfCall'
  <1> USE DEF TypeOK, StepOfCall, Goto, ring, lock
  <1>1. CASE UNCHANGED vars
    BY <1>1 DEF vars
  <1>2. ASSUME NEW t \in Threads, Call(t) \/ Step(t) \/ SpuriousWakeup(t)
        PROVE  StepOfCall'
    <2>1. ASSUME NEW n \in Sizes, PushRefuse(t, n) PROVE StepOfCall'
      BY <2>1 DEF PushRefuse, Returns
    <2>2. ASSUME NEW n \in Sizes, NEW d \in Data, PushCall(t, d, n) PROVE StepOfCall'
      BY <2>2 DEF PushCall, Packets
    <2>3. ASSUME NEW f \in Calls[t], ReadCall(t, f) PROVE StepOfCall'
      BY <2>3 DEF ReadCall
    <2>4. CASE send_signal_queue(t)
      BY <2>4 DEF send_signal_queue, CondSignal
    <2>5. CASE Lock(t)
      BY <2>5 DEF Lock
    <2>6. CASE Unlock(t)
      BY <2>6 DEF Unlock, Leave
    <2>7. CASE CondWait(t)
      BY <2>7 DEF CondWait
    <2>8. CASE CondWaitFails(t)
      BY <2>8 DEF CondWaitFails, Returns
    <2>9. CASE Wake(t)
      BY <2>9 DEF Wake
    <2>10. CASE SpuriousWakeup(t)
      BY <2>10 DEF SpuriousWakeup
    <2>11. CASE PushTest(t)
      BY <2>11 DEF PushTest, Returns
    <2>12. CASE PushCopy(t)
      BY <2>12 DEF PushCopy
    <2>13. CASE PushPublish(t)
      BY <2>13 DEF PushPublish, Returns
    <2>14. CASE PushSignal(t)
      BY <2>14 DEF PushSignal, CondSignal
    <2>15. CASE PopTest(t)
      BY <2>15 DEF PopTest
    <2>16. CASE RemoveTest(t)
      BY <2>16 DEF RemoveTest
    <2>17. CASE PeekTest(t)
      BY <2>17 DEF PeekTest, Returns
    <2>18. CASE PopCopy(t)
      BY <2>18 DEF PopCopy
    <2>19. CASE PeekCopy(t)
      BY <2>19 DEF PeekCopy, Returns
    <2>20. CASE Advance(t)
      BY <2>20 DEF Advance, Returns
    <2> QED
      BY <1>2, <2>1, <2>2, <2>3, <2>4, <2>5, <2>6, <2>7, <2>8,
         <2>9, <2>10, <2>11, <2>12, <2>13, <2>14, <2>15, <2>16,
         <2>17, <2>18, <2>19, <2>20 DEF Call, Step
  <1> QED
    BY <1>1, <1>2 DEF Next

(* A test made under the mutex stays true while the mutex is held: every   *)
(* other thread is outside its critical section and cannot touch the ring. *)
LEMMA TestsStep ==
  ASSUME TypeOK, MutexHeld, StepOfCall, TestsStayTrue, [Next]_vars
  PROVE  TestsStayTrue'
  <1> USE DEF TestsStayTrue, is_full, is_empty, Goto, ring, lock
  <1> USE DEF TypeOK, MutexHeld, Critical
  <1>1. CASE UNCHANGED vars
    BY <1>1 DEF vars
  <1>2. ASSUME NEW t \in Threads, Call(t) \/ Step(t) \/ SpuriousWakeup(t)
        PROVE  TestsStayTrue'
    <2>1. ASSUME NEW n \in Sizes, PushRefuse(t, n) PROVE TestsStayTrue'
      BY <2>1 DEF PushRefuse, Returns
    <2>2. ASSUME NEW n \in Sizes, NEW d \in Data, PushCall(t, d, n) PROVE TestsStayTrue'
      BY <2>2 DEF PushCall
    <2>3. ASSUME NEW f \in Calls[t], ReadCall(t, f) PROVE TestsStayTrue'
      BY <2>3 DEF ReadCall
    <2>4. CASE send_signal_queue(t)
      BY <2>4 DEF send_signal_queue, CondSignal
    <2>5. CASE Lock(t)
      BY <2>5 DEF Lock
    <2>6. CASE Unlock(t)
      BY <2>6 DEF Unlock, Leave
    <2>7. CASE CondWait(t)
      BY <2>7 DEF CondWait
    <2>8. CASE CondWaitFails(t)
      BY <2>8 DEF CondWaitFails, Returns
    <2>9. CASE Wake(t)
      BY <2>9 DEF Wake
    <2>10. CASE SpuriousWakeup(t)
      BY <2>10 DEF SpuriousWakeup
    <2>11. CASE PushTest(t)
      BY <2>11 DEF PushTest, Returns
    <2>12. CASE PushCopy(t)
      BY <2>12 DEF PushCopy
    <2>13. CASE PushPublish(t)
      BY <2>13 DEF PushPublish, Returns
    <2>14. CASE PushSignal(t)
      BY <2>14 DEF PushSignal, CondSignal
    <2>15. CASE PopTest(t)
      BY <2>15 DEF PopTest
    <2>16. CASE RemoveTest(t)
      BY <2>16 DEF RemoveTest
    <2>17. CASE PeekTest(t)
      BY <2>17 DEF PeekTest, Returns
    <2>18. CASE PopCopy(t)
      BY <2>18 DEF PopCopy
    <2>19. CASE PeekCopy(t)
      BY <2>19 DEF PeekCopy, Returns
    <2>20. CASE Advance(t)
      BY <2>20 DEF Advance, Returns
    <2> QED
      BY <1>2, <2>1, <2>2, <2>3, <2>4, <2>5, <2>6, <2>7, <2>8,
         <2>9, <2>10, <2>11, <2>12, <2>13, <2>14, <2>15, <2>16,
         <2>17, <2>18, <2>19, <2>20 DEF Call, Step
  <1> QED
    BY <1>1, <1>2 DEF Next

(* push() fills the free slot at rear, which extends the window by one.    *)
LEMMA WindowPublish ==
  ASSUME TypeOK, StepOfCall, TestsStayTrue, RingWindow,
         NEW t \in Threads, PushPublish(t)
  PROVE  RingWindow' /\ Count' = Count + 1
  <1> DEFINE n == arg[t].size
  <1>1. /\ n \in 1..MAX_PKG_SIZE /\ n # 0 
        /\ arg[t].data \in Data
    BY MaxSizeNat DEF StepOfCall, PushPublish, TypeOK, Packets, PacketSizes
  <1>2. /\ sizes' = [sizes EXCEPT ![rear] = n]
        /\ rear' = next(rear) /\ front' = front /\ queue' = queue
        /\ sizes[rear] = 0 /\ queue[rear] # NoData
    BY <1>1, NoDataIsNoData DEF PushPublish, TestsStayTrue, is_full
  <1>3. /\ sizes \in [Slots -> 0..MAX_PKG_SIZE] /\ front \in 0..(Q_SIZE - 1) /\ rear \in 0..(Q_SIZE - 1)
    BY DEF TypeOK, Slots
  <1> HIDE DEF n
  <1>4. sizes'[rear] = n /\ \A k \in Slots \ {rear} : sizes'[k] = sizes[k]
    BY <1>2, <1>3 DEF Slots
  <1>5. Count \in 0..(Q_SIZE-1) /\ Count = Offset(rear)
    BY <1>2, <1>3, QSizeNat DEF RingWindow, Count, Offset, SlotAt, Slots
  <1>6. Count' = Count + 1
    BY <1>1, <1>2, <1>3, <1>4, <1>5, QSizeNat
       DEF RingWindow, Count, SlotAt, Offset, next, Slots
  <1>7. rear' = SlotAt(Count)'
    BY <1>2, <1>3, <1>5, <1>6, QSizeNat
       DEF RingWindow, SlotAt, Offset, next, Slots
  <1>8. ASSUME NEW k \in Slots
        PROVE  /\ sizes'[k] # 0 <=> Offset(k)' < Count'
               /\ sizes'[k] # 0 => queue'[k] # NoData
    <2>1. Offset(k)' = Offset(k) /\ Offset(k) \in Nat
      BY <1>2, <1>3, QSizeNat DEF Offset, Slots
    <2>2. CASE k = rear
      BY <1>1, <1>2, <1>4, <1>5, <1>6, <2>1, <2>2
    <2>3. CASE k # rear
      <3>1. Offset(k) # Count
        BY <1>3, <1>5, <2>3, QSizeNat DEF Offset, Slots
      <3>2. sizes'[k] = sizes[k]
        BY <1>4, <2>3
      <3> QED
        BY <1>2, <1>5, <1>6, <2>1, <3>1, <3>2 DEF RingWindow
    <2> QED
      BY <2>2, <2>3
  <1> QED
    BY <1>6, <1>7, <1>8 DEF RingWindow, Slots

(* pop() and remove_front() free the slot at front, which shortens the     *)
(* window by one, also when it spans the whole ring (front = rear).        *)
LEMMA WindowAdvance ==
  ASSUME TypeOK, TestsStayTrue, RingWindow,
         NEW t \in Threads, Advance(t)
  PROVE  RingWindow' /\ Count' = Count - 1
  <1>2. /\ sizes' = [sizes EXCEPT ![front] = 0]
        /\ front' = next(front) /\ rear' = rear /\ queue' = queue
        /\ sizes[front] # 0 
    BY DEF Advance, TestsStayTrue, is_empty
  <1>3. /\ sizes \in [Slots -> 0..MAX_PKG_SIZE] /\ front \in 0..(Q_SIZE - 1) /\ rear \in 0..(Q_SIZE - 1)
    BY DEF TypeOK, Slots
  <1>4. sizes'[front] = 0 /\ \A k \in Slots \ {front} : sizes'[k] = sizes[k]
    BY <1>2, <1>3 DEF Slots
  <1>5. Count \in 1..Q_SIZE /\ (rear = front => Count = Q_SIZE)
    BY <1>2, <1>3, QSizeNat DEF RingWindow, Count, Slots
  <1>5a. front' \in Slots
    BY <1>2, <1>3, NextIsSlot DEF Slots
  <1>5b. sizes'[front'] # 0 <=> Count > 1
    BY <1>2, <1>3, <1>4, <1>5, <1>5a, QSizeNat
       DEF RingWindow, Offset, next, Slots
  <1>6. Count' = Count - 1
    BY <1>2, <1>3, <1>5, <1>5b, QSizeNat DEF Count, next
  <1>7. rear' = SlotAt(Count)'
    BY <1>2, <1>3, <1>5, <1>6, QSizeNat DEF RingWindow, SlotAt, next, Slots
  <1>8. ASSUME NEW k \in Slots 
        PROVE  /\ sizes'[k] # 0 <=> Offset(k)' < Count'
               /\ sizes'[k] # 0 => queue'[k] # NoData
    BY <1>2, <1>3, <1>4, <1>5, <1>6, QSizeNat
       DEF RingWindow, Offset, next, Slots
  <1> QED
    BY <1>6, <1>7, <1>8 DEF RingWindow, Slots

(* The copy in push() writes a slot outside the window, and every other    *)
(* step leaves the ring alone.                                             *)
LEMMA WindowStep ==
  ASSUME TypeOK, StepOfCall, TestsStayTrue, RingWindow, [Next]_vars
  PROVE  RingWindow'
  <1>1. CASE UNCHANGED ring
    BY <1>1 DEF ring, RingWindow, SlotAt, Count, Offset
  <1>2. ASSUME NEW t \in Threads, PushCopy(t)
        PROVE  RingWindow'
    <2>1. /\ sizes[rear] = 0
          /\ queue' = [queue EXCEPT ![rear] = arg[t].data]
          /\ UNCHANGED <<sizes, front, rear>>
      BY <1>2 DEF PushCopy, TestsStayTrue, is_full
    <2>2. Count' = Count /\ \A k \in Slots : Offset(k)' = Offset(k)
      BY <2>1 DEF Count, Offset
    <2>3. SlotAt(Count)' = SlotAt(Count)
      BY <2>1, <2>2 DEF SlotAt
    <2>4. \A k \in Slots : sizes[k] # 0 => queue'[k] = queue[k]
      BY <2>1 DEF TypeOK
    <2> QED
      BY <2>1, <2>2, <2>3, <2>4 DEF RingWindow, Slots
  <1>3. ASSUME NEW t \in Threads, Call(t) \/ SpuriousWakeup(t)
        PROVE  UNCHANGED ring
    BY <1>3 DEF Call, SpuriousWakeup, PushRefuse, PushCall, ReadCall,
         send_signal_queue, ring
  <1>4. ASSUME NEW t \in Threads, Step(t)
        PROVE  UNCHANGED ring \/ PushCopy(t) \/ PushPublish(t) \/ Advance(t)
    BY <1>4 DEF Step, Lock, Unlock, CondWait, CondWaitFails, Wake, PushTest,
         PushSignal, PopTest, RemoveTest, PeekTest, PopCopy, PeekCopy, ring
  <1>5. CASE UNCHANGED vars
    BY <1>5, <1>1 DEF vars, ring
  <1> QED
    BY <1>1, <1>2, <1>3, <1>4, <1>5, WindowPublish, WindowAdvance DEF Next

(* QueueInv holds in every reachable state of the queue, whatever the      *)
(* number of threads, the ring size and the packets.                       *)
THEOREM QueueInvariant == Spec => []QueueInv
  <1>1. QueueInv /\ [Next]_vars => QueueInv'
    BY TypeStep, MutexStep, StepOfCallStep, TestsStep, WindowStep DEF QueueInv
  <1> QED
    BY InitInv, <1>1, PTL DEF Spec

(* Type correctness.                                                       *)
THEOREM TypeCorrect == Spec => []TypeOK
  <1>1. QueueInv => TypeOK
    BY DEF QueueInv
  <1> QED
    BY QueueInvariant, <1>1, PTL

(* is_full and is_empty are right: the occupied slots are one contiguous   *)
(* window from front to rear, at any fill level.                           *)
THEOREM RingWindowHolds == Spec => []RingWindow
  <1>1. QueueInv => RingWindow
    BY DEF QueueInv
  <1> QED
    BY QueueInvariant, <1>1, PTL

(* No thread acts on a test another thread has invalidated: no packet is   *)
(* overwritten and no free slot is handed out.                             *)
THEOREM TestsStayTrueHolds == Spec => []TestsStayTrue
  <1>1. QueueInv => TestsStayTrue
    BY DEF QueueInv
  <1> QED
    BY QueueInvariant, <1>1, PTL
-----------------------------------------------------------------------------
(* No wakeup is lost.                                                      *)

Poppers == {t \in Threads : Popping(t)}
Signallers == {t \in Threads : pc[t] = "signal"}

(* A set of threads is finite.                                             *)
LEMMA ThreadsFinite ==
  ASSUME NEW A, A \subseteq Threads
  PROVE  IsFiniteSet(A) /\ Cardinality(A) \in Nat
  BY QueueAssumption, FS_Subset, FS_CardinalityType

(* The number of packets is a number.                                      *)
LEMMA CountNat ==
  ASSUME TypeOK
  PROVE  Count \in Nat
  BY QSizeNat DEF TypeOK, Count, Slots

(* A set that loses at most t becomes smaller by at most one.              *)
LEMMA LosesOne ==
  ASSUME NEW A, NEW B, NEW t, A \subseteq Threads, B \subseteq Threads,
         A \ {t} \subseteq B
  PROVE  Cardinality(B) >= Cardinality(A) - 1
  <1>1. Cardinality(A \ {t}) >= Cardinality(A) - 1
    <2>1. /\ IsFiniteSet(A) /\ Cardinality(A) \in Nat
          /\ Cardinality(A \ {t}) \in Nat
      BY ThreadsFinite
    <2>2. Cardinality(A \ {t}) = IF t \in A THEN Cardinality(A) - 1
                                 ELSE Cardinality(A)
      BY <2>1, FS_RemoveElement
    <2> QED
      BY <2>1, <2>2
  <1>2. Cardinality(A \ {t}) <= Cardinality(B)
    BY ThreadsFinite, FS_Subset
  <1> QED
    BY <1>1, <1>2, ThreadsFinite

(* A set that grows by a new element becomes larger by at least one.       *)
LEMMA GainsOne ==
  ASSUME NEW A, NEW B, NEW t, A \subseteq Threads, B \subseteq Threads,
         t \notin A, A \cup {t} \subseteq B
  PROVE  Cardinality(B) >= Cardinality(A) + 1
  <1>1. Cardinality(A \cup {t}) = Cardinality(A) + 1
    BY ThreadsFinite, FS_AddElement
  <1>2. Cardinality(A \cup {t}) <= Cardinality(B)
    BY ThreadsFinite, FS_Subset
  <1> QED
    BY <1>1, <1>2, ThreadsFinite

(* The two sides and the number of packets, before and after a step.       *)
LEMMA SidesNat ==
  ASSUME TypeOK, TypeOK'
  PROVE  /\ Cardinality(Poppers) \in Nat /\ Cardinality(Poppers') \in Nat
         /\ Cardinality(Signallers) \in Nat /\ Cardinality(Signallers') \in Nat
         /\ Count \in Nat /\ Count' \in Nat
  <1>1. /\ Poppers \subseteq Threads /\ Poppers' \subseteq Threads
        /\ Signallers \subseteq Threads /\ Signallers' \subseteq Threads
    BY DEF Poppers, Signallers
  <1>2. Count' \in Nat
    <2>1. \A f, r \in Slots :
            (IF r > f THEN r - f ELSE Q_SIZE - f + r) \in Nat
      BY QSizeNat DEF Slots
    <2>2. front' \in Slots /\ rear' \in Slots
      BY DEF TypeOK
    <2> QED
      BY <2>1, <2>2 DEF Count
  <1> QED
    BY <1>1, <1>2, CountNat, ThreadsFinite

(* If neither side loses a thread, there is nothing to lose.               *)
LEMMA NobodyLeaves ==
  ASSUME NoLostWakeup, TypeOK, TypeOK', Count' <= Count,
         Poppers \subseteq Poppers', Signallers \subseteq Signallers',
         waiting' \subseteq waiting
  PROVE  NoLostWakeup'
  <1>1. /\ Cardinality(Poppers) <= Cardinality(Poppers')
        /\ Cardinality(Signallers) <= Cardinality(Signallers')
    BY ThreadsFinite, FS_Subset DEF Poppers, Signallers
  <1> QED
    BY <1>1, SidesNat DEF NoLostWakeup, Poppers, Signallers

(* A packet comes with its signal.                                         *)
LEMMA PublishKeepsUp ==
  ASSUME QueueInv, QueueInv', NoLostWakeup, NEW t \in Threads, PushPublish(t)
  PROVE  NoLostWakeup'
  <1>1. Count' = Count + 1
    BY WindowPublish DEF QueueInv
  <1>2. /\ pc[t] = "publish" /\ pc' = [pc EXCEPT ![t] = "signal"]
        /\ op' = op /\ waiting' = waiting
        /\ pc \in [Threads -> Steps] /\ op[t] = "push"
    BY DEF PushPublish, Goto, lock, QueueInv, TypeOK, StepOfCall
  <1>3. Poppers' = Poppers
    BY <1>2 DEF Poppers, Popping
  <1>4. t \notin Signallers /\ Signallers \cup {t} \subseteq Signallers'
    BY <1>2 DEF Signallers
  <1>5. Cardinality(Signallers') >= Cardinality(Signallers) + 1
    <2>1. Signallers \subseteq Threads /\ Signallers' \subseteq Threads
      BY DEF Signallers
    <2> QED
      BY <1>4, <2>1, GainsOne
  <1> QED
    BY <1>1, <1>2, <1>3, <1>5, SidesNat
       DEF QueueInv, NoLostWakeup, Poppers, Signallers

(* A popper leaves with its packet.                                        *)
LEMMA AdvanceKeepsUp ==
  ASSUME QueueInv, QueueInv', NoLostWakeup, NEW t \in Threads, Advance(t)
  PROVE  NoLostWakeup'
  <1>1. Count' = Count - 1
    BY WindowAdvance DEF QueueInv
  <1>2. /\ pc[t] = "advance" /\ pc' = [pc EXCEPT ![t] = "unlock"]
        /\ op' = op /\ waiting' = waiting /\ pc \in [Threads -> Steps]
    BY DEF Advance, Goto, lock, QueueInv, TypeOK
  <1>3. Poppers \ {t} \subseteq Poppers' /\ Signallers' = Signallers
    BY <1>2 DEF Poppers, Popping, Signallers
  <1>4. Cardinality(Poppers') >= Cardinality(Poppers) - 1
    <2>1. Poppers \subseteq Threads /\ Poppers' \subseteq Threads
      BY DEF Poppers
    <2> QED
      BY <1>3, <2>1, LosesOne
  <1>5. waiting' # {} => Count <= Cardinality(Poppers) + Cardinality(Signallers)
    BY <1>2 DEF NoLostWakeup, Poppers, Signallers
  <1>6. waiting' # {} => Count' <= Cardinality(Poppers') + Cardinality(Signallers')
    BY <1>1, <1>3, <1>4, <1>5, SidesNat DEF QueueInv
  <1> QED
    BY <1>6 DEF NoLostWakeup, Poppers, Signallers

(* A signal turns a sleeper, if there is one, into a popper.               *)
LEMMA SignalKeepsUp ==
  ASSUME QueueInv, QueueInv', NoLostWakeup, NEW t \in Threads, PushSignal(t)
  PROVE  NoLostWakeup'
  <1>1. /\ pc[t] = "signal" /\ pc' = [pc EXCEPT ![t] = "unlock"]
        /\ op' = op /\ pc \in [Threads -> Steps] /\ Count' = Count
        /\ op[t] = "push"
        /\ waiting \subseteq Threads /\ waiting' \subseteq waiting
        /\ \A w \in waiting : pc[w] = "asleep" /\ op[w] = "pop"
    BY DEF PushSignal, CondSignal, Goto, ring, Count, QueueInv, TypeOK, StepOfCall
  <1>2. Poppers \subseteq Poppers' /\ Signallers \ {t} \subseteq Signallers'
    BY <1>1 DEF Poppers, Popping, Signallers
  <1>3. CASE waiting = {}
    BY <1>1, <1>3 DEF NoLostWakeup
  <1>4. CASE waiting # {}
    <2>1. PICK w \in waiting : waiting' = waiting \ {w}
      BY <1>4 DEF PushSignal, CondSignal
    <2>2. w \notin Poppers /\ Poppers \cup {w} \subseteq Poppers'
      BY <1>1, <1>2, <2>1 DEF Poppers, Popping
    <2>3. /\ Poppers \subseteq Threads /\ Poppers' \subseteq Threads
          /\ Signallers \subseteq Threads /\ Signallers' \subseteq Threads
      BY DEF Poppers, Signallers
    <2>4. Cardinality(Poppers') >= Cardinality(Poppers) + 1
      BY <2>2, <2>3, GainsOne
    <2>5. Cardinality(Signallers') >= Cardinality(Signallers) - 1
      BY <1>2, <2>3, LosesOne
    <2> QED
      BY <1>1, <1>4, <2>4, <2>5, SidesNat
         DEF QueueInv, NoLostWakeup, Poppers, Signallers
  <1> QED
    BY <1>3, <1>4

(* An empty queue needs nobody.                                            *)
LEMMA EmptyKeepsUp ==
  ASSUME QueueInv, QueueInv', is_empty, UNCHANGED ring
  PROVE  NoLostWakeup'
  <1>1. Count' = 0
    BY DEF is_empty, ring, Count
  <1> QED
    BY <1>1, SidesNat DEF QueueInv, NoLostWakeup, Poppers, Signallers

(* Every other step leaves both sides as they are, or adds to them.        *)
LEMMA OthersKeepUp ==
  ASSUME QueueInv, QueueInv', NoLostWakeup, NEW t \in Threads,
         \/ Call(t) \/ SpuriousWakeup(t)
         \/ Lock(t) \/ Unlock(t) \/ Wake(t) \/ PushTest(t) \/ PushCopy(t)
         \/ RemoveTest(t) \/ PeekTest(t) \/ PopCopy(t) \/ PeekCopy(t)
  PROVE  NoLostWakeup'
  <1> USE DEF Goto, Returns, ring, lock
  <1>0. /\ pc \in [Threads -> Steps]
        /\ op \in [Threads -> {"none", "push", "pop", "remove_front",
                              "front", "back"}]
        /\ waiting \subseteq Threads /\ TypeOK /\ TypeOK'
    BY DEF QueueInv, TypeOK
  <1>1. Count' = Count
    BY DEF Call, SpuriousWakeup, PushRefuse, PushCall, ReadCall,
       send_signal_queue, Lock, Unlock, Wake, PushTest, PushCopy, RemoveTest,
       PeekTest, PopCopy, PeekCopy, Count
  <1>2. waiting' \subseteq waiting
    BY DEF Call, SpuriousWakeup, PushRefuse, PushCall, ReadCall, CondSignal,
       send_signal_queue, Lock, Unlock, Wake, PushTest, PushCopy, RemoveTest,
       PeekTest, PopCopy, PeekCopy
  <1>3. /\ pc[t] # "signal"
        /\ \A u \in Threads : u # t => pc'[u] = pc[u] /\ op'[u] = op[u]
    <2>1. CASE Call(t) \/ SpuriousWakeup(t)
      BY <1>0, <2>1 DEF Call, SpuriousWakeup, PushRefuse, PushCall, ReadCall,
         send_signal_queue, QueueInv, StepOfCall
    <2>2. CASE Lock(t) \/ Unlock(t) \/ Wake(t) \/ PushTest(t) \/ PushCopy(t)
      BY <1>0, <2>2 DEF Lock, Unlock, Leave, Wake, PushTest, PushCopy
    <2>3. CASE RemoveTest(t) \/ PeekTest(t) \/ PopCopy(t) \/ PeekCopy(t)
      BY <1>0, <2>3 DEF RemoveTest, PeekTest, PopCopy, PeekCopy
    <2> QED
      BY <2>1, <2>2, <2>3
  <1>4. Popping(t) => Popping(t)'
    <2>1. CASE Call(t) \/ SpuriousWakeup(t)
      BY <1>0, <2>1 DEF Call, SpuriousWakeup, PushRefuse, PushCall, ReadCall,
         send_signal_queue, QueueInv, StepOfCall, Popping
    <2>2. CASE Lock(t) \/ Unlock(t) \/ Wake(t) \/ PushTest(t) \/ PushCopy(t)
      BY <1>0, <2>2 DEF Lock, Unlock, Leave, Wake, PushTest, PushCopy, Popping
    <2>3. CASE RemoveTest(t) \/ PeekTest(t) \/ PopCopy(t) \/ PeekCopy(t)
      BY <1>0, <2>3 DEF RemoveTest, PeekTest, PopCopy, PeekCopy, Popping
    <2> QED
      BY <2>1, <2>2, <2>3
  <1>5. Poppers \subseteq Poppers' /\ Signallers \subseteq Signallers'
    BY <1>2, <1>3, <1>4 DEF Poppers, Popping, Signallers
  <1>6. Count \in Nat
    BY <1>0, CountNat
  <1> QED
    BY <1>0, <1>1, <1>2, <1>5, <1>6, NobodyLeaves

(* NoLostWakeup: one pthread_cond_signal per push is enough, however many  *)
(* threads push and pop.                                                   *)
THEOREM NoLostWakeupHolds == Spec => []NoLostWakeup
  <1>1. Init => NoLostWakeup
    BY DEF Init, NoLostWakeup
  <1>2. QueueInv /\ QueueInv' /\ NoLostWakeup /\ [Next]_vars => NoLostWakeup'
    <2> SUFFICES ASSUME QueueInv, QueueInv', NoLostWakeup, [Next]_vars
                 PROVE  NoLostWakeup'
      OBVIOUS
    <2>1. CASE UNCHANGED vars
      BY <2>1 DEF vars, NoLostWakeup, Popping, Count
    <2>2. ASSUME NEW t \in Threads, Call(t) \/ Step(t) \/ SpuriousWakeup(t)
          PROVE  NoLostWakeup'
      <3>1. CASE CondWait(t)
        <4>1. is_empty /\ UNCHANGED ring
          BY <3>1 DEF CondWait, QueueInv, TestsStayTrue
        <4> QED
          BY <4>1, EmptyKeepsUp
      <3>2. CASE CondWaitFails(t)
        <4>1. is_empty /\ UNCHANGED ring
          BY <3>2 DEF CondWaitFails, QueueInv, TestsStayTrue
        <4> QED
          BY <4>1, EmptyKeepsUp
      <3>3. CASE PopTest(t)
        <4>1. CASE is_empty
          BY <3>3, <4>1, EmptyKeepsUp DEF PopTest
        <4>2. CASE ~is_empty
          <5>1. /\ pc[t] = "test" /\ pc' = [pc EXCEPT ![t] = "copy"]
                /\ UNCHANGED <<op, waiting>> /\ Count' = Count
                /\ pc \in [Threads -> Steps] /\ TypeOK /\ TypeOK'
            BY <3>3, <4>2 DEF PopTest, Goto, ring, lock, Count, QueueInv, TypeOK
          <5>2. Poppers \subseteq Poppers' /\ Signallers \subseteq Signallers'
            BY <5>1 DEF Poppers, Popping, Signallers
          <5> QED
            BY <5>1, <5>2, CountNat, NobodyLeaves
        <4> QED
          BY <4>1, <4>2
      <3> QED
        BY <2>2, <3>1, <3>2, <3>3, PublishKeepsUp, AdvanceKeepsUp,
           SignalKeepsUp, OthersKeepUp DEF Step
    <2> QED
      BY <2>1, <2>2 DEF Next
  <1> QED
    BY <1>1, <1>2, QueueInvariant, PTL DEF Spec
-----------------------------------------------------------------------------
(* PacketQueue implements BoundedFifo: every step of every call is a step  *)
(* of the abstract queue on Content, or leaves Content and the latest      *)
(* result as they are.                                                     *)

(* The packet in slot k.                                                   *)
PacketIn(k) == [data |-> queue[k], size |-> sizes[k]]

(* What the argument needs of the ring: the parts of QueueInv about it.    *)
RingInv ==
  /\ queue \in [Slots -> Data \cup {NoData}]
  /\ sizes \in [Slots -> 0..MAX_PKG_SIZE]
  /\ front \in Slots
  /\ rear \in Slots
  /\ RingWindow

(* The part of the invariant that is about the ring.                       *)
LEMMA RingInvHolds == QueueInv => RingInv
  BY DEF QueueInv, TypeOK, RingInv

(* The window has at most Q_SIZE slots, all of them in the array.          *)
LEMMA CountBounds ==
  ASSUME RingInv
  PROVE  /\ Count \in 0..Q_SIZE
         /\ is_empty <=> Count = 0
         /\ \A i \in 0..(Q_SIZE - 1) : SlotAt(i) \in Slots
  BY QSizeNat DEF RingInv, Count, Slots, SlotAt, is_empty

(* is_full() is true exactly when Q_SIZE packets are in the queue.         *)
LEMMA FullIsFull ==
  ASSUME RingInv
  PROVE  is_full <=> Count = Q_SIZE
  <1> USE DEF RingInv
  <1>1. Count \in 0..Q_SIZE
    BY CountBounds
  <1>2. sizes[rear] # 0 <=> Offset(rear) < Count
    BY DEF RingWindow
  <1>3. rear = SlotAt(Count)
    BY DEF RingWindow
  <1> QED
    BY <1>1, <1>2, <1>3, QSizeNat DEF SlotAt, Offset, Slots, is_full

(* Content is a sequence of Count packets.                                 *)
ContentShape ==
  /\ Content \in Seq([data : Data \cup {NoData}, size : 0..MAX_PKG_SIZE])
  /\ Len(Content) = Count
  /\ \A i \in 1..Count : Content[i] = PacketIn(SlotAt(i - 1))

(* The occupied window, read from front on, is a sequence of packets.      *)
LEMMA ContentIsSeq == RingInv => ContentShape
  <1> SUFFICES ASSUME RingInv PROVE ContentShape
    OBVIOUS
  <1>1. Count \in Nat /\ Count <= Q_SIZE
    BY CountBounds, QSizeNat
  <1>2. \A i \in 1..Count : SlotAt(i - 1) \in Slots
    BY <1>1, CountBounds, QSizeNat
  <1>3. \A i \in 1..Count : PacketIn(SlotAt(i - 1)) \in
              [data : Data \cup {NoData}, size : 0..MAX_PKG_SIZE]
    BY <1>2 DEF PacketIn, RingInv
  <1>4. Content = [i \in 1..Count |-> PacketIn(SlotAt(i - 1))]
    BY DEF Content, PacketIn
  <1> HIDE DEF Content
  <1> QED
    BY <1>1, <1>3, <1>4 DEF ContentShape

(* The oldest packet is the one in front's slot, the newest the one in the *)
(* slot before rear.                                                       *)
LEMMA ContentEnds ==
  ASSUME RingInv, ~is_empty
  PROVE  /\ Content # <<>>
         /\ Head(Content) = PacketIn(front)
         /\ Content[Len(Content)] = PacketIn(last(rear))
  <1>1. Count \in 1..Q_SIZE
    BY CountBounds, QSizeNat
  <1>2. SlotAt(0) = front
    BY QSizeNat DEF SlotAt, RingInv, Slots
  <1>3. SlotAt(Count - 1) = last(rear)
    BY <1>1, QSizeNat DEF SlotAt, last, RingInv, RingWindow, Slots
  <1> QED
    BY <1>1, <1>2, <1>3, ContentIsSeq DEF ContentShape

(* A sequence that agrees with Append(s, x) element by element is equal to *)
(* it.                                                                     *)
LEMMA IsAppend ==
  ASSUME NEW S, NEW s \in Seq(S), NEW r \in Seq(S), NEW x \in S,
         Len(r) = Len(s) + 1,
         \A i \in 1..Len(s) : r[i] = s[i],
         r[Len(s) + 1] = x
  PROVE  r = Append(s, x)
  OBVIOUS

(* The same for Tail.                                                      *)
LEMMA IsTail ==
  ASSUME NEW S, NEW s \in Seq(S), NEW r \in Seq(S), s # <<>>,
         Len(r) = Len(s) - 1,
         \A i \in 1..Len(r) : r[i] = s[i + 1]
  PROVE  r = Tail(s)
  OBVIOUS

(* PushPublish appends the packet whose bytes PushCopy put in the slot.    *)
LEMMA PublishAppends ==
  ASSUME RingInv, RingInv', NEW t \in Threads, PushPublish(t),
         TypeOK, TestsStayTrue, StepOfCall
  PROVE  /\ Count < Q_SIZE
         /\ arg[t] \in Packets
         /\ Content' = Append(Content, arg[t])
  <1>1. /\ arg[t] \in Packets
        /\ ~is_full
        /\ queue[rear] = arg[t].data
        /\ sizes' = [sizes EXCEPT ![rear] = arg[t].size]
        /\ rear' = next(rear)
        /\ UNCHANGED <<queue, front>>
    BY DEF PushPublish, TestsStayTrue, StepOfCall
  <1>2. Count \in 0..(Q_SIZE - 1)
    BY <1>1, CountBounds, FullIsFull, QSizeNat
  <1>3. rear = SlotAt(Count) /\ rear \in Slots
    BY DEF RingInv, RingWindow
  <1>4. arg[t].size \in 1..MAX_PKG_SIZE
    BY <1>1 DEF Packets, PacketSizes
  <1>5. Count' = Count + 1
    <2>1. sizes'[rear] = arg[t].size /\ \A k \in Slots \ {rear} : sizes'[k] = sizes[k]
      BY <1>1, <1>3 DEF RingInv
    <2> QED
      BY <1>1, <1>2, <1>3, <1>4, <2>1, QSizeNat, MaxSizeNat
         DEF Count, SlotAt, next, Slots, RingInv
  <1>6. \A i \in 0..Count : SlotAt(i)' = SlotAt(i)
    BY <1>1 DEF SlotAt
  <1>7. \A i \in 0..(Count - 1) : SlotAt(i) # rear
    BY <1>2, <1>3, QSizeNat DEF SlotAt, RingInv, Slots
  <1>8. ContentShape /\ ContentShape'
    BY ContentIsSeq, PTL
  <1>9. ASSUME NEW i \in 1..Count PROVE Content'[i] = Content[i]
    <2>1. SlotAt(i - 1)' = SlotAt(i - 1)
      BY <1>1 DEF SlotAt
    <2>2. sizes'[SlotAt(i - 1)] = sizes[SlotAt(i - 1)]
      BY <1>1, <1>2, <1>7, CountBounds, QSizeNat DEF RingInv
    <2>3. i \in 1..Count'
      BY <1>2, <1>5
    <2>4. Content'[i] = PacketIn(SlotAt(i - 1))'
      BY <2>3, <1>8 DEF ContentShape
    <2>5. Content[i] = PacketIn(SlotAt(i - 1))
      BY <1>8 DEF ContentShape
    <2> QED
      BY <1>1, <2>1, <2>2, <2>4, <2>5 DEF PacketIn
  <1>10. Content'[Count + 1] = arg[t]
    <2>1. sizes'[rear] = arg[t].size /\ queue'[rear] = arg[t].data
      BY <1>1, <1>3 DEF RingInv
    <2>2. SlotAt(Count - 1)' = rear
      BY <1>1, <1>2, <1>3, <1>5 DEF SlotAt
    <2>3. Content'[Count'] = PacketIn(SlotAt(Count - 1))'
      BY <1>2, <1>5, <1>8 DEF ContentShape
    <2>4. Content'[Count'] = [data |-> arg[t].data, size |-> arg[t].size]
      BY <2>1, <2>2, <2>3 DEF PacketIn
    <2> QED
      BY <1>1, <1>5, <2>4 DEF Packets
  <1> DEFINE S == [data : Data \cup {NoData}, size : 0..MAX_PKG_SIZE]
  <1>11. arg[t] \in S
    BY <1>1, MaxSizeNat DEF Packets, PacketSizes
  <1>12. /\ Content \in Seq(S) /\ Content' \in Seq(S)
         /\ Len(Content) = Count /\ Len(Content') = Count + 1
    BY <1>5, <1>8 DEF ContentShape
  <1> HIDE DEF S
  <1>13. Content' = Append(Content, arg[t])
    BY <1>9, <1>10, <1>11, <1>12, IsAppend
  <1> QED
    BY <1>1, <1>2, <1>13, QSizeNat

(* Advance removes the oldest packet.                                      *)
LEMMA AdvanceDrops ==
  ASSUME RingInv, RingInv', NEW t \in Threads, Advance(t), TestsStayTrue
  PROVE  Content' = Tail(Content)
  <1>1. /\ ~is_empty
        /\ sizes' = [sizes EXCEPT ![front] = 0]
        /\ front' = next(front)
        /\ UNCHANGED <<queue, rear>>
    BY DEF Advance, TestsStayTrue
  <1>2. Count \in 1..Q_SIZE
    BY <1>1, CountBounds, QSizeNat
  <1>3. /\ sizes \in [Slots -> 0..MAX_PKG_SIZE]
        /\ front \in Slots
        /\ rear \in Slots
        /\ rear = SlotAt(Count)
    BY DEF RingInv, RingWindow
  <1>4. Count' = Count - 1
    <2>1. sizes'[front] = 0 /\ \A k \in Slots \ {front} : sizes'[k] = sizes[k]
      BY <1>1, <1>3
    <2>2. next(front) \in Slots
      BY <1>3, NextIsSlot
    <2>3. sizes'[front'] # 0 <=> Count > 1
      BY <1>1, <1>2, <1>3, <2>1, <2>2, QSizeNat
         DEF RingInv, RingWindow, Offset, next, Slots
    <2> QED
      BY <1>1, <1>2, <1>3, <2>3, QSizeNat DEF Count, SlotAt, next, Slots
  <1>5. ContentShape /\ ContentShape'
    BY ContentIsSeq, PTL
  <1>6. ASSUME NEW i \in 1..(Count - 1) PROVE Content'[i] = Content[i + 1]
    <2>1. SlotAt(i - 1)' = SlotAt(i)
      BY <1>1, <1>2, <1>3, QSizeNat DEF SlotAt, next, Slots
    <2>2. SlotAt(i) \in Slots /\ SlotAt(i) # front
      BY <1>2, <1>3, QSizeNat DEF SlotAt, Slots
    <2>3. sizes'[SlotAt(i)] = sizes[SlotAt(i)]
      BY <1>1, <1>3, <2>2
    <2>4. Content'[i] = PacketIn(SlotAt(i - 1))'
      BY <1>4, <1>5 DEF ContentShape
    <2>5. Content[i + 1] = PacketIn(SlotAt(i))
      <3>1. i + 1 \in 1..Count /\ (i + 1) - 1 = i
        BY <1>2
      <3> QED
        BY <3>1, <1>5 DEF ContentShape
    <2> QED
      BY <1>1, <2>1, <2>3, <2>4, <2>5 DEF PacketIn
  <1> DEFINE S == [data : Data \cup {NoData}, size : 0..MAX_PKG_SIZE]
  <1>7. /\ Content \in Seq(S) /\ Content' \in Seq(S)
        /\ Len(Content) = Count /\ Len(Content') = Count - 1
    BY <1>4, <1>5 DEF ContentShape
  <1>8. Content # <<>>
    BY <1>1, ContentEnds
  <1> HIDE DEF S
  <1> QED
    BY <1>6, <1>7, <1>8, IsTail

(* The copy in push() changes no packet of the queue.                      *)
LEMMA CopyKeepsContent ==
  ASSUME RingInv, RingInv', NEW t \in Threads, PushCopy(t), TestsStayTrue
  PROVE  Content' = Content
  <1>1. /\ sizes[rear] = 0
        /\ queue' = [queue EXCEPT ![rear] = arg[t].data]
        /\ UNCHANGED <<sizes, front, rear>>
    BY DEF PushCopy, TestsStayTrue, is_full
  <1>2. Count' = Count /\ Count \in 0..Q_SIZE
    BY <1>1, CountBounds DEF Count
  <1>3. Count < Q_SIZE
    BY <1>1, <1>2, FullIsFull, QSizeNat DEF is_full
  <1>4. ASSUME NEW i \in 1..Count
        PROVE  SlotAt(i - 1)' = SlotAt(i - 1) /\ SlotAt(i - 1) # rear
    BY <1>1, <1>2, <1>3, QSizeNat DEF SlotAt, RingInv, RingWindow, Slots
  <1>5. ASSUME NEW i \in 1..Count
        PROVE  queue'[SlotAt(i - 1)] = queue[SlotAt(i - 1)]
    BY <1>1, <1>4 DEF RingInv
  <1> QED
    BY <1>1, <1>2, <1>4, <1>5 DEF Content
-----------------------------------------------------------------------------
(* A step that leaves the ring alone leaves the content alone.             *)
LEMMA SameRingSameContent ==
  ASSUME UNCHANGED ring PROVE Content' = Content
  BY DEF ring, Content, Count, SlotAt

(* The state init() leaves is the abstract initial state.                  *)
LEMMA InitSimulates == Init => Fifo!Init
  <1> SUFFICES ASSUME Init PROVE Fifo!Init
    OBVIOUS
  <1>1. QueueInv
    BY InitInv
  <1>2. RingInv
    BY <1>1, RingInvHolds
  <1>3. Count = 0
    BY <1>2, CountBounds, QSizeNat DEF Init, is_empty, Slots
  <1>4. Content = <<>>
    BY <1>2, <1>3, ContentIsSeq DEF ContentShape
  <1> QED
    BY <1>4 DEF Init, Fifo!Init, Status, Fifo!Status

(* The steps that produce a result or move a packet, one by one; all other *)
(* steps change neither the ring nor the latest result.                    *)
LEMMA StepSimulates ==
  ASSUME QueueInv, QueueInv', [Next]_vars
  PROVE  [Fifo!Next]_(Fifo!fifoVars)
  <1>1. RingInv /\ RingInv'
    BY RingInvHolds, PTL
  <1>2. TypeOK /\ TestsStayTrue /\ StepOfCall
    BY DEF QueueInv
  <1>3. ASSUME UNCHANGED ring, UNCHANGED ret PROVE UNCHANGED Fifo!fifoVars
    BY <1>3, SameRingSameContent DEF Fifo!fifoVars
  <1>4. is_empty => Content = <<>>
    BY <1>1, CountBounds, ContentIsSeq DEF ContentShape
  <1>5. is_full => Len(Content) = Q_SIZE
    BY <1>1, FullIsFull, ContentIsSeq DEF ContentShape
  <1> USE DEF Returns, Fifo!Returns, Status, Fifo!Status
  <1>6. ASSUME NEW t \in Threads, NEW n \in Sizes, PushRefuse(t, n)
        PROVE  Fifo!PutRefused(t)
    BY <1>6, SameRingSameContent DEF PushRefuse, Fifo!PutRefused
  <1>7. ASSUME NEW t \in Threads, PushTest(t)
        PROVE  Fifo!PutFull(t) \/ UNCHANGED Fifo!fifoVars
    BY <1>7, <1>3, <1>5, SameRingSameContent DEF PushTest, Fifo!PutFull
  <1>8. ASSUME NEW t \in Threads, PushPublish(t)
        PROVE  arg[t] \in Packets /\ Fifo!Put(t, arg[t])
    <2>1. /\ Count < Q_SIZE
          /\ arg[t] \in Packets
          /\ Content' = Append(Content, arg[t])
      BY <1>1, <1>2, <1>8, PublishAppends
    <2>2. Len(Content) = Count
      BY <1>1, ContentIsSeq DEF ContentShape
    <2> QED
      BY <1>8, <2>1, <2>2 DEF PushPublish, Fifo!Put
  <1>9. ASSUME NEW t \in Threads, PushCopy(t)
        PROVE  UNCHANGED Fifo!fifoVars
    BY <1>1, <1>2, <1>9, CopyKeepsContent DEF PushCopy, Fifo!fifoVars
  <1>10. ASSUME NEW t \in Threads, Advance(t)
         PROVE  Fifo!Take(t) \/ Fifo!DropFront(t)
    <2>1. ~is_empty /\ (op[t] = "pop" => buff[t] = queue[front])
      BY <1>2, <1>10 DEF Advance, TestsStayTrue
    <2>2. Content # <<>> /\ Head(Content) = PacketIn(front)
      BY <1>1, <2>1, ContentEnds
    <2>3. Content' = Tail(Content)
      BY <1>1, <1>2, <1>10, AdvanceDrops
    <2> QED
      BY <1>10, <2>1, <2>2, <2>3
         DEF Advance, PacketIn, Fifo!Take, Fifo!DropFront
  <1>11. ASSUME NEW t \in Threads, PeekTest(t)
         PROVE  Fifo!FoundEmpty(t) \/ UNCHANGED Fifo!fifoVars
    BY <1>11, <1>3, <1>4, SameRingSameContent DEF PeekTest, Fifo!FoundEmpty
  <1>12. ASSUME NEW t \in Threads, PeekCopy(t)
         PROVE  Fifo!PeekFront(t) \/ Fifo!PeekBack(t)
    <2>1. ~is_empty
      BY <1>2, <1>12 DEF PeekCopy, TestsStayTrue
    <2>2. /\ Content # <<>>
          /\ Head(Content) = PacketIn(front)
          /\ Content[Len(Content)] = PacketIn(last(rear))
      BY <1>1, <2>1, ContentEnds
    <2> QED
      BY <1>12, <2>2, SameRingSameContent
         DEF PeekCopy, PacketIn, Fifo!PeekFront, Fifo!PeekBack
  <1>13. ASSUME NEW t \in Threads, CondWaitFails(t)
         PROVE  Fifo!FoundEmpty(t)
    <2>1. is_empty
      BY <1>2, <1>13 DEF CondWaitFails, TestsStayTrue
    <2> QED
      BY <1>4, <1>13, <2>1, SameRingSameContent
         DEF CondWaitFails, Fifo!FoundEmpty
  <1>14. ASSUME NEW t \in Threads,
                \/ \E d \in Data, n \in Sizes : PushCall(t, d, n)
                \/ \E f \in Calls[t] : ReadCall(t, f)
                \/ send_signal_queue(t) \/ SpuriousWakeup(t)
                \/ Lock(t) \/ Unlock(t) \/ CondWait(t) \/ Wake(t)
                \/ PushSignal(t) \/ PopTest(t) \/ RemoveTest(t) \/ PopCopy(t)
         PROVE  UNCHANGED Fifo!fifoVars
    <2>1. UNCHANGED ring /\ UNCHANGED ret
      BY <1>14 DEF PushCall, ReadCall, send_signal_queue, SpuriousWakeup, Lock,
           Unlock, CondWait, Wake, PushSignal, PopTest, RemoveTest, PopCopy, ring
    <2> QED
      BY <2>1, <1>3
  <1>15. CASE UNCHANGED vars
    BY <1>15, <1>3 DEF vars, ring
  <1>16. ASSUME NEW t \in Threads, Call(t) \/ Step(t) \/ SpuriousWakeup(t)
         PROVE  Fifo!Next \/ UNCHANGED Fifo!fifoVars
    <2> HIDE DEF Returns, Fifo!Returns, Status, Fifo!Status
    <2> QED
      BY <1>16, <1>6, <1>7, <1>8, <1>9, <1>10, <1>11, <1>12, <1>13, <1>14
         DEF Call, Step, Fifo!Next
  <1> QED
    BY <1>15, <1>16 DEF Next

(* The ring, the mutex and the condition variable of queue.c implement a   *)
(* bounded FIFO queue whose operations are atomic: for every set of        *)
(* threads, every mix of calls, every ring size and every set of packets.  *)
THEOREM QueueIsBoundedFifo == Spec => FifoSpec
  BY QueueInvariant, InitSimulates, StepSimulates, PTL
     DEF Spec, FifoSpec, Fifo!Spec
=============================================================================
